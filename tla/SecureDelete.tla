----------------------------- MODULE SecureDelete -----------------------------
(***************************************************************************)
(* The shredding of one source file, secure_delete_inner and the           *)
(* QuarantinedFile it works on (src/src/secure_fs.rs). As in AtomicOutput  *)
(* an action is one system call with the code up to the next one.          *)
(***************************************************************************)
EXTENDS FileSystem, Naturals

CONSTANTS
    Source,         \* the path to shred
    Expected,       \* the holder of the handle the caller opened the source with
    Shredding,      \* the holder of the file being overwritten
    MaxTries,       \* attempts at an unused random name, 128 in the code
    MaxFaults       \* bound on the I/O errors of one run

ASSUME ShredAssumption ==
    /\ Source \in UserNames
    /\ {Expected, Shredding} \subseteq Holders
    /\ MaxTries \in Nat \ {0}
    /\ MaxFaults \in Nat

VARIABLES
    pc,
    quarantine,     \* QuarantinedFile.quarantine, or None
    tries,          \* names found taken by the loop
    passes,         \* overwriting passes done
    faults          \* I/O errors so far

local == <<pc, quarantine, tries, passes, faults>>
vars == <<fs, local>>

Labels ==
    {"stat", "open", "match", "withdraw", "reopen", "links",
     "overwrite", "sync", "confirm", "remove", "syncremoval", "restore",
     "done", "failed", "crashed"}
Ended == {"done", "failed", "crashed"}

Goto(label) == pc' = label

\* The loop over random names runs 128 times: 0..128.
LastTryLate == tries >= MaxTries        \* faulty: one time too many
LastTry == tries + 1 >= MaxTries

\* expected_handle is closed last, when nothing is compared any more: the model
\* leaves it open.
Unwind ==
    /\ pc' = IF quarantine # None THEN "restore" ELSE "failed"
    /\ UNCHANGED <<open, quarantine, tries, passes>>

Refuse == Unwind /\ UNCHANGED <<dir, images, files, moves, born, discarded, faults>>

-------------------------------------------------------------------------------
(* verified_source_file, and the comparison with the caller's handle.      *)

Stat ==
    /\ pc = "stat"
    /\ \/ ~IsRegular(Source) /\ Refuse
       \/ /\ IsRegular(Source)
          /\ Goto("open")
          /\ UNCHANGED <<fs, quarantine, tries, passes, faults>>

Open ==
    /\ pc = "open"
    /\ \/ ~IsRegular(Source) /\ Refuse
       \/ /\ OpenNoFollow(Shredding, Source)
          /\ Goto("match")
          /\ UNCHANGED <<dir, images, files, moves, born, discarded>>
          /\ UNCHANGED <<quarantine, tries, passes, faults>>

Match ==
    /\ pc = "match"
    /\ LET same == PathMatches(Source, Shredding) /\ open[Shredding] = open[Expected]
       IN  \/ ~same /\ Refuse
           \/ /\ same
              /\ Goto("withdraw")
              /\ UNCHANGED <<fs, quarantine, tries, passes, faults>>

\* QuarantinedFile::new.
Withdraw ==
    /\ pc = "withdraw"
    /\ \/ ~Present(Source) /\ Refuse
       \/ \E t \in TempNames :
            \/ /\ RenameNoReplace(Source, t)
               /\ quarantine' = t
               /\ Goto("reopen")
               /\ UNCHANGED <<open, tries, passes, faults>>
            \/ /\ Present(Source)
               /\ Present(t)
               /\ ~LastTry
               /\ tries' = tries + 1
               /\ UNCHANGED <<fs, pc, quarantine, passes, faults>>
            \/ Present(Source) /\ Present(t) /\ LastTry /\ Refuse

\* The quarantined file must be the one verified: opened for writing without
\* following a link, then compared by identity.
Reopen ==
    /\ pc = "reopen"
    /\ LET same == IsRegular(quarantine) /\ dir[quarantine] = open[Shredding]
       IN  \/ ~same /\ Refuse
           \/ /\ same
              /\ Goto("links")
              /\ UNCHANGED <<fs, quarantine, tries, passes, faults>>

CountLinksIgnored ==    \* faulty: the count is not compared with one
    /\ pc = "links"
    /\ Goto("overwrite")
    /\ UNCHANGED <<fs, quarantine, tries, passes, faults>>

\* hard_link_count, taken when no name but the quarantine can be added.
CountLinks ==
    /\ pc = "links"
    /\ LET sole == LinkCount(open[Shredding]) = 1
       IN  \/ ~sole /\ Refuse
           \/ /\ sole
              /\ Goto("overwrite")
              /\ UNCHANGED <<fs, quarantine, tries, passes, faults>>

\* Three passes over the file, each synced. A write that fails after the first
\* bytes is an error of the step below.
Overwrite ==
    /\ pc = "overwrite"
    /\ WriteFile(open[Shredding], "noise")
    /\ Goto("sync")
    /\ UNCHANGED <<open, quarantine, tries, passes, faults>>

SyncPassSkipped ==      \* faulty: the pass is not synced
    /\ pc = "sync"
    /\ passes' = passes + 1
    /\ Goto(IF passes + 1 < 3 THEN "overwrite" ELSE "confirm")
    /\ UNCHANGED <<fs, quarantine, tries, faults>>

SyncPass ==
    /\ pc = "sync"
    /\ SyncFile(open[Shredding])
    /\ passes' = passes + 1
    /\ Goto(IF passes + 1 < 3 THEN "overwrite" ELSE "confirm")
    /\ UNCHANGED <<open, quarantine, tries, faults>>

\* The name must still lead to the file overwritten.
Confirm ==
    /\ pc = "confirm"
    /\ LET same == ~IsLink(quarantine) /\ PathMatches(quarantine, Shredding)
       IN  \/ ~same /\ Refuse
           \/ /\ same
              /\ Goto("remove")
              /\ UNCHANGED <<fs, quarantine, tries, passes, faults>>

\* QuarantinedFile::remove.
Remove ==
    /\ pc = "remove"
    /\ Unlink(quarantine)
    /\ Goto("syncremoval")
    /\ UNCHANGED <<open, quarantine, tries, passes, faults>>

SyncRemoval ==
    /\ pc = "syncremoval"
    /\ SyncDirectory
    /\ Goto("done")
    /\ UNCHANGED <<open, quarantine, tries, passes, faults>>

-------------------------------------------------------------------------------
RestoreReplacing ==     \* faulty: an ordinary rename, over what has come meanwhile
    /\ pc = "restore"
    /\ Present(quarantine)
    /\ Journal(Renaming(quarantine, Source))
    /\ Goto("failed")
    /\ UNCHANGED <<files, open, moves, born, discarded, quarantine, tries, passes, faults>>

RestoreForgotten ==     \* faulty: dropped like any other value
    /\ pc = "restore"
    /\ Goto("failed")
    /\ UNCHANGED <<fs, quarantine, tries, passes, faults>>

\* QuarantinedFile::restore; its own failure is ignored.
Restore ==
    /\ pc = "restore"
    /\ \/ /\ Resolve(Source) = None
          /\ RenameNoReplace(quarantine, Source)
       \/ /\ Resolve(Source) # None \/ ~CanRename(quarantine, Source)
          /\ UNCHANGED <<dir, images, files, moves, born, discarded>>
    /\ Goto("failed")
    /\ UNCHANGED <<open, quarantine, tries, passes, faults>>

IoError ==
    /\ faults < MaxFaults
    /\ faults' = faults + 1
    /\ pc \notin {"restore"} \cup Ended
    /\ Unwind
    /\ UNCHANGED <<dir, images, files, moves, born, discarded>>

IgnoredError ==
    /\ faults < MaxFaults
    /\ faults' = faults + 1
    /\ pc = "restore"
    /\ Goto("failed")
    /\ UNCHANGED <<fs, quarantine, tries, passes>>

-------------------------------------------------------------------------------
\* Killed, or the machine stops. Used where the deletion runs on its own.
Crash ==
    /\ pc \notin Ended
    /\ PowerLoss
    /\ Goto("crashed")
    /\ UNCHANGED <<quarantine, tries, passes, faults>>

Others == pc \notin Ended /\ OthersNext /\ UNCHANGED local

Over == pc \in Ended /\ UNCHANGED vars

LocalInit ==
    /\ pc = "stat"
    /\ quarantine = None
    /\ tries = 0
    /\ passes = 0
    /\ faults = 0

\* The caller has just opened the source.
Init ==
    /\ FilesInit
    /\ IsRegular(Source)
    /\ open = [h \in Holders |-> IF h = Expected THEN dir[Source] ELSE None]
    /\ LocalInit

Step ==
    \/ Stat \/ Open \/ Match \/ Withdraw \/ Reopen \/ CountLinks
    \/ Overwrite \/ SyncPass \/ Confirm \/ Remove \/ SyncRemoval
    \/ Restore \/ IoError \/ IgnoredError

Next == Step \/ Others \/ Crash \/ Over

Spec == Init /\ [][Next]_vars

-------------------------------------------------------------------------------
TypeOK ==
    /\ FileSystemTypeOK
    /\ pc \in Labels
    /\ quarantine \in TempNames \cup {None}
    /\ tries \in 0 .. MaxTries - 1
    /\ passes \in 0 .. 3
    /\ faults \in 0 .. MaxFaults

\* A file is overwritten only while it is the one the caller read and the
\* quarantine is its one name: no link others made since the check, and no file
\* put in the source's place, is ever hit.
SoleNameOverwritten ==
    [][\A i \in Inodes : files'[i].data = "noise" =>
            \/ files[i].data = "noise"
            \/ i = open[Expected] /\ {n \in Names : dir[n] = i} = {quarantine}]_vars

\* Only an overwritten file loses its content, and only one does: withdrawing,
\* refusing and restoring cost the user nothing, whatever others do meanwhile.
OnlySourceLost ==
    Cardinality({d \in born \ discarded : ~Linked(d)}) <=
        IF passes = 3 \/ \E i \in Inodes : files[i].data = "noise" THEN 1 ELSE 0

\* A deletion that fails leaves no file of the user's under a temporary name:
\* what it withdrew is put back, whichever check refused it, and also when it is
\* overwritten and its removal fails. The exceptions are a name that others have
\* taken, and a restore that fails: a second I/O error once only an error can end
\* the passes, else the first.
PutBack ==
    /\ pc = "failed" /\ quarantine # None /\ Present(quarantine)
    /\ faults <= IF passes > 0 THEN 1 ELSE 0
    => Present(Source)
===============================================================================
