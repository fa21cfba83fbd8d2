----------------------------- MODULE AtomicOutput -----------------------------
(***************************************************************************)
(* One output file of Ironlock, from AtomicOutput::new to the end of       *)
(* AtomicOutput::commit and the Drop impls of AtomicOutput and             *)
(* QuarantinedFile (src/src/secure_fs.rs). An action is one system call    *)
(* with the code up to the next one; the other processes of the user act   *)
(* between any two, any call may fail, and the power may go at any time.   *)
(*                                                                         *)
(* pc names the call about to be made. An early return drops the           *)
(* quarantine first and the output second, hence "restore" then "cleanup". *)
(***************************************************************************)
EXTENDS FileSystem, Naturals

CONSTANTS
    Dest,           \* the destination path
    Observed,       \* the holder AtomicOutput.observed_destination
    MaxTries,       \* attempts at an unused random name, 128 in the code
    MaxFaults       \* bound on the I/O errors of one run

ASSUME OutputAssumption ==
    /\ Dest \in UserNames
    /\ Observed \in Holders
    /\ MaxTries \in Nat \ {0}
    /\ MaxFaults \in Nat

VARIABLES
    pc,
    force,          \* --force
    temp,           \* AtomicOutput.temp_path, or None before it exists
    quarantine,     \* QuarantinedFile.quarantine, or None
    committed,      \* AtomicOutput.committed
    tries,          \* names found taken by the current loop
    faults,         \* I/O errors so far
    cleared,        \* history: contents the overwrite checks let pass
    asked,          \* history: the prompt was answered yes
    swallowed       \* history: an ignored error left the cleanup undone

names == <<temp, quarantine, tries>>
history == <<cleared, asked, swallowed>>
local == <<pc, force, names, committed, faults, history>>
vars == <<fs, local>>

Labels ==
    {"stat", "open", "check", "prompt", "recheck", "create",    \* new
     "write", "sync",                                           \* encrypt_stream
     "withdraw", "verify", "absent", "install", "syncdir",      \* commit
     "remove", "syncremoval",
     "restore", "cleanup",                                      \* Drop
     "done", "failed", "crashed"}
Ended == {"done", "failed", "crashed"}

observed == open[Observed]

Goto(label) == pc' = label

\* The loops over random names run 128 times: 0..128.
LastTryLate == tries >= MaxTries        \* faulty: one time too many
LastTry == tries + 1 >= MaxTries

UnwindKeepingTemp ==    \* faulty: the output is not dropped
    /\ pc' = IF quarantine # None THEN "restore" ELSE "failed"
    /\ Hold(Observed, None)
    /\ UNCHANGED <<force, names, committed, history>>

\* An early return: drop what is owned by then, the quarantined file first. The
\* observed handle goes at once; nothing is compared with it any more.
Unwind ==
    /\ pc' = IF quarantine # None THEN "restore"
             ELSE IF temp # None THEN "cleanup" ELSE "failed"
    /\ Hold(Observed, None)
    /\ UNCHANGED <<force, names, committed, history>>

Refuse == Unwind /\ UNCHANGED <<dir, images, files, moves, born, discarded, faults>>

-------------------------------------------------------------------------------
(* AtomicOutput::new, after ensure_safe_directory: the parent exists.      *)

Stat ==
    /\ pc = "stat"
    /\ \/ IsLink(Dest) /\ Refuse
       \/ /\ ~IsLink(Dest)
          /\ Goto(IF Present(Dest) THEN "open" ELSE "create")
          /\ UNCHANGED <<fs, force, names, committed, faults, history>>

OpenObserved ==
    /\ pc = "open"
    /\ \/ Resolve(Dest) = None /\ Refuse
       \/ /\ Resolve(Dest) # None
          /\ Hold(Observed, Resolve(Dest))
          /\ Goto("check")
          /\ UNCHANGED <<dir, images, files, moves, born, discarded>>
          /\ UNCHANGED <<force, names, committed, faults, history>>

\* check_overwrite up to the prompt. An absent destination passes.
Check ==
    /\ pc = "check"
    /\ \/ IsLink(Dest) /\ Refuse
       \/ /\ ~IsLink(Dest)
          /\ Goto(IF Present(Dest) /\ ~force THEN "prompt" ELSE "recheck")
          /\ UNCHANGED <<fs, force, names, committed, faults, history>>

\* prompt_confirmation: anything but yes is Cancelled.
Prompt ==
    /\ pc = "prompt"
    /\ \/ Refuse
       \/ /\ Goto("recheck")
          /\ asked' = TRUE
          /\ UNCHANGED <<fs, force, names, committed, faults, cleared, swallowed>>

Recheck ==
    /\ pc = "recheck"
    /\ \/ Resolve(Dest) # observed /\ Refuse
       \/ /\ Resolve(Dest) = observed
          /\ Goto("create")
          /\ cleared' = {files[observed].data}
          /\ UNCHANGED <<fs, force, names, committed, faults, asked, swallowed>>

\* create_private_temp.
CreateTemp ==
    /\ pc = "create"
    /\ \E t \in TempNames :
        \/ /\ CreatePrivate(t)
           /\ temp' = t
           /\ tries' = 0
           /\ Goto("write")
           /\ UNCHANGED <<force, quarantine, committed, faults, history>>
        \/ /\ Present(t)
           /\ ~LastTry
           /\ tries' = tries + 1
           /\ UNCHANGED <<fs, pc, force, temp, quarantine, committed, faults, history>>
        \/ Present(t) /\ LastTry /\ Refuse

-------------------------------------------------------------------------------
(* The caller writes the ciphertext or plaintext through writer(); it may  *)
(* stop early with an error of its own.                                    *)

Write ==
    /\ pc = "write"
    /\ \/ Refuse
       \/ /\ WriteFile(dir[temp], "partial")
          /\ Goto("write")
          /\ UNCHANGED <<open, force, names, committed, faults, history>>
       \/ /\ WriteFile(dir[temp], "whole")
          /\ Goto("sync")
          /\ UNCHANGED <<open, force, names, committed, faults, history>>

-------------------------------------------------------------------------------
(* AtomicOutput::commit.                                                   *)

SyncOutputSkipped ==    \* faulty: flushed, never synced
    /\ pc = "sync"
    /\ Goto(IF observed # None THEN "withdraw" ELSE "absent")
    /\ UNCHANGED <<fs, force, names, committed, faults, history>>

\* flush, sync_all, close.
SyncOutput ==
    /\ pc = "sync"
    /\ SyncFile(dir[temp])
    /\ Goto(IF observed # None THEN "withdraw" ELSE "absent")
    /\ UNCHANGED <<open, force, names, committed, faults, history>>

\* QuarantinedFile::new.
Withdraw ==
    /\ pc = "withdraw"
    /\ \/ ~Present(Dest) /\ Refuse
       \/ \E t \in TempNames :
            \/ /\ RenameNoReplace(Dest, t)
               /\ quarantine' = t
               /\ Goto("verify")
               /\ UNCHANGED <<open, force, temp, tries, committed, faults, history>>
            \/ /\ Present(Dest)
               /\ Present(t)
               /\ ~LastTry
               /\ tries' = tries + 1
               /\ UNCHANGED <<fs, pc, force, temp, quarantine, committed, faults, history>>
            \/ Present(Dest) /\ Present(t) /\ LastTry /\ Refuse

VerifySkipped ==        \* faulty: whatever was moved aside is taken for observed
    /\ pc = "verify"
    /\ Goto("install")
    /\ UNCHANGED <<fs, force, names, committed, faults, history>>

\* The file moved aside must be the one observed; opening it follows a link.
Verify ==
    /\ pc = "verify"
    /\ \/ Resolve(quarantine) # observed /\ Refuse
       \/ /\ Resolve(quarantine) = observed
          /\ Goto("install")
          /\ UNCHANGED <<fs, force, names, committed, faults, history>>

\* With nothing observed the destination must still be absent.
Absent ==
    /\ pc = "absent"
    /\ \/ Present(Dest) /\ Refuse
       \/ /\ ~Present(Dest)
          /\ Goto("install")
          /\ UNCHANGED <<fs, force, names, committed, faults, history>>

InstallReplacing ==     \* faulty: a plain rename, over whatever is there by now
    /\ pc = "install"
    /\ Journal(Renaming(temp, Dest))
    /\ UNCHANGED <<files, moves, born, discarded>>
    /\ Hold(Observed, None)
    /\ Goto("syncdir")
    /\ UNCHANGED <<force, names, committed, faults, history>>

Install ==
    /\ pc = "install"
    /\ \/ ~CanRename(temp, Dest) /\ Refuse
       \/ /\ RenameNoReplace(temp, Dest)
          /\ Hold(Observed, None)
          /\ Goto("syncdir")
          /\ UNCHANGED <<force, names, committed, faults, history>>

SyncParentSkipped ==    \* faulty: the rename is not synced
    /\ pc = "syncdir"
    /\ committed' = TRUE
    /\ Goto(IF quarantine # None THEN "remove" ELSE "done")
    /\ UNCHANGED <<fs, force, names, faults, history>>

SyncParent ==
    /\ pc = "syncdir"
    /\ SyncDirectory
    /\ committed' = TRUE
    /\ Goto(IF quarantine # None THEN "remove" ELSE "done")
    /\ UNCHANGED <<open, force, names, faults, history>>

\* QuarantinedFile::remove.
Remove ==
    /\ pc = "remove"
    /\ Unlink(quarantine)
    /\ Goto("syncremoval")
    /\ UNCHANGED <<open, force, names, committed, faults, history>>

SyncRemoval ==
    /\ pc = "syncremoval"
    /\ SyncDirectory
    /\ Goto("done")
    /\ UNCHANGED <<open, force, names, committed, faults, history>>

-------------------------------------------------------------------------------
(* The Drop impls. Their own errors are ignored.                           *)

RestoreInsisting ==     \* faulty: waits until the old name is free
    /\ pc = "restore"
    /\ Resolve(Dest) = None
    /\ RenameNoReplace(quarantine, Dest)
    /\ Goto(IF temp # None THEN "cleanup" ELSE "failed")
    /\ UNCHANGED <<open, force, names, committed, faults, history>>

RestoreForgotten ==     \* faulty: dropped like any other value
    /\ pc = "restore"
    /\ Goto(IF temp # None THEN "cleanup" ELSE "failed")
    /\ UNCHANGED <<fs, force, names, committed, faults, history>>

\* QuarantinedFile::restore; exists() follows a link.
Restore ==
    /\ pc = "restore"
    /\ \/ /\ Resolve(Dest) = None
          /\ RenameNoReplace(quarantine, Dest)
       \/ /\ Resolve(Dest) # None \/ ~CanRename(quarantine, Dest)
          /\ UNCHANGED <<dir, images, files, moves, born, discarded>>
    /\ Goto(IF temp # None THEN "cleanup" ELSE "failed")
    /\ UNCHANGED <<open, force, names, committed, faults, history>>

\* AtomicOutput::drop.
Cleanup ==
    /\ pc = "cleanup"
    /\ \/ /\ ~committed
          /\ Unlink(temp)
       \/ /\ committed \/ ~Present(temp)
          /\ UNCHANGED <<dir, images, files, moves, born, discarded>>
    /\ Goto("failed")
    /\ UNCHANGED <<open, force, names, committed, faults, history>>

-------------------------------------------------------------------------------
(* Any call may fail; so may those of the Drop impls, to no effect.        *)

IoError ==
    /\ faults < MaxFaults
    /\ faults' = faults + 1
    /\ pc \notin {"write", "restore", "cleanup"} \cup Ended
    /\ Unwind
    /\ UNCHANGED <<dir, images, files, moves, born, discarded>>

IgnoredError ==
    /\ faults < MaxFaults
    /\ faults' = faults + 1
    /\ pc \in {"restore", "cleanup"}
    /\ Goto(IF pc = "restore" /\ temp # None THEN "cleanup" ELSE "failed")
    /\ swallowed' = TRUE
    /\ UNCHANGED <<fs, force, names, committed, cleared, asked>>

\* The process is killed or the machine stops.
Crash ==
    /\ pc \notin Ended
    /\ PowerLoss
    /\ Goto("crashed")
    /\ UNCHANGED <<force, names, committed, faults, history>>

-------------------------------------------------------------------------------

Init ==
    /\ FileSystemInit
    /\ pc = "stat"
    /\ force \in BOOLEAN
    /\ temp = None
    /\ quarantine = None
    /\ committed = FALSE
    /\ tries = 0
    /\ faults = 0
    /\ cleared = {}
    /\ asked = FALSE
    /\ swallowed = FALSE

Step ==
    \/ Stat \/ OpenObserved \/ Check \/ Prompt \/ Recheck \/ CreateTemp
    \/ Write
    \/ SyncOutput \/ Withdraw \/ Verify \/ Absent \/ Install
    \/ SyncParent \/ Remove \/ SyncRemoval
    \/ Restore \/ Cleanup
    \/ IoError \/ IgnoredError

Others == pc \notin Ended /\ OthersNext /\ UNCHANGED local

Over == pc \in Ended /\ UNCHANGED vars

Next == Step \/ Others \/ Crash \/ Over

Spec == Init /\ [][Next]_vars

-------------------------------------------------------------------------------
TypeOK ==
    /\ FileSystemTypeOK
    /\ pc \in Labels
    /\ force \in BOOLEAN
    /\ temp \in TempNames \cup {None}
    /\ quarantine \in TempNames \cup {None}
    /\ committed \in BOOLEAN
    /\ tries \in 0 .. MaxTries - 1
    /\ faults \in 0 .. MaxFaults
    /\ cleared \in SUBSET Data
    /\ asked \in BOOLEAN
    /\ swallowed \in BOOLEAN

\* Under a name the user sees, output is complete and on the medium: commit
\* installs what was synced and nothing else, whatever a power cut keeps.
DestinationAtomic ==
    \A image \in images \cup {dir} : \A n \in UserNames :
        image[n] # None /\ files[image[n]].data \in OutputData
            => files[image[n]] = [data |-> "whole", stable |-> "whole"]

\* A content the user did not remove keeps a name. The one exception is the
\* file the overwrite check let pass, once the output is installed.
NoDataLost ==
    \A d \in born \ discarded :
        Linked(d) \/ (d \in cleared /\ (Linked("whole") \/ "whole" \in discarded))

\* A run that fails leaves no file of the user's under a temporary name: what
\* commit moved aside is put back. The exceptions are a name that others have
\* taken, or taken and left again (two changes), an output installed before the
\* failure, and a restore whose error Drop ignores.
PutBack ==
    pc = "failed" /\ ~swallowed /\ quarantine # None /\ Present(quarantine) =>
        \/ Present(Dest) \/ moves > 1
        \/ Linked("whole") \/ "whole" \in discarded

\* However the run ends, short of a crash, it leaves no temporary file of its
\* own, unless the one remove_file whose error Drop ignores has failed.
NoTempLeft ==
    pc \in {"done", "failed"} /\ ~swallowed =>
        /\ temp # None => ~Present(temp)
        /\ pc = "done" /\ quarantine # None => ~Present(quarantine)

\* commit returns Ok only for what a power cut can no longer take back.
CommitIsDurable ==
    pc = "done" /\ "whole" \notin discarded =>
        \A image \in images : \E n \in Names :
            image[n] # None /\ files[image[n]].stable = "whole"

\* A committed run has put the user's consent to use: nothing leaves its name
\* for good without --force or a yes (README: --force replaces "without
\* prompting", so without it there is a prompt).
ReplacedOnlyWhenAsked ==
    \A d \in born \ discarded : ~Linked(d) => force \/ asked

\* A temporary name left by a crash leads to an owner-only file, one that
\* create_private_temp made (README, Interrupted writes).
LeftoverIsOwnerOnly ==
    pc = "crashed" => \A n \in {temp, quarantine} \ {None} :
        Present(n) => files[dir[n]].data \in OutputData

\* The program removes no symbolic link of the user (README: links are
\* rejected).
NoLinkRemoved ==
    [][pc = "remove" /\ dir' # dir /\ pc' = "syncremoval" => ~IsLink(quarantine)]_vars

-------------------------------------------------------------------------------
(* What the directory promises its users: see AtomicReplace.               *)

Showing(n) == IF Present(n) THEN files[dir[n]].data ELSE None

Progress ==
    IF pc \in Ended THEN pc
    ELSE IF pc \in {"restore", "cleanup"} THEN "undone"
    ELSE IF committed THEN "committed"
    ELSE IF pc = "syncdir" THEN "installed"
    ELSE "open"

Replace == INSTANCE AtomicReplace WITH
    Names <- UserNames, Contents <- Data, Links <- UserNames, New <- "whole",
    shown <- [n \in UserNames |-> Showing(n)],
    aside <- IF quarantine = None THEN None ELSE Showing(quarantine),
    consent <- cleared,
    outcome <- Progress

\* AtomicOutput::new, commit and the two Drop impls implement AtomicReplace:
\* under the names others use they change nothing but Dest, from the old content
\* to none, from none to the output or back to the old content; the old content
\* goes for good only after the checks have let it pass and the output is
\* durable; a power cut keeps one of the two.
OutputReplaces ==
    /\ Replace!Spec
    /\ [][Others \/ Replace!Own \/ Replace!Crash]_(Replace!promised)
===============================================================================
