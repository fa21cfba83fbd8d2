------------------------------ MODULE EncryptFile ------------------------------
(***************************************************************************)
(* encrypt_file_to_path (src/src/secure_fs.rs): open the source, write its *)
(* ciphertext through an AtomicOutput, and with --shred destroy the source *)
(* once the ciphertext is committed. The two parts are instances of their  *)
(* own modules over one file system; this module adds what comes before,   *)
(* between and after them.                                                 *)
(***************************************************************************)
EXTENDS FileSystem, Naturals

CONSTANTS
    Source, Dest,                       \* an EncryptionPlan
    Reading, Observed, Shredding,       \* holders: source, destination, shredded file
    MaxTries, MaxFaults

ASSUME EncryptAssumption ==
    /\ {Source, Dest} \subseteq UserNames
    /\ Source # Dest
    /\ {Reading, Observed, Shredding} \subseteq Holders
    /\ Reading \notin {Observed, Shredding} /\ Observed # Shredding
    /\ MaxTries \in Nat \ {0}
    /\ MaxFaults \in Nat

VARIABLES
    stage,          \* where encrypt_file_to_path is
    shred,          \* --shred
    encrypted,      \* history: the contents read from the open source, or None
    outPc, force, temp, aside, committed, outTries, cleared, asked, swallowed,
    delPc, quarantine, delTries, passes,
    faults          \* I/O errors so far, of both parts

outLocal == <<outPc, force, temp, aside, committed, outTries, cleared, asked, swallowed>>
delLocal == <<delPc, quarantine, delTries, passes>>
vars == <<fs, stage, shred, encrypted, outLocal, delLocal, faults>>

Output == INSTANCE AtomicOutput
            WITH pc <- outPc, quarantine <- aside, tries <- outTries

Delete == INSTANCE SecureDelete
            WITH pc <- delPc, tries <- delTries, Expected <- Reading

Stages == {"same", "stat", "open", "match", "output", "shred", "done", "failed", "crashed"}
Ended == {"done", "failed", "crashed"}

Goto(label) == stage' = label
Quiet == UNCHANGED <<dir, images, files, moves, born, discarded>>
Fail ==
    /\ Goto("failed")
    /\ open' = [h \in Holders |-> None]
    /\ Quiet
    /\ UNCHANGED <<shred, encrypted, outLocal, delLocal>>

-------------------------------------------------------------------------------
\* paths_refer_to_same_file, then the calls of verified_source_file. The lookups
\* of the first are one step: others may undo what it found right after it.
CheckDistinct ==
    /\ stage = "same"
    /\ LET distinct == \/ ~Present(Dest)
                       \/ /\ ~IsLink(Dest)
                          /\ Resolve(Source) # None
                          /\ Resolve(Source) # Resolve(Dest)
       IN  \/ ~distinct /\ Fail /\ UNCHANGED faults
           \/ /\ distinct
              /\ Goto("stat")
              /\ UNCHANGED <<fs, shred, encrypted, outLocal, delLocal, faults>>

StatSource ==
    /\ stage = "stat"
    /\ \/ ~IsRegular(Source) /\ Fail /\ UNCHANGED faults
       \/ /\ IsRegular(Source)
          /\ Goto("open")
          /\ UNCHANGED <<fs, shred, encrypted, outLocal, delLocal, faults>>

OpenSource ==
    /\ stage = "open"
    /\ \/ ~IsRegular(Source) /\ Fail /\ UNCHANGED faults
       \/ /\ OpenNoFollow(Reading, Source)
          /\ Goto("match")
          /\ Quiet
          /\ UNCHANGED <<shred, encrypted, outLocal, delLocal, faults>>

MatchSource ==
    /\ stage = "match"
    /\ \/ ~PathMatches(Source, Reading) /\ Fail /\ UNCHANGED faults
       \/ /\ PathMatches(Source, Reading)
          /\ Goto("output")
          /\ encrypted' = files[open[Reading]].data
          /\ UNCHANGED <<fs, shred, outLocal, delLocal, faults>>

WriteOutputUnchecked ==     \* faulty: the source is shredded whatever commit says
    /\ stage = "output"
    /\ Output!Step
    /\ stage' = IF outPc' \notin {"done", "failed"} THEN "output"
                ELSE IF shred THEN "shred" ELSE outPc'
    /\ UNCHANGED <<shred, encrypted, delLocal>>

\* AtomicOutput::new, encrypt_stream, commit and the Drop impls.
WriteOutput ==
    /\ stage = "output"
    /\ Output!Step
    /\ stage' = CASE outPc' = "failed" -> "failed"
                  [] outPc' = "done" -> IF shred THEN "shred" ELSE "done"
                  [] OTHER -> "output"
    /\ UNCHANGED <<shred, encrypted, delLocal>>

\* secure_delete_inner with the handle kept since the source was opened.
ShredSource ==
    /\ stage = "shred"
    /\ Delete!Step
    /\ stage' = IF delPc' \in {"done", "failed"} THEN delPc' ELSE "shred"
    /\ UNCHANGED <<shred, encrypted, outLocal>>

IoError ==
    /\ stage \in {"same", "stat", "open", "match"}
    /\ faults < MaxFaults
    /\ faults' = faults + 1
    /\ Fail

Others ==
    /\ stage \notin Ended
    /\ OthersNext
    /\ UNCHANGED <<stage, shred, encrypted, outLocal, delLocal, faults>>

Crash ==
    /\ stage \notin Ended
    /\ PowerLoss
    /\ Goto("crashed")
    /\ UNCHANGED <<shred, encrypted, outLocal, delLocal, faults>>

Over == stage \in Ended /\ UNCHANGED vars

Init ==
    /\ Output!Init
    /\ Delete!LocalInit
    /\ stage = "same"
    /\ shred \in BOOLEAN
    /\ encrypted = None
    /\ \A n \in TempNames : ~Present(n)     \* leftovers are AtomicOutput's concern

Step ==
    \/ CheckDistinct \/ StatSource \/ OpenSource \/ MatchSource
    \/ WriteOutput \/ ShredSource \/ IoError

Next == Step \/ Others \/ Crash \/ Over

Spec == Init /\ [][Next]_vars

-------------------------------------------------------------------------------
TypeOK ==
    /\ Output!TypeOK
    /\ Delete!TypeOK
    /\ stage \in Stages
    /\ shred \in BOOLEAN
    /\ encrypted \in Data \cup {None}

\* Nothing of the user's is lost at any moment, power cut or not: a content no
\* name leads to was removed by others, or was the destination the overwrite
\* checks let pass, or was the source that was encrypted under --shred; and in
\* the last two cases the ciphertext has a name, or others removed it.
PlaintextOrCiphertext ==
    \A d \in born \ discarded :
        \/ Linked(d)
        \/ /\ d \in cleared \/ (shred /\ d = encrypted)
           /\ Linked("whole") \/ "whole" \in discarded

\* No image a power cut may leave shows a shredded file under another name
\* than the source: the links are counted when no name can be added any more.
NoAliasShredded ==
    \A image \in images : \A n \in UserNames \ {Source} :
        image[n] # None => files[image[n]].data # "noise"

\* After a successful --shred the plaintext is nowhere on the medium: not in the
\* file overwritten, not in another the source's path came to lead to.
ShredComplete ==
    stage = "done" /\ shred => \A i \in Inodes : files[i].stable # encrypted

\* Nobody can be made to answer the overwrite prompt.
Asking == stage = "output" /\ outPc = "prompt"

Fairness == WF_vars(~Asking /\ Step)
LiveSpec == Spec /\ Fairness

\* encrypt_file_to_path comes to an end, whatever others do to its names: no loop
\* waits for a name, and only the prompt may be left unanswered.
Terminates == <>(stage \in Ended) \/ <>[]Asking
===============================================================================
