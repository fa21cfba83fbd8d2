--------------------------- MODULE EncryptFileProofs ---------------------------
(***************************************************************************)
(* Theorems about EncryptFile for any names, inodes and contents, any      *)
(* number of errors and any interference by others. What AtomicOutput and  *)
(* SecureDelete keep, step by step, is taken from their own proofs; here   *)
(* it is shown that one hands over to the other what it needs.             *)
(***************************************************************************)
EXTENDS EncryptFile, FileSystemProofs, FiniteSetTheorems

Out == INSTANCE AtomicOutputProofs
            WITH pc <- outPc, quarantine <- aside, tries <- outTries

Del == INSTANCE SecureDeleteProofs
            WITH pc <- delPc, tries <- delTries, Expected <- Reading

-------------------------------------------------------------------------------
(* The parts as EncryptFile uses them are those the proofs are about, and  *)
(* their assumptions hold.                                                 *)

LEMMA OutAssumed == Out!NamesAssumption /\ Out!OutputAssumption
  BY NamesAssumption, EncryptAssumption
  DEF Out!NamesAssumption, Out!OutputAssumption, IsFiniteSet, Out!IsFiniteSet, Names,
         Data, OutputData, Out!Names, Out!Data, Out!OutputData

LEMMA DelAssumed == Del!NamesAssumption /\ Del!ShredAssumption
  BY NamesAssumption, EncryptAssumption
  DEF Del!NamesAssumption, Del!ShredAssumption, IsFiniteSet, Del!IsFiniteSet, Names,
         Data, OutputData, Del!Names, Del!Data, Del!OutputData

LEMMA OutTypes == Output!TypeOK <=> Out!TypeOK
  BY DEF Output!TypeOK, Output!FileSystemTypeOK, Output!Labels, Output!Data,
         Output!Directories, Output!OutputData, Output!Names, Out!TypeOK,
         Out!FileSystemTypeOK, Out!Labels, Out!Data, Out!Directories, Out!OutputData,
         Out!Names

LEMMA DelTypes == Delete!TypeOK <=> Del!TypeOK
  BY DEF Delete!TypeOK, Delete!FileSystemTypeOK, Delete!Labels, Delete!Directories,
         Delete!Data, Delete!Names, Delete!OutputData, Del!TypeOK,
         Del!FileSystemTypeOK, Del!Labels, Del!Directories, Del!Data, Del!Names,
         Del!OutputData

LEMMA FileSystemTypes ==
    /\ FileSystemTypeOK <=> Out!FileSystemTypeOK
    /\ FileSystemTypeOK <=> Del!FileSystemTypeOK
  BY DEF FileSystemTypeOK, Directories, Names, Data, OutputData, Out!FileSystemTypeOK,
         Out!Directories, Out!Names, Out!Data, Out!OutputData, Del!FileSystemTypeOK,
         Del!Directories, Del!Names, Del!Data, Del!OutputData

LEMMA OutResolves == \A n : Output!Resolve(n) = Out!Resolve(n)
<1>1. \A n : (Output!IsLink(n) <=> Out!IsLink(n)) /\ (Output!IsRegular(n) <=> Out!IsRegular(n))
  BY DEF Output!IsLink, Output!IsRegular, Output!Present, Out!IsLink, Out!IsRegular, Out!Present
<1>2. Output!Names = Out!Names
  BY DEF Output!Names, Out!Names
<1>3. ASSUME NEW n, NEW m PROVE m \in Output!Ends(n) <=> m \in Out!Ends(n)
  BY <1>1, <1>2 DEF Output!Ends, Out!Ends
<1> TAKE n
<1>4. Output!Ends(n) = Out!Ends(n)
  BY <1>3 DEF Output!Ends, Out!Ends
<1>5. (CHOOSE m \in Output!Ends(n) : TRUE) = (CHOOSE m \in Out!Ends(n) : TRUE)
  BY <1>4, Zenon
<1>6. Output!IsLink(n) <=> Out!IsLink(n)
  BY <1>1
<1> QED
  BY <1>4, <1>5, <1>6, Zenon DEF Output!Resolve, Out!Resolve

LEMMA DelResolves == \A n : Delete!Resolve(n) = Del!Resolve(n)
<1>1. \A n : (Delete!IsLink(n) <=> Del!IsLink(n)) /\ (Delete!IsRegular(n) <=> Del!IsRegular(n))
  BY DEF Delete!IsLink, Delete!IsRegular, Delete!Present, Del!IsLink, Del!IsRegular, Del!Present
<1>2. Delete!Names = Del!Names
  BY DEF Delete!Names, Del!Names
<1>3. ASSUME NEW n, NEW m PROVE m \in Delete!Ends(n) <=> m \in Del!Ends(n)
  BY <1>1, <1>2 DEF Delete!Ends, Del!Ends
<1> TAKE n
<1>4. Delete!Ends(n) = Del!Ends(n)
  BY <1>3 DEF Delete!Ends, Del!Ends
<1>5. (CHOOSE m \in Delete!Ends(n) : TRUE) = (CHOOSE m \in Del!Ends(n) : TRUE)
  BY <1>4, Zenon
<1>6. Delete!IsLink(n) <=> Del!IsLink(n)
  BY <1>1
<1> QED
  BY <1>4, <1>5, <1>6, Zenon DEF Delete!Resolve, Del!Resolve

LEMMA OutSteps == Output!Step <=> Out!Step
<1>1. Output!Stat <=> Out!Stat
  BY DEF Output!Stat, Output!IsLink, Output!Refuse, Output!Goto, Output!Present,
         Output!fs, Output!names, Output!history, Output!Unwind, Output!Hold,
         Out!Stat, Out!IsLink, Out!Refuse, Out!Goto, Out!Present, Out!fs, Out!names,
         Out!history, Out!Unwind, Out!Hold
<1>2. Output!OpenObserved <=> Out!OpenObserved
  BY OutResolves DEF Output!OpenObserved, Output!Refuse, Output!Hold, Output!Goto,
         Output!names, Output!history, Output!IsLink, Output!IsRegular, Output!Unwind,
         Output!Present, Out!OpenObserved, Out!Refuse, Out!Hold,
         Out!Goto, Out!names, Out!history, Out!IsLink, Out!IsRegular, Out!Unwind,
         Out!Present
<1>3. Output!Check <=> Out!Check
  BY DEF Output!Check, Output!IsLink, Output!Refuse, Output!Goto, Output!Present,
         Output!fs, Output!names, Output!history, Output!Unwind, Output!Hold,
         Out!Check, Out!IsLink, Out!Refuse, Out!Goto, Out!Present, Out!fs, Out!names,
         Out!history, Out!Unwind, Out!Hold
<1>4. Output!Prompt <=> Out!Prompt
  BY DEF Output!Prompt, Output!Refuse, Output!Goto, Output!fs, Output!names,
         Output!Unwind, Output!Hold, Output!history, Out!Prompt, Out!Refuse, Out!Goto,
         Out!fs, Out!names, Out!Unwind, Out!Hold, Out!history
<1>5. Output!Recheck <=> Out!Recheck
  BY OutResolves DEF Output!Recheck, Output!observed, Output!Refuse, Output!Goto,
         Output!fs, Output!names, Output!IsLink, Output!IsRegular, Output!Unwind,
         Output!Present, Output!Hold, Output!history, Out!Recheck,
         Out!observed, Out!Refuse, Out!Goto, Out!fs, Out!names, Out!IsLink,
         Out!IsRegular, Out!Unwind, Out!Present, Out!Hold, Out!history
<1>6. Output!CreateTemp <=> Out!CreateTemp
  BY DEF Output!CreateTemp, Output!CreatePrivate, Output!Goto, Output!history,
         Output!Present, Output!LastTry, Output!fs, Output!Refuse, Output!Free,
         Output!Journal, Output!Unwind, Output!Names, Output!Edited, Output!Hold,
         Output!names, Out!CreateTemp, Out!CreatePrivate, Out!Goto, Out!history,
         Out!Present, Out!LastTry, Out!fs, Out!Refuse, Out!Free, Out!Journal,
         Out!Unwind, Out!Names, Out!Edited, Out!Hold, Out!names
<1>7. Output!Write <=> Out!Write
  BY DEF Output!Write, Output!Refuse, Output!WriteFile, Output!Goto, Output!names,
         Output!history, Output!Unwind, Output!Hold, Out!Write, Out!Refuse,
         Out!WriteFile, Out!Goto, Out!names, Out!history, Out!Unwind, Out!Hold
<1>8. Output!SyncOutput <=> Out!SyncOutput
  BY DEF Output!SyncOutput, Output!SyncFile, Output!Goto, Output!observed,
         Output!names, Output!history, Out!SyncOutput, Out!SyncFile, Out!Goto,
         Out!observed, Out!names, Out!history
<1>9. Output!Withdraw <=> Out!Withdraw
  BY DEF Output!Withdraw, Output!Present, Output!Refuse, Output!RenameNoReplace,
         Output!Goto, Output!history, Output!LastTry, Output!fs, Output!Unwind,
         Output!CanRename, Output!Journal, Output!Renaming, Output!Hold, Output!names,
         Output!Edited, Output!Names, Out!Withdraw, Out!Present, Out!Refuse,
         Out!RenameNoReplace, Out!Goto, Out!history, Out!LastTry, Out!fs, Out!Unwind,
         Out!CanRename, Out!Journal, Out!Renaming, Out!Hold, Out!names, Out!Edited,
         Out!Names
<1>10. Output!Verify <=> Out!Verify
  BY OutResolves DEF Output!Verify, Output!observed, Output!Refuse, Output!Goto,
         Output!fs, Output!names, Output!history, Output!IsLink, Output!IsRegular,
         Output!Unwind, Output!Present, Output!Hold, Out!Verify,
         Out!observed, Out!Refuse, Out!Goto, Out!fs, Out!names, Out!history,
         Out!IsLink, Out!IsRegular, Out!Unwind, Out!Present, Out!Hold
<1>11. Output!Absent <=> Out!Absent
  BY DEF Output!Absent, Output!Present, Output!Refuse, Output!Goto, Output!fs,
         Output!names, Output!history, Output!Unwind, Output!Hold, Out!Absent,
         Out!Present, Out!Refuse, Out!Goto, Out!fs, Out!names, Out!history,
         Out!Unwind, Out!Hold
<1>12. Output!Install <=> Out!Install
  BY DEF Output!Install, Output!CanRename, Output!Refuse, Output!RenameNoReplace,
         Output!Hold, Output!Goto, Output!names, Output!history, Output!Present,
         Output!Unwind, Output!Journal, Output!Renaming, Output!Edited, Output!Names,
         Out!Install, Out!CanRename, Out!Refuse, Out!RenameNoReplace, Out!Hold,
         Out!Goto, Out!names, Out!history, Out!Present, Out!Unwind, Out!Journal,
         Out!Renaming, Out!Edited, Out!Names
<1>13. Output!SyncParent <=> Out!SyncParent
  BY DEF Output!SyncParent, Output!SyncDirectory, Output!Goto, Output!names,
         Output!history, Out!SyncParent, Out!SyncDirectory, Out!Goto, Out!names,
         Out!history
<1>14. Output!Remove <=> Out!Remove
  BY DEF Output!Remove, Output!Unlink, Output!Goto, Output!names, Output!history,
         Output!Present, Output!Journal, Output!Edited, Output!Names, Out!Remove,
         Out!Unlink, Out!Goto, Out!names, Out!history, Out!Present, Out!Journal,
         Out!Edited, Out!Names
<1>15. Output!SyncRemoval <=> Out!SyncRemoval
  BY DEF Output!SyncRemoval, Output!SyncDirectory, Output!Goto, Output!names,
         Output!history, Out!SyncRemoval, Out!SyncDirectory, Out!Goto, Out!names,
         Out!history
<1>16. Output!Restore <=> Out!Restore
  BY OutResolves DEF Output!Restore, Output!RenameNoReplace, Output!CanRename,
         Output!Goto, Output!names, Output!history, Output!IsLink, Output!IsRegular,
         Output!Journal, Output!Renaming, Output!Present, Output!Edited, Output!Names,
         Out!Restore, Out!RenameNoReplace, Out!CanRename, Out!Goto,
         Out!names, Out!history, Out!IsLink, Out!IsRegular, Out!Journal, Out!Renaming,
         Out!Present, Out!Edited, Out!Names
<1>17. Output!Cleanup <=> Out!Cleanup
  BY DEF Output!Cleanup, Output!Unlink, Output!Present, Output!Goto, Output!names,
         Output!history, Output!Journal, Output!Edited, Output!Names, Out!Cleanup,
         Out!Unlink, Out!Present, Out!Goto, Out!names, Out!history, Out!Journal,
         Out!Edited, Out!Names
<1>18. Output!IoError <=> Out!IoError
  BY DEF Output!IoError, Output!Ended, Output!Unwind, Output!Hold, Output!names,
         Output!history, Out!IoError, Out!Ended, Out!Unwind, Out!Hold, Out!names,
         Out!history
<1>19. Output!IgnoredError <=> Out!IgnoredError
  BY DEF Output!IgnoredError, Output!Goto, Output!fs, Output!names, Out!IgnoredError,
         Out!Goto, Out!fs, Out!names
<1> QED
  BY <1>1, <1>2, <1>3, <1>4, <1>5, <1>6, <1>7, <1>8, <1>9, <1>10, <1>11, <1>12, <1>13,
     <1>14, <1>15, <1>16, <1>17, <1>18, <1>19 DEF Output!Step, Out!Step

LEMMA DelSteps == Delete!Step <=> Del!Step
<1>1. Delete!Stat <=> Del!Stat
  BY DEF Delete!Stat, Delete!IsRegular, Delete!Refuse, Delete!Goto, Delete!fs,
         Delete!Present, Delete!IsLink, Delete!Unwind, Del!Stat, Del!IsRegular,
         Del!Refuse, Del!Goto, Del!fs, Del!Present, Del!IsLink, Del!Unwind
<1>2. Delete!Open <=> Del!Open
  BY DEF Delete!Open, Delete!IsRegular, Delete!Refuse, Delete!OpenNoFollow,
         Delete!Goto, Delete!Present, Delete!IsLink, Delete!Unwind, Delete!Hold,
         Del!Open, Del!IsRegular, Del!Refuse, Del!OpenNoFollow, Del!Goto, Del!Present,
         Del!IsLink, Del!Unwind, Del!Hold
<1>3. Delete!Match <=> Del!Match
  BY DelResolves
  DEF Delete!Match, Delete!PathMatches, Delete!Refuse, Delete!Goto, Delete!fs, Delete!Unwind,
      Del!Match, Del!PathMatches, Del!Refuse, Del!Goto, Del!fs, Del!Unwind
<1>4. Delete!Withdraw <=> Del!Withdraw
  BY DEF Delete!Withdraw, Delete!Present, Delete!Refuse, Delete!RenameNoReplace,
         Delete!Goto, Delete!LastTry, Delete!fs, Delete!Unwind, Delete!CanRename,
         Delete!Journal, Delete!Renaming, Delete!Edited, Delete!Names, Del!Withdraw,
         Del!Present, Del!Refuse, Del!RenameNoReplace, Del!Goto, Del!LastTry, Del!fs,
         Del!Unwind, Del!CanRename, Del!Journal, Del!Renaming, Del!Edited, Del!Names
<1>5. Delete!Reopen <=> Del!Reopen
  BY DEF Delete!Reopen, Delete!IsRegular, Delete!Refuse, Delete!Goto, Delete!fs,
         Delete!Present, Delete!IsLink, Delete!Unwind, Del!Reopen, Del!IsRegular,
         Del!Refuse, Del!Goto, Del!fs, Del!Present, Del!IsLink, Del!Unwind
<1>6. Delete!CountLinks <=> Del!CountLinks
  BY DEF Delete!CountLinks, Delete!LinkCount, Delete!Refuse, Delete!Goto, Delete!fs,
         Delete!Names, Delete!Unwind, Delete!Cardinality, Del!CountLinks,
         Del!LinkCount, Del!Refuse, Del!Goto, Del!fs, Del!Names, Del!Unwind,
         Del!Cardinality
<1>7. Delete!Overwrite <=> Del!Overwrite
  BY DEF Delete!Overwrite, Delete!WriteFile, Delete!Goto, Del!Overwrite,
         Del!WriteFile, Del!Goto
<1>8. Delete!SyncPass <=> Del!SyncPass
  BY DEF Delete!SyncPass, Delete!SyncFile, Delete!Goto, Del!SyncPass, Del!SyncFile,
         Del!Goto
<1>9. Delete!Confirm <=> Del!Confirm
  BY DelResolves DEF Delete!Confirm, Delete!IsLink, Delete!PathMatches, Delete!Refuse,
         Delete!Goto, Delete!fs, Delete!Unwind, Delete!IsRegular,
         Delete!Present, Del!Confirm, Del!IsLink, Del!PathMatches, Del!Refuse,
         Del!Goto, Del!fs, Del!Unwind, Del!IsRegular, Del!Present
<1>10. Delete!Remove <=> Del!Remove
  BY DEF Delete!Remove, Delete!Unlink, Delete!Goto, Delete!Present, Delete!Journal,
         Delete!Edited, Delete!Names, Del!Remove, Del!Unlink, Del!Goto, Del!Present,
         Del!Journal, Del!Edited, Del!Names
<1>11. Delete!SyncRemoval <=> Del!SyncRemoval
  BY DEF Delete!SyncRemoval, Delete!SyncDirectory, Delete!Goto, Del!SyncRemoval,
         Del!SyncDirectory, Del!Goto
<1>12. Delete!Restore <=> Del!Restore
  BY DelResolves DEF Delete!Restore, Delete!RenameNoReplace, Delete!CanRename,
         Delete!Goto, Delete!IsLink, Delete!IsRegular, Delete!Journal,
         Delete!Renaming, Delete!Present, Delete!Edited, Delete!Names, Del!Restore,
         Del!RenameNoReplace, Del!CanRename, Del!Goto, Del!IsLink, Del!IsRegular,
         Del!Journal, Del!Renaming, Del!Present, Del!Edited, Del!Names
<1>13. Delete!IoError <=> Del!IoError
  BY DEF Delete!IoError, Delete!Ended, Delete!Unwind, Del!IoError, Del!Ended,
         Del!Unwind
<1>14. Delete!IgnoredError <=> Del!IgnoredError
  BY DEF Delete!IgnoredError, Delete!Goto, Delete!fs, Del!IgnoredError, Del!Goto,
         Del!fs
<1> QED
  BY <1>1, <1>2, <1>3, <1>4, <1>5, <1>6, <1>7, <1>8, <1>9, <1>10, <1>11, <1>12, <1>13,
     <1>14 DEF Delete!Step, Del!Step

LEMMA OutOthers == OthersNext <=> Out!OthersNext
<1>1. OthersCreate <=> Out!OthersCreate
  BY DEF OthersCreate, Present, Free, OthersEdit, Names, Edited, LastNames,
         Out!OthersCreate, Out!Present, Out!Free, Out!OthersEdit, Out!Names,
         Out!Edited, Out!LastNames
<1>2. OthersLink <=> Out!OthersLink
  BY DEF OthersLink, IsRegular, Present, OthersEdit, IsLink, Edited, LastNames, Names,
         Out!OthersLink, Out!IsRegular, Out!Present, Out!OthersEdit, Out!IsLink,
         Out!Edited, Out!LastNames, Out!Names
<1>3. OthersRename <=> Out!OthersRename
  BY DEF OthersRename, Present, OthersEdit, Renaming, Edited, LastNames, Names,
         Out!OthersRename, Out!Present, Out!OthersEdit, Out!Renaming, Out!Edited,
         Out!LastNames, Out!Names
<1>4. OthersUnlink <=> Out!OthersUnlink
  BY DEF OthersUnlink, Present, OthersEdit, Edited, LastNames, Names,
         Out!OthersUnlink, Out!Present, Out!OthersEdit, Out!Edited, Out!LastNames,
         Out!Names
<1> QED
  BY <1>1, <1>2, <1>3, <1>4 DEF OthersNext, Out!OthersNext

LEMMA DelOthers == OthersNext <=> Del!OthersNext
<1>1. OthersCreate <=> Del!OthersCreate
  BY DEF OthersCreate, Present, Free, OthersEdit, Names, Edited, LastNames,
         Del!OthersCreate, Del!Present, Del!Free, Del!OthersEdit, Del!Names,
         Del!Edited, Del!LastNames
<1>2. OthersLink <=> Del!OthersLink
  BY DEF OthersLink, IsRegular, Present, OthersEdit, IsLink, Edited, LastNames, Names,
         Del!OthersLink, Del!IsRegular, Del!Present, Del!OthersEdit, Del!IsLink,
         Del!Edited, Del!LastNames, Del!Names
<1>3. OthersRename <=> Del!OthersRename
  BY DEF OthersRename, Present, OthersEdit, Renaming, Edited, LastNames, Names,
         Del!OthersRename, Del!Present, Del!OthersEdit, Del!Renaming, Del!Edited,
         Del!LastNames, Del!Names
<1>4. OthersUnlink <=> Del!OthersUnlink
  BY DEF OthersUnlink, Present, OthersEdit, Edited, LastNames, Names,
         Del!OthersUnlink, Del!Present, Del!OthersEdit, Del!Edited, Del!LastNames,
         Del!Names
<1> QED
  BY <1>1, <1>2, <1>3, <1>4 DEF OthersNext, Del!OthersNext

-------------------------------------------------------------------------------
(* While the output is made. The invariant of AtomicOutput holds from the  *)
(* start, although its first call is some way off; beside it, nothing is   *)
(* shredded, all that is not being written is on the medium, and the open  *)
(* handle keeps the source as it is.                                       *)

Preparing == {"same", "stat", "open", "match"}
Making == Preparing \cup {"output"}

Clean == \A i \in Inodes : files[i].data # "noise" /\ files[i].stable # "noise"

Flushed ==
    \A i \in Inodes :
        \/ files[i].stable = files[i].data
        \/ outPc \in {"write", "sync"} /\ i = dir[temp]
        \/ outPc \in {"restore", "cleanup", "failed"}

\* A content of the user's is on the medium in one file.
Single ==
    \A i \in Inodes : files[i].stable \in UserData =>
        /\ files[i].stable \in born
        /\ \A j \in Inodes : files[j].stable = files[i].stable => j = i

SourceHeld ==
    stage \in {"match", "output", "shred"} =>
        /\ open[Reading] \in Inodes
        /\ files[open[Reading]].data \in UserData
        /\ stage # "match" => encrypted = files[open[Reading]].data

\* The other part has not begun, and this one has if it is its turn.
Turn ==
    /\ stage \in Preparing => outPc = "stat"
    /\ stage = "output" => outPc \notin Out!Ended
    /\ delPc = "stat" /\ quarantine = None /\ passes = 0

MakeInv ==
    /\ Out!ReplaceInv
    /\ Clean /\ Flushed /\ Single /\ SourceHeld /\ Turn
    /\ stage = "done" => ~shred
    /\ stage = "shred" => shred /\ outPc = "done" /\ images = {dir}

-------------------------------------------------------------------------------
(* While the source is shredded. The invariant of SecureDelete holds, the  *)
(* ciphertext and everything else keep their names, and only the source is *)
(* overwritten, which is alone in having the content encrypted.            *)

Victim == open[Shredding]

SourceShredded ==
    /\ quarantine # None => Victim = open[Reading]
    /\ open[Reading] \in Inodes
    /\ files[open[Reading]].data \in {encrypted, "noise"}
    /\ encrypted \in born
    /\ \A i \in Inodes : files[i].stable = encrypted => i = open[Reading]

Elsewhere == \A image \in images : \A n \in UserNames \ {Source} : image[n] = dir[n]

VictimHidden ==
    Victim # None /\ files[Victim].data = "noise" =>
        \A n \in UserNames : dir[n] = Victim => n = Source /\ delPc = "failed"

CipherKept == "whole" \in discarded \/ \A image \in images : Kept(image, "whole")

RestKept ==
    \A d \in born \ discarded :
        d \in cleared \/ d = encrypted \/ \A image \in images : Kept(image, d)

DelInv ==
    /\ Del!ShredInv /\ Del!OneImage /\ Del!Moved /\ Del!OneWritten /\ Del!Overwritten

ShredInv ==
    /\ DelInv
    /\ SourceShredded /\ Elsewhere /\ VictimHidden /\ CipherKept /\ RestKept
    /\ shred
    /\ stage = "shred" => delPc \notin Del!Ended
    /\ stage = "done" => delPc = "done"

Promises == PlaintextOrCiphertext /\ NoAliasShredded /\ ShredComplete

EncryptInv ==
    /\ TypeOK /\ Promises
    /\ stage \in Making => MakeInv
    /\ stage = "shred" => ShredInv

-------------------------------------------------------------------------------
(* What the proofs of AtomicOutput say, in the terms of this module.       *)

LEMMA OutNext ==
    ASSUME Out!ReplaceInv, Output!Step
    PROVE  Out!ReplaceInv'
<1>1. Out!Next
  BY OutSteps DEF Out!Next
<1> QED
  BY <1>1, OutAssumed, Out!ReplaceInvNext DEF Out!NamesAssumption, Out!OutputAssumption

LEMMA OutUndisturbed ==
    ASSUME Out!ReplaceInv, outPc \notin Out!Ended, OthersNext, UNCHANGED <<outLocal, faults>>
    PROVE  Out!ReplaceInv'
<1>1. Out!Others
  BY OutOthers DEF Out!Others, outLocal, Out!local, Out!names, Out!history
<1>2. Out!Next
  BY <1>1 DEF Out!Next
<1> QED
  BY <1>2, OutAssumed, Out!ReplaceInvNext DEF Out!NamesAssumption, Out!OutputAssumption

LEMMA OutFacts ==
    ASSUME Out!ReplaceInv
    PROVE  /\ FileSystemTypeOK /\ Output!TypeOK /\ dir \in images
           /\ temp \in TempNames \cup {None}
           /\ outPc \notin {"failed", "crashed"} /\ temp # None /\ Present(temp) =>
                files[dir[temp]].data \in OutputData
           /\ outPc \in {"write", "sync"} => temp # None /\ Present(temp)
           /\ outPc = "stat" =>
                \A n \in UserNames : Present(n) => files[dir[n]].data \in UserData \cup UserNames
           /\ \A image \in images : \A d \in born \ discarded :
                \/ Kept(image, d)
                \/ d \in cleared /\ (Kept(image, "whole") \/ "whole" \in discarded)
           /\ outPc = "done" =>
                \A image \in images : Kept(image, "whole") \/ "whole" \in discarded
<1> USE DEF Out!ReplaceInv
<1>1. FileSystemTypeOK /\ Output!TypeOK
  BY OutTypes, FileSystemTypes DEF Out!TypeInv, Out!TypeOK
<1>2. dir \in images /\ temp \in TempNames \cup {None}
  BY DEF Out!AtomicInv, Out!TypeInv, Out!TypeOK
<1>3. outPc \in {"write", "sync"} => temp # None /\ Present(temp)
  BY DEF Out!AtomicInv, Out!PrivateWhileWritten, Out!Present, Present, Out!TypeInv, Out!Owning
<1>4. outPc \notin {"failed", "crashed"} /\ temp # None /\ Present(temp) =>
        files[dir[temp]].data \in OutputData
  BY DEF Out!LossInv, Out!TempAlone, Out!Running, Out!Present, Present, Out!OutputData, OutputData
<1>5. outPc = "stat" =>
        \A n \in UserNames : Present(n) => files[dir[n]].data \in UserData \cup UserNames
  BY DEF Out!LossInv, Out!OldForeign, Out!Beginning, Out!Running, Out!Uninstalled, Out!Foreign,
         Out!Present, Present
<1>6. \A image \in images : \A d \in born \ discarded :
        \/ Kept(image, d)
        \/ d \in cleared /\ (Kept(image, "whole") \/ "whole" \in discarded)
  BY DEF Out!LossInv, Out!NoLoss, Out!WholeThere, Out!Kept, Kept, Out!Names, Names
<1>7. outPc = "done" =>
        \A image \in images : Kept(image, "whole") \/ "whole" \in discarded
  BY DEF Out!LossInv, Out!Durable, Out!Tidy, Out!WholeThere, Out!Kept, Kept, Out!Names, Names
<1> QED
  BY <1>1, <1>2, <1>3, <1>4, <1>5, <1>6, <1>7

\* What a step of AtomicOutput does to the files: nothing, or to its own alone.
Unwinding == {"restore", "cleanup", "failed"}
LEMMA OutEffects ==
    ASSUME Out!ReplaceInv, Output!Step
    PROVE  /\ UNCHANGED <<born, discarded>>
           /\ \A h \in Holders \ {Observed} : open'[h] = open[h]
           /\ outPc' = "done" => images' = {dir'}
           /\ \/ /\ files' = files
                 /\ \/ outPc' \in Unwinding
                    \/ {outPc, outPc'} \cap ({"write", "sync"} \cup Unwinding) = {}
              \/ /\ outPc = "create" /\ outPc' = "write"
                 /\ \E i \in Inodes : Free(i)
                        /\ files' = [files EXCEPT ![i] = [data |-> "blank", stable |-> "blank"]]
              \/ /\ outPc = "write" /\ outPc' \in {"write", "sync"} /\ UNCHANGED <<dir, temp>>
                 /\ \E d \in OutputData : files' = [files EXCEPT ![dir[temp]].data = d]
              \/ /\ outPc = "sync"
                 /\ files' = [files EXCEPT ![dir[temp]].stable = files[dir[temp]].data]
<1> USE DEF Output!Goto, Output!fs, Output!names, Output!history, Unwinding
<1>0. open \in [Holders -> Inodes \cup {None}]
  BY OutFacts DEF FileSystemTypeOK
<1>1. CASE Output!Refuse /\ outPc \notin Out!Ended
  BY <1>0, <1>1 DEF Output!Refuse, Output!Unwind, Output!Hold, Out!Ended
<1>2. CASE ~Output!Refuse /\ (Output!Stat \/ Output!Check \/ Output!Prompt \/ Output!Recheck)
  BY <1>2 DEF Output!Stat, Output!Check, Output!Prompt, Output!Recheck
<1>3. CASE ~Output!Refuse /\ Output!OpenObserved
  BY <1>0, <1>3 DEF Output!OpenObserved, Output!Hold
<1>4. CASE ~Output!Refuse /\ Output!CreateTemp
  BY <1>0, <1>4
  DEF Output!CreateTemp, Output!CreatePrivate, Output!Free, Free, Output!Names, Names
<1>5. CASE ~Output!Refuse /\ Output!Write
  BY <1>0, <1>5 DEF Output!Write, Output!WriteFile, OutputData
<1>6. CASE Output!SyncOutput
  BY <1>0, <1>6 DEF Output!SyncOutput, Output!SyncFile
<1>7. CASE ~Output!Refuse /\ (Output!Withdraw \/ Output!Verify \/ Output!Absent \/ Output!Install)
  BY <1>0, <1>7
  DEF Output!Withdraw, Output!Verify, Output!Absent, Output!Install, Output!RenameNoReplace,
      Output!Hold
<1>8. CASE Output!SyncParent \/ Output!Remove \/ Output!SyncRemoval
  BY <1>8 DEF Output!SyncParent, Output!Remove, Output!SyncRemoval, Output!SyncDirectory,
              Output!Unlink
<1>9. CASE Output!Restore \/ Output!Cleanup
  BY <1>9 DEF Output!Restore, Output!Cleanup, Output!RenameNoReplace, Output!Unlink
<1>10. CASE Output!IoError \/ Output!IgnoredError
  BY <1>0, <1>10 DEF Output!IoError, Output!IgnoredError, Output!Unwind, Output!Hold
<1>11. CASE Output!Refuse /\ outPc \in Out!Ended
  BY <1>11
  DEF Output!Step, Output!Stat, Output!OpenObserved, Output!Check, Output!Prompt, Output!Recheck,
      Output!CreateTemp, Output!Write, Output!SyncOutput, Output!Withdraw, Output!Verify,
      Output!Absent, Output!Install, Output!SyncParent, Output!Remove, Output!SyncRemoval,
      Output!Restore, Output!Cleanup, Output!IoError, Output!IgnoredError, Output!Ended, Out!Ended
<1> QED
  BY <1>1, <1>2, <1>3, <1>4, <1>5, <1>6, <1>7, <1>8, <1>9, <1>10, <1>11 DEF Output!Step

\* Of the handles, only the observed one matters to the output.
LEMMA OtherHandles ==
    ASSUME Out!ReplaceInv, UNCHANGED <<dir, images, files, moves, born, discarded, outLocal, faults>>,
           open' \in [Holders -> Inodes \cup {None}], open'[Observed] = open[Observed]
    PROVE  Out!ReplaceInv'
<1> USE DEF outLocal, Out!ReplaceInv
<1>1. Out!TypeInv'
  BY DEF Out!TypeInv, Out!TypeOK, Out!FileSystemTypeOK, Out!Holding, Out!Owning, Out!observed
<1>2. Out!AtomicInv'
  BY DEF Out!AtomicInv, Out!Published, Out!Settled, Out!PrivateWhileWritten,
         Out!SyncedBeforeInstall, Out!AsideSettled, Out!Present
<1>3. Out!LossInv'
  BY DEF Out!LossInv, Out!Beginning, Out!Steady, Out!ImagesUnmoved, Out!ImagesMoved,
         Out!TempAlone, Out!Observing, Out!OldForeign, Out!AsideCleared, Out!WholePublic,
         Out!Strict, Out!NoLoss, Out!Durable, Out!Tidy, Out!Running, Out!Uninstalled,
         Out!Aside, Out!Present, Out!Foreign, Out!Kept, Out!WholeThere, Out!observed
<1> QED
  BY <1>1, <1>2, <1>3

-------------------------------------------------------------------------------
(* The steps while the output is made.                                     *)

LEMMA WholesAndNoise ==
    /\ OutputData \cap UserData = {} /\ "noise" \notin OutputData \cup UserData \cup UserNames
    /\ UserNames \cap UserData = {}
BY NamesAssumption DEF OutputData

LEMMA OutputKeepsFiles ==
    ASSUME TypeOK, MakeInv, Output!Step
    PROVE  Clean' /\ Flushed' /\ Single'
<1> USE DEF MakeInv
<1>0. FileSystemTypeOK /\ files \in [Inodes -> [data : Data, stable : Data]]
  BY OutFacts DEF FileSystemTypeOK
<1>1. born' = born
  BY OutEffects
<1>2. CASE /\ files' = files
           /\ \/ outPc' \in Unwinding
              \/ {outPc, outPc'} \cap ({"write", "sync"} \cup Unwinding) = {}
  BY <1>1, <1>2 DEF Clean, Flushed, Single, Unwinding
<1>3. CASE outPc = "create" /\ outPc' = "write"
           /\ \E i \in Inodes : Free(i)
                  /\ files' = [files EXCEPT ![i] = [data |-> "blank", stable |-> "blank"]]
  <2>1. PICK i \in Inodes : files' = [files EXCEPT ![i] = [data |-> "blank", stable |-> "blank"]]
    BY <1>3
  <2>2. /\ files'[i] = [data |-> "blank", stable |-> "blank"]
        /\ \A j \in Inodes \ {i} : files'[j] = files[j]
    BY <1>0, <2>1
  <2>3. "blank" \notin UserData \cup {"noise"}
    BY WholesAndNoise DEF OutputData
  <2> QED
    BY <1>1, <1>3, <2>2, <2>3 DEF Clean, Flushed, Single
<1>4. ASSUME outPc \in {"write", "sync"}
      PROVE  /\ dir[temp] \in Inodes /\ files[dir[temp]].data \in OutputData
             /\ files[dir[temp]].data \notin UserData \cup {"noise"}
  <2>1. dir[temp] \in Inodes
    BY <1>4, OutFacts, NamesAssumption DEF FileSystemTypeOK, Directories, Names, Present
  <2> QED
    BY <1>4, <2>1, OutFacts, WholesAndNoise
<1>5. CASE outPc = "write" /\ outPc' \in {"write", "sync"} /\ UNCHANGED <<dir, temp>>
           /\ \E d \in OutputData : files' = [files EXCEPT ![dir[temp]].data = d]
  <2>1. PICK d \in OutputData : files' = [files EXCEPT ![dir[temp]].data = d]
    BY <1>5
  <2>2. /\ files'[dir[temp]] = [files[dir[temp]] EXCEPT !.data = d]
        /\ \A j \in Inodes \ {dir[temp]} : files'[j] = files[j]
    BY <1>0, <1>4, <1>5, <2>1
  <2>3. files'[dir[temp]].data = d /\ \A j \in Inodes : files'[j].stable = files[j].stable
    BY <1>0, <1>4, <1>5, <2>2
  <2>4. d # "noise"
    BY WholesAndNoise
  <2> QED
    BY <1>1, <1>5, <2>2, <2>3, <2>4 DEF Clean, Flushed, Single
<1>6. CASE outPc = "sync"
           /\ files' = [files EXCEPT ![dir[temp]].stable = files[dir[temp]].data]
  <2>1. /\ files'[dir[temp]] = [files[dir[temp]] EXCEPT !.stable = files[dir[temp]].data]
        /\ \A j \in Inodes \ {dir[temp]} : files'[j] = files[j]
    BY <1>0, <1>4, <1>6
  <2>2. /\ files'[dir[temp]].data = files[dir[temp]].data
        /\ files'[dir[temp]].stable = files[dir[temp]].data
    BY <1>0, <1>4, <1>6, <2>1
  <2> QED
    BY <1>1, <1>4, <1>6, <2>1, <2>2 DEF Clean, Flushed, Single
<1> QED
  BY <1>2, <1>3, <1>5, <1>6, OutEffects

\* The others write nothing that is not new, and each content once.
LEMMA OthersFiles ==
    ASSUME FileSystemTypeOK, OthersNext, Single
    PROVE  /\ Single'
           /\ open' = open /\ images' = {dir'}
           /\ \A h \in Holders : open[h] # None => files'[open[h]] = files[open[h]]
           /\ \A i \in Inodes :
                \/ files'[i] = files[i]
                \/ Free(i) /\ files'[i].stable = files'[i].data
                    /\ files'[i].data \in (UserData \ born) \cup UserNames
<1>1. /\ open' = open /\ images' = {dir'} /\ born \subseteq born'
      /\ \A i \in Inodes : ~Free(i) => files'[i] = files[i]
      /\ \A i \in Inodes : files'[i] = files[i] \/ New(i)
  BY OthersReach
<1>2. \A h \in Holders : open[h] # None => files'[open[h]] = files[open[h]]
  BY <1>1, InUse DEF FileSystemTypeOK
<1>3. \A i \in Inodes :
        \/ files'[i] = files[i]
        \/ Free(i) /\ files'[i].stable = files'[i].data
            /\ files'[i].data \in (UserData \ born) \cup UserNames
  <2> SUFFICES ASSUME NEW i \in Inodes, files'[i] # files[i]
               PROVE  Free(i) /\ files'[i].stable = files'[i].data
                        /\ files'[i].data \in (UserData \ born) \cup UserNames
    OBVIOUS
  <2>1. Free(i) /\ New(i)
    BY <1>1
  <2> QED
    BY <2>1 DEF New
<1>4. Single'
  <2>1. CASE OthersCreate
    <3>1. PICK i \in Inodes, d \in (UserData \ born) \cup UserNames :
            /\ files' = [files EXCEPT ![i] = [data |-> d, stable |-> d]]
            /\ born' = born \cup ({d} \cap UserData)
      BY <2>1 DEF OthersCreate
    <3>2. files'[i].stable = d /\ \A j \in Inodes \ {i} : files'[j] = files[j]
      BY <3>1 DEF FileSystemTypeOK
    <3> QED
      BY <3>1, <3>2, WholesAndNoise DEF Single
  <2>2. CASE UNCHANGED <<files, born>>
    BY <2>2 DEF Single
  <2> QED
    BY <2>1, <2>2 DEF OthersNext, OthersLink, OthersRename, OthersUnlink
<1> QED
  BY <1>1, <1>2, <1>3, <1>4

LEMMA MakeUndisturbed ==
    ASSUME TypeOK, MakeInv, stage \in Making, Others
    PROVE  MakeInv'
<1> USE DEF MakeInv
<1>0. FileSystemTypeOK /\ OthersNext
      /\ UNCHANGED <<stage, shred, encrypted, outLocal, delLocal, faults>>
  BY OutFacts DEF Others
<1>1. outPc \notin Out!Ended
  BY DEF Turn, Making, Preparing, Out!Ended
<1>2. Out!ReplaceInv'
  BY <1>0, <1>1, OutUndisturbed
<1>3. Single' /\ UNCHANGED open
      /\ (\A h \in Holders : open[h] # None => files'[open[h]] = files[open[h]])
  BY <1>0, OthersFiles
<1>4. \A i \in Inodes :
        \/ files'[i] = files[i]
        \/ files'[i].stable = files'[i].data /\ files'[i].data # "noise"
  BY <1>0, OthersFiles, WholesAndNoise
<1>5. Clean'
  BY <1>4 DEF Clean
<1>6. Flushed'
  <2>1. outPc \in {"write", "sync"} => dir'[temp] = dir[temp]
    BY <1>0, OutFacts, OthersReach DEF outLocal
  <2> QED
    BY <1>0, <1>4, <2>1 DEF Flushed, outLocal
<1>7. SourceHeld'
  BY <1>0, <1>3, EncryptAssumption, NamesAssumption DEF SourceHeld
<1>8. Turn'
  BY <1>0 DEF Turn, outLocal, delLocal
<1> QED
  BY <1>0, <1>2, <1>3, <1>5, <1>6, <1>7, <1>8 DEF Making, Preparing

LEMMA WriteOutputKeeps ==
    ASSUME TypeOK, MakeInv, WriteOutput
    PROVE  MakeInv'
<1> USE DEF MakeInv
<1>0. /\ stage = "output" /\ Output!Step /\ UNCHANGED <<shred, encrypted, delLocal>>
      /\ FileSystemTypeOK
      /\ stage' = CASE outPc' = "failed" -> "failed"
                    [] outPc' = "done" -> IF shred THEN "shred" ELSE "done"
                    [] OTHER -> "output"
  BY OutFacts DEF WriteOutput
<1>1. Out!ReplaceInv'
  BY <1>0, OutNext
<1>2. Clean' /\ Flushed' /\ Single'
  BY <1>0, OutputKeepsFiles
<1>3. SourceHeld'
  <2>1. open[Reading] \in Inodes /\ files[open[Reading]].data = encrypted /\ encrypted \in UserData
    BY <1>0 DEF SourceHeld
  <2>2. open'[Reading] = open[Reading]
    BY <1>0, OutEffects, EncryptAssumption
  <2>3. outPc \in {"write", "sync"} => dir[temp] # open[Reading]
    BY <2>1, OutFacts, WholesAndNoise
  <2>4. ~Free(open[Reading])
    BY InUse, EncryptAssumption
  <2>5. files'[open[Reading]] = files[open[Reading]]
    BY <1>0, <2>1, <2>3, <2>4, OutEffects DEF FileSystemTypeOK
  <2> QED
    BY <1>0, <2>1, <2>2, <2>5 DEF SourceHeld
<1>4. outPc' \notin {"done", "failed"} => stage' = "output"
  BY <1>0
<1>5. outPc' # "crashed"
  BY <1>0
  DEF Output!Step, Output!Stat, Output!OpenObserved, Output!Check, Output!Prompt, Output!Recheck,
      Output!CreateTemp, Output!Write, Output!SyncOutput, Output!Withdraw, Output!Verify,
      Output!Absent, Output!Install, Output!SyncParent, Output!Remove, Output!SyncRemoval,
      Output!Restore, Output!Cleanup, Output!IoError, Output!IgnoredError, Output!Refuse,
      Output!Unwind, Output!Goto, Turn, Out!Ended
<1>6. Turn'
  BY <1>0, <1>5 DEF Turn, Preparing, Out!Ended, delLocal
<1>7. stage' = "done" => ~shred'
  BY <1>0
<1>8. stage' = "shred" => shred' /\ outPc' = "done" /\ images' = {dir'}
  BY <1>0, OutEffects
<1> QED
  BY <1>1, <1>2, <1>3, <1>6, <1>7, <1>8

LEMMA PrepareKeeps ==
    ASSUME TypeOK, MakeInv,
           CheckDistinct \/ StatSource \/ OpenSource \/ MatchSource, stage' # "failed"
    PROVE  MakeInv'
<1> USE DEF MakeInv, Goto
<1>0. /\ FileSystemTypeOK /\ outPc = "stat"
      /\ UNCHANGED <<dir, images, files, moves, born, discarded, outLocal, delLocal, shred, faults>>
  BY OutFacts
  DEF CheckDistinct, StatSource, OpenSource, MatchSource, Fail, Quiet, fs, Turn, Preparing
<1>1. CASE OpenSource
  <2>1. /\ stage' = "match" /\ IsRegular(Source) /\ open' = [open EXCEPT ![Reading] = dir[Source]]
        /\ UNCHANGED encrypted
    BY <1>1 DEF OpenSource, Fail, OpenNoFollow, Hold
  <2>2. dir[Source] \in Inodes
    BY <1>0, <2>1, EncryptAssumption
    DEF IsRegular, Present, FileSystemTypeOK, Directories, Names
  <2>3. /\ open' \in [Holders -> Inodes \cup {None}]
        /\ open'[Reading] = dir[Source] /\ open'[Observed] = open[Observed]
    BY <1>0, <2>1, <2>2, EncryptAssumption DEF FileSystemTypeOK
  <2>4. Out!ReplaceInv'
    BY <1>0, <2>3, OtherHandles
  <2>5. files[dir[Source]].data \in UserData
    BY <1>0, <2>1, EncryptAssumption, OutFacts DEF IsRegular, IsLink, Present
  <2>6. SourceHeld'
    BY <1>0, <2>1, <2>2, <2>3, <2>5 DEF SourceHeld
  <2> QED
    BY <1>0, <2>1, <2>4, <2>6
    DEF Clean, Flushed, Single, Turn, Preparing, outLocal, delLocal
<1>2. CASE CheckDistinct \/ StatSource \/ MatchSource
  <2>1. /\ UNCHANGED open
        /\ \/ stage' \in {"stat", "open"} /\ stage \in {"same", "stat"} /\ UNCHANGED encrypted
           \/ /\ stage = "match" /\ stage' = "output"
              /\ encrypted' = files[open[Reading]].data
    BY <1>2 DEF CheckDistinct, StatSource, MatchSource, Fail, fs
  <2>2. Out!ReplaceInv'
    BY <1>0, <2>1, OtherHandles, EncryptAssumption DEF FileSystemTypeOK
  <2> QED
    BY <1>0, <2>1, <2>2
    DEF Clean, Flushed, Single, SourceHeld, Turn, Preparing, outLocal, delLocal, Out!Ended
<1> QED
  BY <1>1, <1>2

-------------------------------------------------------------------------------
(* What the proofs of SecureDelete say, in the terms of this module.       *)

LEMMA DelFacts ==
    ASSUME Del!ShredInv
    PROVE  FileSystemTypeOK /\ Delete!TypeOK /\ Del!TypeInv
  BY FileSystemTypes, DelTypes DEF Del!ShredInv, Del!TypeInv, Del!TypeOK

LEMMA DelNext ==
    ASSUME DelInv, Delete!Step
    PROVE  DelInv'
<1> USE DelAssumed DEF Del!NamesAssumption, Del!ShredAssumption
<1>1. Del!Step /\ Del!Next
  BY DelSteps DEF Del!Next
<1>2. Del!TypeInv /\ Del!SoleInv /\ Del!NoiseWritten
  BY DEF DelInv, Del!ShredInv
<1>3. Del!TypeInv'
  BY <1>1, <1>2, Del!StepType
<1>4. Del!SoleInv'
  BY <1>1, <1>2, Del!SoleStep
<1>5. Del!NoiseWritten'
  BY <1>1, <1>2, Del!NoiseStep
<1>6. Del!OneImage' /\ Del!Moved'
  BY <1>1, <1>2, Del!PlaceStep DEF DelInv
<1>7. Del!OneWritten' /\ Del!Overwritten'
  BY <1>1, <1>2, Del!OverwriteStep DEF DelInv
<1> QED
  BY <1>3, <1>4, <1>5, <1>6, <1>7 DEF DelInv, Del!ShredInv

LEMMA DelUndisturbed ==
    ASSUME DelInv, delPc \notin Del!Ended, OthersNext, UNCHANGED <<delLocal, faults>>
    PROVE  DelInv'
<1> USE DelAssumed DEF Del!NamesAssumption, Del!ShredAssumption
<1>1. Del!OthersNext /\ UNCHANGED Del!local
  BY DelOthers DEF Del!local, delLocal
<1>a. Del!Others
  BY <1>1 DEF Del!Others
<1>b. Del!Next
  BY <1>a DEF Del!Next
<1>2. Del!TypeInv /\ Del!SoleInv /\ Del!NoiseWritten
  BY DEF DelInv, Del!ShredInv
<1>3. Del!TypeInv'
  <2>1. FileSystemTypeOK'
    BY DelFacts, OthersType DEF DelInv
  <2>2. Del!FileSystemTypeOK'
    BY <2>1, FileSystemTypes, PTL
  <2> QED
    BY <1>1, <1>2, <2>2 DEF Del!local, Del!TypeInv, Del!TypeOK, Del!Stages
<1>4. Del!SoleInv'
  BY <1>1, <1>2, Del!SoleOthers
<1>5. Del!NoiseWritten'
  BY <1>b, <1>2, Del!NoiseStep
<1>6. Del!OneImage' /\ Del!Moved'
  BY <1>b, <1>2, Del!PlaceStep DEF DelInv
<1>7. Del!OneWritten' /\ Del!Overwritten'
  BY <1>1, <1>2, Del!OverwriteOthers DEF DelInv
<1> QED
  BY <1>3, <1>4, <1>5, <1>6, <1>7 DEF DelInv, Del!ShredInv

\* A content but the one being overwritten keeps a name in every image.
LEMMA DelKeeps ==
    ASSUME DelInv, Delete!Step, NEW d, d # "noise",
           delPc = "overwrite" => files[Victim].data # d,
           \A image \in images : Kept(image, d)
    PROVE  \A image \in images' : Kept(image, d)'
<1> USE DelAssumed DEF Del!NamesAssumption, Del!ShredAssumption
<1>1. Del!TypeInv /\ Del!SoleInv
  BY DEF DelInv, Del!ShredInv
<1>2. \A image \in images : Del!Kept(image, d)
  BY DEF Del!Kept, Kept, Del!Names, Names
<1>3. Del!Step
  BY DelSteps
<1>4. delPc = "overwrite" => files[Del!victim].data # d
  BY DEF Del!victim, Victim
<1>5. \A image \in images' : Del!Kept(image, d)'
  BY <1>1, <1>2, <1>3, <1>4, Del!StepKeeps DEF DelInv
<1> QED
  BY <1>5 DEF Del!Kept, Kept, Del!Names, Names

LEMMA DelKeepsOthers ==
    ASSUME DelInv, OthersNext, NEW d, d # "noise",
           \A image \in images : Kept(image, d), d \notin discarded'
    PROVE  \A image \in images' : Kept(image, d)'
<1> USE DelAssumed DEF Del!NamesAssumption, Del!ShredAssumption
<1>1. Del!TypeInv
  BY DEF DelInv, Del!ShredInv
<1>2. \A image \in images : Del!Kept(image, d)
  BY DEF Del!Kept, Kept, Del!Names, Names
<1>3. Del!OthersNext
  BY DelOthers
<1>5. \A image \in images' : Del!Kept(image, d)'
  BY <1>1, <1>2, <1>3, Del!OthersKeeps DEF DelInv
<1> QED
  BY <1>5 DEF Del!Kept, Kept, Del!Names, Names

LEMMA DelMeaning ==
    ASSUME DelInv
    PROVE  /\ dir \in images /\ (quarantine = None => images = {dir})
           /\ quarantine \in TempNames \cup {None}
           /\ delPc \in {"stat", "open", "match", "withdraw"} => quarantine = None
           /\ delPc \in {"overwrite", "sync"} => quarantine # None
           /\ delPc = "done" => passes = 3
           /\ delPc = "withdraw" => Victim = open[Reading]
           /\ delPc \in {"overwrite", "sync"} => Victim \in Inodes
           /\ delPc = "overwrite" => \A n \in UserNames : dir[n] # Victim
           /\ \A i \in Inodes :
                /\ files[i].data = "noise" => i = Victim
                /\ files[i].data = "noise" \/ files[i].stable = files[i].data
                /\ files[i].stable = "noise" => files[i].data = "noise"
           /\ Victim # None /\ files[Victim].data = "noise" =>
                delPc \notin {"stat", "open", "match", "withdraw"} /\ quarantine # None
           /\ passes > 0 => Victim # None /\ files[Victim].data = "noise"
                               /\ files[Victim].stable = "noise"
<1> USE DEF DelInv, Del!ShredInv, Victim, Del!victim
<1>1. dir \in images /\ (quarantine = None => images = {dir})
  BY DEF Del!OneImage
<1>2. /\ quarantine \in TempNames \cup {None}
      /\ delPc \in {"stat", "open", "match", "withdraw"} => quarantine = None
      /\ delPc \in {"overwrite", "sync"} => quarantine # None
      /\ delPc = "done" => passes = 3
  BY DEF Del!TypeInv, Del!TypeOK, Del!Stages, Del!Starting, Del!Shredded
<1>3. delPc = "withdraw" => Victim = open[Reading]
  BY DEF Del!SoleInv, Del!Matched
<1>4. delPc \in {"overwrite", "sync"} => Victim \in Inodes
  <2>1. Victim \in Inodes \cup {None}
    BY DelFacts, EncryptAssumption DEF FileSystemTypeOK
  <2> QED
    BY <2>1 DEF Del!SoleInv, Del!Matched, Del!Shredded
<1>5. delPc = "overwrite" => \A n \in UserNames : dir[n] # Victim
  <2>1. delPc = "overwrite" => \A n \in Names : dir[n] = Victim => n = quarantine
    BY DEF Del!SoleInv, Del!SoleName, Del!Shredded, Del!Names, Names
  <2> QED
    BY <1>2, <2>1, NamesAssumption DEF Names
<1>6. \A i \in Inodes :
        /\ files[i].data = "noise" => i = Victim
        /\ files[i].data = "noise" \/ files[i].stable = files[i].data
        /\ files[i].stable = "noise" => files[i].data = "noise"
  BY DEF Del!OneWritten, Del!NoiseWritten
<1>7. /\ Victim # None /\ files[Victim].data = "noise" =>
            delPc \notin {"stat", "open", "match", "withdraw"} /\ quarantine # None
      /\ passes > 0 => Victim # None /\ files[Victim].data = "noise"
                          /\ files[Victim].stable = "noise"
  BY DEF Del!Overwritten, Del!Dirty, Del!Starting
<1> QED
  BY <1>1, <1>2, <1>3, <1>4, <1>5, <1>6, <1>7

\* What a step of SecureDelete does: it goes about the source and the quarantine,
\* and what it writes it writes to the file it shreds.
LEMMA DelEffects ==
    ASSUME DelInv, Delete!Step
    PROVE  /\ UNCHANGED <<born, discarded>>
           /\ open'[Reading] = open[Reading]
           /\ UNCHANGED Victim \/ (delPc = "open" /\ files' = files)
           /\ UNCHANGED quarantine \/ (delPc = "withdraw" /\ UNCHANGED <<open, files>>)
           /\ \A n \in UserNames \ {Source} :
                /\ dir'[n] = dir[n]
                /\ \A image \in images' : \E old \in images \cup {dir} : image[n] = old[n]
           /\ dir'[Source] \in {dir[Source], None} \/ delPc' = "failed"
           /\ \/ files' = files
              \/ delPc = "overwrite" /\ dir' = dir
                    /\ files' = [files EXCEPT ![Victim].data = "noise"]
              \/ delPc = "sync" /\ files' = [files EXCEPT ![Victim].stable = files[Victim].data]
           /\ delPc' # "crashed"
<1> USE DEF Delete!Goto, Delete!fs, Victim
<1>0. /\ open \in [Holders -> Inodes \cup {None}] /\ dir \in images /\ FileSystemTypeOK
      /\ delPc \in Delete!Labels /\ quarantine \in TempNames \cup {None}
  BY DelFacts, DelMeaning DEF DelInv, Delete!TypeOK, FileSystemTypeOK
<1>1. CASE Delete!Refuse /\ delPc \notin Del!Ended
  BY <1>0, <1>1 DEF Delete!Refuse, Delete!Unwind, Del!Ended
<1>2. CASE ~Delete!Refuse /\ (\/ Delete!Stat \/ Delete!Match \/ Delete!Reopen \/ Delete!CountLinks
                              \/ Delete!Confirm)
  BY <1>0, <1>2
  DEF Delete!Stat, Delete!Match, Delete!Reopen, Delete!CountLinks, Delete!Confirm
<1>3. CASE ~Delete!Refuse /\ Delete!Open
  BY <1>0, <1>3, EncryptAssumption DEF Delete!Open, Delete!OpenNoFollow, Delete!Hold
<1>4. ASSUME NEW from \in Names, NEW to \in Names, from # to, Delete!RenameNoReplace(from, to)
      PROVE  /\ UNCHANGED <<files, born, discarded>>
             /\ \A n \in Names \ {from, to} :
                  /\ dir'[n] = dir[n]
                  /\ \A image \in images' : \E old \in images \cup {dir} : image[n] = old[n]
             /\ dir'[from] = None
  <2>1. RenameNoReplace(from, to)
    BY <1>4
    DEF RenameNoReplace, CanRename, Journal, Renaming, Edited, Present, Names,
        Delete!RenameNoReplace, Delete!CanRename, Delete!Journal, Delete!Renaming, Delete!Edited,
        Delete!Present, Delete!Names
  <2> QED
    BY <1>0, <1>4, <2>1, Renamed
<1>5. CASE ~Delete!Refuse /\ Delete!Withdraw
  <2>1. PICK t \in TempNames :
          \/ Delete!RenameNoReplace(Source, t) /\ UNCHANGED open
          \/ UNCHANGED <<dir, images, files, open, moves, born, discarded, quarantine>>
    BY <1>5 DEF Delete!Withdraw
  <2>2. Source \in Names /\ t \in Names /\ Source # t /\ t \notin UserNames
    BY EncryptAssumption, NamesAssumption DEF Names
  <2>3. delPc = "withdraw" /\ delPc' \in {"reopen", "withdraw"}
    BY <1>5 DEF Delete!Withdraw
  <2>4. CASE Delete!RenameNoReplace(Source, t) /\ UNCHANGED open
    <3>1. /\ UNCHANGED <<files, born, discarded>> /\ dir'[Source] = None
          /\ \A n \in Names \ {Source, t} :
               /\ dir'[n] = dir[n]
               /\ \A image \in images' : \E old \in images \cup {dir} : image[n] = old[n]
      BY <1>4, <2>2, <2>4
    <3> QED
      BY <2>2, <2>3, <2>4, <3>1 DEF Names
  <2>5. CASE UNCHANGED <<dir, images, files, open, moves, born, discarded, quarantine>>
    BY <2>3, <2>5
  <2> QED
    BY <2>1, <2>4, <2>5
<1>6. CASE Delete!Overwrite \/ Delete!SyncPass
  BY <1>0, <1>6 DEF Delete!Overwrite, Delete!SyncPass, Delete!WriteFile, Delete!SyncFile
<1>7. CASE Delete!Remove
  <2>1. Unlink(quarantine)
    BY <1>7
    DEF Delete!Remove, Delete!Unlink, Delete!Present, Delete!Journal, Delete!Edited, Delete!Names,
        Unlink, Present, Journal, Edited, Names
  <2>2. quarantine \in TempNames /\ quarantine \notin UserNames /\ quarantine \in Names
    <3>1. quarantine # None
      BY <1>7 DEF Delete!Remove, DelInv, Del!ShredInv, Del!TypeInv, Del!Stages
    <3> QED
      BY <1>0, <3>1, NamesAssumption DEF Names
  <2>3. /\ UNCHANGED <<files, born, discarded>>
        /\ \A m \in Names \ {quarantine} :
             /\ dir'[m] = dir[m]
             /\ \A image \in images' : \E old \in images \cup {dir} : image[m] = old[m]
    <3>1. /\ \A m \in Names \ {quarantine} : dir'[m] = dir[m]
          /\ UNCHANGED <<files, born, discarded>>
      BY <2>1, <2>2, Unlinked
    <3>2. \A image \in images' \ images : \E old \in images :
            \A m \in Names \ {quarantine} : image[m] = old[m]
      BY <2>1, <2>2, Unlinked
    <3> QED
      BY <3>1, <3>2
  <2> QED
    BY <1>7, <2>2, <2>3, EncryptAssumption DEF Delete!Remove, Names
<1>8. CASE Delete!SyncRemoval
  BY <1>8 DEF Delete!SyncRemoval, Delete!SyncDirectory
<1>9. CASE Delete!Restore
  <2>1. delPc' = "failed" /\ UNCHANGED <<open, quarantine>>
    BY <1>9 DEF Delete!Restore
  <2>2. CASE Delete!RenameNoReplace(quarantine, Source)
    <3>1. quarantine # None
      BY <1>9 DEF Delete!Restore, DelInv, Del!ShredInv, Del!TypeInv, Del!Stages
    <3>2. quarantine \in Names /\ quarantine \notin UserNames /\ Source \in Names
      BY <1>0, <3>1, NamesAssumption, EncryptAssumption DEF Names
    <3>3. /\ UNCHANGED <<files, born, discarded>>
          /\ \A n \in Names \ {quarantine, Source} :
               /\ dir'[n] = dir[n]
               /\ \A image \in images' : \E old \in images \cup {dir} : image[n] = old[n]
      BY <1>4, <2>2, <3>2, EncryptAssumption
    <3> QED
      BY <2>1, <3>2, <3>3 DEF Names
  <2>3. CASE UNCHANGED <<dir, images, files, moves, born, discarded>>
    BY <2>1, <2>3
  <2> QED
    BY <1>9, <2>2, <2>3 DEF Delete!Restore
<1>10. CASE Delete!IoError \/ Delete!IgnoredError
  BY <1>10 DEF Delete!IoError, Delete!IgnoredError, Delete!Unwind
<1>11. CASE Delete!Refuse /\ delPc \in Del!Ended
  BY <1>11
  DEF Delete!Step, Delete!Stat, Delete!Open, Delete!Match, Delete!Withdraw, Delete!Reopen,
      Delete!CountLinks, Delete!Overwrite, Delete!SyncPass, Delete!Confirm, Delete!Remove,
      Delete!SyncRemoval, Delete!Restore, Delete!IoError, Delete!IgnoredError, Delete!Ended,
      Del!Ended
<1> QED
  BY <1>1, <1>2, <1>3, <1>5, <1>6, <1>7, <1>8, <1>9, <1>10, <1>11 DEF Delete!Step

-------------------------------------------------------------------------------
(* From the one part to the other.                                         *)

LEMMA HandOver == TypeOK /\ MakeInv /\ stage = "shred" => ShredInv
<1> SUFFICES ASSUME TypeOK, MakeInv, stage = "shred" PROVE ShredInv
  OBVIOUS
<1> USE DEF MakeInv
<1>0. /\ FileSystemTypeOK /\ outPc = "done" /\ images = {dir} /\ shred
      /\ delPc = "stat" /\ quarantine = None /\ passes = 0
      /\ Clean /\ Flushed /\ Single /\ SourceHeld
  BY OutFacts DEF Turn
<1>1. \A i \in Inodes :
        files[i].data # "noise" /\ files[i].stable # "noise" /\ files[i].stable = files[i].data
  BY <1>0 DEF Clean, Flushed
<1>2. open \in [Holders -> Inodes \cup {None}] /\ Victim \in Inodes \cup {None}
  BY <1>0, EncryptAssumption DEF FileSystemTypeOK, Victim
<1>3. /\ open[Reading] \in Inodes /\ files[open[Reading]].data = encrypted
      /\ encrypted \in UserData
  BY <1>0 DEF SourceHeld
<1>4. DelInv
  <2>1. Del!TypeInv
    <3>1. delTries \in 0 .. MaxTries - 1 /\ faults \in 0 .. MaxFaults
      BY DEF TypeOK, Delete!TypeOK
    <3> QED
      BY <1>0, <3>1, FileSystemTypes
      DEF Del!TypeInv, Del!TypeOK, Del!Labels, Del!Stages, Del!Starting, Del!Shredded
  <2>2. Del!SoleInv /\ Del!NoiseWritten
    BY <1>0, <1>1
    DEF Del!SoleInv, Del!Matched, Del!Quarantined, Del!SoleName, Del!Shredded, Del!NoiseWritten
  <2>3. Del!OneImage /\ Del!Moved
    BY <1>0 DEF Del!OneImage, Del!Moved
  <2>4. Del!OneWritten /\ Del!Overwritten
    BY <1>0, <1>1, <1>2
    DEF Del!OneWritten, Del!Overwritten, Del!Dirty, Del!victim, Del!Starting, Victim
  <2> QED
    BY <2>1, <2>2, <2>3, <2>4 DEF DelInv, Del!ShredInv
<1>5. SourceShredded
  <2>1. files[open[Reading]].stable = encrypted
    BY <1>1, <1>3
  <2> QED
    BY <1>0, <1>3, <2>1 DEF SourceShredded, Single
<1>6. Elsewhere
  BY <1>0 DEF Elsewhere
<1>7. VictimHidden
  BY <1>1, <1>2 DEF VictimHidden
<1>8. CipherKept /\ RestKept
  BY <1>0, OutFacts DEF CipherKept, RestKept
<1> QED
  BY <1>0, <1>4, <1>5, <1>6, <1>7, <1>8 DEF ShredInv, Del!Ended

LEMMA MakePromises == MakeInv => Promises
<1> SUFFICES ASSUME MakeInv PROVE Promises
  OBVIOUS
<1> USE DEF MakeInv
<1>1. FileSystemTypeOK /\ dir \in images
  BY OutFacts
<1>2. PlaintextOrCiphertext
  <2> SUFFICES ASSUME NEW d \in born \ discarded, ~Linked(d)
               PROVE  d \in cleared /\ (Linked("whole") \/ "whole" \in discarded)
    BY DEF PlaintextOrCiphertext
  <2>1. ~Kept(dir, d)
    BY KeptIsLinked
  <2>2. d \in cleared /\ (Kept(dir, "whole") \/ "whole" \in discarded)
    BY <1>1, <2>1, OutFacts
  <2> QED
    BY <2>2, KeptIsLinked
<1>3. NoAliasShredded
  BY <1>1 DEF NoAliasShredded, Clean, FileSystemTypeOK, Directories, Names
<1>4. ShredComplete
  BY DEF ShredComplete
<1> QED
  BY <1>2, <1>3, <1>4 DEF Promises

LEMMA ShredPromises == ShredInv => Promises
<1> SUFFICES ASSUME ShredInv PROVE Promises
  OBVIOUS
<1> USE DEF ShredInv
<1>1. FileSystemTypeOK /\ dir \in images
  BY DelFacts, DelMeaning DEF DelInv
<1>2. PlaintextOrCiphertext
  <2> SUFFICES ASSUME NEW d \in born \ discarded, ~Linked(d)
               PROVE  /\ d \in cleared \/ (shred /\ d = encrypted)
                      /\ Linked("whole") \/ "whole" \in discarded
    BY DEF PlaintextOrCiphertext
  <2>1. ~Kept(dir, d)
    BY KeptIsLinked
  <2>2. d \in cleared \/ d = encrypted
    BY <1>1, <2>1 DEF RestKept
  <2>3. Kept(dir, "whole") \/ "whole" \in discarded
    BY <1>1 DEF CipherKept
  <2> QED
    BY <2>2, <2>3, KeptIsLinked
<1>3. NoAliasShredded
  <2> SUFFICES ASSUME NEW image \in images, NEW n \in UserNames \ {Source}, image[n] # None,
                      files[image[n]].data = "noise"
               PROVE  FALSE
    BY DEF NoAliasShredded
  <2>1. image[n] = dir[n] /\ image[n] \in Inodes
    BY <1>1 DEF Elsewhere, FileSystemTypeOK, Directories, Names
  <2>2. image[n] = Victim
    BY <2>1, DelMeaning
  <2> QED
    BY <2>1, <2>2 DEF VictimHidden
<1>4. ShredComplete
  <2> SUFFICES ASSUME stage = "done", NEW i \in Inodes, files[i].stable = encrypted
               PROVE  FALSE
    BY DEF ShredComplete
  <2>1. passes = 3
    BY DelMeaning
  <2>2. files[Victim].data = "noise" /\ files[Victim].stable = "noise" /\ Victim # None
    BY <2>1, DelMeaning
  <2>3. Victim = open[Reading]
    BY <2>2, DelMeaning DEF SourceShredded
  <2>4. i = Victim
    BY <2>3 DEF SourceShredded
  <2>5. encrypted # "noise"
    BY <1>1, WholesAndNoise DEF SourceShredded, FileSystemTypeOK
  <2> QED
    BY <2>2, <2>4, <2>5
<1> QED
  BY <1>2, <1>3, <1>4 DEF Promises

-------------------------------------------------------------------------------
(* The steps while the source is shredded.                                 *)

LEMMA ShredKeeps ==
    ASSUME ShredInv, stage = "shred", ShredSource
    PROVE  ShredInv'
<1> USE DEF ShredInv
<1>0. /\ Delete!Step /\ UNCHANGED <<shred, encrypted, cleared>>
      /\ delPc \notin Del!Ended
      /\ stage' = IF delPc' \in {"done", "failed"} THEN delPc' ELSE "shred"
  BY DEF ShredSource, outLocal
<1>1. DelInv'
  BY <1>0, DelNext
<1>2. /\ FileSystemTypeOK /\ Victim \in Inodes \cup {None} /\ Victim' \in Inodes \cup {None}
      /\ files \in [Inodes -> [data : Data, stable : Data]] /\ born \in SUBSET UserData
  <2>1. FileSystemTypeOK
    BY DelFacts DEF DelInv, Del!ShredInv
  <2>2. FileSystemTypeOK'
    BY <1>1, DelFacts, PTL DEF DelInv
  <2> QED
    BY <2>1, <2>2, EncryptAssumption DEF FileSystemTypeOK, Victim
<1>3. delPc \in {"overwrite", "sync"} =>
        Victim \in Inodes /\ Victim = open[Reading] /\ files[Victim].data \in {encrypted, "noise"}
  BY DelMeaning DEF SourceShredded
<1>4. \/ files' = files
      \/ /\ delPc = "overwrite" /\ dir' = dir /\ files'[Victim].data = "noise"
         /\ \A i \in Inodes : files'[i].stable = files[i].stable
         /\ \A i \in Inodes : i # Victim => files'[i].data = files[i].data
      \/ /\ delPc = "sync" /\ files'[Victim].stable = files[Victim].data
         /\ \A i \in Inodes : files'[i].data = files[i].data
         /\ \A i \in Inodes : i # Victim => files'[i].stable = files[i].stable
  <2>1. CASE files' = files
    BY <2>1
  <2>2. CASE delPc = "overwrite" /\ dir' = dir /\ files' = [files EXCEPT ![Victim].data = "noise"]
    BY <1>2, <1>3, <2>2
  <2>3. CASE delPc = "sync" /\ files' = [files EXCEPT ![Victim].stable = files[Victim].data]
    BY <1>2, <1>3, <2>3
  <2> QED
    BY <1>0, <2>1, <2>2, <2>3, DelEffects
<1>5. UNCHANGED <<born, discarded>> /\ open'[Reading] = open[Reading] /\ delPc' # "crashed"
  BY <1>0, DelEffects
<1>6. SourceShredded'
  <2>1. quarantine' # None => Victim' = open[Reading]
    <3>1. CASE delPc = "withdraw"
      <4>1. Victim = open[Reading]
        BY <3>1, DelMeaning
      <4>2. UNCHANGED Victim
        BY <1>0, <3>1, DelEffects
      <4> QED
        BY <4>1, <4>2
    <3>2. CASE delPc = "open"
      BY <1>0, <3>2, DelEffects, DelMeaning
    <3>3. CASE delPc \notin {"withdraw", "open"}
      BY <1>0, <3>3, DelEffects DEF SourceShredded
    <3> QED
      BY <3>1, <3>2, <3>3
  <2>2. files'[open[Reading]].data \in {encrypted, "noise"}
    BY <1>3, <1>4 DEF SourceShredded
  <2>3. \A i \in Inodes : files'[i].stable = encrypted => i = open[Reading]
    BY <1>3, <1>4 DEF SourceShredded
  <2> QED
    BY <1>0, <1>5, <2>1, <2>2, <2>3 DEF SourceShredded
<1>7. Elsewhere'
  BY <1>0, DelEffects DEF Elsewhere
<1>8. VictimHidden'
  <2> SUFFICES ASSUME Victim' # None, files'[Victim'].data = "noise",
                      NEW n \in UserNames, dir'[n] = Victim'
               PROVE  n = Source /\ delPc' = "failed"
    BY DEF VictimHidden
  <2>1. CASE delPc = "overwrite"
    <3>1. dir'[n] = dir[n] \/ n = Source
      BY <1>0, DelEffects
    <3>2. UNCHANGED Victim
      BY <1>0, <2>1, DelEffects
    <3>3. \A m \in UserNames : dir[m] # Victim
      BY <2>1, DelMeaning
    <3> QED
      BY <1>0, <3>1, <3>2, <3>3, DelEffects
  <2>2. CASE delPc # "overwrite"
    <3>1. files[Victim'].data = "noise"
      BY <1>2, <1>4, <2>2
    <3>2. Victim' = Victim /\ delPc # "open"
      BY <1>2, <3>1, DelMeaning
    <3>3. \A m \in UserNames : dir[m] # Victim
      BY <1>0, <3>1, <3>2 DEF VictimHidden, Del!Ended
    <3> QED
      BY <1>0, <3>2, <3>3, DelEffects
  <2> QED
    BY <2>1, <2>2
<1>9. ASSUME NEW d, d \notin {encrypted, "noise"}, \A image \in images : Kept(image, d)
      PROVE  \A image \in images' : Kept(image, d)'
  BY <1>0, <1>3, <1>9, DelKeeps
<1>10. CipherKept' /\ RestKept'
  <2>1. "whole" \notin {encrypted, "noise"} /\ \A d \in born : d # "noise"
    BY <1>2, WholesAndNoise DEF SourceShredded, OutputData
  <2>2. CipherKept'
    BY <1>5, <1>9, <2>1 DEF CipherKept
  <2>3. RestKept'
    <3> SUFFICES ASSUME NEW d \in born \ discarded, d \notin cleared, d # encrypted
                 PROVE  \A image \in images' : Kept(image, d)'
      BY <1>0, <1>5 DEF RestKept
    <3> QED
      BY <1>9, <2>1 DEF RestKept
  <2> QED
    BY <2>2, <2>3
<1>11. /\ stage' = "shred" => delPc' \notin Del!Ended
       /\ stage' = "done" => delPc' = "done"
  BY <1>0, <1>5 DEF Del!Ended
<1> QED
  BY <1>0, <1>1, <1>6, <1>7, <1>8, <1>10, <1>11

LEMMA ShredUndisturbed ==
    ASSUME ShredInv, stage = "shred", Others
    PROVE  ShredInv'
<1> USE DEF ShredInv
<1>0. /\ OthersNext /\ delPc \notin Del!Ended
      /\ UNCHANGED <<stage, shred, encrypted, outLocal, delLocal, faults>>
      /\ UNCHANGED <<cleared, delPc, quarantine>>
  BY DEF Others, outLocal, delLocal
<1>1. DelInv'
  BY <1>0, DelUndisturbed
<1>2. /\ FileSystemTypeOK /\ born \in SUBSET UserData /\ Victim \in Inodes \cup {None}
      /\ encrypted \in born
  <2>1. FileSystemTypeOK
    BY DelFacts DEF DelInv, Del!ShredInv
  <2> QED
    BY <2>1, EncryptAssumption DEF FileSystemTypeOK, Victim, SourceShredded
<1>3. /\ images' = {dir'} /\ open' = open /\ born \subseteq born' /\ discarded \subseteq discarded'
      /\ \A i \in Inodes : ~Free(i) => files'[i] = files[i]
      /\ \A i \in Inodes : files'[i] = files[i] \/ New(i)
      /\ \A n \in UserNames :
           \/ dir'[n] = None
           \/ \E m \in UserNames : dir'[n] = dir[m]
           \/ Free(dir'[n])
  BY <1>0, <1>2, OthersReach
<1>4. ~Free(open[Reading]) /\ (Victim # None => ~Free(Victim))
  BY InUse, EncryptAssumption DEF Victim
<1>5. SourceShredded'
  <2>1. files'[open[Reading]] = files[open[Reading]]
    BY <1>3, <1>4 DEF SourceShredded
  <2>2. ASSUME NEW i \in Inodes, files'[i].stable = encrypted PROVE i = open[Reading]
    <3>1. ASSUME New(i) PROVE FALSE
      <4>1. PICK d \in (UserData \ born) \cup UserNames : files'[i] = [data |-> d, stable |-> d]
        BY <3>1 DEF New
      <4>2. d = encrypted
        BY <2>2, <4>1
      <4> QED
        BY <1>2, <4>2, WholesAndNoise
    <3> QED
      BY <1>3, <2>2, <3>1 DEF SourceShredded
  <2> QED
    BY <1>0, <1>3, <2>1, <2>2 DEF SourceShredded, Victim
<1>6. Elsewhere'
  BY <1>3 DEF Elsewhere
<1>7. VictimHidden'
  <2> SUFFICES ASSUME Victim # None, files'[Victim].data = "noise",
                      NEW n \in UserNames, dir'[n] = Victim
               PROVE  FALSE
    BY <1>3 DEF VictimHidden, Victim
  <2>1. files[Victim].data = "noise"
    BY <1>2, <1>3, <1>4
  <2>2. PICK m \in UserNames : dir[m] = Victim
    BY <1>3, <1>4
  <2> QED
    BY <1>0, <2>1, <2>2 DEF VictimHidden, Del!Ended
<1>8. CipherKept'
  <2> SUFFICES ASSUME "whole" \notin discarded' PROVE \A image \in images' : Kept(image, "whole")'
    BY DEF CipherKept
  <2> QED
    BY <1>0, <1>1, <1>3, DelKeepsOthers DEF CipherKept
<1>9. RestKept'
  <2> SUFFICES ASSUME NEW d \in born' \ discarded', d \notin cleared, d # encrypted
               PROVE  \A image \in images' : Kept(image, d)'
    BY <1>0 DEF RestKept
  <2>1. CASE d \in born
    BY <1>0, <1>2, <1>3, <2>1, DelKeepsOthers, WholesAndNoise DEF RestKept
  <2>2. CASE d \notin born
    <3>1. Kept(dir, d)'
      BY <1>0, <1>2, <2>2, OthersBorn
    <3>2. \A image \in images' : image = dir'
      BY <1>3
    <3> QED
      BY <3>1, <3>2 DEF Kept
  <2> QED
    BY <2>1, <2>2
<1> QED
  BY <1>0, <1>1, <1>5, <1>6, <1>7, <1>8, <1>9

-------------------------------------------------------------------------------
(* Type correctness.                                                       *)

LEMMA PartTypes ==
    /\ FileSystemTypeOK <=> Output!FileSystemTypeOK
    /\ FileSystemTypeOK <=> Delete!FileSystemTypeOK
  BY DEF FileSystemTypeOK, Directories, Names, Data, OutputData, Output!FileSystemTypeOK,
         Output!Directories, Output!Names, Output!Data, Output!OutputData,
         Delete!FileSystemTypeOK, Delete!Directories, Delete!Names, Delete!Data, Delete!OutputData

\* A step of neither part.
LEMMA OwnStepType ==
    ASSUME TypeOK, FileSystemTypeOK', UNCHANGED <<shred, outLocal, delLocal>>,
           faults' \in 0 .. MaxFaults, stage' \in Stages, encrypted' \in Data \cup {None}
    PROVE  TypeOK'
<1>1. Output!FileSystemTypeOK' /\ Delete!FileSystemTypeOK'
  BY PartTypes, PTL
<1>2. Output!TypeOK'
  BY <1>1 DEF TypeOK, Output!TypeOK, Output!Data, Output!OutputData, outLocal
<1>3. Delete!TypeOK'
  BY <1>1 DEF TypeOK, Delete!TypeOK, delLocal
<1> QED
  BY <1>2, <1>3 DEF TypeOK

LEMMA PartStepType ==
    ASSUME TypeOK, (WriteOutput /\ MakeInv) \/ (ShredSource /\ ShredInv)
    PROVE  TypeOK'
<1>1. shred' \in BOOLEAN /\ encrypted' \in Data \cup {None}
  BY DEF TypeOK, WriteOutput, ShredSource
<1>2. CASE WriteOutput /\ MakeInv
  <2>1. Out!ReplaceInv'
    BY <1>2, OutNext DEF WriteOutput, MakeInv
  <2>2. FileSystemTypeOK' /\ Output!TypeOK'
    BY <2>1, OutFacts, PTL
  <2>3. Delete!FileSystemTypeOK'
    BY <2>2, PartTypes, PTL
  <2>4. Delete!TypeOK'
    <3>1. faults' \in 0 .. MaxFaults
      BY <2>2 DEF Output!TypeOK
    <3> QED
      BY <1>2, <2>3, <3>1 DEF TypeOK, Delete!TypeOK, WriteOutput, delLocal
  <2>5. stage' \in Stages
    BY <1>2 DEF WriteOutput, Stages
  <2> QED
    BY <1>1, <2>2, <2>4, <2>5 DEF TypeOK
<1>3. CASE ShredSource /\ ShredInv
  <2>1. DelInv'
    BY <1>3, DelNext DEF ShredSource, ShredInv
  <2>2. FileSystemTypeOK' /\ Delete!TypeOK'
    BY <2>1, DelFacts, PTL DEF DelInv
  <2>3. Output!FileSystemTypeOK'
    BY <2>2, PartTypes, PTL
  <2>4. Output!TypeOK'
    <3>1. faults' \in 0 .. MaxFaults
      BY <2>2 DEF Delete!TypeOK
    <3> QED
      BY <1>3, <2>3, <3>1
      DEF TypeOK, Output!TypeOK, Output!Data, Output!OutputData, ShredSource, outLocal
  <2>5. stage' \in Stages
    BY <1>3 DEF ShredSource, Stages
  <2> QED
    BY <1>1, <2>2, <2>4, <2>5 DEF TypeOK
<1> QED
  BY <1>2, <1>3

LEMMA NextType == TypeOK /\ EncryptInv /\ Next => TypeOK'
<1> SUFFICES ASSUME TypeOK, EncryptInv, Next PROVE TypeOK'
  OBVIOUS
<1>1. /\ FileSystemTypeOK /\ faults \in 0 .. MaxFaults /\ stage \in Stages
      /\ encrypted \in Data \cup {None}
  BY PartTypes DEF TypeOK, Output!TypeOK
<1>2. CASE WriteOutput \/ ShredSource
  BY <1>2, PartStepType DEF EncryptInv, WriteOutput, ShredSource, Making
<1>3. CASE CheckDistinct \/ StatSource \/ OpenSource \/ MatchSource \/ IoError
  <2>1. UNCHANGED <<dir, images, files, moves, born, discarded, shred, outLocal, delLocal>>
    BY <1>3 DEF CheckDistinct, StatSource, OpenSource, MatchSource, IoError, Fail, Quiet, fs
  <2>2. open' \in [Holders -> Inodes \cup {None}]
    <3>1. CASE OpenSource /\ OpenNoFollow(Reading, Source)
      <4>1. dir[Source] \in Inodes \cup {None}
        BY <1>1, EncryptAssumption DEF FileSystemTypeOK, Directories, Names
      <4> QED
        BY <1>1, <3>1, <4>1, HoldType DEF OpenNoFollow
    <3>2. CASE open' = [h \in Holders |-> None] \/ open' = open
      BY <1>1, <3>2 DEF FileSystemTypeOK
    <3> QED
      BY <1>3, <3>1, <3>2
      DEF CheckDistinct, StatSource, OpenSource, MatchSource, IoError, Fail, fs
  <2>3. FileSystemTypeOK'
    BY <1>1, <2>1, <2>2 DEF FileSystemTypeOK
  <2>4. stage' \in Stages
    BY <1>3
    DEF CheckDistinct, StatSource, OpenSource, MatchSource, IoError, Fail, Goto, Stages
  <2>5. faults' \in 0 .. MaxFaults
    BY <1>1, <1>3, EncryptAssumption
    DEF CheckDistinct, StatSource, OpenSource, MatchSource, IoError
  <2>6. encrypted' \in Data \cup {None}
    <3>1. CASE MatchSource /\ encrypted' = files[open[Reading]].data
      <4>1. MakeInv
        BY <3>1 DEF EncryptInv, MatchSource, Making, Preparing
      <4>2. open[Reading] \in Inodes
        BY <3>1, <4>1 DEF MakeInv, SourceHeld, MatchSource
      <4> QED
        BY <1>1, <3>1, <4>2 DEF FileSystemTypeOK
    <3>2. CASE UNCHANGED encrypted
      BY <1>1, <3>2
    <3> QED
      BY <1>3, <3>1, <3>2
      DEF CheckDistinct, StatSource, OpenSource, MatchSource, IoError, Fail
  <2> QED
    BY <2>1, <2>3, <2>4, <2>5, <2>6, OwnStepType
<1>4. CASE Others
  BY <1>1, <1>4, OthersType, OwnStepType DEF Others
<1>5. CASE Crash
  BY <1>1, <1>5, PowerLossType, OwnStepType DEF Crash, Goto, Stages
<1>6. CASE Over
  BY <1>1, <1>6, OwnStepType DEF Over, vars, fs, FileSystemTypeOK
<1> QED
  BY <1>2, <1>3, <1>4, <1>5, <1>6 DEF Next, Step

-------------------------------------------------------------------------------
(* The ends.                                                               *)

\* A power cut leaves one image, in which what was kept has its name still.
LEMMA Cut ==
    ASSUME FileSystemTypeOK, PowerLoss
    PROVE  \E image \in images :
             /\ dir' = image /\ images' = {image}
             /\ \A d : Kept(image, d) => Linked(d)'
             /\ \A i \in Inodes : files'[i].data \in {files[i].data, files[i].stable}
             /\ UNCHANGED <<born, discarded>>
<1>1. PICK image \in images : dir' = image /\ images' = {image}
  BY DEF PowerLoss
<1>2. ASSUME NEW d, Kept(image, d) PROVE Linked(d)'
  <2>1. Kept(image, d)'
    BY <1>2, PowerLossKept
  <2> QED
    BY <1>1, <2>1 DEF Kept, Linked
<1>3. \A i \in Inodes : files'[i].data \in {files[i].data, files[i].stable}
  BY DEF PowerLoss
<1> QED
  BY <1>1, <1>2, <1>3 DEF PowerLoss

LEMMA CrashPromises ==
    ASSUME MakeInv \/ ShredInv, Crash
    PROVE  Promises'
<1>0. /\ FileSystemTypeOK /\ PowerLoss /\ stage' = "crashed"
      /\ UNCHANGED <<shred, encrypted, cleared>>
  BY OutFacts, DelFacts DEF MakeInv, ShredInv, DelInv, Del!ShredInv, Crash, Goto, outLocal
<1>1. PICK image \in images :
        /\ dir' = image /\ images' = {image}
        /\ \A d : Kept(image, d) => Linked(d)'
        /\ \A i \in Inodes : files'[i].data \in {files[i].data, files[i].stable}
        /\ UNCHANGED <<born, discarded>>
  BY <1>0, Cut
<1>2. PlaintextOrCiphertext'
  <2> SUFFICES ASSUME NEW d \in born \ discarded, ~Linked(d)'
               PROVE  /\ d \in cleared \/ (shred /\ d = encrypted)
                      /\ Kept(image, "whole") \/ "whole" \in discarded
    BY <1>0, <1>1 DEF PlaintextOrCiphertext
  <2>1. ~Kept(image, d)
    BY <1>1
  <2>2. CASE MakeInv
    BY <2>1, <2>2, OutFacts DEF MakeInv
  <2>3. CASE ShredInv
    BY <2>1, <2>3 DEF ShredInv, RestKept, CipherKept
  <2> QED
    BY <2>2, <2>3
<1>3. NoAliasShredded'
  <2> SUFFICES ASSUME NEW n \in UserNames \ {Source}, image[n] # None,
                      files'[image[n]].data = "noise"
               PROVE  FALSE
    BY <1>1 DEF NoAliasShredded
  <2>1. image[n] \in Inodes
    BY <1>0 DEF FileSystemTypeOK, Directories, Names
  <2>2. files[image[n]].data = "noise" \/ files[image[n]].stable = "noise"
    BY <1>1, <2>1
  <2>3. CASE MakeInv
    BY <2>1, <2>2, <2>3 DEF MakeInv, Clean
  <2>4. CASE ShredInv
    <3>1. image[n] = dir[n]
      BY <2>4 DEF ShredInv, Elsewhere
    <3>2. files[image[n]].data = "noise" /\ image[n] = Victim
      BY <2>1, <2>2, <2>4, DelMeaning DEF ShredInv
    <3> QED
      BY <2>1, <2>4, <3>1, <3>2, NamesAssumption DEF ShredInv, VictimHidden
  <2> QED
    BY <2>3, <2>4
<1>4. ShredComplete'
  BY <1>0 DEF ShredComplete
<1> QED
  BY <1>2, <1>3, <1>4 DEF Promises

\* To give up early touches no file.
LEMMA FailPromises ==
    ASSUME Promises, UNCHANGED <<dir, images, files, born, discarded, shred, encrypted, cleared>>,
           stage' # "done" \/ stage' = stage
    PROVE  Promises'
BY DEF Promises, PlaintextOrCiphertext, Linked, NoAliasShredded, ShredComplete

-------------------------------------------------------------------------------
(* The invariant.                                                          *)

LEMMA InitInv == Init => EncryptInv
<1> SUFFICES ASSUME Init PROVE EncryptInv
  OBVIOUS
<1> USE DEF Init
<1>1. Out!Init
  BY DEF Output!Init, Output!FilesInit, Output!FileSystemInit, Output!Directories,
         Output!Present, Output!Names, Output!Linked, Output!LinkCount, Output!Cardinality,
         Out!Init, Out!FilesInit, Out!FileSystemInit, Out!Directories, Out!Present, Out!Names,
         Out!Linked, Out!LinkCount, Out!Cardinality
<1>2. Out!ReplaceInv
  BY <1>1, OutAssumed, Out!ReplaceInvInit DEF Out!NamesAssumption, Out!OutputAssumption
<1>3. /\ FilesInit /\ stage = "same" /\ outPc = "stat" /\ encrypted = None /\ shred \in BOOLEAN
      /\ delPc = "stat" /\ quarantine = None /\ passes = 0 /\ delTries = 0 /\ faults = 0
  <2>1. FilesInit <=> Output!FilesInit
    BY DEF Output!FilesInit, Output!Directories, Output!Present, Output!Names, Output!Linked,
           Output!LinkCount, Output!Cardinality, FilesInit, Directories, Present, Names, Linked,
           LinkCount, Cardinality
  <2>2. Output!FilesInit /\ outPc = "stat" /\ faults = 0
    BY DEF Output!Init, Output!FileSystemInit
  <2>3. delPc = "stat" /\ quarantine = None /\ passes = 0 /\ delTries = 0
    BY DEF Delete!LocalInit
  <2> QED
    BY <2>1, <2>2, <2>3
<1>4. FileSystemTypeOK /\ Output!TypeOK
  BY <1>2, OutFacts
<1>5. TypeOK
  <2>1. Delete!FileSystemTypeOK
    BY <1>4, PartTypes
  <2>2. Delete!TypeOK
    BY <1>3, <2>1, EncryptAssumption DEF Delete!TypeOK, Delete!Labels
  <2> QED
    BY <1>3, <1>4, <2>2 DEF TypeOK, Stages
<1>6. /\ \A i \in Inodes : files[i].data = files[i].stable
                            /\ files[i].data \in UserData \cup UserNames \cup {"partial"}
  <2>1. PICK c \in [Inodes -> UserData \cup UserNames \cup {"partial"}] :
          files = [i \in Inodes |-> [data |-> c[i], stable |-> c[i]]]
    BY <1>3 DEF FilesInit
  <2> QED
    BY <2>1
<1>7. Clean /\ Flushed
  <2>1. "noise" \notin UserData \cup UserNames \cup {"partial"}
    BY WholesAndNoise DEF OutputData
  <2> QED
    BY <1>6, <2>1 DEF Clean, Flushed
<1>8. Single
  <2>1. ASSUME NEW i \in Inodes, files[i].data \in UserData
        PROVE  \E n \in Names : dir[n] = i
    <3>1. files[i].data # "partial"
      BY <2>1, WholesAndNoise DEF OutputData
    <3>2. Cardinality({n \in Names : dir[n] = i}) # 0
      BY <1>3, <3>1 DEF FilesInit, LinkCount
    <3> QED
      BY <3>2, FS_EmptySet
  <2>2. ASSUME NEW i \in Inodes, files[i].data \in UserData
        PROVE  files[i].data \in born
    <3>1. PICK n \in Names : dir[n] = i
      BY <2>1, <2>2
    <3> QED
      BY <1>3, <2>2, <3>1, NamesAssumption DEF FilesInit, Linked
  <2>3. ASSUME NEW i \in Inodes, NEW j \in Inodes, files[i].data \in UserData,
               files[j].data = files[i].data
        PROVE  j = i
    <3>1. PICK m \in Names : dir[m] = i
      BY <2>1, <2>3
    <3>2. PICK n \in Names : dir[n] = j
      BY <2>1, <2>3
    <3>3. Present(m) /\ Present(n)
      BY <3>1, <3>2, NamesAssumption DEF Present
    <3>4. m = n
      BY <1>3, <2>3, <3>1, <3>2, <3>3 DEF FilesInit
    <3> QED
      BY <3>1, <3>2, <3>4
  <2> QED
    BY <1>6, <2>2, <2>3 DEF Single
<1>9. MakeInv
  BY <1>2, <1>3, <1>7, <1>8 DEF MakeInv, SourceHeld, Turn, Out!Ended
<1> QED
  BY <1>3, <1>5, <1>9, MakePromises DEF EncryptInv

LEMMA StutterInv == EncryptInv /\ UNCHANGED vars => EncryptInv'
<1> SUFFICES ASSUME EncryptInv, UNCHANGED vars PROVE EncryptInv'
  OBVIOUS
<1> USE DEF EncryptInv
<1>1. UNCHANGED <<dir, images, files, open, moves, born, discarded, stage, shred, encrypted,
                  cleared, outPc, outLocal, delPc, quarantine, delTries, passes, faults>>
  BY DEF vars, fs, outLocal, delLocal
<1>2. TypeOK'
  <2>1. FileSystemTypeOK /\ faults \in 0 .. MaxFaults
    BY PartTypes DEF TypeOK, Output!TypeOK
  <2>2. FileSystemTypeOK'
    BY <1>1, <2>1 DEF FileSystemTypeOK
  <2> QED
    BY <1>1, <2>1, <2>2, OwnStepType DEF TypeOK, delLocal
<1>3. Promises'
  BY <1>1, FailPromises
<1>4. ASSUME MakeInv PROVE MakeInv'
  <2>1. Out!ReplaceInv'
    <3>1. open \in [Holders -> Inodes \cup {None}]
      BY <1>4, OutFacts DEF MakeInv, FileSystemTypeOK
    <3> QED
      BY <1>1, <1>4, <3>1, OtherHandles DEF MakeInv
  <2> QED
    BY <1>1, <1>4, <2>1 DEF MakeInv, Clean, Flushed, Single, SourceHeld, Turn, outLocal
<1>5. ASSUME ShredInv PROVE ShredInv'
  <2>1. Del!TypeInv' /\ Del!SoleInv' /\ Del!NoiseWritten'
    BY <1>1, <1>5
    DEF ShredInv, DelInv, Del!ShredInv, Del!TypeInv, Del!TypeOK, Del!FileSystemTypeOK, Del!Stages,
        Del!SoleInv, Del!Matched, Del!Quarantined, Del!SoleName, Del!NoiseWritten, Del!victim
  <2>2. Del!OneImage' /\ Del!Moved' /\ Del!OneWritten' /\ Del!Overwritten'
    BY <1>1, <1>5
    DEF ShredInv, DelInv, Del!OneImage, Del!Moved, Del!Present, Del!OneWritten, Del!Overwritten,
        Del!Dirty, Del!victim
  <2>3. SourceShredded' /\ Elsewhere' /\ VictimHidden'
    BY <1>1, <1>5 DEF ShredInv, SourceShredded, Elsewhere, VictimHidden, Victim
  <2>4. CipherKept' /\ RestKept'
    BY <1>1, <1>5 DEF ShredInv, CipherKept, RestKept, Kept
  <2> QED
    BY <1>1, <1>5, <2>1, <2>2, <2>3, <2>4 DEF ShredInv, DelInv, Del!ShredInv
<1> QED
  BY <1>1, <1>2, <1>3, <1>4, <1>5

LEMMA NextInv == EncryptInv /\ [Next]_vars => EncryptInv'
<1> SUFFICES ASSUME EncryptInv, [Next]_vars PROVE EncryptInv'
  OBVIOUS
<1> USE DEF EncryptInv
<1>1. CASE UNCHANGED vars
  BY <1>1, StutterInv
<1>2. ASSUME Next PROVE TypeOK'
  BY <1>2, NextType
<1>3. MakeInv' => Promises'
  BY MakePromises, PTL
<1>4. ShredInv' => Promises'
  BY ShredPromises, PTL
<1>5. CASE WriteOutput
  <2>1. MakeInv'
    BY <1>5, WriteOutputKeeps DEF WriteOutput, Making
  <2>2. TypeOK'
    BY <1>2, <1>5 DEF Next, Step
  <2>3. (TypeOK /\ MakeInv /\ stage = "shred" => ShredInv)'
    BY HandOver, PTL
  <2> QED
    BY <1>3, <2>1, <2>2, <2>3
<1>6. CASE ShredSource
  <2>1. ShredInv'
    BY <1>6, ShredKeeps DEF ShredSource
  <2>2. TypeOK'
    BY <1>2, <1>6 DEF Next, Step
  <2>3. stage' \notin Making
    BY <1>6 DEF ShredSource, Making, Preparing
  <2> QED
    BY <1>4, <2>1, <2>2, <2>3
<1>7. CASE CheckDistinct \/ StatSource \/ OpenSource \/ MatchSource \/ IoError
  <2>1. TypeOK' /\ stage \in Preparing
    BY <1>2, <1>7
    DEF Next, Step, CheckDistinct, StatSource, OpenSource, MatchSource, IoError, Preparing
  <2>2. CASE stage' = "failed"
    <3>1. UNCHANGED <<dir, images, files, born, discarded, shred, encrypted, cleared>>
      BY <1>7, <2>2
      DEF CheckDistinct, StatSource, OpenSource, MatchSource, IoError, Fail, Quiet, Goto, outLocal
    <3> QED
      BY <2>1, <2>2, <3>1, FailPromises DEF Making, Preparing
  <2>3. CASE stage' # "failed"
    <3>1. MakeInv' /\ stage' # "shred"
      BY <1>7, <2>1, <2>3, PrepareKeeps
      DEF Making, CheckDistinct, StatSource, OpenSource, MatchSource, IoError, Fail, Goto
    <3> QED
      BY <1>3, <2>1, <3>1
  <2> QED
    BY <2>2, <2>3
<1>8. CASE Others
  <2>1. TypeOK' /\ stage' = stage
    BY <1>2, <1>8 DEF Next, Others
  <2>2. CASE stage = "shred"
    BY <1>4, <1>8, <2>1, <2>2, ShredUndisturbed DEF Making, Preparing
  <2>3. CASE stage \in Making
    BY <1>3, <1>8, <2>1, <2>3, MakeUndisturbed DEF Making, Preparing
  <2> QED
    BY <1>8, <2>2, <2>3 DEF Others, TypeOK, Stages, Ended, Making, Preparing
<1>9. CASE Crash
  <2>1. TypeOK' /\ stage' = "crashed"
    BY <1>2, <1>9 DEF Next, Crash, Goto
  <2>2. MakeInv \/ ShredInv
    BY <1>9 DEF Crash, TypeOK, Stages, Ended, Making, Preparing
  <2> QED
    BY <1>9, <2>1, <2>2, CrashPromises DEF Making, Preparing
<1>10. CASE Over
  BY <1>1, <1>10 DEF Over
<1> QED
  BY <1>1, <1>5, <1>6, <1>7, <1>8, <1>9, <1>10 DEF Next, Step

LEMMA EncryptInvariant == Spec => []EncryptInv
<1> QED
  BY InitInv, NextInv, PTL DEF Spec

\* The state of encrypt_file_to_path and of both its parts is well typed: no loop
\* over random names goes past its last try, in either part.
THEOREM EncryptTypeCorrect == Spec => []TypeOK
<1>1. EncryptInv => TypeOK
  BY DEF EncryptInv
<1> QED
  BY <1>1, EncryptInvariant, PTL

\* Whatever others do, whichever call of either part fails and whenever the power
\* goes: a content of the user's that no name leads to was removed by others, or
\* let pass by the overwrite checks, or is the source encrypted under --shred; and
\* then the ciphertext has a name.
THEOREM SourceOrCiphertext == Spec => []PlaintextOrCiphertext
<1>1. EncryptInv => PlaintextOrCiphertext
  BY DEF EncryptInv, Promises
<1> QED
  BY <1>1, EncryptInvariant, PTL

\* A shredded file is under no name but the source's, in no image a power cut may
\* leave: hard_link_count refuses a source others linked.
THEOREM AliasesSpared == Spec => []NoAliasShredded
<1>1. EncryptInv => NoAliasShredded
  BY DEF EncryptInv, Promises
<1> QED
  BY <1>1, EncryptInvariant, PTL

\* When encrypt_file_to_path returns Ok under --shred, no inode holds the
\* plaintext on the medium.
THEOREM PlaintextGone == Spec => []ShredComplete
<1>1. EncryptInv => ShredComplete
  BY DEF EncryptInv, Promises
<1> QED
  BY <1>1, EncryptInvariant, PTL
===============================================================================
