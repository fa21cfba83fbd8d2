-------------------------- MODULE AtomicOutputProofs --------------------------
(***************************************************************************)
(* Theorems about AtomicOutput for every directory, every number of names, *)
(* inodes and contents, and every bound on retries and I/O errors: types,  *)
(* output that appears complete, no file lost, and every run one of        *)
(* AtomicReplace.                                                          *)
(***************************************************************************)
EXTENDS AtomicOutput, FileSystemProofs

-------------------------------------------------------------------------------
(* Types.                                                                  *)

\* Once a destination is open the handle stays set up to the last check.
Holding == pc \in {"check", "prompt", "recheck"} => observed # None

\* What the code has created by the time it uses it.
Owning ==
    /\ pc \in {"write", "sync", "withdraw", "verify", "absent", "install", "cleanup"}
        => temp # None
    /\ pc \in {"verify", "remove", "restore"} => quarantine # None

TypeInv == TypeOK /\ Holding /\ Owning

\* An early return changes only pc and the handle of the observed file.
LEMMA UnwindType ==
    ASSUME TypeInv, Unwind, UNCHANGED <<dir, images, files, moves, born, discarded>>,
           faults' \in 0 .. MaxFaults
    PROVE  TypeInv'
<1>1. FileSystemTypeOK'
  BY HoldType DEF Unwind, TypeInv, TypeOK, FileSystemTypeOK
<1>2. pc' \in {"restore", "cleanup", "failed"}
  BY DEF Unwind
<1> QED
  BY <1>1, <1>2 DEF Unwind, names, history, TypeInv, TypeOK, Holding, Owning, Labels

LEMMA RefuseType ==
    ASSUME TypeInv, Refuse
    PROVE  TypeInv'
BY UnwindType DEF Refuse, TypeInv, TypeOK

\* The overwrite checks leave the directory and all names alone.
LEMMA PreflightType ==
    ASSUME TypeInv, Stat \/ OpenObserved \/ Check \/ Prompt \/ Recheck
    PROVE  TypeInv'
<1> USE DEF Goto, names, history, fs
<1>1. CASE Stat
  BY <1>1, RefuseType DEF Stat, TypeInv, TypeOK, FileSystemTypeOK, Holding, Owning, Labels
<1>2. CASE OpenObserved
  <2>1. Resolve(Dest) \in Inodes \cup {None}
    BY OutputAssumption, ResolveType DEF TypeInv, TypeOK, Names
  <2>2. CASE Refuse
    BY <2>2, RefuseType
  <2>3. CASE ~Refuse
    <3>1. FileSystemTypeOK' /\ open'[Observed] = Resolve(Dest)
      BY <1>2, <2>1, <2>3, HoldType, OutputAssumption
      DEF OpenObserved, Hold, TypeInv, TypeOK, FileSystemTypeOK
    <3> QED
      BY <1>2, <2>3, <3>1 DEF OpenObserved, TypeInv, TypeOK, Holding, Owning, Labels, observed
  <2> QED
    BY <2>2, <2>3
<1>3. CASE Check
  BY <1>3, RefuseType DEF Check, TypeInv, TypeOK, FileSystemTypeOK, Holding, Owning, Labels, observed
<1>4. CASE Prompt
  BY <1>4, RefuseType DEF Prompt, TypeInv, TypeOK, FileSystemTypeOK, Holding, Owning, Labels, observed
<1>5. CASE Recheck
  <2>1. files[observed].data \in Data
    BY <1>5, OutputAssumption
    DEF Recheck, TypeInv, TypeOK, FileSystemTypeOK, Holding, Owning, observed
  <2> QED
    BY <1>5, <2>1, RefuseType
    DEF Recheck, TypeInv, TypeOK, FileSystemTypeOK, Holding, Owning, Labels
<1> QED
  BY <1>1, <1>2, <1>3, <1>4, <1>5

\* The temporary file and its contents.
LEMMA WritingType ==
    ASSUME TypeInv, CreateTemp \/ Write \/ SyncOutput
    PROVE  TypeInv'
<1> USE DEF Goto, names, history, fs
<1>1. CASE CreateTemp
  <2>1. PICK t \in TempNames :
          \/ /\ CreatePrivate(t)
             /\ temp' = t
             /\ tries' = 0
             /\ pc' = "write"
             /\ UNCHANGED <<force, quarantine, committed, faults, history>>
          \/ /\ ~LastTry
             /\ tries' = tries + 1
             /\ UNCHANGED <<fs, pc, force, temp, quarantine, committed, faults, history>>
          \/ Refuse
    BY <1>1 DEF CreateTemp
  <2>2. CASE CreatePrivate(t) /\ pc' = "write" /\ temp' = t /\ tries' = 0
                /\ UNCHANGED <<force, quarantine, committed, faults, history>>
    <3>1. FileSystemTypeOK'
      BY <2>2, CreateType DEF Names, TypeInv, TypeOK
    <3> QED
      BY <2>2, <3>1, OutputAssumption, NamesAssumption
      DEF TypeInv, TypeOK, Holding, Owning, Labels, Names
  <2>3. CASE ~LastTry /\ tries' = tries + 1
                /\ UNCHANGED <<fs, pc, force, temp, quarantine, committed, faults, history>>
    BY <2>3, OutputAssumption DEF LastTry, TypeInv, TypeOK, FileSystemTypeOK, Holding, Owning, observed
  <2> QED
    BY <2>1, <2>2, <2>3, RefuseType
<1>2. CASE Write
  <2>1. ASSUME NEW d \in {"partial", "whole"}, WriteFile(dir[temp], d), UNCHANGED open
        PROVE  FileSystemTypeOK'
    BY <2>1 DEF WriteFile, TypeInv, TypeOK, FileSystemTypeOK, Data, OutputData
  <2> QED
    BY <1>2, <2>1, RefuseType DEF Write, TypeInv, TypeOK, Holding, Owning, Labels
<1>3. CASE SyncOutput
  <2>1. FileSystemTypeOK'
    BY <1>3 DEF SyncOutput, SyncFile, TypeInv, TypeOK, FileSystemTypeOK
  <2> QED
    BY <1>3, <2>1 DEF SyncOutput, TypeInv, TypeOK, Holding, Owning, Labels
<1> QED
  BY <1>1, <1>2, <1>3

\* Moving the old file aside, installing the new one, removing the old.
LEMMA CommitType ==
    ASSUME TypeInv,
           Withdraw \/ Verify \/ Absent \/ Install \/ SyncParent \/ Remove \/ SyncRemoval
    PROVE  TypeInv'
<1> USE DEF Goto, names, history, fs
<1>0. Dest \in Names
  BY OutputAssumption DEF Names
<1>1. CASE Withdraw
  <2>1. CASE Refuse
    BY <2>1, RefuseType
  <2>2. ASSUME NEW t \in TempNames, RenameNoReplace(Dest, t), quarantine' = t,
               pc' = "verify",
               UNCHANGED <<open, force, temp, tries, committed, faults, history>>
        PROVE  TypeInv'
    <3>1. FileSystemTypeOK'
      BY <1>0, <2>2, RenameType DEF Names, TypeInv, TypeOK, FileSystemTypeOK
    <3> QED
      BY <1>1, <2>2, <3>1, NamesAssumption
      DEF Withdraw, TypeInv, TypeOK, Holding, Owning, Labels, Names
  <2>3. CASE /\ ~LastTry
             /\ tries' = tries + 1
             /\ UNCHANGED <<fs, pc, force, temp, quarantine, committed, faults, history>>
    BY <2>3, OutputAssumption DEF LastTry, TypeInv, TypeOK, FileSystemTypeOK, Holding, Owning, observed
  <2> QED
    BY <1>1, <2>1, <2>2, <2>3 DEF Withdraw
<1>2. CASE Verify
  BY <1>2, RefuseType DEF Verify, TypeInv, TypeOK, FileSystemTypeOK, Holding, Owning, Labels
<1>3. CASE Absent
  BY <1>3, RefuseType DEF Absent, TypeInv, TypeOK, FileSystemTypeOK, Holding, Owning, Labels
<1>4. CASE Install
  <2>1. CASE Refuse
    BY <2>1, RefuseType
  <2>2. CASE ~Refuse
    <3>1. FileSystemTypeOK'
      BY <1>0, <1>4, <2>2, RenameType, HoldType DEF Install, Names, TypeInv, TypeOK, Owning
    <3> QED
      BY <1>4, <2>2, <3>1 DEF Install, TypeInv, TypeOK, Holding, Owning, Labels
  <2> QED
    BY <2>1, <2>2
<1>5. CASE SyncParent
  BY <1>5 DEF SyncParent, SyncDirectory, TypeInv, TypeOK, FileSystemTypeOK, Holding, Owning, Labels
<1>6. CASE Remove
  <2>1. FileSystemTypeOK'
    BY <1>6, UnlinkType DEF Remove, Names, TypeInv, TypeOK, FileSystemTypeOK, Owning
  <2> QED
    BY <1>6, <2>1 DEF Remove, TypeInv, TypeOK, Holding, Owning, Labels
<1>7. CASE SyncRemoval
  BY <1>7 DEF SyncRemoval, SyncDirectory, TypeInv, TypeOK, FileSystemTypeOK, Holding, Owning, Labels
<1> QED
  BY <1>1, <1>2, <1>3, <1>4, <1>5, <1>6, <1>7

\* The Drop impls, I/O errors and crashes.
LEMMA EndingType ==
    ASSUME TypeInv, Restore \/ Cleanup \/ IoError \/ IgnoredError \/ Crash
    PROVE  TypeInv'
<1> USE DEF Goto, names, history, fs
<1>1. CASE Restore
  <2>1. FileSystemTypeOK'
    <3>1. Dest \in Names /\ quarantine \in Names
      BY <1>1, OutputAssumption DEF Restore, Names, TypeInv, TypeOK, Owning
    <3> QED
      BY <1>1, <3>1, RenameType DEF Restore, TypeInv, TypeOK, FileSystemTypeOK
  <2> QED
    BY <1>1, <2>1 DEF Restore, TypeInv, TypeOK, Holding, Owning, Labels
<1>2. CASE Cleanup
  <2>1. FileSystemTypeOK'
    BY <1>2, UnlinkType DEF Cleanup, Names, TypeInv, TypeOK, FileSystemTypeOK, Owning
  <2> QED
    BY <1>2, <2>1 DEF Cleanup, TypeInv, TypeOK, Holding, Owning, Labels
<1>3. CASE IoError
  BY <1>3, UnwindType, OutputAssumption DEF IoError, TypeInv, TypeOK
<1>4. CASE IgnoredError
  BY <1>4, OutputAssumption
  DEF IgnoredError, TypeInv, TypeOK, FileSystemTypeOK, Holding, Owning, Labels
<1>5. CASE Crash
  BY <1>5, PowerLossType DEF Crash, TypeInv, TypeOK, Holding, Owning, Labels
<1> QED
  BY <1>1, <1>2, <1>3, <1>4, <1>5

LEMMA TypeInit == Init => TypeInv
<1> SUFFICES ASSUME Init PROVE TypeInv
  OBVIOUS
<1>1. FileSystemTypeOK
  BY FileSystemInitType DEF Init
<1>2. tries \in 0 .. MaxTries - 1 /\ faults \in 0 .. MaxFaults
  BY OutputAssumption DEF Init
<1> QED
  BY <1>1, <1>2 DEF Init, TypeInv, TypeOK, Holding, Owning, Labels

\* The inductive form of TypeCorrect.
LEMMA TypeNext == TypeInv /\ [Next]_vars => TypeInv'
<1> SUFFICES ASSUME TypeInv, [Next]_vars PROVE TypeInv'
  OBVIOUS
<1>1. CASE Others
  <2>1. FileSystemTypeOK' /\ open' = open
    BY <1>1, OthersType
    DEF Others, OthersNext, OthersCreate, OthersLink, OthersRename, OthersUnlink,
        OthersEdit, TypeInv, TypeOK
  <2> QED
    BY <1>1, <2>1
    DEF Others, local, names, history, TypeInv, TypeOK, Holding, Owning, observed
<1>2. CASE UNCHANGED vars
  BY <1>2 DEF vars, fs, local, names, history, TypeInv, TypeOK, FileSystemTypeOK,
              Holding, Owning, observed
<1> QED
  BY <1>1, <1>2, PreflightType, WritingType, CommitType, EndingType DEF Next, Step, Over

LEMMA TypeInvariant == Spec => []TypeInv
<1> QED
  BY TypeInit, TypeNext, PTL DEF Spec

\* Every state is well typed: no name, handle, counter or history leaves its
\* range, whatever the other processes and the errors do.
THEOREM TypeCorrect == Spec => []TypeOK
<1>1. TypeInv => TypeOK
  BY DEF TypeInv
<1> QED
  BY <1>1, TypeInvariant, PTL

-------------------------------------------------------------------------------
(* Output appears complete. DestinationAtomic speaks of names alone; it is *)
(* inductive together with what the program knows of its two temporary     *)
(* names: the output is private while it is written and on the medium      *)
(* before it is installed, and what was moved aside came from a user name. *)

Settled(i) ==
    files[i].data \in OutputData \/ files[i].stable \in OutputData
        => files[i] = [data |-> "whole", stable |-> "whole"]

Published == \A image \in images : \A n \in UserNames : image[n] # None => Settled(image[n])

PrivateWhileWritten ==
    pc \in {"write", "sync"} =>
        /\ Present(temp)
        /\ \A image \in images : \A n \in UserNames : image[n] # dir[temp]
        /\ pc = "sync" => files[dir[temp]].data = "whole"

SyncedBeforeInstall ==
    pc \in {"withdraw", "verify", "absent", "install"} =>
        Present(temp) /\ files[dir[temp]] = [data |-> "whole", stable |-> "whole"]

AsideSettled ==
    /\ pc \in {"stat", "open", "check", "prompt", "recheck", "create", "write", "sync",
               "withdraw", "absent"} => quarantine = None
    /\ pc \notin Ended /\ quarantine # None /\ Present(quarantine) => Settled(dir[quarantine])

AtomicInv ==
    /\ dir \in images
    /\ Published
    /\ PrivateWhileWritten
    /\ SyncedBeforeInstall
    /\ AsideSettled

\* A step that touches neither directory nor files keeps what is known of
\* them, if the label it goes to asks nothing new.
LEMMA QuietStep ==
    ASSUME AtomicInv, UNCHANGED <<dir, images, files, temp, quarantine>>,
           pc' \in {"write", "sync"} => PrivateWhileWritten',
           pc' \in {"withdraw", "verify", "absent", "install"} => SyncedBeforeInstall',
           pc' \in {"stat", "open", "check", "prompt", "recheck", "create", "write", "sync",
                    "withdraw", "absent"} => quarantine = None,
           pc \notin Ended \/ pc' \in Ended
    PROVE  AtomicInv'
BY DEF AtomicInv, Published, PrivateWhileWritten, SyncedBeforeInstall, AsideSettled,
       Settled, Present, Ended

LEMMA RefuseAtomic ==
    ASSUME AtomicInv, Unwind, UNCHANGED <<dir, images, files>>, pc \notin Ended
    PROVE  AtomicInv'
<1>1. pc' \in {"restore", "cleanup", "failed"}
  BY DEF Unwind
<1> QED
  BY <1>1, QuietStep DEF Unwind, names

\* A directory change of the program reaches each image the same way.
LEMMA JournalPublished ==
    ASSUME FileSystemTypeOK, AtomicInv, NEW edit, Journal(edit),
           \A i \in Inodes :
             (\E image \in images : \E n \in UserNames : image[n] = i) => Settled(i)',
           \A n \in UserNames \cap DOMAIN edit : edit[n] # None => Settled(edit[n])'
    PROVE  dir' \in images' /\ Published'
<1>1. dir' \in images'
  BY DEF Journal, AtomicInv
<1>2. ASSUME NEW image \in images', NEW n \in UserNames, image[n] # None
      PROVE  Settled(image[n])'
  <2>1. CASE image \in images
    BY <1>2, <2>1 DEF FileSystemTypeOK, Directories, Names
  <2>2. CASE image \notin images
    <3>1. PICK old \in images : image = Edited(old, edit)
      BY <2>2 DEF Journal
    <3>2. CASE n \in DOMAIN edit
      BY <1>2, <3>1, <3>2 DEF Edited, Names
    <3>3. CASE n \notin DOMAIN edit
      BY <1>2, <3>1, <3>3 DEF Edited, Names, FileSystemTypeOK, Directories
    <3> QED
      BY <3>2, <3>3
  <2> QED
    BY <2>1, <2>2
<1> QED
  BY <1>1, <1>2 DEF Published

\* A name a change does not mention leads where it did.
LEMMA JournalElsewhere ==
    ASSUME NEW edit, Journal(edit), NEW n \in Names, n \notin DOMAIN edit
    PROVE  dir'[n] = dir[n]
BY DEF Journal, Edited

LEMMA CreateTempAtomic ==
    ASSUME TypeInv, AtomicInv, CreateTemp
    PROVE  AtomicInv'
<1> USE DEF Goto, names, history, fs
<1>1. ASSUME NEW t \in TempNames, CreatePrivate(t), temp' = t, pc' = "write",
             UNCHANGED quarantine
      PROVE  AtomicInv'
  <2>1. PICK i \in Inodes :
           /\ Free(i)
           /\ Journal([m \in {t} |-> i])
           /\ files' = [files EXCEPT ![i] = [data |-> "blank", stable |-> "blank"]]
    BY <1>1 DEF CreatePrivate
  <2>2. quarantine = None /\ quarantine' = None
    BY <1>1 DEF AtomicInv, AsideSettled, CreateTemp
  <2>3. \A image \in images : \A n \in UserNames : image[n] # i
    BY <2>1 DEF Free, Names
  <2>4. \A j \in Inodes \ {i} : Settled(j) => Settled(j)'
    BY <2>1 DEF Settled, TypeInv, TypeOK, FileSystemTypeOK
  <2>5. dir' \in images' /\ Published'
    <3>1. \A j \in Inodes :
             (\E image \in images : \E n \in UserNames : image[n] = j) => Settled(j)'
      BY <2>3, <2>4, NamesAssumption DEF AtomicInv, Published
    <3> QED
      BY <2>1, <3>1, JournalPublished, NamesAssumption DEF TypeInv, TypeOK
  <2>6. dir'[t] = i
    BY <2>1 DEF Journal, Edited, Names
  <2>7. \A image \in images' : \A n \in UserNames : image[n] # i
    BY <2>1, <2>3, NamesAssumption DEF Journal, Edited, Names
  <2> QED
    BY <1>1, <2>2, <2>5, <2>6, <2>7, NamesAssumption
    DEF AtomicInv, PrivateWhileWritten, SyncedBeforeInstall, AsideSettled, Present
<1>2. CASE Refuse
  BY <1>2, RefuseAtomic DEF Refuse, CreateTemp, Ended
<1>3. CASE UNCHANGED <<dir, images, files, temp, quarantine, pc>>
  BY <1>3, QuietStep DEF AtomicInv, CreateTemp, AsideSettled, Ended
<1> QED
  BY <1>1, <1>2, <1>3 DEF CreateTemp

LEMMA WriteAtomic ==
    ASSUME TypeInv, AtomicInv, Write \/ SyncOutput
    PROVE  AtomicInv'
<1> USE DEF Goto, names, history, fs
<1>1. CASE Refuse
  BY <1>1, RefuseAtomic DEF Refuse, Write, SyncOutput, Ended
<1>2. CASE ~Refuse
  <2>1. UNCHANGED <<dir, images, temp, quarantine>> /\ quarantine = None
    BY <1>2 DEF Write, WriteFile, SyncOutput, SyncFile, AtomicInv, AsideSettled
  <2>2. /\ pc \in {"write", "sync"}
        /\ Present(temp)
        /\ \A image \in images : \A n \in UserNames : image[n] # dir[temp]
        /\ dir[temp] \in Inodes
    BY <1>2 DEF Write, SyncOutput, AtomicInv, PrivateWhileWritten, TypeInv, TypeOK, Owning,
                FileSystemTypeOK, Directories, Names, Present
  <2>3. \A i \in Inodes \ {dir[temp]} : files'[i] = files[i]
    BY <1>2 DEF Write, WriteFile, SyncOutput, SyncFile, TypeInv, TypeOK, FileSystemTypeOK
  <2>4. dir' \in images' /\ Published'
    BY <2>1, <2>2, <2>3
    DEF AtomicInv, Published, Settled, TypeInv, TypeOK, FileSystemTypeOK, Directories, Names
  <2>5. CASE Write
    <3>1. pc' = "write" \/ (pc' = "sync" /\ files'[dir[temp]].data = "whole")
      BY <1>2, <2>2, <2>5 DEF Write, WriteFile, TypeInv, TypeOK, FileSystemTypeOK
    <3> QED
      BY <2>1, <2>2, <2>4, <3>1
      DEF AtomicInv, PrivateWhileWritten, SyncedBeforeInstall, AsideSettled, Present
  <2>6. CASE SyncOutput
    <3>1. files'[dir[temp]] = [data |-> "whole", stable |-> "whole"]
      BY <2>2, <2>6
      DEF SyncOutput, SyncFile, AtomicInv, PrivateWhileWritten, TypeInv, TypeOK, FileSystemTypeOK
    <3>2. pc' \in {"withdraw", "absent"}
      BY <2>6 DEF SyncOutput
    <3> QED
      BY <2>1, <2>2, <2>4, <3>1, <3>2
      DEF AtomicInv, PrivateWhileWritten, SyncedBeforeInstall, AsideSettled, Present
  <2> QED
    BY <2>5, <2>6
<1> QED
  BY <1>1, <1>2

\* A rename that puts a settled file, or a temporary name, in place.
LEMMA RenamePublished ==
    ASSUME FileSystemTypeOK, AtomicInv, NEW from \in Names, NEW to \in Names,
           RenameNoReplace(from, to),
           to \in UserNames => Settled(dir[from])
    PROVE  /\ dir' \in images' /\ Published'
           /\ dir'[to] = dir[from]
           /\ dir[from] \in Inodes
           /\ \A n \in Names \ {from, to} : dir'[n] = dir[n]
           /\ files' = files
<1> PICK edit : edit = Renaming(from, to)
  OBVIOUS
<1>1. Journal(edit) /\ files' = files /\ dir[from] \in Inodes
  BY DEF RenameNoReplace, CanRename, Present, FileSystemTypeOK, Directories
<1>2. /\ dir'[to] = dir[from]
      /\ \A n \in Names \ {from, to} : dir'[n] = dir[n]
  BY <1>1 DEF Journal, Edited, Renaming
<1>3. \A n \in UserNames \cap DOMAIN edit : edit[n] # None => Settled(edit[n])'
  BY <1>1 DEF Renaming, Settled
<1>4. \A i \in Inodes :
        (\E image \in images : \E n \in UserNames : image[n] = i) => Settled(i)'
  BY <1>1, NamesAssumption DEF AtomicInv, Published, Settled
<1>5. dir' \in images' /\ Published'
  BY <1>1, <1>3, <1>4, JournalPublished
<1> QED
  BY <1>1, <1>2, <1>5

LEMMA WithdrawAtomic ==
    ASSUME TypeInv, AtomicInv, Withdraw
    PROVE  AtomicInv'
<1> USE DEF Goto, names, history, fs
<1>1. Dest \in Names
  BY OutputAssumption DEF Names
<1>2. ASSUME NEW t \in TempNames, RenameNoReplace(Dest, t), quarantine' = t,
             pc' = "verify", UNCHANGED temp
      PROVE  AtomicInv'
  <2>1. /\ dir' \in images' /\ Published'
        /\ dir'[t] = dir[Dest]
        /\ \A n \in Names \ {Dest, t} : dir'[n] = dir[n]
        /\ files' = files
    BY <1>1, <1>2, RenamePublished, NamesAssumption DEF TypeInv, TypeOK, Names
  <2>2. /\ temp \in TempNames
        /\ Present(temp)
        /\ files[dir[temp]] = [data |-> "whole", stable |-> "whole"]
    BY <1>2 DEF Withdraw, TypeInv, TypeOK, Owning, AtomicInv, SyncedBeforeInstall
  <2>3. temp # t
    BY <1>2, <2>2 DEF RenameNoReplace, CanRename
  <2>4. dir'[temp] = dir[temp]
    BY <2>1, <2>2, <2>3, OutputAssumption, NamesAssumption DEF Names
  <2>5. Settled(dir[Dest])
    BY <1>2, OutputAssumption
    DEF AtomicInv, Published, RenameNoReplace, CanRename, Present
  <2> QED
    BY <1>2, <2>1, <2>2, <2>4, <2>5
    DEF AtomicInv, PrivateWhileWritten, SyncedBeforeInstall, AsideSettled, Present, Settled
<1>3. CASE Refuse
  BY <1>3, RefuseAtomic DEF Refuse, Withdraw, Ended
<1>4. CASE UNCHANGED <<dir, images, files, temp, quarantine, pc>>
  BY <1>4, QuietStep DEF AtomicInv, Withdraw, AsideSettled, SyncedBeforeInstall, Present, Ended
<1> QED
  BY <1>2, <1>3, <1>4 DEF Withdraw

LEMMA InstallAtomic ==
    ASSUME TypeInv, AtomicInv, Install
    PROVE  AtomicInv'
<1> USE DEF Goto, names, history, fs
<1>1. CASE Refuse
  BY <1>1, RefuseAtomic DEF Refuse, Install, Ended
<1>2. CASE ~Refuse
  <2>1. RenameNoReplace(temp, Dest) /\ pc' = "syncdir" /\ UNCHANGED <<temp, quarantine>>
    BY <1>2 DEF Install
  <2>2. temp \in TempNames /\ Settled(dir[temp])
    BY DEF Install, TypeInv, TypeOK, Owning, AtomicInv, SyncedBeforeInstall, Settled
  <2>3. /\ dir' \in images' /\ Published'
        /\ dir'[Dest] = dir[temp]
        /\ \A n \in Names \ {temp, Dest} : dir'[n] = dir[n]
        /\ files' = files
    BY <2>1, <2>2, RenamePublished, OutputAssumption DEF TypeInv, TypeOK, Names
  <2>4. dir'[temp] = None
    BY <2>1, <2>2, OutputAssumption, NamesAssumption
    DEF RenameNoReplace, Journal, Edited, Renaming, Names
  <2>5. quarantine # None /\ Present(quarantine)' => Settled(dir[quarantine])'
    <3>1. ASSUME quarantine # None, Present(quarantine)'
          PROVE  Settled(dir[quarantine])'
      <4>1. quarantine' = quarantine /\ quarantine \in TempNames \ {temp, Dest}
        BY <2>1, <2>4, <3>1, OutputAssumption, NamesAssumption DEF TypeInv, TypeOK, Present
      <4>2. dir'[quarantine] = dir[quarantine]
        BY <2>3, <4>1 DEF Names
      <4>3. Settled(dir[quarantine])
        BY <3>1, <4>1, <4>2 DEF Install, AtomicInv, AsideSettled, Present, Ended
      <4> QED
        BY <2>3, <4>1, <4>2, <4>3 DEF Settled
    <3> QED
      BY <3>1
  <2> QED
    BY <2>1, <2>3, <2>5
    DEF AtomicInv, PrivateWhileWritten, SyncedBeforeInstall, AsideSettled, Present
<1> QED
  BY <1>1, <1>2

\* Removing a temporary name publishes nothing.
LEMMA UnlinkPublished ==
    ASSUME FileSystemTypeOK, AtomicInv, NEW n \in TempNames, Unlink(n)
    PROVE  /\ dir' \in images' /\ Published'
           /\ \A m \in Names : dir'[m] = dir[m] \/ dir'[m] = None
           /\ files' = files
<1>1. Journal([m \in {n} |-> None]) /\ files' = files
  BY DEF Unlink
<1>2. \A m \in Names : dir'[m] = dir[m] \/ dir'[m] = None
  BY <1>1 DEF Journal, Edited
<1>3. \A i \in Inodes :
        (\E image \in images : \E m \in UserNames : image[m] = i) => Settled(i)'
  BY <1>1, NamesAssumption DEF AtomicInv, Published, Settled
<1> QED
  BY <1>1, <1>2, <1>3, JournalPublished, NamesAssumption

\* After the installation, and on the way out, nothing is written any more.
LEMMA EndingAtomic ==
    ASSUME TypeInv, AtomicInv,
           SyncParent \/ Remove \/ SyncRemoval \/ Restore \/ Cleanup \/ IgnoredError
    PROVE  AtomicInv'
<1> USE DEF Goto, names, history, fs
<1>0. pc' \in {"remove", "syncremoval", "cleanup", "done", "failed"}
  BY DEF SyncParent, Remove, SyncRemoval, Restore, Cleanup, IgnoredError
<1>1. UNCHANGED <<files, temp, quarantine>> /\ pc \notin Ended
  BY DEF SyncParent, Remove, SyncRemoval, Restore, Cleanup, IgnoredError, SyncDirectory,
         Unlink, RenameNoReplace, Ended
<1>2. ASSUME dir' \in images' /\ Published',
             quarantine # None /\ Present(quarantine)'
                => dir'[quarantine] = dir[quarantine]
      PROVE  AtomicInv'
  BY <1>0, <1>1, <1>2
  DEF AtomicInv, PrivateWhileWritten, SyncedBeforeInstall, AsideSettled, Present, Settled
<1>3. CASE SyncParent \/ SyncRemoval
  BY <1>2, <1>3 DEF SyncParent, SyncRemoval, SyncDirectory, AtomicInv, Published, Settled
<1>4. ASSUME NEW n \in TempNames, Unlink(n)
      PROVE  AtomicInv'
  <2>1. /\ dir' \in images' /\ Published'
        /\ \A m \in Names : dir'[m] = dir[m] \/ dir'[m] = None
    BY <1>4, UnlinkPublished DEF TypeInv, TypeOK
  <2> QED
    BY <1>1, <1>2, <2>1 DEF TypeInv, TypeOK, Names, Present
<1>5. CASE Remove
  BY <1>4, <1>5 DEF Remove, TypeInv, TypeOK, Owning
<1>6. CASE UNCHANGED <<dir, images>>
  BY <1>1, <1>2, <1>6 DEF AtomicInv, Published, Settled
<1>7. CASE Restore
  <2>1. CASE RenameNoReplace(quarantine, Dest)
    <3>1. quarantine \in TempNames /\ quarantine' = quarantine
      BY <1>1, <1>7 DEF Restore, TypeInv, TypeOK, Owning
    <3>2. Settled(dir[quarantine])
      BY <1>7, <2>1, <3>1, NamesAssumption
      DEF Restore, RenameNoReplace, CanRename, AtomicInv, AsideSettled, Ended, Names
    <3>3. /\ dir' \in images' /\ Published'
      BY <2>1, <3>1, <3>2, RenamePublished, OutputAssumption DEF TypeInv, TypeOK, Names
    <3>4. dir'[quarantine] = None
      BY <2>1, <3>1, OutputAssumption, NamesAssumption
      DEF RenameNoReplace, Journal, Edited, Renaming, Names
    <3> QED
      BY <1>2, <3>1, <3>3, <3>4 DEF Present
  <2> QED
    BY <1>6, <1>7, <2>1 DEF Restore
<1>8. CASE Cleanup
  BY <1>4, <1>6, <1>8 DEF Cleanup, TypeInv, TypeOK, Owning
<1>9. CASE IgnoredError
  BY <1>6, <1>9 DEF IgnoredError
<1> QED
  BY <1>3, <1>5, <1>7, <1>8, <1>9

LEMMA CrashAtomic ==
    ASSUME TypeInv, AtomicInv, Crash
    PROVE  AtomicInv'
<1>1. dir' \in images /\ images' = {dir'} /\ pc' = "crashed"
  BY DEF Crash, PowerLoss, Goto
<1>2. \A i \in Inodes : Settled(i) => Settled(i)'
  <2>1. PICK kept \in SUBSET {i \in Inodes : files[i].data # files[i].stable} :
          files' = [i \in Inodes |->
                      LET d == IF i \in kept THEN files[i].data ELSE files[i].stable
                      IN  [data |-> d, stable |-> d]]
    BY DEF Crash, PowerLoss
  <2> SUFFICES ASSUME NEW i \in Inodes, Settled(i) PROVE Settled(i)'
    OBVIOUS
  <2>2. PICK d \in {files[i].data, files[i].stable} : files'[i] = [data |-> d, stable |-> d]
    BY <2>1
  <2>3. CASE d \in OutputData
    BY <2>2, <2>3 DEF Settled
  <2>4. CASE d \notin OutputData
    BY <2>2, <2>4 DEF Settled
  <2> QED
    BY <2>3, <2>4
<1>3. Published'
  BY <1>1, <1>2
  DEF AtomicInv, Published, TypeInv, TypeOK, FileSystemTypeOK, Directories, Names
<1> QED
  BY <1>1, <1>3
  DEF AtomicInv, PrivateWhileWritten, SyncedBeforeInstall, AsideSettled, Ended

\* The other processes give user names only to files of the user, new or
\* already under a user name.
LEMMA OthersAtomic ==
    ASSUME TypeInv, AtomicInv, OthersNext, UNCHANGED local
    PROVE  AtomicInv'
<1> USE DEF names, history, local
<1>1. ASSUME NEW edit, OthersEdit(edit), DOMAIN edit \subseteq UserNames,
             \A n \in UserNames \cap DOMAIN edit : edit[n] # None => Settled(edit[n])',
             \A n \in DOMAIN edit :
                edit[n] = None \/ Free(edit[n]) \/ \E m \in UserNames : edit[n] = dir[m],
             \A i \in Inodes : (\E n \in Names : dir[n] = i) => files'[i] = files[i]
      PROVE  AtomicInv'
  <2>1. dir' \in images' /\ images' = {dir'} /\ dir' = Edited(dir, edit)
    BY <1>1 DEF OthersEdit
  <2>2. \A n \in TempNames : dir'[n] = dir[n]
    BY <1>1, <2>1, NamesAssumption DEF Edited, Names
  <2>3. \A n \in Names : dir[n] # None => dir[n] \in Inodes /\ files'[dir[n]] = files[dir[n]]
    BY <1>1 DEF TypeInv, TypeOK, FileSystemTypeOK, Directories
  <2>4. ASSUME NEW image \in images', NEW n \in UserNames, image[n] # None
        PROVE  Settled(image[n])'
    <3>1. image[n] = IF n \in DOMAIN edit THEN edit[n] ELSE dir[n]
      BY <2>1, <2>4 DEF Edited, Names
    <3>2. CASE n \in DOMAIN edit
      BY <1>1, <2>4, <3>1, <3>2
    <3>3. CASE n \notin DOMAIN edit
      <4>1. Settled(dir[n]) /\ files'[dir[n]] = files[dir[n]]
        BY <2>3, <2>4, <3>1, <3>3 DEF AtomicInv, Published, Names
      <4> QED
        BY <3>1, <3>3, <4>1 DEF Settled
    <3> QED
      BY <3>2, <3>3
  <2>5. PrivateWhileWritten'
    <3> SUFFICES ASSUME pc \in {"write", "sync"} PROVE PrivateWhileWritten'
      BY DEF PrivateWhileWritten
    <3>1. /\ temp \in TempNames
          /\ dir[temp] # None
          /\ \A n \in UserNames : dir[n] # dir[temp]
          /\ pc = "sync" => files[dir[temp]].data = "whole"
      BY DEF AtomicInv, PrivateWhileWritten, Present, TypeInv, TypeOK, Owning
    <3>2. dir'[temp] = dir[temp] /\ files'[dir[temp]] = files[dir[temp]]
      BY <2>2, <2>3, <3>1 DEF Names
    <3>3. \A n \in UserNames : dir'[n] # dir'[temp]
      <4> SUFFICES ASSUME NEW n \in UserNames PROVE dir'[n] # dir[temp]
        BY <3>2
      <4>1. ~Free(dir[temp])
        BY <3>1 DEF Free, Names
      <4> QED
        BY <1>1, <2>1, <3>1, <4>1 DEF Edited, Names
    <3> QED
      BY <2>1, <3>1, <3>2, <3>3 DEF PrivateWhileWritten, Present
  <2>6. SyncedBeforeInstall'
    <3> SUFFICES ASSUME pc \in {"withdraw", "verify", "absent", "install"}
                 PROVE  SyncedBeforeInstall'
      BY DEF SyncedBeforeInstall
    <3> QED
      BY <2>2, <2>3
      DEF AtomicInv, SyncedBeforeInstall, Present, TypeInv, TypeOK, Owning, Names
  <2>7. AsideSettled'
    <3>1. ASSUME pc \notin Ended, quarantine # None, dir'[quarantine] # None
          PROVE  Settled(dir[quarantine])'
      <4>1. quarantine \in TempNames
        BY <3>1 DEF TypeInv, TypeOK
      <4>2. dir'[quarantine] = dir[quarantine] /\ files'[dir[quarantine]] = files[dir[quarantine]]
        BY <2>2, <2>3, <3>1, <4>1 DEF Names
      <4>3. Settled(dir[quarantine])
        BY <3>1, <4>2 DEF AtomicInv, AsideSettled, Present
      <4> QED
        BY <4>2, <4>3 DEF Settled
    <3> QED
      BY <3>1 DEF AtomicInv, AsideSettled, Present
  <2> QED
    BY <2>1, <2>4, <2>5, <2>6, <2>7 DEF AtomicInv, Published
<1>2. CASE OthersCreate
  <2>1. PICK n \in UserNames, i \in Inodes, d \in (UserData \ born) \cup UserNames :
           /\ Free(i)
           /\ OthersEdit([m \in {n} |-> i])
           /\ files' = [files EXCEPT ![i] = [data |-> d, stable |-> d]]
    BY <1>2 DEF OthersCreate
  <2>2. Settled(i)'
    BY <2>1, NamesAssumption DEF Settled, TypeInv, TypeOK, FileSystemTypeOK
  <2>3. \A j \in Inodes : (\E m \in Names : dir[m] = j) => files'[j] = files[j]
    BY <2>1 DEF Free, TypeInv, TypeOK, FileSystemTypeOK
  <2> QED
    BY <1>1, <2>1, <2>2, <2>3
<1>3. CASE UNCHANGED files
  <2>1. ASSUME NEW edit, OthersEdit(edit), DOMAIN edit \subseteq UserNames,
               \A n \in DOMAIN edit : edit[n] = None \/ \E m \in UserNames : edit[n] = dir[m]
        PROVE  AtomicInv'
    <3>1. \A n \in UserNames \cap DOMAIN edit : edit[n] # None => Settled(edit[n])'
      BY <1>3, <2>1 DEF AtomicInv, Published, Settled
    <3> QED
      BY <1>1, <1>3, <2>1, <3>1
  <2>2. CASE OthersLink
    BY <2>1, <2>2 DEF OthersLink
  <2>3. CASE OthersRename
    <3>1. PICK from, to \in UserNames : OthersEdit(Renaming(from, to))
      BY <2>3 DEF OthersRename
    <3> QED
      BY <2>1, <3>1 DEF Renaming
  <2>4. CASE OthersUnlink
    BY <2>1, <2>4 DEF OthersUnlink
  <2> QED
    BY <1>2, <2>2, <2>3, <2>4 DEF OthersNext
<1> QED
  BY <1>2, <1>3 DEF OthersNext, OthersLink, OthersRename, OthersUnlink

\* The inductive form of OutputAtomic.
LEMMA AtomicInit == Init => AtomicInv
<1> SUFFICES ASSUME Init PROVE AtomicInv
  OBVIOUS
<1>1. \A n \in UserNames : dir[n] # None => Settled(dir[n])
  <2> SUFFICES ASSUME NEW n \in UserNames, dir[n] # None PROVE Settled(dir[n])
    OBVIOUS
  <2>1. dir[n] \in Inodes
    BY DEF Init, FileSystemInit, FilesInit, Directories, Names
  <2>2. /\ files[dir[n]].data \in UserData \cup UserNames \cup {"partial"}
        /\ files[dir[n]].stable = files[dir[n]].data
    BY <2>1 DEF Init, FileSystemInit, FilesInit
  <2>3. files[dir[n]].data # "partial"
    BY DEF Init, FileSystemInit, FilesInit, Present
  <2> QED
    BY <2>2, <2>3, NamesAssumption DEF Settled
<1> QED
  BY <1>1
  DEF Init, FileSystemInit, FilesInit, AtomicInv, Published, PrivateWhileWritten, SyncedBeforeInstall,
      AsideSettled

LEMMA AtomicNext == TypeInv /\ AtomicInv /\ [Next]_vars => AtomicInv'
<1> SUFFICES ASSUME TypeInv, AtomicInv, [Next]_vars PROVE AtomicInv'
  OBVIOUS
<1>1. CASE Stat \/ OpenObserved \/ Check \/ Prompt \/ Recheck \/ Verify \/ Absent
  <2>1. CASE Refuse
    BY <1>1, <2>1, RefuseAtomic
    DEF Refuse, Stat, OpenObserved, Check, Prompt, Recheck, Verify, Absent, Ended
  <2>2. CASE ~Refuse
    BY <1>1, <2>2, QuietStep
    DEF Stat, OpenObserved, Check, Prompt, Recheck, Verify, Absent, Ended, Goto, fs, names,
        AtomicInv, SyncedBeforeInstall, AsideSettled, Present
  <2> QED
    BY <2>1, <2>2
<1>2. CASE IoError
  BY <1>2, RefuseAtomic DEF IoError
<1>3. CASE Others
  BY <1>3, OthersAtomic DEF Others
<1>4. CASE UNCHANGED vars
  BY <1>4
  DEF vars, fs, local, names, AtomicInv, Published, PrivateWhileWritten,
      SyncedBeforeInstall, AsideSettled, Settled, Present
<1> QED
  BY <1>1, <1>2, <1>3, <1>4, CreateTempAtomic, WriteAtomic, WithdrawAtomic, InstallAtomic,
     EndingAtomic, CrashAtomic
  DEF Next, Step, Over

LEMMA AtomicInvariant == Spec => []AtomicInv
<1> QED
  BY AtomicInit, AtomicNext, TypeInvariant, PTL DEF Spec

\* Commit installs complete, synced output or nothing: under a name the user
\* sees no run, error, race or power cut leaves a part of an output.
THEOREM OutputAtomic == Spec => []DestinationAtomic
<1>1. AtomicInv => DestinationAtomic
  BY DEF AtomicInv, Published, Settled, DestinationAtomic
<1> QED
  BY <1>1, AtomicInvariant, PTL

-------------------------------------------------------------------------------
(* The invariant. A power cut may leave any image, so what the program     *)
(* relies on is said of all of them: where an image may differ from the    *)
(* directory, and that each content is kept in each image.                 *)

Running == pc \notin {"failed", "crashed"}

\* The output is not installed yet: the temporary file is to come, or there.
Uninstalled == temp = None \/ Present(temp)

\* A file is moved aside.
Aside == quarantine # None /\ Present(quarantine)

\* Before the temporary file there is nothing to undo, nothing was let pass; the
\* two temporary names are not the same.
Beginning ==
    /\ pc \in {"stat", "open", "check", "prompt", "recheck", "create"} => temp = None
    /\ pc \in {"stat", "open", "check", "prompt", "recheck"} => cleared = {}
    /\ quarantine # None => quarantine # temp

\* Contents of the user are on the medium: the program writes only its own file.
Steady == \A i \in Inodes : files[i].data \notin OutputData => files[i].stable = files[i].data

\* Until a file is moved aside only the temporary name is unsynced.
ImagesUnmoved ==
    Running /\ Uninstalled /\ quarantine = None =>
        \A image \in images : \A n \in Names \ {temp} : image[n] = dir[n]

\* Then an image may still have it in place, but nothing else there.
ImagesMoved ==
    Running /\ Aside =>
        \A image \in images :
            /\ image[quarantine] \in {None, dir[quarantine]}
            /\ dir[Dest] = None => image[Dest] \in {None, dir[quarantine]}

\* The temporary file has one name, and it is not the file observed.
TempAlone ==
    Running /\ temp # None /\ Present(temp) =>
        /\ \A image \in images :
            /\ image[temp] \in {None, dir[temp]}
            /\ \A n \in Names \ {temp} : image[n] # dir[temp]
        /\ files[dir[temp]].data \in OutputData
        /\ observed # dir[temp]

\* The open handle keeps the file the checks let pass until it is compared.
Observing ==
    /\ pc = "stat" => observed = None
    /\ pc \in {"create", "write", "sync", "withdraw", "verify"} /\ observed # None =>
        cleared = {files[observed].data}
    /\ pc \in {"withdraw", "verify"} => observed # None

\* Neither under a user name, nor aside, is there anything of the program's own.
Foreign(i) == files[i].data \in UserData \cup UserNames

OldForeign ==
    /\ Running /\ Uninstalled => \A n \in UserNames : Present(n) => Foreign(dir[n])
    /\ Running /\ Aside => Foreign(dir[quarantine])

\* From the comparison on, what is aside was let pass, or is a link to it.
AsideCleared ==
    pc \in {"install", "syncdir", "remove"} /\ quarantine # None =>
        Aside /\ files[dir[quarantine]].data \in cleared \cup UserNames

\* The whole output has no temporary name but its own.
WholePublic ==
    Running => \A n \in TempNames \ {temp} : Present(n) => files[dir[n]].data # "whole"

WholeThere(image) == Kept(image, "whole") \/ "whole" \in discarded

\* Nothing is lost before the installation, and after it only what may be.
Strict ==
    Running /\ Uninstalled =>
        \A image \in images : \A d \in born \ discarded : Kept(image, d)

NoLoss ==
    \A image \in images : \A d \in born \ discarded :
        Kept(image, d) \/ (d \in cleared /\ WholeThere(image))

\* The output is there when it is installed, and in all images once committed.
Durable ==
    /\ pc = "syncdir" => WholeThere(dir)
    /\ committed /\ pc # "crashed" => \A image \in images : WholeThere(image)

\* The temporary names in the end.
Tidy ==
    /\ pc \in {"remove", "syncremoval", "done"} => committed
    /\ committed => pc \in {"remove", "syncremoval", "restore", "cleanup"} \cup Ended
    /\ pc = "syncdir" => temp # None /\ ~Present(temp)
    /\ committed /\ pc # "crashed" => temp # None /\ ~Present(temp)
    /\ pc \in {"syncremoval", "done"} /\ quarantine # None => ~Present(quarantine)
    /\ pc = "failed" /\ ~swallowed => temp = None \/ ~Present(temp)

LossInv ==
    /\ Beginning /\ Steady
    /\ ImagesUnmoved /\ ImagesMoved /\ TempAlone
    /\ Observing /\ OldForeign /\ AsideCleared /\ WholePublic
    /\ Strict /\ NoLoss /\ Durable /\ Tidy

-------------------------------------------------------------------------------
LEMMA StrictNoLoss ==
    ASSUME Strict, Running, Uninstalled
    PROVE  NoLoss
BY DEF Strict, NoLoss

\* A step that touches neither directory nor files.
LEMMA QuietLoss ==
    ASSUME TypeInv, LossInv, Running,
           UNCHANGED <<dir, images, files, born, discarded, temp, quarantine, committed>>,
           cleared' = cleared \/ Uninstalled,
           observed' \in {observed, None} \/ temp = None,
           pc' \notin {"syncdir", "remove", "syncremoval", "done"},
           ~committed \/ pc' \in {"restore", "cleanup", "failed"},
           Beginning', Observing', AsideCleared',
           pc' = "failed" /\ ~swallowed' => temp = None \/ ~Present(temp)
    PROVE  LossInv'
<1> USE DEF LossInv, Running, Present
<1>1. Steady' /\ ImagesUnmoved' /\ ImagesMoved' /\ OldForeign' /\ WholePublic'
  BY DEF Steady, ImagesUnmoved, ImagesMoved, OldForeign, WholePublic, Uninstalled, Aside, Foreign
<1>2. TempAlone'
  BY DEF TempAlone, TypeInv, TypeOK, FileSystemTypeOK, Directories, Names
<1>3. Strict'
  BY DEF Strict, Uninstalled, Kept
<1>4. NoLoss'
  <2>1. CASE cleared' = cleared
    BY <2>1 DEF NoLoss, Kept, WholeThere
  <2>2. CASE Uninstalled
    BY <2>2 DEF NoLoss, Strict, Kept
  <2> QED
    BY <2>1, <2>2
<1>5. Durable' /\ Tidy'
  BY DEF Durable, Tidy, WholeThere, Kept, Ended
<1> QED
  BY <1>1, <1>2, <1>3, <1>4, <1>5

LEMMA UnwindLoss ==
    ASSUME TypeInv, LossInv, Running, pc # "done", Unwind,
           UNCHANGED <<dir, images, files, born, discarded>>
    PROVE  LossInv'
<1>1. pc' \in {"restore", "cleanup", "failed"}
  BY DEF Unwind
<1>2. pc' = "failed" => temp = None
  BY DEF Unwind
<1>3. observed' \in {observed, None}
  BY OutputAssumption DEF Unwind, Hold, observed, TypeInv, TypeOK, FileSystemTypeOK
<1>4. UNCHANGED <<temp, quarantine, committed, cleared>>
  BY DEF Unwind, names, history
<1>5. Beginning' /\ Observing' /\ AsideCleared'
  BY <1>1, <1>4 DEF Beginning, Observing, AsideCleared, LossInv
<1> QED
  BY <1>1, <1>2, <1>3, <1>4, <1>5, QuietLoss

\* The overwrite checks and the two comparisons.
LEMMA ChecksLoss ==
    ASSUME TypeInv, AtomicInv, LossInv,
           Stat \/ OpenObserved \/ Check \/ Prompt \/ Recheck \/ Verify \/ Absent
    PROVE  LossInv'
<1> USE DEF Goto, names, history, fs
<1>1. CASE Refuse
  <2>1. Running /\ pc # "done"
    BY DEF Running, Stat, OpenObserved, Check, Prompt, Recheck, Verify, Absent
  <2> QED
    BY <1>1, <2>1, UnwindLoss DEF Refuse
<1>2. CASE ~Refuse
  <2>1. UNCHANGED <<dir, images, files, born, discarded, temp, quarantine, committed>>
    BY <1>2 DEF Stat, OpenObserved, Check, Prompt, Recheck, Verify, Absent
  <2>0. ~committed
    BY DEF LossInv, Tidy, Ended, Stat, OpenObserved, Check, Prompt, Recheck, Verify, Absent
  <2>2. CASE Stat \/ OpenObserved \/ Check \/ Prompt
    <3>1. /\ pc \in {"stat", "open", "check", "prompt"}
          /\ pc' \in {"open", "check", "prompt", "recheck", "create"}
          /\ cleared' = cleared
      BY <1>2, <2>2 DEF Stat, OpenObserved, Check, Prompt
    <3>2. temp = None /\ cleared = {} /\ Running
      BY <3>1 DEF LossInv, Beginning, Running
    <3>3. pc' = "create" => pc = "stat" /\ UNCHANGED open /\ ~Present(Dest)
      BY <1>2, <2>2 DEF Stat, OpenObserved, Check, Prompt
    <3> QED
      BY <2>0, <2>1, <3>1, <3>2, <3>3, QuietLoss
      DEF LossInv, Beginning, Observing, AsideCleared, observed
  <2>3. CASE Recheck
    BY <1>2, <2>0, <2>1, <2>3, QuietLoss
    DEF Recheck, LossInv, Beginning, Observing, AsideCleared, Running, Uninstalled, observed
  <2>4. CASE Verify
    <3>1. /\ pc = "verify" /\ pc' = "install"
          /\ UNCHANGED <<cleared, open>>
          /\ Resolve(quarantine) = observed
          /\ observed # None
          /\ cleared = {files[observed].data}
      BY <1>2, <2>4 DEF Verify, LossInv, Observing
    <3>2. quarantine # None
      BY <3>1 DEF TypeInv, Owning
    <3>3. Aside /\ files[dir[quarantine]].data \in cleared \cup UserNames
      BY <3>1, <3>2 DEF Resolve, IsLink, Aside, Present
    <3>4. AsideCleared'
      BY <2>0, <2>1, <3>1, <3>3 DEF AsideCleared, Aside, Present
    <3> QED
      BY <2>0, <2>1, <3>1, <3>4, QuietLoss DEF LossInv, Beginning, Observing, Running, observed
  <2>5. CASE Absent
    <3>1. quarantine = None /\ pc = "absent" /\ pc' = "install" /\ UNCHANGED <<cleared, open>>
      BY <1>2, <2>5 DEF Absent, AtomicInv, AsideSettled
    <3> QED
      BY <2>0, <2>1, <3>1, QuietLoss
      DEF LossInv, Beginning, Observing, AsideCleared, Running, observed
  <2> QED
    BY <2>2, <2>3, <2>4, <2>5
<1> QED
  BY <1>1, <1>2

-------------------------------------------------------------------------------
(* The temporary file.                                                     *)

LEMMA CreateLoss ==
    ASSUME TypeInv, AtomicInv, LossInv, NEW t \in TempNames,
           CreatePrivate(t), temp' = t, pc = "create", pc' = "write",
           UNCHANGED <<quarantine, committed, history>>
    PROVE  LossInv'
<1> USE DEF history
<1>1. PICK i \in Inodes :
        /\ Free(i)
        /\ Journal([m \in {t} |-> i])
        /\ files' = [files EXCEPT ![i] = [data |-> "blank", stable |-> "blank"]]
  BY DEF CreatePrivate
<1>2. /\ temp = None /\ quarantine = None /\ dir \in images
      /\ dir[t] = None /\ i # None /\ t # None /\ t \in Names
      /\ committed = FALSE
      /\ UNCHANGED <<open, born, discarded>>
  BY NamesAssumption
  DEF LossInv, Beginning, AtomicInv, AsideSettled, CreatePrivate, Present, Names, Tidy, TypeInv, TypeOK
<1>3. \A image \in images : \A n \in Names : image[n] = dir[n]
  BY <1>2, NamesAssumption DEF LossInv, ImagesUnmoved, Running, Uninstalled, Names
<1>4. /\ \A n \in Names : dir[n] # i
      /\ open[Observed] # i
  BY <1>1, OutputAssumption, InUse
<1>5. /\ dir'[t] = i
      /\ \A n \in Names \ {t} : dir'[n] = dir[n]
      /\ \A image \in images' : \A n \in Names \ {t} : image[n] = dir[n]
      /\ \A image \in images' : image[t] \in {None, i}
  <2>1. \A d : /\ Edited(d, [m \in {t} |-> i])[t] = i
               /\ \A n \in Names \ {t} : Edited(d, [m \in {t} |-> i])[n] = d[n]
    BY <1>2 DEF Edited
  <2> QED
    BY <1>1, <1>2, <1>3, <2>1 DEF Journal
<1>6. /\ files'[i].data = "blank"
      /\ \A j \in Inodes \ {i} : files'[j] = files[j]
  BY <1>1 DEF TypeInv, TypeOK, FileSystemTypeOK
<1>7. \A n \in Names : dir[n] # None => dir[n] \in Inodes \ {i}
  BY <1>4 DEF TypeInv, TypeOK, FileSystemTypeOK, Directories
<1>8. Beginning' /\ Steady' /\ ImagesUnmoved' /\ ImagesMoved' /\ TempAlone'
  BY <1>1, <1>2, <1>4, <1>5, <1>6, NamesAssumption
  DEF LossInv, Beginning, Steady, ImagesUnmoved, ImagesMoved, Aside, TempAlone, OutputData, observed
<1>9. Observing'
  BY <1>2, <1>4, <1>6, OutputAssumption
  DEF LossInv, Observing, observed, TypeInv, TypeOK, FileSystemTypeOK
<1>10. OldForeign' /\ AsideCleared'
  BY <1>2, <1>5, <1>6, <1>7, NamesAssumption
  DEF LossInv, OldForeign, AsideCleared, Foreign, Present, Aside, Names, Uninstalled, Running
<1>11. WholePublic'
  BY <1>2, <1>5, <1>6, <1>7, NamesAssumption DEF LossInv, WholePublic, Running, Present, Names
<1>12. Strict'
  <2> SUFFICES ASSUME NEW image \in images', NEW d \in born \ discarded
               PROVE  Kept(image, d)'
    BY <1>2 DEF Strict
  <2>1. Kept(dir, d)
    BY <1>2 DEF LossInv, Strict, Running, Uninstalled
  <2>2. PICK n \in Names : dir[n] # None /\ files[dir[n]] = [data |-> d, stable |-> d]
    BY <2>1 DEF Kept
  <2>3. image[n] = dir[n] /\ files'[dir[n]] = files[dir[n]]
    BY <1>2, <1>5, <1>6, <1>7, <2>2
  <2> QED
    BY <2>2, <2>3 DEF Kept
<1>13. NoLoss'
  BY <1>2, <1>5, <1>12 DEF Strict, NoLoss, Running, Uninstalled, Present
<1>14. Durable' /\ Tidy'
  BY <1>2 DEF Durable, Tidy
<1> QED
  BY <1>8, <1>9, <1>10, <1>11, <1>12, <1>13, <1>14 DEF LossInv

\* Writing and syncing the temporary file.
LEMMA WriteLoss ==
    ASSUME TypeInv, AtomicInv, LossInv, Write \/ SyncOutput, ~Refuse
    PROVE  LossInv'
<1> USE DEF Goto, names, history, fs
<1>1. /\ pc \in {"write", "sync"} /\ pc' \in {"write", "sync", "withdraw", "absent"}
      /\ pc' = "withdraw" => pc = "sync" /\ observed # None
      /\ UNCHANGED <<dir, images, open, born, discarded, temp, quarantine, committed, cleared>>
  BY DEF Write, WriteFile, SyncOutput, SyncFile
<1>2. /\ temp # None /\ dir[temp] # None /\ dir[temp] \in Inodes /\ temp \in Names
      /\ quarantine = None /\ committed = FALSE
  BY <1>1
  DEF AtomicInv, PrivateWhileWritten, Present, TypeInv, TypeOK, Owning, FileSystemTypeOK,
      Directories, Names, AsideSettled, LossInv, Tidy
<1>3. /\ \A j \in Inodes \ {dir[temp]} : files'[j] = files[j]
      /\ files[dir[temp]].data \in OutputData
      /\ files'[dir[temp]].data \in OutputData
  BY <1>1, <1>2
  DEF Write, WriteFile, SyncOutput, SyncFile, TypeInv, TypeOK, FileSystemTypeOK, LossInv,
      TempAlone, Running, Present, OutputData
<1>4. Beginning' /\ ImagesUnmoved' /\ ImagesMoved' /\ TempAlone' /\ AsideCleared' /\ Tidy' /\ Durable'
  BY <1>1, <1>2, <1>3
  DEF LossInv, Beginning, ImagesUnmoved, ImagesMoved, TempAlone, AsideCleared, Tidy, Durable,
      Aside, Running, Uninstalled, Present, observed
<1>5. Steady'
  BY <1>3, NamesAssumption DEF LossInv, Steady
<1>6. \A image \in images : \A n \in Names \ {temp} :
        image[n] # None => image[n] \in Inodes /\ files'[image[n]] = files[image[n]]
  BY <1>1, <1>2, <1>3
  DEF LossInv, TempAlone, Running, Present, TypeInv, TypeOK, FileSystemTypeOK, Directories
<1>7. Observing'
  BY <1>1, <1>2, <1>3, OutputAssumption
  DEF LossInv, Observing, TempAlone, Running, Present, observed, TypeInv, TypeOK, FileSystemTypeOK
<1>8. OldForeign' /\ WholePublic'
  BY <1>1, <1>2, <1>6, NamesAssumption
  DEF LossInv, OldForeign, WholePublic, Foreign, Present, Aside, Names, Uninstalled, Running,
      AtomicInv, TypeInv, TypeOK
<1>9. Strict'
  <2> SUFFICES ASSUME NEW image \in images, NEW d \in born \ discarded
               PROVE  Kept(image, d)'
    BY <1>1 DEF Strict
  <2>1. Kept(image, d) /\ image[temp] \in {None, dir[temp]}
    BY <1>1, <1>2 DEF LossInv, Strict, TempAlone, Running, Uninstalled, Present
  <2>2. d \notin OutputData
    BY NamesAssumption DEF TypeInv, TypeOK, FileSystemTypeOK
  <2>3. PICK n \in Names : image[n] # None /\ files[image[n]] = [data |-> d, stable |-> d]
    BY <2>1 DEF Kept
  <2>4. n # temp
    BY <1>3, <2>1, <2>2, <2>3
  <2> QED
    BY <1>6, <2>3, <2>4 DEF Kept
<1>10. NoLoss'
  BY <1>1, <1>2, <1>9 DEF Strict, NoLoss, Running, Uninstalled, Present
<1> QED
  BY <1>4, <1>5, <1>7, <1>8, <1>9, <1>10 DEF LossInv

\* The retry loops, and refusals on the way.
LEMMA RetryLoss ==
    ASSUME TypeInv, LossInv, pc \in {"create", "withdraw"},
           UNCHANGED <<fs, pc, force, temp, quarantine, committed, faults, history>>
    PROVE  LossInv'
BY QuietLoss
DEF fs, history, LossInv, Beginning, Observing, AsideCleared, Tidy, Ended, Running, observed

-------------------------------------------------------------------------------
(* The three renames. Each image gets the change or not.                   *)

LEMMA WithdrawLoss ==
    ASSUME TypeInv, AtomicInv, LossInv, NEW t \in TempNames,
           RenameNoReplace(Dest, t), quarantine' = t, pc = "withdraw", pc' = "verify",
           UNCHANGED <<open, temp, committed, history>>
    PROVE  LossInv'
<1> USE DEF history
<1>1. /\ Dest \in Names /\ Dest \in UserNames /\ t \in Names /\ t # Dest /\ t # None
      /\ Dest \notin TempNames
  BY OutputAssumption, NamesAssumption DEF Names
<1>2. /\ quarantine = None /\ temp # None /\ temp \in TempNames /\ temp \in Names
      /\ temp # Dest /\ dir[temp] # None /\ committed = FALSE /\ dir \in images
  BY <1>1
  DEF AtomicInv, AsideSettled, SyncedBeforeInstall, Present, TypeInv, TypeOK, Owning, LossInv,
      Tidy, Names
<1>3. /\ dir[Dest] # None /\ dir[Dest] \in Inodes /\ dir[t] = None
      /\ dir'[t] = dir[Dest] /\ dir'[Dest] = None
      /\ \A n \in Names \ {Dest, t} : dir'[n] = dir[n]
      /\ UNCHANGED <<files, born, discarded>>
      /\ images \subseteq images'
      /\ \A image \in images' \ images : \E old \in images :
           /\ image = Edited(old, Renaming(Dest, t))
           /\ image[t] = dir[Dest] /\ image[Dest] = None
           /\ \A n \in Names \ {Dest, t} : image[n] = old[n]
  BY <1>1, Renamed DEF TypeInv, TypeOK
<1>4. t # temp
  BY <1>2, <1>3
<1>5. \A image \in images : \A n \in Names \ {temp} : image[n] = dir[n]
  BY <1>2 DEF LossInv, ImagesUnmoved, Running, Uninstalled, Present
<1>6. Beginning' /\ Steady' /\ ImagesUnmoved' /\ AsideCleared' /\ Durable' /\ Tidy'
  BY <1>1, <1>2, <1>3, <1>4
  DEF LossInv, Beginning, Steady, ImagesUnmoved, AsideCleared, Durable, Tidy
<1>7. ImagesMoved'
  BY <1>1, <1>2, <1>3, <1>4, <1>5 DEF ImagesMoved
<1>8. TempAlone'
  <2>1. /\ \A image \in images : /\ image[temp] \in {None, dir[temp]}
                                 /\ \A n \in Names \ {temp} : image[n] # dir[temp]
        /\ files[dir[temp]].data \in OutputData
        /\ observed # dir[temp]
    BY <1>2 DEF LossInv, TempAlone, Running, Present
  <2>2. dir'[temp] = dir[temp] /\ dir[Dest] # dir[temp]
    BY <1>1, <1>2, <1>3, <1>4, <2>1
  <2>3. ASSUME NEW image \in images'
        PROVE  /\ image[temp] \in {None, dir[temp]}
               /\ \A n \in Names \ {temp} : image[n] # dir[temp]
    <3>1. CASE image \in images
      BY <2>1, <3>1
    <3>2. CASE image \notin images
      BY <1>2, <1>3, <1>4, <2>1, <2>2, <3>2
    <3> QED
      BY <3>1, <3>2
  <2> QED
    BY <1>3, <2>1, <2>2, <2>3 DEF TempAlone, observed
<1>9. Observing'
  BY <1>3 DEF LossInv, Observing, observed
<1>10. Foreign(dir[Dest]) /\ files[dir[Dest]].data # "whole"
  BY <1>1, <1>2, <1>3, NamesAssumption
  DEF LossInv, OldForeign, Running, Uninstalled, Present, Foreign, OutputData
<1>11. OldForeign'
  BY <1>1, <1>2, <1>3, <1>10, NamesAssumption
  DEF LossInv, OldForeign, Running, Uninstalled, Present, Foreign, Aside, Names
<1>12. WholePublic'
  BY <1>1, <1>3, <1>10 DEF LossInv, WholePublic, Running, Present, Names
<1>13. Strict'
  <2> SUFFICES ASSUME NEW image \in images', NEW d \in born \ discarded
               PROVE  Kept(image, d)
    BY <1>3 DEF Strict, Kept
  <2>1. \A old \in images : Kept(old, d)
    BY <1>2 DEF LossInv, Strict, Running, Uninstalled, Present
  <2>2. ASSUME NEW old \in images
        PROVE  Kept(Edited(old, Renaming(Dest, t)), d)
    <3>1. old[Dest] = dir[Dest] /\ old[t] = None
      BY <1>1, <1>2, <1>3, <1>4, <1>5
    <3> QED
      BY <1>1, <1>3, <2>1, <3>1, RenameKept DEF TypeInv, TypeOK, Present
  <2> QED
    BY <1>3, <2>1, <2>2
<1>14. NoLoss'
  BY <1>1, <1>2, <1>3, <1>4, <1>13 DEF Strict, NoLoss, Running, Uninstalled, Present
<1> QED
  BY <1>6, <1>7, <1>8, <1>9, <1>11, <1>12, <1>13, <1>14 DEF LossInv

LEMMA InstallLoss ==
    ASSUME TypeInv, AtomicInv, LossInv,
           RenameNoReplace(temp, Dest), pc = "install", pc' = "syncdir",
           UNCHANGED <<temp, quarantine, committed, history>>
    PROVE  LossInv'
<1> USE DEF history
<1>1. /\ Dest \in Names /\ Dest \in UserNames /\ Dest \notin TempNames
      /\ temp # None /\ temp \in TempNames /\ temp \in Names /\ temp # Dest
      /\ dir[temp] # None /\ committed = FALSE /\ dir \in images
      /\ files[dir[temp]] = [data |-> "whole", stable |-> "whole"]
  BY OutputAssumption, NamesAssumption
  DEF AtomicInv, SyncedBeforeInstall, Present, TypeInv, TypeOK, Owning, LossInv, Tidy, Names
<1>2. /\ dir[temp] \in Inodes /\ dir[Dest] = None
      /\ dir'[Dest] = dir[temp] /\ dir'[temp] = None
      /\ \A n \in Names \ {temp, Dest} : dir'[n] = dir[n]
      /\ UNCHANGED <<files, born, discarded>>
      /\ images \subseteq images'
      /\ \A image \in images' \ images : \E old \in images :
           /\ image[Dest] = dir[temp] /\ image[temp] = None
           /\ \A n \in Names \ {temp, Dest} : image[n] = old[n]
  BY <1>1, Renamed DEF TypeInv, TypeOK
<1>3. quarantine # None =>
        /\ quarantine \in TempNames /\ quarantine \in Names
        /\ quarantine # temp /\ quarantine # Dest
        /\ dir'[quarantine] = dir[quarantine]
  BY <1>1, <1>2 DEF LossInv, Beginning, TypeInv, TypeOK, Names
<1>4. Beginning' /\ Steady' /\ ImagesUnmoved' /\ TempAlone' /\ Observing' /\ Strict' /\ Tidy'
  BY <1>1, <1>2
  DEF LossInv, Beginning, Steady, ImagesUnmoved, TempAlone, Observing, Strict, Tidy, Uninstalled,
      Present, Running
<1>5. ImagesMoved'
  <2> SUFFICES ASSUME quarantine # None, dir[quarantine] # None, NEW image \in images'
               PROVE  image[quarantine] \in {None, dir[quarantine]}
    BY <1>1, <1>2, <1>3 DEF ImagesMoved, Aside, Present
  <2> QED
    BY <1>2, <1>3 DEF LossInv, ImagesMoved, Running, Aside, Present
<1>6. OldForeign' /\ AsideCleared'
  BY <1>1, <1>2, <1>3
  DEF LossInv, OldForeign, AsideCleared, Running, Uninstalled, Present, Foreign, Aside
<1>7. WholePublic'
  BY <1>1, <1>2 DEF LossInv, WholePublic, Running, Present, Names
<1>8. NoLoss'
  <2> SUFFICES ASSUME NEW image \in images', NEW d \in born \ discarded
               PROVE  Kept(image, d) \/ (d \in cleared /\ WholeThere(image))
    BY <1>2 DEF NoLoss, Kept, WholeThere
  <2>1. \A old \in images : Kept(old, d)
    BY <1>1 DEF LossInv, Strict, Running, Uninstalled, Present
  <2>2. CASE image \in images
    BY <2>1, <2>2
  <2>3. CASE image \notin images
    <3>1. PICK old \in images :
            /\ image[Dest] = dir[temp] /\ image[temp] = None
            /\ \A n \in Names \ {temp, Dest} : image[n] = old[n]
      BY <1>2, <2>3
    <3>2. WholeThere(image)
      BY <1>1, <3>1 DEF WholeThere, Kept
    <3>3. PICK n \in Names : old[n] # None /\ files[old[n]] = [data |-> d, stable |-> d]
      BY <2>1 DEF Kept
    <3>4. d \in UserData /\ d # "whole" /\ d \notin UserNames
      BY NamesAssumption DEF TypeInv, TypeOK, FileSystemTypeOK, OutputData
    <3>5. n # temp
      BY <1>1, <3>3, <3>4 DEF LossInv, TempAlone, Running, Present
    <3>6. CASE n # Dest
      BY <3>1, <3>3, <3>5, <3>6 DEF Kept
    <3>7. CASE n = Dest
      <4>1. quarantine # None
        BY <1>1, <1>2, <3>3, <3>7 DEF LossInv, ImagesUnmoved, Running, Uninstalled, Present
      <4>2. Aside /\ files[dir[quarantine]].data \in cleared \cup UserNames
        BY <4>1 DEF LossInv, AsideCleared
      <4>3. old[Dest] = dir[quarantine]
        BY <1>2, <3>3, <3>7, <4>2 DEF LossInv, ImagesMoved, Running
      <4> QED
        BY <3>2, <3>3, <3>4, <3>7, <4>2, <4>3
    <3> QED
      BY <3>6, <3>7
  <2> QED
    BY <2>2, <2>3
<1>9. Durable'
  BY <1>1, <1>2 DEF Durable, WholeThere, Kept
<1> QED
  BY <1>4, <1>5, <1>6, <1>7, <1>8, <1>9 DEF LossInv

LEMMA RestoreLoss ==
    ASSUME TypeInv, AtomicInv, LossInv,
           RenameNoReplace(quarantine, Dest), pc = "restore", pc' \in {"cleanup", "failed"},
           pc' = "failed" => temp = None,
           UNCHANGED <<open, temp, quarantine, committed, history>>
    PROVE  LossInv'
<1> USE DEF history
<1>1. /\ Dest \in Names /\ Dest \in UserNames /\ Dest \notin TempNames
      /\ quarantine # None /\ quarantine \in TempNames /\ quarantine \in Names
      /\ quarantine # temp /\ quarantine # Dest /\ dir \in images
      /\ temp \in TempNames \cup {None} /\ temp # Dest
  BY OutputAssumption, NamesAssumption
  DEF AtomicInv, TypeInv, TypeOK, Owning, LossInv, Beginning, Names
<1>2. /\ dir[quarantine] # None /\ dir[quarantine] \in Inodes /\ dir[Dest] = None
      /\ dir'[Dest] = dir[quarantine] /\ dir'[quarantine] = None
      /\ \A n \in Names \ {quarantine, Dest} : dir'[n] = dir[n]
      /\ UNCHANGED <<files, born, discarded>>
      /\ images \subseteq images'
      /\ \A image \in images' \ images : \E old \in images :
           /\ image = Edited(old, Renaming(quarantine, Dest))
           /\ image[Dest] = dir[quarantine] /\ image[quarantine] = None
           /\ \A n \in Names \ {quarantine, Dest} : image[n] = old[n]
  BY <1>1, Renamed DEF TypeInv, TypeOK
<1>3. \A image \in images :
        image[quarantine] \in {None, dir[quarantine]} /\ image[Dest] \in {None, dir[quarantine]}
  BY <1>1, <1>2 DEF LossInv, ImagesMoved, Running, Aside, Present
<1>4. ASSUME NEW d, NEW image \in images', \A old \in images : Kept(old, d)
      PROVE  Kept(image, d)
  <2>1. ASSUME NEW old \in images
        PROVE  Kept(Edited(old, Renaming(quarantine, Dest)), d)
    BY <1>1, <1>2, <1>3, <1>4, RenameKept DEF TypeInv, TypeOK, Present
  <2> QED
    BY <1>2, <1>4, <2>1
<1>5. temp # None => temp \in Names /\ dir'[temp] = dir[temp]
  BY <1>1, <1>2 DEF Names
<1>6. Beginning' /\ Steady' /\ ImagesUnmoved' /\ ImagesMoved' /\ Observing' /\ AsideCleared'
  BY <1>1, <1>2
  DEF LossInv, Beginning, Steady, ImagesUnmoved, ImagesMoved, Observing, AsideCleared, Aside, Present
<1>7. TempAlone'
  <2> SUFFICES ASSUME temp # None, dir[temp] # None
               PROVE  TempAlone'
    BY <1>5 DEF TempAlone, Present
  <2>1. /\ \A image \in images : /\ image[temp] \in {None, dir[temp]}
                                 /\ \A n \in Names \ {temp} : image[n] # dir[temp]
        /\ files[dir[temp]].data \in OutputData
        /\ observed # dir[temp]
    BY DEF LossInv, TempAlone, Running, Present
  <2>2. dir[quarantine] # dir[temp]
    BY <1>1, <2>1
  <2>3. ASSUME NEW image \in images'
        PROVE  /\ image[temp] \in {None, dir[temp]}
               /\ \A n \in Names \ {temp} : image[n] # dir[temp]
    <3>1. CASE image \in images
      BY <2>1, <3>1
    <3>2. CASE image \notin images
      BY <1>1, <1>2, <1>5, <2>1, <2>2, <3>2
    <3> QED
      BY <3>1, <3>2
  <2> QED
    BY <1>2, <1>5, <2>1, <2>3 DEF TempAlone, observed
<1>8. Foreign(dir[quarantine])
  BY <1>1, <1>2 DEF LossInv, OldForeign, Running, Aside, Present
<1>9. OldForeign'
  BY <1>1, <1>2, <1>5, <1>8
  DEF LossInv, OldForeign, Running, Uninstalled, Present, Foreign, Aside, Names
<1>10. WholePublic'
  BY <1>1, <1>2 DEF LossInv, WholePublic, Running, Present, Names
<1>11. Strict'
  BY <1>2, <1>4, <1>5 DEF LossInv, Strict, Running, Uninstalled, Present, Kept
<1>12. NoLoss'
  <2> SUFFICES ASSUME NEW image \in images', NEW d \in born \ discarded
               PROVE  Kept(image, d) \/ (d \in cleared /\ WholeThere(image))
    BY <1>2 DEF NoLoss, Kept, WholeThere
  <2>1. ASSUME NEW old \in images, NEW c, Kept(old, c)
        PROVE  Kept(Edited(old, Renaming(quarantine, Dest)), c)
    BY <1>1, <1>2, <1>3, <2>1, RenameKept DEF TypeInv, TypeOK, Present
  <2>2. PICK old \in images : image = old \/ image = Edited(old, Renaming(quarantine, Dest))
    BY <1>2
  <2>3. Kept(old, d) \/ (d \in cleared /\ WholeThere(old))
    BY DEF LossInv, NoLoss
  <2> QED
    BY <2>1, <2>2, <2>3 DEF WholeThere
<1>13. Durable'
  <2> SUFFICES ASSUME committed, NEW image \in images'
               PROVE  WholeThere(image)
    BY <1>2 DEF Durable, WholeThere, Kept
  <2>1. \A old \in images : WholeThere(old)
    BY DEF LossInv, Durable
  <2> QED
    BY <1>4, <2>1 DEF WholeThere
<1>14. Tidy'
  BY <1>1, <1>2, <1>5 DEF LossInv, Tidy, Present
<1> QED
  BY <1>6, <1>7, <1>9, <1>10, <1>11, <1>12, <1>13, <1>14 DEF LossInv

-------------------------------------------------------------------------------
(* After the installation, and on the way out.                             *)

\* fsync of the directory leaves one image.
LEMMA SyncLoss ==
    ASSUME TypeInv, AtomicInv, LossInv, SyncParent \/ SyncRemoval
    PROVE  LossInv'
<1> USE DEF Goto, names, history
<1>1. /\ images' = {dir} /\ dir \in images
      /\ UNCHANGED <<dir, files, open, born, discarded, temp, quarantine, cleared, swallowed>>
      /\ pc \in {"syncdir", "syncremoval"} /\ pc' \in {"remove", "done"} /\ committed'
      /\ pc' = "remove" => pc = "syncdir" /\ quarantine # None
      /\ pc' = "done" => pc = "syncremoval" \/ quarantine = None
  BY DEF SyncParent, SyncRemoval, SyncDirectory, AtomicInv, LossInv, Tidy
<1>2. temp # None /\ ~Present(temp) /\ WholeThere(dir)
  BY <1>1 DEF LossInv, Tidy, Durable
<1>3. Beginning' /\ Steady' /\ ImagesUnmoved' /\ TempAlone' /\ Observing' /\ Strict'
  BY <1>1, <1>2
  DEF LossInv, Beginning, Steady, ImagesUnmoved, TempAlone, Observing, Strict, Uninstalled, Present
<1>4. ImagesMoved'
  BY <1>1 DEF ImagesMoved
<1>5. OldForeign' /\ WholePublic' /\ AsideCleared'
  BY <1>1, <1>2
  DEF LossInv, OldForeign, WholePublic, AsideCleared, Running, Uninstalled, Present, Foreign, Aside
<1>6. NoLoss'
  BY <1>1 DEF LossInv, NoLoss, Kept, WholeThere
<1>7. Durable'
  BY <1>1, <1>2 DEF Durable, WholeThere, Kept
<1>8. Tidy'
  BY <1>1, <1>2 DEF LossInv, Tidy, Present, Ended
<1> QED
  BY <1>3, <1>4, <1>5, <1>6, <1>7, <1>8 DEF LossInv

LEMMA RemoveLoss ==
    ASSUME TypeInv, AtomicInv, LossInv, Remove
    PROVE  LossInv'
<1> USE DEF Goto, names, history
<1>1. /\ pc = "remove" /\ pc' = "syncremoval"
      /\ Unlink(quarantine) /\ committed
      /\ UNCHANGED <<open, temp, quarantine, committed, cleared, swallowed>>
  BY DEF Remove, LossInv, Tidy
<1>2. /\ quarantine # None /\ quarantine \in Names
      /\ temp # None /\ ~Present(temp) /\ temp \in Names /\ quarantine # temp
  BY <1>1 DEF TypeInv, TypeOK, Owning, LossInv, Tidy, Beginning, Names
<1>3. /\ dir[quarantine] # None /\ dir'[quarantine] = None
      /\ \A n \in Names \ {quarantine} : dir'[n] = dir[n]
      /\ UNCHANGED <<files, born, discarded>>
      /\ images \subseteq images'
      /\ \A image \in images' \ images : \E old \in images :
           image = Edited(old, [m \in {quarantine} |-> None])
  BY <1>1, <1>2, Unlinked
<1>4. /\ \A image \in images : image[quarantine] \in {None, dir[quarantine]}
      /\ files[dir[quarantine]].data \in cleared \cup UserNames
      /\ files[dir[quarantine]].data # "whole"
      /\ \A image \in images : WholeThere(image)
  BY <1>1, <1>2, <1>3, NamesAssumption
  DEF LossInv, ImagesMoved, AsideCleared, OldForeign, Durable, Running, Aside, Present, Foreign,
      OutputData
<1>5. \A image \in images' : WholeThere(image)
  <2>1. ASSUME NEW old \in images, Kept(old, "whole")
        PROVE  Kept(Edited(old, [m \in {quarantine} |-> None]), "whole")
    BY <1>2, <1>4, <2>1, UnlinkKept
  <2> QED
    BY <1>3, <1>4, <2>1 DEF WholeThere
<1>6. NoLoss'
  <2> SUFFICES ASSUME NEW image \in images', NEW d \in born \ discarded, d \notin cleared
               PROVE  Kept(image, d)
    BY <1>1, <1>3, <1>5 DEF NoLoss, WholeThere, Kept
  <2>1. \A old \in images : Kept(old, d)
    BY DEF LossInv, NoLoss
  <2>2. d \notin UserNames
    BY NamesAssumption DEF TypeInv, TypeOK, FileSystemTypeOK
  <2>3. ASSUME NEW old \in images
        PROVE  Kept(Edited(old, [m \in {quarantine} |-> None]), d)
    BY <1>2, <1>4, <2>1, <2>2, UnlinkKept
  <2> QED
    BY <1>3, <2>1, <2>3
<1>7. Durable'
  BY <1>1, <1>3, <1>5 DEF Durable, WholeThere, Kept
<1>8. Beginning' /\ Steady' /\ ImagesUnmoved' /\ ImagesMoved' /\ TempAlone' /\ Observing' /\ Strict'
  BY <1>1, <1>2, <1>3
  DEF LossInv, Beginning, Steady, ImagesUnmoved, ImagesMoved, TempAlone, Observing, Strict,
      Uninstalled, Present, Aside
<1>9. OldForeign' /\ WholePublic' /\ AsideCleared' /\ Tidy'
  BY <1>1, <1>2, <1>3
  DEF LossInv, OldForeign, WholePublic, AsideCleared, Tidy, Running, Uninstalled, Present, Foreign,
      Aside, Names
<1> QED
  BY <1>6, <1>7, <1>8, <1>9 DEF LossInv

LEMMA CleanupLoss ==
    ASSUME TypeInv, AtomicInv, LossInv, Cleanup
    PROVE  LossInv'
<1> USE DEF Goto, names, history
<1>1. /\ pc = "cleanup" /\ pc' = "failed"
      /\ UNCHANGED <<files, open, born, discarded, temp, quarantine, committed, cleared, swallowed>>
      /\ temp # None /\ temp \in Names
      /\ committed => ~Present(temp)
  BY DEF Cleanup, Unlink, TypeInv, TypeOK, Owning, LossInv, Tidy, Names
<1>2. Beginning' /\ Steady' /\ ImagesUnmoved' /\ ImagesMoved' /\ TempAlone' /\ Observing' /\ Strict'
      /\ OldForeign' /\ AsideCleared' /\ WholePublic'
  BY <1>1
  DEF LossInv, Beginning, Steady, ImagesUnmoved, ImagesMoved, TempAlone, Observing, Strict,
      OldForeign, AsideCleared, WholePublic, Running
<1>3. CASE ~committed /\ Unlink(temp)
  <2>1. /\ dir[temp] # None /\ dir'[temp] = None
        /\ \A image \in images' \ images : \E old \in images :
             image = Edited(old, [m \in {temp} |-> None])
    BY <1>1, <1>3, Unlinked
  <2>2. /\ \A image \in images : image[temp] \in {None, dir[temp]}
        /\ files[dir[temp]].data \in OutputData
    BY <1>1, <2>1 DEF LossInv, TempAlone, Running, Present
  <2>3. NoLoss'
    <3> SUFFICES ASSUME NEW image \in images', NEW d \in born \ discarded
                 PROVE  Kept(image, d)
      BY <1>1 DEF NoLoss, Kept
    <3>1. \A old \in images : Kept(old, d)
      BY <1>1, <2>1 DEF LossInv, Strict, Running, Uninstalled, Present
    <3>2. d \notin OutputData
      BY NamesAssumption DEF TypeInv, TypeOK, FileSystemTypeOK
    <3>3. ASSUME NEW old \in images
          PROVE  Kept(Edited(old, [m \in {temp} |-> None]), d)
      BY <1>1, <2>2, <3>1, <3>2, UnlinkKept
    <3> QED
      BY <2>1, <3>1, <3>3
  <2> QED
    BY <1>1, <1>2, <1>3, <2>1, <2>3 DEF LossInv, Durable, Tidy, Present
<1>4. CASE (committed \/ ~Present(temp)) /\ UNCHANGED <<dir, images>>
  <2>1. NoLoss' /\ Durable' /\ Tidy'
    BY <1>1, <1>4 DEF LossInv, NoLoss, Durable, Tidy, WholeThere, Kept, Present, Ended
  <2> QED
    BY <1>2, <2>1 DEF LossInv
<1> QED
  BY <1>3, <1>4 DEF Cleanup

LEMMA IgnoredLoss ==
    ASSUME TypeInv, LossInv, IgnoredError
    PROVE  LossInv'
<1>1. /\ pc \in {"restore", "cleanup"} /\ pc' \in {"cleanup", "failed"} /\ swallowed'
      /\ UNCHANGED <<fs, temp, quarantine, committed, cleared>>
  BY DEF IgnoredError, Goto, names
<1>2. Beginning' /\ Observing' /\ AsideCleared' /\ Running
  BY <1>1 DEF LossInv, Beginning, Observing, AsideCleared, Running
<1> QED
  BY <1>1, <1>2, QuietLoss DEF fs, observed

LEMMA CrashLoss ==
    ASSUME TypeInv, AtomicInv, LossInv, Crash
    PROVE  LossInv'
<1> USE DEF Goto, names, history
<1>1. /\ pc' = "crashed" /\ PowerLoss
      /\ UNCHANGED <<temp, quarantine, committed, cleared, born, discarded>>
  BY DEF Crash, PowerLoss
<1>2. dir' \in images /\ images' = {dir'}
  BY <1>1 DEF PowerLoss
<1>3. Steady'
  BY <1>1 DEF PowerLoss, Steady
<1>4. NoLoss'
  <2> SUFFICES ASSUME NEW image \in images, image = dir', NEW d \in born \ discarded
               PROVE  Kept(image, d)' \/ (d \in cleared /\ WholeThere(image)')
    BY <1>1, <1>2 DEF NoLoss, WholeThere
  <2>1. Kept(image, d) \/ (d \in cleared /\ WholeThere(image))
    BY DEF LossInv, NoLoss
  <2>2. \A c : Kept(image, c) => Kept(image, c)'
    BY <1>1, PowerLossKept DEF TypeInv, TypeOK
  <2> QED
    BY <1>1, <2>1, <2>2 DEF WholeThere
<1>5. Beginning'
  BY <1>1 DEF LossInv, Beginning
<1> QED
  BY <1>1, <1>3, <1>4, <1>5
  DEF LossInv, ImagesUnmoved, ImagesMoved, TempAlone, Observing, OldForeign, AsideCleared,
      WholePublic, Strict, Durable, Tidy, Running, Ended

\* Others lose the installed output only by discarding it.
LEMMA OthersWhole ==
    ASSUME TypeInv, AtomicInv, LossInv, Running, OthersNext, ~Uninstalled, WholeThere(dir)
    PROVE  WholeThere(dir)'
<1>1. discarded \subseteq discarded'
  BY OthersReach DEF TypeInv, TypeOK
<1> SUFFICES ASSUME Kept(dir, "whole"), "whole" \notin discarded'
             PROVE  Kept(dir, "whole")'
  BY <1>1 DEF WholeThere
<1>2. \A n \in Names : dir[n] # None => dir[n] \in Inodes /\ ~Free(dir[n])
  BY InUse DEF TypeInv, TypeOK, FileSystemTypeOK, Directories
<1>3. \A n \in TempNames : dir[n] # None => files[dir[n]].data # "whole"
  BY DEF LossInv, WholePublic, Uninstalled, Present
<1>4. \A n \in UserNames : dir[n] # None => Settled(dir[n])
  BY DEF AtomicInv, Published
<1>5. Synced("whole")
  BY <1>2, <1>3, <1>4 DEF Synced, Settled, Present, Names, OutputData
<1> QED
  BY <1>5, OthersKeep DEF TypeInv, TypeOK

\* The other processes: they cannot reach the temporary names or the files in
\* use, and what they take away they have discarded.
LEMMA OthersLoss ==
    ASSUME TypeInv, AtomicInv, LossInv, Running, OthersNext, UNCHANGED local
    PROVE  LossInv'
<1> USE DEF local, names, history
<1>1. /\ images' = {dir'} /\ open' = open
      /\ discarded \subseteq discarded' /\ born \subseteq born'
      /\ \A n \in TempNames : dir'[n] = dir[n]
      /\ \A i \in Inodes : ~Free(i) => files'[i] = files[i]
      /\ \A i \in Inodes : files'[i] = files[i] \/ New(i)
      /\ \A n \in UserNames :
           \/ dir'[n] = None
           \/ dir'[n] \in Inodes /\ \E m \in UserNames : dir'[n] = dir[m]
           \/ dir'[n] \in Inodes /\ Free(dir'[n]) /\ New(dir'[n])
  BY OthersReach DEF TypeInv, TypeOK
<1>2. \A n \in Names : dir[n] # None =>
        dir[n] \in Inodes /\ ~Free(dir[n]) /\ files'[dir[n]] = files[dir[n]]
  BY <1>1, InUse DEF TypeInv, TypeOK, FileSystemTypeOK, Directories
<1>3. dir \in images /\ \A n \in TempNames : n \in Names
  BY DEF AtomicInv, Names
<1>4. Steady'
  <2> SUFFICES ASSUME NEW i \in Inodes
               PROVE  (files[i].data \notin OutputData => files[i].stable = files[i].data)'
    BY DEF Steady
  <2>1. CASE files'[i] = files[i]
    BY <2>1 DEF LossInv, Steady
  <2>2. CASE New(i)
    BY <2>2 DEF New
  <2> QED
    BY <1>1, <2>1, <2>2
<1>5. Beginning' /\ ImagesUnmoved' /\ ImagesMoved' /\ Tidy'
  BY <1>1
  DEF LossInv, Beginning, ImagesUnmoved, ImagesMoved, Tidy, Present, TypeInv, TypeOK
<1>6. TempAlone'
  <2> SUFFICES ASSUME temp # None, dir[temp] # None
               PROVE  TempAlone'
    BY <1>1 DEF TempAlone, Present, TypeInv, TypeOK
  <2>1. /\ temp \in TempNames /\ dir'[temp] = dir[temp] /\ files'[dir[temp]] = files[dir[temp]]
        /\ ~Free(dir[temp])
        /\ \A n \in Names \ {temp} : dir[n] # dir[temp]
        /\ files[dir[temp]].data \in OutputData
        /\ observed # dir[temp]
    BY <1>1, <1>2, <1>3 DEF LossInv, TempAlone, Present, TypeInv, TypeOK
  <2>2. \A n \in Names \ {temp} : dir'[n] # dir[temp]
    BY <1>1, <2>1, NamesAssumption DEF Names
  <2> QED
    BY <1>1, <2>1, <2>2 DEF TempAlone, observed
<1>7. Observing'
  <2>1. observed # None => files'[observed] = files[observed]
    BY <1>1, InUse, OutputAssumption DEF observed, TypeInv, TypeOK, FileSystemTypeOK
  <2> QED
    BY <1>1, <2>1 DEF LossInv, Observing, observed
<1>8. OldForeign'
  <2>1. ASSUME Uninstalled, NEW n \in UserNames, dir'[n] # None
        PROVE  files'[dir'[n]].data \in UserData \cup UserNames
    <3>1. CASE \E m \in UserNames : dir'[n] = dir[m]
      BY <1>2, <2>1, <3>1 DEF LossInv, OldForeign, Foreign, Present, Names
    <3>2. CASE New(dir'[n])
      BY <3>2 DEF New, Foreign
    <3> QED
      BY <1>1, <2>1, <3>1, <3>2
  <2> QED
    BY <1>1, <1>2, <1>3, <2>1
    DEF LossInv, OldForeign, Foreign, Present, Uninstalled, Aside, Running, TypeInv, TypeOK
<1>9. AsideCleared' /\ WholePublic'
  BY <1>1, <1>2, <1>3
  DEF LossInv, AsideCleared, WholePublic, Present, Aside, Running, TypeInv, TypeOK
<1>10. ASSUME NEW d \in born' \ discarded'
       PROVE  \/ Kept(dir, d)'
              \/ d \in born \ discarded /\ ~Kept(dir, d)
  <2>1. CASE d \notin born
    BY <2>1, OthersBorn DEF TypeInv, TypeOK
  <2>2. CASE d \in born /\ Kept(dir, d)
    <3>1. d \notin OutputData
      BY <2>2, NamesAssumption DEF TypeInv, TypeOK, FileSystemTypeOK
    <3>2. Synced(d)
      BY <1>2, <3>1 DEF LossInv, Steady, Synced, Present
    <3> QED
      BY <2>2, <3>2, OthersKeep DEF TypeInv, TypeOK
  <2> QED
    BY <1>1, <2>1, <2>2
<1>11. Strict'
  BY <1>1, <1>3, <1>10 DEF LossInv, Strict, Running, Uninstalled, Present, TypeInv, TypeOK
<1>12. ~Uninstalled /\ WholeThere(dir) => WholeThere(dir)'
  BY OthersWhole
<1>13. NoLoss'
  <2> SUFFICES ASSUME ~Uninstalled, NEW d \in born' \ discarded'
               PROVE  Kept(dir, d)' \/ (d \in cleared /\ WholeThere(dir)')
    BY <1>1, <1>11, StrictNoLoss
    DEF NoLoss, Strict, WholeThere, Running, Uninstalled, Present, TypeInv, TypeOK
  <2> QED
    BY <1>3, <1>10, <1>12 DEF LossInv, NoLoss
<1>14. Durable'
  <2>1. pc = "syncdir" \/ committed => ~Uninstalled /\ WholeThere(dir)
    BY <1>3 DEF LossInv, Durable, Tidy, Running, Uninstalled
  <2> QED
    BY <1>1, <1>12, <2>1 DEF Durable, WholeThere
<1> QED
  BY <1>4, <1>5, <1>6, <1>7, <1>8, <1>9, <1>11, <1>13, <1>14 DEF LossInv

LEMMA InitLoss == Init => LossInv
<1> SUFFICES ASSUME Init PROVE LossInv
  OBVIOUS
<1>0. None \notin TempNames
  BY NamesAssumption DEF Names
<1>1. /\ pc = "stat" /\ temp = None /\ quarantine = None /\ committed = FALSE /\ cleared = {}
      /\ images = {dir} /\ open = [h \in Holders |-> None]
      /\ born = {d \in UserData : Linked(d)}
      /\ dir \in Directories
  BY DEF Init, FileSystemInit, FilesInit
<1>2. /\ \A i \in Inodes : files[i].stable = files[i].data /\ files[i] \in [data : Data, stable : Data]
      /\ \A i \in Inodes : files[i].data \in UserData \cup UserNames \cup {"partial"}
      /\ \A i \in Inodes : files[i] = [data |-> files[i].data, stable |-> files[i].data]
  BY DEF Init, FileSystemInit, FilesInit, Data, OutputData
<1>3. \A n \in Names : dir[n] # None => dir[n] \in Inodes
  BY <1>1 DEF Directories
<1>4. Beginning /\ Steady /\ ImagesMoved /\ TempAlone /\ AsideCleared /\ Durable /\ Tidy
  BY <1>1, <1>2 DEF Beginning, Steady, ImagesMoved, TempAlone, AsideCleared, Durable, Tidy, Aside
<1>5. ImagesUnmoved /\ Observing
  BY <1>1, OutputAssumption DEF ImagesUnmoved, Observing, observed
<1>6. OldForeign
  <2> SUFFICES ASSUME NEW n \in UserNames, dir[n] # None
               PROVE  files[dir[n]].data \in UserData \cup UserNames
    BY <1>1 DEF OldForeign, Foreign, Present, Aside
  <2>1. files[dir[n]].data # "partial"
    BY DEF Init, FileSystemInit, FilesInit, Present
  <2> QED
    BY <1>2, <1>3, <2>1 DEF Names
<1>7. WholePublic
  <2> SUFFICES ASSUME NEW n \in TempNames, dir[n] # None
               PROVE  files[dir[n]].data # "whole"
    BY DEF WholePublic, Present
  <2> QED
    BY <1>2, <1>3, NamesAssumption DEF Names, OutputData
<1>8. Strict /\ NoLoss
  BY <1>1, <1>2, <1>3 DEF Strict, NoLoss, Kept, Linked
<1> QED
  BY <1>4, <1>5, <1>6, <1>7, <1>8 DEF LossInv

LEMMA StepLoss ==
    ASSUME TypeInv, AtomicInv, LossInv, Step
    PROVE  LossInv'
<1> USE DEF Goto
<1>1. CASE Stat \/ OpenObserved \/ Check \/ Prompt \/ Recheck \/ Verify \/ Absent
  BY <1>1, ChecksLoss
<1>2. CASE Refuse /\ (CreateTemp \/ Write \/ Withdraw \/ Install)
  BY <1>2, UnwindLoss DEF Refuse, CreateTemp, Write, Withdraw, Install, Running
<1>3. CASE CreateTemp /\ ~Refuse
  BY <1>3, CreateLoss, RetryLoss DEF CreateTemp
<1>4. CASE (Write \/ SyncOutput) /\ ~Refuse
  BY <1>4, WriteLoss
<1>5. CASE Withdraw /\ ~Refuse
  BY <1>5, WithdrawLoss, RetryLoss DEF Withdraw, history, names
<1>6. CASE Install /\ ~Refuse
  BY <1>6, InstallLoss DEF Install, history, names
<1>7. CASE Restore
  <2>1. CASE RenameNoReplace(quarantine, Dest)
    BY <1>7, <2>1, RestoreLoss DEF Restore, history, names
  <2>2. CASE UNCHANGED <<dir, images, files, moves, born, discarded>>
    <3>1. /\ pc = "restore" /\ pc' \in {"cleanup", "failed"}
          /\ pc' = "failed" => temp = None
          /\ UNCHANGED <<open, temp, quarantine, committed, cleared, swallowed>>
      BY <1>7 DEF Restore, history, names
    <3> QED
      BY <2>2, <3>1, QuietLoss
      DEF LossInv, Beginning, Observing, AsideCleared, Running, observed
  <2> QED
    BY <1>7, <2>1, <2>2 DEF Restore
<1>8. CASE IoError
  BY <1>8, UnwindLoss DEF IoError, Running, Ended
<1>9. CASE SyncOutput /\ Refuse
  BY <1>9 DEF SyncOutput, Refuse, Unwind
<1> QED
  BY <1>1, <1>2, <1>3, <1>4, <1>5, <1>6, <1>7, <1>8, <1>9, SyncLoss, RemoveLoss, CleanupLoss,
     IgnoredLoss
  DEF Step

\* The invariant of all that follows.
ReplaceInv == TypeInv /\ AtomicInv /\ LossInv

LEMMA ReplaceInvInit == Init => ReplaceInv
<1> QED
  BY TypeInit, AtomicInit, InitLoss DEF ReplaceInv

LEMMA ReplaceInvNext == ReplaceInv /\ [Next]_vars => ReplaceInv'
<1>1. TypeInv /\ AtomicInv /\ LossInv /\ [Next]_vars => LossInv'
  <2> SUFFICES ASSUME TypeInv, AtomicInv, LossInv, [Next]_vars
               PROVE  LossInv'
    OBVIOUS
  <2>1. CASE Others
    BY <2>1, OthersLoss DEF Others, Running, Ended
  <2>2. CASE UNCHANGED vars
    BY <2>2
    DEF vars, fs, local, names, history, LossInv, Beginning, Steady, ImagesUnmoved, ImagesMoved,
        TempAlone, Observing, OldForeign, AsideCleared, WholePublic, Strict, NoLoss, Durable,
        Tidy, Running, Uninstalled, Aside, Present, Foreign, Kept, WholeThere, observed
  <2> QED
    BY <2>1, <2>2, StepLoss, CrashLoss DEF Next, Over
<1> QED
  BY <1>1, TypeNext, AtomicNext DEF ReplaceInv

LEMMA LossInvariant == Spec => []ReplaceInv
<1> QED
  BY ReplaceInvInit, ReplaceInvNext, PTL DEF Spec

\* Whatever others do, whichever call fails and whenever the power goes: a content
\* the user did not remove keeps a name, but for the one the overwrite checks let
\* pass, and that one only once the output stands in its place.
THEOREM NothingLost == Spec => []NoDataLost
<1>1. ReplaceInv => NoDataLost
  <2>1. \A d : Kept(dir, d) => Linked(d)
    BY KeptIsLinked
  <2> QED
    BY <2>1 DEF ReplaceInv, AtomicInv, LossInv, NoLoss, WholeThere, NoDataLost
<1> QED
  BY <1>1, LossInvariant, PTL

\* The temporary names are gone when a run ends on its own.
THEOREM TempsRemoved == Spec => []NoTempLeft
<1>1. ReplaceInv => NoTempLeft
  BY DEF ReplaceInv, LossInv, Tidy, NoTempLeft
<1> QED
  BY <1>1, LossInvariant, PTL

\* What commit has answered Ok for survives every power cut from then on.
THEOREM Committed == Spec => []CommitIsDurable
<1>1. ReplaceInv => CommitIsDurable
  BY DEF ReplaceInv, LossInv, Tidy, Durable, WholeThere, Kept, CommitIsDurable
<1> QED
  BY <1>1, LossInvariant, PTL

-------------------------------------------------------------------------------
(* What is put back. While a file is aside, its name is taken only by      *)
(* another process or by the output; after Drop has found it taken it may  *)
(* be free again, by another change or a move of the output.               *)

OutputOut == ~Uninstalled /\ WholeThere(dir)

PutInv ==
    Aside /\ pc \notin {"done", "crashed"} =>
        /\ pc \notin {"cleanup", "failed"} /\ Present(Dest) => moves > 0 \/ OutputOut
        /\ pc \in {"cleanup", "failed"} /\ ~swallowed =>
            (Present(Dest) /\ moves > 0) \/ moves > 1 \/ OutputOut

\* A step that touches neither directory nor files.
LEMMA QuietPut ==
    ASSUME TypeInv, PutInv, UNCHANGED <<dir, files, moves, discarded, temp, quarantine>>,
           pc' \in {"cleanup", "failed"} =>
               swallowed' \/ ~Aside \/ (pc = "cleanup" /\ UNCHANGED swallowed)
                 \/ (pc = "restore" /\ (Present(Dest) \/ ~Present(quarantine))),
           pc \notin {"done", "failed", "crashed"},
           pc = "cleanup" => pc' = "failed"
    PROVE  PutInv'
BY DEF PutInv, OutputOut, Uninstalled, WholeThere, Kept, Aside, Present

LEMMA UnwindPut ==
    ASSUME TypeInv, PutInv, Unwind, UNCHANGED <<dir, files, moves, discarded>>,
           pc \notin {"restore", "cleanup"} \cup Ended
    PROVE  PutInv'
<1>1. quarantine # None => pc' = "restore"
  BY DEF Unwind
<1>2. UNCHANGED <<temp, quarantine>>
  BY DEF Unwind, names
<1> QED
  BY <1>1, <1>2, QuietPut DEF Aside, Ended

LEMMA StepPut ==
    ASSUME ReplaceInv, PutInv, Step
    PROVE  PutInv'
<1> USE DEF Goto, names, history, fs, ReplaceInv
<1>0. /\ Dest \in Names /\ Dest \in UserNames /\ Dest \notin TempNames
      /\ temp \in TempNames \cup {None} /\ quarantine \in TempNames \cup {None}
      /\ None \notin TempNames /\ TempNames \subseteq Names
      /\ moves \in Nat
  BY OutputAssumption, NamesAssumption DEF Names, TypeInv, TypeOK, FileSystemTypeOK
<1>1. CASE Refuse /\ ~Restore /\ ~Cleanup /\ ~IgnoredError
  BY <1>1, UnwindPut
  DEF Refuse, Step, Stat, OpenObserved, Check, Prompt, Recheck, CreateTemp, Write, SyncOutput,
      Withdraw, Verify, Absent, Install, SyncParent, Remove, SyncRemoval, IoError, Ended
<1>2. CASE (Stat \/ OpenObserved \/ Check \/ Prompt \/ Recheck \/ CreateTemp \/ Write \/ SyncOutput
                \/ Absent) /\ ~Refuse
  <2>1. quarantine = None /\ quarantine' = quarantine
    BY <1>2
    DEF AtomicInv, AsideSettled, Stat, OpenObserved, Check, Prompt, Recheck, CreateTemp, Write,
        SyncOutput, Absent
  <2> QED
    BY <2>1 DEF PutInv, Aside
<1>3. CASE Withdraw /\ ~Refuse
  <2>1. PICK t \in TempNames :
          \/ /\ RenameNoReplace(Dest, t)
             /\ quarantine' = t
             /\ pc' = "verify"
          \/ quarantine' = quarantine
    BY <1>3 DEF Withdraw
  <2>2. CASE quarantine' = quarantine
    BY <1>3, <2>2 DEF Withdraw, AtomicInv, AsideSettled, PutInv, Aside
  <2>3. CASE RenameNoReplace(Dest, t) /\ pc' = "verify"
    <3>1. dir'[Dest] = None
      BY <1>0, <2>3, Renamed DEF TypeInv, TypeOK
    <3> QED
      BY <2>3, <3>1 DEF PutInv, Present
  <2> QED
    BY <2>1, <2>2, <2>3
<1>4. CASE Verify /\ ~Refuse
  BY <1>4, QuietPut DEF Verify
<1>5. CASE Install /\ ~Refuse
  <2>1. /\ RenameNoReplace(temp, Dest) /\ pc = "install" /\ pc' = "syncdir"
        /\ UNCHANGED <<temp, quarantine>>
    BY <1>5 DEF Install
  <2>2. /\ temp # None /\ temp # Dest /\ dir[temp] # None
        /\ files[dir[temp]] = [data |-> "whole", stable |-> "whole"]
    BY <1>0, <2>1 DEF TypeInv, Owning, AtomicInv, SyncedBeforeInstall, Present
  <2>3. dir'[temp] = None /\ dir'[Dest] = dir[temp] /\ files' = files
    BY <1>0, <2>1, <2>2, Renamed DEF TypeInv, TypeOK
  <2>4. OutputOut'
    BY <1>0, <2>1, <2>2, <2>3 DEF OutputOut, Uninstalled, WholeThere, Kept, Present
  <2> QED
    BY <2>1, <2>4 DEF PutInv
<1>6. CASE (SyncParent \/ SyncRemoval) /\ ~Refuse
  <2>1. /\ UNCHANGED <<dir, files, moves, discarded, temp, quarantine>>
        /\ pc \in {"syncdir", "syncremoval"} /\ pc' \in {"remove", "done"}
    BY <1>6 DEF SyncParent, SyncRemoval, SyncDirectory
  <2> QED
    BY <2>1, QuietPut
<1>7. CASE Remove /\ ~Refuse
  <2>1. /\ dir'[quarantine] = None /\ UNCHANGED quarantine
    BY <1>0, <1>7, Unlinked DEF Remove, TypeInv, TypeOK, Owning
  <2> QED
    BY <2>1 DEF PutInv, Aside, Present
<1>8. CASE Restore
  <2>1. /\ quarantine # None /\ UNCHANGED <<temp, quarantine>>
        /\ pc = "restore" /\ pc' \in {"cleanup", "failed"}
    BY <1>8 DEF Restore, TypeInv, Owning
  <2>2. CASE RenameNoReplace(quarantine, Dest)
    <3>1. dir'[quarantine] = None
      BY <1>0, <2>1, <2>2, Renamed DEF TypeInv, TypeOK
    <3> QED
      BY <2>1, <3>1 DEF PutInv, Aside, Present
  <2>3. CASE /\ Resolve(Dest) # None \/ ~CanRename(quarantine, Dest)
             /\ UNCHANGED <<dir, images, files, moves, born, discarded>>
    <3>1. Present(Dest) \/ ~Present(quarantine)
      BY <2>3 DEF Resolve, IsLink, Present, CanRename
    <3> QED
      BY <2>1, <2>3, <3>1, QuietPut
  <2> QED
    BY <1>8, <2>2, <2>3 DEF Restore
<1>9. CASE Cleanup
  <2>1. temp # None /\ UNCHANGED <<temp, quarantine, swallowed>> /\ pc = "cleanup" /\ pc' = "failed"
    BY <1>9 DEF Cleanup, TypeInv, Owning
  <2>2. CASE Unlink(temp)
    <3>1. /\ dir'[temp] = None /\ dir[temp] # None
          /\ \A n \in Names \ {temp} : dir'[n] = dir[n]
          /\ UNCHANGED moves
      BY <1>0, <2>1, <2>2, Unlinked DEF TypeInv, TypeOK, Unlink, Present
    <3>2. quarantine # None => dir'[quarantine] = dir[quarantine]
      BY <1>0, <3>1 DEF LossInv, Beginning
    <3>3. dir'[Dest] = dir[Dest]
      BY <1>0, <2>1, <3>1
    <3> QED
      BY <2>1, <3>1, <3>2, <3>3 DEF PutInv, OutputOut, Uninstalled, Aside, Present
  <2>3. CASE UNCHANGED <<dir, images, files, moves, born, discarded>>
    BY <2>1, <2>3, QuietPut
  <2> QED
    BY <1>9, <2>2, <2>3 DEF Cleanup
<1>10. CASE IoError
  BY <1>10, UnwindPut DEF IoError
<1>11. CASE IgnoredError
  BY <1>11, QuietPut DEF IgnoredError
<1> QED
  BY <1>1, <1>2, <1>3, <1>4, <1>5, <1>6, <1>7, <1>8, <1>9, <1>10, <1>11 DEF Step

\* A change by others counts, and takes the output away only by discarding it.
LEMMA OthersPut ==
    ASSUME ReplaceInv, PutInv, Running, OthersNext, UNCHANGED local
    PROVE  PutInv'
<1> USE DEF local, names, history, ReplaceInv
<1>1. moves' = moves + 1 /\ moves \in Nat
  <2>1. \E edit : OthersEdit(edit)
    BY DEF OthersNext, OthersCreate, OthersLink, OthersRename, OthersUnlink
  <2>2. moves \in Nat
    BY DEF TypeInv, TypeOK, FileSystemTypeOK
  <2> QED
    BY <2>1, <2>2 DEF OthersEdit
<1>2. \A n \in TempNames : dir'[n] = dir[n]
  BY OthersReach DEF TypeInv, TypeOK
<1>3. temp \in TempNames \cup {None} /\ quarantine \in TempNames \cup {None}
  BY DEF TypeInv, TypeOK
<1>4. CASE moves > 0
  BY <1>1, <1>2, <1>3, <1>4 DEF PutInv, Aside, Present
<1>5. CASE moves = 0
  <2>1. moves' > 0
    BY <1>1, <1>5
  <2>2. OutputOut => OutputOut'
    BY <1>2, <1>3, OthersWhole DEF OutputOut, Uninstalled, Present
  <2> QED
    BY <1>2, <1>3, <1>5, <2>1, <2>2 DEF PutInv, Aside, Present
<1> QED
  BY <1>1, <1>4, <1>5

\* A commit that fails puts back the file it has moved aside, unless others or the
\* output stand in its place.
THEOREM OldPutBack == Spec => []PutBack
<1>1. Init => PutInv
  BY DEF Init, PutInv, Aside
<1>2. ReplaceInv /\ PutInv /\ [Next]_vars => PutInv'
  <2> SUFFICES ASSUME ReplaceInv, PutInv, [Next]_vars PROVE PutInv'
    OBVIOUS
  <2>1. CASE Others
    BY <2>1, OthersPut DEF Others, Running, Ended
  <2>2. CASE Crash
    BY <2>2 DEF Crash, Goto, PutInv
  <2>3. CASE UNCHANGED vars
    BY <2>3
    DEF vars, fs, local, names, history, PutInv, OutputOut, Uninstalled, WholeThere, Kept, Aside,
        Present
  <2> QED
    BY <2>1, <2>2, <2>3, StepPut DEF Next, Over
<1>3. ReplaceInv /\ PutInv => PutBack
  <2> SUFFICES ASSUME ReplaceInv, PutInv, pc = "failed", ~swallowed, Aside
               PROVE  Present(Dest) \/ moves > 1 \/ Linked("whole") \/ "whole" \in discarded
    BY DEF PutBack, Aside
  <2>1. CASE OutputOut
    BY <2>1 DEF OutputOut, WholeThere, Kept, Linked
  <2>2. CASE ~OutputOut
    BY <2>2 DEF PutInv
  <2> QED
    BY <2>1, <2>2
<1> QED
  BY <1>1, <1>2, <1>3, LossInvariant, PTL
  DEF Spec

-------------------------------------------------------------------------------
(* The refinement. A power cut is the one step that AtomicOutput and       *)
(* AtomicReplace must agree on in every image: where the images differ     *)
(* from the directory, and that none of them lacks both what stood at Dest *)
(* and the output.                                                         *)

\* Only Dest and the temporary names are ever unsynced.
Elsewhere == \A image \in images : \A n \in UserNames \ {Dest} : image[n] = dir[n]

\* At Dest an image has what is there, nothing, or what has been moved aside.
AtDest ==
    \A image \in images :
        image[Dest] \in {None, dir[Dest]} \/ (Aside /\ image[Dest] = dir[quarantine])

\* What is at Dest is there in each image, or still aside, or the output.
DestKept ==
    \A image \in images :
        \/ dir[Dest] \in {None, image[Dest]}
        \/ quarantine # None /\ image[quarantine] = dir[Dest]
        \/ files[dir[Dest]].data = "whole"

\* What is aside is there in each image, or still at Dest, or replaced.
AsideKept ==
    Aside => \A image \in images :
        \/ image[quarantine] = dir[quarantine]
        \/ image[Dest] = dir[quarantine]
        \/ image[Dest] # None /\ files[image[Dest]].data = "whole"

\* What an image still has aside was put back, or was let pass.
AsideOnce ==
    quarantine # None /\ ~Present(quarantine) => \A image \in images :
        \/ image[quarantine] \in {None, dir[Dest]}
        \/ /\ Foreign(image[quarantine])
           /\ files[image[quarantine]].data \in cleared \cup UserNames

\* Once the installation is synced, Dest is the same in every image.
DestSynced == pc \in {"remove", "syncremoval"} => \A image \in images : image[Dest] = dir[Dest]

PlacesInv ==
    /\ Running => Elsewhere /\ AtDest /\ DestKept /\ AsideKept /\ AsideOnce
    /\ DestSynced

\* One image, the directory itself, satisfies all of it.
LEMMA OnePlace ==
    ASSUME images' = {dir'}
    PROVE  PlacesInv'
BY DEF PlacesInv, Elsewhere, AtDest, DestKept, AsideKept, AsideOnce, DestSynced, Present

\* So do the images before a file is moved aside.
LEMMA UnmovedPlaces ==
    ASSUME TypeInv', LossInv', Running', Uninstalled', quarantine' = None,
           pc' \notin {"remove", "syncremoval"}
    PROVE  PlacesInv'
<1>1. /\ Dest \in UserNames /\ \A n \in UserNames : n \in Names /\ n # temp'
  BY OutputAssumption, NamesAssumption DEF TypeInv, TypeOK, Names
<1>2. \A image \in images' : \A n \in UserNames : image[n] = dir'[n]
  BY <1>1 DEF LossInv, ImagesUnmoved
<1> QED
  BY <1>1, <1>2
  DEF PlacesInv, Elsewhere, AtDest, DestKept, AsideKept, AsideOnce, DestSynced, Aside

\* A step that touches neither directory nor files.
LEMMA QuietPlaces ==
    ASSUME PlacesInv, Running,
           UNCHANGED <<dir, images, files, quarantine>>,
           cleared' = cleared \/ quarantine = None,
           pc' \notin {"remove", "syncremoval"}
    PROVE  PlacesInv'
BY DEF PlacesInv, Elsewhere, AtDest, DestKept, AsideKept, AsideOnce, DestSynced, Aside, Present,
       Foreign

LEMMA WithdrawPlaces ==
    ASSUME TypeInv, AtomicInv, LossInv, NEW t \in TempNames,
           RenameNoReplace(Dest, t), quarantine' = t, pc = "withdraw", pc' = "verify"
    PROVE  PlacesInv'
<1>1. /\ Dest \in Names /\ Dest \in UserNames /\ t \in Names /\ t # Dest /\ t # None
      /\ \A n \in UserNames : n \in Names /\ n # t /\ n # temp
      /\ quarantine = None /\ temp # None /\ dir[temp] # None
  BY OutputAssumption, NamesAssumption
  DEF AtomicInv, AsideSettled, SyncedBeforeInstall, Present, TypeInv, TypeOK, Owning, Names
<1>2. /\ dir[Dest] # None /\ dir[t] = None /\ dir'[t] = dir[Dest] /\ dir'[Dest] = None
      /\ \A n \in Names \ {Dest, t} : dir'[n] = dir[n]
      /\ files' = files
      /\ \A image \in images' \ images : \E old \in images :
           /\ image[t] = dir[Dest] /\ image[Dest] = None
           /\ \A n \in Names \ {Dest, t} : image[n] = old[n]
  BY <1>1, Renamed DEF TypeInv, TypeOK
<1>3. \A image \in images : \A n \in Names \ {temp} : image[n] = dir[n]
  BY <1>1 DEF LossInv, ImagesUnmoved, Running, Uninstalled, Present
<1>4. Elsewhere'
  BY <1>1, <1>2, <1>3 DEF Elsewhere
<1>5. \A image \in images' :
        \/ image[t] = dir'[t] /\ image[Dest] = None
        \/ image[Dest] = dir'[t]
  BY <1>1, <1>2, <1>3
<1> QED
  BY <1>1, <1>2, <1>4, <1>5
  DEF PlacesInv, AtDest, DestKept, AsideKept, AsideOnce, DestSynced, Aside, Present

LEMMA InstallPlaces ==
    ASSUME TypeInv, AtomicInv, LossInv, PlacesInv,
           RenameNoReplace(temp, Dest), pc = "install", pc' = "syncdir",
           UNCHANGED <<quarantine, cleared>>
    PROVE  PlacesInv'
<1>1. /\ Dest \in Names /\ Dest \in UserNames /\ temp \in Names /\ temp # Dest
      /\ \A n \in UserNames : n \in Names /\ n # temp
      /\ files[dir[temp]].data = "whole"
  BY OutputAssumption, NamesAssumption
  DEF AtomicInv, SyncedBeforeInstall, Present, TypeInv, TypeOK, Owning, Names
<1>2. /\ dir[temp] # None /\ dir[Dest] = None
      /\ dir'[Dest] = dir[temp] /\ dir'[temp] = None
      /\ \A n \in Names \ {temp, Dest} : dir'[n] = dir[n]
      /\ files' = files
      /\ \A image \in images' \ images : \E old \in images :
           /\ image[Dest] = dir[temp] /\ image[temp] = None
           /\ \A n \in Names \ {temp, Dest} : image[n] = old[n]
  BY <1>1, Renamed DEF TypeInv, TypeOK
<1>3. quarantine # None =>
        /\ Aside /\ quarantine \in Names \ {temp, Dest} /\ dir'[quarantine] = dir[quarantine]
  BY <1>1, <1>2, NamesAssumption
  DEF LossInv, Beginning, AsideCleared, TypeInv, TypeOK, Names, Aside
<1>4. Elsewhere /\ AtDest /\ AsideKept
  BY DEF PlacesInv, Running
<1>5. Elsewhere'
  BY <1>1, <1>2, <1>4 DEF Elsewhere
<1>6. AtDest' /\ DestKept'
  BY <1>1, <1>2, <1>3, <1>4 DEF AtDest, DestKept, Aside, Present
<1>7. AsideKept' /\ AsideOnce'
  BY <1>1, <1>2, <1>3, <1>4 DEF AsideKept, AsideOnce, Aside, Present
<1> QED
  BY <1>5, <1>6, <1>7 DEF PlacesInv, DestSynced

LEMMA RemovePlaces ==
    ASSUME TypeInv, AtomicInv, LossInv, PlacesInv, Remove
    PROVE  PlacesInv'
<1> USE DEF Goto, names, history
<1>1. /\ pc = "remove" /\ pc' = "syncremoval" /\ UNCHANGED <<quarantine, cleared>>
      /\ Aside /\ quarantine \in Names /\ Foreign(dir[quarantine])
      /\ files[dir[quarantine]].data \in cleared \cup UserNames
      /\ \A n \in UserNames : n \in Names /\ n # quarantine
      /\ Dest \in UserNames
  BY OutputAssumption, NamesAssumption
  DEF Remove, LossInv, AsideCleared, OldForeign, Running, TypeInv, TypeOK, Owning, Names
<1>2. /\ dir'[quarantine] = None
      /\ \A m \in Names \ {quarantine} : dir'[m] = dir[m]
      /\ files' = files
      /\ \A image \in images' \ images : \E old \in images :
           /\ image[quarantine] = None
           /\ \A m \in Names \ {quarantine} : image[m] = old[m]
  BY <1>1, Unlinked DEF Remove
<1>3. /\ Elsewhere /\ \A image \in images : image[Dest] = dir[Dest]
      /\ \A image \in images : image[quarantine] \in {None, dir[quarantine]}
  BY <1>1 DEF PlacesInv, DestSynced, LossInv, ImagesMoved, Running
<1>4. Elsewhere' /\ \A image \in images' : image[Dest] = dir'[Dest]
  BY <1>1, <1>2, <1>3 DEF Elsewhere
<1>5. AsideOnce'
  BY <1>1, <1>2, <1>3 DEF AsideOnce, Foreign
<1> QED
  BY <1>1, <1>2, <1>4, <1>5
  DEF PlacesInv, AtDest, DestKept, AsideKept, DestSynced, Aside, Present

LEMMA RestorePlaces ==
    ASSUME TypeInv, AtomicInv, LossInv, PlacesInv,
           RenameNoReplace(quarantine, Dest), pc = "restore", pc' \in {"cleanup", "failed"},
           UNCHANGED <<quarantine, cleared>>
    PROVE  PlacesInv'
<1>1. /\ Dest \in Names /\ Dest \in UserNames /\ quarantine \in Names /\ quarantine # Dest
      /\ quarantine # None
      /\ \A n \in UserNames : n \in Names /\ n # quarantine
  BY OutputAssumption, NamesAssumption DEF TypeInv, TypeOK, Owning, Names
<1>2. /\ dir[quarantine] # None /\ dir[Dest] = None
      /\ dir'[Dest] = dir[quarantine] /\ dir'[quarantine] = None
      /\ \A n \in Names \ {quarantine, Dest} : dir'[n] = dir[n]
      /\ \A image \in images' \ images : \E old \in images :
           /\ image[Dest] = dir[quarantine] /\ image[quarantine] = None
           /\ \A n \in Names \ {quarantine, Dest} : image[n] = old[n]
  BY <1>1, Renamed DEF TypeInv, TypeOK
<1>3. /\ Elsewhere /\ AsideKept /\ Aside
      /\ \A image \in images :
           image[quarantine] \in {None, dir[quarantine]} /\ image[Dest] \in {None, dir[quarantine]}
  BY <1>1, <1>2 DEF PlacesInv, LossInv, ImagesMoved, Running, Aside, Present
<1>4. Elsewhere'
  BY <1>1, <1>2, <1>3 DEF Elsewhere
<1>5. \A image \in images' :
        /\ image[Dest] \in {None, dir'[Dest]} /\ image[quarantine] \in {None, dir'[Dest]}
        /\ image[Dest] = dir'[Dest] \/ image[quarantine] = dir'[Dest]
  BY <1>2, <1>3 DEF AsideKept
<1> QED
  BY <1>1, <1>2, <1>4, <1>5
  DEF PlacesInv, AtDest, DestKept, AsideKept, AsideOnce, DestSynced, Aside, Present

LEMMA StepPlaces ==
    ASSUME TypeInv, AtomicInv, LossInv, PlacesInv, Step, TypeInv', AtomicInv', LossInv'
    PROVE  PlacesInv'
<1> USE DEF Goto, names, history, fs
<1>1. CASE Refuse
  <2>1. Running
    BY <1>1
    DEF Step, Running, Stat, OpenObserved, Check, Prompt, Recheck, CreateTemp, Write, SyncOutput,
        Withdraw, Verify, Absent, Install, SyncParent, Remove, SyncRemoval, Restore, Cleanup,
        IoError, IgnoredError, Ended
  <2> QED
    BY <1>1, <2>1, QuietPlaces DEF Refuse, Unwind
<1>2. CASE (Stat \/ OpenObserved \/ Check \/ Prompt \/ Recheck \/ Verify \/ Absent) /\ ~Refuse
  <2>1. /\ Running /\ pc' \notin {"remove", "syncremoval"}
        /\ UNCHANGED <<dir, images, files, quarantine>>
        /\ cleared' = cleared \/ pc = "recheck"
    BY <1>2 DEF Running, Stat, OpenObserved, Check, Prompt, Recheck, Verify, Absent
  <2> QED
    BY <2>1, QuietPlaces DEF AtomicInv, AsideSettled
<1>3. CASE (CreateTemp \/ Write \/ SyncOutput) /\ ~Refuse
  <2>1. /\ pc \in {"create", "write", "sync"} /\ quarantine' = quarantine
        /\ pc' = "create" \/ pc' \in {"write", "sync", "withdraw", "absent"}
    BY <1>3 DEF CreateTemp, Write, SyncOutput
  <2>2. Running' /\ Uninstalled'
    BY <2>1
    DEF Running, Uninstalled, AtomicInv, PrivateWhileWritten, SyncedBeforeInstall, LossInv, Beginning
  <2> QED
    BY <2>1, <2>2, UnmovedPlaces DEF AtomicInv, AsideSettled
<1>4. CASE Withdraw /\ ~Refuse
  BY <1>4, WithdrawPlaces, QuietPlaces DEF Withdraw, Running
<1>5. CASE Install /\ ~Refuse
  BY <1>5, InstallPlaces DEF Install
<1>6. CASE SyncParent \/ SyncRemoval
  BY <1>6, OnePlace DEF SyncParent, SyncRemoval, SyncDirectory
<1>7. CASE Restore
  <2>1. CASE RenameNoReplace(quarantine, Dest)
    BY <1>7, <2>1, RestorePlaces DEF Restore
  <2>2. CASE UNCHANGED <<dir, images, files, moves, born, discarded>>
    BY <1>7, <2>2, QuietPlaces DEF Restore, Running
  <2> QED
    BY <1>7, <2>1, <2>2 DEF Restore
<1>8. CASE Cleanup
  BY <1>8 DEF Cleanup, PlacesInv, Running, DestSynced
<1>9. CASE IoError
  BY <1>9, QuietPlaces DEF IoError, Unwind, Running, Ended
<1>10. CASE IgnoredError
  BY <1>10, QuietPlaces DEF IgnoredError, Running
<1> QED
  BY <1>1, <1>2, <1>3, <1>4, <1>5, <1>6, <1>7, <1>8, <1>9, <1>10, RemovePlaces DEF Step

LEMMA PlacesInvariant == Spec => [](ReplaceInv /\ PlacesInv)
<1>1. Init => PlacesInv
  BY DEF Init, FileSystemInit, FilesInit, PlacesInv, Elsewhere, AtDest, DestKept, AsideKept,
         AsideOnce, DestSynced
<1>2. ReplaceInv /\ ReplaceInv' /\ PlacesInv /\ [Next]_vars => PlacesInv'
  <2> SUFFICES ASSUME ReplaceInv, ReplaceInv', PlacesInv, [Next]_vars
               PROVE  PlacesInv'
    OBVIOUS
  <2>1. CASE Step
    BY <2>1, StepPlaces DEF ReplaceInv
  <2>2. CASE Others
    BY <2>2, OthersReach, OnePlace DEF Others, ReplaceInv, TypeInv, TypeOK
  <2>3. CASE Crash
    BY <2>3, OnePlace DEF Crash, PowerLoss
  <2>4. CASE UNCHANGED vars
    BY <2>4
    DEF vars, fs, local, names, history, PlacesInv, Running, Elsewhere, AtDest, DestKept,
        AsideKept, AsideOnce, DestSynced, Aside, Present, Foreign
  <2> QED
    BY <2>1, <2>2, <2>3, <2>4 DEF Next, Over
<1> QED
  BY <1>1, <1>2, LossInvariant, PTL DEF Spec

-------------------------------------------------------------------------------
(* The steps.                                                              *)

Shown == [n \in UserNames |-> Showing(n)]
SetAside == IF quarantine = None THEN None ELSE Showing(quarantine)

\* A step that leaves what is under the user names and aside as it was.
LEMMA SameShown ==
    ASSUME TypeInv, UNCHANGED quarantine,
           \A n \in UserNames \cup {quarantine} : n # None =>
               dir'[n] = dir[n] /\ (dir[n] # None => files'[dir[n]].data = files[dir[n]].data)
    PROVE  Shown' = Shown /\ SetAside' = SetAside
<1>1. \A n \in UserNames : n # None
  BY NamesAssumption DEF Names
<1>2. \A n \in UserNames : Showing(n)' = Showing(n)
  BY <1>1 DEF Showing, Present
<1>3. SetAside' = SetAside
  BY DEF SetAside, Showing, Present
<1> QED
  BY <1>2, <1>3 DEF Shown

\* No name shows the value that stands for no file.
LEMMA ShowingType ==
    ASSUME TypeInv
    PROVE  /\ Shown \in [UserNames -> Data \cup {None}]
           /\ \A n \in Names : Present(n) => Showing(n) \in Data /\ Showing(n) # None
           /\ \A n \in Names : ~Present(n) => Showing(n) = None
<1>1. \A n \in Names : Present(n) => Showing(n) \in Data
  BY DEF Showing, Present, TypeInv, TypeOK, FileSystemTypeOK, Directories
<1> QED
  BY <1>1, NamesAssumption DEF Shown, Showing, Names

\* Init, Abort and the steps nobody sees.
LEMMA InitReplaces == Init => Replace!Init
<1> SUFFICES ASSUME Init PROVE Replace!Init
  OBVIOUS
<1>1. Shown \in [UserNames -> Data \cup {None}]
  BY TypeInit, ShowingType DEF TypeInv
<1> QED
  BY <1>1 DEF Replace!Init, Init, Shown, Progress, Ended

LEMMA AbortReplaces ==
    ASSUME TypeInv, LossInv, Shown' = Shown, SetAside' = SetAside, cleared' = cleared,
           committed' = committed, pc \notin Ended, pc' \in {"restore", "cleanup", "failed"},
           pc' = "failed" => pc \in {"restore", "cleanup"} \/ quarantine = None
    PROVE  Replace!Abort
<1>1. Progress \in {"open", "installed", "committed", "undone"}
  BY DEF Progress, Ended
<1>2. Progress' \in {"undone", "failed"}
  BY DEF Progress, Ended
<1>3. Progress' = "failed" => Progress = "undone" \/ SetAside = None
  BY DEF Progress, Ended, SetAside
<1> QED
  BY <1>1, <1>2, <1>3 DEF Replace!Abort, Shown, SetAside

LEMMA HiddenReplaces ==
    ASSUME TypeInv, LossInv, Shown' = Shown, SetAside' = SetAside, cleared' = cleared,
           committed' = committed, 
           {pc, pc'} \subseteq Labels \ ({"restore", "cleanup", "syncdir"} \cup Ended)
    PROVE  UNCHANGED Replace!promised
<1>1. Progress' = Progress
  BY DEF Progress, Ended
<1> QED
  BY <1>1 DEF Replace!promised, Shown, SetAside

\* The overwrite checks and the two comparisons: Recheck approves what it has
\* compared, the others either go on unseen or refuse.
LEMMA RefuseReplaces ==
    ASSUME TypeInv, LossInv, pc \notin Ended \cup {"restore", "cleanup"}, Unwind,
           UNCHANGED <<dir, files>>
    PROVE  Replace!Abort
<1> USE DEF names, history
<1>1. UNCHANGED <<quarantine, cleared, committed>>
  BY DEF Unwind
<1>2. Shown' = Shown /\ SetAside' = SetAside
  BY <1>1, SameShown
<1> QED
  BY <1>1, <1>2, AbortReplaces DEF Unwind

LEMMA ApproveReplaces ==
    ASSUME TypeInv, AtomicInv, LossInv, Recheck, ~Refuse
    PROVE  Replace!Approve
<1>1. /\ pc = "recheck" /\ pc' = "create" /\ Resolve(Dest) = observed /\ observed # None
      /\ cleared' = {files[observed].data} /\ cleared = {}
      /\ UNCHANGED <<fs, quarantine, committed>>
  BY DEF Recheck, Goto, names, TypeInv, Holding, LossInv, Beginning
<1>2. PICK n \in UserNames : Present(n) /\ dir[n] = observed
  BY <1>1, OutputAssumption, ResolveNamed DEF TypeInv, TypeOK
<1>3. n \in Names /\ Shown[n] = files[observed].data /\ Shown[n] # None
  BY <1>2, ShowingType DEF Shown, Showing, Names
<1>4. Shown' = Shown /\ SetAside' = SetAside
  BY <1>1, SameShown DEF fs
<1>5. Progress = "open" /\ Progress' = "open"
  BY <1>1 DEF Progress, Ended, LossInv, Tidy
<1>6. files[observed].data \in {Shown[m] : m \in UserNames} \ {None}
  BY <1>2, <1>3
<1> QED
  BY <1>1, <1>4, <1>5, <1>6 DEF Replace!Approve, Shown, SetAside

LEMMA ChecksReplace ==
    ASSUME TypeInv, AtomicInv, LossInv,
           Stat \/ OpenObserved \/ Check \/ Prompt \/ Recheck \/ Verify \/ Absent
    PROVE  Replace!Own \/ UNCHANGED Replace!promised
<1> USE DEF Goto, names, history, fs
<1>1. CASE Refuse
  BY <1>1, RefuseReplaces
  DEF Refuse, Stat, OpenObserved, Check, Prompt, Recheck, Verify, Absent, Ended, Replace!Own
<1>2. CASE ~Refuse /\ ~Recheck
  <2>1. /\ UNCHANGED <<dir, files, quarantine, cleared, committed>>
        /\ {pc, pc'} \subseteq Labels \ ({"restore", "cleanup", "syncdir"} \cup Ended)
    BY <1>2
    DEF Stat, OpenObserved, Check, Prompt, Verify, Absent, Labels, Ended
  <2> QED
    BY <2>1, SameShown, HiddenReplaces
<1> QED
  BY <1>1, <1>2, ApproveReplaces DEF Replace!Own

\* The temporary file is nobody's.
LEMMA WritingReplaces ==
    ASSUME TypeInv, AtomicInv, LossInv, CreateTemp \/ Write \/ SyncOutput
    PROVE  Replace!Own \/ UNCHANGED Replace!promised
<1> USE DEF Goto, names, history, fs
<1>1. CASE Refuse
  BY <1>1, RefuseReplaces
  DEF Refuse, CreateTemp, Write, SyncOutput, Ended, Replace!Own
<1>2. CASE ~Refuse
  <2>1. /\ UNCHANGED <<quarantine, cleared, committed>> /\ quarantine = None
        /\ {pc, pc'} \subseteq Labels \ ({"restore", "cleanup", "syncdir"} \cup Ended)
    BY <1>2 DEF CreateTemp, Write, SyncOutput, Labels, Ended, AtomicInv, AsideSettled
  <2>2. \A n \in UserNames :
          n \in Names /\ n \notin TempNames /\ (dir[n] # None => dir[n] \in Inodes)
    BY NamesAssumption DEF TypeInv, TypeOK, FileSystemTypeOK, Directories, Names
  <2>3. ASSUME NEW n \in UserNames
        PROVE  dir'[n] = dir[n] /\ (dir[n] # None => files'[dir[n]].data = files[dir[n]].data)
    <3>1. CASE CreateTemp
      <4>1. CASE UNCHANGED <<dir, files>>
        BY <4>1
      <4>2. CASE \E t \in TempNames : CreatePrivate(t)
        <5>1. PICK t \in TempNames, i \in Inodes :
                /\ Free(i)
                /\ Journal([m \in {t} |-> i])
                /\ files' = [files EXCEPT ![i] = [data |-> "blank", stable |-> "blank"]]
          BY <4>2 DEF CreatePrivate
        <5>2. dir'[n] = dir[n] /\ dir[n] # i
          BY <2>2, <5>1, InUse DEF Journal, Edited
        <5> QED
          BY <2>2, <5>1, <5>2 DEF TypeInv, TypeOK, FileSystemTypeOK
      <4> QED
        BY <1>2, <3>1, <4>1, <4>2 DEF CreateTemp
    <3>2. CASE Write \/ SyncOutput
      <4>1. /\ UNCHANGED dir
            /\ \A i \in Inodes \ {dir[temp]} : files'[i] = files[i]
        BY <1>2, <3>2
        DEF Write, WriteFile, SyncOutput, SyncFile, TypeInv, TypeOK, FileSystemTypeOK
      <4>2. dir[n] # dir[temp]
        BY <2>2, <3>2
        DEF Write, SyncOutput, LossInv, TempAlone, Running, AtomicInv, PrivateWhileWritten,
            TypeInv, TypeOK, Owning, Present
      <4> QED
        BY <2>2, <4>1, <4>2
    <3> QED
      BY <3>1, <3>2
  <2> QED
    BY <2>1, <2>3, SameShown, HiddenReplaces
<1> QED
  BY <1>1, <1>2

\* The three renames.
LEMMA WithdrawReplaces ==
    ASSUME TypeInv, AtomicInv, LossInv, NEW t \in TempNames,
           RenameNoReplace(Dest, t), quarantine' = t, pc = "withdraw", pc' = "verify",
           UNCHANGED <<committed, history>>
    PROVE  Replace!Withdraw
<1>1. /\ Dest \in Names /\ Dest \in UserNames /\ t \in Names /\ t # Dest /\ t # None
      /\ \A n \in UserNames : n \in Names /\ n # t
      /\ quarantine = None
  BY OutputAssumption, NamesAssumption DEF AtomicInv, AsideSettled, Names
<1>2. /\ dir[Dest] # None /\ dir'[t] = dir[Dest] /\ dir'[Dest] = None
      /\ \A n \in Names \ {Dest, t} : dir'[n] = dir[n]
      /\ files' = files
  BY <1>1, Renamed DEF TypeInv, TypeOK
<1>3. Shown' = [Shown EXCEPT ![Dest] = None]
  BY <1>1, <1>2 DEF Shown, Showing, Present
<1>4. SetAside = None /\ SetAside' = Shown[Dest] /\ Shown[Dest] # None
  BY <1>1, <1>2, ShowingType DEF SetAside, Shown, Showing, Present
<1>5. Progress = "open" /\ Progress' = "open"
  BY DEF Progress, Ended, LossInv, Tidy
<1> QED
  BY <1>3, <1>4, <1>5 DEF Replace!Withdraw, Shown, SetAside, history

LEMMA InstallReplaces ==
    ASSUME TypeInv, AtomicInv, LossInv,
           RenameNoReplace(temp, Dest), pc = "install", pc' = "syncdir",
           UNCHANGED <<quarantine, committed, cleared>>
    PROVE  Replace!Install
<1>1. /\ Dest \in Names /\ Dest \in UserNames /\ temp \in Names /\ temp # Dest
      /\ \A n \in UserNames : n \in Names /\ n # temp
      /\ files[dir[temp]].data = "whole"
  BY OutputAssumption, NamesAssumption
  DEF AtomicInv, SyncedBeforeInstall, TypeInv, TypeOK, Owning, Names
<1>2. /\ dir[temp] # None /\ dir[Dest] = None
      /\ dir'[Dest] = dir[temp] /\ dir'[temp] = None
      /\ \A n \in Names \ {temp, Dest} : dir'[n] = dir[n]
      /\ files' = files
  BY <1>1, Renamed DEF TypeInv, TypeOK
<1>3. Shown[Dest] = None /\ Shown' = [Shown EXCEPT ![Dest] = "whole"]
  BY <1>1, <1>2 DEF Shown, Showing, Present
<1>4. quarantine # None =>
        /\ Present(quarantine) /\ files[dir[quarantine]].data \in cleared \cup UserNames
        /\ quarantine \in Names \ {temp, Dest}
  BY <1>1, NamesAssumption
  DEF LossInv, Beginning, AsideCleared, Aside, TypeInv, TypeOK, Names
<1>5. SetAside' = SetAside /\ SetAside \in cleared \cup UserNames \cup {None}
  BY <1>2, <1>4 DEF SetAside, Showing, Present
<1>6. Progress = "open" /\ Progress' = "installed"
  BY DEF Progress, Ended, LossInv, Tidy
<1> QED
  BY <1>3, <1>5, <1>6 DEF Replace!Install, Shown, SetAside

LEMMA RestoreReplaces ==
    ASSUME TypeInv, AtomicInv, LossInv,
           RenameNoReplace(quarantine, Dest), pc = "restore", pc' \in {"cleanup", "failed"},
           UNCHANGED <<quarantine, committed, cleared>>
    PROVE  Replace!Restore
<1>1. /\ Dest \in Names /\ Dest \in UserNames /\ quarantine \in Names /\ quarantine # Dest
      /\ quarantine # None
      /\ \A n \in UserNames : n \in Names /\ n # quarantine
  BY OutputAssumption, NamesAssumption DEF TypeInv, TypeOK, Owning, Names
<1>2. /\ dir[quarantine] # None /\ dir[Dest] = None
      /\ dir'[Dest] = dir[quarantine] /\ dir'[quarantine] = None
      /\ \A n \in Names \ {quarantine, Dest} : dir'[n] = dir[n]
      /\ files' = files
  BY <1>1, Renamed DEF TypeInv, TypeOK
<1>3. /\ SetAside = files[dir[quarantine]].data /\ SetAside # None /\ SetAside' = None
  BY <1>1, <1>2, ShowingType DEF SetAside, Showing, Present
<1>4. Shown[Dest] = None /\ Shown' = [Shown EXCEPT ![Dest] = SetAside]
  BY <1>1, <1>2, <1>3 DEF Shown, Showing, Present
<1>5. Progress = "undone" /\ Progress' \in {"undone", "failed"}
  BY DEF Progress, Ended
<1> QED
  BY <1>3, <1>4, <1>5 DEF Replace!Restore, Shown, SetAside

\* From the installation to the end.
LEMMA SyncReplaces ==
    ASSUME TypeInv, AtomicInv, LossInv, SyncParent \/ SyncRemoval
    PROVE  Replace!Own
<1> USE DEF Goto, names, history
<1>1. /\ UNCHANGED <<dir, files, quarantine, cleared>>
  BY DEF SyncParent, SyncRemoval, SyncDirectory
<1>2. Shown' = Shown /\ SetAside' = SetAside
  BY <1>1, SameShown
<1>3. quarantine # None => quarantine \in Names
  BY DEF TypeInv, TypeOK, Names
<1>4. CASE SyncParent
  <2>1. SetAside = None <=> quarantine = None
    BY <1>3, <1>4, ShowingType DEF SyncParent, SetAside, LossInv, AsideCleared, Aside
  <2>2. Progress = "installed" /\ Progress' = IF SetAside = None THEN "done" ELSE "committed"
    BY <1>4, <2>1 DEF SyncParent, Progress, Ended, LossInv, Tidy
  <2> QED
    BY <1>1, <1>2, <2>2 DEF Replace!Own, Replace!Commit, Shown, SetAside
<1>5. CASE SyncRemoval
  <2>1. SetAside = None
    BY <1>3, <1>5, ShowingType DEF SyncRemoval, SetAside, LossInv, Tidy
  <2>2. Progress = "committed" /\ Progress' = "done"
    BY <1>5 DEF SyncRemoval, Progress, Ended, LossInv, Tidy
  <2> QED
    BY <1>1, <1>2, <2>1, <2>2 DEF Replace!Own, Replace!Finish, Shown, SetAside
<1> QED
  BY <1>4, <1>5

LEMMA RemoveReplaces ==
    ASSUME TypeInv, AtomicInv, LossInv, Remove
    PROVE  Replace!Discard
<1> USE DEF Goto, names, history
<1>1. /\ pc = "remove" /\ pc' = "syncremoval" /\ UNCHANGED <<quarantine, committed, cleared>>
      /\ quarantine # None /\ quarantine \in Names
      /\ \A n \in UserNames : n \in Names /\ n # quarantine
  BY NamesAssumption DEF Remove, TypeInv, TypeOK, Owning, Names
<1>2. /\ dir[quarantine] # None /\ dir'[quarantine] = None
      /\ \A n \in Names \ {quarantine} : dir'[n] = dir[n]
      /\ files' = files
  BY <1>1, Unlinked DEF Remove
<1>3. Shown' = Shown
  BY <1>1, <1>2 DEF Shown, Showing, Present
<1>4. SetAside # None /\ SetAside' = None
  BY <1>1, <1>2, ShowingType DEF SetAside, Showing, Present
<1>5. Progress = "committed" /\ Progress' = "committed"
  BY <1>1 DEF Progress, Ended, LossInv, Tidy
<1> QED
  BY <1>1, <1>3, <1>4, <1>5 DEF Replace!Discard, Shown, SetAside

\* The way out.
LEMMA EndingReplaces ==
    ASSUME TypeInv, AtomicInv, LossInv, Cleanup \/ IgnoredError \/ IoError
    PROVE  Replace!Own \/ UNCHANGED Replace!promised
<1> USE DEF Goto, names, history, fs
<1>1. CASE IoError
  BY <1>1, RefuseReplaces DEF IoError, Replace!Own
<1>2. CASE Cleanup \/ IgnoredError
  <2>1. /\ UNCHANGED <<quarantine, cleared, committed, files>>
        /\ pc \in {"restore", "cleanup"} /\ pc' \in {"cleanup", "failed"}
    BY <1>2 DEF Cleanup, Unlink, IgnoredError
  <2>2. \A n \in UserNames \cup {quarantine} : n # None => dir'[n] = dir[n]
    <3>1. CASE UNCHANGED dir
      BY <3>1
    <3>2. CASE pc = "cleanup" /\ Unlink(temp)
      <4>1. temp \in Names /\ \A m \in Names \ {temp} : dir'[m] = dir[m]
        BY <3>2, Unlinked DEF TypeInv, TypeOK, Owning, Names
      <4>2. \A n \in UserNames \cup {quarantine} : n # None => n \in Names \ {temp}
        BY <3>2, NamesAssumption
        DEF TypeInv, TypeOK, Owning, Names, LossInv, Beginning
      <4> QED
        BY <4>1, <4>2
    <3> QED
      BY <1>2, <3>1, <3>2 DEF Cleanup, IgnoredError
  <2>3. Shown' = Shown /\ SetAside' = SetAside
    BY <2>1, <2>2, SameShown
  <2> QED
    BY <2>1, <2>3, AbortReplaces DEF Ended, Replace!Own
<1> QED
  BY <1>1, <1>2

LEMMA StepReplaces ==
    ASSUME TypeInv, AtomicInv, LossInv, Step
    PROVE  Replace!Own \/ UNCHANGED Replace!promised
<1> USE DEF Goto, names, history, fs
<1>1. CASE Withdraw \/ Install
  <2>1. CASE Refuse
    BY <1>1, <2>1, RefuseReplaces DEF Refuse, Withdraw, Install, Ended, Replace!Own
  <2>2. CASE UNCHANGED <<fs, pc, temp, quarantine, committed, cleared>>
    BY <1>1, <2>2, SameShown, HiddenReplaces DEF Withdraw, Install, Labels, Ended
  <2> QED
    BY <1>1, <2>1, <2>2, WithdrawReplaces, InstallReplaces DEF Withdraw, Install, Replace!Own
<1>2. CASE Restore
  <2>1. CASE RenameNoReplace(quarantine, Dest)
    BY <1>2, <2>1, RestoreReplaces DEF Restore, Replace!Own
  <2>2. CASE UNCHANGED <<dir, images, files, moves, born, discarded>>
    BY <1>2, <2>2, SameShown, AbortReplaces DEF Restore, Ended, Replace!Own
  <2> QED
    BY <1>2, <2>1, <2>2 DEF Restore
<1> QED
  BY <1>1, <1>2, ChecksReplace, WritingReplaces, SyncReplaces, RemoveReplaces, EndingReplaces
  DEF Step, Replace!Own

\* A power cut keeps what is under a user name, aside, or was let pass: it is the
\* user's, or the finished output.
LEMMA PowerLossSettled ==
    ASSUME TypeInv, Steady, PowerLoss, NEW i \in Inodes, Settled(i) \/ Foreign(i)
    PROVE  files'[i].data = files[i].data
<1>1. files'[i].data \in {files[i].data, files[i].stable}
  BY DEF PowerLoss
<1>2. files[i].stable = files[i].data
  BY NamesAssumption DEF Settled, Foreign, Steady, OutputData
<1> QED
  BY <1>1, <1>2

LEMMA CrashReplaces ==
    ASSUME TypeInv, AtomicInv, LossInv, PlacesInv, Crash
    PROVE  Replace!Crash
<1> USE DEF Goto, names, history
<1>1. /\ pc \notin Ended /\ pc' = "crashed" /\ PowerLoss
      /\ UNCHANGED <<temp, quarantine, committed, cleared>>
      /\ Running /\ Steady
  BY DEF Crash, Running, Ended, LossInv
<1>2. dir' \in images /\ dir \in images
  BY <1>1 DEF PowerLoss, AtomicInv
<1>3. /\ Dest \in UserNames /\ Dest # quarantine
      /\ \A n \in UserNames : n \in Names
      /\ quarantine # None => quarantine \in Names
  BY OutputAssumption, NamesAssumption DEF TypeInv, TypeOK, Names
<1>4. \A n \in Names : /\ dir[n] \in Inodes \cup {None}
                       /\ dir'[n] \in Inodes \cup {None}
  BY <1>2 DEF TypeInv, TypeOK, FileSystemTypeOK, Directories
<1>5. \A i \in Inodes : Settled(i) \/ Foreign(i) => files'[i].data = files[i].data
  BY <1>1, PowerLossSettled
<1>6. \A n \in UserNames : \A image \in images : image[n] # None => Settled(image[n])
  BY DEF AtomicInv, Published
<1>7. \A n \in UserNames : Shown'[n] = IF dir'[n] = None THEN None ELSE files[dir'[n]].data
  BY <1>2, <1>3, <1>4, <1>5, <1>6 DEF Shown, Showing, Present
<1>8. \A n \in UserNames : Shown[n] = IF dir[n] = None THEN None ELSE files[dir[n]].data
  BY DEF Shown, Showing, Present
<1>9. quarantine # None =>
        SetAside = IF dir[quarantine] = None THEN None ELSE files[dir[quarantine]].data
  BY DEF SetAside, Showing, Present
<1>10. Elsewhere /\ AtDest /\ DestKept /\ AsideKept /\ AsideOnce /\ DestSynced
  BY <1>1 DEF PlacesInv
\* What Dest shows afterwards.
<1>11. Shown' = [Shown EXCEPT ![Dest] = Shown'[Dest]]
  <2>1. \A n \in UserNames \ {Dest} : Shown'[n] = Shown[n]
    BY <1>2, <1>7, <1>8, <1>10 DEF Elsewhere
  <2> QED
    BY <1>3, <2>1 DEF Shown
<1>12. Shown'[Dest] \in {Shown[Dest], SetAside, None}
  BY <1>2, <1>3, <1>7, <1>8, <1>9, <1>10 DEF AtDest, Aside
\* What is aside afterwards.
<1>13. quarantine # None /\ dir'[quarantine] # None =>
        files'[dir'[quarantine]].data = files[dir'[quarantine]].data
  <2> SUFFICES ASSUME quarantine # None, dir'[quarantine] # None
               PROVE  Settled(dir'[quarantine]) \/ Foreign(dir'[quarantine])
    BY <1>3, <1>4, <1>5
  <2>1. CASE Aside
    BY <1>1, <1>2, <2>1 DEF LossInv, ImagesMoved, OldForeign
  <2>2. CASE ~Aside
    BY <1>2, <1>3, <1>6, <1>10, <2>2 DEF Aside, AsideOnce
  <2> QED
    BY <2>1, <2>2
<1>14. /\ quarantine = None => SetAside = None /\ SetAside' = None
       /\ quarantine # None =>
            SetAside' = IF dir'[quarantine] = None THEN None ELSE files[dir'[quarantine]].data
  BY <1>1, <1>13 DEF SetAside, Showing, Present
<1>15. SetAside' \in {Shown[Dest], SetAside, None} \cup cleared \cup UserNames
  <2> SUFFICES ASSUME quarantine # None, dir'[quarantine] # None
               PROVE  files[dir'[quarantine]].data \in
                          {Shown[Dest], SetAside, None} \cup cleared \cup UserNames
    BY <1>14
  <2>1. CASE Aside
    BY <1>1, <1>2, <1>9, <2>1 DEF LossInv, ImagesMoved, Aside, Present
  <2>2. CASE ~Aside
    BY <1>2, <1>3, <1>8, <1>10, <2>2 DEF Aside, AsideOnce
  <2> QED
    BY <2>1, <2>2
\* Nothing is lost from both, unless the output is there.
<1>16. Shown'[Dest] # "whole" => Shown[Dest] \in {Shown'[Dest], SetAside', "whole", None}
  BY <1>2, <1>3, <1>7, <1>8, <1>10, <1>14 DEF DestKept
<1>17. Shown'[Dest] # "whole" => SetAside \in {Shown'[Dest], SetAside', "whole", None}
  BY <1>2, <1>3, <1>7, <1>9, <1>10, <1>14 DEF AsideKept, Aside, Present
<1>18. Progress = "open" => Shown'[Dest] # "whole"
  <2> SUFFICES ASSUME Progress = "open", dir'[Dest] # None
               PROVE  Foreign(dir'[Dest])
    BY <1>3, <1>7, NamesAssumption DEF Foreign, OutputData, Names, Data
  <2>1. Uninstalled
    BY <1>1
    DEF Progress, Ended, Uninstalled, TypeInv, TypeOK, Labels, LossInv, Tidy, Beginning,
        AtomicInv, PrivateWhileWritten, SyncedBeforeInstall
  <2> QED
    BY <1>1, <1>2, <1>3, <1>10, <2>1 DEF AtDest, LossInv, OldForeign, Aside, Present
<1>19. Progress = "committed" => Shown'[Dest] = Shown[Dest]
  BY <1>1, <1>2, <1>3, <1>7, <1>8, <1>10 DEF Progress, Ended, LossInv, Tidy, DestSynced
<1>20. Progress \notin {"done", "failed", "crashed"} /\ Progress' = "crashed"
  BY <1>1 DEF Progress, Ended
<1>21. Shown[Dest] = Showing(Dest)
  BY <1>3 DEF Shown
<1> QED
  BY <1>1, <1>11, <1>12, <1>15, <1>16, <1>17, <1>18, <1>19, <1>20
  DEF Replace!Crash, Shown, SetAside

\* AtomicOutput implements AtomicReplace, and what others do is all that AtomicReplace
\* leaves to them: whichever process acts, whichever call fails and whenever the power
\* goes, an output replaces its destination as a whole, after the checks have let the
\* old content pass, or gives it back.
THEOREM Replaces == Spec => OutputReplaces
<1>1. Init => Replace!Init
  BY InitReplaces
<1>2. ReplaceInv /\ ReplaceInv' /\ PlacesInv /\ [Next]_vars =>
        [Others \/ Replace!Own \/ Replace!Crash]_(Replace!promised)
  <2> SUFFICES ASSUME ReplaceInv, PlacesInv, [Next]_vars
               PROVE  Others \/ Replace!Own \/ Replace!Crash \/ UNCHANGED Replace!promised
    OBVIOUS
  <2>1. CASE Step
    BY <2>1, StepReplaces DEF ReplaceInv
  <2>2. CASE Crash
    BY <2>2, CrashReplaces DEF ReplaceInv
  <2>3. CASE UNCHANGED vars
    <3>1. UNCHANGED <<fs, pc, quarantine, committed, cleared>>
      BY <2>3 DEF vars, local, names, history
    <3>2. UNCHANGED <<Shown, SetAside, Progress, cleared>>
      BY <3>1, SameShown DEF fs, Progress, ReplaceInv
    <3> QED
      BY <3>2 DEF Replace!promised, Shown, SetAside
  <2> QED
    BY <2>1, <2>2, <2>3 DEF Next, Over
<1>3. ReplaceInv /\ ReplaceInv' /\ PlacesInv /\ Others => Replace!Others
  <2> SUFFICES ASSUME ReplaceInv, ReplaceInv', Others
               PROVE  Replace!Others
    OBVIOUS
  <2>1. UNCHANGED <<pc, quarantine, committed, cleared>>
    BY DEF Others, local, names, history
  <2>2. Shown' \in [UserNames -> Data \cup {None}]
    BY DEF ReplaceInv, TypeInv, TypeOK, FileSystemTypeOK, Directories, Shown, Showing, Present, Names
  <2>3. SetAside' = SetAside
    <3> SUFFICES ASSUME quarantine # None
                 PROVE  SetAside' = SetAside
      BY <2>1 DEF SetAside
    <3>1. quarantine \in TempNames /\ quarantine \in Names
      BY DEF ReplaceInv, TypeInv, TypeOK, Names
    <3>2. dir'[quarantine] = dir[quarantine]
      BY <3>1, OthersReach DEF Others, ReplaceInv, TypeInv, TypeOK
    <3>3. dir[quarantine] # None => files'[dir[quarantine]] = files[dir[quarantine]]
      BY <3>1, OthersReach, InUse
      DEF Others, ReplaceInv, TypeInv, TypeOK, FileSystemTypeOK, Directories
    <3> QED
      BY <2>1, <3>2, <3>3 DEF SetAside, Showing, Present
  <2>4. Progress' = Progress
    BY <2>1 DEF Progress
  <2> QED
    BY <2>1, <2>2, <2>3, <2>4 DEF Replace!Others, Shown, SetAside
<1>4. [Others \/ Replace!Own \/ Replace!Crash]_(Replace!promised)
        /\ (Others => Replace!Others) => [Replace!Next]_(Replace!promised)
  BY DEF Replace!Next
<1> QED
  BY <1>1, <1>2, <1>3, <1>4, PlacesInvariant, PTL DEF Spec, OutputReplaces, Replace!Spec
===============================================================================
