-------------------------- MODULE SecureDeleteProofs --------------------------
(***************************************************************************)
(* Theorems about the shredding of one source, for every directory, every  *)
(* number of names, inodes and contents, and every bound on retries and    *)
(* I/O errors.                                                             *)
(***************************************************************************)
EXTENDS SecureDelete, FileSystemProofs, FiniteSetTheorems

-------------------------------------------------------------------------------
(* Types.                                                                  *)

Starting == {"stat", "open", "match", "withdraw"}
Shredded == {"overwrite", "sync", "confirm", "remove"}

\* The quarantine exists from the withdrawal on; the last pass is the third.
Stages ==
    /\ pc \in Starting => quarantine = None
    /\ pc \in {"reopen", "links", "remove", "syncremoval", "restore"} \cup Shredded => quarantine # None
    /\ pc \in Starting \cup {"reopen", "links"} => passes = 0
    /\ pc \in {"overwrite", "sync"} => passes < 3
    /\ pc \in {"confirm", "remove", "syncremoval", "done"} => passes = 3

TypeInv == TypeOK /\ Stages

LEMMA InitType == Init => TypeInv
<1> SUFFICES ASSUME Init PROVE TypeInv
  OBVIOUS
<1>1. files \in [Inodes -> [data : Data, stable : Data]]
  BY DEF Init, FilesInit, Data, OutputData
<1>2. dir[Source] \in Inodes \cup {None}
  BY ShredAssumption DEF Init, FilesInit, Directories, Names
<1>3. FileSystemTypeOK
  BY <1>1, <1>2, NamesAssumption DEF Init, FilesInit, FileSystemTypeOK, Directories
<1> QED
  BY <1>3, ShredAssumption
  DEF Init, LocalInit, TypeInv, TypeOK, Labels, Stages, Starting, Shredded

\* An early return changes only pc.
LEMMA UnwindType ==
    ASSUME TypeInv, Unwind, UNCHANGED <<dir, images, files, moves, born, discarded>>,
           faults' \in 0 .. MaxFaults
    PROVE  TypeInv'
BY DEF Unwind, TypeInv, TypeOK, FileSystemTypeOK, Labels, Stages, Starting, Shredded

LEMMA StepType ==
    ASSUME TypeInv, Step
    PROVE  TypeInv'
<1> USE DEF Goto, fs
<1>1. CASE Refuse
  BY <1>1, UnwindType DEF Refuse, TypeInv, TypeOK
<1>2. CASE (Stat \/ Match \/ Reopen \/ CountLinks \/ Confirm) /\ ~Refuse
  BY <1>2
  DEF Stat, Match, Reopen, CountLinks, Confirm, TypeInv, TypeOK, FileSystemTypeOK, Labels,
      Stages, Starting, Shredded
<1>3. CASE Open /\ ~Refuse
  <2>1. dir[Source] \in Inodes \cup {None}
    BY ShredAssumption DEF TypeInv, TypeOK, FileSystemTypeOK, Directories, Names
  <2>2. open' \in [Holders -> Inodes \cup {None}]
    BY <1>3, <2>1, HoldType DEF Open, OpenNoFollow, TypeInv, TypeOK
  <2> QED
    BY <1>3, <2>2
    DEF Open, TypeInv, TypeOK, FileSystemTypeOK, Labels, Stages, Starting, Shredded
<1>4. CASE Withdraw /\ ~Refuse
  <2>1. PICK t \in TempNames :
          \/ /\ RenameNoReplace(Source, t)
             /\ quarantine' = t
             /\ pc' = "reopen"
             /\ UNCHANGED <<open, tries, passes, faults>>
          \/ /\ ~LastTry
             /\ tries' = tries + 1
             /\ UNCHANGED <<fs, pc, quarantine, passes, faults>>
    BY <1>4 DEF Withdraw
  <2>2. Source \in Names /\ t \in Names /\ t # None
    BY ShredAssumption, NamesAssumption DEF Names
  <2>3. CASE RenameNoReplace(Source, t) /\ quarantine' = t /\ pc' = "reopen"
                /\ UNCHANGED <<open, tries, passes, faults>>
    <3>1. FileSystemTypeOK'
      BY <2>2, <2>3, RenameType DEF TypeInv, TypeOK, FileSystemTypeOK
    <3> QED
      BY <1>4, <2>2, <2>3, <3>1
      DEF Withdraw, TypeInv, TypeOK, Labels, Stages, Starting, Shredded
  <2>4. CASE ~LastTry /\ tries' = tries + 1 /\ UNCHANGED <<fs, pc, quarantine, passes, faults>>
    BY <2>4, ShredAssumption DEF LastTry, TypeInv, TypeOK, FileSystemTypeOK, Stages
  <2> QED
    BY <2>1, <2>3, <2>4
<1>5. CASE Overwrite \/ SyncPass
  <2>1. files' \in [Inodes -> [data : Data, stable : Data]]
    BY <1>5
    DEF Overwrite, WriteFile, SyncPass, SyncFile, TypeInv, TypeOK, FileSystemTypeOK, Data
  <2> QED
    BY <1>5, <2>1
    DEF Overwrite, WriteFile, SyncPass, SyncFile, TypeInv, TypeOK, FileSystemTypeOK, Labels,
        Stages, Starting, Shredded
<1>6. CASE Remove
  <2>1. FileSystemTypeOK'
    BY <1>6, UnlinkType DEF Remove, TypeInv, TypeOK, FileSystemTypeOK, Stages, Names
  <2> QED
    BY <1>6, <2>1 DEF Remove, TypeInv, TypeOK, Labels, Stages, Starting, Shredded
<1>7. CASE SyncRemoval
  BY <1>7
  DEF SyncRemoval, SyncDirectory, TypeInv, TypeOK, FileSystemTypeOK, Labels, Stages, Starting,
      Shredded
<1>8. CASE Restore
  <2>1. FileSystemTypeOK'
    BY <1>8, ShredAssumption, RenameType
    DEF Restore, TypeInv, TypeOK, FileSystemTypeOK, Stages, Names
  <2> QED
    BY <1>8, <2>1 DEF Restore, TypeInv, TypeOK, Labels, Stages, Starting, Shredded
<1>9. CASE IoError
  BY <1>9, UnwindType, ShredAssumption DEF IoError, TypeInv, TypeOK
<1>10. CASE IgnoredError
  BY <1>10, ShredAssumption
  DEF IgnoredError, TypeInv, TypeOK, FileSystemTypeOK, Labels, Stages, Starting, Shredded
<1> QED
  BY <1>1, <1>2, <1>3, <1>4, <1>5, <1>6, <1>7, <1>8, <1>9, <1>10 DEF Step

LEMMA TypeInvariant == Spec => []TypeInv
<1>1. TypeInv /\ [Next]_vars => TypeInv'
  <2> SUFFICES ASSUME TypeInv, [Next]_vars PROVE TypeInv'
    OBVIOUS
  <2>1. CASE Others
    BY <2>1, OthersType DEF Others, local, TypeInv, TypeOK, Stages
  <2>2. CASE Crash
    BY <2>2, PowerLossType
    DEF Crash, Goto, TypeInv, TypeOK, Labels, Stages, Starting, Shredded
  <2>3. CASE UNCHANGED vars
    BY <2>3 DEF vars, fs, local, TypeInv, TypeOK, FileSystemTypeOK, Stages
  <2> QED
    BY <2>1, <2>2, <2>3, StepType DEF Next, Over
<1> QED
  BY <1>1, InitType, PTL DEF Spec

\* Every state is well typed; in particular no run overwrites a fourth time and no
\* loop over temporary names goes past its bound.
THEOREM ShredTypeCorrect == Spec => []TypeOK
<1>1. TypeInv => TypeOK
  BY DEF TypeInv
<1> QED
  BY <1>1, TypeInvariant, PTL

-------------------------------------------------------------------------------
(* What is overwritten. The handle pins the file, the temporary name is    *)
(* out of the others' reach, and a file with no other name gets none.      *)

victim == open[Shredding]

\* A file is held, and from the comparison on it is the one the caller read.
Matched ==
    /\ pc = "match" => victim # None
    /\ pc \in {"withdraw", "reopen", "links"} \cup Shredded
        => victim = open[Expected] /\ victim # None

\* It is under the quarantine, and from the count on under no other name.
Quarantined == pc \in {"links"} \cup Shredded => dir[quarantine] = victim

SoleName ==
    pc \in Shredded => \A n \in Names : dir[n] = victim => n = quarantine

SoleInv == Matched /\ Quarantined /\ SoleName

\* A count of one leaves the one name.
LEMMA OneLink ==
    ASSUME NEW i, NEW n \in Names, dir[n] = i, LinkCount(i) = 1
    PROVE  \A m \in Names : dir[m] = i => m = n
<1>1. IsFiniteSet({m \in Names : dir[m] = i})
  BY FS_Subset, NamesAssumption
<1>2. PICK x : {m \in Names : dir[m] = i} = {x}
  BY <1>1, FS_Singleton DEF LinkCount
<1> QED
  BY <1>2

LEMMA SoleStep ==
    ASSUME TypeInv, SoleInv, Step
    PROVE  SoleInv'
<1> USE DEF Goto, fs, SoleInv, Matched, Quarantined, SoleName, Shredded, victim
<1>1. CASE Refuse
  BY <1>1 DEF Refuse, Unwind
<1>2. CASE (Stat \/ Reopen \/ Confirm) /\ ~Refuse
  BY <1>2 DEF Stat, Reopen, Confirm
<1>3. CASE Match /\ ~Refuse
  BY <1>3 DEF Match
<1>4. CASE Open /\ ~Refuse
  BY <1>4, ShredAssumption
  DEF Open, OpenNoFollow, Hold, IsRegular, Present, TypeInv, TypeOK, FileSystemTypeOK
<1>5. CASE Withdraw /\ ~Refuse
  BY <1>5 DEF Withdraw
<1>6. CASE CountLinks /\ ~Refuse
  <2>1. /\ pc = "links" /\ pc' = "overwrite" /\ LinkCount(victim) = 1
        /\ UNCHANGED <<dir, open, quarantine>>
    BY <1>6 DEF CountLinks
  <2>2. quarantine \in Names /\ dir[quarantine] = victim
    BY <2>1 DEF TypeInv, TypeOK, Stages, Names
  <2> QED
    BY <2>1, <2>2, OneLink
<1>7. CASE Overwrite \/ SyncPass
  BY <1>7 DEF Overwrite, WriteFile, SyncPass, SyncFile
<1>8. CASE Remove \/ SyncRemoval \/ Restore
  BY <1>8 DEF Remove, SyncRemoval, Restore
<1>9. CASE IoError \/ IgnoredError
  BY <1>9 DEF IoError, IgnoredError, Unwind
<1> QED
  BY <1>1, <1>2, <1>3, <1>4, <1>5, <1>6, <1>7, <1>8, <1>9 DEF Step

LEMMA SoleOthers ==
    ASSUME TypeInv, SoleInv, OthersNext, UNCHANGED local
    PROVE  SoleInv'
<1>1. /\ open' = open
      /\ \A n \in TempNames : dir'[n] = dir[n]
      /\ \A n \in UserNames :
           \/ dir'[n] = None
           \/ \E m \in UserNames : dir'[n] = dir[m]
           \/ Free(dir'[n])
  BY OthersReach DEF TypeInv, TypeOK
<1>2. /\ Matched' /\ Quarantined'
  BY <1>1 DEF SoleInv, Matched, Quarantined, victim, local, TypeInv, TypeOK, Stages
<1>3. ~Free(victim)
  BY InUse, ShredAssumption DEF victim
<1>4. SoleName'
  <2> SUFFICES ASSUME pc \in Shredded, NEW n \in Names, dir'[n] = victim
               PROVE  n = quarantine
    BY <1>1 DEF SoleName, victim, local
  <2>1. CASE n \in TempNames
    BY <1>1, <2>1 DEF SoleInv, SoleName
  <2>2. CASE n \in UserNames
    <3>1. PICK m \in UserNames : dir'[n] = dir[m]
      BY <1>1, <1>3, <2>2 DEF SoleInv, Matched
    <3>2. m = quarantine
      BY <3>1 DEF SoleInv, SoleName, Names
    <3> QED
      BY <3>1, <3>2, NamesAssumption DEF TypeInv, TypeOK, Stages, Names
  <2> QED
    BY <2>1, <2>2 DEF Names
<1> QED
  BY <1>2, <1>4 DEF SoleInv

\* Noise on the medium is noise in the file: no power cut brings it about.
NoiseWritten == \A i \in Inodes : files[i].stable = "noise" => files[i].data = "noise"

LEMMA NoiseStep ==
    ASSUME TypeInv, NoiseWritten, SoleInv, Next
    PROVE  /\ NoiseWritten'
           /\ \A i \in Inodes : files'[i].data = "noise" =>
                files[i].data = "noise" \/ (pc = "overwrite" /\ i = victim)
<1>1. CASE files' = files
  BY <1>1 DEF NoiseWritten
<1>2. CASE Overwrite \/ SyncPass
  BY <1>2
  DEF Overwrite, WriteFile, SyncPass, SyncFile, NoiseWritten, victim, TypeInv, TypeOK, FileSystemTypeOK
<1>3. CASE Others
  <2> SUFFICES ASSUME NEW i \in Inodes
               PROVE  /\ (files[i].stable = "noise" => files[i].data = "noise")'
                      /\ files'[i].data = "noise" => files[i].data = "noise"
    BY DEF NoiseWritten
  <2>1. files'[i] = files[i] \/ New(i)
    BY <1>3, OthersReach DEF Others, TypeInv, TypeOK
  <2>2. CASE New(i)
    BY <2>2, NamesAssumption DEF New
  <2> QED
    BY <2>1, <2>2 DEF NoiseWritten
<1>4. CASE Crash
  BY <1>4 DEF Crash, PowerLoss, NoiseWritten
<1> QED
  BY <1>1, <1>2, <1>3, <1>4
  DEF Next, Step, Over, vars, fs, Stat, Open, Match, Withdraw, Reopen, CountLinks, Confirm,
      Remove, SyncRemoval, Restore, IoError, IgnoredError, RenameNoReplace, Unlink,
      SyncDirectory, Refuse

ShredInv == TypeInv /\ SoleInv /\ NoiseWritten

LEMMA ShredInvariant == Spec => []ShredInv
<1>1. Init => SoleInv /\ NoiseWritten
  <2> SUFFICES ASSUME Init PROVE SoleInv /\ NoiseWritten
    OBVIOUS
  <2>1. SoleInv
    BY DEF Init, LocalInit, SoleInv, Matched, Quarantined, SoleName, Shredded
  <2>2. \A i \in Inodes : files[i].stable = files[i].data
    BY DEF Init, FilesInit
  <2> QED
    BY <2>1, <2>2 DEF NoiseWritten
<1>2. ShredInv /\ [Next]_vars => SoleInv' /\ NoiseWritten'
  <2> SUFFICES ASSUME ShredInv, [Next]_vars PROVE SoleInv' /\ NoiseWritten'
    OBVIOUS
  <2>1. CASE Crash
    BY <2>1, NoiseStep
    DEF ShredInv, Next, Crash, Goto, SoleInv, Matched, Quarantined, SoleName, Shredded
  <2>2. CASE UNCHANGED vars
    BY <2>2
    DEF vars, fs, local, ShredInv, SoleInv, Matched, Quarantined, SoleName, victim, NoiseWritten
  <2> QED
    BY <2>1, <2>2, NoiseStep, SoleStep, SoleOthers DEF ShredInv, Next, Others, Over
<1> QED
  BY <1>1, <1>2, TypeInvariant, PTL DEF Spec, ShredInv

\* Only the file the caller has read is ever overwritten, and only while the
\* quarantine is its one name.
THEOREM SoleNameOnly == Spec => SoleNameOverwritten
<1>1. ShredInv /\ [Next]_vars =>
        [\A i \in Inodes : files'[i].data = "noise" =>
            \/ files[i].data = "noise"
            \/ i = open[Expected] /\ {n \in Names : dir[n] = i} = {quarantine}]_vars
  <2> SUFFICES ASSUME ShredInv, Next, NEW i \in Inodes, files'[i].data = "noise",
                      files[i].data # "noise"
               PROVE  i = open[Expected] /\ {n \in Names : dir[n] = i} = {quarantine}
    OBVIOUS
  <2>1. pc = "overwrite" /\ i = victim
    BY NoiseStep DEF ShredInv
  <2>2. quarantine \in Names
    BY <2>1 DEF ShredInv, TypeInv, TypeOK, Stages, Shredded, Names
  <2> QED
    BY <2>1, <2>2 DEF ShredInv, SoleInv, Matched, Quarantined, SoleName, Shredded
<1> QED
  BY <1>1, ShredInvariant, PTL DEF Spec, SoleNameOverwritten

-------------------------------------------------------------------------------
(* What is lost. A power cut may leave any image, so it is said of all of  *)
(* them where the quarantined file is, and that every other content of the *)
(* user is kept in each.                                                   *)

Dirty == victim # None /\ files[victim].data = "noise"

\* Before the withdrawal nothing is unsynced.
OneImage == dir \in images /\ (quarantine = None => images = {dir})

\* Then each image has the quarantined file in its old place or aside.
Moved ==
    quarantine # None /\ Present(quarantine) => \A image \in images :
        /\ image[quarantine] \in {None, dir[quarantine]}
        /\ dir[Source] = None => image[Source] \in {None, dir[quarantine]}
        /\ dir[quarantine] \in {image[quarantine], image[Source]}

\* The program writes to one file, and only noise.
OneWritten ==
    \A i \in Inodes :
        /\ files[i].data = "noise" => i = victim
        /\ files[i].data = "noise" \/ files[i].stable = files[i].data

\* How far the overwriting is, and that the file is still there until it ends.
Overwritten ==
    /\ pc \in Starting \cup {"reopen", "links"} => ~Dirty
    /\ pc = "sync" \/ passes > 0 => Dirty
    /\ Dirty => quarantine # None
    /\ Dirty /\ passes > 0 => files[victim].stable = "noise"
    /\ Dirty /\ passes = 0 /\ pc \notin Ended => dir[quarantine] = victim

KeptAll == \A image \in images : \A d \in born \ discarded : Kept(image, d)

KeptBut(c) == \A image \in images : \A d \in (born \ discarded) \ {c} : Kept(image, d)

\* Once overwriting has begun one content may be lost. Before the first sync the
\* medium has it still.
KeptRest ==
    IF Dirty THEN \E c \in Data : KeptBut(c) /\ (passes = 0 => files[victim].stable = c)
    ELSE KeptAll

Alive == OneWritten /\ Overwritten /\ KeptRest

LossInv ==
    /\ OneImage /\ Moved
    /\ pc # "crashed" => Alive
    /\ pc = "crashed" => OnlySourceLost

\* The victim is a file in use.
LEMMA VictimType ==
    ASSUME TypeInv
    PROVE  victim \in Inodes \cup {None} /\ (victim # None => ~Free(victim))
BY InUse, ShredAssumption DEF victim, TypeInv, TypeOK, FileSystemTypeOK

\* Where the images are: every step.
LEMMA PlaceStep ==
    ASSUME TypeInv, OneImage, Moved, Next
    PROVE  OneImage' /\ Moved'
<1> USE DEF OneImage, Moved, Goto, fs
<1>1. CASE UNCHANGED <<dir, images, quarantine>>
  BY <1>1 DEF Present
<1>2. CASE images' = {dir'}
  BY <1>2 DEF Present
<1>3. ASSUME NEW t \in TempNames, RenameNoReplace(Source, t), quarantine' = t, pc = "withdraw"
      PROVE  OneImage' /\ Moved'
  <2>1. /\ Source \in Names /\ t \in Names /\ Source # t /\ t # None
        /\ quarantine = None /\ images = {dir}
    BY <1>3, ShredAssumption, NamesAssumption DEF TypeInv, Stages, Starting, Names
  <2>2. /\ dir[t] = None /\ dir'[t] = dir[Source] /\ dir'[Source] = None
        /\ \A image \in images' \ images : image[t] = dir[Source] /\ image[Source] = None
    BY <1>3, <2>1, Renamed DEF TypeInv, TypeOK
  <2>3. dir' \in images'
    BY <1>3, <2>1 DEF RenameNoReplace, Journal
  <2> QED
    BY <1>3, <2>1, <2>2, <2>3 DEF Present
<1>4. CASE Restore /\ RenameNoReplace(quarantine, Source)
  <2>1. quarantine \in Names /\ Source \in Names /\ quarantine # Source /\ quarantine # None
        /\ quarantine' = quarantine
    BY <1>4, ShredAssumption, NamesAssumption DEF Restore, TypeInv, TypeOK, Stages, Names
  <2>2. dir'[quarantine] = None
    BY <1>4, <2>1, Renamed DEF TypeInv, TypeOK
  <2>3. dir' \in images'
    BY <1>4 DEF RenameNoReplace, Journal
  <2> QED
    BY <2>1, <2>2, <2>3 DEF Present
<1>5. CASE Remove
  <2>1. quarantine \in Names /\ quarantine # None /\ quarantine' = quarantine
    BY <1>5 DEF Remove, TypeInv, TypeOK, Stages, Names
  <2>2. dir'[quarantine] = None /\ dir' \in images'
    BY <1>5, <2>1, Unlinked DEF Remove, Unlink, Journal
  <2> QED
    BY <2>1, <2>2 DEF Present
<1>6. CASE Others
  BY <1>2, <1>6, OthersReach DEF Others, TypeInv, TypeOK
<1>7. CASE SyncRemoval \/ Crash
  BY <1>2, <1>7 DEF SyncRemoval, SyncDirectory, Crash, PowerLoss
<1> QED
  BY <1>1, <1>3, <1>4, <1>5, <1>6, <1>7
  DEF Next, Step, Over, vars, local, Stat, Open, Match, Withdraw, Reopen, CountLinks, Overwrite,
      WriteFile, SyncPass, SyncFile, Confirm, Restore, IoError, IgnoredError, Refuse, Unwind

\* What the overwriting has done: every step of the program, and of the others.
LEMMA OverwriteStep ==
    ASSUME TypeInv, SoleInv, OneWritten, Overwritten, Step
    PROVE  OneWritten' /\ Overwritten'
<1> USE DEF Goto, fs
<1>1. CASE UNCHANGED <<dir, files, open, quarantine, passes>>
           /\ (pc' \in Starting \cup {"reopen", "links"} => pc \in Starting \cup {"reopen", "links"})
           /\ pc' # "sync" /\ pc \notin Ended
  BY <1>1 DEF OneWritten, Overwritten, Dirty, victim, Ended
<1>2. CASE Open /\ ~Refuse
  <2>1. /\ pc = "open" /\ pc' = "match"
        /\ UNCHANGED <<files, quarantine, passes>>
        /\ open'[Shredding] \in Inodes
    BY <1>2, ShredAssumption
    DEF Open, OpenNoFollow, Hold, IsRegular, Present, TypeInv, TypeOK, FileSystemTypeOK,
        Directories, Names
  <2>2. \A i \in Inodes : files[i].data # "noise"
    BY <2>1, NamesAssumption DEF OneWritten, Overwritten, Dirty, Starting, Names
  <2> QED
    BY <2>1, <2>2
    DEF OneWritten, Overwritten, Dirty, victim, TypeInv, Stages, Starting
<1>3. CASE Withdraw /\ ~Refuse /\ ~ UNCHANGED <<fs, pc, quarantine, passes, faults>>
  <2>1. /\ pc = "withdraw" /\ pc' = "reopen" /\ UNCHANGED <<files, open, passes>>
    BY <1>3 DEF Withdraw, RenameNoReplace
  <2> QED
    BY <2>1
    DEF OneWritten, Overwritten, Dirty, victim, TypeInv, Stages, Starting
<1>4. CASE Overwrite
  <2>1. /\ pc = "overwrite" /\ pc' = "sync" /\ UNCHANGED <<dir, open, quarantine, passes>>
        /\ victim \in Inodes /\ victim # None /\ dir[quarantine] = victim
        /\ quarantine # None
    BY <1>4, VictimType
    DEF Overwrite, WriteFile, SoleInv, Matched, Quarantined, Shredded, TypeInv, Stages
  <2>2. /\ files'[victim].data = "noise" /\ files'[victim].stable = files[victim].stable
        /\ \A i \in Inodes \ {victim} : files'[i] = files[i]
    BY <1>4, <2>1 DEF Overwrite, WriteFile, victim, TypeInv, TypeOK, FileSystemTypeOK
  <2> QED
    BY <2>1, <2>2
    DEF OneWritten, Overwritten, Dirty, victim, Starting, TypeInv, TypeOK
<1>5. CASE SyncPass
  <2>1. /\ pc = "sync" /\ pc' \in {"overwrite", "confirm"} /\ passes' = passes + 1
        /\ UNCHANGED <<dir, open, quarantine>>
        /\ victim \in Inodes /\ victim # None /\ files[victim].data = "noise"
    BY <1>5, VictimType
    DEF SyncPass, SyncFile, SoleInv, Matched, Shredded, Overwritten, Dirty
  <2>2. /\ files'[victim].data = "noise" /\ files'[victim].stable = "noise"
        /\ \A i \in Inodes \ {victim} : files'[i] = files[i]
    BY <1>5, <2>1 DEF SyncPass, SyncFile, victim, TypeInv, TypeOK, FileSystemTypeOK
  <2>3. passes' > 0
    BY <2>1 DEF TypeInv, TypeOK
  <2> QED
    BY <2>1, <2>2, <2>3 DEF OneWritten, Overwritten, Dirty, victim, Starting
<1>6. CASE Remove \/ SyncRemoval \/ Restore
  <2>1. /\ UNCHANGED <<files, open, quarantine, passes>>
        /\ pc' \in {"syncremoval", "done", "failed"}
        /\ pc' = "syncremoval" => passes > 0
    BY <1>6
    DEF Remove, Unlink, SyncRemoval, SyncDirectory, Restore, RenameNoReplace, TypeInv, Stages
  <2> QED
    BY <2>1 DEF OneWritten, Overwritten, Dirty, victim, Starting, Ended, TypeInv, TypeOK
<1> QED
  BY <1>1, <1>2, <1>3, <1>4, <1>5, <1>6
  DEF Step, Ended, Starting, Stat, Open, Match, Withdraw, Reopen, CountLinks, Confirm, IoError,
      IgnoredError, Refuse, Unwind

LEMMA OverwriteOthers ==
    ASSUME TypeInv, OneWritten, Overwritten, OthersNext, UNCHANGED local
    PROVE  /\ OneWritten' /\ Overwritten' /\ UNCHANGED victim
           /\ victim # None => files'[victim] = files[victim]
<1>1. /\ open' = open
      /\ \A n \in TempNames : dir'[n] = dir[n]
      /\ \A i \in Inodes : ~Free(i) => files'[i] = files[i]
      /\ \A i \in Inodes : files'[i] = files[i] \/ New(i)
  BY OthersReach DEF TypeInv, TypeOK
<1>2. UNCHANGED victim /\ (victim # None => files'[victim] = files[victim])
  BY <1>1, VictimType DEF victim
<1>3. OneWritten'
  <2> SUFFICES ASSUME NEW i \in Inodes
               PROVE  (/\ files[i].data = "noise" => i = victim
                       /\ files[i].data = "noise" \/ files[i].stable = files[i].data)'
    BY DEF OneWritten
  <2>1. CASE New(i)
    BY <2>1, NamesAssumption DEF New
  <2> QED
    BY <1>1, <1>2, <2>1 DEF OneWritten
<1>4. Overwritten'
  BY <1>1, <1>2 DEF Overwritten, Dirty, local, TypeInv, TypeOK, Stages
<1> QED
  BY <1>2, <1>3, <1>4

\* No step of the program takes a content from an image but the one it overwrites.
LEMMA StepKeeps ==
    ASSUME TypeInv, SoleInv, OneImage, Moved, Overwritten, Step, NEW d, d # "noise",
           pc = "overwrite" => files[victim].data # d,
           \A image \in images : Kept(image, d)
    PROVE  \A image \in images' : Kept(image, d)'
<1> USE DEF Goto, fs
<1>1. CASE UNCHANGED <<images, files>>
  BY <1>1 DEF Kept
<1>2. ASSUME NEW t \in TempNames, RenameNoReplace(Source, t), pc = "withdraw"
      PROVE  \A image \in images' : Kept(image, d)'
  <2>1. /\ Source \in Names /\ t \in Names /\ Source # t
        /\ quarantine = None /\ images = {dir}
    BY <1>2, ShredAssumption, NamesAssumption DEF OneImage, TypeInv, Stages, Starting, Names
  <2>2. /\ dir[Source] # None /\ dir[t] = None /\ files' = files
        /\ \A image \in images' \ images : \E old \in images : image = Edited(old, Renaming(Source, t))
    BY <1>2, <2>1, Renamed DEF TypeInv, TypeOK
  <2>3. ASSUME NEW old \in images
        PROVE  Kept(Edited(old, Renaming(Source, t)), d)
    BY <2>1, <2>2, RenameKept DEF TypeInv, TypeOK, Present
  <2> QED
    BY <2>2, <2>3 DEF Kept
<1>3. CASE Restore /\ RenameNoReplace(quarantine, Source)
  <2>1. quarantine \in Names /\ Source \in Names /\ quarantine # Source /\ quarantine # None
    BY <1>3, ShredAssumption, NamesAssumption DEF Restore, TypeInv, TypeOK, Stages, Names
  <2>2. /\ dir[quarantine] # None /\ dir[Source] = None /\ files' = files
        /\ \A image \in images' \ images :
             \E old \in images : image = Edited(old, Renaming(quarantine, Source))
    BY <1>3, <2>1, Renamed DEF TypeInv, TypeOK
  <2>3. ASSUME NEW old \in images
        PROVE  Kept(Edited(old, Renaming(quarantine, Source)), d)
    BY <2>1, <2>2, RenameKept DEF Moved, TypeInv, TypeOK, Present
  <2> QED
    BY <2>2, <2>3 DEF Kept
<1>4. CASE Remove
  <2>1. quarantine \in Names /\ quarantine # None /\ passes > 0
    BY <1>4 DEF Remove, TypeInv, TypeOK, Stages, Names
  <2>2. dir[quarantine] = victim /\ files[victim].data = "noise"
    BY <1>4, <2>1 DEF Remove, SoleInv, Quarantined, Shredded, Overwritten, Dirty
  <2>3. /\ dir[quarantine] # None /\ files' = files
        /\ \A image \in images' \ images :
             \E old \in images : image = Edited(old, [m \in {quarantine} |-> None])
    BY <1>4, <2>1, Unlinked DEF Remove
  <2>4. ASSUME NEW old \in images
        PROVE  Kept(Edited(old, [m \in {quarantine} |-> None]), d)
    BY <2>1, <2>2, <2>3, UnlinkKept DEF Moved, Present
  <2> QED
    BY <2>3, <2>4 DEF Kept
<1>5. CASE SyncRemoval
  BY <1>5 DEF SyncRemoval, SyncDirectory, OneImage, Kept
<1>6. CASE Overwrite \/ SyncPass
  <2>1. /\ images' = images /\ \A i \in Inodes \ {victim} : files'[i] = files[i]
        /\ files[victim].data # d
    BY <1>6
    DEF Overwrite, WriteFile, SyncPass, SyncFile, victim, TypeInv, TypeOK, FileSystemTypeOK,
        Overwritten, Dirty
  <2>2. \A image \in images : \A n \in Names :
          image[n] # None /\ image[n] # victim => files'[image[n]] = files[image[n]]
    BY <2>1 DEF TypeInv, TypeOK, FileSystemTypeOK, Directories
  <2> QED
    BY <2>1, <2>2, WriteKept
<1> QED
  BY <1>1, <1>2, <1>3, <1>4, <1>5, <1>6
  DEF Step, Stat, Open, Match, Withdraw, Reopen, CountLinks, Confirm, Restore, IoError,
      IgnoredError, Refuse, Unwind

\* Nor do the others, but for what they discard.
LEMMA OthersKeeps ==
    ASSUME TypeInv, OneImage, OneWritten, OthersNext, NEW d, d # "noise",
           \A image \in images : Kept(image, d), d \notin discarded'
    PROVE  \A image \in images' : Kept(image, d)'
<1>1. Synced(d)
  BY NamesAssumption
  DEF OneWritten, Synced, Present, TypeInv, TypeOK, FileSystemTypeOK, Directories
<1>2. Kept(dir, d)'
  BY <1>1, OthersKeep DEF OneImage, TypeInv, TypeOK
<1> QED
  BY <1>2, OthersReach DEF TypeInv, TypeOK

LEMMA RestStep ==
    ASSUME TypeInv, SoleInv, OneImage, Moved, Alive, Step, Overwritten'
    PROVE  KeptRest'
<1>1. UNCHANGED <<born, discarded>> /\ (Open \/ UNCHANGED open)
  BY DEF Step, Refuse, Unwind, Goto, fs, Stat, Open, Match, Withdraw, Reopen, CountLinks, Overwrite,
         WriteFile, SyncPass, SyncFile, Confirm, Remove, Unlink, SyncRemoval, SyncDirectory,
         Restore, RenameNoReplace, IoError, IgnoredError
<1>2. \A d \in born \ discarded : d # "noise" /\ d \in UserData
  BY NamesAssumption DEF TypeInv, TypeOK, FileSystemTypeOK
<1>3. victim \in Inodes \cup {None}
  BY VictimType
<1>4. CASE pc # "overwrite" /\ ~Dirty
  <2>1. ~Dirty'
    <3>1. CASE Open
      <4>1. ~Dirty' \/ Refuse
        BY <3>1 DEF Open, Goto, Overwritten, Starting
      <4> QED
        BY <1>4, <3>1, <4>1 DEF Dirty, victim, Open, Refuse, Unwind
    <3>2. CASE files' = files /\ UNCHANGED open
      BY <1>4, <3>2 DEF Dirty, victim
    <3> QED
      BY <1>1, <1>4, <3>1, <3>2
      DEF Alive, Overwritten, Step, Refuse, Unwind, fs, Stat, Open, Match, Withdraw, Reopen,
          CountLinks, Overwrite, SyncPass, Confirm, Remove, Unlink, SyncRemoval, SyncDirectory,
          Restore, RenameNoReplace, IoError, IgnoredError
  <2>2. KeptAll'
    BY <1>1, <1>2, <1>4, StepKeeps DEF KeptAll, Alive, KeptRest
  <2> QED
    BY <2>1, <2>2 DEF KeptRest
<1>5. CASE Dirty
  <2>1. PICK c \in Data : KeptBut(c) /\ (passes = 0 => files[victim].stable = c)
    BY <1>5 DEF Alive, KeptRest
  <2>2. KeptBut(c)'
    BY <1>1, <1>2, <1>5, <2>1, StepKeeps DEF KeptBut, Alive, Dirty
  <2>3. UNCHANGED victim
    BY <1>1, <1>5 DEF victim, Open, Alive, Overwritten, Starting
  <2>4. passes' = 0 => passes = 0 /\ ~SyncPass
    <3>1. SyncPass => passes' > 0
      BY DEF SyncPass, TypeInv, TypeOK
    <3>2. ~SyncPass => passes' = passes
      BY DEF Step, Refuse, Unwind, Stat, Open, Match, Withdraw, Reopen, CountLinks, Overwrite,
             Confirm, Remove, SyncRemoval, Restore, IoError, IgnoredError
    <3> QED
      BY <3>1, <3>2
  <2>5. ~SyncPass => files'[victim].stable = files[victim].stable
    BY <1>3, <1>5
    DEF Dirty, Step, Refuse, Unwind, fs, Stat, Open, Match, Withdraw, Reopen, CountLinks,
        Overwrite, WriteFile, Confirm, Remove, Unlink, SyncRemoval, SyncDirectory, Restore,
        RenameNoReplace, IoError, IgnoredError, victim, TypeInv, TypeOK, FileSystemTypeOK
  <2>6. Dirty'
    BY <1>3, <1>5, <2>3
    DEF Dirty, Step, Refuse, Unwind, Goto, fs, Stat, Open, Match, Withdraw, Reopen, CountLinks,
        Overwrite, WriteFile, SyncPass, SyncFile, Confirm, Remove, Unlink, SyncRemoval,
        SyncDirectory, Restore,
        RenameNoReplace, IoError, IgnoredError, victim, TypeInv, TypeOK, FileSystemTypeOK
  <2> QED
    BY <2>1, <2>2, <2>3, <2>4, <2>5, <2>6 DEF KeptRest
<1>6. CASE pc = "overwrite" /\ ~Dirty
  <2>1. victim \in Inodes /\ victim # None
    BY <1>3, <1>6 DEF SoleInv, Matched, Shredded
  <2>2. CASE Overwrite
    <3>1. PICK c \in Data : files[victim].data = c /\ files[victim].stable = c
      BY <1>6, <2>1 DEF Alive, OneWritten, Dirty, TypeInv, TypeOK, FileSystemTypeOK
    <3>2. KeptBut(c)'
      BY <1>1, <1>2, <1>6, <3>1, StepKeeps DEF KeptAll, KeptBut, Alive, KeptRest
    <3>3. Dirty' /\ victim' = victim /\ files'[victim].stable = c
      BY <2>1, <2>2, <3>1
      DEF Dirty, Overwrite, WriteFile, victim, TypeInv, TypeOK, FileSystemTypeOK
    <3> QED
      BY <3>2, <3>3 DEF KeptRest, KeptBut
  <2>3. CASE IoError
    BY <1>6, <2>3
    DEF IoError, Unwind, Alive, KeptRest, KeptAll, Kept, Dirty, victim
  <2> QED
    BY <1>6, <2>2, <2>3
    DEF Step, Stat, Open, Match, Withdraw, Reopen, CountLinks, SyncPass, Confirm, Remove,
        SyncRemoval, Restore, IgnoredError
<1> QED
  BY <1>4, <1>5, <1>6

LEMMA RestOthers ==
    ASSUME TypeInv, OneImage, Alive, OthersNext, UNCHANGED local
    PROVE  KeptRest'
<1>1. discarded \subseteq discarded' /\ images' = {dir'}
  BY OthersReach DEF TypeInv, TypeOK
<1>2. UNCHANGED victim /\ (victim # None => files'[victim] = files[victim]) /\ passes' = passes
  BY OverwriteOthers DEF Alive, local
<1>3. ASSUME NEW d \in born' \ discarded',
             d \in born \ discarded => \A image \in images : Kept(image, d)
      PROVE  \A image \in images' : Kept(image, d)'
  <2>1. CASE d \in born
    BY <1>1, <1>3, <2>1, OthersKeeps, NamesAssumption DEF Alive, TypeInv, TypeOK, FileSystemTypeOK
  <2>2. CASE d \notin born
    BY <1>1, <2>2, OthersBorn DEF TypeInv, TypeOK
  <2> QED
    BY <2>1, <2>2
<1>4. CASE ~Dirty
  <2>1. ~Dirty' /\ KeptAll'
    BY <1>2, <1>3, <1>4 DEF Dirty, KeptAll, Alive, KeptRest
  <2> QED
    BY <2>1 DEF KeptRest
<1>5. CASE Dirty
  <2>1. PICK c \in Data : KeptBut(c) /\ (passes = 0 => files[victim].stable = c)
    BY <1>5 DEF Alive, KeptRest
  <2>2. KeptBut(c)'
    BY <1>3, <2>1 DEF KeptBut
  <2>3. Dirty'
    BY <1>2, <1>5 DEF Dirty
  <2> QED
    BY <1>2, <2>1, <2>2, <2>3 DEF KeptRest, KeptBut, Dirty
<1> QED
  BY <1>4, <1>5

Lost == {d \in born \ discarded : ~Linked(d)}

\* At most one content, and that one only if something is overwritten.
LEMMA LostAtMost ==
    ASSUME Lost = {} \/ \E c : Lost \subseteq {c},
           Lost # {} => \E i \in Inodes : files[i].data = "noise"
    PROVE  OnlySourceLost
<1>1. CASE Lost = {}
  <2>1. Cardinality(Lost) = 0
    BY <1>1, FS_EmptySet
  <2> QED
    BY <2>1 DEF OnlySourceLost, Lost
<1>2. CASE Lost # {}
  <2>1. PICK c : Lost = {c}
    BY <1>2
  <2>2. Cardinality(Lost) = 1
    BY <2>1, FS_Singleton
  <2> QED
    BY <1>2, <2>2 DEF OnlySourceLost, Lost
<1> QED
  BY <1>1, <1>2

LEMMA AliveLost ==
    ASSUME TypeInv, OneImage, Alive
    PROVE  OnlySourceLost
<1>1. \A d : Kept(dir, d) => Linked(d)
  BY KeptIsLinked
<1>2. CASE ~Dirty
  BY <1>1, <1>2, LostAtMost DEF OneImage, Alive, KeptRest, KeptAll, Lost
<1>3. CASE Dirty
  <2>1. \E i \in Inodes : files[i].data = "noise"
    BY <1>3, VictimType DEF Dirty
  <2> QED
    BY <1>1, <1>3, <2>1, LostAtMost DEF OneImage, Alive, KeptRest, KeptBut, Lost
<1> QED
  BY <1>2, <1>3

\* A power cut that undoes the first pass brings the content back with it.
LEMMA CrashLost ==
    ASSUME TypeInv, SoleInv, OneImage, Moved, Alive, pc \notin Ended, Crash
    PROVE  OnlySourceLost'
<1>1. PowerLoss /\ UNCHANGED <<born, discarded>> /\ dir' \in images
  BY DEF Crash, PowerLoss
<1>2. \A d : Kept(dir', d) => Kept(dir, d)'
  BY <1>1, PowerLossKept DEF TypeInv, TypeOK
<1>3. \A d : Kept(dir', d) => Linked(d)'
  BY <1>2 DEF Kept, Linked
<1>4. CASE ~Dirty
  <2>1. Lost' = {}
    BY <1>1, <1>3, <1>4 DEF Alive, KeptRest, KeptAll, Lost
  <2> QED
    BY <2>1, FS_EmptySet DEF Lost, OnlySourceLost
<1>5. CASE Dirty
  <2>1. PICK c \in Data : KeptBut(c) /\ (passes = 0 => files[victim].stable = c)
    BY <1>5 DEF Alive, KeptRest
  <2>2. Lost' \subseteq {c}
    BY <1>1, <1>3, <2>1 DEF KeptBut, Lost
  <2>3. victim \in Inodes /\ victim # None
    BY <1>5, VictimType DEF Dirty
  <2>4. files'[victim].data \in {"noise", files[victim].stable}
    BY <1>1, <1>5, <2>3 DEF PowerLoss, Dirty
  <2>5. CASE files'[victim].data = "noise"
    <3>1. Lost' = {} \/ Lost' = {c}
      BY <2>2
    <3>2. Cardinality(Lost') <= 1
      BY <3>1, FS_EmptySet, FS_Singleton
    <3> QED
      BY <2>3, <2>5, <3>2 DEF Lost, OnlySourceLost
  <2>6. CASE files'[victim].data # "noise"
    <3>1. passes = 0 /\ files'[victim].data = c
      BY <1>5, <2>1, <2>4, <2>6 DEF Alive, Overwritten, TypeInv, TypeOK
    <3>2. dir[quarantine] = victim /\ quarantine # None
      BY <1>5, <3>1 DEF Alive, Overwritten
    <3>3. dir'[quarantine] = victim \/ dir'[Source] = victim
      BY <1>1, <2>3, <3>2 DEF Moved, Present
    <3>4. quarantine \in Names /\ Source \in Names
      BY <3>2, ShredAssumption DEF TypeInv, TypeOK, Names
    <3>5. Linked(c)'
      BY <2>3, <3>1, <3>3, <3>4 DEF Linked
    <3>6. Lost' = {}
      BY <2>2, <3>5 DEF Lost
    <3> QED
      BY <3>6, FS_EmptySet DEF Lost, OnlySourceLost
  <2> QED
    BY <2>5, <2>6
<1> QED
  BY <1>4, <1>5

LEMMA InitLoss == Init => LossInv
<1> SUFFICES ASSUME Init PROVE LossInv
  OBVIOUS
<1>1. /\ pc = "stat" /\ quarantine = None /\ passes = 0 /\ images = {dir}
      /\ dir \in Directories
      /\ born = {d \in UserData : Linked(d)}
  BY DEF Init, LocalInit, FilesInit
<1>2. \A i \in Inodes : files[i] = [data |-> files[i].data, stable |-> files[i].data]
  BY DEF Init, FilesInit
<1>3. \A i \in Inodes : files[i].stable = files[i].data /\ files[i].data # "noise"
  <2>1. PICK c \in [Inodes -> UserData \cup UserNames \cup {"partial"}] :
          files = [k \in Inodes |-> [data |-> c[k], stable |-> c[k]]]
    BY DEF Init, FilesInit
  <2>2. \A d \in UserData \cup UserNames \cup {"partial"} : d # "noise"
    BY NamesAssumption
  <2> QED
    BY <2>1, <2>2
<1>4. ~Dirty
  BY <1>3, InitType, VictimType DEF Dirty
<1>5. KeptAll
  BY <1>1, <1>2 DEF KeptAll, Kept, Linked, Directories
<1> QED
  BY <1>1, <1>3, <1>4, <1>5
  DEF LossInv, OneImage, Moved, Alive, OneWritten, Overwritten, KeptRest

LEMMA LossInvariant == Spec => [](ShredInv /\ LossInv)
<1>1. ShredInv /\ LossInv /\ [Next]_vars => LossInv'
  <2> SUFFICES ASSUME ShredInv, LossInv, [Next]_vars PROVE LossInv'
    OBVIOUS
  <2> USE DEF ShredInv
  <2>1. CASE UNCHANGED vars
    BY <2>1
    DEF vars, fs, local, LossInv, OneImage, Moved, Alive, OneWritten, Overwritten, KeptRest,
        KeptAll, KeptBut, Kept, Dirty, victim, Present, OnlySourceLost, Linked
  <2>2. CASE Next
    <3>1. OneImage' /\ Moved'
      BY <2>2, PlaceStep DEF LossInv
    <3>2. CASE Step
      <4>1. pc # "crashed" /\ pc' # "crashed"
        BY <3>2
        DEF Step, Stat, Open, Match, Withdraw, Reopen, CountLinks, Overwrite, SyncPass, Confirm,
            Remove, SyncRemoval, Restore, IoError, IgnoredError, Refuse, Unwind, Goto, Ended
      <4>2. Alive'
        BY <3>2, <4>1, OverwriteStep, RestStep DEF LossInv, Alive
      <4> QED
        BY <3>1, <4>1, <4>2 DEF LossInv
    <3>3. CASE Others
      <4>1. pc # "crashed" /\ pc' = pc
        BY <3>3 DEF Others, Ended, local
      <4>2. Alive'
        BY <3>3, <4>1, OverwriteOthers, RestOthers DEF Others, LossInv, Alive
      <4> QED
        BY <3>1, <4>1, <4>2 DEF LossInv
    <3>4. CASE Crash
      <4>1. pc \notin Ended /\ pc' = "crashed"
        BY <3>4 DEF Crash, Goto
      <4> QED
        BY <3>1, <3>4, <4>1, CrashLost DEF LossInv, Ended
    <3> QED
      BY <2>1, <2>2, <3>2, <3>3, <3>4 DEF Next, Over
  <2> QED
    BY <2>1, <2>2
<1> QED
  BY <1>1, InitLoss, ShredInvariant, PTL DEF Spec

\* Whatever others do, whichever call fails and whenever the power goes: no content
\* but that of the one file overwritten is ever lost, and not even that one before
\* the overwriting.
THEOREM SourceOnly == Spec => []OnlySourceLost
<1>1. ShredInv /\ LossInv => OnlySourceLost
  BY AliveLost DEF ShredInv, LossInv
<1> QED
  BY <1>1, LossInvariant, PTL

-------------------------------------------------------------------------------
(* What is put back. Each early return after the withdrawal leads to the   *)
(* restore, and once the file is overwritten only an error leads there:    *)
(* the comparison after the passes cannot fail.                            *)

OnlyErrorsEnd == pc = "restore" /\ passes > 0 => faults > 0

ReturnInv == OnlyErrorsEnd /\ PutBack

LEMMA ConfirmPasses ==
    ASSUME ShredInv, LossInv, pc = "confirm"
    PROVE  ~Refuse \/ ~Confirm
<1>1. passes = 3 /\ quarantine # None
  BY DEF ShredInv, TypeInv, Stages, Shredded
<1>2. victim # None /\ files[victim].data = "noise" /\ dir[quarantine] = victim
  BY <1>1 DEF ShredInv, SoleInv, Quarantined, Shredded, LossInv, Alive, Overwritten, Dirty
<1>3. ~IsLink(quarantine) /\ PathMatches(quarantine, Shredding)
  BY <1>2, NamesAssumption DEF IsLink, PathMatches, Resolve, victim
<1> QED
  BY <1>1, <1>3 DEF Confirm, Refuse, Unwind, Goto

LEMMA StepReturns ==
    ASSUME ShredInv, LossInv, ReturnInv, Step
    PROVE  ReturnInv'
<1> USE DEF Goto
<1>0. passes \in Nat /\ faults \in Nat
  BY ShredAssumption DEF ShredInv, TypeInv, TypeOK
<1>1. CASE Stat \/ Open \/ Match \/ Withdraw \/ Reopen \/ CountLinks
  <2>1. passes' = 0
    BY <1>1
    DEF Stat, Open, Match, Withdraw, Reopen, CountLinks, Refuse, Unwind, ShredInv, TypeInv,
        Stages, Starting
  <2>2. pc' = "failed" => quarantine' = None
    BY <1>1 DEF Stat, Open, Match, Withdraw, Reopen, CountLinks, Refuse, Unwind
  <2> QED
    BY <2>1, <2>2 DEF ReturnInv, OnlyErrorsEnd, PutBack
<1>2. CASE Confirm \/ Overwrite \/ SyncPass \/ Remove \/ SyncRemoval
  <2>1. pc' \notin {"restore", "failed"}
    BY <1>2, ConfirmPasses DEF Confirm, Overwrite, SyncPass, Remove, SyncRemoval
  <2> QED
    BY <2>1 DEF ReturnInv, OnlyErrorsEnd, PutBack
<1>3. CASE Restore
  <2>1. Source \in Names /\ quarantine \in TempNames /\ quarantine \in Names /\ quarantine # Source
    BY <1>3, ShredAssumption, NamesAssumption
    DEF Restore, ShredInv, TypeInv, TypeOK, Stages, Names
  <2>2. CASE RenameNoReplace(quarantine, Source)
    <3>1. dir'[quarantine] = None
      BY <2>1, <2>2, Renamed DEF ShredInv, TypeInv, TypeOK
    <3> QED
      BY <1>3, <3>1 DEF Restore, ReturnInv, OnlyErrorsEnd, PutBack, Present
  <2>3. CASE UNCHANGED dir /\ (Resolve(Source) # None \/ ~CanRename(quarantine, Source))
    <3>1. Present(quarantine) => Present(Source)
      BY <2>3 DEF Resolve, IsLink, Present, CanRename
    <3> QED
      BY <1>3, <2>3, <3>1 DEF Restore, ReturnInv, OnlyErrorsEnd, PutBack, Present
  <2> QED
    BY <1>3, <2>2, <2>3 DEF Restore
<1>4. CASE IoError
  BY <1>0, <1>4 DEF IoError, Unwind, ReturnInv, OnlyErrorsEnd, PutBack
<1>5. CASE IgnoredError
  <2>1. faults' = faults + 1 /\ passes' = passes /\ pc = "restore" /\ pc' = "failed"
    BY <1>5 DEF IgnoredError
  <2>2. ~(faults' <= IF passes' > 0 THEN 1 ELSE 0)
    BY <1>0, <2>1 DEF ReturnInv, OnlyErrorsEnd
  <2> QED
    BY <2>1, <2>2 DEF ReturnInv, OnlyErrorsEnd, PutBack
<1> QED
  BY <1>1, <1>2, <1>3, <1>4, <1>5 DEF Step

\* A deletion that is refused, or fails and can still put things right, leaves the
\* source under its own name, unless somebody else has a file there.
THEOREM SourceReturned == Spec => []PutBack
<1>1. Init => ReturnInv
  BY DEF Init, LocalInit, ReturnInv, OnlyErrorsEnd, PutBack
<1>2. ShredInv /\ LossInv /\ ReturnInv /\ [Next]_vars => ReturnInv'
  <2> SUFFICES ASSUME ShredInv, LossInv, ReturnInv, [Next]_vars PROVE ReturnInv'
    OBVIOUS
  <2>1. CASE Others
    BY <2>1 DEF Others, local, Ended, ReturnInv, OnlyErrorsEnd, PutBack
  <2>2. CASE Crash
    BY <2>2 DEF Crash, Goto, ReturnInv, OnlyErrorsEnd, PutBack
  <2>3. CASE UNCHANGED vars
    BY <2>3 DEF vars, fs, local, ReturnInv, OnlyErrorsEnd, PutBack, Present
  <2> QED
    BY <2>1, <2>2, <2>3, StepReturns DEF Next, Over
<1>3. ReturnInv => PutBack
  BY DEF ReturnInv
<1> QED
  BY <1>1, <1>2, <1>3, LossInvariant, PTL DEF Spec
===============================================================================
