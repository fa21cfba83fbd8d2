---------------------------- MODULE FileSystemProofs ----------------------------
(***************************************************************************)
(* Lemmas about the calls of FileSystem, for every directory: what they    *)
(* keep of its type, what the other processes cannot do, and when a        *)
(* content survives a change in every image a power cut may leave.         *)
(***************************************************************************)
EXTENDS FileSystem, TLAPS

-------------------------------------------------------------------------------
(* Types.                                                                  *)

\* An edit of a directory is a directory.
LEMMA EditedType ==
    ASSUME NEW d \in Directories, NEW edit,
           \A n \in DOMAIN edit : edit[n] \in Inodes \cup {None}
    PROVE  Edited(d, edit) \in Directories
BY DEF Edited, Directories

\* Journal keeps the directory and its images directories.
LEMMA JournalType ==
    ASSUME FileSystemTypeOK, NEW edit, Journal(edit),
           \A n \in DOMAIN edit : edit[n] \in Inodes \cup {None}
    PROVE  dir' \in Directories /\ images' \in SUBSET Directories
<1>1. \A d \in Directories : Edited(d, edit) \in Directories
  BY EditedType
<1> QED
  BY <1>1 DEF Journal, FileSystemTypeOK

\* What was there before the program is well typed.
LEMMA FileSystemInitType ==
    ASSUME FileSystemInit
    PROVE  FileSystemTypeOK
<1>1. files \in [Inodes -> [data : Data, stable : Data]]
  BY DEF FileSystemInit, FilesInit, Data, OutputData
<1> QED
  BY <1>1, NamesAssumption DEF FileSystemInit, FilesInit, FileSystemTypeOK, Directories

\* A chain of links ends at a regular file that is not a temporary one.
LEMMA EndsAmong ==
    ASSUME FileSystemTypeOK, NEW n \in UserNames, NEW m \in Ends(n)
    PROVE  m \in UserNames /\ IsRegular(m)
<1>1. UserNames \in SUBSET Names /\ \A l \in UserNames : IsLink(l) => files[dir[l]].data \in UserNames
  BY DEF Names, IsLink
<1> QED
  BY <1>1 DEF Ends

\* Every name resolves to a file or to none.
LEMMA ResolveType ==
    ASSUME FileSystemTypeOK, NEW n \in Names
    PROVE  Resolve(n) \in Inodes \cup {None}
<1>1. \A m \in Names : dir[m] \in Inodes \cup {None}
  BY DEF FileSystemTypeOK, Directories
<1>2. Ends(n) \subseteq Names
  BY DEF Ends
<1>3. Ends(n) # {} => (CHOOSE m \in Ends(n) : TRUE) \in Ends(n)
  OBVIOUS
<1> QED
  BY <1>1, <1>2, <1>3 DEF Resolve

\* What a user name resolves to has a user name of its own.
LEMMA ResolveNamed ==
    ASSUME FileSystemTypeOK, NEW n \in UserNames, Resolve(n) # None
    PROVE  \E m \in UserNames : Present(m) /\ dir[m] = Resolve(n)
<1>1. CASE ~IsLink(n)
  BY <1>1 DEF Resolve, Present
<1>2. CASE IsLink(n)
  <2>1. Ends(n) # {} /\ Resolve(n) = dir[CHOOSE m \in Ends(n) : TRUE]
    BY <1>2 DEF Resolve
  <2>2. (CHOOSE m \in Ends(n) : TRUE) \in Ends(n)
    BY <2>1
  <2> QED
    BY <2>1, <2>2, EndsAmong DEF IsRegular
<1> QED
  BY <1>1, <1>2

\* The program's own directory changes keep the file system well typed.
LEMMA RenameType ==
    ASSUME FileSystemTypeOK, NEW from \in Names, NEW to \in Names,
           RenameNoReplace(from, to), open' \in [Holders -> Inodes \cup {None}]
    PROVE  FileSystemTypeOK'
<1>1. \A n \in DOMAIN Renaming(from, to) : Renaming(from, to)[n] \in Inodes \cup {None}
  BY DEF Renaming, FileSystemTypeOK, Directories
<1>2. dir' \in Directories /\ images' \in SUBSET Directories
  BY <1>1, JournalType DEF RenameNoReplace
<1> QED
  BY <1>2 DEF RenameNoReplace, FileSystemTypeOK

LEMMA UnlinkType ==
    ASSUME FileSystemTypeOK, NEW n \in Names, Unlink(n),
           open' \in [Holders -> Inodes \cup {None}]
    PROVE  FileSystemTypeOK'
<1>1. dir' \in Directories /\ images' \in SUBSET Directories
  BY JournalType DEF Unlink
<1> QED
  BY <1>1 DEF Unlink, FileSystemTypeOK

LEMMA CreateType ==
    ASSUME FileSystemTypeOK, NEW n \in Names, CreatePrivate(n)
    PROVE  FileSystemTypeOK'
<1>1. dir' \in Directories /\ images' \in SUBSET Directories
  BY JournalType DEF CreatePrivate
<1>2. files' \in [Inodes -> [data : Data, stable : Data]]
  BY DEF CreatePrivate, FileSystemTypeOK, Data, OutputData
<1> QED
  BY <1>1, <1>2 DEF CreatePrivate, FileSystemTypeOK

LEMMA HoldType ==
    ASSUME FileSystemTypeOK, NEW h, NEW i \in Inodes \cup {None}, Hold(h, i)
    PROVE  open' \in [Holders -> Inodes \cup {None}]
BY DEF Hold, FileSystemTypeOK

\* The other processes keep it well typed.
LEMMA OthersType ==
    ASSUME FileSystemTypeOK, OthersNext
    PROVE  FileSystemTypeOK'
<1>1. ASSUME NEW edit, OthersEdit(edit),
             \A n \in DOMAIN edit : edit[n] \in Inodes \cup {None}
      PROVE  /\ dir' \in Directories
             /\ images' \in SUBSET Directories
             /\ discarded' \in SUBSET Data
             /\ moves' \in 0 .. MaxMoves
             /\ open' = open
  <2>1. Edited(dir, edit) \in Directories
    BY <1>1, EditedType DEF FileSystemTypeOK
  <2>2. LastNames(edit) \in SUBSET Data
    BY DEF LastNames, FileSystemTypeOK, Directories
  <2>3. moves' \in 0 .. MaxMoves
    BY <1>1, NamesAssumption DEF OthersEdit, FileSystemTypeOK
  <2> QED
    BY <1>1, <2>1, <2>2, <2>3 DEF OthersEdit, FileSystemTypeOK
<1>2. CASE OthersCreate
  <2>1. PICK n \in UserNames, i \in Inodes, d \in (UserData \ born) \cup UserNames :
           /\ OthersEdit([m \in {n} |-> i])
           /\ files' = [files EXCEPT ![i] = [data |-> d, stable |-> d]]
           /\ born' = born \cup ({d} \cap UserData)
    BY <1>2 DEF OthersCreate
  <2>2. d \in Data
    BY DEF Data
  <2> QED
    BY <1>1, <2>1, <2>2 DEF FileSystemTypeOK
<1>3. CASE OthersLink
  BY <1>1, <1>3 DEF OthersLink, FileSystemTypeOK, Directories, Names
<1>4. CASE OthersRename
  <2>1. PICK from, to \in UserNames : OthersEdit(Renaming(from, to)) /\ UNCHANGED <<files, born>>
    BY <1>4 DEF OthersRename
  <2>2. \A n \in DOMAIN Renaming(from, to) : Renaming(from, to)[n] \in Inodes \cup {None}
    BY DEF Renaming, FileSystemTypeOK, Directories, Names
  <2> QED
    BY <1>1, <2>1, <2>2 DEF FileSystemTypeOK
<1>5. CASE OthersUnlink
  BY <1>1, <1>5 DEF OthersUnlink, FileSystemTypeOK
<1> QED
  BY <1>2, <1>3, <1>4, <1>5 DEF OthersNext

LEMMA PowerLossType ==
    ASSUME FileSystemTypeOK, PowerLoss
    PROVE  FileSystemTypeOK'
BY DEF PowerLoss, FileSystemTypeOK

-------------------------------------------------------------------------------
(* The reach of the other processes. They own the user names, a file in    *)
(* use keeps its contents, and what they write is new or a link.           *)

New(i) == \E d \in (UserData \ born) \cup UserNames : files'[i] = [data |-> d, stable |-> d]

\* One edit of the others and no new file: only user names move, among files
\* that had one.
LEMMA EditReach ==
    ASSUME FileSystemTypeOK, NEW edit, OthersEdit(edit), DOMAIN edit \subseteq UserNames
    PROVE  /\ dir' = Edited(dir, edit) /\ images' = {dir'} /\ open' = open
           /\ discarded \subseteq discarded'
           /\ \A n \in TempNames : dir'[n] = dir[n]
           /\ \A n \in UserNames : n \in DOMAIN edit => dir'[n] = edit[n]
           /\ \A n \in UserNames : n \notin DOMAIN edit => dir'[n] = dir[n]
BY NamesAssumption DEF OthersEdit, Edited, Names

LEMMA OthersReach ==
    ASSUME FileSystemTypeOK, OthersNext
    PROVE  /\ images' = {dir'} /\ open' = open
           /\ discarded \subseteq discarded' /\ born \subseteq born'
           /\ \A n \in TempNames : dir'[n] = dir[n]
           /\ \A i \in Inodes : ~Free(i) => files'[i] = files[i]
           /\ \A i \in Inodes : files'[i] = files[i] \/ New(i)
           /\ \A n \in UserNames :
                \/ dir'[n] = None
                \/ dir'[n] \in Inodes /\ \E m \in UserNames : dir'[n] = dir[m]
                \/ dir'[n] \in Inodes /\ Free(dir'[n]) /\ New(dir'[n])
<1>1. \A n \in UserNames : dir[n] \in Inodes \cup {None}
  BY DEF FileSystemTypeOK, Directories, Names
<1>2. CASE OthersCreate
  <2>1. PICK n \in UserNames, i \in Inodes, d \in (UserData \ born) \cup UserNames :
           /\ Free(i)
           /\ OthersEdit([m \in {n} |-> i])
           /\ files' = [files EXCEPT ![i] = [data |-> d, stable |-> d]]
           /\ born' = born \cup ({d} \cap UserData)
    BY <1>2 DEF OthersCreate
  <2>2. New(i) /\ \A j \in Inodes \ {i} : files'[j] = files[j]
    BY <2>1 DEF New, FileSystemTypeOK
  <2> QED
    BY <1>1, <2>1, <2>2, EditReach
<1>3. CASE OthersLink
  BY <1>1, <1>3, EditReach DEF OthersLink, IsRegular, Present
<1>4. CASE OthersRename
  <2>1. PICK from, to \in UserNames :
          /\ OthersEdit(Renaming(from, to))
          /\ UNCHANGED <<files, born>>
    BY <1>4 DEF OthersRename
  <2>2. DOMAIN Renaming(from, to) = {from, to}
    BY DEF Renaming
  <2>3. \A n \in {from, to} : Renaming(from, to)[n] \in {dir[from], None}
    BY DEF Renaming
  <2> QED
    BY <1>1, <2>1, <2>2, <2>3, EditReach
<1>5. CASE OthersUnlink
  BY <1>1, <1>5, EditReach DEF OthersUnlink
<1> QED
  BY <1>2, <1>3, <1>4, <1>5 DEF OthersNext

\* A file held open, or under a name in the directory, is in use.
LEMMA InUse ==
    ASSUME NEW i
    PROVE  /\ (\E n \in Names : dir[n] = i) => ~Free(i)
           /\ (\E h \in Holders : open[h] = i) => ~Free(i)
           /\ (\E image \in images : \E n \in Names : image[n] = i) => ~Free(i)
BY DEF Free

-------------------------------------------------------------------------------
(* What an image keeps of the user's contents: a name, and the contents on *)
(* the medium.                                                             *)

Kept(image, d) ==
    \E n \in Names : image[n] # None /\ files[image[n]] = [data |-> d, stable |-> d]

\* What is written of a content is also synced.
Synced(d) == \A n \in Names : Present(n) /\ files[dir[n]].data = d => files[dir[n]].stable = d

LEMMA KeptIsLinked ==
    ASSUME NEW d, Kept(dir, d)
    PROVE  Linked(d)
BY DEF Kept, Linked

\* Others may take away the last name of a content, and then it is discarded.
LEMMA OthersKeep ==
    ASSUME FileSystemTypeOK, OthersNext, NEW d, Synced(d), Kept(dir, d), d \notin discarded'
    PROVE  Kept(dir, d)'
<1>1. PICK n \in Names : dir[n] # None /\ files[dir[n]] = [data |-> d, stable |-> d]
  BY DEF Kept
<1>2. dir[n] \in Inodes
  BY <1>1 DEF FileSystemTypeOK, Directories
<1>3. CASE OthersCreate
  <2>1. PICK m \in UserNames, i \in Inodes, c \in (UserData \ born) \cup UserNames :
           /\ ~Present(m)
           /\ Free(i)
           /\ OthersEdit([k \in {m} |-> i])
           /\ files' = [files EXCEPT ![i] = [data |-> c, stable |-> c]]
    BY <1>3 DEF OthersCreate
  <2>2. dir'[n] = dir[n] /\ i # dir[n]
    BY <1>1, <2>1, InUse DEF OthersEdit, Edited, Present
  <2>3. files'[dir[n]] = files[dir[n]]
    BY <1>2, <2>1, <2>2 DEF FileSystemTypeOK
  <2> QED
    BY <1>1, <2>2, <2>3 DEF Kept
<1>4. ASSUME NEW edit, OthersEdit(edit), files' = files,
             OthersLink \/ OthersRename \/ OthersUnlink
      PROVE  Kept(dir, d)'
  <2>1. dir' = Edited(dir, edit) /\ d \notin LastNames(edit)
    BY <1>4 DEF OthersEdit
  <2>2. d \in {files[i].data : i \in {dir[k] : k \in Names} \ {None}}
    BY <1>1
  <2>3. PICK k \in Names : dir'[k] # None /\ files[dir'[k]].data = d
    BY <2>1, <2>2 DEF LastNames
  <2>4. dir' \in Directories
    BY OthersType DEF FileSystemTypeOK
  <2>5. dir'[k] \in Inodes
    BY <2>3, <2>4 DEF Directories
  <2>6. \E m \in Names : dir'[k] = dir[m]
    <3>1. CASE k \in TempNames
      BY <3>1, OthersReach DEF Names
    <3>2. CASE k \in UserNames /\ ~ \E m \in UserNames : dir'[k] = dir[m]
      <4>1. Free(dir'[k])
        BY <2>3, <3>2, OthersReach
      <4>2. CASE OthersLink
        BY <2>1, <2>3, <4>1, <4>2, InUse DEF OthersLink, OthersEdit, Edited, Names
      <4>3. CASE OthersRename
        BY <2>1, <2>3, <4>1, <4>3, InUse DEF OthersRename, OthersEdit, Edited, Names, Renaming
      <4>4. CASE OthersUnlink
        BY <2>1, <2>3, <4>1, <4>4, InUse DEF OthersUnlink, OthersEdit, Edited, Names
      <4> QED
        BY <1>4, <4>2, <4>3, <4>4
    <3> QED
      BY <3>1, <3>2 DEF Names
  <2>7. files[dir'[k]] = [data |-> d, stable |-> d]
    BY <2>3, <2>5, <2>6 DEF Synced, Present, FileSystemTypeOK
  <2> QED
    BY <1>4, <2>3, <2>7 DEF Kept
<1>5. CASE OthersLink
  BY <1>4, <1>5 DEF OthersLink
<1>6. CASE OthersRename
  BY <1>4, <1>6 DEF OthersRename
<1>7. CASE OthersUnlink
  BY <1>4, <1>7 DEF OthersUnlink
<1> QED
  BY <1>3, <1>5, <1>6, <1>7 DEF OthersNext

\* A new content of the user comes with a name.
LEMMA OthersBorn ==
    ASSUME FileSystemTypeOK, OthersNext, NEW d \in born' \ born
    PROVE  d \in UserData /\ Kept(dir, d)'
<1>1. PICK n \in UserNames, i \in Inodes, c \in (UserData \ born) \cup UserNames :
         /\ OthersEdit([m \in {n} |-> i])
         /\ files' = [files EXCEPT ![i] = [data |-> c, stable |-> c]]
         /\ born' = born \cup ({c} \cap UserData)
  BY DEF OthersNext, OthersCreate, OthersLink, OthersRename, OthersUnlink
<1>2. c = d /\ d \in UserData
  BY <1>1
<1>3. dir'[n] = i /\ n \in Names /\ i # None
  BY <1>1, NamesAssumption DEF OthersEdit, Edited, Names
<1>4. files'[i] = [data |-> d, stable |-> d]
  BY <1>1, <1>2 DEF FileSystemTypeOK
<1> QED
  BY <1>2, <1>3, <1>4 DEF Kept

\* The images after a change of the program.
LEMMA JournalImages ==
    ASSUME NEW edit, Journal(edit), NEW image \in images'
    PROVE  image \in images \/ \E old \in images : image = Edited(old, edit)
BY DEF Journal

\* What a rename does to the directory and to each image.
LEMMA Renamed ==
    ASSUME FileSystemTypeOK, NEW from \in Names, NEW to \in Names, from # to,
           RenameNoReplace(from, to)
    PROVE  /\ dir[from] # None /\ dir[from] \in Inodes /\ dir[to] = None
           /\ dir'[to] = dir[from] /\ dir'[from] = None
           /\ \A n \in Names \ {from, to} : dir'[n] = dir[n]
           /\ UNCHANGED <<files, moves, born, discarded>>
           /\ images \subseteq images'
           /\ \A image \in images' \ images : \E old \in images :
                /\ image = Edited(old, Renaming(from, to))
                /\ image[to] = dir[from] /\ image[from] = None
                /\ \A n \in Names \ {from, to} : image[n] = old[n]
<1>1. Journal(Renaming(from, to)) /\ dir[from] # None /\ dir[to] = None
  BY DEF RenameNoReplace, CanRename, Present
<1>2. \A d : /\ Edited(d, Renaming(from, to))[to] = dir[from]
             /\ Edited(d, Renaming(from, to))[from] = None
             /\ \A n \in Names \ {from, to} : Edited(d, Renaming(from, to))[n] = d[n]
  BY DEF Edited, Renaming
<1>3. dir' = Edited(dir, Renaming(from, to))
  BY <1>1 DEF Journal
<1>4. \A image \in images' \ images : \E old \in images : image = Edited(old, Renaming(from, to))
  BY <1>1 DEF Journal
<1>5. dir[from] \in Inodes /\ images \subseteq images'
  BY <1>1 DEF Journal, FileSystemTypeOK, Directories
<1> QED
  BY <1>1, <1>2, <1>3, <1>4, <1>5 DEF RenameNoReplace

\* What an unlink does to the directory and to each image.
LEMMA Unlinked ==
    ASSUME NEW n \in Names, Unlink(n)
    PROVE  /\ dir[n] # None /\ dir'[n] = None
           /\ \A m \in Names \ {n} : dir'[m] = dir[m]
           /\ UNCHANGED <<files, moves, born, discarded>>
           /\ images \subseteq images'
           /\ \A image \in images' \ images : \E old \in images :
                /\ image = Edited(old, [m \in {n} |-> None])
                /\ image[n] = None
                /\ \A m \in Names \ {n} : image[m] = old[m]
<1>1. Journal([m \in {n} |-> None]) /\ dir[n] # None
  BY DEF Unlink, Present
<1>2. \A d : /\ Edited(d, [m \in {n} |-> None])[n] = None
             /\ \A m \in Names \ {n} : Edited(d, [k \in {n} |-> None])[m] = d[m]
  BY DEF Edited
<1>3. \A image \in images' \ images : \E old \in images : image = Edited(old, [m \in {n} |-> None])
  BY <1>1 DEF Journal
<1> QED
  BY <1>1, <1>2, <1>3 DEF Unlink, Journal

\* A rename takes no content from an image in which the two names lead to what
\* is moved or nowhere.
LEMMA RenameKept ==
    ASSUME FileSystemTypeOK, NEW from \in Names, NEW to \in Names, from # to, Present(from),
           NEW image \in images, NEW d, Kept(image, d),
           image[from] \in {None, dir[from]},
           image[to] \in {None, dir[from]}
    PROVE  Kept(Edited(image, Renaming(from, to)), d)
<1> DEFINE edited == Edited(image, Renaming(from, to))
<1>1. PICK n \in Names : image[n] # None /\ files[image[n]] = [data |-> d, stable |-> d]
  BY DEF Kept
<1>2. /\ edited[to] = dir[from]
      /\ \A m \in Names \ {from, to} : edited[m] = image[m]
  BY DEF Edited, Renaming
<1>3. CASE n \in {from, to}
  BY <1>1, <1>2, <1>3 DEF Kept
<1>4. CASE n \notin {from, to}
  BY <1>1, <1>2, <1>4 DEF Kept
<1> QED
  BY <1>3, <1>4

\* An unlink takes only the content under its name.
LEMMA UnlinkKept ==
    ASSUME NEW n \in Names, NEW image \in images, NEW d, Kept(image, d),
           image[n] # None => files[image[n]].data # d
    PROVE  Kept(Edited(image, [m \in {n} |-> None]), d)
BY DEF Kept, Edited

\* A power cut keeps in an image what was kept in it, and adds nothing.
LEMMA PowerLossKept ==
    ASSUME FileSystemTypeOK, PowerLoss, NEW image \in images, NEW d, Kept(image, d)
    PROVE  Kept(image, d)'
<1>1. PICK n \in Names : image[n] # None /\ files[image[n]] = [data |-> d, stable |-> d]
  BY DEF Kept
<1>2. image[n] \in Inodes
  BY <1>1 DEF FileSystemTypeOK, Directories
<1>3. files'[image[n]] = [data |-> d, stable |-> d]
  BY <1>1, <1>2 DEF PowerLoss
<1> QED
  BY <1>1, <1>3 DEF Kept

\* Writing one file takes no content but its own.
LEMMA WriteKept ==
    ASSUME NEW i, NEW image, NEW d, Kept(image, d),
           \A n \in Names : image[n] # None /\ image[n] # i => files'[image[n]] = files[image[n]],
           files[i].data # d
    PROVE  Kept(image, d)'
BY DEF Kept
===============================================================================
