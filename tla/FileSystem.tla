------------------------------ MODULE FileSystem ------------------------------
(***************************************************************************)
(* The directory Ironlock works in, as secure_fs.rs uses it: names, the    *)
(* inodes they lead to, what a power cut may leave of both, and the other  *)
(* processes of the user that create, link, move and remove files between  *)
(* any two system calls of the program.                                    *)
(*                                                                         *)
(* The kernel is outside src/, so most of this module is external: each    *)
(* operator is the part of a call's contract that secure_fs.rs relies on.  *)
(***************************************************************************)
EXTENDS FiniteSets, Naturals

CONSTANTS
    UserNames,      \* names other processes may also use
    TempNames,      \* the .ironlock-*.tmp names; too random for others to hit
    Inodes,         \* inode numbers; a number is reused once its file is gone
    UserData,       \* contents that belong to the user, all different
    Holders,        \* the places of the program that keep a file open
    MaxMoves,       \* bound on the directory changes other processes make
    None            \* no file, no name

OutputData == {"blank", "partial", "whole"}     \* what Ironlock writes
Data == UserData \cup OutputData \cup {"noise"} \cup UserNames
    \* "noise" is a shredded file; a user name is a symbolic link to that name

Names == UserNames \cup TempNames
Directories == [Names -> Inodes \cup {None}]

ASSUME NamesAssumption ==
    /\ UserNames \cap TempNames = {}
    /\ IsFiniteSet(Names)
    /\ None \notin Inodes \cup Names \cup Data
    /\ UserNames \cap (UserData \cup OutputData \cup {"noise"}) = {}
    /\ UserData \cap (OutputData \cup {"noise"}) = {}
    /\ MaxMoves \in Nat

VARIABLES
    dir,        \* where each name leads now
    images,     \* every directory a power cut may leave behind
    files,      \* each inode's contents, and the contents on the medium
    open,       \* the inode each holder keeps open, which pins it
    moves,      \* directory changes other processes made so far
    born,       \* history: the user's contents that ever existed
    discarded   \* history: contents whose last name others took away

fs == <<dir, images, files, open, moves, born, discarded>>

FileSystemTypeOK ==
    /\ dir \in Directories
    /\ images \in SUBSET Directories
    /\ files \in [Inodes -> [data : Data, stable : Data]]
    /\ open \in [Holders -> Inodes \cup {None}]
    /\ moves \in 0 .. MaxMoves
    /\ born \in SUBSET UserData
    /\ discarded \in SUBSET Data

-------------------------------------------------------------------------------
(* What a path lookup or an fstat can tell.                                *)

Present(n) == dir[n] # None
IsLink(n) == dir[n] # None /\ files[dir[n]].data \in UserNames
IsRegular(n) == Present(n) /\ ~IsLink(n)

\* The file at the end of a chain of links: every set of names that holds n, and
\* with a link where it leads, holds it. A loop has none.
Ends(n) ==
    {m \in Names :
        /\ IsRegular(m)
        /\ \A s \in SUBSET Names :
            n \in s /\ (\A l \in s : IsLink(l) => files[dir[l]].data \in s) => m \in s}

\* Opening a path follows links.
Resolve(n) ==
    IF ~IsLink(n) THEN dir[n]
    ELSE IF Ends(n) = {} THEN None ELSE dir[CHOOSE m \in Ends(n) : TRUE]

LinkCount(i) == Cardinality({n \in Names : dir[n] = i})
Linked(d) == \E n \in Names : dir[n] # None /\ files[dir[n]].data = d

\* An inode number no directory and no open handle uses.
Free(i) ==
    /\ \A image \in images \cup {dir} : \A n \in Names : image[n] # i
    /\ \A h \in Holders : open[h] # i

-------------------------------------------------------------------------------
(* The calls the program makes. A directory change reaches the medium at   *)
(* the latest with the next fsync of the directory; until then a power cut *)
(* may keep or lose each change on its own. One rename is never split.     *)

Edited(d, edit) == [n \in Names |-> IF n \in DOMAIN edit THEN edit[n] ELSE d[n]]

Journal(edit) ==
    /\ dir' = Edited(dir, edit)
    /\ images' = images \cup {Edited(image, edit) : image \in images}

Renaming(from, to) == [n \in {from, to} |-> IF n = to THEN dir[from] ELSE None]

\* renameat2 with RENAME_NOREPLACE, renameatx_np with RENAME_EXCL, MoveFileEx
\* without MOVEFILE_REPLACE_EXISTING: all fail unless from exists and to does not.
CanRename(from, to) == Present(from) /\ ~Present(to)
RenameNoReplace(from, to) ==
    /\ CanRename(from, to)
    /\ Journal(Renaming(from, to))
    /\ UNCHANGED <<files, moves, born, discarded>>

\* open(O_CREAT | O_EXCL, 0600), or CreateFile(CREATE_NEW) under a descriptor for
\* the owner only, on an unused temporary name.
CreatePrivate(n) ==
    /\ ~Present(n)
    /\ \E i \in Inodes :
        /\ Free(i)
        /\ Journal([m \in {n} |-> i])
        /\ files' = [files EXCEPT ![i] = [data |-> "blank", stable |-> "blank"]]
    /\ UNCHANGED <<open, moves, born, discarded>>

Unlink(n) ==
    /\ Present(n)
    /\ Journal([m \in {n} |-> None])
    /\ UNCHANGED <<files, moves, born, discarded>>

\* fsync of the parent directory.
SyncDirectory ==
    /\ images' = {dir}
    /\ UNCHANGED <<dir, files, moves, born, discarded>>

WriteFile(i, d) ==
    /\ files' = [files EXCEPT ![i].data = d]
    /\ UNCHANGED <<dir, images, moves, born, discarded>>

SyncFile(i) ==
    /\ files' = [files EXCEPT ![i].stable = files[i].data]
    /\ UNCHANGED <<dir, images, moves, born, discarded>>

Hold(h, i) == open' = [open EXCEPT ![h] = i]

\* open(O_NOFOLLOW), for reading and for writing: refuses a link.
OpenNoFollow(h, n) == IsRegular(n) /\ Hold(h, dir[n])

\* path_matches_open_file: the path, links followed, leads to the open file.
PathMatches(n, h) == Resolve(n) = open[h]

-------------------------------------------------------------------------------
(* The other processes. They stay away from the temporary names, and their *)
(* changes are on the medium at once, with every change made before them,  *)
(* so that a power cut loses only what the program itself left unsynced.   *)

LastNames(edit) ==      \* the contents that lose their last name
    {files[i].data : i \in {dir[n] : n \in Names} \ {None}} \
    {files[i].data : i \in {Edited(dir, edit)[n] : n \in Names} \ {None}}

OthersEdit(edit) ==
    /\ moves < MaxMoves
    /\ moves' = moves + 1
    /\ dir' = Edited(dir, edit)
    /\ images' = {Edited(dir, edit)}
    /\ discarded' = discarded \cup LastNames(edit)
    /\ UNCHANGED open

OthersCreate ==
    \E n \in UserNames, i \in Inodes, d \in (UserData \ born) \cup UserNames :
        /\ ~Present(n)
        /\ Free(i)
        /\ d # n
        /\ OthersEdit([m \in {n} |-> i])
        /\ files' = [files EXCEPT ![i] = [data |-> d, stable |-> d]]
        /\ born' = born \cup ({d} \cap UserData)

OthersLink ==
    \E from, to \in UserNames :
        /\ IsRegular(from)
        /\ ~Present(to)
        /\ OthersEdit([m \in {to} |-> dir[from]])
        /\ UNCHANGED <<files, born>>

OthersRename ==
    \E from, to \in UserNames :
        /\ Present(from)
        /\ dir[from] # dir[to]
        /\ OthersEdit(Renaming(from, to))
        /\ UNCHANGED <<files, born>>

OthersUnlink ==
    \E n \in UserNames :
        /\ Present(n)
        /\ OthersEdit([m \in {n} |-> None])
        /\ UNCHANGED <<files, born>>

OthersNext == OthersCreate \/ OthersLink \/ OthersRename \/ OthersUnlink

-------------------------------------------------------------------------------
(* A power cut keeps one of the images, and of each file either what was   *)
(* written or what was synced. Killing the process is the image dir.       *)

PowerLoss ==
    /\ \E image \in images :
        /\ dir' = image
        /\ images' = {image}
    /\ \E kept \in SUBSET {i \in Inodes : files[i].data # files[i].stable} :
        files' = [i \in Inodes |->
                    LET d == IF i \in kept THEN files[i].data ELSE files[i].stable
                    IN  [data |-> d, stable |-> d]]
    /\ open' = [h \in Holders |-> None]
    /\ UNCHANGED <<moves, born, discarded>>

-------------------------------------------------------------------------------
(* Before the program starts: the user's files, and in the temporary names *)
(* what an interrupted earlier run may have left, an unfinished output or  *)
(* a file of the user it had moved aside.                                  *)

FilesInit ==
    /\ dir \in {d \in Directories :
                  \A m, n \in Names : d[m] = d[n] => m = n \/ d[m] = None}
    /\ images = {dir}
    /\ files \in {[i \in Inodes |-> [data |-> c[i], stable |-> c[i]]] :
                    c \in [Inodes -> UserData \cup UserNames \cup {"partial"}]}
    /\ \A n \in UserNames : Present(n) => files[dir[n]].data \notin {"partial", n}
    /\ \A n \in TempNames : Present(n) => files[dir[n]].data \notin UserNames
    /\ \A m, n \in Names :
        Present(m) /\ Present(n) /\ m # n /\ files[dir[m]].data = files[dir[n]].data
            => files[dir[m]].data \notin UserData
    /\ \A i \in Inodes : LinkCount(i) = 0 => files[i].data = "partial"
    /\ moves = 0
    /\ born = {d \in UserData : Linked(d)}
    /\ discarded = {}

FileSystemInit ==
    /\ FilesInit
    /\ open = [h \in Holders |-> None]
===============================================================================
