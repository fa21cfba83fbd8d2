------------------------------- MODULE Traversal -------------------------------
(***************************************************************************)
(* Walking directories by path (src/src/secure_fs.rs) while others change  *)
(* the tree: collect_files_recursive looks for the files below a           *)
(* directory, ensure_safe_directory makes the directories of a path that   *)
(* are missing. Both refuse links, and look at one component at a time.    *)
(***************************************************************************)
EXTENDS Naturals, FiniteSets, SequencesExt

CONSTANTS
    Dirs, Files, Links, Specials,   \* what an entry may lead to
    Top,            \* the directory "/"
    Target,         \* symbolic link -> the path it stands for
    Names,          \* components of a path
    MaxDepth,       \* bound on the depth in which files are looked for
    Requests,       \* [op, path]: what is called, for which path
    Trees,          \* the entries before the call
    MaxMoves,       \* bound on the changes by other processes
    None

Objects == Dirs \cup Files \cup Links \cup Specials
Paths == Seq(Names)
Shallow == UNION {[1 .. k -> Names] : k \in 0 .. MaxDepth}

\* Directories not made yet have no entries.
ASSUME TraversalAssumption ==
    /\ Top \in Dirs
    /\ None \notin Objects
    /\ Dirs \cap (Files \cup Links \cup Specials) = {} /\ Files \cap (Links \cup Specials) = {}
    /\ IsFiniteSet(Links)
    /\ Target \in [Links -> Paths]
    /\ Requests \subseteq [op : {"collect", "ensure"}, path : Paths \ {<<>>}]
    /\ Trees \subseteq [Dirs \X Names -> Objects \cup {None}]
    /\ \A tree \in Trees : \A d \in Dirs \ {Top} :
        (\A e \in Dirs \X Names : tree[e] # d) => \A n \in Names : tree[<<d, n>>] = None
    /\ {MaxDepth, MaxMoves} \subseteq Nat

VARIABLES
    request,            \* the call
    pc,                 \* where it is
    entries,            \* the entries of each directory
    root, stack,        \* collect_files_recursive: canonical paths
    current, todo,      \* the directory being read, the names not yet seen
    at,                 \* the path at hand
    files,              \* the paths found so far
    made,               \* history: directories made, [path, parent]
    moves,              \* changes by other processes so far
    touched,            \* history: entries others removed, moved or occupied
    repeated, broken    \* history: a path found twice; an I/O error

walk == <<root, stack, current, todo, files, repeated>>
vars == <<request, pc, entries, walk, at, made, moves, touched, broken>>

-------------------------------------------------------------------------------
(* Paths: what they lead to.                                               *)

\* Along a path without links.
At[path \in Paths] ==
    IF path = <<>> THEN Top
    ELSE LET o == At[Front(path)] IN IF o \in Dirs THEN entries[<<o, Last(path)>>] ELSE None

\* Along a path with links, each of which leads where leads says.
Walked(leads) ==
    LET walked[path \in Paths] ==
            IF path = <<>> THEN path
            ELSE LET p == Append(walked[Front(path)], Last(path))
                 IN  IF At[p] \in Links THEN leads[At[p]] ELSE p
    IN  walked

\* Where a link leads when k more links are followed, one in the path of another.
Leads[k \in Nat] ==
    [l \in Links |-> IF k = 0 THEN Target[l] ELSE Walked(Leads[k - 1])[Target[l]]]

\* fs::canonicalize: links are followed in every component, and in the paths they
\* stand for. It fails if what it comes to is not there, or still a link: then
\* links lead in a circle.
Canonical == Walked(Leads[Cardinality(Links)])
Stat(path) == At[Canonical[path]]
Reached(path) == Stat(path) \notin Links \cup {None}

\* fs::symlink_metadata: in every component but the last.
Lstat(path) == At[Append(Canonical[Front(path)], Last(path))]

-------------------------------------------------------------------------------
Goto(label) == pc' = label
Fail == pc' = "failed" /\ UNCHANGED <<entries, walk, at, made, broken>>
Program(label) == pc = label /\ UNCHANGED <<request, moves, touched>>

(* collect_files_recursive. *)

StatRoot ==
    /\ Program("collect")
    /\ \/ Lstat(request.path) \notin Dirs /\ Fail
       \/ /\ Lstat(request.path) \in Dirs
          /\ Goto("resolve root")
          /\ UNCHANGED <<entries, walk, at, made, broken>>

ResolveRoot ==
    /\ Program("resolve root")
    /\ \/ ~Reached(request.path) /\ Fail
       \/ /\ Reached(request.path)
          /\ root' = Canonical[request.path]
          /\ stack' = <<root'>>
          /\ Goto("pop")
          /\ UNCHANGED <<entries, current, todo, files, repeated, at, made, broken>>

\* The names are read at once; entries that come or go later are not noticed.
Pop ==
    /\ Program("pop")
    /\ \/ /\ stack = <<>>
          /\ Goto("ok")
          /\ UNCHANGED <<entries, walk, at, made, broken>>
       \/ /\ stack # <<>>
          /\ LET d == Stat(Last(stack))
             IN  \/ d \notin Dirs /\ Fail
                 \/ /\ d \in Dirs
                    /\ stack' = Front(stack)
                    /\ current' = Last(stack)
                    /\ todo' = {n \in Names : entries[<<d, n>>] # None}
                    /\ Goto("list")
                    /\ UNCHANGED <<entries, root, files, repeated, at, made, broken>>

ListFollowing ==        \* faulty: stat in place of lstat
    /\ Program("list")
    /\ \/ /\ todo = {}
          /\ Goto("pop")
          /\ UNCHANGED <<entries, walk, at, made, broken>>
       \/ \E n \in todo :
            LET path == Append(current, n)
                o == Stat(path)
            IN  \/ o \notin Dirs \cup Files /\ Fail
                \/ /\ o \in Dirs
                   /\ at' = path
                   /\ todo' = todo \ {n}
                   /\ Goto("resolve")
                   /\ UNCHANGED <<entries, root, stack, current, files, repeated, made, broken>>
                \/ /\ o \in Files
                   /\ files' = files \cup {path}
                   /\ repeated' = (repeated \/ path \in files)
                   /\ todo' = todo \ {n}
                   /\ UNCHANGED <<pc, entries, root, stack, current, at, made, broken>>

List ==
    /\ Program("list")
    /\ \/ /\ todo = {}
          /\ Goto("pop")
          /\ UNCHANGED <<entries, walk, at, made, broken>>
       \/ \E n \in todo :
            LET path == Append(current, n)
                o == Lstat(path)
            IN  \/ o \notin Dirs \cup Files /\ Fail
                \/ /\ o \in Dirs
                   /\ at' = path
                   /\ todo' = todo \ {n}
                   /\ Goto("resolve")
                   /\ UNCHANGED <<entries, root, stack, current, files, repeated, made, broken>>
                \/ /\ o \in Files
                   /\ files' = files \cup {path}
                   /\ repeated' = (repeated \/ path \in files)
                   /\ todo' = todo \ {n}
                   /\ UNCHANGED <<pc, entries, root, stack, current, at, made, broken>>

ResolveForgetful ==     \* faulty: the directory replaces the others to do
    LET inside == Reached(at) /\ IsPrefix(root, Canonical[at])
    IN  /\ Program("resolve")
        /\ \/ ~inside /\ Fail
           \/ /\ inside
              /\ stack' = <<Canonical[at]>>
              /\ Goto("list")
              /\ UNCHANGED <<entries, root, current, todo, files, repeated, at, made, broken>>

ResolveUnchecked ==     \* faulty: also to a place outside
    /\ Program("resolve")
    /\ \/ ~Reached(at) /\ Fail
       \/ /\ Reached(at)
          /\ stack' = Append(stack, Canonical[at])
          /\ Goto("list")
          /\ UNCHANGED <<entries, root, current, todo, files, repeated, at, made, broken>>

\* The directory may have been replaced by a link since it was looked at.
Resolve ==
    LET inside == Reached(at) /\ IsPrefix(root, Canonical[at])
    IN  /\ Program("resolve")
        /\ \/ ~inside /\ Fail
           \/ /\ inside
              /\ stack' = Append(stack, Canonical[at])
              /\ Goto("list")
              /\ UNCHANGED <<entries, root, current, todo, files, repeated, at, made, broken>>

-------------------------------------------------------------------------------
(* ensure_safe_directory. *)

JudgeLinks(o) ==        \* faulty: a link will do
    \/ o \notin Dirs \cup Links /\ Fail
    \/ /\ o \in Dirs \cup Links
       /\ IF at = request.path THEN Goto("ok") /\ UNCHANGED at
          ELSE Goto("ensure") /\ at' = SubSeq(request.path, 1, Len(at) + 1)
       /\ UNCHANGED <<entries, walk, made, broken>>

\* On to the next component, if the one at hand is a directory.
Judge(o) ==
    \/ o \notin Dirs /\ Fail
    \/ /\ o \in Dirs
       /\ IF at = request.path THEN Goto("ok") /\ UNCHANGED at
          ELSE Goto("ensure") /\ at' = SubSeq(request.path, 1, Len(at) + 1)
       /\ UNCHANGED <<entries, walk, made, broken>>

Ensure ==
    /\ Program("ensure")
    /\ \/ Lstat(at) # None /\ Judge(Lstat(at))
       \/ /\ Lstat(at) = None
          /\ Goto("create")
          /\ UNCHANGED <<entries, walk, at, made, broken>>

Placed(o) == o = Top \/ \E e \in DOMAIN entries : entries[e] = o
Unmade == {o \in Dirs : ~Placed(o)}
Parent == Stat(Front(at))

MakeDirectory ==        \* bound: Unmade
    LET d == CHOOSE o \in Unmade : TRUE
    IN  /\ Unmade # {}
        /\ entries' = [entries EXCEPT ![<<Parent, Last(at)>>] = d]
        /\ made' = made \cup {[path |-> at, parent |-> Parent]}
        /\ Goto("recheck")
        /\ UNCHANGED <<walk, at, broken>>

CreateExclusive ==      \* faulty: another process may not have made it
    /\ Program("create")
    /\ \/ (Parent \notin Dirs \/ entries[<<Parent, Last(at)>>] # None) /\ Fail
       \/ Parent \in Dirs /\ entries[<<Parent, Last(at)>>] = None /\ MakeDirectory

\* fs::create_dir; that others have made it first is no error.
Create ==
    /\ Program("create")
    /\ \/ Parent \notin Dirs /\ Fail
       \/ /\ Parent \in Dirs /\ entries[<<Parent, Last(at)>>] # None
          /\ Goto("recheck")
          /\ UNCHANGED <<entries, walk, at, made, broken>>
       \/ Parent \in Dirs /\ entries[<<Parent, Last(at)>>] = None /\ MakeDirectory

Recheck ==
    /\ Program("recheck")
    /\ Judge(Lstat(at))

\* Any of the calls fails.
IoError ==
    /\ pc \notin {"ok", "failed"}
    /\ pc' = "failed"
    /\ broken' = TRUE
    /\ UNCHANGED <<request, entries, walk, at, made, moves, touched>>

-------------------------------------------------------------------------------
(* The other processes of the user.                                        *)

Edit(changed, seen) ==
    /\ pc \notin {"ok", "failed"}
    /\ moves < MaxMoves
    /\ moves' = moves + 1
    /\ entries' = changed
    /\ touched' = touched \cup seen
    /\ UNCHANGED <<request, pc, walk, at, made, broken>>

Empty(o) == o \in Dirs => \A n \in Names : entries[<<o, n>>] = None
\* Bound: a directory is moved only if it has none below, so never into itself.
Movable(o, to) == o \in Dirs => o # to /\ \A n \in Names : entries[<<o, n>>] \notin Dirs

OthersRemove ==
    \E e \in DOMAIN entries :
        /\ entries[e] # None /\ Empty(entries[e])
        /\ Edit([entries EXCEPT ![e] = None], {e})
OthersCreate ==     \* a file or a link; a hard link is one more name of a file
    \E e \in DOMAIN entries, o \in Files \cup Links :
        /\ Placed(e[1]) /\ entries[e] = None
        /\ Edit([entries EXCEPT ![e] = o], {e})
OthersMkdir ==
    \E e \in DOMAIN entries :
        /\ Placed(e[1]) /\ entries[e] = None
        /\ Unmade # {}
        /\ Edit([entries EXCEPT ![e] = CHOOSE o \in Unmade : TRUE], {})
OthersRename ==     \* to a free name, or exchanging the two names (renameat2)
    \E e, f \in DOMAIN entries :
        /\ entries[e] \notin {None, entries[f]} /\ Placed(f[1])
        /\ Movable(entries[e], f[1]) /\ Movable(entries[f], e[1])
        /\ Edit([entries EXCEPT ![e] = entries[f], ![f] = entries[e]], {e, f})

Others == OthersRemove \/ OthersCreate \/ OthersMkdir \/ OthersRename

-------------------------------------------------------------------------------
Init ==
    /\ request \in Requests
    /\ pc = request.op
    /\ entries \in Trees
    /\ root = <<>> /\ stack = <<>>
    /\ current = <<>> /\ todo = {}
    /\ at = SubSeq(request.path, 1, 1)
    /\ files = {} /\ made = {}
    /\ moves = 0 /\ touched = {}
    /\ repeated = FALSE /\ broken = FALSE

Collect == StatRoot \/ ResolveRoot \/ Pop \/ List \/ Resolve
Secure == Ensure \/ Create \/ Recheck
Over == pc \in {"ok", "failed"} /\ UNCHANGED vars

Next == Collect \/ Secure \/ IoError \/ Others \/ Over

Spec == Init /\ [][Next]_vars /\ WF_vars(Collect \/ Secure)

-------------------------------------------------------------------------------
TypeOK ==
    /\ request \in Requests
    /\ pc \in {"collect", "resolve root", "pop", "list", "resolve",
               "ensure", "create", "recheck", "ok", "failed"}
    /\ entries \in [Dirs \X Names -> Objects \cup {None}]
    /\ {root, current, at} \cup files \subseteq Paths
    /\ \A path \in Range(stack) : path \in Paths /\ IsPrefix(root, path)
    /\ todo \subseteq Names
    /\ made \subseteq [path : Paths, parent : Dirs]
    /\ moves \in 0 .. MaxMoves
    /\ touched \subseteq DOMAIN entries
    /\ {repeated, broken} \subseteq BOOLEAN

\* The entries a path is made of, and whether others have changed one of them.
Chain(path) == {<<At[SubSeq(path, 1, k - 1)], path[k]>> : k \in 1 .. Len(path)}
Undisturbed(path) == Chain(path) \cap touched = {}
Below(path) == IsStrictPrefix(root, path)
collected == request.op = "collect" /\ pc = "ok"

\* A traversal that succeeds has missed no file: everything that was below the
\* directory all the time is found, whatever happens to its neighbours.
NothingMissed ==
    collected => \A path \in Shallow :
        Below(path) /\ Undisturbed(path) /\ At[path] \in Files => path \in files

\* ... and found nothing else: no file in another place, none reached through a
\* link, no special file, whatever happens to the neighbours of its path. Only a
\* walk that others disturb may find a file twice, through a directory exchanged
\* for a link; the plan refuses it then.
NothingElse ==
    collected => /\ \A path \in files :
                        Below(path) /\ (At[path] \in Files \/ ~Undisturbed(path))
                 /\ repeated => touched # {}

\* The directory that is promised is one, component by component, and each that
\* was made is in the directory its path says, not behind a link, unless others
\* have changed a component above it, whatever else they changed.
EnsuredInPlace ==
    request.op = "ensure" =>
        /\ pc = "ok" => At[request.path] \in Dirs \/ ~Undisturbed(request.path)
        /\ \A m \in made :
            /\ IsPrefix(m.path, request.path)
            /\ At[Front(m.path)] = m.parent \/ ~Undisturbed(Front(m.path))

\* Two processes that need the same directory do not fail each other: without an
\* I/O error only a file or a link in the way is a reason to fail.
OnlyObstructed ==
    request.op = "ensure" /\ pc = "failed" =>
        \/ broken
        \/ touched # {}
        \/ \E k \in 1 .. Len(request.path) :
            Lstat(SubSeq(request.path, 1, k)) \in Files \cup Links \cup Specials

\* Both end. A link to a directory above could make a walk endless.
Ends == <>(pc \in {"ok", "failed"})
===============================================================================
