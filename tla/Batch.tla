--------------------------------- MODULE Batch ---------------------------------
(***************************************************************************)
(* One command with file arguments: run() of src/src/main.rs with the      *)
(* planning of src/src/secure_fs.rs, the password prompt, the loop over    *)
(* the files, the guard of a decryption batch, the counters and the exit   *)
(* status. Each file's output keeps the promise of AtomicReplace.          *)
(*                                                                         *)
(* A path is the sequence of its components. A file stands for its         *)
(* identity (same_file::Handle) and, until the passes of a --shred reach   *)
(* it, for its contents. Other processes change names at any time.         *)
(***************************************************************************)
EXTENDS Naturals, FiniteSets, SequencesExt

CONSTANTS
    Names,          \* locations of files
    Dirs,           \* locations of directories, which stay
    Cwd,            \* the current directory
    Encrypted,      \* last components with the extension .il
    DefaultName,    \* last component -> its stem with .il
    Spare,          \* locations whose last component has a random part
    Files, Links,   \* identities of files; those that are symbolic links
    LinkTo,         \* the name each link leads to
    Product,        \* Product[k] is the output of the k-th file
    Inside,         \* ciphertext -> components of the filename inside, None if it does not open
    Rank,           \* the order paths are sorted in
    Commands,       \* command lines
    Directories,    \* contents of the directories before the command
    MaxMoves,       \* bound on the changes by other processes
    None

ASSUME BatchAssumption ==
    /\ None \notin Names \cup Dirs /\ None \notin Files /\ None \notin {0, 1}
    /\ Links \subseteq Files /\ LinkTo \in [Links -> Names]
    /\ IsInjective(Product) /\ Range(Product) \subseteq Files \ Links
    /\ Directories \subseteq [Names -> (Files \ Range(Product)) \cup {None}]
    /\ IsFiniteSet(Names) /\ Spare \subseteq Names
    /\ \A f \in Files : Inside[f] # None =>
        \A d \in Dirs, c \in Range(Inside[f]) : c \in {".", ".."} \/ Append(d, c) \in Names
    /\ Cwd \in Dirs
    /\ MaxMoves \in Nat

VARIABLES
    command,        \* [op, inputs, output, force, shred]
    stage,          \* where run() is
    next,           \* the input, then the file, it is at
    sources,        \* [path, file, target] of each file to process
    outputs,        \* EncryptionPlan.output of each file planned so far
    claimed,        \* [keys, files] of the sources, [defaults, reserved] of the outputs
    dir,            \* which file each name leads to
    target,         \* the output of the file at hand
    opened,         \* its source, held open
    aside, consent, outcome,    \* its AtomicReplace
    counters,       \* Counters: [success, errors, skipped]
    exit,           \* the exit status, None while running
    moves,          \* changes by other processes so far
    touched,        \* history: names others changed
    late,           \* history: those changed since the guard looked
    results,        \* history: [outcome, target, committed] of each file
    replaced,       \* history: files replaced, others not involved
    overwritten     \* history: files the passes of a --shred have reached

plan == <<sources, outputs, claimed>>
replacing == <<aside, consent, outcome>>
item == <<target, opened, replacing>>
ending == <<counters, results>>
histories == <<moves, touched, late, replaced, overwritten>>
vars == <<command, stage, next, plan, dir, item, ending, exit, histories>>

op == command.op

-------------------------------------------------------------------------------
(* Paths.                                                                  *)

\* The lexical part of normalized_path_key: where a path leads, "." and ".."
\* resolved; no directory has an alias here.
Place == [path \in Names \cup UNION {Range(c.inputs) : c \in Commands} |->
    FoldLeft(LAMBDA walked, c : CASE c = "." -> walked
                                  [] c = ".." -> Front(walked)
                                  [] OTHER -> Append(walked, c), <<>>, path)]

Present(n) == dir[n] # None
Regular(n) == Present(n) /\ dir[n] \notin Links

\* fs::canonicalize follows links, of which no chain is longer than the names.
Final(n) ==
    LET follow == [m \in Names |-> IF dir[m] \in Links THEN LinkTo[dir[m]] ELSE m]
        reached[k \in Nat] == IF k = 0 THEN n ELSE follow[reached[k - 1]]
    IN  reached[Cardinality(Names)]

\* normalized_path_key of a place: a dangling link stands for itself, links in
\* a circle are an error.
Key(n) ==
    IF dir[n] \notin Links THEN n
    ELSE IF Final(n) \in {m \in Names : Regular(m)} THEN Final(n)
    ELSE IF Present(Final(n)) THEN None ELSE n

\* Handle::from_path, and exists(), follow links too.
Identity(n) == IF Key(n) # None /\ Regular(Key(n)) THEN dir[Key(n)] ELSE None
Exists(n) == Identity(n) # None

\* paths_refer_to_same_file. It fails when the output is a link to another
\* place, or the source is gone and the output is there.
SameFile(source, output) ==
    Key(source) = Key(output) \/ (Exists(source) /\ Identity(source) = dir[output])
Comparable(source, output) ==
    /\ None \notin {Key(source), Key(output)}
    /\ \/ Key(source) = Key(output)
       \/ ~Present(output)
       \/ Regular(output) /\ Exists(source)

\* One of up to 128 random names; an encryption also knows those it has given out.
unavailable == claimed.keys \cup claimed.reserved
UniqueDecrypted(d) == {n \in Spare : Front(n) = d /\ ~Exists(n)}
UniqueEncrypted(d) ==
    {n \in UniqueDecrypted(d) : Key(n) \notin unavailable \cup {None}}

\* sanitized_filename: the last component, if it names a file at all.
Sanitized(name) ==
    {name[i] : i \in {last \in DOMAIN name :
        /\ name[last] \notin {".", ".."}
        /\ \A j \in DOMAIN name : j > last => name[j] = "."}}

\* base.join(relative.parent()): a directory is restored under its own layout.
Rebased(root, n, base) == base \o SubSeq(Front(n), Len(root) + 1, Len(n) - 1)
Base(c, n) == IF c.output = None THEN n ELSE c.output

\* default_encrypted_path.
Default(n) == Append(Front(n), DefaultName[Last(n)])

\* What command c may find. Every path it comes to has its place in Names or
\* Dirs, the layout below an input in that below the output.
Within(c) == {n \in Names : \E p \in Range(c.inputs) : Place[p] = n \/ IsStrictPrefix(Place[p], n)}

ASSUME PathAssumption ==
    /\ \A n \in Names : Place[n] = n
    /\ \A c \in Commands :
        /\ c.inputs \in Seq(Range(c.inputs))
        /\ c.output \in Dirs \cup {None}
        /\ \A p \in Range(c.inputs) :
            /\ Place[p] \in Names \cup Dirs
            /\ \A n \in Names : IsStrictPrefix(Place[p], n) =>
                Rebased(Place[p], n, Base(c, Place[p])) \in Dirs
        /\ c.op = "encrypt" => \A n \in Within(c) : Default(n) \in Names

-------------------------------------------------------------------------------
(* Planning: collect_inputs, plan_encryption_inputs,                       *)
(* plan_decryption_inputs, DecryptionBatchGuard::new. Nothing is modified. *)

Exit(status) ==
    /\ exit' = status
    /\ stage' = "exited"

Reject ==
    /\ Exit(1)
    /\ UNCHANGED <<command, next, plan, dir, item, ending, histories>>

Distinct(files) ==
    \A i, j \in DOMAIN files :
        Place[files[i].path] = Place[files[j].path] \/ files[i].file = files[j].file
            => i = j

\* What one input stands for: the eligible files below a directory
\* (collect_files_recursive, as a whole), or the file itself.
Below(root) == {n \in Names : IsStrictPrefix(root, n) /\ Present(n)}
Eligible(n) == (Last(n) \in Encrypted) <=> (op = "decrypt")

\* files.sort, plans.sort_by.
InOrder(paths) == \A i, j \in DOMAIN paths : i < j => Rank[paths[i]] <= Rank[paths[j]]
Listings(files) == {list \in Bijection(1 .. Cardinality(files), files) : InOrder(list)}
Sortings(plans) ==
    {[i \in DOMAIN plans |-> plans[p[i]]] :
        p \in {p \in Bijection(DOMAIN plans, DOMAIN plans) :
                InOrder([i \in DOMAIN plans |-> plans[p[i]].path])}}

Found(path) ==
    LET n == Place[path]
        Entry(p, m, d) == [path |-> p, file |-> dir[m], target |-> d]
    IN  IF n \in Dirs
        THEN {[i \in DOMAIN files |-> Entry(files[i], files[i], Rebased(n, files[i], Base(command, n)))] :
                files \in Listings({m \in Below(n) : Eligible(m)})}
        ELSE {<<Entry(path, n, Base(command, Cwd))>>}

Unusable(path) ==
    LET n == Place[path]
    IN  IF n \in Dirs THEN \E m \in Below(n) : dir[m] \in Links
        ELSE ~Regular(n) \/ (op = "decrypt" /\ ~Eligible(n))

Collect ==
    /\ stage = "collect"
    /\ next <= Len(command.inputs)
    /\ LET path == command.inputs[next]
       IN  \/ Unusable(path) /\ Reject
           \/ /\ ~Unusable(path)
              /\ \E found \in Found(path) :
                 \/ op = "decrypt" /\ ~Distinct(sources \o found) /\ Reject
                 \/ /\ op = "decrypt" => Distinct(sources \o found)
                    /\ sources' = sources \o found
                    /\ next' = next + 1
                    /\ UNCHANGED <<command, stage, outputs, claimed, dir, item, ending, exit, histories>>

\* The plan is sorted by path; it must not be empty.
Sort ==
    /\ stage = "collect"
    /\ next > Len(command.inputs)
    /\ \/ sources = <<>> /\ Reject
       \/ /\ sources # <<>>
          /\ sources' \in Sortings(sources)
          /\ next' = 1
          /\ stage' = "identify"
          /\ UNCHANGED <<command, outputs, claimed, dir, item, ending, exit, histories>>

Source(i) == Place[sources[i].path]

NextSource(label) ==
    IF next < Len(sources)
    THEN next' = next + 1 /\ UNCHANGED stage
    ELSE next' = 1 /\ stage' = label

\* A key and a handle of every source in turn: none may be there twice.
Identify ==
    LET n == Source(next)
        fresh == /\ Exists(n)
                 /\ Key(n) \notin claimed.keys
                 /\ Identity(n) \notin claimed.files
    IN  /\ stage = "identify"
        /\ \/ ~fresh /\ Reject
           \/ /\ fresh
              /\ sources' = [sources EXCEPT ![next].file = Identity(n)]
              /\ claimed' = [claimed EXCEPT !.keys = @ \cup {Key(n)},
                                            !.files = @ \cup {Identity(n)}]
              /\ NextSource(IF op = "encrypt" THEN "default" ELSE "password")
              /\ UNCHANGED <<command, outputs, dir, item, ending, exit, histories>>

\* The keys of the default outputs, in turn.
NoteDefault ==
    LET key == Key(Default(Source(next)))
    IN  /\ stage = "default"
        /\ \/ key = None /\ Reject
           \/ /\ key # None
              /\ claimed' = [claimed EXCEPT !.defaults = Append(@, key)]
              /\ NextSource("assign")
              /\ UNCHANGED <<command, sources, outputs, dir, item, ending, exit, histories>>

Assigned(output) ==
    /\ outputs' = Append(outputs, output)
    /\ claimed' = [claimed EXCEPT !.reserved = @ \cup {Key(output)}]
    /\ NextSource("password")
    /\ UNCHANGED <<command, sources, dir, item, ending, exit, histories>>

AssignDefault ==    \* faulty: the default output, whatever else has its name
    /\ stage = "assign"
    /\ Assigned(Default(Source(next)))

\* The default output unless it collides: with the default of another source,
\* with a source, with an output already given out, or with the same file.
Assign ==
    LET n == Source(next)
        key == Key(Default(n))
        contested == \/ Cardinality({i \in DOMAIN sources : claimed.defaults[i] = key}) > 1
                     \/ key \in unavailable
        judged == key # None /\ (contested \/ Comparable(n, Default(n)))
        collides == contested \/ SameFile(n, Default(n))
    IN  /\ stage = "assign"
        /\ \/ ~judged /\ Reject
           \/ judged /\ ~collides /\ Assigned(Default(n))
           \/ /\ judged /\ collides
              /\ \/ \E m \in UniqueEncrypted(Front(n)) : Assigned(m)
                 \/ Reject

\* The prompts of main.rs; an empty or unconfirmed password ends the command.
Password ==
    /\ stage = "password"
    /\ \/ Reject
       \/ /\ stage' = "item"
          /\ next' = 1
          /\ UNCHANGED <<command, plan, dir, item, ending, exit, histories>>

-------------------------------------------------------------------------------
(* One file: encrypt_file_to_path or decrypt_file_to_path_inner, up to its *)
(* output. An error ends the file, not the batch.                          *)

CountLenient(result) == \* faulty: a declined file is not counted
    CASE result = "ok" -> [counters EXCEPT !.success = @ + 1]
      [] result = "cancelled" -> counters
      [] OTHER -> [counters EXCEPT !.errors = @ + 1]

Count(result) ==        \* Counters::handle_result
    CASE result = "ok" -> [counters EXCEPT !.success = @ + 1]
      [] result = "cancelled" -> [counters EXCEPT !.skipped = @ + 1]
      [] OTHER -> [counters EXCEPT !.errors = @ + 1]

Close ==
    /\ target' = None
    /\ opened' = None
    /\ aside' = None
    /\ consent' = {}
    /\ outcome' = "open"

Conclude(result) ==
    /\ counters' = Count(result)
    /\ results' = Append(results, [outcome |-> result, target |-> target,
                                   committed |-> outcome = "done"])
    /\ Close
    /\ IF next < Len(sources)
       THEN next' = next + 1 /\ stage' = "item"
       ELSE stage' = "summary" /\ UNCHANGED next
    /\ UNCHANGED <<command, plan, exit, moves, touched, late, replaced>>

Drop(result) == Conclude(result) /\ UNCHANGED <<dir, overwritten>>

Proceed(label) ==
    /\ stage' = label
    /\ UNCHANGED <<command, next, dir, replacing, ending, exit, moves, touched, replaced,
                   overwritten>>

EncryptSource ==
    LET n == Source(next)
        fine == /\ Comparable(n, outputs[next]) /\ ~SameFile(n, outputs[next])
                /\ Regular(n)
    IN  /\ stage = "item"
        /\ op = "encrypt"
        /\ \/ ~fine /\ Drop("error")
           \/ /\ fine
              /\ opened' = dir[n]
              /\ target' = outputs[next]
              /\ Proceed("observe")
              /\ UNCHANGED <<plan, late>>

\* StreamDecryptor::new authenticates the filename before any output.
DecryptSource ==
    LET n == Source(next)
        opens == Last(n) \in Encrypted /\ Regular(n) /\ Inside[dir[n]] # None
    IN  /\ stage = "item"
        /\ op = "decrypt"
        /\ \/ ~opens /\ Drop("error")
           \/ /\ opens
              /\ opened' = dir[n]
              /\ Proceed("choose")
              /\ UNCHANGED <<plan, target, late>>

\* sanitized_filename, ensure_safe_directory, and never onto the source.
ChooseOutput ==
    LET d == sources[next].target
        Chosen(n) == target' = n /\ Proceed("reserve") /\ UNCHANGED <<plan, opened, late>>
    IN  /\ stage = "choose"
        /\ \/ Drop("error")
           \/ \E name \in Sanitized(Inside[opened]) :
                LET output == Append(d, name)
                IN  /\ Comparable(Source(next), output)
                    /\ IF SameFile(Source(next), output)
                       THEN \E n \in UniqueDecrypted(d) : Chosen(n)
                       ELSE Chosen(output)

Reserved ==
    /\ claimed' = [claimed EXCEPT !.reserved = @ \cup {Key(target)}]
    /\ late' = {}
    /\ Proceed("observe")
    /\ UNCHANGED <<sources, outputs, target, opened>>

ReserveAny ==           \* faulty: two files may name one output
    /\ stage = "reserve"
    /\ \/ /\ target \in claimed.keys \/ dir[target] \in Links \cup claimed.files
          /\ Drop("error")
       \/ /\ target \notin claimed.keys
          /\ dir[target] \notin Links \cup claimed.files
          /\ Reserved

ReserveByName ==        \* faulty: sources are known by their names only
    /\ stage = "reserve"
    /\ \/ /\ target \in claimed.keys \cup claimed.reserved \/ dir[target] \in Links
          /\ Drop("error")
       \/ /\ target \notin claimed.keys \cup claimed.reserved
          /\ dir[target] \notin Links
          /\ Reserved

\* DecryptionBatchGuard::reserve. A reservation outlives the failure of its file.
Reserve ==
    LET free == /\ Key(Source(next)) \in claimed.keys
                /\ Key(target) \notin unavailable
                /\ dir[target] \notin Links \cup claimed.files
    IN  /\ stage = "reserve"
        /\ \/ ~free /\ Drop("error")
           \/ free /\ Reserved

-------------------------------------------------------------------------------
(* Its output: AtomicOutput as AtomicReplace, its checks first.            *)

Out(k, n) == INSTANCE AtomicReplace WITH
    Contents <- Files, Dest <- n, New <- Product[k], shown <- dir

Observe ==
    /\ stage = "observe"
    /\ \/ Drop("error")
       \/ Regular(target) /\ ~command.force /\ Drop("cancelled")
       \/ /\ dir[target] \notin Links
          /\ consent' = {dir[target]} \ {None}
          /\ stage' = "replace"
          /\ UNCHANGED <<command, next, plan, dir, target, opened, aside, outcome,
                         ending, exit, histories>>

Replace ==
    /\ stage = "replace"
    /\ \E k \in DOMAIN Product, n \in Names :
        /\ k = next /\ n = target
        /\ \/ Out(k, n)!Withdraw \/ Out(k, n)!Install \/ Out(k, n)!Commit
           \/ Out(k, n)!Finish \/ Out(k, n)!Abort \/ Out(k, n)!Restore
    /\ UNCHANGED <<command, stage, next, plan, target, opened, ending, exit, histories>>

Discard ==
    /\ stage = "replace"
    /\ \E k \in DOMAIN Product, n \in Names : k = next /\ n = target /\ Out(k, n)!Discard
    /\ replaced' = IF target \in late THEN replaced ELSE replaced \cup {aside}
    /\ UNCHANGED <<command, stage, next, plan, target, opened, ending, exit,
                   moves, touched, late, overwritten>>

RetryFailed ==          \* faulty: a file that failed is tried again
    /\ stage = "replace"
    /\ outcome = "failed"
    /\ stage' = "item"
    /\ Close
    /\ UNCHANGED <<command, next, plan, dir, ending, exit, histories>>

Failed ==
    /\ stage = "replace"
    /\ outcome = "failed"
    /\ Drop("error")

Done ==
    /\ stage = "replace"
    /\ outcome = "done"
    /\ IF command.shred
       THEN /\ stage' = "shred"
            /\ UNCHANGED <<command, next, plan, dir, item, ending, exit, histories>>
       ELSE Drop("ok")

\* secure_delete_inner as a whole: the file encrypted, under its one name. An
\* error leaves the source as it was, under its temporary name, overwritten
\* and put back, or unlinked when only sync_parent fails.
Shred ==
    LET n == Source(next)
    IN  /\ stage = "shred"
        /\ \/ Drop("error")
           \/ /\ dir[n] = opened
              /\ \E left \in {opened, None} :
                 /\ dir' = [dir EXCEPT ![n] = left]
                 /\ \/ Conclude("error") /\ UNCHANGED overwritten
                    \/ /\ \A m \in Names \ {n} : dir[m] # opened
                       /\ overwritten' = overwritten \cup {opened}
                       /\ Conclude("error") \/ (left = None /\ Conclude("ok"))

SummaryLenient ==       \* faulty: only errors count
    /\ stage = "summary"
    /\ Exit(IF counters.errors = 0 THEN 0 ELSE 1)
    /\ UNCHANGED <<command, next, plan, dir, item, ending, histories>>

\* Counters::print_summary, and main: any error is exit status 1.
Summary ==
    /\ stage = "summary"
    /\ Exit(IF counters.errors = 0 /\ counters.skipped = 0 THEN 0 ELSE 1)
    /\ UNCHANGED <<command, next, plan, dir, item, ending, histories>>

-------------------------------------------------------------------------------
(* The other processes of the user.                                        *)

Edit(edit) ==
    /\ exit = None
    /\ moves < MaxMoves
    /\ moves' = moves + 1
    /\ dir' = [n \in Names |-> IF n \in DOMAIN edit THEN edit[n] ELSE dir[n]]
    /\ touched' = touched \cup DOMAIN edit
    /\ late' = late \cup DOMAIN edit
    /\ UNCHANGED <<command, stage, next, plan, item, ending, exit, replaced, overwritten>>

OthersUnlink == \E n \in Names : Present(n) /\ Edit([m \in {n} |-> None])
OthersLink ==
    \E from, to \in Names :
        Regular(from) /\ ~Present(to) /\ Edit([m \in {to} |-> dir[from]])
OthersRename ==
    \E from, to \in Names :
        /\ Present(from) /\ dir[from] # dir[to]
        /\ Edit([m \in {from, to} |-> IF m = to THEN dir[from] ELSE None])

Others == OthersUnlink \/ OthersLink \/ OthersRename

-------------------------------------------------------------------------------

Init ==
    /\ command \in Commands
    /\ dir \in Directories
    /\ stage = "collect"
    /\ next = 1
    /\ sources = <<>>
    /\ outputs = <<>>
    /\ claimed = [keys |-> {}, files |-> {}, defaults |-> <<>>, reserved |-> {}]
    /\ target = None
    /\ opened = None
    /\ aside = None
    /\ consent = {}
    /\ outcome = "open"
    /\ counters = [success |-> 0, errors |-> 0, skipped |-> 0]
    /\ exit = None
    /\ moves = 0
    /\ touched = {}
    /\ late = {}
    /\ results = <<>>
    /\ replaced = {}
    /\ overwritten = {}

Run ==
    \/ Collect \/ Sort \/ Identify \/ NoteDefault \/ Assign \/ Password
    \/ EncryptSource \/ DecryptSource \/ ChooseOutput \/ Reserve
    \/ Observe \/ Replace \/ Discard \/ Failed \/ Done \/ Shred \/ Summary

Over == stage = "exited" /\ UNCHANGED vars

Next == Run \/ Others \/ Over

\* The program runs on, but nobody can be made to answer its prompts.
Asking ==
    \/ stage = "password"
    \/ stage = "observe" /\ Regular(target) /\ ~command.force

Spec == Init /\ [][Next]_vars /\ WF_vars(~Asking /\ Run)

-------------------------------------------------------------------------------
TypeOK ==
    /\ command \in Commands
    /\ stage \in {"collect", "identify", "default", "assign", "password", "item", "choose",
                  "reserve", "observe", "replace", "shred", "summary", "exited"}
    /\ next \in 1 .. Len(command.inputs) + 1 \cup DOMAIN sources
    /\ \A i \in DOMAIN sources :
        /\ Source(i) \in Names
        /\ sources[i].file \in Files
        /\ sources[i].target \in Dirs
    /\ outputs \in Seq(Names) /\ Len(outputs) <= Len(sources)
    /\ claimed.keys \cup claimed.reserved \subseteq Names
    /\ claimed.files \subseteq Files
    /\ claimed.defaults \in Seq(Names) /\ Len(claimed.defaults) <= Len(sources)
    /\ dir \in [Names -> Files \cup {None}]
    /\ target \in Names \cup {None}
    /\ {opened, aside} \subseteq Files \cup {None}
    /\ consent \in SUBSET Files
    /\ outcome \in {"open", "installed", "committed", "undone", "done", "failed"}
    /\ counters.success + counters.errors + counters.skipped = Len(results)
    /\ Len(results) <= Len(sources)
    /\ exit \in {None, 0, 1}
    /\ moves \in 0 .. MaxMoves
    /\ touched \cup late \subseteq Names
    /\ replaced \cup overwritten \subseteq Files

\* The output of the i-th file is there, whether or not its --shred succeeded.
Committed(i) == i \in DOMAIN results /\ results[i].committed

\* The files of a batch do not spoil each other's input: a source stays what
\* and where it was found, its contents included, until its own --shred, which
\* is not reached before its output is committed, unless other processes
\* change its name.
InputsKept ==
    \A i \in DOMAIN sources :
        \/ Source(i) \in touched
        \/ dir[Source(i)] = sources[i].file /\ sources[i].file \notin overwritten
        \/ command.shred /\ Committed(i)

\* ... nor each other's output (README, Filesystem Guarantees): what a file of
\* the batch has committed stays under its name, also when its --shred failed,
\* unless others change the name.
OutputsStay ==
    \A i \in DOMAIN results : results[i].outcome = "ok" \/ results[i].committed =>
        results[i].target \in touched \/ dir[results[i].target] = Product[i]

\* A decryption never replaces one of its ciphertexts under any name, a hard
\* link made before the reservation included.
NoAliasReplaced == op = "decrypt" => replaced \cap claimed.files = {}

\* Exit status 0 says that every file found has its output, and 1 after the
\* loop that some file has not been finished.
ExitTellsTruth ==
    /\ exit = 0 =>
        /\ sources # <<>>
        /\ Len(results) = Len(sources)
        /\ \A i \in DOMAIN results : results[i].outcome = "ok"
    /\ exit = 1 => \/ results = <<>>
                   \/ \E i \in DOMAIN results : results[i].outcome # "ok"

\* The command ends, whatever others do: no file is tried again, and nothing
\* waits for a name to become free; only a prompt may be left unanswered.
CommandEnds == <>(exit # None) \/ <>[]Asking
===============================================================================
