------------------------------ MODULE BatchProofs ------------------------------
(***************************************************************************)
(* Theorems about one command with file arguments, for every command line, *)
(* every layout of directories, every number of files, and whatever the    *)
(* other processes do to the names meanwhile.                              *)
(***************************************************************************)
EXTENDS Batch, SequenceTheorems, FiniteSetTheorems, TLAPS

-------------------------------------------------------------------------------
(* Types and control.                                                      *)

Planning == {"collect", "identify", "default"}
PerFile == {"item", "choose", "reserve", "observe", "replace", "shred"}
Planned == {"assign", "password", "summary"} \cup PerFile
Placed == {"reserve", "observe", "replace", "shred"}

Entries(c) ==
    {e \in [path : DOMAIN Place, file : Files \ Links, target : Dirs] :
        Place[e.path] \in Within(c)}
\* ... and as it is there now.
Fresh(c) == {e \in Entries(c) : e.file = dir[Place[e.path]]}
Verdicts == [outcome : {"ok", "cancelled", "error"}, target : Names \cup {None},
             committed : BOOLEAN]
Claims == [keys : SUBSET Names, files : SUBSET Files, defaults : Seq(Names),
           reserved : SUBSET Names]

\* The state by itself.
Typed ==
    /\ command \in Commands
    /\ stage \in Planning \cup Planned \cup {"exited"}
    /\ sources \in Seq(Entries(command))
    /\ outputs \in Seq(Names)
    /\ claimed \in Claims
    /\ dir \in [Names -> Files \cup {None}]
    /\ target \in Names \cup {None}
    /\ opened \in Files \cup {None}
    /\ aside \in Files \cup {None}
    /\ consent \in SUBSET Files
    /\ outcome \in {"open", "installed", "committed", "undone", "done", "failed"}
    /\ results \in Seq(Verdicts)
    /\ counters \in [success : Nat, errors : Nat, skipped : Nat]
    /\ exit \in {None, 0, 1}
    /\ moves \in 0 .. MaxMoves
    /\ touched \subseteq Names
    /\ late \subseteq Names
    /\ replaced \subseteq Files
    /\ overwritten \subseteq Files

\* Where the command is, and how much of the plan and of the loop is behind it.
Flow ==
    /\ next \in 1 .. Len(command.inputs) + 1 \cup DOMAIN sources
    /\ stage = "collect" => next \in 1 .. Len(command.inputs) + 1
    /\ stage \in Planning => outputs = <<>>
    /\ stage \in {"identify", "default"} \cup Planned =>
        sources # <<>> /\ next \in DOMAIN sources
    /\ stage \in {"collect", "identify"} => claimed.defaults = <<>>
    /\ stage = "default" => op = "encrypt" /\ Len(claimed.defaults) = next - 1
    /\ Len(claimed.defaults) <= Len(sources)
    /\ stage = "assign" => op = "encrypt" /\ Len(outputs) = next - 1
    /\ stage \in Planned \ {"assign"} /\ op = "encrypt" => Len(outputs) = Len(sources)
    /\ Len(outputs) <= Len(sources)
    /\ stage \in Planning \cup {"assign", "password"} => results = <<>>
    /\ stage \in PerFile => Len(results) = next - 1
    /\ stage = "summary" => Len(results) = Len(sources)
    /\ Len(results) <= Len(sources)
    /\ stage \in Placed => target \in Names
    /\ stage \in PerFile \ {"item"} => opened \in Files
    /\ stage = "choose" => Inside[opened] # None
    /\ stage \in {"choose", "reserve"} => op = "decrypt"
    /\ exit = None <=> stage # "exited"

TypeInv == Typed /\ Flow

LEMMA InitType == Init => TypeInv
BY BatchAssumption, EmptySeq
DEF Init, TypeInv, Typed, Claims, Flow, Planning, Planned, PerFile, Placed, op

LEMMA RejectType ==
    ASSUME TypeInv, Reject, stage # "exited"
    PROVE  TypeInv'
BY BatchAssumption
DEF Reject, Exit, TypeInv, Typed, Flow, Planning, Planned, PerFile, Placed, op, item, replacing,
    ending, histories, plan

\* The lists of the plan and of the results are sequences.
LEMMA Lists ==
    ASSUME Typed
    PROVE  /\ Len(sources) \in Nat /\ DOMAIN sources = 1 .. Len(sources)
           /\ Len(outputs) \in Nat /\ DOMAIN outputs = 1 .. Len(outputs)
           /\ Len(results) \in Nat /\ DOMAIN results = 1 .. Len(results)
           /\ Len(command.inputs) \in Nat
           /\ Len(claimed.defaults) \in Nat
           /\ DOMAIN command.inputs = 1 .. Len(command.inputs)
BY PathAssumption, LenProperties DEF Typed, Claims

\* What a name stands for once links are followed: a key, and an identity.
LEMMA Keys ==
    ASSUME Typed, NEW n \in Names
    PROVE  /\ Key(n) \in Names \cup {None}
           /\ dir[n] \notin Links => Key(n) = n /\ Identity(n) = dir[n]
           /\ Identity(n) \in (Files \ Links) \cup {None}
           /\ Exists(n) => Key(n) \in Names /\ Identity(n) \in Files \ Links
           /\ ~Exists(n) /\ Key(n) # None => Key(n) = n
<1> DEFINE m == Final(n)
<1> HIDE DEF m
<1>1. Key(n) = IF dir[n] \notin Links THEN n
               ELSE IF m \in {l \in Names : Regular(l)} THEN m
               ELSE IF Present(m) THEN None ELSE n
  BY DEF Key, m
<1> QED
  BY <1>1, BatchAssumption DEF Identity, Exists, Regular, Present, Typed

LEMMA SourceType ==
    ASSUME Typed, NEW i \in DOMAIN sources
    PROVE  /\ Source(i) \in Names
           /\ Source(i) \in Within(command)
           /\ sources[i] \in Entries(command)
<1>1. sources[i] \in Entries(command)
  BY Lists, ElementOfSeq DEF Typed
<1> QED
  BY <1>1 DEF Source, Entries, Within

LEMMA VerdictFields ==
    ASSUME NEW a, NEW b, NEW c \in BOOLEAN
    PROVE  LET v == [outcome |-> a, target |-> b, committed |-> c]
           IN  v.outcome = a /\ v.target = b /\ (v.committed <=> c)
OBVIOUS

LEMMA ConcludeType ==
    ASSUME TypeInv, NEW result \in {"ok", "cancelled", "error"}, Conclude(result),
           stage \in PerFile, dir' \in [Names -> Files \cup {None}], overwritten' \subseteq Files
    PROVE  TypeInv'
<1> DEFINE verdict == [outcome |-> result, target |-> target, committed |-> outcome = "done"]
<1>1. verdict \in Verdicts
  BY DEF TypeInv, Typed, Verdicts
<1>2. /\ results' \in Seq(Verdicts)
      /\ Len(results') = Len(results) + 1
  BY <1>1, AppendProperties DEF TypeInv, Typed, Conclude
<1>3. counters' \in [success : Nat, errors : Nat, skipped : Nat]
  <2>1. counters \in [success : Nat, errors : Nat, skipped : Nat] /\ counters' = Count(result)
    BY DEF TypeInv, Typed, Conclude
  <2> QED
    BY <2>1 DEF Count
<1>4. Typed'
  BY <1>2, <1>3 DEF TypeInv, Typed, Conclude, Close, Planning, Planned, PerFile, plan
<1>5. /\ DOMAIN sources = 1 .. Len(sources)
      /\ next \in 1 .. Len(sources) /\ Len(sources) \in Nat
      /\ Len(results) = next - 1 /\ sources # <<>>
      /\ op = "encrypt" => Len(outputs) = Len(sources)
      /\ Len(outputs) <= Len(sources)
      /\ exit = None
  BY Lists DEF TypeInv, Flow, Planned, PerFile
<1>6. UNCHANGED <<command, sources, outputs, claimed, exit, op>>
  BY DEF Conclude, plan, op
<1>7. CASE next < Len(sources) /\ next' = next + 1 /\ stage' = "item"
  <2>1. next' \in DOMAIN sources /\ Len(results') = next' - 1
    BY <1>2, <1>5, <1>7
  <2> QED
    BY <1>2, <1>4, <1>5, <1>6, <1>7, <2>1
    DEF TypeInv, Flow, Planning, Planned, PerFile, Placed
<1>8. CASE ~(next < Len(sources)) /\ next' = next /\ stage' = "summary"
  <2>0. next \in Int /\ Len(sources) \in Int /\ next <= Len(sources)
    BY <1>5
  <2>1. next = Len(sources)
    BY <1>8, <2>0
  <2>2. next' \in DOMAIN sources /\ Len(results') = Len(sources)
    BY <1>2, <1>5, <1>8, <2>1
  <2> QED
    BY <1>2, <1>4, <1>5, <1>6, <1>8, <2>1, <2>2, Lists
    DEF TypeInv, Flow, Planning, Planned, PerFile, Placed
<1> QED
  BY <1>4, <1>7, <1>8 DEF TypeInv, Conclude

LEMMA DropType ==
    ASSUME TypeInv, NEW result \in {"ok", "cancelled", "error"}, Drop(result), stage \in PerFile
    PROVE  TypeInv'
BY ConcludeType DEF Drop, TypeInv, Typed

\* Every file found lies within what the command was asked for.
LEMMA FoundType ==
    ASSUME Typed, NEW p \in Range(command.inputs), ~Unusable(p), NEW found \in Found(p)
    PROVE  found \in Seq(Fresh(command))
<1> DEFINE n == Place[p]
<1>1. p \in DOMAIN Place
  BY DEF Typed, Place
<1>2. CASE n \in Dirs
  <2> DEFINE below == {m \in Below(n) : Eligible(m)}
             Entry(m) == [path |-> m, file |-> dir[m], target |-> Rebased(n, m, Base(command, n))]
  <2>1. PICK files \in Listings(below) : found = [i \in DOMAIN files |-> Entry(files[i])]
    BY <1>2 DEF Found
  <2>2. IsFiniteSet(below) /\ Cardinality(below) \in Nat
    BY BatchAssumption, FS_Subset, FS_CardinalityType DEF Below
  <2>3. files \in [1 .. Cardinality(below) -> below]
    BY <2>1 DEF Listings, Bijection, Injection
  <2>4. ASSUME NEW m \in below PROVE Entry(m) \in Fresh(command)
    <3>1. m \in Names /\ IsStrictPrefix(n, m) /\ dir[m] \in Files \ Links /\ Place[m] = m
      BY <1>2, PathAssumption DEF Below, Present, Typed, Unusable
    <3>2. Rebased(n, m, Base(command, n)) \in Dirs
      BY <3>1, PathAssumption DEF Typed
    <3>3. m \in DOMAIN Place /\ Place[m] \in Within(command)
      BY <3>1 DEF Place, Within
    <3> QED
      BY <3>1, <3>2, <3>3 DEF Entries, Fresh
  <2>5. found \in [1 .. Cardinality(below) -> Fresh(command)]
    BY <2>1, <2>3, <2>4
  <2> QED
    BY <2>2, <2>5, SeqDef
<1>3. CASE n \notin Dirs
  <2> DEFINE entry == [path |-> p, file |-> dir[n], target |-> Base(command, Cwd)]
  <2>1. n \in Names /\ dir[n] \in Files \ Links
    BY <1>3, PathAssumption DEF Unusable, Regular, Present, Typed
  <2>2. n \in Within(command)
    BY <2>1 DEF Within
  <2>3. Base(command, Cwd) \in Dirs
    BY PathAssumption, BatchAssumption DEF Base, Typed
  <2>4. entry \in Fresh(command)
    BY <1>1, <2>1, <2>2, <2>3 DEF Entries, Fresh
  <2>5. found = <<entry>>
    BY <1>3 DEF Found
  <2> QED
    BY <2>4, <2>5
<1> QED
  BY <1>2, <1>3

LEMMA FreshEntries ==
    ASSUME NEW found \in Seq(Fresh(command))
    PROVE  found \in Seq(Entries(command))
<1>1. \A i \in 1 .. Len(found) : found[i] \in Entries(command)
  BY ElementOfSeq DEF Fresh
<1>2. found \in [1 .. Len(found) -> Entries(command)] /\ Len(found) \in Nat
  BY <1>1, LenProperties
<1> QED
  BY <1>2, SeqDef

LEMMA CollectType ==
    ASSUME TypeInv, Collect
    PROVE  TypeInv'
<1> DEFINE path == command.inputs[next]
<1>1. CASE Reject
  BY <1>1, RejectType DEF Collect
<1>2. CASE ~Reject
  <2>1. PICK found \in Found(path) :
          /\ ~Unusable(path)
          /\ sources' = sources \o found
          /\ next' = next + 1
          /\ UNCHANGED <<command, stage, outputs, claimed, dir, item, ending, exit, histories>>
    BY <1>2 DEF Collect
  <2>2. path \in Range(command.inputs)
    BY Lists DEF Collect, TypeInv, Flow, Planning, Range
  <2>3. found \in Seq(Entries(command))
    BY <2>1, <2>2, FoundType, FreshEntries DEF TypeInv
  <2>4. sources' \in Seq(Entries(command))
    BY <2>1, <2>3, ConcatProperties DEF TypeInv, Typed
  <2>5. Typed'
    BY <2>1, <2>4 DEF TypeInv, Typed, item, replacing, ending, histories
  <2>6. Flow'
    BY <2>1, <2>5, Lists, LenProperties
    DEF Collect, TypeInv, Typed, Flow, Planning, Planned, PerFile, Placed, op, item, replacing,
        ending, histories
  <2> QED
    BY <2>5, <2>6 DEF TypeInv
<1> QED
  BY <1>1, <1>2
LEMMA SortType ==
    ASSUME TypeInv, Sort
    PROVE  TypeInv'
<1>1. CASE Reject
  BY <1>1, RejectType DEF Sort
<1>2. CASE ~Reject
  <2>1. PICK p \in Bijection(DOMAIN sources, DOMAIN sources) :
          sources' = [i \in DOMAIN sources |-> sources[p[i]]]
    BY <1>2 DEF Sort, Sortings
  <2>2. p \in [1 .. Len(sources) -> 1 .. Len(sources)]
    BY <2>1, Lists DEF Bijection, Injection, TypeInv
  <2>3. \A i \in 1 .. Len(sources) : sources[i] \in Entries(command)
    BY ElementOfSeq DEF TypeInv, Typed
  <2>4. sources' \in [1 .. Len(sources) -> Entries(command)] /\ Len(sources) \in Nat
    BY <2>1, <2>2, <2>3, Lists DEF TypeInv
  <2>5. sources' \in Seq(Entries(command)) /\ Len(sources') = Len(sources)
    BY <2>4, SeqDef, LenProperties
  <2>6. Typed'
    BY <1>2, <2>5 DEF Sort, TypeInv, Typed, Planning, item, replacing, ending, histories
  <2>7. sources' # <<>>
    BY <1>2, <2>5, Lists, EmptySeq DEF Sort, TypeInv, Typed
  <2>8. 1 \in DOMAIN sources'
    BY <2>5, <2>7, EmptySeq, LenProperties
  <2> QED
    BY <1>2, <2>5, <2>6, <2>7, <2>8, Lists
    DEF Sort, TypeInv, Flow, Planning, Planned, PerFile, Placed, op, item, replacing, ending,
        histories
<1> QED
  BY <1>1, <1>2

\* Whether there is another source, or the next part begins at the first.
LEMMA NextSourceType ==
    ASSUME Typed, sources # <<>>, next \in DOMAIN sources, NEW label, NextSource(label)
    PROVE  /\ next' \in DOMAIN sources
           /\ \/ next < Len(sources) /\ next' = next + 1 /\ stage' = stage
              \/ next = Len(sources) /\ next' = 1 /\ stage' = label
BY Lists DEF NextSource

LEMMA IdentifyType ==
    ASSUME TypeInv, Identify
    PROVE  TypeInv'
<1>1. CASE Reject
  BY <1>1, RejectType DEF Identify
<1>2. CASE ~Reject
  <2> DEFINE n == Source(next)
  <2>1. /\ Exists(n)
        /\ sources' = [sources EXCEPT ![next].file = Identity(n)]
        /\ claimed' = [claimed EXCEPT !.keys = @ \cup {Key(n)}, !.files = @ \cup {Identity(n)}]
        /\ NextSource(IF op = "encrypt" THEN "default" ELSE "password")
        /\ UNCHANGED <<command, outputs, dir, item, ending, exit, histories>>
    BY <1>2 DEF Identify
  <2>2. /\ stage = "identify" /\ next \in DOMAIN sources /\ sources # <<>> /\ exit = None
        /\ outputs = <<>> /\ results = <<>> /\ claimed.defaults = <<>>
    BY DEF Identify, TypeInv, Flow, Planning
  <2>3. n \in Names /\ sources[next] \in Entries(command)
    BY <2>2, SourceType DEF TypeInv
  <2>4. Key(n) \in Names /\ Identity(n) \in Files \ Links
    BY <2>1, <2>3, Keys DEF TypeInv
  <2>5. [sources[next] EXCEPT !.file = Identity(n)] \in Entries(command)
    BY <2>3, <2>4 DEF Entries
  <2>6. sources' = [sources EXCEPT ![next] = [sources[next] EXCEPT !.file = Identity(n)]]
    BY <2>1
  <2>7. sources' \in Seq(Entries(command)) /\ Len(sources') = Len(sources)
    BY <2>2, <2>5, <2>6, ExceptSeq DEF TypeInv, Typed
  <2>8. claimed' \in Claims /\ claimed'.defaults = claimed.defaults
    BY <2>1, <2>4 DEF TypeInv, Typed, Claims
  <2>9. /\ next' \in DOMAIN sources'
        /\ stage' \in {"identify", "default", "password"}
        /\ stage' = "default" => op = "encrypt" /\ next' = 1
        /\ stage' = "password" => op # "encrypt"
    BY <2>1, <2>2, <2>7, NextSourceType, Lists, LenProperties DEF TypeInv, Typed
  <2>10. Typed'
    BY <2>1, <2>7, <2>8, <2>9
    DEF TypeInv, Typed, Planning, Planned, PerFile, item, replacing, ending, histories
  <2>11. sources' # <<>>
    BY <2>2, <2>7, Lists, EmptySeq DEF TypeInv, Typed
  <2> QED
    BY <2>1, <2>2, <2>7, <2>8, <2>9, <2>10, <2>11, Lists
    DEF TypeInv, Flow, Planning, Planned, PerFile, Placed, op, item, replacing, ending, histories
<1> QED
  BY <1>1, <1>2

LEMMA NoteDefaultType ==
    ASSUME TypeInv, NoteDefault
    PROVE  TypeInv'
<1>1. CASE Reject
  BY <1>1, RejectType DEF NoteDefault
<1>2. CASE ~Reject
  <2> DEFINE key == Key(Default(Source(next)))
  <2>1. /\ key # None
        /\ claimed' = [claimed EXCEPT !.defaults = Append(@, key)]
        /\ NextSource("assign")
        /\ UNCHANGED <<command, sources, outputs, dir, item, ending, exit, histories>>
    BY <1>2 DEF NoteDefault
  <2>2. /\ stage = "default" /\ next \in DOMAIN sources /\ sources # <<>> /\ exit = None
        /\ outputs = <<>> /\ results = <<>> /\ op = "encrypt"
        /\ Len(claimed.defaults) = next - 1
    BY DEF NoteDefault, TypeInv, Flow, Planning
  <2>3. Default(Source(next)) \in Names
    BY <2>2, SourceType, PathAssumption DEF TypeInv, Typed, op
  <2>4. key \in Names
    BY <2>1, <2>3, Keys DEF TypeInv
  <2>5. /\ claimed' = [claimed EXCEPT !.defaults = Append(claimed.defaults, key)]
        /\ claimed.defaults \in Seq(Names)
    BY <2>1 DEF TypeInv, Typed, Claims
  <2>6. /\ Append(claimed.defaults, key) \in Seq(Names)
        /\ Len(Append(claimed.defaults, key)) = Len(claimed.defaults) + 1
    BY <2>4, <2>5, AppendProperties
  <2> HIDE DEF key
  <2>13. claimed' \in Claims /\ claimed'.defaults = Append(claimed.defaults, key)
    BY <2>5, <2>6 DEF TypeInv, Typed, Claims
  <2>7. claimed' \in Claims /\ Len(claimed'.defaults) = next
    BY <2>2, <2>6, <2>13, Lists DEF TypeInv
  <2>8. /\ next' \in DOMAIN sources
        /\ \/ stage' = "default" /\ next' = next + 1
           \/ stage' = "assign" /\ next' = 1
    BY <2>1, <2>2, NextSourceType DEF TypeInv
  <2>9. Typed'
    BY <2>1, <2>7, <2>8
    DEF TypeInv, Typed, Planning, Planned, PerFile, item, replacing, ending, histories
  <2>10. Len(claimed'.defaults) <= Len(sources) /\ next \in Int
    BY <2>2, <2>7, Lists DEF TypeInv
  <2>11. Len(outputs) = 0
    BY <2>2, EmptySeq
  <2>12. stage' = "default" => Len(claimed'.defaults) = next' - 1
    BY <2>7, <2>8, <2>10
  <2> QED
    BY <2>1, <2>2, <2>8, <2>9, <2>10, <2>11, <2>12, Lists
    DEF TypeInv, Flow, Planning, Planned, PerFile, Placed, op, item, replacing, ending, histories
<1> QED
  BY <1>1, <1>2

\* An output given out is no link, so that it is its own key.
LEMMA AssignOutput ==
    ASSUME TypeInv, Assign, ~Reject
    PROVE  \E output \in Names \ unavailable : Assigned(output) /\ Key(output) = output
<1> DEFINE n == Source(next)
<1>1. next \in DOMAIN sources /\ op = "encrypt"
  BY DEF Assign, TypeInv, Flow, Planned
<1>2. n \in Names /\ Default(n) \in Names
  BY <1>1, SourceType, PathAssumption DEF TypeInv, Typed, op
<1>3. CASE /\ Assigned(Default(n))
           /\ Key(Default(n)) \notin unavailable
           /\ Comparable(n, Default(n)) /\ ~SameFile(n, Default(n))
  <2>1. dir[Default(n)] \notin Links
    BY <1>3, BatchAssumption DEF Comparable, SameFile, Regular, Present
  <2> QED
    BY <1>2, <1>3, <2>1, Keys DEF TypeInv
<1>4. CASE \E m \in UniqueEncrypted(Front(n)) : Assigned(m)
  BY <1>4, Keys, BatchAssumption DEF UniqueEncrypted, UniqueDecrypted, TypeInv
<1> QED
  BY <1>3, <1>4 DEF Assign

LEMMA AssignType ==
    ASSUME TypeInv, Assign
    PROVE  TypeInv'
<1>1. CASE Reject
  BY <1>1, RejectType DEF Assign
<1>2. CASE ~Reject
  <2>1. /\ next \in DOMAIN sources /\ op = "encrypt" /\ stage = "assign" /\ sources # <<>>
        /\ Len(outputs) = next - 1 /\ results = <<>> /\ exit = None
    BY DEF Assign, TypeInv, Flow, Planned
  <2>3. PICK output \in Names : Assigned(output) /\ Key(output) = output
    BY <1>2, AssignOutput
  <2>4. outputs' \in Seq(Names) /\ Len(outputs') = Len(outputs) + 1
    BY <2>3, AppendProperties DEF Assigned, TypeInv, Typed
  <2>5. claimed' \in Claims /\ claimed'.defaults = claimed.defaults
    BY <2>3 DEF Assigned, TypeInv, Typed, Claims
  <2>6. /\ next' \in DOMAIN sources
        /\ \/ next < Len(sources) /\ stage' = "assign" /\ next' = next + 1
           \/ next = Len(sources) /\ stage' = "password" /\ next' = 1
    BY <2>1, <2>3, NextSourceType DEF TypeInv, Assigned
  <2>7. Typed'
    BY <2>1, <2>3, <2>4, <2>5, <2>6
    DEF Assigned, TypeInv, Typed, Planned, PerFile, Planning, item, replacing, ending, histories
  <2>8. /\ Len(outputs') <= Len(sources)
        /\ stage' = "assign" => Len(outputs') = next' - 1
        /\ stage' = "password" => Len(outputs') = Len(sources)
    BY <2>1, <2>4, <2>6, Lists DEF TypeInv
  <2>9. UNCHANGED <<command, sources, item, ending, exit, histories, op>>
    BY <2>3 DEF Assigned, op
  <2> QED
    BY <2>1, <2>5, <2>6, <2>7, <2>8, <2>9
    DEF TypeInv, Flow, Planning, Planned, PerFile, Placed, item, ending
<1> QED
  BY <1>1, <1>2

LEMMA PasswordType ==
    ASSUME TypeInv, Password
    PROVE  TypeInv'
<1>1. CASE Reject
  BY <1>1, RejectType DEF Password
<1>2. CASE ~Reject
  <2>1. /\ stage = "password" /\ stage' = "item" /\ next' = 1
        /\ UNCHANGED <<command, plan, dir, item, ending, exit, histories>>
    BY <1>2 DEF Password
  <2>2. next \in DOMAIN sources /\ DOMAIN sources = 1 .. Len(sources) /\ Len(sources) \in Nat
    BY <2>1, Lists DEF TypeInv, Flow, Planned
  <2>4. 1 \in DOMAIN sources
    BY <2>2
  <2>3. Typed'
    BY <2>1 DEF TypeInv, Typed, Planned, PerFile, plan, item, replacing, ending, histories
  <2> QED
    BY <2>1, <2>3, <2>4, EmptySeq
    DEF TypeInv, Flow, Planning, Planned, PerFile, Placed, op, plan, item, ending
<1> QED
  BY <1>1, <1>2
LEMMA SourcesType ==
    ASSUME TypeInv, EncryptSource \/ DecryptSource
    PROVE  TypeInv'
<1>1. stage \in PerFile /\ next \in DOMAIN sources
  BY DEF EncryptSource, DecryptSource, TypeInv, Flow, Planned, PerFile
<1>2. CASE Drop("error")
  BY <1>1, <1>2, DropType
<1>3. CASE EncryptSource /\ ~Drop("error")
  <2>1. next \in 1 .. Len(outputs) /\ op = "encrypt"
    BY <1>1, <1>3, Lists DEF EncryptSource, TypeInv, Flow, Planned, PerFile
  <2>2. outputs[next] \in Names
    BY <2>1, ElementOfSeq DEF TypeInv, Typed
  <2>3. dir[Source(next)] \in Files
    BY <1>1, <1>3, SourceType DEF EncryptSource, Regular, Present, TypeInv, Typed
  <2> QED
    BY <1>3, <2>1, <2>2, <2>3
    DEF EncryptSource, Proceed, TypeInv, Typed, Flow, Planning, Planned, PerFile, Placed, op,
        plan, replacing, ending
<1>4. CASE DecryptSource /\ ~Drop("error")
  <2>1. dir[Source(next)] \in Files
    BY <1>1, <1>4, SourceType DEF DecryptSource, Regular, Present, TypeInv, Typed
  <2> QED
    BY <1>4, <2>1
    DEF DecryptSource, Proceed, TypeInv, Typed, Flow, Planning, Planned, PerFile, Placed, op,
        plan, replacing, ending
<1> QED
  BY <1>2, <1>3, <1>4

LEMMA ChooseType ==
    ASSUME TypeInv, ChooseOutput
    PROVE  TypeInv'
<1>1. stage = "choose" /\ op = "decrypt" /\ next \in DOMAIN sources /\ opened \in Files
      /\ Inside[opened] # None
  BY DEF ChooseOutput, TypeInv, Flow, Planned, PerFile
<1>2. CASE Drop("error")
  BY <1>1, <1>2, DropType DEF PerFile
<1>3. CASE ~Drop("error")
  <2> DEFINE d == sources[next].target
  <2>1. PICK name \in Sanitized(Inside[opened]) :
          /\ target' \in UniqueDecrypted(d) \cup {Append(d, name)}
          /\ Proceed("reserve")
          /\ UNCHANGED <<plan, opened, late>>
    BY <1>3 DEF ChooseOutput
  <2>2. d \in Dirs
    BY <1>1, SourceType DEF TypeInv, Entries
  <2>3. name \in Range(Inside[opened]) /\ name \notin {".", ".."}
    BY <2>1 DEF Sanitized, Range
  <2>4. target' \in Names
    BY <1>1, <2>1, <2>2, <2>3, BatchAssumption DEF UniqueDecrypted
  <2> QED
    BY <1>1, <2>1, <2>4
    DEF Proceed, TypeInv, Typed, Flow, Planning, Planned, PerFile, Placed, op, plan, replacing,
        ending
<1> QED
  BY <1>2, <1>3

LEMMA ReserveType ==
    ASSUME TypeInv, Reserve
    PROVE  TypeInv'
<1>1. CASE Drop("error")
  BY <1>1, DropType DEF Reserve, PerFile
<1>2. CASE Reserved /\ ~Drop("error")
  <2>1. stage = "reserve" /\ target \in Names /\ dir[target] \notin Links
    BY <1>2 DEF Reserve, TypeInv, Flow, Placed
  <2>2. Key(target) = target
    BY <2>1, Keys DEF TypeInv
  <2>3. claimed' \in Claims /\ claimed'.defaults = claimed.defaults
    BY <1>2, <2>1, <2>2 DEF Reserved, TypeInv, Typed, Claims
  <2> QED
    BY <1>2, <2>1, <2>3
    DEF Reserved, Proceed, TypeInv, Typed, Flow, Planning, Planned, PerFile, Placed, op, replacing,
        ending
<1> QED
  BY <1>1, <1>2 DEF Reserve

LEMMA ObserveType ==
    ASSUME TypeInv, Observe
    PROVE  TypeInv'
<1>1. CASE Drop("error") \/ Drop("cancelled")
  BY <1>1, DropType DEF Observe, PerFile
<1>2. CASE ~Drop("error") /\ ~Drop("cancelled")
  <2>1. dir[target] \in Files \cup {None}
    BY DEF Observe, TypeInv, Typed, Flow, Placed
  <2> QED
    BY <1>2, <2>1
    DEF Observe, TypeInv, Typed, Flow, Planning, Planned, PerFile, Placed, op, plan, ending,
        histories
<1> QED
  BY <1>1, <1>2

\* The steps of AtomicReplace, at the output at hand.
Replacing(k, n) ==
    /\ k = next /\ n = target
    /\ \/ Out(k, n)!Withdraw \/ Out(k, n)!Install \/ Out(k, n)!Commit
       \/ Out(k, n)!Finish \/ Out(k, n)!Abort \/ Out(k, n)!Restore

LEMMA ReplaceType ==
    ASSUME TypeInv, Replace \/ Discard
    PROVE  TypeInv'
<1>1. stage = "replace" /\ next \in DOMAIN Product /\ target \in Names
  BY DEF Replace, Discard
<1>2. Product[next] \in Files
  BY <1>1, BatchAssumption DEF Range
<1>3. dir[target] \in Files \cup {None}
  BY <1>1 DEF TypeInv, Typed
<1>4. CASE Replace
  <2>1. PICK k \in DOMAIN Product, n \in Names : Replacing(k, n)
    BY <1>4 DEF Replace, Replacing
  <2>2. /\ dir' \in [Names -> Files \cup {None}]
        /\ aside' \in Files \cup {None}
        /\ consent' = consent
        /\ outcome' \in {"open", "installed", "committed", "undone", "done", "failed"}
    BY <1>2, <1>3, <2>1
    DEF Replacing, Out!Withdraw, Out!Install, Out!Commit, Out!Finish, Out!Abort, Out!Restore,
        TypeInv, Typed
  <2> QED
    BY <1>1, <1>4, <2>2
    DEF Replace, TypeInv, Typed, Flow, Planning, Planned, PerFile, Placed, op, plan, ending,
        histories
<1>5. CASE Discard
  <2>1. PICK k \in DOMAIN Product, n \in Names : Out(k, n)!Discard
    BY <1>5 DEF Discard
  <2>2. aside \in Files /\ aside' = None /\ UNCHANGED <<dir, consent, outcome>>
    BY <2>1 DEF Out!Discard, TypeInv, Typed
  <2> QED
    BY <1>1, <1>5, <2>2
    DEF Discard, TypeInv, Typed, Flow, Planning, Planned, PerFile, Placed, op, plan, ending
<1> QED
  BY <1>4, <1>5

LEMMA EndingType ==
    ASSUME TypeInv, Failed \/ Done \/ Shred
    PROVE  TypeInv'
<1>1. stage \in PerFile
  BY DEF Failed, Done, Shred, PerFile
<1>2. CASE Drop("error") \/ Drop("ok")
  BY <1>1, <1>2, DropType
<1>3. CASE Done /\ ~Drop("ok")
  BY <1>3
  DEF Done, TypeInv, Typed, Flow, Planning, Planned, PerFile, Placed, op, plan, item, replacing,
      ending, histories
<1>4. CASE Shred /\ ~Drop("error")
  <2>1. /\ dir' \in [Names -> Files \cup {None}]
        /\ overwritten' \subseteq Files
        /\ Conclude("ok") \/ Conclude("error")
    <3>1. dir[Source(next)] = opened /\ Source(next) \in Names
      BY <1>1, <1>4, SourceType DEF Shred, TypeInv, Flow, Planned
    <3>2. opened \in Files
      BY <1>4 DEF Shred, TypeInv, Flow, PerFile
    <3> QED
      BY <1>4, <3>1, <3>2 DEF Shred, TypeInv, Typed
  <2> QED
    BY <1>1, <2>1, ConcludeType
<1> QED
  BY <1>2, <1>3, <1>4 DEF Failed, Done, Shred

LEMMA SummaryType ==
    ASSUME TypeInv, Summary
    PROVE  TypeInv'
BY BatchAssumption
DEF Summary, Exit, TypeInv, Typed, Flow, Planning, Planned, PerFile, Placed, op, plan, item,
    replacing, ending, histories

\* What other processes do, they do to names, with files that are there.
LEMMA OthersEdit ==
    ASSUME Typed, Others
    PROVE  \E edit : /\ DOMAIN edit \subseteq Names
                     /\ \A n \in DOMAIN edit : edit[n] \in Files \cup {None}
                     /\ Edit(edit)
<1>1. CASE OthersUnlink
  <2>1. PICK n \in Names : Edit([m \in {n} |-> None])
    BY <1>1 DEF OthersUnlink
  <2> QED
    BY <2>1
<1>2. CASE OthersLink
  <2>1. PICK from \in Names, to \in Names : Edit([m \in {to} |-> dir[from]])
    BY <1>2 DEF OthersLink
  <2> QED
    BY <2>1 DEF Typed
<1>3. CASE OthersRename
  <2>1. PICK from \in Names, to \in Names :
          Edit([m \in {from, to} |-> IF m = to THEN dir[from] ELSE None])
    BY <1>3 DEF OthersRename
  <2> QED
    BY <2>1 DEF Typed
<1> QED
  BY <1>1, <1>2, <1>3 DEF Others

LEMMA OthersType ==
    ASSUME TypeInv, Others
    PROVE  TypeInv'
<1>1. PICK edit : /\ DOMAIN edit \subseteq Names
                  /\ \A n \in DOMAIN edit : edit[n] \in Files \cup {None}
                  /\ Edit(edit)
  BY OthersEdit DEF TypeInv
<1>2. dir' \in [Names -> Files \cup {None}]
  BY <1>1 DEF Edit, TypeInv, Typed
<1>3. moves' \in 0 .. MaxMoves
  BY <1>1, BatchAssumption DEF Edit, TypeInv, Typed
<1> QED
  BY <1>1, <1>2, <1>3
  DEF Edit, TypeInv, Typed, Flow, Planning, Planned, PerFile, Placed, op, plan, item, replacing,
      ending

LEMMA NextType ==
    ASSUME TypeInv, [Next]_vars
    PROVE  TypeInv'
<1>1. CASE UNCHANGED vars
  BY <1>1
  DEF vars, TypeInv, Typed, Flow, Planning, Planned, PerFile, Placed, op, plan, item, replacing,
      ending, histories
<1> QED
  BY <1>1, CollectType, SortType, IdentifyType, NoteDefaultType, AssignType, PasswordType,
     SourcesType, ChooseType,
     ReserveType, ObserveType, ReplaceType, EndingType, SummaryType, OthersType
  DEF Next, Run, Over

LEMMA TypeInvariant == Spec => []TypeInv
BY InitType, NextType, PTL DEF Spec
-------------------------------------------------------------------------------
(* Counters and exit status.                                               *)

\* Every verdict is counted once, and the two counters the exit status looks
\* at count all but "ok".
Counted ==
    /\ counters.success + counters.errors + counters.skipped = Len(results)
    /\ (counters.errors = 0 /\ counters.skipped = 0)
            <=> \A i \in DOMAIN results : results[i].outcome = "ok"

TruthInv == Counted /\ ExitTellsTruth

LEMMA InitTruth == Init => TruthInv
BY BatchAssumption DEF Init, TruthInv, Counted, ExitTellsTruth

LEMMA CountedConclude ==
    ASSUME TypeInv, TruthInv, NEW result \in {"ok", "cancelled", "error"}, Conclude(result),
           stage \in PerFile
    PROVE  TruthInv'
<1> DEFINE verdict == [outcome |-> result, target |-> target, committed |-> outcome = "done"]
<1>1. verdict \in Verdicts
  BY DEF TypeInv, Typed, Verdicts
<1>2. /\ results' \in Seq(Verdicts)
      /\ Len(results') = Len(results) + 1
      /\ \A i \in 1 .. Len(results) : results'[i] = results[i]
      /\ results'[Len(results) + 1].outcome = result
  BY <1>1, AppendProperties DEF TypeInv, Typed, Conclude
<1>3. /\ Len(results) \in Nat /\ DOMAIN results = 1 .. Len(results)
      /\ DOMAIN results' = 1 .. (Len(results) + 1)
  BY <1>2, LenProperties DEF TypeInv, Typed
<1>4. /\ counters \in [success : Nat, errors : Nat, skipped : Nat]
      /\ counters' = Count(result)
  BY DEF TypeInv, Typed, Conclude
<1>5. counters'.success + counters'.errors + counters'.skipped = Len(results')
  BY <1>2, <1>3, <1>4 DEF TruthInv, Counted, Count
<1>6. CASE result = "ok"
  <2>1. counters'.errors = counters.errors /\ counters'.skipped = counters.skipped
    BY <1>4, <1>6 DEF Count
  <2>2. (\A i \in DOMAIN results' : results'[i].outcome = "ok")
            <=> \A i \in DOMAIN results : results[i].outcome = "ok"
    BY <1>2, <1>3, <1>6
  <2> QED
    BY <1>5, <2>1, <2>2, BatchAssumption
    DEF TruthInv, Counted, ExitTellsTruth, Conclude, TypeInv, Flow, PerFile
<1>7. CASE result # "ok"
  <2>1. ~(counters'.errors = 0 /\ counters'.skipped = 0)
    BY <1>4, <1>7 DEF Count
  <2>2. ~\A i \in DOMAIN results' : results'[i].outcome = "ok"
    BY <1>2, <1>3, <1>7
  <2> QED
    BY <1>5, <2>1, <2>2, BatchAssumption
    DEF TruthInv, Counted, ExitTellsTruth, Conclude, TypeInv, Flow, PerFile
<1> QED
  BY <1>6, <1>7

LEMMA CountedReject ==
    ASSUME TypeInv, TruthInv, Reject, stage \in Planning \cup {"assign", "password"}
    PROVE  TruthInv'
BY DEF Reject, Exit, TypeInv, Flow, TruthInv, Counted, ExitTellsTruth, ending

LEMMA CountedSame ==
    ASSUME TypeInv, TruthInv, UNCHANGED <<sources, exit, ending>>
    PROVE  TruthInv'
BY DEF TruthInv, Counted, ExitTellsTruth, ending

LEMMA NextTruth ==
    ASSUME TypeInv, TruthInv, [Next]_vars
    PROVE  TruthInv'
<1>1. CASE Reject /\ stage \in Planning \cup {"assign", "password"}
  BY <1>1, CountedReject
<1>2. CASE \E result \in {"ok", "cancelled", "error"} : Conclude(result) /\ stage \in PerFile
  BY <1>2, CountedConclude
<1>3. CASE UNCHANGED <<sources, exit, ending>>
  BY <1>3, CountedSame
<1>4. CASE UNCHANGED <<exit, ending>> /\ exit = None
  BY <1>4, BatchAssumption DEF TruthInv, Counted, ExitTellsTruth, ending
<1>5. CASE Collect \/ Sort \/ Identify \/ NoteDefault \/ Assign \/ Password
  BY <1>1, <1>4, <1>5
  DEF Collect, Sort, Identify, NoteDefault, Assign, Assigned, Password, Planning, TypeInv, Flow
<1>6. CASE EncryptSource \/ DecryptSource \/ ChooseOutput \/ Reserve \/ Observe
  BY <1>2, <1>3, <1>6
  DEF EncryptSource, DecryptSource, ChooseOutput, Reserve, Reserved, Observe, Drop, Proceed, PerFile,
      plan
<1>7. CASE Replace \/ Discard \/ Failed \/ Done \/ Shred
  BY <1>2, <1>3, <1>7 DEF Replace, Discard, Failed, Done, Shred, Drop, PerFile, plan
<1>8. CASE Summary
  <2>1. /\ exit' = IF counters.errors = 0 /\ counters.skipped = 0 THEN 0 ELSE 1
        /\ UNCHANGED <<sources, ending>>
        /\ Len(results) = Len(sources) /\ sources # <<>>
    BY <1>8 DEF Summary, Exit, TypeInv, Flow, Planned, plan
  <2> QED
    BY <2>1 DEF TruthInv, Counted, ExitTellsTruth, ending
<1>9. CASE Others
  BY <1>3, <1>9, OthersEdit DEF Edit, plan, TypeInv
<1>10. CASE UNCHANGED vars
  BY <1>3, <1>10 DEF vars, plan
<1> QED
  BY <1>5, <1>6, <1>7, <1>8, <1>9, <1>10 DEF Next, Run, Over

LEMMA TruthInvariant == Spec => []TruthInv
BY InitTruth, NextTruth, TypeInvariant, PTL DEF Spec

\* Every variable keeps its type: what is planned and claimed are names and
\* files that exist, targets are directories, and every file that was begun
\* and ended is in exactly one of the three counters of main.rs.
THEOREM BatchTypeCorrect == Spec => []TypeOK
<1>1. TypeInv /\ TruthInv => TypeOK
  <2> SUFFICES ASSUME TypeInv, TruthInv PROVE TypeOK
    OBVIOUS
  <2>1. ASSUME NEW i \in DOMAIN sources
        PROVE  Source(i) \in Names /\ sources[i].file \in Files /\ sources[i].target \in Dirs
    BY SourceType DEF TypeInv, Entries
  <2>2. /\ claimed.keys \cup claimed.reserved \subseteq Names
        /\ claimed.files \subseteq Files
        /\ claimed.defaults \in Seq(Names)
        /\ replaced \cup overwritten \subseteq Files
    BY DEF TypeInv, Typed, Claims
  <2>3. /\ next \in 1 .. Len(command.inputs) + 1 \cup DOMAIN sources
        /\ outputs \in Seq(Names) /\ Len(outputs) <= Len(sources)
        /\ Len(claimed.defaults) <= Len(sources)
        /\ Len(results) <= Len(sources)
    BY DEF TypeInv, Typed, Flow
  <2> QED
    BY <2>1, <2>2, <2>3
    DEF TypeOK, TypeInv, Typed, TruthInv, Counted, Planning, Planned, PerFile
<1> QED
  BY <1>1, TypeInvariant, TruthInvariant, PTL

\* Exit status 0 is only given when every file found was finished, whatever
\* the order of failures, refusals and successes (Counters::print_summary and
\* main); status 1 after the loop only when some file was not.
THEOREM ExitTruthful == Spec => []ExitTellsTruth
BY TruthInvariant, PTL DEF TruthInv
-------------------------------------------------------------------------------
(* Planning reads; a replacement is under way only in its own stages.      *)

\* Until the batch is identified every name found leads where it led then,
\* unless others change it.
FoundInv ==
    /\ stage \in Planning => overwritten = {}
    /\ stage \in Planning => \A i \in DOMAIN sources :
        Source(i) \in touched \/ dir[Source(i)] = sources[i].file

LEMMA InitFound == Init => FoundInv
BY DEF Init, FoundInv

LEMMA PlanningSteps ==
    ASSUME TypeInv, stage \in Planning, [Next]_vars
    PROVE  \/ Reject \/ Others \/ UNCHANGED vars
           \/ /\ Collect \/ Sort \/ Identify \/ NoteDefault
              /\ ~Reject
              /\ UNCHANGED <<command, dir, results, touched, overwritten>>
BY DEF Next, Run, Over, Planning, Collect, Sort, Identify, NoteDefault, Assign, Password,
       EncryptSource, DecryptSource, ChooseOutput, Reserve, Observe, Replace, Discard, Failed,
       Done, Shred, Summary, histories, ending

\* What the plan says of its sources, before and after a step of planning.
LEMMA PlanningFound ==
    ASSUME TypeInv, FoundInv, stage \in Planning, [Next]_vars
    PROVE  /\ overwritten' = {}
           /\ \A i \in DOMAIN sources' :
                Source(i)' \in touched' \/ dir'[Source(i)'] = sources'[i].file
<1>1. CASE Reject \/ UNCHANGED vars
  BY <1>1 DEF Reject, Source, FoundInv, vars, plan, histories
<1>2. CASE Others
  <2>1. PICK edit : Edit(edit)
    BY <1>2, OthersEdit DEF TypeInv
  <2>2. ASSUME NEW i \in DOMAIN sources
        PROVE  Source(i) \in touched' \/ dir'[Source(i)] = sources[i].file
    <3>1. Source(i) \in Names
      BY SourceType DEF TypeInv
    <3> QED
      BY <2>1, <3>1 DEF Edit, FoundInv
  <2> QED
    BY <2>1, <2>2 DEF Edit, Source, FoundInv, plan
<1>3. CASE Collect /\ ~Reject /\ UNCHANGED <<command, dir, touched, overwritten>>
  <2> DEFINE path == command.inputs[next]
  <2>1. PICK found \in Found(path) : ~Unusable(path) /\ sources' = sources \o found
    BY <1>3 DEF Collect
  <2>2. path \in Range(command.inputs)
    BY <1>3, Lists DEF Collect, TypeInv, Flow, Range
  <2>3. found \in Seq(Fresh(command))
    BY <2>1, <2>2, FoundType DEF TypeInv
  <2>4. sources \in Seq(Entries(command)) /\ found \in Seq(Entries(command))
    BY <2>3, FreshEntries DEF TypeInv, Typed
  <2>5. /\ Len(sources') = Len(sources) + Len(found)
        /\ DOMAIN sources' = 1 .. Len(sources) + Len(found)
        /\ \A i \in 1 .. Len(sources) : sources'[i] = sources[i]
        /\ \A i \in 1 .. Len(found) : sources'[Len(sources) + i] = found[i]
    BY <2>1, <2>4, ConcatProperties, LenProperties
  <2>6. ASSUME NEW i \in DOMAIN sources'
        PROVE  Place[sources'[i].path] \in touched \/ dir[Place[sources'[i].path]] = sources'[i].file
    <3>1. CASE i \in 1 .. Len(sources)
      BY <1>3, <2>5, <3>1, Lists DEF FoundInv, TypeInv, Source
    <3>2. CASE i \notin 1 .. Len(sources)
      <4>1. Len(sources) \in Nat /\ Len(found) \in Nat
        BY <2>4, LenProperties
      <4>2. i - Len(sources) \in 1 .. Len(found) /\ i = Len(sources) + (i - Len(sources))
        BY <2>5, <3>2, <4>1
      <4>3. sources'[i] = found[i - Len(sources)]
        BY <2>5, <4>2
      <4>4. sources'[i] \in Fresh(command)
        BY <2>3, <4>2, <4>3, ElementOfSeq, LenProperties
      <4> QED
        BY <4>4 DEF Fresh
    <3> QED
      BY <3>1, <3>2
  <2> QED
    BY <1>3, <2>6 DEF Source, FoundInv
<1>4. CASE Sort /\ ~Reject /\ UNCHANGED <<command, dir, touched, overwritten>>
  <2>1. PICK p \in Bijection(DOMAIN sources, DOMAIN sources) :
          sources' = [i \in DOMAIN sources |-> sources[p[i]]]
    BY <1>4 DEF Sort, Sortings
  <2>2. p \in [DOMAIN sources -> DOMAIN sources]
    BY <2>1 DEF Bijection, Injection
  <2> QED
    BY <1>4, <2>1, <2>2 DEF Source, FoundInv
<1>5. CASE Identify /\ ~Reject /\ UNCHANGED <<command, dir, touched, overwritten>>
  <2>1. sources' = [sources EXCEPT ![next].file = Identity(Source(next))]
    BY <1>5 DEF Identify
  <2>2. next \in DOMAIN sources
    BY <1>5 DEF Identify, TypeInv, Flow
  <2>3. ASSUME NEW i \in DOMAIN sources, Source(i) \notin touched
        PROVE  dir[Source(i)] = sources'[i].file
    <3>1. Source(i) \in Names /\ sources[i] \in Entries(command)
      BY SourceType DEF TypeInv
    <3>2. dir[Source(i)] = sources[i].file /\ dir[Source(i)] \notin Links
      BY <2>3, <3>1 DEF FoundInv, Entries
    <3>3. Identity(Source(i)) = dir[Source(i)]
      BY <3>1, <3>2, Keys DEF TypeInv
    <3> QED
      BY <2>1, <2>2, <3>1, <3>2, <3>3 DEF Entries
  <2>4. ASSUME NEW i \in DOMAIN sources
        PROVE  sources'[i].path = sources[i].path
    BY <2>1, SourceType DEF TypeInv, Entries
  <2>5. DOMAIN sources' = DOMAIN sources
    BY <2>1
  <2> QED
    BY <1>5, <2>3, <2>4, <2>5 DEF Source, FoundInv
<1>6. CASE NoteDefault /\ ~Reject /\ UNCHANGED <<command, dir, touched, overwritten>>
  BY <1>6 DEF NoteDefault, Source, FoundInv
<1> QED
  BY <1>1, <1>2, <1>3, <1>4, <1>5, <1>6, PlanningSteps

LEMMA PlanningFirst ==
    ASSUME TypeInv, [Next]_vars, stage' \in Planning
    PROVE  stage \in Planning
BY DEF Next, Run, Over, Planning, Planned, PerFile, Collect, Sort, Identify, NoteDefault, Assign,
       Assigned, NextSource, Password, EncryptSource, DecryptSource, ChooseOutput, Reserve,
       Reserved, Proceed, Observe, Replace, Discard, Failed, Done, Shred, Drop, Conclude, Summary,
       Reject, Exit, Others, OthersUnlink, OthersLink, OthersRename, Edit, vars

LEMMA FoundInvariant == Spec => []FoundInv
<1>1. ASSUME TypeInv, FoundInv, [Next]_vars PROVE FoundInv'
  BY <1>1, PlanningFirst, PlanningFound DEF FoundInv
<1> QED
  BY <1>1, InitFound, TypeInvariant, PTL DEF Spec

\* AtomicOutput lives from its approval to its end, or to the end of --shred.
OutcomeInv ==
    /\ stage \notin {"replace", "shred"} => outcome = "open" /\ aside = None
    /\ stage = "shred" => outcome = "done" /\ command.shred

LEMMA InitOutcome == Init => OutcomeInv
BY DEF Init, OutcomeInv

LEMMA NextOutcome ==
    ASSUME TypeInv, OutcomeInv, [Next]_vars
    PROVE  OutcomeInv'
<1>1. CASE UNCHANGED replacing /\ stage \notin {"replace", "shred"} /\ stage' # "shred"
  BY <1>1 DEF OutcomeInv, replacing
<1>2. CASE \E result \in {"ok", "cancelled", "error"} : Conclude(result)
  BY <1>2 DEF OutcomeInv, Conclude, Close
<1>3. CASE Collect \/ Sort \/ Identify \/ NoteDefault \/ Assign \/ Password \/ Summary
  BY <1>1, <1>3
  DEF Collect, Sort, Identify, NoteDefault, Assign, Assigned, NextSource, Reject, Exit, Password,
      Summary, item
<1>4. CASE EncryptSource \/ DecryptSource \/ ChooseOutput \/ Reserve
  BY <1>1, <1>2, <1>4
  DEF EncryptSource, DecryptSource, ChooseOutput, Reserve, Reserved, Proceed, Drop
<1>5. CASE Observe
  BY <1>2, <1>5 DEF Observe, Drop, OutcomeInv
<1>6. CASE Replace \/ Discard
  BY <1>6 DEF Replace, Discard, OutcomeInv
<1>7. CASE Failed \/ Done \/ Shred
  BY <1>2, <1>7 DEF Failed, Done, Shred, Drop, OutcomeInv, item, replacing
<1>8. CASE Others \/ UNCHANGED vars
  BY <1>8, OthersEdit DEF Edit, OutcomeInv, item, replacing, vars, TypeInv
<1> QED
  BY <1>3, <1>4, <1>5, <1>6, <1>7, <1>8 DEF Next, Run, Over

LEMMA OutcomeInvariant == Spec => []OutcomeInv
BY InitOutcome, NextOutcome, TypeInvariant, PTL DEF Spec
-------------------------------------------------------------------------------
(* What is claimed: the sources from their identification on, and every    *)
(* output given out, never one of them and never twice.                    *)

Writing == {"observe", "replace", "shred"}

\* The sources of which a key and a handle have been taken.
Identified ==
    CASE stage = "identify" -> 1 .. next - 1
      [] stage \in {"default"} \cup Planned -> DOMAIN sources
      [] OTHER -> {}

\* DecryptionBatchGuard.source_keys; the encryption plan's. A source is known
\* by its own name, and by no other source's, unless others made it a link.
SourcesClaimed ==
    /\ \A i \in Identified : Source(i) \in touched \/ Source(i) \in claimed.keys
    /\ \A i, j \in Identified : Source(i) = Source(j) => i = j \/ Source(i) \in touched

OutputsReserved ==
    /\ stage \in Planning => claimed.reserved = {}
    /\ claimed.keys \cap claimed.reserved = {}
    /\ \A i \in DOMAIN outputs : outputs[i] \in claimed.reserved
    /\ IsInjective(outputs)
    /\ stage \in Writing => target \in claimed.reserved
    /\ stage \in Writing /\ op = "encrypt" => target = outputs[next]
    /\ \A i \in DOMAIN results : results[i].outcome = "ok" \/ results[i].committed =>
        /\ results[i].target \in claimed.reserved
        /\ op = "encrypt" => results[i].target = outputs[i]
        /\ stage \in Writing => results[i].target # target

ClaimInv == SourcesClaimed /\ OutputsReserved

LEMMA InitClaim == Init => ClaimInv
BY DEF Init, ClaimInv, SourcesClaimed, OutputsReserved, Planning, Planned, PerFile, Writing,
       IsInjective, Identified

\* The sources keep their claims while the plan stays and names are touched.
LEMMA SameSources ==
    ASSUME SourcesClaimed, UNCHANGED <<sources, next, stage>>, claimed.keys \subseteq claimed'.keys,
           touched \subseteq touched'
    PROVE  SourcesClaimed'
<1>1. Identified' = Identified /\ \A i \in Identified : Source(i)' = Source(i)
  BY DEF Identified, Source, Planned, PerFile
<1> QED
  BY <1>1 DEF SourcesClaimed

LEMMA LaterSources ==
    ASSUME SourcesClaimed, UNCHANGED sources, claimed.keys \subseteq claimed'.keys,
           stage \in {"default"} \cup Planned, stage' \notin {"collect", "identify"},
           touched \subseteq touched'
    PROVE  SourcesClaimed'
<1>1. Identified = DOMAIN sources /\ Identified' \subseteq DOMAIN sources
  BY DEF Identified, Planned, PerFile
<1>2. \A i \in DOMAIN sources : Source(i)' = Source(i)
  BY DEF Source
<1> QED
  BY <1>1, <1>2 DEF SourcesClaimed

LEMMA ExitSources ==
    ASSUME stage' \in {"collect", "exited"}
    PROVE  SourcesClaimed'
BY DEF SourcesClaimed, Identified, Planned, PerFile

LEMMA RejectClaim ==
    ASSUME ClaimInv, Reject
    PROVE  ClaimInv'
BY ExitSources
DEF Reject, Exit, ClaimInv, OutputsReserved, Planning, Writing, IsInjective, plan, item, ending, op

LEMMA CollectClaim ==
    ASSUME TypeInv, ClaimInv, Collect \/ Sort
    PROVE  ClaimInv'
<1>1. CASE Reject
  BY <1>1, RejectClaim
<1>2. CASE ~Reject
  <2>1. /\ stage = "collect" /\ stage' \in {"collect", "identify"}
        /\ stage' = "identify" => next' = 1
        /\ UNCHANGED <<command, outputs, claimed, item, ending>>
    BY <1>2 DEF Collect, Sort
  <2>2. Identified' = {}
    BY <2>1 DEF Identified, Planned, PerFile
  <2>3. SourcesClaimed'
    BY <2>2 DEF SourcesClaimed
  <2> QED
    BY <2>1, <2>3 DEF ClaimInv, OutputsReserved, Planning, Writing, IsInjective, item, ending, op
<1> QED
  BY <1>1, <1>2

LEMMA IdentifyClaim ==
    ASSUME TypeInv, FoundInv, ClaimInv, Identify
    PROVE  ClaimInv'
<1>1. CASE Reject
  BY <1>1, RejectClaim
<1>2. CASE ~Reject
  <2> DEFINE n == Source(next)
  <2>1. /\ Key(n) \notin claimed.keys
        /\ sources' = [sources EXCEPT ![next].file = Identity(n)]
        /\ claimed' = [claimed EXCEPT !.keys = @ \cup {Key(n)}, !.files = @ \cup {Identity(n)}]
        /\ NextSource(IF op = "encrypt" THEN "default" ELSE "password")
        /\ UNCHANGED <<command, outputs, dir, item, ending, exit, histories>>
    BY <1>2 DEF Identify
  <2>2. /\ stage = "identify" /\ next \in DOMAIN sources /\ sources # <<>>
        /\ outputs = <<>> /\ results = <<>>
    BY DEF Identify, TypeInv, Flow, Planning
  <2>3. /\ claimed'.keys = claimed.keys \cup {Key(n)} /\ claimed'.reserved = claimed.reserved
        /\ touched' = touched
    BY <2>1 DEF TypeInv, Typed, Claims, histories
  <2>4. /\ DOMAIN sources' = DOMAIN sources
        /\ \A i \in DOMAIN sources : sources'[i].path = sources[i].path
    BY <2>1, SourceType DEF TypeInv, Entries
  <2>5. \A i \in DOMAIN sources : Source(i)' = Source(i)
    BY <2>4 DEF Source
  <2>6. n \in Names /\ (n \in touched \/ Key(n) = n)
    <3>1. n \in Names /\ sources[next] \in Entries(command)
      BY <2>2, SourceType DEF TypeInv
    <3> QED
      BY <2>2, <3>1, Keys DEF FoundInv, TypeInv, Planning, Entries
  <2>7. /\ DOMAIN sources = 1 .. Len(sources) /\ Len(sources) \in Nat
        /\ Identified = 1 .. next - 1
    BY <2>2, Lists DEF Identified, TypeInv, Planned, PerFile
  <2>8. stage' \in {"identify", "default", "password"} /\ Identified' \subseteq 1 .. next
    <3>1. CASE next < Len(sources) /\ next' = next + 1 /\ stage' = stage
      BY <2>2, <2>7, <3>1 DEF Identified
    <3>2. CASE next = Len(sources) /\ stage' \in {"default", "password"}
      BY <2>4, <2>7, <3>2 DEF Identified, Planned, PerFile
    <3> QED
      BY <2>1, <2>2, <3>1, <3>2, NextSourceType DEF TypeInv
  <2>9. \A i \in 1 .. next : i \in Identified \/ i = next
    BY <2>2, <2>7
  <2>10. SourcesClaimed'
    BY <2>1, <2>2, <2>3, <2>5, <2>6, <2>7, <2>8, <2>9 DEF ClaimInv, SourcesClaimed
  <2>11. claimed.reserved = {}
    BY <2>2 DEF ClaimInv, OutputsReserved, Planning
  <2>12. OutputsReserved'
    BY <2>1, <2>2, <2>3, <2>8, <2>11
    DEF OutputsReserved, Planning, Writing, IsInjective, item, ending, op
  <2> QED
    BY <2>10, <2>12 DEF ClaimInv
<1> QED
  BY <1>1, <1>2

LEMMA NoteDefaultClaim ==
    ASSUME TypeInv, ClaimInv, NoteDefault
    PROVE  ClaimInv'
<1>1. CASE Reject
  BY <1>1, RejectClaim
<1>2. CASE ~Reject
  <2>1. /\ stage = "default" /\ next \in DOMAIN sources /\ sources # <<>> /\ outputs = <<>>
        /\ results = <<>>
        /\ NextSource("assign")
        /\ UNCHANGED <<command, sources, outputs, item, ending, histories>>
        /\ claimed'.keys = claimed.keys /\ claimed'.reserved = claimed.reserved
    BY <1>2 DEF NoteDefault, TypeInv, Typed, Claims, Flow, Planning
  <2>2. stage' \in {"default", "assign"}
    BY <2>1, NextSourceType DEF TypeInv
  <2>3. SourcesClaimed'
    BY <2>1, <2>2, LaterSources DEF ClaimInv, histories
  <2> QED
    BY <2>1, <2>2, <2>3
    DEF ClaimInv, OutputsReserved, Planning, Writing, IsInjective, item, ending, op
<1> QED
  BY <1>1, <1>2

LEMMA AssignClaim ==
    ASSUME TypeInv, ClaimInv, Assign
    PROVE  ClaimInv'
<1>1. CASE Reject
  BY <1>1, RejectClaim
<1>2. CASE ~Reject
  <2>1. /\ next \in DOMAIN sources /\ op = "encrypt" /\ stage = "assign" /\ results = <<>>
        /\ sources # <<>>
    BY DEF Assign, TypeInv, Flow, Planned
  <2>3. PICK output \in Names \ unavailable : Assigned(output) /\ Key(output) = output
    BY <1>2, AssignOutput
  <2>4. /\ outputs' \in Seq(Names) /\ Len(outputs') = Len(outputs) + 1
        /\ \A i \in 1 .. Len(outputs) : outputs'[i] = outputs[i]
        /\ outputs'[Len(outputs) + 1] = output
    BY <2>3, AppendProperties DEF Assigned, TypeInv, Typed
  <2>5. /\ Len(outputs) \in Nat /\ DOMAIN outputs = 1 .. Len(outputs)
        /\ DOMAIN outputs' = 1 .. Len(outputs) + 1
    BY <2>4, LenProperties DEF TypeInv, Typed
  <2>6. /\ claimed'.keys = claimed.keys
        /\ claimed'.reserved = claimed.reserved \cup {output}
    BY <2>3 DEF Assigned, TypeInv, Typed, Claims
  <2>7. /\ stage' \in {"assign", "password"}
        /\ UNCHANGED <<command, sources, item, ending, histories>>
    BY <2>1, <2>3, NextSourceType DEF Assigned, TypeInv
  <2>8. IsInjective(outputs')
    BY <2>3, <2>4, <2>5 DEF ClaimInv, OutputsReserved, IsInjective, unavailable
  <2>9. \A i \in DOMAIN outputs' : outputs'[i] \in claimed'.reserved
    BY <2>4, <2>5, <2>6 DEF ClaimInv, OutputsReserved
  <2>10. OutputsReserved'
    BY <2>1, <2>3, <2>6, <2>7, <2>8, <2>9
    DEF ClaimInv, OutputsReserved, Planning, Writing, IsInjective, unavailable, item, ending
  <2>11. SourcesClaimed'
    BY <2>1, <2>6, <2>7, LaterSources DEF ClaimInv, Planned, histories
  <2> QED
    BY <2>10, <2>11 DEF ClaimInv
<1> QED
  BY <1>1, <1>2

LEMMA ConcludeClaim ==
    ASSUME TypeInv, OutcomeInv, ClaimInv, NEW result \in {"ok", "cancelled", "error"},
           Conclude(result), stage \in PerFile, result = "ok" => stage \in Writing
    PROVE  ClaimInv'
<1> DEFINE verdict == [outcome |-> result, target |-> target, committed |-> outcome = "done"]
<1>1. verdict \in Verdicts
  BY DEF TypeInv, Typed, Verdicts
<1>2. /\ results' \in Seq(Verdicts)
      /\ Len(results') = Len(results) + 1
      /\ \A i \in 1 .. Len(results) : results'[i] = results[i]
      /\ results'[Len(results) + 1] = verdict
  BY <1>1, AppendProperties DEF TypeInv, Typed, Conclude
<1>3. /\ Len(results) \in Nat /\ DOMAIN results = 1 .. Len(results)
      /\ DOMAIN results' = 1 .. Len(results) + 1
      /\ Len(results) + 1 = next
  BY <1>2, LenProperties, Lists DEF TypeInv, Typed, Flow, Planned, PerFile
<1>7. /\ verdict.outcome = result /\ verdict.target = target
      /\ verdict.committed <=> outcome = "done"
  BY VerdictFields
<1> HIDE DEF verdict
<1>4. /\ stage' \in {"item", "summary"} /\ UNCHANGED <<command, plan, op, touched>>
  BY DEF Conclude, op
<1>5. ASSUME NEW i \in DOMAIN results',
             results'[i].outcome = "ok" \/ results'[i].committed
      PROVE  /\ results'[i].target \in claimed.reserved
             /\ op = "encrypt" => results'[i].target = outputs[i]
  <2>1. CASE i \in DOMAIN results
    BY <1>2, <1>3, <1>5, <2>1 DEF ClaimInv, OutputsReserved
  <2>2. CASE i = next
    <3>1. results'[i] = verdict
      BY <1>2, <1>3, <2>2
    <3>2. stage \in Writing
      BY <1>5, <1>7, <3>1 DEF OutcomeInv, Writing
    <3>3. results'[i].target = target
      BY <1>7, <3>1
    <3> QED
      BY <2>2, <3>2, <3>3 DEF ClaimInv, OutputsReserved
  <2> QED
    BY <1>3, <2>1, <2>2
<1>6. SourcesClaimed'
  BY <1>4, LaterSources DEF ClaimInv, Planned, PerFile, plan
<1> QED
  BY <1>4, <1>5, <1>6
  DEF ClaimInv, OutputsReserved, Planning, Writing, IsInjective, plan

LEMMA NextClaim ==
    ASSUME TypeInv, FoundInv, OutcomeInv, ClaimInv, [Next]_vars
    PROVE  ClaimInv'
<1>1. CASE Reject
  BY <1>1, RejectClaim
<1>2. CASE Drop("error") /\ stage \in PerFile
  BY <1>2, ConcludeClaim DEF Drop
<1>3. CASE Collect \/ Sort \/ Identify \/ NoteDefault \/ Assign
  BY <1>3, CollectClaim, IdentifyClaim, NoteDefaultClaim, AssignClaim
<1>4. CASE /\ UNCHANGED <<command, plan, item, ending, histories>>
           /\ stage = "password" /\ stage' = "item"
  <2>1. SourcesClaimed'
    BY <1>4, LaterSources DEF ClaimInv, Planned, PerFile, plan, histories
  <2> QED
    BY <1>4, <2>1 DEF ClaimInv, OutputsReserved, Planning, Writing, plan, item, ending, op
<1>5. CASE Password
  BY <1>1, <1>4, <1>5 DEF Password
<1>6. CASE (EncryptSource \/ DecryptSource) /\ ~Drop("error")
  <2>1. /\ UNCHANGED <<command, plan, ending, touched>>
        /\ stage = "item" /\ stage' \in {"observe", "choose"}
        /\ stage' = "observe" => op = "encrypt" /\ target' = outputs[next] /\ next' = next
    BY <1>6 DEF EncryptSource, DecryptSource, Proceed
  <2>2. stage' = "observe" => next \in DOMAIN outputs /\ DOMAIN results = 1 .. next - 1
    BY <2>1, Lists DEF TypeInv, Flow, Planned, PerFile
  <2>3. ASSUME stage' = "observe", NEW i \in DOMAIN results,
               results[i].outcome = "ok" \/ results[i].committed
        PROVE  results[i].target # target'
    <3>1. results[i].target = outputs[i] /\ i \in DOMAIN outputs /\ i # next
      BY <2>1, <2>2, <2>3, Lists DEF TypeInv, ClaimInv, OutputsReserved
    <3> QED
      BY <2>1, <2>2, <2>3, <3>1 DEF ClaimInv, OutputsReserved, IsInjective
  <2>4. SourcesClaimed'
    BY <2>1, LaterSources DEF ClaimInv, Planned, PerFile, plan
  <2> QED
    BY <2>1, <2>2, <2>3, <2>4
    DEF ClaimInv, OutputsReserved, Planning, Writing, plan, ending, op
<1>7. CASE ChooseOutput /\ ~Drop("error")
  <2>1. /\ UNCHANGED <<command, plan, ending, touched>>
        /\ stage = "choose" /\ stage' = "reserve"
    BY <1>7 DEF ChooseOutput, Proceed
  <2>2. SourcesClaimed'
    BY <2>1, LaterSources DEF ClaimInv, Planned, PerFile, plan
  <2> QED
    BY <2>1, <2>2 DEF ClaimInv, OutputsReserved, Planning, Writing, plan, ending, op
<1>8. CASE Reserve /\ ~Drop("error")
  <2>1. /\ Key(target) \notin unavailable /\ dir[target] \notin Links
        /\ stage = "reserve" /\ stage' = "observe" /\ op = "decrypt"
        /\ UNCHANGED <<command, sources, outputs, target, ending, touched>>
    BY <1>8 DEF Reserve, Reserved, Proceed, TypeInv, Flow
  <2>2. /\ claimed'.keys = claimed.keys
        /\ claimed'.reserved = claimed.reserved \cup {Key(target)}
    BY <1>8 DEF Reserve, Reserved, TypeInv, Typed, Claims
  <2>3. Key(target) = target
    BY <2>1, Keys DEF TypeInv, Flow, Placed
  <2>4. SourcesClaimed'
    BY <2>1, <2>2, LaterSources DEF ClaimInv, Planned, PerFile
  <2> QED
    BY <2>1, <2>2, <2>3, <2>4
    DEF ClaimInv, OutputsReserved, Planning, Writing, unavailable, ending, op
<1>9. CASE /\ UNCHANGED <<command, plan, target, ending, touched>>
           /\ stage \in Writing /\ stage' \in Writing /\ next' = next
  <2>1. SourcesClaimed'
    BY <1>9, LaterSources DEF ClaimInv, Planned, PerFile, Writing, plan
  <2> QED
    BY <1>9, <2>1 DEF ClaimInv, OutputsReserved, Planning, Writing, plan, ending, op
<1>10. CASE Observe
  <2>1. CASE Drop("cancelled")
    BY <1>10, <2>1, ConcludeClaim DEF Drop, Observe, PerFile
  <2> QED
    BY <1>2, <1>9, <1>10, <2>1 DEF Observe, PerFile, Writing, histories
<1>11. CASE Replace \/ Discard
  BY <1>9, <1>11 DEF Replace, Discard, Writing, histories
<1>12. CASE Failed \/ Done \/ Shred
  <2>1. CASE Conclude("ok") /\ stage \in Writing
    BY <2>1, ConcludeClaim DEF Writing, PerFile
  <2>2. CASE Done /\ ~Drop("ok")
    BY <1>9, <2>2 DEF Done, Writing, item, histories
  <2>3. CASE Conclude("error") /\ stage \in PerFile
    BY <2>3, ConcludeClaim
  <2> QED
    BY <1>2, <1>12, <2>1, <2>2, <2>3 DEF Failed, Done, Shred, Drop, PerFile, Writing
<1>13. CASE /\ UNCHANGED <<command, plan, target, ending, next, stage>>
            /\ touched \subseteq touched'
  <2>1. SourcesClaimed'
    BY <1>13, SameSources DEF ClaimInv, plan
  <2> QED
    BY <1>13, <2>1 DEF ClaimInv, OutputsReserved, Planning, Writing, plan, ending, op
<1>14. CASE /\ UNCHANGED <<command, plan, ending>>
            /\ stage = "summary" /\ stage' = "exited"
  BY <1>14, ExitSources
  DEF ClaimInv, OutputsReserved, Planning, Writing, plan, ending, op
<1>15. CASE Summary
  BY <1>14, <1>15 DEF Summary, Exit
<1>16. CASE Others
  BY <1>13, <1>16, OthersEdit DEF Edit, item, TypeInv
<1>17. CASE UNCHANGED vars
  BY <1>13, <1>17 DEF vars, item, histories
<1>18. (EncryptSource \/ DecryptSource \/ ChooseOutput \/ Reserve) => stage \in PerFile
  BY DEF EncryptSource, DecryptSource, ChooseOutput, Reserve, PerFile
<1> QED
  BY <1>2, <1>3, <1>5, <1>6, <1>7, <1>8, <1>10, <1>11, <1>12, <1>15, <1>16, <1>17, <1>18
  DEF Next, Run, Over

LEMMA ClaimInvariant == Spec => []ClaimInv
BY InitClaim, NextClaim, TypeInvariant, FoundInvariant, OutcomeInvariant, PTL DEF Spec
-------------------------------------------------------------------------------
(* What a step may do to a name: nothing, unless it is the output at hand, *)
(* the source at hand when it is shredded, or the others take it.          *)

LEMMA ConcludeResults ==
    ASSUME TypeInv, NEW result \in {"ok", "cancelled", "error"}, Conclude(result), stage \in PerFile
    PROVE  /\ DOMAIN results = 1 .. next - 1 /\ next \in Nat \ {0}
           /\ DOMAIN results' = 1 .. next
           /\ \A i \in DOMAIN results : results'[i] = results[i]
           /\ results'[next].outcome = result /\ results'[next].target = target
           /\ results'[next].committed <=> outcome = "done"
<1> DEFINE verdict == [outcome |-> result, target |-> target, committed |-> outcome = "done"]
<1>1. verdict \in Verdicts
  BY DEF TypeInv, Typed, Verdicts
<1>2. /\ results' \in Seq(Verdicts)
      /\ Len(results') = Len(results) + 1
      /\ \A i \in 1 .. Len(results) : results'[i] = results[i]
      /\ results'[Len(results) + 1] = verdict
  BY <1>1, AppendProperties DEF TypeInv, Typed, Conclude
<1>3. next \in 1 .. Len(sources) /\ Len(sources) \in Nat /\ Len(results) = next - 1
  BY Lists DEF TypeInv, Flow, Planned, PerFile
<1>4. /\ verdict.outcome = result /\ verdict.target = target
      /\ verdict.committed <=> outcome = "done"
  BY VerdictFields
<1> HIDE DEF verdict
<1>5. next \in Nat \ {0} /\ Len(results) + 1 = next
  BY <1>3
<1>6. DOMAIN results = 1 .. Len(results) /\ DOMAIN results' = 1 .. Len(results')
  <2>1. results \in Seq(Verdicts)
    BY DEF TypeInv, Typed
  <2> QED
    BY <1>2, <2>1, LenProperties
<1>7. DOMAIN results = 1 .. next - 1 /\ DOMAIN results' = 1 .. next
  BY <1>2, <1>3, <1>5, <1>6
<1>8. results'[next] = verdict
  BY <1>2, <1>5
<1> QED
  BY <1>2, <1>4, <1>5, <1>6, <1>7, <1>8

\* Once the batch is planned its sources are settled, and what has been ended.
LEMMA LaterSteps ==
    ASSUME TypeInv, stage \notin Planning, [Next]_vars
    PROVE  /\ UNCHANGED <<command, sources>>
           /\ claimed'.keys = claimed.keys /\ claimed'.files = claimed.files
           /\ touched \subseteq touched'
           /\ DOMAIN results \subseteq DOMAIN results'
           /\ \A i \in DOMAIN results : results'[i] = results[i]
<1>1. CASE UNCHANGED <<command, plan, touched, results>>
  BY <1>1 DEF plan
<1>2. CASE \E result \in {"ok", "cancelled", "error"} : Conclude(result) /\ stage \in PerFile
  BY <1>2, ConcludeResults DEF Conclude, plan
<1>4. CASE Assign \/ Password \/ Summary
  BY <1>4
  DEF Assign, Assigned, Reject, Exit, Password, Summary, plan, ending, histories, TypeInv, Typed,
      Claims
<1>5. CASE EncryptSource \/ DecryptSource \/ ChooseOutput \/ Reserve \/ Observe
  BY <1>1, <1>2, <1>5
  DEF EncryptSource, DecryptSource, ChooseOutput, Reserve, Reserved, Observe, Drop, Proceed,
      PerFile, plan, ending, histories, TypeInv, Typed, Claims
<1>6. CASE Replace \/ Discard \/ Failed \/ Done \/ Shred
  BY <1>1, <1>2, <1>6
  DEF Replace, Discard, Failed, Done, Shred, Drop, PerFile, ending, histories
<1>7. CASE Others
  BY <1>7, OthersEdit DEF Edit, plan, ending, TypeInv
<1>8. CASE UNCHANGED vars
  BY <1>1, <1>8 DEF vars, ending, histories
<1> QED
  BY <1>4, <1>5, <1>6, <1>7, <1>8
  DEF Next, Run, Over, Collect, Sort, Identify, NoteDefault, Planning

LEMMA NamesChange ==
    ASSUME TypeInv, [Next]_vars, NEW n \in Names
    PROVE  \/ dir'[n] = dir[n]
           \/ n \in touched'
           \/ Replace /\ n = target
           \/ Shred /\ n = Source(next) /\ dir[n] = opened /\ dir'[n] = None
<1>1. CASE Collect \/ Sort \/ Identify \/ NoteDefault \/ Assign \/ Password \/ Summary
  BY <1>1 DEF Collect, Sort, Identify, NoteDefault, Assign, Assigned, Reject, Password, Summary
<1>2. CASE EncryptSource \/ DecryptSource \/ ChooseOutput \/ Reserve \/ Observe
  BY <1>2
  DEF EncryptSource, DecryptSource, ChooseOutput, Reserve, Reserved, Observe, Drop, Proceed
<1>3. CASE Replace \/ Discard
  BY <1>3
  DEF Replace, Discard, Out!Withdraw, Out!Install, Out!Commit, Out!Finish, Out!Abort, Out!Restore,
      Out!Discard, TypeInv, Typed
<1>4. CASE Failed \/ Done
  BY <1>4 DEF Failed, Done, Drop
<1>5. CASE Shred
  BY <1>5 DEF Shred, Drop, TypeInv, Typed
<1>6. CASE Others
  BY <1>6, OthersEdit DEF Edit, TypeInv
<1>7. CASE UNCHANGED vars
  BY <1>7 DEF vars
<1> QED
  BY <1>1, <1>2, <1>3, <1>4, <1>5, <1>6, <1>7 DEF Next, Run, Over

\* ... and to the contents of a file: only the passes of --shred write there,
\* and only when no other name leads to it.
LEMMA ContentsChange ==
    ASSUME TypeInv, [Next]_vars
    PROVE  \/ overwritten' = overwritten
           \/ /\ Shred /\ overwritten' = overwritten \cup {opened}
              /\ dir[Source(next)] = opened
              /\ \A m \in Names \ {Source(next)} : dir[m] # opened
<1>1. CASE Shred
  BY <1>1 DEF Shred, Drop
<1>2. CASE Others
  BY <1>2, OthersEdit DEF Edit, TypeInv
<1> QED
  BY <1>1, <1>2
  DEF Next, Run, Over, Collect, Sort, Identify, NoteDefault, Assign, Assigned, Reject, Password,
      Summary, EncryptSource, DecryptSource, ChooseOutput, Reserve, Reserved, Observe, Replace,
      Discard, Failed, Done, Drop, Proceed, histories, vars

-------------------------------------------------------------------------------
(* Inputs.                                                                 *)

LEMMA InitKept == Init => InputsKept
BY DEF Init, InputsKept

\* The source at hand, when its --shred has ended.
LEMMA ShredCommitted ==
    ASSUME TypeInv, OutcomeInv, Shred
    PROVE  command.shred /\ next \in DOMAIN results' /\ results'[next].committed
<1>1. stage \in PerFile /\ command.shred /\ outcome = "done"
  BY DEF Shred, PerFile, OutcomeInv
<1>2. PICK result \in {"ok", "error"} : Conclude(result)
  BY DEF Shred, Drop
<1> QED
  BY <1>1, <1>2, ConcludeResults

LEMMA NextKept ==
    ASSUME TypeInv, FoundInv, OutcomeInv, ClaimInv, InputsKept, [Next]_vars
    PROVE  InputsKept'
<1>1. CASE stage \in Planning
  BY <1>1, PlanningFound DEF InputsKept
<1>2. CASE stage \notin Planning
  <2> SUFFICES ASSUME NEW i \in DOMAIN sources, Source(i) \notin touched'
               PROVE  \/ dir'[Source(i)] = sources[i].file /\ sources[i].file \notin overwritten'
                      \/ command.shred /\ i \in DOMAIN results' /\ results'[i].committed
    BY <1>2, LaterSteps DEF InputsKept, Committed, Source
  <2>1. Source(i) \in Names /\ Source(i) \notin touched
    BY <1>2, SourceType, LaterSteps DEF TypeInv
  <2>2. CASE Committed(i) /\ command.shred
    BY <1>2, <2>2, LaterSteps DEF Committed
  <2>3. CASE dir[Source(i)] = sources[i].file /\ sources[i].file \notin overwritten
    <3>1. CASE Shred /\ Source(i) = Source(next)
      <4>1. next \in DOMAIN sources /\ Identified = DOMAIN sources
        BY <3>1 DEF Shred, TypeInv, Flow, Planned, PerFile, Identified
      <4>2. i = next
        BY <2>1, <3>1, <4>1 DEF ClaimInv, SourcesClaimed
      <4> QED
        BY <3>1, <4>2, ShredCommitted
    <3>2. CASE Replace /\ Source(i) = target
      <4>1. target \in claimed.reserved /\ Identified = DOMAIN sources
        BY <3>2 DEF Replace, Writing, ClaimInv, OutputsReserved, Identified, Planned, PerFile
      <4> QED
        BY <2>1, <3>2, <4>1 DEF ClaimInv, SourcesClaimed, OutputsReserved
    <3>3. CASE ~(Shred /\ Source(i) = Source(next)) /\ ~(Replace /\ Source(i) = target)
      <4>1. dir'[Source(i)] = dir[Source(i)]
        BY <2>1, <3>3, NamesChange
      <4>2. sources[i].file \notin overwritten'
        BY <2>1, <2>3, <3>3, ContentsChange
      <4> QED
        BY <2>3, <4>1, <4>2
    <3> QED
      BY <3>1, <3>2, <3>3
  <2> QED
    BY <2>1, <2>2, <2>3 DEF InputsKept
<1> QED
  BY <1>1, <1>2

\* The files of a batch do not spoil each other's input, by name or by
\* contents: a source stays what and where it was found until its own --shred,
\* and that, whether it succeeds or fails half-way, is reached only when its
\* output is committed, unless other processes change its name; however many
\* files there are and whatever names their outputs ask for
\* (plan_encryption_inputs, DecryptionBatchGuard, secure_delete_inner).
THEOREM InputsStay == Spec => []InputsKept
BY InitKept, NextKept, TypeInvariant, FoundInvariant, OutcomeInvariant, ClaimInvariant, PTL
DEF Spec
-------------------------------------------------------------------------------
(* Outputs.                                                                *)

Installed == {"installed", "committed", "done"}

StayInv ==
    /\ stage \in {"replace", "shred"} /\ outcome \in Installed =>
        target \in touched \/ dir[target] = Product[next]
    /\ OutputsStay

LEMMA InitStay == Init => StayInv
BY DEF Init, StayInv, OutputsStay

LEMMA ConcludeStay ==
    ASSUME TypeInv, OutcomeInv, ClaimInv, StayInv, NEW result \in {"ok", "cancelled", "error"},
           Conclude(result), stage \in PerFile,
           result = "ok" => stage \in {"replace", "shred"} /\ outcome = "done",
           \A n \in Names \ touched : n \in claimed.reserved => dir'[n] = dir[n]
    PROVE  StayInv'
<1>1. ASSUME NEW i \in DOMAIN results', results'[i].outcome = "ok" \/ results'[i].committed
      PROVE  results'[i].target \in touched \/ dir'[results'[i].target] = Product[i]
  <2>1. CASE i \in DOMAIN results
    <3>1. results[i].target \in Names /\ results[i].target \in claimed.reserved
      BY <1>1, <2>1, ConcludeResults DEF ClaimInv, OutputsReserved, TypeInv, Typed, Claims
    <3> QED
      BY <1>1, <2>1, <3>1, ConcludeResults DEF StayInv, OutputsStay
  <2>2. CASE i = next
    <3>1. outcome = "done" /\ results'[i].target = target
      BY <1>1, <2>2, ConcludeResults
    <3>2. stage \in {"replace", "shred"}
      BY <3>1 DEF OutcomeInv
    <3>3. target \in Names /\ target \in claimed.reserved
      BY <3>2 DEF ClaimInv, OutputsReserved, Writing, TypeInv, Typed, Claims
    <3> QED
      BY <2>2, <3>1, <3>2, <3>3 DEF StayInv, Installed
  <2> QED
    BY <2>1, <2>2, <1>1, ConcludeResults
<1>2. touched' = touched /\ stage' \in {"item", "summary"}
  BY DEF Conclude
<1> QED
  BY <1>1, <1>2 DEF StayInv, OutputsStay

LEMMA ReplaceStay ==
    ASSUME TypeInv, ClaimInv, StayInv, Replace \/ Discard
    PROVE  StayInv'
<1>1. /\ stage = "replace" /\ stage' = "replace" /\ next' = next /\ next \in DOMAIN Product
      /\ target \in Names /\ target' = target /\ touched' = touched /\ results' = results
  BY DEF Replace, Discard, ending, histories
<1>2. ASSUME NEW k \in DOMAIN Product, NEW n \in Names, Replacing(k, n)
      PROVE  StayInv'
  <2>1. outcome' \in Installed =>
            (outcome \in Installed /\ dir' = dir) \/ dir'[target] = Product[next]
    BY <1>1, <1>2
    DEF Replacing, Installed, Out!Withdraw, Out!Install, Out!Commit, Out!Finish, Out!Abort,
        Out!Restore, TypeInv, Typed
  <2>2. \A m \in Names \ {target} : dir'[m] = dir[m]
    BY <1>1, <1>2
    DEF Replacing, Out!Withdraw, Out!Install, Out!Commit, Out!Finish, Out!Abort, Out!Restore,
        TypeInv, Typed
  <2>3. ASSUME NEW i \in DOMAIN results, results[i].outcome = "ok" \/ results[i].committed
        PROVE  results[i].target \in Names \ {target}
    BY <1>1, <2>3 DEF ClaimInv, OutputsReserved, Writing, TypeInv, Typed, Claims
  <2>4. OutputsStay'
    BY <1>1, <2>2, <2>3 DEF StayInv, OutputsStay
  <2> QED
    BY <1>1, <2>1, <2>4 DEF StayInv
<1>3. ASSUME NEW k \in DOMAIN Product, NEW n \in Names, Out(k, n)!Discard
      PROVE  StayInv'
  BY <1>1, <1>3 DEF Out!Discard, StayInv, OutputsStay, Installed
<1> QED
  BY <1>1, <1>2, <1>3 DEF Replace, Discard, Replacing

LEMMA NextStay ==
    ASSUME TypeInv, OutcomeInv, ClaimInv, StayInv, [Next]_vars
    PROVE  StayInv'
<1>1. CASE /\ UNCHANGED <<dir, replacing, results, touched>>
           /\ {stage, stage'} \cap {"replace", "shred"} = {}
  BY <1>1 DEF StayInv, OutputsStay, replacing
<1>2. CASE Drop("error") /\ stage \in PerFile
  BY <1>2, ConcludeStay DEF Drop
<1>3. CASE Collect \/ Sort \/ Identify \/ NoteDefault \/ Assign \/ Password \/ Summary
  BY <1>1, <1>3
  DEF Collect, Sort, Identify, NoteDefault, Assign, Assigned, NextSource, Reject, Exit, Password,
      Summary, item, ending,
      histories
<1>4. CASE EncryptSource \/ DecryptSource \/ ChooseOutput \/ Reserve
  BY <1>1, <1>2, <1>4
  DEF EncryptSource, DecryptSource, ChooseOutput, Reserve, Reserved, Proceed, PerFile, ending
<1>5. CASE Observe
  <2>1. CASE Drop("cancelled")
    BY <1>5, <2>1, ConcludeStay DEF Observe, Drop, PerFile
  <2>2. CASE ~Drop("error") /\ ~Drop("cancelled")
    <3>1. /\ stage = "observe" /\ stage' = "replace"
          /\ UNCHANGED <<dir, aside, outcome, results, touched>>
      BY <1>5, <2>2 DEF Observe, ending, histories
    <3> QED
      BY <3>1 DEF StayInv, OutputsStay, OutcomeInv, Installed
  <2> QED
    BY <1>2, <1>5, <2>1, <2>2 DEF Observe, PerFile
<1>6. CASE Replace \/ Discard
  BY <1>6, ReplaceStay
<1>7. CASE Failed
  BY <1>2, <1>7 DEF Failed, PerFile
<1>8. CASE Done
  <2>1. CASE Drop("ok")
    BY <1>8, <2>1, ConcludeStay DEF Done, Drop, PerFile
  <2>2. CASE ~Drop("ok")
    <3>1. /\ stage = "replace" /\ stage' = "shred" /\ outcome = "done"
          /\ UNCHANGED <<dir, aside, outcome, results, touched, target, next>>
      BY <1>8, <2>2 DEF Done, item, replacing, ending, histories
    <3> QED
      BY <3>1 DEF StayInv, OutputsStay, Installed
  <2> QED
    BY <2>1, <2>2
<1>9. CASE Shred
  <2>1. next \in DOMAIN sources /\ stage \in PerFile /\ outcome = "done"
    BY <1>9 DEF Shred, TypeInv, Flow, Planned, PerFile, OutcomeInv
  <2>2. Source(next) \in touched \/ Source(next) \notin claimed.reserved
    BY <1>9, <2>1 DEF Shred, ClaimInv, SourcesClaimed, OutputsReserved, Identified, Planned, PerFile
  <2>3. \A n \in Names \ {Source(next)} : dir'[n] = dir[n]
    BY <1>9 DEF Shred, Drop, TypeInv, Typed
  <2>4. PICK result \in {"ok", "error"} : Conclude(result)
    BY <1>9 DEF Shred, Drop
  <2>5. \A n \in Names \ touched : n \in claimed.reserved => dir'[n] = dir[n]
    BY <2>2, <2>3
  <2> QED
    BY <1>9, <2>1, <2>4, <2>5, ConcludeStay DEF Shred
<1>10. CASE Others
  <2>1. PICK edit : Edit(edit)
    BY <1>10, OthersEdit DEF TypeInv
  <2>2. /\ UNCHANGED <<stage, next, target, aside, outcome, results>>
        /\ touched \subseteq touched'
        /\ \A n \in Names : n \in touched' \/ dir'[n] = dir[n]
    BY <2>1 DEF Edit, item, replacing, ending
  <2>3. stage \in {"replace", "shred"} => target \in Names
    BY DEF TypeInv, Flow, Placed
  <2>4. \A i \in DOMAIN results :
            results[i].outcome = "ok" \/ results[i].committed => results[i].target \in Names
    BY DEF ClaimInv, OutputsReserved, TypeInv, Typed, Claims
  <2> QED
    BY <2>2, <2>3, <2>4 DEF StayInv, OutputsStay
<1>11. CASE UNCHANGED vars
  BY <1>11 DEF vars, item, replacing, ending, histories, StayInv, OutputsStay
<1>12. (EncryptSource \/ DecryptSource \/ ChooseOutput \/ Reserve) => stage \in PerFile
  BY DEF EncryptSource, DecryptSource, ChooseOutput, Reserve, PerFile
<1> QED
  BY <1>3, <1>4, <1>5, <1>6, <1>7, <1>8, <1>9, <1>10, <1>11, <1>12 DEF Next, Run, Over

LEMMA StayInvariant == Spec => []StayInv
BY InitStay, NextStay, TypeInvariant, OutcomeInvariant, ClaimInvariant, PTL DEF Spec

\* ... nor each other's output: what a file of the batch has committed is
\* still under its name at the end of the command, unless others changed the
\* name. No later file is written there, and no later --shred removes it.
THEOREM OutputsRemain == Spec => []OutputsStay
BY StayInvariant, PTL DEF StayInv
-------------------------------------------------------------------------------
(* Ciphertexts of a decryption.                                            *)

\* From the reservation to the withdrawal no name leads to another file than
\* the guard saw, unless the others change it; what is aside is that file.
AliasInv ==
    /\ stage \in Planning => replaced = {}
    /\ op = "decrypt" => replaced \cap claimed.files = {}
    /\ op = "decrypt" /\ stage \in {"observe", "replace"} /\ target \notin late =>
        /\ aside \notin claimed.files
        /\ outcome = "open" => dir[target] \notin claimed.files

LEMMA InitAlias == Init => AliasInv
BY DEF Init, AliasInv

LEMMA NextAlias ==
    ASSUME TypeInv, OutcomeInv, AliasInv, [Next]_vars
    PROVE  AliasInv'
<1>1. CASE /\ UNCHANGED <<command, replaced>> /\ claimed'.files = claimed.files
           /\ stage' \notin {"observe", "replace"} /\ (stage' \in Planning => stage \in Planning)
  BY <1>1 DEF AliasInv, op
<1>2. CASE \E result \in {"ok", "cancelled", "error"} : Conclude(result) /\ stage \in PerFile
  BY <1>1, <1>2 DEF Conclude, plan, Planning
<1>3. CASE Collect \/ Sort \/ NoteDefault \/ Assign \/ Password \/ Summary
  BY <1>1, <1>3
  DEF Collect, Sort, NoteDefault, Assign, Assigned, NextSource, Reject, Exit, Password, Summary,
      histories, plan, Planning,
      TypeInv, Typed, Claims
<1>4. CASE Identify
  BY <1>1, <1>4
  DEF Identify, NextSource, Reject, Exit, AliasInv, Planning, histories, plan, op
<1>5. CASE DecryptSource \/ ChooseOutput
  BY <1>1, <1>2, <1>5 DEF DecryptSource, ChooseOutput, Drop, Proceed, PerFile, Planning, plan
<1>6. CASE EncryptSource
  <2>1. (op = "encrypt" /\ op' = "encrypt") \/ Drop("error")
    BY <1>6 DEF EncryptSource, Proceed, op
  <2> QED
    BY <1>2, <1>6, <2>1 DEF EncryptSource, Drop, Proceed, PerFile, AliasInv, Planning
<1>7. CASE Reserve /\ ~Drop("error")
  <2>1. /\ dir[target] \notin claimed.files /\ stage = "reserve" /\ stage' = "observe"
        /\ UNCHANGED <<command, dir, aside, outcome, target, replaced>>
    BY <1>7 DEF Reserve, Reserved, Proceed, replacing
  <2>2. claimed'.files = claimed.files
    BY <1>7 DEF Reserve, Reserved, TypeInv, Typed, Claims
  <2>3. aside = None /\ None \notin claimed.files
    BY <2>1, BatchAssumption DEF OutcomeInv, TypeInv, Typed, Claims
  <2> QED
    BY <2>1, <2>2, <2>3 DEF AliasInv, Planning, op
<1>8. CASE Observe
  <2>1. CASE ~Drop("error") /\ ~Drop("cancelled")
    <3>1. /\ stage = "observe" /\ stage' = "replace"
          /\ UNCHANGED <<command, plan, dir, aside, outcome, target, late, replaced>>
      BY <1>8, <2>1 DEF Observe, histories
    <3> QED
      BY <3>1 DEF AliasInv, Planning, plan, op
  <2> QED
    BY <1>2, <1>8, <2>1 DEF Observe, Drop, PerFile
<1>9. CASE Replace
  <2>1. /\ stage = "replace" /\ stage' = "replace" /\ target \in Names
        /\ UNCHANGED <<command, plan, target, late, replaced>>
    BY <1>9 DEF Replace, histories
  <2>2. PICK k \in DOMAIN Product, n \in Names : Replacing(k, n)
    BY <1>9 DEF Replace, Replacing
  <2>3. None \notin claimed.files
    BY BatchAssumption DEF TypeInv, Typed, Claims
  <2>4. /\ aside' \in {aside, None} \/ (outcome = "open" /\ aside' = dir[target])
        /\ outcome' = "open" => outcome = "open" /\ dir'[target] \in {dir[target], None}
    BY <2>1, <2>2
    DEF Replacing, Out!Withdraw, Out!Install, Out!Commit, Out!Finish, Out!Abort, Out!Restore,
        TypeInv, Typed
  <2> QED
    BY <2>1, <2>3, <2>4 DEF AliasInv, Planning, plan, op
<1>10. CASE Discard
  <2>1. /\ stage = "replace" /\ stage' = "replace" /\ outcome = "committed"
        /\ outcome' = outcome /\ aside' = None
        /\ replaced' = IF target \in late THEN replaced ELSE replaced \cup {aside}
        /\ UNCHANGED <<command, plan, target, late>>
    BY <1>10 DEF Discard, Out!Discard
  <2>2. None \notin claimed.files
    BY BatchAssumption DEF TypeInv, Typed, Claims
  <2> QED
    BY <2>1, <2>2 DEF AliasInv, Planning, plan, op
<1>11. CASE Failed \/ Done \/ Shred
  BY <1>1, <1>2, <1>11 DEF Failed, Done, Shred, Drop, PerFile, Planning, plan, histories
<1>12. CASE Others
  <2>1. PICK edit : Edit(edit)
    BY <1>12, OthersEdit DEF TypeInv
  <2>2. /\ UNCHANGED <<command, stage, plan, target, aside, outcome, replaced>>
        /\ late \subseteq late'
        /\ \A n \in Names : n \in late' \/ dir'[n] = dir[n]
    BY <2>1 DEF Edit, item, replacing
  <2>3. stage \in {"observe", "replace"} => target \in Names
    BY DEF TypeInv, Flow, Placed
  <2> QED
    BY <2>2, <2>3 DEF AliasInv, plan, op
<1>13. CASE UNCHANGED vars
  BY <1>13 DEF vars, item, replacing, plan, histories, AliasInv, op
<1>14. Drop("error") /\ Reserve => stage \in PerFile /\ Conclude("error")
  BY DEF Reserve, Drop, PerFile
<1> QED
  BY <1>2, <1>3, <1>4, <1>5, <1>6, <1>7, <1>8, <1>9, <1>10, <1>11, <1>12, <1>13, <1>14
  DEF Next, Run, Over

\* A decryption never replaces one of its ciphertexts, under whatever name or
\* hard link an authenticated filename leads to it (DecryptionBatchGuard::
\* reserve), unless others put it there after the guard looked.
THEOREM CiphertextsKept == Spec => []NoAliasReplaced
<1>1. AliasInv => NoAliasReplaced
  BY DEF AliasInv, NoAliasReplaced
<1>2. Spec => []AliasInv
  BY InitAlias, NextAlias, TypeInvariant, OutcomeInvariant, PTL DEF Spec
<1> QED
  BY <1>1, <1>2, PTL
===============================================================================
