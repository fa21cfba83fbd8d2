--------------------------- MODULE TraversalProofs ---------------------------
(***************************************************************************)
(* Theorems about Traversal for any names, objects, trees and links, any   *)
(* depth, and any number of changes by others. Induction over paths is in  *)
(* the form of sets of paths that are closed under one more name.          *)
(***************************************************************************)
EXTENDS Traversal, FiniteSetTheorems, SequenceTheorems, WellFoundedInduction, TLAPS

LEMMA NatSetInduction ==
    ASSUME NEW S \in SUBSET Nat, 0 \in S, \A n \in S : n + 1 \in S
    PROVE  S = Nat
<1> DEFINE R == OpToRel(<, Nat)
<1>1. IsWellFoundedOn(R, Nat)
  BY NatLessThanWellFounded
<1>2. ASSUME Nat \ S # {}
      PROVE  FALSE
  <2>1. PICK x \in Nat \ S : \A y \in Nat \ S : <<y, x>> \notin R
    <3> HIDE DEF R
    <3> QED
      BY <1>1, <1>2, WFMin
  <2>2. x # 0 /\ x - 1 \in Nat /\ x - 1 < x
    OBVIOUS
  <2>3. <<x - 1, x>> \in R
    BY <2>1, <2>2 DEF OpToRel
  <2>4. x - 1 \in S
    <3> HIDE DEF R
    <3> QED
      BY <2>1, <2>2, <2>3
  <2> HIDE DEF R
  <2> QED
    BY <2>1, <2>2, <2>4
<1> QED
  BY <1>2

LEMMA SeqParts ==
    ASSUME NEW S, NEW s \in Seq(S), s # <<>>
    PROVE  /\ Front(s) \in Seq(S) /\ Last(s) \in S
           /\ Len(Front(s)) = Len(s) - 1
           /\ s = Append(Front(s), Last(s))
           /\ \A i \in 1 .. Len(s) - 1 : Front(s)[i] = s[i]
<1>1. Len(s) \in Nat \ {0} /\ \A i \in 1 .. Len(s) : s[i] \in S
  BY EmptySeq, ElementOfSeq
<1>2. /\ Front(s) \in Seq(S) /\ Len(Front(s)) = Len(s) - 1
      /\ \A i \in 1 .. Len(s) - 1 : Front(s)[i] = s[i]
  <2>1. /\ SubSeq(s, 1, Len(s) - 1) \in Seq(S)
        /\ Len(SubSeq(s, 1, Len(s) - 1)) = Len(s) - 1
        /\ \A i \in 1 .. Len(s) - 1 - 1 + 1 : SubSeq(s, 1, Len(s) - 1)[i] = s[1 + i - 1]
    <3>1. 1 \in Int /\ Len(s) - 1 \in Int /\ \A i \in 1 .. Len(s) - 1 : s[i] \in S
      BY <1>1
    <3>2. Len(SubSeq(s, 1, Len(s) - 1))
            = IF 1 <= Len(s) - 1 THEN Len(s) - 1 - 1 + 1 ELSE 0
      BY <3>1, SubSeqProperties
    <3>3. Len(s) \in Nat /\ Len(s) >= 1
      BY <1>1
    <3>4. (IF 1 <= Len(s) - 1 THEN Len(s) - 1 - 1 + 1 ELSE 0) = Len(s) - 1
      <4>1. \A k \in Nat : k >= 1 => (IF 1 <= k - 1 THEN k - 1 - 1 + 1 ELSE 0) = k - 1
        OBVIOUS
      <4> QED
        BY <3>3, <4>1
    <3> QED
      BY <3>1, <3>2, <3>4, SubSeqProperties
  <2>2. Front(s) \in Seq(S)
    BY <2>1 DEF Front
  <2>3. Len(Front(s)) = Len(s) - 1
    BY <2>1 DEF Front
  <2>4. ASSUME NEW i \in 1 .. Len(s) - 1
        PROVE  Front(s)[i] = s[i]
    <3>1. i \in 1 .. Len(s) - 1 - 1 + 1 /\ 1 + i - 1 = i
      BY <1>1
    <3> QED
      BY <2>1, <3>1 DEF Front
  <2> QED
    BY <2>2, <2>3, <2>4
<1>3. Last(s) \in S
  BY <1>1 DEF Last
<1>4. s = Append(Front(s), Last(s))
  <2>1. /\ Append(Front(s), Last(s)) \in Seq(S)
        /\ Len(Append(Front(s), Last(s))) = Len(s)
        /\ \A i \in 1 .. Len(s) : Append(Front(s), Last(s))[i] = s[i]
    BY <1>1, <1>2, <1>3, AppendProperties DEF Last
  <2> QED
    BY <2>1, SeqEqual
<1> QED
  BY <1>2, <1>3, <1>4

LEMMA PathParts ==
    ASSUME NEW path \in Paths, path # <<>>
    PROVE  /\ Front(path) \in Paths /\ Last(path) \in Names
           /\ Len(Front(path)) = Len(path) - 1
           /\ path = Append(Front(path), Last(path))
BY SeqParts DEF Paths

LEMMA AppendParts ==
    ASSUME NEW path \in Paths, NEW n \in Names
    PROVE  /\ Append(path, n) \in Paths /\ Append(path, n) # <<>>
           /\ Front(Append(path, n)) = path /\ Last(Append(path, n)) = n
           /\ Len(Append(path, n)) = Len(path) + 1
<1>1. /\ Append(path, n) \in Paths /\ Append(path, n) # <<>>
      /\ Len(Append(path, n)) = Len(path) + 1 /\ Len(path) \in Nat
      /\ Last(Append(path, n)) = n
  BY AppendProperties DEF Paths, Last
<1>2. /\ Front(Append(path, n)) \in Seq(Names) /\ Last(Append(path, n)) \in Names
      /\ Append(path, n) = Append(Front(Append(path, n)), Last(Append(path, n)))
  BY <1>1, PathParts DEF Paths
<1>3. Front(Append(path, n)) = path
  BY <1>1, <1>2, AppendInjective DEF Paths
<1> QED
  BY <1>1, <1>3

\* Induction over the length of a path.
LEMMA PathInduction ==
    ASSUME NEW S \in SUBSET Paths, <<>> \in S,
           \A path \in S, n \in Names : Append(path, n) \in S
    PROVE  S = Paths
<1> DEFINE T == {k \in Nat : \A path \in Paths : Len(path) = k => path \in S}
<1>1. 0 \in T
  BY EmptySeq DEF Paths
<1>2. ASSUME NEW k \in T
      PROVE  k + 1 \in T
  <2> SUFFICES ASSUME NEW path \in Paths, Len(path) = k + 1
               PROVE  path \in S
    OBVIOUS
  <2>1. path # <<>>
    BY EmptySeq DEF Paths
  <2>2. /\ Front(path) \in S /\ Last(path) \in Names
        /\ path = Append(Front(path), Last(path))
    BY <2>1, PathParts
  <2> QED
    BY <2>2
<1>3. T = Nat
  <2> HIDE DEF T
  <2>1. T \in SUBSET Nat
    BY DEF T
  <2> QED
    BY <1>1, <1>2, <2>1, NatSetInduction
<1> QED
  BY <1>3, LenProperties DEF Paths

\* What a recursive definition needs: over paths, a step from the value at a path to
\* that at one more name determines a function.
LEMMA Recursion ==
    ASSUME NEW V, NEW v \in V, NEW s \in [Names -> [V -> V]]
    PROVE  \E f \in [Paths -> V] :
                /\ f[<<>>] = v
                /\ \A path \in Paths, n \in Names : f[Append(path, n)] = s[n][f[path]]
<1> DEFINE Chained(path, c) ==
        /\ c \in [0 .. Len(path) -> V]
        /\ c[0] = v
        /\ \A k \in 1 .. Len(path) : c[k] = s[path[k]][c[k - 1]]
<1>1. \A path \in Paths : \E c : Chained(path, c)
  <2> DEFINE S == {path \in Paths : \E c : Chained(path, c)}
  <2>1. <<>> \in S
    <3>1. <<>> \in Paths /\ Len(<<>>) = 0
      BY EmptySeq DEF Paths
    <3>2. Chained(<<>>, [k \in 0 .. 0 |-> v])
      BY <3>1
    <3> QED
      BY <3>1, <3>2
  <2>2. ASSUME NEW path \in S, NEW n \in Names
        PROVE  Append(path, n) \in S
    <3>1. /\ Append(path, n) \in Paths /\ Len(Append(path, n)) = Len(path) + 1
          /\ Len(path) \in Nat
          /\ \A k \in 1 .. Len(path) : Append(path, n)[k] = path[k] /\ path[k] \in Names
          /\ Append(path, n)[Len(path) + 1] = n
      BY AppendProperties, LenProperties, ElementOfSeq DEF Paths
    <3>2. PICK c : Chained(path, c)
      OBVIOUS
    <3> DEFINE d == [k \in 0 .. Len(path) + 1 |->
                        IF k <= Len(path) THEN c[k] ELSE s[n][c[Len(path)]]]
    <3>3. c[Len(path)] \in V
      BY <3>1, <3>2
    <3>4. d \in [0 .. Len(path) + 1 -> V] /\ d[0] = v
      BY <3>1, <3>2, <3>3
    <3>5. ASSUME NEW k \in 1 .. Len(path) + 1
          PROVE  d[k] = s[Append(path, n)[k]][d[k - 1]]
      <4>1. CASE k <= Len(path)
        BY <3>1, <3>2, <4>1
      <4>2. CASE k = Len(path) + 1
        BY <3>1, <4>2
      <4> QED
        BY <3>1, <4>1, <4>2
    <3>6. Chained(Append(path, n), d)
      <4> HIDE DEF d
      <4> QED
        BY <3>1, <3>4, <3>5
    <3> QED
      BY <3>1, <3>6
  <2>3. S = Paths
    <3> HIDE DEF S
    <3>1. S \in SUBSET Paths
      BY DEF S
    <3> QED
      BY <2>1, <2>2, <3>1, PathInduction
  <2> QED
    BY <2>3
<1>2. ASSUME NEW path \in Paths, NEW n \in Names, NEW c, Chained(Append(path, n), c),
             NEW d, Chained(path, d)
      PROVE  c[Len(path) + 1] = s[n][d[Len(path)]]
  <2>1. /\ Append(path, n) \in Paths /\ Len(Append(path, n)) = Len(path) + 1
        /\ Len(path) \in Nat
        /\ \A k \in 1 .. Len(path) : Append(path, n)[k] = path[k]
        /\ Append(path, n)[Len(path) + 1] = n
    BY AppendProperties, LenProperties DEF Paths
  <2> DEFINE T == {k \in Nat : k <= Len(path) => c[k] = d[k]}
  <2>2. 0 \in T
    BY <1>2
  <2>3. ASSUME NEW k \in T
        PROVE  k + 1 \in T
    <3> SUFFICES ASSUME k + 1 <= Len(path)
                 PROVE  c[k + 1] = d[k + 1]
      OBVIOUS
    <3>1. k + 1 \in 1 .. Len(path) /\ k + 1 \in 1 .. Len(path) + 1 /\ k + 1 - 1 = k /\ c[k] = d[k]
      BY <2>1
    <3> QED
      BY <1>2, <2>1, <3>1
  <2>4. T = Nat
    <3> HIDE DEF T
    <3>1. T \in SUBSET Nat
      BY DEF T
    <3> QED
      BY <2>2, <2>3, <3>1, NatSetInduction
  <2>5. c[Len(path)] = d[Len(path)] /\ Len(path) + 1 - 1 = Len(path)
    BY <2>1, <2>4
  <2> QED
    BY <1>2, <2>1, <2>5
<1> DEFINE chain(path) == CHOOSE c : Chained(path, c)
           f == [path \in Paths |-> chain(path)[Len(path)]]
<1>3. \A path \in Paths : Chained(path, chain(path))
  <2> HIDE DEF Chained
  <2> QED
    BY <1>1
<1>4. \A path \in Paths : Len(path) \in Nat /\ f[path] = chain(path)[Len(path)]
  <2> HIDE DEF chain
  <2> QED
    BY LenProperties DEF Paths
<1>5. f \in [Paths -> V]
  <2>1. ASSUME NEW path \in Paths
        PROVE  chain(path)[Len(path)] \in V
    <3> HIDE DEF chain
    <3> QED
      BY <1>3, <1>4
  <2> HIDE DEF chain
  <2> QED
    BY <2>1
<1>6. f[<<>>] = v
  <2> <<>> \in Paths /\ Len(<<>>) = 0
    BY EmptySeq DEF Paths
  <2> HIDE DEF chain
  <2> QED
    BY <1>3
<1>7. ASSUME NEW path \in Paths, NEW n \in Names
      PROVE  f[Append(path, n)] = s[n][f[path]]
  <2>1. Append(path, n) \in Paths /\ Len(Append(path, n)) = Len(path) + 1
    BY AppendParts
  <2> HIDE DEF Chained, chain
  <2> QED
    BY <1>2, <1>3, <1>4, <2>1
<1> HIDE DEF f
<1> QED
  BY <1>5, <1>6, <1>7

\* The recursive definitions of Traversal, unfolded.
LEMMA AtUnfolds ==
    ASSUME entries \in [Dirs \X Names -> Objects \cup {None}]
    PROVE  /\ At \in [Paths -> Objects \cup {None}]
           /\ At[<<>>] = Top
           /\ \A path \in Paths, n \in Names :
                At[Append(path, n)] = IF At[path] \in Dirs THEN entries[<<At[path], n>>] ELSE None
<1> DEFINE V == Objects \cup {None}
           s == [n \in Names |-> [o \in V |-> IF o \in Dirs THEN entries[<<o, n>>] ELSE None]]
           Q(g) == g = [path \in Paths |->
                        IF path = <<>> THEN Top
                        ELSE LET o == g[Front(path)]
                             IN  IF o \in Dirs THEN entries[<<o, Last(path)>>] ELSE None]
<1>1. Top \in V /\ s \in [Names -> [V -> V]]
  BY TraversalAssumption DEF Objects
<1>2. PICK f \in [Paths -> V] :
            /\ f[<<>>] = Top
            /\ \A path \in Paths, n \in Names : f[Append(path, n)] = s[n][f[path]]
  <2> HIDE DEF V, s
  <2> QED
    BY <1>1, Recursion
<1>3. \A path \in Paths, n \in Names :
        f[Append(path, n)] = IF f[path] \in Dirs THEN entries[<<f[path], n>>] ELSE None
  BY <1>2
<1>4. ASSUME NEW path \in Paths
      PROVE  f[path] = IF path = <<>> THEN Top
                       ELSE LET o == f[Front(path)]
                            IN  IF o \in Dirs THEN entries[<<o, Last(path)>>] ELSE None
  <2>1. CASE path = <<>>
    BY <1>2, <2>1
  <2>2. CASE path # <<>>
    <3>1. Front(path) \in Paths /\ Last(path) \in Names /\ path = Append(Front(path), Last(path))
      BY <2>2, PathParts
    <3>2. f[Append(Front(path), Last(path))]
            = IF f[Front(path)] \in Dirs THEN entries[<<f[Front(path)], Last(path)>>] ELSE None
      BY <1>3, <3>1
    <3> QED
      BY <2>2, <3>1, <3>2, Zenon
  <2> QED
    BY <2>1, <2>2
<1>5. Q(f)
  <2> HIDE DEF V
  <2> QED
    BY <1>2, <1>4
<1>6. At = CHOOSE g : Q(g)
  BY DEF At
<1>7. Q(At)
  <2> HIDE DEF Q
  <2> QED
    BY <1>5, <1>6
<1>8. /\ At = [path \in Paths |-> At[path]] /\ At[<<>>] = Top
      /\ \A path \in Paths, n \in Names :
            At[Append(path, n)] = IF At[path] \in Dirs THEN entries[<<At[path], n>>] ELSE None
  <2>1. <<>> \in Paths
    BY EmptySeq DEF Paths
  <2>2. At = [path \in Paths |-> At[path]] /\ At[<<>>] = Top
    BY <1>7, <2>1
  <2>3. ASSUME NEW path \in Paths, NEW n \in Names
        PROVE  At[Append(path, n)]
                = IF At[path] \in Dirs THEN entries[<<At[path], n>>] ELSE None
    <3>1. /\ Append(path, n) \in Paths /\ Append(path, n) # <<>>
          /\ Front(Append(path, n)) = path /\ Last(Append(path, n)) = n
      BY AppendParts
    <3> QED
      BY <1>7, <3>1
  <2> QED
    BY <2>2, <2>3
<1>9. {path \in Paths : At[path] \in V} = Paths
  <2> DEFINE S == {path \in Paths : At[path] \in V}
  <2>1. <<>> \in S
    BY <1>1, <1>8, EmptySeq DEF Paths
  <2>2. ASSUME NEW path \in S, NEW n \in Names
        PROVE  Append(path, n) \in S
    BY <1>8, AppendParts
  <2> HIDE DEF S
  <2>3. S \in SUBSET Paths
    BY DEF S
  <2>4. S = Paths
    BY <2>1, <2>2, <2>3, PathInduction
  <2> QED
    BY <2>4 DEF S
<1> QED
  BY <1>8, <1>9

LEMMA WalkedUnfolds ==
    ASSUME NEW leads, \A l \in Links : leads[l] \in Paths
    PROVE  /\ Walked(leads) \in [Paths -> Paths]
           /\ Walked(leads)[<<>>] = <<>>
           /\ \A path \in Paths, n \in Names :
                Walked(leads)[Append(path, n)] =
                    LET p == Append(Walked(leads)[path], n)
                    IN  IF At[p] \in Links THEN leads[At[p]] ELSE p
<1> DEFINE step(p) == IF At[p] \in Links THEN leads[At[p]] ELSE p
           s == [n \in Names |-> [path \in Paths |-> step(Append(path, n))]]
           w == Walked(leads)
           Q(g) == g = [path \in Paths |->
                        IF path = <<>> THEN path
                        ELSE LET p == Append(g[Front(path)], Last(path))
                             IN  IF At[p] \in Links THEN leads[At[p]] ELSE p]
<1>1. \A p \in Paths : step(p) \in Paths
  OBVIOUS
<1>2. s \in [Names -> [Paths -> Paths]]
  <2> HIDE DEF step
  <2> QED
    BY <1>1, AppendParts
<1>3. <<>> \in Paths
  BY EmptySeq DEF Paths
<1>4. PICK f \in [Paths -> Paths] :
            /\ f[<<>>] = <<>>
            /\ \A path \in Paths, n \in Names : f[Append(path, n)] = s[n][f[path]]
  <2> DEFINE V == Paths
             none == <<>>
  <2>1. none \in V /\ s \in [Names -> [V -> V]]
    BY <1>2, <1>3
  <2>2. \E f \in [Paths -> V] :
            /\ f[<<>>] = none
            /\ \A path \in Paths, n \in Names : f[Append(path, n)] = s[n][f[path]]
    <3> HIDE DEF s, V, none, w, Q, step
    <3> QED
      BY <2>1, Recursion
  <2> QED
    BY <2>2
<1>5. \A path \in Paths, n \in Names : f[Append(path, n)] = step(Append(f[path], n))
  <2> HIDE DEF step
  <2> QED
    BY <1>4
<1>6. ASSUME NEW path \in Paths
      PROVE  f[path] = IF path = <<>> THEN path ELSE step(Append(f[Front(path)], Last(path)))
  <2> HIDE DEF step
  <2>1. CASE path = <<>>
    BY <1>4, <2>1
  <2>2. CASE path # <<>>
    <3>1. Front(path) \in Paths /\ Last(path) \in Names /\ path = Append(Front(path), Last(path))
      BY <2>2, PathParts
    <3>2. f[Append(Front(path), Last(path))] = step(Append(f[Front(path)], Last(path)))
      BY <1>5, <3>1
    <3> QED
      BY <2>2, <3>1, <3>2, Zenon
  <2> QED
    BY <2>1, <2>2
<1>7. Q(f)
  BY <1>4, <1>6
<1>8. Walked(leads) = CHOOSE g : Q(g)
  BY DEF Walked
<1>9. Q(w)
  <2> HIDE DEF Q
  <2> QED
    BY <1>7, <1>8
<1>10. /\ w = [path \in Paths |-> w[path]]
       /\ w[<<>>] = <<>>
  BY <1>3, <1>9
<1>11. ASSUME NEW path \in Paths, NEW n \in Names
       PROVE  w[Append(path, n)] = step(Append(w[path], n))
  <2>1. /\ Append(path, n) \in Paths /\ Append(path, n) # <<>>
        /\ Front(Append(path, n)) = path /\ Last(Append(path, n)) = n
    BY AppendParts
  <2> QED
    BY <1>9, <2>1
<1>12. {path \in Paths : w[path] \in Paths} = Paths
  <2> DEFINE S == {path \in Paths : w[path] \in Paths}
  <2>1. <<>> \in S
    BY <1>3, <1>10
  <2>2. ASSUME NEW path \in S, NEW n \in Names
        PROVE  Append(path, n) \in S
    <3> HIDE DEF step
    <3> QED
      BY <1>1, <1>11, AppendParts
  <2> HIDE DEF S
  <2>3. S \in SUBSET Paths
    BY DEF S
  <2>4. S = Paths
    BY <2>1, <2>2, <2>3, PathInduction
  <2> QED
    BY <2>4 DEF S
<1>13. w \in [Paths -> Paths]
  BY <1>10, <1>12
<1> QED
  BY <1>10, <1>11, <1>13

\* ... and over numbers, for the links nested in each other.
LEMMA NatRecursion ==
    ASSUME NEW V, NEW v \in V, NEW s \in [V -> V]
    PROVE  \E f \in [Nat -> V] : f[0] = v /\ \A k \in Nat : f[k + 1] = s[f[k]]
<1> DEFINE Chained(k, c) == /\ c \in [0 .. k -> V]
                            /\ c[0] = v
                            /\ \A i \in 1 .. k : c[i] = s[c[i - 1]]
           S == {k \in Nat : \E c : Chained(k, c)}
<1>1. 0 \in S
  <2>1. Chained(0, [i \in 0 .. 0 |-> v])
    OBVIOUS
  <2> QED
    BY <2>1
<1>2. ASSUME NEW k \in S
      PROVE  k + 1 \in S
  <2>1. PICK c : Chained(k, c)
    OBVIOUS
  <2> DEFINE d == [i \in 0 .. k + 1 |-> IF i <= k THEN c[i] ELSE s[c[k]]]
  <2>2. c[k] \in V
    BY <2>1
  <2>3. d \in [0 .. k + 1 -> V] /\ d[0] = v
    BY <2>1, <2>2
  <2>4. ASSUME NEW i \in 1 .. k + 1
        PROVE  d[i] = s[d[i - 1]]
    <3>1. CASE i <= k
      BY <2>1, <3>1
    <3>2. CASE i = k + 1
      BY <3>2
    <3> QED
      BY <3>1, <3>2
  <2>5. Chained(k + 1, d)
    <3> HIDE DEF d
    <3> QED
      BY <2>3, <2>4
  <2> HIDE DEF d, Chained
  <2> QED
    BY <2>5
<1>3. S = Nat
  <2> HIDE DEF S
  <2>1. S \in SUBSET Nat
    BY DEF S
  <2> QED
    BY <1>1, <1>2, <2>1, NatSetInduction
<1>4. ASSUME NEW k \in Nat, NEW c, Chained(k + 1, c), NEW d, Chained(k, d)
      PROVE  c[k + 1] = s[d[k]]
  <2> DEFINE T == {i \in Nat : i <= k => c[i] = d[i]}
  <2>1. 0 \in T
    BY <1>4
  <2>2. ASSUME NEW i \in T
        PROVE  i + 1 \in T
    <3> SUFFICES ASSUME i + 1 <= k
                 PROVE  c[i + 1] = d[i + 1]
      OBVIOUS
    <3>1. i + 1 \in 1 .. k /\ i + 1 \in 1 .. k + 1 /\ i + 1 - 1 = i /\ c[i] = d[i]
      OBVIOUS
    <3> QED
      BY <1>4, <3>1
  <2>3. T = Nat
    <3> HIDE DEF T
    <3>1. T \in SUBSET Nat
      BY DEF T
    <3> QED
      BY <2>1, <2>2, <3>1, NatSetInduction
  <2>4. c[k] = d[k] /\ k + 1 - 1 = k /\ k + 1 \in 1 .. k + 1
    BY <2>3
  <2> QED
    BY <1>4, <2>4
<1> DEFINE chain(k) == CHOOSE c : Chained(k, c)
           f == [k \in Nat |-> chain(k)[k]]
<1>5. \A k \in Nat : Chained(k, chain(k))
  <2>1. \A k \in Nat : \E c : Chained(k, c)
    BY <1>3
  <2> HIDE DEF Chained
  <2> QED
    BY <2>1
<1>6. f \in [Nat -> V]
  <2>1. ASSUME NEW k \in Nat
        PROVE  chain(k)[k] \in V
    <3> HIDE DEF chain
    <3> QED
      BY <1>5
  <2> HIDE DEF chain
  <2> QED
    BY <2>1
<1>7. \A k \in Nat : f[k] = chain(k)[k]
  <2> HIDE DEF chain
  <2> QED
    OBVIOUS
<1>8. f[0] = v
  <2> HIDE DEF chain, f
  <2> QED
    BY <1>5, <1>7
<1>9. ASSUME NEW k \in Nat
      PROVE  f[k + 1] = s[f[k]]
  <2> HIDE DEF chain, f, Chained
  <2> QED
    BY <1>4, <1>5, <1>7
<1> HIDE DEF f
<1> QED
  BY <1>6, <1>8, <1>9

LEMMA LeadsUnfolds ==
    /\ Leads[0] = Target
    /\ \A k \in Nat : /\ Leads[k] \in [Links -> Paths]
                      /\ Leads[k + 1] = [l \in Links |-> Walked(Leads[k])[Target[l]]]
<1> DEFINE V == [Links -> Paths]
           s == [leads \in V |-> [l \in Links |-> Walked(leads)[Target[l]]]]
           Q(g) == g = [k \in Nat |-> [l \in Links |->
                        IF k = 0 THEN Target[l] ELSE Walked(g[k - 1])[Target[l]]]]
<1>1. Target \in V
  BY TraversalAssumption
<1>2. s \in [V -> V]
  <2>1. ASSUME NEW leads \in V, NEW l \in Links
        PROVE  Walked(leads)[Target[l]] \in Paths
    BY WalkedUnfolds, TraversalAssumption
  <2> QED
    BY <2>1
<1>3. PICK f \in [Nat -> V] : f[0] = Target /\ \A k \in Nat : f[k + 1] = s[f[k]]
  <2> HIDE DEF V, s
  <2> QED
    BY <1>1, <1>2, NatRecursion
<1>4. \A k \in Nat : f[k + 1] = [l \in Links |-> Walked(f[k])[Target[l]]]
  BY <1>3
<1>5. ASSUME NEW k \in Nat
      PROVE  f[k] = [l \in Links |-> IF k = 0 THEN Target[l] ELSE Walked(f[k - 1])[Target[l]]]
  <2>1. CASE k = 0
    BY <1>1, <1>3, <2>1
  <2>2. CASE k # 0
    <3>1. k - 1 \in Nat /\ k - 1 + 1 = k
      BY <2>2
    <3> QED
      BY <1>4, <2>2, <3>1
  <2> QED
    BY <2>1, <2>2
<1>6. Q(f)
  BY <1>5
<1>7. Leads = CHOOSE g : Q(g)
  BY DEF Leads
<1>8. Q(Leads)
  <2> HIDE DEF Q
  <2> QED
    BY <1>6, <1>7
<1>9. Leads[0] = Target
  BY <1>1, <1>8
<1>14. \A j \in Nat :
        Leads[j] = [l \in Links |-> IF j = 0 THEN Target[l] ELSE Walked(Leads[j - 1])[Target[l]]]
  <2> HIDE DEF V, s
  <2> QED
    BY <1>8
<1>10. ASSUME NEW k \in Nat
       PROVE  Leads[k + 1] = [l \in Links |-> Walked(Leads[k])[Target[l]]]
  <2>1. k + 1 \in Nat /\ k + 1 # 0 /\ k + 1 - 1 = k
    OBVIOUS
  <2> HIDE DEF V, s, Q
  <2> QED
    BY <1>14, <2>1
<1> DEFINE S == {k \in Nat : Leads[k] \in V}
<1>11. 0 \in S
  BY <1>1, <1>9
<1>12. ASSUME NEW k \in S
       PROVE  k + 1 \in S
  <2>1. \A l \in Links : Walked(Leads[k])[Target[l]] \in Paths
    BY WalkedUnfolds, TraversalAssumption
  <2>2. Leads[k + 1] = [l \in Links |-> Walked(Leads[k])[Target[l]]]
    BY <1>10
  <2>3. Leads[k + 1] \in V
    <3> HIDE DEF Q, s
    <3> QED
      BY <2>1, <2>2
  <2> HIDE DEF Q, s, V
  <2> QED
    BY <2>3
<1>13. S = Nat
  <2> HIDE DEF S
  <2>1. S \in SUBSET Nat
    BY DEF S
  <2> QED
    BY <1>11, <1>12, <2>1, NatSetInduction
<1> QED
  BY <1>9, <1>10, <1>13

Depth == Cardinality(Links)
Far == Leads[Depth]

LEMMA CanonicalUnfolds ==
    /\ Far \in [Links -> Paths]
    /\ Canonical = Walked(Far)
    /\ Canonical \in [Paths -> Paths]
    /\ Canonical[<<>>] = <<>>
    /\ \A path \in Paths, n \in Names :
        Canonical[Append(path, n)] =
            LET p == Append(Canonical[path], n) IN IF At[p] \in Links THEN Far[At[p]] ELSE p
<1>1. Depth \in Nat
  BY TraversalAssumption, FS_CardinalityType DEF Depth
<1>2. Far \in [Links -> Paths]
  BY <1>1, LeadsUnfolds DEF Far
<1>3. Canonical = Walked(Far)
  BY DEF Canonical, Far, Depth
<1> QED
  BY <1>2, <1>3, WalkedUnfolds

-------------------------------------------------------------------------------
(* Paths and their beginnings.                                             *)

Upto(path, k) == SubSeq(path, 1, k)

LEMMA UptoParts ==
    ASSUME NEW path \in Paths, NEW k \in 0 .. Len(path)
    PROVE  /\ Len(path) \in Nat
           /\ Upto(path, k) \in Paths /\ Len(Upto(path, k)) = k
           /\ \A i \in 1 .. k : Upto(path, k)[i] = path[i]
           /\ \A i \in 1 .. Len(path) : path[i] \in Names
<1>1. Len(path) \in Nat /\ \A i \in 1 .. Len(path) : path[i] \in Names
  BY LenProperties, ElementOfSeq DEF Paths
<1>2. k \in Int /\ k >= 0 /\ k <= Len(path) /\ \A i \in 1 .. k : path[i] \in Names
  BY <1>1
<1>3. /\ SubSeq(path, 1, k) \in Seq(Names)
      /\ Len(SubSeq(path, 1, k)) = IF 1 <= k THEN k - 1 + 1 ELSE 0
      /\ \A i \in 1 .. k - 1 + 1 : SubSeq(path, 1, k)[i] = path[1 + i - 1]
  BY <1>2, SubSeqProperties
<1>4. (IF 1 <= k THEN k - 1 + 1 ELSE 0) = k
  BY <1>2
<1>5. ASSUME NEW i \in 1 .. k
      PROVE  SubSeq(path, 1, k)[i] = path[i]
  <2>1. i \in 1 .. k - 1 + 1 /\ 1 + i - 1 = i
    BY <1>2
  <2> QED
    BY <1>3, <2>1
<1> QED
  BY <1>1, <1>3, <1>4, <1>5 DEF Upto, Paths

LEMMA SamePath ==
    ASSUME NEW s \in Paths, NEW t \in Paths, Len(s) = Len(t),
           \A i \in 1 .. Len(s) : s[i] = t[i]
    PROVE  s = t
BY SeqEqual DEF Paths

LEMMA UptoEnds ==
    ASSUME NEW path \in Paths
    PROVE  Upto(path, 0) = <<>> /\ Upto(path, Len(path)) = path
<1>1. Len(path) \in Nat /\ <<>> \in Paths /\ Len(<<>>) = 0
  BY LenProperties, EmptySeq DEF Paths
<1>2. 0 \in 0 .. Len(path) /\ Len(path) \in 0 .. Len(path)
  BY <1>1
<1>3. Upto(path, 0) = <<>>
  <2>1. Upto(path, 0) \in Paths /\ Len(Upto(path, 0)) = 0
    BY <1>2, UptoParts
  <2> QED
    BY <1>1, <2>1, EmptySeq DEF Paths
<1>4. Upto(path, Len(path)) = path
  <2>1. /\ Upto(path, Len(path)) \in Paths /\ Len(Upto(path, Len(path))) = Len(path)
        /\ \A i \in 1 .. Len(path) : Upto(path, Len(path))[i] = path[i]
    BY <1>2, UptoParts
  <2> QED
    BY <2>1, SamePath
<1> QED
  BY <1>3, <1>4

LEMMA UptoNext ==
    ASSUME NEW path \in Paths, NEW k \in 0 .. Len(path) - 1
    PROVE  Upto(path, k + 1) = Append(Upto(path, k), path[k + 1]) /\ path[k + 1] \in Names
<1>1. Len(path) \in Nat /\ \A i \in 1 .. Len(path) : path[i] \in Names
  BY LenProperties, ElementOfSeq DEF Paths
<1>2. k \in 0 .. Len(path) /\ k + 1 \in 0 .. Len(path) /\ k + 1 \in 1 .. Len(path)
  BY <1>1
<1>3. /\ Upto(path, k) \in Paths /\ Len(Upto(path, k)) = k
      /\ \A i \in 1 .. k : Upto(path, k)[i] = path[i]
      /\ Upto(path, k + 1) \in Paths /\ Len(Upto(path, k + 1)) = k + 1
      /\ \A i \in 1 .. k + 1 : Upto(path, k + 1)[i] = path[i]
  BY <1>2, UptoParts
<1>4. path[k + 1] \in Names
  BY <1>1, <1>2
<1> DEFINE s == Append(Upto(path, k), path[k + 1])
<1>5. /\ s \in Paths /\ Len(s) = k + 1
      /\ \A i \in 1 .. k : s[i] = Upto(path, k)[i]
      /\ s[k + 1] = path[k + 1]
  BY <1>3, <1>4, AppendProperties DEF Paths
<1>6. \A i \in 1 .. k + 1 : Upto(path, k + 1)[i] = s[i]
  <2> HIDE DEF s
  <2> QED
    BY <1>2, <1>3, <1>5
<1>7. Upto(path, k + 1) = s
  <2> HIDE DEF s
  <2> QED
    BY <1>3, <1>5, <1>6, SamePath
<1> QED
  BY <1>4, <1>7

LEMMA UptoFront ==
    ASSUME NEW path \in Paths, path # <<>>
    PROVE  Front(path) = Upto(path, Len(path) - 1) /\ Len(path) \in Nat \ {0}
BY EmptySeq DEF Front, Upto, Paths

-------------------------------------------------------------------------------
(* What paths lead to in one state.                                        *)

Tree == entries \in [Dirs \X Names -> Objects \cup {None}]

LEMMA AtUpto ==
    Tree => \A path \in Paths : \A k \in 0 .. Len(path) - 1 :
                At[Upto(path, k + 1)] =
                    IF At[Upto(path, k)] \in Dirs
                        THEN entries[<<At[Upto(path, k)], path[k + 1]>>] ELSE None
<1> SUFFICES ASSUME Tree, NEW path \in Paths, NEW k \in 0 .. Len(path) - 1
             PROVE  At[Upto(path, k + 1)] =
                        IF At[Upto(path, k)] \in Dirs
                            THEN entries[<<At[Upto(path, k)], path[k + 1]>>] ELSE None
  OBVIOUS
<1>1. Upto(path, k + 1) = Append(Upto(path, k), path[k + 1]) /\ path[k + 1] \in Names
  BY UptoNext
<1>2. k \in 0 .. Len(path)
  BY LenProperties DEF Paths
<1>3. Upto(path, k) \in Paths
  BY <1>2, UptoParts
<1> QED
  BY <1>1, <1>3, AtUnfolds DEF Tree

LEMMA AtTyped == Tree => \A path \in Paths : At[path] \in Objects \cup {None}
BY AtUnfolds DEF Tree

\* Everything that is there is below directories.
LEMMA DirsAbove ==
    Tree => \A path \in Paths : At[path] # None =>
                \A k \in 0 .. Len(path) - 1 : At[Upto(path, k)] \in Dirs
<1> SUFFICES ASSUME Tree, NEW path \in Paths, NEW k \in 0 .. Len(path) - 1,
                    At[Upto(path, k)] \notin Dirs
             PROVE  At[path] = None
  OBVIOUS
<1>1. Len(path) \in Nat /\ k \in Nat /\ k + 1 <= Len(path)
  BY LenProperties DEF Paths
<1>2. \A i \in 0 .. Len(path) - 1 :
        At[Upto(path, i)] \notin Dirs => At[Upto(path, i + 1)] = None
  BY AtUpto
<1>3. None \notin Dirs
  BY TraversalAssumption DEF Objects
<1> DEFINE gone(i) == At[Upto(path, i)] = None
           T == {i \in Nat : k < i /\ i <= Len(path) => gone(i)}
<1>4. 0 \in T
  BY <1>1
<1>5. ASSUME NEW i \in T
      PROVE  i + 1 \in T
  <2> SUFFICES ASSUME k < i + 1, i + 1 <= Len(path)
               PROVE  gone(i + 1)
    OBVIOUS
  <2>1. i \in 0 .. Len(path) - 1
    BY <1>1
  <2>2. CASE i = k
    BY <1>2, <2>1, <2>2
  <2>3. CASE i # k
    <3>1. k < i /\ i <= Len(path)
      BY <1>1, <2>3
    <3>2. gone(i)
      BY <3>1
    <3> QED
      BY <1>2, <1>3, <2>1, <3>2
  <2> QED
    BY <2>2, <2>3
<1>6. T = Nat
  <2> HIDE DEF T
  <2>1. T \in SUBSET Nat
    BY DEF T
  <2> QED
    BY <1>4, <1>5, <2>1, NatSetInduction
<1>7. gone(Len(path))
  <2> HIDE DEF gone
  <2> QED
    BY <1>1, <1>6
<1> QED
  BY <1>7, UptoEnds

\* What a path without links leads to is where the path says.
LEMMA PlainPath ==
    Tree => \A path \in Paths : At[path] \notin Links \cup {None} => Canonical[path] = path
<1> SUFFICES ASSUME Tree
             PROVE  \A path \in Paths : At[path] \notin Links \cup {None} => Canonical[path] = path
  OBVIOUS
<1> DEFINE S == {path \in Paths : At[path] \notin Links \cup {None} => Canonical[path] = path}
<1>1. <<>> \in S
  BY CanonicalUnfolds, EmptySeq DEF Paths
<1>2. ASSUME NEW path \in S, NEW n \in Names
      PROVE  Append(path, n) \in S
  <2>1. Append(path, n) \in Paths /\ Dirs \cap (Links \cup {None}) = {}
    BY AppendParts, TraversalAssumption DEF Objects
  <2>2. At[Append(path, n)] = IF At[path] \in Dirs THEN entries[<<At[path], n>>] ELSE None
    BY AtUnfolds DEF Tree
  <2> SUFFICES ASSUME At[Append(path, n)] \notin Links \cup {None}
               PROVE  Canonical[Append(path, n)] = Append(path, n)
    BY <2>1
  <2>3. Canonical[path] = path
    BY <2>1, <2>2
  <2>4. Canonical[Append(path, n)] =
            LET p == Append(Canonical[path], n) IN IF At[p] \in Links THEN Far[At[p]] ELSE p
    BY CanonicalUnfolds
  <2> QED
    BY <2>3, <2>4
<1>3. S = Paths
  <2> HIDE DEF S
  <2>1. S \in SUBSET Paths
    BY DEF S
  <2> QED
    BY <1>1, <1>2, <2>1, PathInduction
<1> QED
  BY <1>3

LEMMA DirPath ==
    Tree => \A path \in Paths : At[path] \in Dirs => Canonical[path] = path
<1>1. Dirs \cap (Links \cup {None}) = {}
  BY TraversalAssumption DEF Objects
<1> QED
  BY <1>1, PlainPath

LEMMA PlainLstat ==
    Tree => \A path \in Paths \ {<<>>} : At[Front(path)] \in Dirs => Lstat(path) = At[path]
<1> SUFFICES ASSUME Tree, NEW path \in Paths \ {<<>>}, At[Front(path)] \in Dirs
             PROVE  Lstat(path) = At[path]
  OBVIOUS
<1>1. Front(path) \in Paths /\ path = Append(Front(path), Last(path))
  BY PathParts
<1> QED
  BY <1>1, DirPath DEF Lstat

-------------------------------------------------------------------------------
(* What a step changes. Entries are changed by others, who leave a trace,  *)
(* or are free and now lead to a new directory, which has nothing in it.   *)

Barren(o) == o \in Dirs /\ \A n \in Names : entries'[<<o, n>>] = None

Grown ==
    /\ Tree /\ Tree'
    /\ touched \subseteq touched' /\ touched \subseteq Dirs \X Names
    /\ \A e \in Dirs \X Names :
        \/ entries'[e] = entries[e]
        \/ e \in touched'
        \/ entries[e] = None /\ Barren(entries'[e])

LEMMA NextAtUpto ==
    Tree' => \A path \in Paths : \A k \in 0 .. Len(path) - 1 :
                At'[Upto(path, k + 1)] =
                    IF At'[Upto(path, k)] \in Dirs
                        THEN entries'[<<At'[Upto(path, k)], path[k + 1]>>] ELSE None
<1>1. (Tree => \A path \in Paths : \A k \in 0 .. Len(path) - 1 :
                At[Upto(path, k + 1)] =
                    IF At[Upto(path, k)] \in Dirs
                        THEN entries[<<At[Upto(path, k)], path[k + 1]>>] ELSE None)'
  BY AtUpto, PTL
<1> QED
  BY <1>1

LEMMA NextAtTyped == Tree' => \A path \in Paths : At'[path] \in Objects \cup {None}
<1>1. (Tree => \A path \in Paths : At[path] \in Objects \cup {None})'
  BY AtTyped, PTL
<1> QED
  BY <1>1

LEMMA NextAtAppend ==
    Tree' => \A path \in Paths, n \in Names :
                At'[Append(path, n)] = IF At'[path] \in Dirs THEN entries'[<<At'[path], n>>] ELSE None
<1>1. Tree => \A path \in Paths, n \in Names :
                At[Append(path, n)] = IF At[path] \in Dirs THEN entries[<<At[path], n>>] ELSE None
  BY AtUnfolds DEF Tree
<1>2. (Tree => \A path \in Paths, n \in Names :
                At[Append(path, n)] = IF At[path] \in Dirs THEN entries[<<At[path], n>>] ELSE None)'
  BY <1>1, PTL
<1> QED
  BY <1>2

LEMMA AtRoot == Tree => At[<<>>] = Top
BY AtUnfolds DEF Tree

LEMMA NextAtRoot == Tree' => At'[<<>>] = Top
<1>1. (Tree => At[<<>>] = Top)'
  BY AtRoot, PTL
<1> QED
  BY <1>1

\* The links of a chain, one by one.
LEMMA ChainLinks ==
    ASSUME NEW path \in Paths
    PROVE  /\ Undisturbed(path) <=>
                \A k \in 0 .. Len(path) - 1 : <<At[Upto(path, k)], path[k + 1]>> \notin touched
           /\ Undisturbed(path)' <=>
                \A k \in 0 .. Len(path) - 1 : <<At'[Upto(path, k)], path[k + 1]>> \notin touched'
<1>1. Len(path) \in Nat
  BY LenProperties DEF Paths
<1>2. /\ \A k \in 0 .. Len(path) - 1 : k + 1 \in 1 .. Len(path) /\ k + 1 - 1 = k
      /\ \A k \in 1 .. Len(path) : k - 1 \in 0 .. Len(path) - 1 /\ k - 1 + 1 = k
  BY <1>1
<1>3. Chain(path) = {<<At[Upto(path, k)], path[k + 1]>> : k \in 0 .. Len(path) - 1}
  BY <1>2 DEF Chain, Upto
<1>4. Chain(path)' = {<<At'[Upto(path, k)], path[k + 1]>> : k \in 0 .. Len(path) - 1}
  BY <1>2 DEF Chain, Upto
<1> QED
  BY <1>3, <1>4 DEF Undisturbed

LEMMA Followed ==
    ASSUME Grown, NEW path \in Paths, Undisturbed(path)',
           NEW k \in 0 .. Len(path)
    PROVE  \/ At'[Upto(path, k)] = At[Upto(path, k)]
           \/ /\ At[Upto(path, k)] = None
              /\ At'[Upto(path, k)] = None \/ Barren(At'[Upto(path, k)])
<1>1. Len(path) \in Nat
  BY LenProperties DEF Paths
<1>2. None \notin Dirs
  BY TraversalAssumption DEF Objects
<1> DEFINE same(i) == \/ At'[Upto(path, i)] = At[Upto(path, i)]
                      \/ /\ At[Upto(path, i)] = None
                         /\ At'[Upto(path, i)] = None \/ Barren(At'[Upto(path, i)])
           T == {i \in Nat : i <= Len(path) => same(i)}
<1>3. 0 \in T
  <2>1. At[<<>>] = Top
    BY AtUnfolds DEF Grown, Tree
  <2>2. At'[<<>>] = Top
    BY NextAtRoot DEF Grown
  <2> QED
    BY <2>1, <2>2, UptoEnds DEF Grown
<1>4. ASSUME NEW i \in T
      PROVE  i + 1 \in T
  <2> SUFFICES ASSUME i + 1 <= Len(path)
               PROVE  same(i + 1)
    OBVIOUS
  <2>1. i \in 0 .. Len(path) - 1 /\ same(i)
    BY <1>1
  <2> DEFINE o == At[Upto(path, i)]
             q == At'[Upto(path, i)]
             n == path[i + 1]
  <2>2. n \in Names
    BY <2>1, UptoNext
  <2>3. At[Upto(path, i + 1)] = IF o \in Dirs THEN entries[<<o, n>>] ELSE None
    BY <2>1, AtUpto DEF Grown
  <2>4. At'[Upto(path, i + 1)] = IF q \in Dirs THEN entries'[<<q, n>>] ELSE None
    BY <2>1, NextAtUpto DEF Grown
  <2>5. <<q, n>> \notin touched'
    BY <2>1, ChainLinks
  <2>6. CASE q = o
    <3>1. CASE o \notin Dirs
      BY <2>3, <2>4, <2>6, <3>1
    <3>2. CASE o \in Dirs
      <4>1. \/ entries'[<<o, n>>] = entries[<<o, n>>]
            \/ entries[<<o, n>>] = None /\ Barren(entries'[<<o, n>>])
        BY <2>2, <2>5, <2>6, <3>2 DEF Grown
      <4>2. /\ At[Upto(path, i + 1)] = entries[<<o, n>>]
            /\ At'[Upto(path, i + 1)] = entries'[<<o, n>>]
        BY <2>3, <2>4, <2>6, <3>2
      <4> QED
        BY <4>1, <4>2
    <3> QED
      BY <3>1, <3>2
  <2>7. CASE o = None /\ q = None
    BY <1>2, <2>3, <2>4, <2>7
  <2>8. CASE o = None /\ Barren(q)
    BY <1>2, <2>2, <2>3, <2>4, <2>8 DEF Barren
  <2> QED
    BY <2>1, <2>6, <2>7, <2>8
<1>5. T = Nat
  <2> HIDE DEF T
  <2>1. T \in SUBSET Nat
    BY DEF T
  <2> QED
    BY <1>3, <1>4, <2>1, NatSetInduction
<1>6. same(k)
  <2> HIDE DEF same
  <2> QED
    BY <1>1, <1>5
<1> QED
  BY <1>6

LEMMA UndisturbedBefore ==
    ASSUME Grown, NEW path \in Paths, Undisturbed(path)'
    PROVE  Undisturbed(path)
<1> SUFFICES ASSUME NEW k \in 0 .. Len(path) - 1
             PROVE  <<At[Upto(path, k)], path[k + 1]>> \notin touched
  BY ChainLinks
<1>1. k \in 0 .. Len(path)
  BY LenProperties DEF Paths
<1>2. At'[Upto(path, k)] = At[Upto(path, k)] \/ At[Upto(path, k)] = None
  BY <1>1, Followed
<1>3. <<At'[Upto(path, k)], path[k + 1]>> \notin touched'
  BY ChainLinks
<1>4. None \notin Dirs
  BY TraversalAssumption DEF Objects
<1> QED
  BY <1>2, <1>3, <1>4 DEF Grown

\* What an undisturbed path leads to stays; but for directories, all it leads to
\* was there before.
LEMMA Steady ==
    ASSUME Grown, NEW path \in Paths, Undisturbed(path)'
    PROVE  /\ At[path] # None => At'[path] = At[path]
           /\ At'[path] \notin Dirs \cup {None} => At'[path] = At[path]
<1>1. Len(path) \in 0 .. Len(path)
  BY LenProperties DEF Paths
<1>2. \/ At'[path] = At[path]
      \/ /\ At[path] = None
         /\ At'[path] = None \/ Barren(At'[path])
  BY <1>1, Followed, UptoEnds
<1> QED
  BY <1>2 DEF Barren

\* Nothing is disturbed while others have left no trace.
LEMMA Untouched ==
    ASSUME touched' = {}, NEW path \in Paths
    PROVE  Undisturbed(path)'
BY DEF Undisturbed

WalkedRule ==
    \A leads \in [Links -> Paths] :
        /\ Walked(leads) \in [Paths -> Paths]
        /\ Walked(leads)[<<>>] = <<>>
        /\ \A p \in Paths, n \in Names :
            Walked(leads)[Append(p, n)] =
                IF At[Append(Walked(leads)[p], n)] \in Links
                    THEN leads[At[Append(Walked(leads)[p], n)]] ELSE Append(Walked(leads)[p], n)
LeadsRule ==
    /\ Leads[0] = Target
    /\ \A k \in Nat : /\ Leads[k] \in [Links -> Paths]
                      /\ Leads[k + 1] = [l \in Links |-> Walked(Leads[k])[Target[l]]]

LEMMA Rules == WalkedRule /\ LeadsRule /\ WalkedRule' /\ LeadsRule'
<1>1. WalkedRule
  BY WalkedUnfolds DEF WalkedRule
<1>2. LeadsRule
  BY LeadsUnfolds DEF LeadsRule
<1> QED
  BY <1>1, <1>2, PTL

LEMMA WalkedSteady ==
    ASSUME Grown, touched' = {}, NEW leads \in [Links -> Paths]
    PROVE  Walked(leads)' = Walked(leads)
<1> DEFINE w == Walked(leads)
           v == Walked(leads)'
           S == {p \in Paths : v[p] = w[p]}
<1>1. /\ v \in [Paths -> Paths]
      /\ v[<<>>] = <<>>
      /\ \A p \in Paths, n \in Names :
            v[Append(p, n)] =
                IF At'[Append(v[p], n)] \in Links
                    THEN leads[At'[Append(v[p], n)]] ELSE Append(v[p], n)
  BY Rules DEF WalkedRule
<1>2. /\ w \in [Paths -> Paths]
      /\ w[<<>>] = <<>>
      /\ \A p \in Paths, n \in Names :
            w[Append(p, n)] =
                IF At[Append(w[p], n)] \in Links
                    THEN leads[At[Append(w[p], n)]] ELSE Append(w[p], n)
  BY Rules DEF WalkedRule
<1> HIDE DEF w, v
<1>3. <<>> \in S
  BY <1>1, <1>2, EmptySeq DEF Paths
<1>4. ASSUME NEW p \in S, NEW n \in Names
      PROVE  Append(p, n) \in S
  <2> DEFINE q == Append(w[p], n)
  <2>1. Append(p, n) \in Paths /\ q \in Paths
    BY <1>2, AppendParts
  <2>2. Links \cap (Dirs \cup {None}) = {}
    BY TraversalAssumption DEF Objects
  <2>3. At[q] \in Links \/ At'[q] \in Links => At'[q] = At[q]
    BY <2>1, <2>2, Steady, Untouched
  <2>4. /\ w[Append(p, n)] = IF At[q] \in Links THEN leads[At[q]] ELSE q
        /\ v[Append(p, n)] = IF At'[q] \in Links THEN leads[At'[q]] ELSE q
    BY <1>1, <1>2
  <2> QED
    BY <2>1, <2>3, <2>4
<1>5. S = Paths
  <2> HIDE DEF S
  <2>1. S \in SUBSET Paths
    BY DEF S
  <2> QED
    BY <1>3, <1>4, <2>1, PathInduction
<1>6. v = w
  BY <1>1, <1>2, <1>5
<1> QED
  BY <1>6 DEF v, w

LEMMA CanonicalSteady ==
    ASSUME Grown, touched' = {}
    PROVE  Canonical' = Canonical
<1> DEFINE S == {k \in Nat : Leads'[k] = Leads[k]}
<1>1. 0 \in S
  BY Rules DEF LeadsRule
<1>2. ASSUME NEW k \in S
      PROVE  k + 1 \in S
  <2>1. PICK leads \in [Links -> Paths] : leads = Leads[k]
    BY Rules DEF LeadsRule
  <2>2. Walked(leads)' = Walked(leads)
    BY WalkedSteady
  <2>3. /\ Leads[k + 1] = [l \in Links |-> Walked(leads)[Target[l]]]
        /\ Leads'[k + 1] = [l \in Links |-> Walked(leads)'[Target[l]]]
    BY <2>1, Rules DEF LeadsRule
  <2> QED
    BY <2>2, <2>3
<1>3. S = Nat
  <2> HIDE DEF S
  <2>1. S \in SUBSET Nat
    BY DEF S
  <2> QED
    BY <1>1, <1>2, <2>1, NatSetInduction
<1>4. Depth \in Nat
  BY TraversalAssumption, FS_CardinalityType DEF Depth
<1>5. PICK leads \in [Links -> Paths] : leads = Leads[Depth] /\ leads = Leads'[Depth]
  BY <1>3, <1>4, Rules DEF LeadsRule
<1>6. Walked(leads)' = Walked(leads)
  BY WalkedSteady
<1> QED
  BY <1>5, <1>6 DEF Canonical, Depth

LEMMA LstatSteady ==
    ASSUME Grown, touched' = {}, NEW path \in Paths \ {<<>>}
    PROVE  Lstat(path) # None => Lstat(path)' = Lstat(path)
<1> DEFINE q == Append(Canonical[Front(path)], Last(path))
<1>1. Front(path) \in Paths /\ Last(path) \in Names
  BY PathParts
<1>2. q \in Paths
  BY <1>1, CanonicalUnfolds, AppendParts
<1>3. Lstat(path)' = At'[q]
  BY <1>1, CanonicalSteady DEF Lstat
<1> QED
  BY <1>2, <1>3, Steady, Untouched DEF Lstat

-------------------------------------------------------------------------------
(* The type invariant, and that directories not made yet are empty.        *)

LEMMA PrefixMeans ==
    ASSUME NEW s \in Paths, NEW t \in Paths
    PROVE  IsPrefix(s, t) <=> Len(s) <= Len(t) /\ \A i \in 1 .. Len(s) : s[i] = t[i]
<1>1. Len(s) \in Nat /\ Len(t) \in Nat
  BY LenProperties DEF Paths
<1>2. CASE ~(Len(s) <= Len(t))
  BY <1>2 DEF IsPrefix
<1>3. CASE Len(s) <= Len(t)
  <2>1. Len(s) \in 0 .. Len(s) /\ Len(s) \in 0 .. Len(t)
    BY <1>1, <1>3
  <2>2. /\ Upto(s, Len(s)) = s
        /\ Upto(t, Len(s)) \in Paths /\ Len(Upto(t, Len(s))) = Len(s)
        /\ \A i \in 1 .. Len(s) : Upto(t, Len(s))[i] = t[i]
    BY <2>1, UptoParts, UptoEnds
  <2>3. IsPrefix(s, t) <=> s = Upto(t, Len(s))
    BY <1>3, <2>2 DEF IsPrefix, Upto
  <2> QED
    BY <1>3, <2>2, <2>3, SamePath
<1> QED
  BY <1>2, <1>3

\* What is above an undisturbed path is undisturbed.
LEMMA UndisturbedAbove ==
    ASSUME NEW path \in Paths, NEW q \in Paths, IsPrefix(q, path), Undisturbed(path)
    PROVE  Undisturbed(q)
<1>1. /\ Len(q) \in Nat /\ Len(path) \in Nat /\ Len(q) <= Len(path)
      /\ \A i \in 1 .. Len(q) : q[i] = path[i]
  BY LenProperties, PrefixMeans DEF Paths
<1> SUFFICES ASSUME NEW k \in 0 .. Len(q) - 1
             PROVE  <<At[Upto(q, k)], q[k + 1]>> \notin touched
  BY ChainLinks
<1>2. k \in 0 .. Len(q) /\ k \in 0 .. Len(path) - 1 /\ k \in 0 .. Len(path) /\ k + 1 \in 1 .. Len(q)
  BY <1>1
<1>3. Upto(q, k) = Upto(path, k)
  <2>1. /\ Upto(q, k) \in Paths /\ Len(Upto(q, k)) = k
        /\ \A i \in 1 .. k : Upto(q, k)[i] = q[i]
        /\ Upto(path, k) \in Paths /\ Len(Upto(path, k)) = k
        /\ \A i \in 1 .. k : Upto(path, k)[i] = path[i]
    BY <1>2, UptoParts
  <2>2. \A i \in 1 .. k : i \in 1 .. Len(q)
    BY <1>1, <1>2
  <2> QED
    BY <1>1, <2>1, <2>2, SamePath
<1>4. <<At[Upto(path, k)], path[k + 1]>> \notin touched
  BY <1>2, ChainLinks
<1> QED
  BY <1>1, <1>2, <1>3, <1>4

LEMMA PrefixOfPrefix ==
    ASSUME NEW s \in Paths, NEW t \in Paths, NEW u \in Paths, IsPrefix(s, t), IsPrefix(t, u)
    PROVE  IsPrefix(s, u)
<1>1. Len(s) \in Nat /\ Len(t) \in Nat /\ Len(u) \in Nat
  BY LenProperties DEF Paths
<1> QED
  BY <1>1, PrefixMeans

LEMMA PrefixAppend ==
    ASSUME NEW s \in Paths, NEW t \in Paths, NEW n \in Names
    PROVE  /\ IsPrefix(s, Append(t, n)) <=> IsPrefix(s, t) \/ s = Append(t, n)
           /\ IsPrefix(t, Append(t, n))
<1> DEFINE u == Append(t, n)
<1>1. /\ u \in Paths /\ Len(u) = Len(t) + 1 /\ \A i \in 1 .. Len(t) : u[i] = t[i]
      /\ Len(s) \in Nat /\ Len(t) \in Nat
  BY AppendProperties, LenProperties DEF Paths
<1> HIDE DEF u
<1>2. IsPrefix(t, u)
  BY <1>1, PrefixMeans
<1>3. ASSUME IsPrefix(s, u), Len(s) <= Len(t)
      PROVE  IsPrefix(s, t)
  BY <1>1, <1>3, PrefixMeans
<1>4. ASSUME IsPrefix(s, u), ~(Len(s) <= Len(t))
      PROVE  s = u
  <2>1. Len(s) = Len(u) /\ \A i \in 1 .. Len(s) : s[i] = u[i]
    BY <1>1, <1>4, PrefixMeans
  <2> QED
    BY <1>1, <2>1, SamePath
<1>5. IsPrefix(s, t) => IsPrefix(s, u)
  BY <1>1, <1>2, PrefixOfPrefix
<1>6. s = u => IsPrefix(s, u)
  BY <1>1, PrefixMeans
<1> QED
  BY <1>2, <1>3, <1>4, <1>5, <1>6 DEF u

LEMMA PrefixSelf ==
    ASSUME NEW s \in Paths
    PROVE  IsPrefix(s, s)
<1>1. Len(s) \in Nat
  BY LenProperties DEF Paths
<1> QED
  BY <1>1, PrefixMeans

Orphans == \A d \in Unmade : \A n \in Names : entries[<<d, n>>] = None

Walking ==
    /\ stack \in Seq(Paths)
    /\ pc \in {"collect", "resolve root", "pop", "list", "resolve", "ok", "failed"}
    /\ pc \in {"list", "resolve"} => IsPrefix(root, current)
    /\ pc = "resolve" => \E n \in Names \ todo : at = Append(current, n)

Ensuring ==
    /\ stack = <<>> /\ files = {} /\ ~repeated
    /\ pc \in {"ensure", "create", "recheck", "ok", "failed"}
    /\ Len(at) \in 1 .. Len(request.path) /\ at = Upto(request.path, Len(at))
    /\ pc = "ok" => at = request.path

TypeInv ==
    /\ TypeOK /\ Orphans
    /\ at # <<>>
    /\ request.op = "collect" => Walking
    /\ request.op = "ensure" => Ensuring

LEMMA RequestTyped ==
    ASSUME request \in Requests
    PROVE  request.op \in {"collect", "ensure"} /\ request.path \in Paths \ {<<>>}
BY TraversalAssumption

LEMMA InitType == Init => TypeInv
<1> SUFFICES ASSUME Init
             PROVE  TypeInv
  OBVIOUS
<1>1. /\ request.op \in {"collect", "ensure"} /\ request.path \in Paths
      /\ Len(request.path) \in Nat \ {0}
  BY RequestTyped, EmptySeq DEF Init, Paths
<1>2. at = Upto(request.path, 1) /\ at \in Paths /\ Len(at) = 1
  BY <1>1, UptoParts DEF Init, Upto
<1>3. Orphans
  <2>1. entries \in Trees /\ DOMAIN entries = Dirs \X Names
    BY TraversalAssumption DEF Init
  <2> QED
    BY <2>1, TraversalAssumption DEF Orphans, Unmade, Placed
<1>4. <<>> \in Paths /\ <<>> \in Seq(Paths) /\ Range(<<>>) = {}
  BY EmptySeq DEF Paths, Range
<1>5. TypeOK
  <2>1. \A path \in Range(stack) : path \in Paths /\ IsPrefix(root, path)
    BY <1>4 DEF Init
  <2>2. entries \in [Dirs \X Names -> Objects \cup {None}] /\ touched \subseteq DOMAIN entries
    BY TraversalAssumption DEF Init
  <2>3. {root, current, at} \cup files \subseteq Paths /\ todo \subseteq Names
    BY <1>2, <1>4 DEF Init
  <2>4. moves \in 0 .. MaxMoves /\ {repeated, broken} \subseteq BOOLEAN
    <3>1. moves \in 0 .. MaxMoves
      BY TraversalAssumption DEF Init
    <3>2. repeated \in BOOLEAN /\ broken \in BOOLEAN
      BY DEF Init
    <3> QED
      BY <3>1, <3>2
  <2>5. /\ made \subseteq [path : Paths, parent : Dirs] /\ request \in Requests
        /\ pc \in {"collect", "ensure"}
    BY <1>1 DEF Init
  <2> QED
    BY <2>1, <2>2, <2>3, <2>4, <2>5 DEF TypeOK
<1>6. at # <<>>
  BY <1>2, EmptySeq DEF Paths
<1>7. request.op = "collect" => Walking
  BY <1>4 DEF Init, Walking
<1>8. request.op = "ensure" => Ensuring
  BY <1>1, <1>2 DEF Init, Ensuring
<1> QED
  BY <1>3, <1>5, <1>6, <1>7, <1>8 DEF TypeInv

LEMMA StatTyped ==
    TypeOK => \A path \in Paths :
        /\ Canonical[path] \in Paths /\ Stat(path) \in Objects \cup {None}
        /\ path # <<>> => Lstat(path) \in Objects \cup {None}
<1> SUFFICES ASSUME TypeOK, NEW path \in Paths
             PROVE  /\ Canonical[path] \in Paths /\ Stat(path) \in Objects \cup {None}
                    /\ path # <<>> => Lstat(path) \in Objects \cup {None}
  OBVIOUS
<1>1. Tree
  BY DEF TypeOK, Tree
<1>2. Canonical[path] \in Paths
  BY CanonicalUnfolds
<1>3. Stat(path) \in Objects \cup {None}
  BY <1>1, <1>2, AtTyped DEF Stat
<1>4. ASSUME path # <<>>
      PROVE  Lstat(path) \in Objects \cup {None}
  <2>1. Front(path) \in Paths /\ Last(path) \in Names
    BY <1>4, PathParts
  <2>2. Append(Canonical[Front(path)], Last(path)) \in Paths
    BY <2>1, CanonicalUnfolds, AppendParts
  <2> QED
    BY <1>1, <2>2, AtTyped DEF Lstat
<1> QED
  BY <1>2, <1>3, <1>4

\* What a step that leaves the tree alone has to show.
LEMMA TreeKept ==
    ASSUME TypeInv, UNCHANGED <<request, entries, moves, touched>>
    PROVE  /\ request' \in Requests /\ Tree' /\ Orphans'
           /\ moves' \in 0 .. MaxMoves /\ touched' \subseteq DOMAIN entries'
BY DEF TypeInv, TypeOK, Tree, Orphans, Unmade, Placed

LEMMA StackParts ==
    ASSUME NEW s \in Seq(Paths)
    PROVE  /\ Range(s) \subseteq Paths /\ Range(s) = {s[i] : i \in 1 .. Len(s)} /\ Len(s) \in Nat
           /\ s # <<>> => /\ Front(s) \in Seq(Paths) /\ Last(s) \in Range(s)
                          /\ Range(Front(s)) \subseteq Range(s)
                          /\ \A r \in Range(s) : r = Last(s) \/ r \in Range(Front(s))
           /\ \A path \in Paths : /\ Append(s, path) \in Seq(Paths)
                                  /\ Range(Append(s, path)) = Range(s) \cup {path}
<1>1. /\ Len(s) \in Nat /\ Range(s) = {s[i] : i \in 1 .. Len(s)}
      /\ \A i \in 1 .. Len(s) : s[i] \in Paths
  BY LenProperties, ElementOfSeq, RangeEquality
<1>2. ASSUME s # <<>>
      PROVE  /\ Front(s) \in Seq(Paths) /\ Last(s) \in Range(s)
             /\ Range(Front(s)) \subseteq Range(s)
             /\ \A r \in Range(s) : r = Last(s) \/ r \in Range(Front(s))
  <2>1. /\ Front(s) \in Seq(Paths) /\ Len(Front(s)) = Len(s) - 1 /\ Len(s) > 0
        /\ \A i \in 1 .. Len(s) - 1 : Front(s)[i] = s[i]
    BY <1>2, SeqParts, EmptySeq
  <2>2. Range(Front(s)) = {Front(s)[i] : i \in 1 .. Len(s) - 1}
    BY <2>1, RangeEquality
  <2>3. Last(s) \in Range(s)
    BY <1>1, <2>1 DEF Last
  <2>4. \A i \in 1 .. Len(s) : i = Len(s) \/ i \in 1 .. Len(s) - 1
    BY <1>1
  <2>5. \A r \in Range(s) : r = Last(s) \/ r \in Range(Front(s))
    BY <1>1, <2>1, <2>2, <2>4 DEF Last
  <2> QED
    BY <1>1, <2>1, <2>2, <2>3, <2>5
<1>3. ASSUME NEW path \in Paths
      PROVE  /\ Append(s, path) \in Seq(Paths)
             /\ Range(Append(s, path)) = Range(s) \cup {path}
  <2> DEFINE u == Append(s, path)
  <2>1. /\ u \in Seq(Paths) /\ Len(u) = Len(s) + 1 /\ u[Len(s) + 1] = path
        /\ \A i \in 1 .. Len(s) : u[i] = s[i]
    BY AppendProperties
  <2>2. Range(u) = {u[i] : i \in 1 .. Len(s) + 1}
    BY <2>1, RangeEquality
  <2> HIDE DEF u
  <2>3. \A i \in 1 .. Len(s) + 1 : i \in 1 .. Len(s) \/ i = Len(s) + 1
    BY <1>1
  <2>4. Range(u) = Range(s) \cup {path}
    BY <1>1, <2>1, <2>2, <2>3
  <2> QED
    BY <2>1, <2>4 DEF u
<1> QED
  BY <1>1, <1>2, <1>3

LEMMA CollectType ==
    ASSUME TypeInv, Collect
    PROVE  TypeInv'
<1>1. /\ UNCHANGED <<request, entries, moves, touched, made>>
      /\ pc \in {"collect", "resolve root", "pop", "list", "resolve"}
  BY DEF Collect, StatRoot, ResolveRoot, Pop, List, Resolve, Program, Fail
<1>2. /\ request \in Requests /\ request.op = "collect" /\ Walking
      /\ request.path \in Paths /\ request' = request
  BY <1>1, RequestTyped DEF TypeInv, TypeOK, Ensuring
<1>3. /\ {root, current, at} \cup files \subseteq Paths /\ at # <<>>
      /\ stack \in Seq(Paths) /\ \A path \in Range(stack) : path \in Paths /\ IsPrefix(root, path)
      /\ todo \subseteq Names /\ repeated \in BOOLEAN /\ broken \in BOOLEAN
  BY <1>2 DEF TypeInv, TypeOK, Walking
<1> DEFINE Typed ==
        /\ {root, current, at} \cup files \subseteq Paths /\ at # <<>>
        /\ \A path \in Range(stack) : path \in Paths /\ IsPrefix(root, path)
        /\ todo \subseteq Names /\ repeated \in BOOLEAN /\ broken \in BOOLEAN
        /\ Walking
<1> SUFFICES Typed'
  <2>1. /\ request' \in Requests /\ Tree' /\ Orphans'
        /\ moves' \in 0 .. MaxMoves /\ touched' \subseteq DOMAIN entries'
    BY <1>1, TreeKept
  <2>2. made' \subseteq [path : Paths, parent : Dirs]
    BY <1>1 DEF TypeInv, TypeOK
  <2> QED
    BY <1>2, <2>1, <2>2 DEF TypeInv, TypeOK, Tree, Walking
<1>4. CASE Fail
  BY <1>2, <1>3, <1>4 DEF Fail, Goto, walk, Walking
<1>5. CASE StatRoot /\ ~Fail
  BY <1>2, <1>3, <1>5 DEF StatRoot, Goto, walk, Walking
<1>6. CASE ResolveRoot /\ ~Fail
  <2>1. root' \in Paths /\ stack' = <<root'>>
    <3>1. Canonical \in [Paths -> Paths] /\ request.path \in Paths
      BY <1>2, RequestTyped, CanonicalUnfolds
    <3> QED
      BY <1>6, <3>1 DEF ResolveRoot
  <2>2. stack' \in Seq(Paths) /\ Range(stack') = {root'}
    <3>1. <<root'>> \in Seq(Paths) /\ Len(<<root'>>) = 1 /\ <<root'>>[1] = root'
      BY <2>1
    <3>2. Range(<<root'>>) = {root'}
      BY DEF Range
    <3> QED
      BY <2>1, <3>1, <3>2
  <2> QED
    BY <1>3, <1>6, <2>1, <2>2, PrefixSelf DEF ResolveRoot, Goto, Walking
<1>7. CASE Pop /\ ~Fail
  <2>1. CASE stack = <<>>
    BY <1>2, <1>3, <1>7, <2>1 DEF Pop, Goto, walk, Walking
  <2>2. CASE stack # <<>>
    <3>1. /\ stack' = Front(stack) /\ current' = Last(stack) /\ pc' = "list"
          /\ todo' \subseteq Names
          /\ UNCHANGED <<root, files, repeated, at, broken>>
      BY <1>7, <2>2 DEF Pop, Goto
    <3>2. /\ stack' \in Seq(Paths) /\ current' \in Range(stack)
          /\ Range(stack') \subseteq Range(stack)
      BY <1>3, <2>2, <3>1, StackParts
    <3> QED
      BY <1>3, <3>1, <3>2 DEF Walking
  <2> QED
    BY <2>1, <2>2
<1>8. CASE List /\ ~Fail
  <2>1. CASE todo = {} /\ pc' = "pop"
    BY <1>2, <1>3, <1>8, <2>1 DEF List, Goto, walk, Walking
  <2>2. ASSUME NEW n \in todo, at' = Append(current, n), todo' = todo \ {n}, pc' = "resolve",
               UNCHANGED <<root, stack, current, files, repeated, broken>>, pc = "list"
        PROVE  Typed'
    <3>1. at' \in Paths /\ at' # <<>>
      BY <1>3, <2>2, AppendParts
    <3>2. Walking'
      BY <1>2, <1>3, <2>2 DEF Walking
    <3> QED
      BY <1>3, <2>2, <3>1, <3>2
  <2>3. ASSUME NEW n \in todo, files' = files \cup {Append(current, n)},
               repeated' = (repeated \/ Append(current, n) \in files), todo' = todo \ {n},
               UNCHANGED <<pc, root, stack, current, at, broken>>, pc = "list"
        PROVE  Typed'
    <3>1. Append(current, n) \in Paths
      BY <1>3, AppendParts
    <3>2. files' \subseteq Paths /\ todo' \subseteq Names
      BY <1>3, <2>3, <3>1
    <3>3. repeated' \in BOOLEAN
      BY <2>3
    <3>4. Walking'
      BY <1>2, <2>3 DEF Walking
    <3> QED
      BY <1>3, <2>3, <3>2, <3>3, <3>4
  <2> QED
    BY <1>8, <2>1, <2>2, <2>3 DEF List, Program, Goto
<1>9. CASE Resolve /\ ~Fail
  <2>1. /\ Canonical[at] \in Paths /\ IsPrefix(root, Canonical[at])
        /\ stack' = Append(stack, Canonical[at]) /\ pc = "resolve" /\ pc' = "list"
        /\ UNCHANGED <<root, current, todo, files, repeated, at, broken>>
    BY <1>3, <1>9, CanonicalUnfolds DEF Resolve, Program, Goto
  <2> QED
    BY <1>2, <1>3, <2>1, StackParts DEF Walking
<1> QED
  BY <1>4, <1>5, <1>6, <1>7, <1>8, <1>9 DEF Collect

LEMMA AtPlaced == Tree => \A path \in Paths : At[path] \in Dirs => Placed(At[path])
<1> SUFFICES ASSUME Tree, NEW path \in Paths, At[path] \in Dirs
             PROVE  Placed(At[path])
  OBVIOUS
<1>1. CASE path = <<>>
  BY <1>1, AtRoot DEF Placed
<1>2. CASE path # <<>>
  <2>1. Front(path) \in Paths /\ Last(path) \in Names /\ path = Append(Front(path), Last(path))
    BY <1>2, PathParts
  <2>2. At[path] = IF At[Front(path)] \in Dirs
                    THEN entries[<<At[Front(path)], Last(path)>>] ELSE None
    BY <2>1, AtUnfolds DEF Tree
  <2>3. None \notin Dirs
    BY TraversalAssumption DEF Objects
  <2>4. DOMAIN entries = Dirs \X Names
    BY DEF Tree
  <2> QED
    BY <2>1, <2>2, <2>3, <2>4 DEF Placed
<1> QED
  BY <1>1, <1>2

\* The ways entries change, by whomever.
Changes ==
    \A e \in Dirs \X Names :
        \/ entries'[e] = entries[e]
        \/ e \in touched'
        \/ entries[e] = None /\ Barren(entries'[e])

LEMMA Filled ==
    ASSUME Tree, Orphans, NEW e \in Dirs \X Names, Placed(e[1]), entries[e] = None,
           NEW o \in Objects, o \in Dirs => o \in Unmade, entries' = [entries EXCEPT ![e] = o]
    PROVE  Tree' /\ Orphans' /\ (o \in Dirs => Barren(o))
<1>1. Tree' /\ DOMAIN entries = Dirs \X Names /\ DOMAIN entries' = Dirs \X Names
  BY DEF Tree
<1>2. e[1] \in Dirs /\ e = <<e[1], e[2]>> /\ e[2] \in Names /\ None \notin Dirs
  BY TraversalAssumption DEF Objects
<1>3. \A f \in Dirs \X Names : entries'[f] = IF f = e THEN o ELSE entries[f]
  BY <1>1 DEF Tree
<1>4. \A d \in Dirs : Placed(d) => Placed(d)'
  <2> SUFFICES ASSUME NEW d \in Dirs, NEW f \in Dirs \X Names, entries[f] = d
               PROVE  entries'[f] = d
    BY <1>1 DEF Placed
  <2> QED
    BY <1>2, <1>3
<1>5. \A d \in Unmade : d # e[1] /\ \A n \in Names : entries'[<<d, n>>] = None
  BY <1>2, <1>3 DEF Orphans, Unmade
<1>6. Unmade' \subseteq Unmade
  BY <1>4 DEF Unmade
<1> QED
  BY <1>1, <1>5, <1>6 DEF Orphans, Barren

LEMMA Cleared ==
    ASSUME Tree, Orphans, NEW e \in Dirs \X Names, Empty(entries[e]),
           entries' = [entries EXCEPT ![e] = None]
    PROVE  Tree' /\ Orphans'
<1>1. Tree' /\ DOMAIN entries = Dirs \X Names /\ DOMAIN entries' = Dirs \X Names
  BY DEF Tree
<1>2. \A f \in Dirs \X Names : entries'[f] = IF f = e THEN None ELSE entries[f]
  BY <1>1 DEF Tree
<1>3. \A d \in Dirs \ {entries[e]} : Placed(d) => Placed(d)'
  <2> SUFFICES ASSUME NEW d \in Dirs \ {entries[e]}, NEW f \in Dirs \X Names, entries[f] = d
               PROVE  entries'[f] = d
    BY <1>1 DEF Placed
  <2> QED
    BY <1>2
<1>4. ASSUME NEW d \in Unmade', NEW n \in Names
      PROVE  entries'[<<d, n>>] = None
  <2>1. d \in Dirs /\ <<d, n>> \in Dirs \X Names
    BY <1>4 DEF Unmade
  <2>2. entries[<<d, n>>] = None
    BY <1>3, <1>4, <2>1 DEF Unmade, Orphans, Empty
  <2> QED
    BY <1>2, <2>1, <2>2
<1> QED
  BY <1>1, <1>4 DEF Orphans

LEMMA Swapped ==
    ASSUME Tree, Orphans, NEW e \in Dirs \X Names, NEW f \in Dirs \X Names,
           entries[e] # None, entries[e] # entries[f], Placed(f[1]),
           entries' = [entries EXCEPT ![e] = entries[f], ![f] = entries[e]]
    PROVE  Tree' /\ Orphans'
<1>1. Tree' /\ DOMAIN entries = Dirs \X Names /\ DOMAIN entries' = Dirs \X Names
  BY DEF Tree
<1>2. \A g \in Dirs \X Names :
        entries'[g] = IF g = f THEN entries[e] ELSE IF g = e THEN entries[f] ELSE entries[g]
  BY <1>1 DEF Tree
<1>3. \A d \in Dirs : Placed(d) => Placed(d)'
  <2> SUFFICES ASSUME NEW d \in Dirs, NEW g \in Dirs \X Names, entries[g] = d
               PROVE  \E h \in Dirs \X Names : entries'[h] = d
    BY <1>1 DEF Placed
  <2> QED
    BY <1>2
<1>4. Placed(e[1]) /\ e[1] \in Dirs /\ f[1] \in Dirs
  <2>1. e[1] \in Dirs /\ e[2] \in Names /\ e = <<e[1], e[2]>>
    OBVIOUS
  <2> QED
    BY <2>1 DEF Orphans, Unmade
<1>5. ASSUME NEW d \in Unmade', NEW n \in Names
      PROVE  entries'[<<d, n>>] = None
  <2>1. d \in Unmade /\ d \in Dirs
    BY <1>3, <1>5 DEF Unmade
  <2>2. entries[<<d, n>>] = None /\ <<d, n>> # e /\ <<d, n>> # f
    BY <1>4, <2>1 DEF Orphans, Unmade
  <2> QED
    BY <1>2, <2>1, <2>2
<1> QED
  BY <1>1, <1>5 DEF Orphans

LEMMA MadeTree ==
    ASSUME Tree, Orphans, NEW e \in Dirs \X Names, Placed(e[1]), entries[e] = None, Unmade # {},
           entries' = [entries EXCEPT ![e] = CHOOSE o \in Unmade : TRUE]
    PROVE  Tree' /\ Orphans' /\ Changes
<1> DEFINE d == CHOOSE o \in Unmade : TRUE
<1>1. d \in Unmade /\ d \in Dirs /\ d \in Objects
  BY DEF Unmade, Objects
<1> HIDE DEF d
<1>2. entries' = [entries EXCEPT ![e] = d]
  BY DEF d
<1>3. Tree' /\ Orphans' /\ Barren(d)
  BY <1>1, <1>2, Filled
<1>4. \A f \in Dirs \X Names : entries'[f] = IF f = e THEN d ELSE entries[f]
  BY <1>2 DEF Tree
<1> QED
  BY <1>3, <1>4 DEF Changes

LEMMA OthersTree ==
    ASSUME TypeInv, Others
    PROVE  /\ Tree' /\ Orphans' /\ Changes
           /\ moves' \in 0 .. MaxMoves
           /\ touched \subseteq touched' /\ touched' \subseteq DOMAIN entries'
           /\ UNCHANGED <<request, pc, walk, at, made, broken>>
<1>1. Tree /\ Orphans /\ DOMAIN entries = Dirs \X Names /\ touched \subseteq Dirs \X Names
  BY DEF TypeInv, TypeOK, Tree
<1>2. /\ moves' \in 0 .. MaxMoves
      /\ UNCHANGED <<request, pc, walk, at, made, broken>>
  <2>1. /\ moves < MaxMoves /\ moves' = moves + 1
        /\ UNCHANGED <<request, pc, walk, at, made, broken>>
    BY DEF Others, OthersRemove, OthersCreate, OthersMkdir, OthersRename, Edit
  <2>2. moves' \in 0 .. MaxMoves
    <3>1. MaxMoves \in Nat /\ moves \in 0 .. MaxMoves
      BY TraversalAssumption DEF TypeInv, TypeOK
    <3> QED
      BY <2>1, <3>1
  <2> QED
    BY <2>1, <2>2
<1> SUFFICES /\ Tree' /\ Orphans' /\ Changes
             /\ touched \subseteq touched' /\ touched' \subseteq Dirs \X Names
  BY <1>2 DEF Tree
<1>3. CASE OthersRemove
  <2>1. PICK e \in Dirs \X Names :
            /\ entries[e] # None /\ Empty(entries[e])
            /\ entries' = [entries EXCEPT ![e] = None] /\ touched' = touched \cup {e}
    BY <1>1, <1>3 DEF OthersRemove, Edit
  <2>2. \A f \in Dirs \X Names : entries'[f] = entries[f] \/ f \in touched'
    BY <2>1 DEF Tree
  <2> QED
    BY <1>1, <2>1, <2>2, Cleared DEF Changes
<1>4. CASE OthersCreate
  <2>1. PICK e \in Dirs \X Names, o \in Files \cup Links :
            /\ Placed(e[1]) /\ entries[e] = None
            /\ entries' = [entries EXCEPT ![e] = o] /\ touched' = touched \cup {e}
    BY <1>1, <1>4 DEF OthersCreate, Edit
  <2>2. o \in Objects /\ o \notin Dirs
    BY TraversalAssumption DEF Objects
  <2>3. Tree' /\ Orphans'
    BY <1>1, <2>1, <2>2, Filled
  <2>4. \A f \in Dirs \X Names : entries'[f] = entries[f] \/ f \in touched'
    BY <1>1, <2>1 DEF Tree
  <2> QED
    BY <1>1, <2>1, <2>3, <2>4 DEF Changes
<1>5. CASE OthersMkdir
  <2>1. PICK e \in Dirs \X Names :
            /\ Placed(e[1]) /\ entries[e] = None /\ Unmade # {}
            /\ entries' = [entries EXCEPT ![e] = CHOOSE o \in Unmade : TRUE]
            /\ touched' = touched
    BY <1>1, <1>5 DEF OthersMkdir, Edit
  <2> QED
    BY <1>1, <2>1, MadeTree
<1>6. CASE OthersRename
  <2>1. PICK e \in Dirs \X Names, f \in Dirs \X Names :
            /\ entries[e] # None /\ entries[e] # entries[f] /\ Placed(f[1])
            /\ entries' = [entries EXCEPT ![e] = entries[f], ![f] = entries[e]]
            /\ touched' = touched \cup {e, f}
    BY <1>1, <1>6 DEF OthersRename, Edit
  <2>2. \A g \in Dirs \X Names : entries'[g] = entries[g] \/ g \in touched'
    BY <1>1, <2>1 DEF Tree
  <2> QED
    BY <1>1, <2>1, <2>2, Swapped DEF Changes
<1> QED
  BY <1>3, <1>4, <1>5, <1>6 DEF Others

\* At the end of a path that is made, or at the next name.
LEMMA OnwardType ==
    ASSUME TypeInv, request.op = "ensure", NEW o, Judge(o), pc \notin {"ok", "failed"}
    PROVE  /\ UNCHANGED <<entries, walk, made>> /\ broken' = broken
           /\ Len(at') \in 1 .. Len(request.path) /\ at' = Upto(request.path, Len(at'))
           /\ at' \in Paths /\ at' # <<>>
           /\ \/ pc' = "failed" /\ at' = at /\ o \notin Dirs
              \/ pc' = "ok" /\ at' = at /\ at = request.path /\ o \in Dirs
              \/ pc' = "ensure" /\ o \in Dirs /\ Front(at') = at
<1>1. /\ request.path \in Paths /\ at \in Paths /\ at # <<>>
      /\ Len(at) \in 1 .. Len(request.path) /\ at = Upto(request.path, Len(at))
      /\ Len(request.path) \in Nat
  BY RequestTyped, LenProperties DEF TypeInv, TypeOK, Ensuring, Paths
<1>2. CASE o \notin Dirs \/ at = request.path
  BY <1>1, <1>2 DEF Judge, Fail, Goto
<1>3. CASE o \in Dirs /\ at # request.path
  <2>1. /\ at' = Upto(request.path, Len(at) + 1) /\ pc' = "ensure"
        /\ UNCHANGED <<entries, walk, made, broken>>
    BY <1>3 DEF Judge, Fail, Goto, Upto
  <2>2. Len(at) # Len(request.path)
    BY <1>1, <1>3, UptoEnds
  <2>3. Len(at) \in 0 .. Len(request.path) - 1 /\ Len(at) + 1 \in 0 .. Len(request.path)
    BY <1>1, <2>2
  <2>4. /\ at' \in Paths /\ Len(at') = Len(at) + 1
        /\ at' = Append(at, request.path[Len(at) + 1]) /\ request.path[Len(at) + 1] \in Names
    BY <1>1, <2>1, <2>3, UptoParts, UptoNext
  <2>5. Front(at') = at /\ at' # <<>>
    BY <1>1, <2>4, AppendParts
  <2> QED
    BY <1>1, <1>3, <2>1, <2>3, <2>4, <2>5
<1> QED
  BY <1>2, <1>3

LEMMA SecureType ==
    ASSUME TypeInv, Secure
    PROVE  TypeInv' /\ Changes /\ touched' = touched
<1>1. /\ UNCHANGED <<request, moves, touched>> /\ pc \in {"ensure", "create", "recheck"}
  BY DEF Secure, Ensure, Create, Recheck, Program
<1>2. /\ request \in Requests /\ request.op = "ensure" /\ Ensuring
      /\ request.path \in Paths /\ Len(request.path) \in Nat
  BY <1>1, RequestTyped, LenProperties DEF TypeInv, TypeOK, Walking, Paths
<1>3. /\ Tree /\ Orphans /\ DOMAIN entries = Dirs \X Names /\ at \in Paths /\ at # <<>>
  BY DEF TypeInv, TypeOK, Tree
<1> DEFINE Still == /\ UNCHANGED <<entries, walk, made>> /\ broken' = broken
                    /\ Len(at') \in 1 .. Len(request.path) /\ at' = Upto(request.path, Len(at'))
                    /\ at' \in Paths /\ at' # <<>>
                    /\ pc' \in {"ensure", "create", "recheck", "ok", "failed"}
                    /\ pc' = "ok" => at' = request.path
<1>4. ASSUME Still
      PROVE  TypeInv' /\ Changes /\ touched' = touched
  <2>1. Tree' /\ Orphans' /\ moves' \in 0 .. MaxMoves /\ touched' \subseteq DOMAIN entries'
    BY <1>1, <1>4, TreeKept
  <2>2. Ensuring'
    BY <1>1, <1>2, <1>4 DEF Ensuring, walk
  <2>3. TypeOK'
    BY <1>1, <1>2, <1>4, <2>1 DEF TypeInv, TypeOK, Tree, walk
  <2> QED
    BY <1>1, <1>2, <1>4, <2>1, <2>2, <2>3 DEF TypeInv, Changes
<1>5. ASSUME NEW o, Judge(o)
      PROVE  Still
  <2>1. pc \notin {"ok", "failed"}
    BY <1>1
  <2> QED
    BY <1>2, <1>5, <2>1, OnwardType
<1>6. CASE Fail
  <2>1. Still
    BY <1>2, <1>3, <1>6 DEF Fail, Goto, Ensuring
  <2> QED
    BY <1>4, <2>1
<1>7. CASE Ensure \/ Recheck
  BY <1>2, <1>3, <1>4, <1>5, <1>7 DEF Ensure, Recheck, Goto, Ensuring
<1>8. CASE Create /\ ~Fail
  <2>1. CASE pc' = "recheck" /\ UNCHANGED <<entries, walk, at, made, broken>>
    BY <1>2, <1>3, <1>4, <2>1 DEF Ensuring
  <2>2. CASE Parent \in Dirs /\ entries[<<Parent, Last(at)>>] = None /\ MakeDirectory
    <3> DEFINE e == <<Parent, Last(at)>>
    <3>1. Front(at) \in Paths /\ Last(at) \in Names
      BY <1>3, PathParts
    <3>2. e \in Dirs \X Names /\ e[1] = Parent
      BY <2>2, <3>1
    <3>3. Placed(Parent)
      <4>1. Canonical[Front(at)] \in Paths
        BY <3>1, CanonicalUnfolds
      <4> QED
        BY <1>3, <2>2, <4>1, AtPlaced DEF Parent, Stat
    <3>4. /\ entries' = [entries EXCEPT ![e] = CHOOSE o \in Unmade : TRUE] /\ Unmade # {}
          /\ made' = made \cup {[path |-> at, parent |-> Parent]}
          /\ pc' = "recheck" /\ UNCHANGED <<walk, at, broken>>
      BY <2>2 DEF MakeDirectory, Goto
    <3>5. Tree' /\ Orphans' /\ Changes
      <4> HIDE DEF e
      <4> QED
        BY <1>3, <2>2, <3>2, <3>3, <3>4, MadeTree DEF e
    <3>6. made' \subseteq [path : Paths, parent : Dirs]
      <4>1. \A d \in Dirs : [path |-> at, parent |-> d] \in [path : Paths, parent : Dirs]
        BY <1>3
      <4>2. [path |-> at, parent |-> Parent] \in [path : Paths, parent : Dirs]
        BY <2>2, <4>1
      <4> QED
        BY <3>4, <4>2 DEF TypeInv, TypeOK
    <3>7. Ensuring'
      BY <1>1, <1>2, <3>4 DEF Ensuring, walk
    <3>8. TypeOK'
      <4>1. DOMAIN entries' = DOMAIN entries
        BY <1>3, <3>5 DEF Tree
      <4> QED
        BY <1>1, <1>2, <3>4, <3>5, <3>6, <4>1 DEF TypeInv, TypeOK, Tree, walk
    <3> QED
      BY <1>1, <1>2, <1>3, <3>4, <3>5, <3>7, <3>8 DEF TypeInv
  <2> QED
    BY <1>8, <2>1, <2>2 DEF Create, Goto
<1> QED
  BY <1>4, <1>6, <1>7, <1>8 DEF Secure

LEMMA NextType ==
    ASSUME TypeInv, [Next]_vars
    PROVE  TypeInv' /\ Grown
<1>1. Tree /\ touched \subseteq Dirs \X Names /\ DOMAIN entries = Dirs \X Names
  BY DEF TypeInv, TypeOK, Tree
<1> SUFFICES TypeInv' /\ Changes /\ touched \subseteq touched'
  <2>1. TypeInv' => Tree'
    BY DEF TypeInv, TypeOK, Tree
  <2> QED
    BY <1>1, <2>1 DEF Grown, Changes
<1>2. CASE Collect
  <2>1. UNCHANGED <<entries, touched>>
    BY <1>2 DEF Collect, StatRoot, ResolveRoot, Pop, List, Resolve, Program, Fail
  <2> QED
    BY <1>2, <2>1, CollectType DEF Changes
<1>3. CASE Secure
  BY <1>3, SecureType
<1>4. CASE IoError
  <2>1. /\ pc \notin {"ok", "failed"} /\ pc' = "failed" /\ broken' = TRUE
        /\ UNCHANGED <<request, entries, walk, at, made, moves, touched>>
    BY <1>4 DEF IoError
  <2>2. Tree' /\ Orphans' /\ moves' \in 0 .. MaxMoves /\ touched' \subseteq DOMAIN entries'
    BY <2>1, TreeKept
  <2>3. TypeOK'
    BY <2>1, <2>2 DEF TypeInv, TypeOK, Tree, walk
  <2>4. (request.op = "collect" => Walking)' /\ (request.op = "ensure" => Ensuring)'
    BY <2>1 DEF TypeInv, Walking, Ensuring, walk
  <2> QED
    BY <2>1, <2>2, <2>3, <2>4 DEF TypeInv, Changes
<1>5. CASE Others
  <2>1. /\ Tree' /\ Orphans' /\ Changes
        /\ moves' \in 0 .. MaxMoves
        /\ touched \subseteq touched' /\ touched' \subseteq DOMAIN entries'
        /\ UNCHANGED <<request, pc, walk, at, made, broken>>
    BY <1>5, OthersTree
  <2>2. TypeOK'
    BY <2>1 DEF TypeInv, TypeOK, Tree, walk
  <2>3. (request.op = "collect" => Walking)' /\ (request.op = "ensure" => Ensuring)'
    BY <2>1 DEF TypeInv, Walking, Ensuring, walk
  <2> QED
    BY <2>1, <2>2, <2>3 DEF TypeInv
<1>6. CASE Over \/ UNCHANGED vars
  <2>1. UNCHANGED vars
    BY <1>6 DEF Over
  <2>2. UNCHANGED <<request, pc, entries, walk, at, made, moves, touched, broken>>
    BY <2>1 DEF vars
  <2>3. Tree' /\ Orphans' /\ moves' \in 0 .. MaxMoves /\ touched' \subseteq DOMAIN entries'
    BY <2>2, TreeKept
  <2>4. TypeOK'
    BY <2>2, <2>3 DEF TypeInv, TypeOK, Tree, walk
  <2>5. (request.op = "collect" => Walking)' /\ (request.op = "ensure" => Ensuring)'
    BY <2>2 DEF TypeInv, Walking, Ensuring, walk
  <2> QED
    BY <2>2, <2>3, <2>4, <2>5 DEF TypeInv, Changes
<1> QED
  BY <1>2, <1>3, <1>4, <1>5, <1>6 DEF Next

LEMMA TypeInvariant == Spec => []TypeInv
<1>1. TypeInv /\ [Next]_vars => TypeInv'
  BY NextType
<1> QED
  BY <1>1, InitType, PTL DEF Spec

\* Every state is well typed: a walk only ever holds paths below its root,
\* and the directories it makes are in a directory.
THEOREM WalkTypeCorrect == Spec => []TypeOK
<1>1. TypeInv => TypeOK
  BY DEF TypeInv
<1> QED
  BY <1>1, TypeInvariant, PTL

-------------------------------------------------------------------------------
(* Nothing is missed.                                                      *)

Sought(path) == IsStrictPrefix(root, path) /\ Undisturbed(path) /\ At[path] \in Files

\* Found, or below something the walk has still to look at.
Awaited(path) ==
    \/ path \in files
    \/ \E q \in Range(stack) : IsStrictPrefix(q, path)
    \/ pc \in {"list", "resolve"} /\ \E n \in todo : IsPrefix(Append(current, n), path)
    \/ pc = "resolve" /\ IsStrictPrefix(at, path)

MissedInv ==
    request.op = "collect" =>
        /\ pc \in {"pop", "list", "resolve", "ok"} =>
            \A path \in Paths : Sought(path) => Awaited(path)
        /\ pc = "ok" => stack = <<>>

\* The way to a file leads through directories, where they say they are.
LEMMA WayThrough ==
    ASSUME Tree, NEW path \in Paths, At[path] \in Files, NEW q \in Paths, IsPrefix(q, path)
    PROVE  /\ q # <<>> => Lstat(q) = At[q]
           /\ q = path \/ (At[q] \in Dirs /\ Canonical[q] = q)
           /\ q # path => \E n \in Names : /\ IsPrefix(Append(q, n), path)
                                           /\ entries[<<At[q], n>>] # None
<1>1. Len(q) \in Nat /\ Len(path) \in Nat /\ Len(q) <= Len(path) /\ Len(q) \in 0 .. Len(path)
  BY LenProperties, PrefixMeans DEF Paths
<1>2. q = Upto(path, Len(q))
  <2>1. /\ Upto(path, Len(q)) \in Paths /\ Len(Upto(path, Len(q))) = Len(q)
        /\ \A i \in 1 .. Len(q) : Upto(path, Len(q))[i] = path[i]
    BY <1>1, UptoParts
  <2> QED
    BY <2>1, PrefixMeans, SamePath
<1>3. /\ At[path] # None /\ None \notin Dirs /\ None \notin Files /\ Dirs \cap Files = {}
  BY TraversalAssumption DEF Objects
<1>4. \A k \in 0 .. Len(path) - 1 : At[Upto(path, k)] \in Dirs
  BY <1>3, DirsAbove
<1>5. q = path \/ Len(q) \in 0 .. Len(path) - 1
  BY <1>1, <1>2, UptoEnds
<1>6. q = path \/ (At[q] \in Dirs /\ Canonical[q] = q)
  BY <1>2, <1>4, <1>5, DirPath
<1>7. ASSUME q # <<>>
      PROVE  Lstat(q) = At[q]
  <2>1. /\ Len(q) \in Nat \ {0} /\ Front(q) \in Paths /\ Len(Front(q)) = Len(q) - 1
        /\ q = Append(Front(q), Last(q)) /\ Last(q) \in Names
    BY <1>7, UptoFront, PathParts
  <2>2. Front(q) = Upto(path, Len(q) - 1)
    <3>1. Len(q) - 1 \in 0 .. Len(path) /\ Len(q) - 1 \in 0 .. Len(q) /\ Front(q) = Upto(q, Len(q) - 1)
      BY <1>1, <1>7, <2>1, UptoFront
    <3>2. /\ Upto(path, Len(q) - 1) \in Paths /\ Len(Upto(path, Len(q) - 1)) = Len(q) - 1
          /\ \A i \in 1 .. Len(q) - 1 : Upto(path, Len(q) - 1)[i] = path[i]
          /\ \A i \in 1 .. Len(q) - 1 : Upto(q, Len(q) - 1)[i] = q[i]
      BY <3>1, UptoParts
    <3>3. \A i \in 1 .. Len(q) - 1 : i \in 1 .. Len(q)
      BY <1>1
    <3>4. \A i \in 1 .. Len(q) : q[i] = path[i]
      BY PrefixMeans
    <3> QED
      BY <2>1, <3>1, <3>2, <3>3, <3>4, SamePath
  <2>3. Len(q) - 1 \in 0 .. Len(path) - 1
    BY <1>1, <2>1
  <2> QED
    BY <1>4, <1>7, <2>2, <2>3, PlainLstat
<1>8. ASSUME q # path
      PROVE  \E n \in Names : IsPrefix(Append(q, n), path) /\ entries[<<At[q], n>>] # None
  <2> DEFINE n == path[Len(q) + 1]
  <2>1. Len(q) \in 0 .. Len(path) - 1 /\ Len(q) + 1 \in 0 .. Len(path)
    BY <1>1, <1>5, <1>8
  <2>2. Upto(path, Len(q) + 1) = Append(q, n) /\ n \in Names
    BY <1>2, <2>1, UptoNext
  <2>3. /\ Append(q, n) \in Paths /\ Len(Append(q, n)) = Len(q) + 1
        /\ \A i \in 1 .. Len(q) + 1 : Append(q, n)[i] = path[i]
    BY <2>1, <2>2, UptoParts
  <2>4. IsPrefix(Append(q, n), path)
    <3> DEFINE u == Append(q, n)
    <3>1. u \in Paths /\ Len(u) = Len(q) + 1 /\ \A i \in 1 .. Len(q) + 1 : u[i] = path[i]
      BY <2>3
    <3>2. IsPrefix(u, path)
      <4> HIDE DEF u
      <4> QED
        BY <1>1, <2>1, <3>1, PrefixMeans
    <3> QED
      BY <3>2
  <2>5. At[Append(q, n)] = entries[<<At[q], n>>]
    BY <1>6, <1>8, <2>2, AtUnfolds DEF Tree
  <2>6. At[Append(q, n)] # None
    <3>1. CASE Len(q) + 1 = Len(path)
      BY <1>3, <2>2, <3>1, UptoEnds
    <3>2. CASE Len(q) + 1 # Len(path)
      <4>1. Len(q) + 1 \in 0 .. Len(path) - 1
        BY <1>1, <2>1, <3>2
      <4> QED
        BY <1>3, <1>4, <2>2, <4>1
    <3> QED
      BY <3>1, <3>2
  <2> QED
    BY <2>2, <2>4, <2>5, <2>6
<1> QED
  BY <1>6, <1>7, <1>8

LEMMA SoughtBefore ==
    ASSUME Grown, NEW path \in Paths, Sought(path)', root' = root
    PROVE  Sought(path)
<1>1. /\ Undisturbed(path)' /\ At'[path] \in Files /\ IsStrictPrefix(root', path)
  BY DEF Sought
<1>2. Files \cap (Dirs \cup {None}) = {}
  BY TraversalAssumption DEF Objects
<1> QED
  BY <1>1, <1>2, UndisturbedBefore, Steady DEF Sought

\* A step of the walk: what was sought before is still awaited, or found.
LEMMA PopMissed ==
    ASSUME TypeInv, MissedInv, Pop, ~Fail, NEW path \in Paths, Sought(path)
    PROVE  /\ Awaited(path)'
           /\ pc' = "ok" => stack' = <<>>
<1>1. pc = "pop" /\ request.op = "collect" /\ Walking
  BY RequestTyped DEF Pop, Program, TypeInv, TypeOK, Ensuring
<1>2. Awaited(path)
  BY <1>1 DEF MissedInv
<1>3. CASE stack = <<>>
  BY <1>1, <1>2, <1>3 DEF Pop, Goto, Awaited, walk, Range
<1>4. CASE stack # <<>>
  <2> DEFINE q == Last(stack)
             d == Stat(q)
  <2>1. /\ d \in Dirs /\ stack' = Front(stack) /\ current' = q
        /\ todo' = {n \in Names : entries[<<d, n>>] # None}
        /\ pc' = "list" /\ files' = files
    BY <1>4 DEF Pop, Goto
  <2>2. q \in Paths /\ \A r \in Range(stack) : r = q \/ r \in Range(stack')
    BY <1>1, <1>4, <2>1, StackParts DEF Walking
  <2>3. CASE path \in files \/ \E r \in Range(stack') : IsStrictPrefix(r, path)
    BY <2>1, <2>3 DEF Awaited
  <2>4. CASE IsStrictPrefix(q, path)
    <3>1. IsPrefix(q, path) /\ q # path /\ At[path] \in Files /\ Tree
      BY <2>4 DEF IsStrictPrefix, Sought, TypeInv, TypeOK, Tree
    <3>2. /\ d = At[q]
          /\ \E n \in Names : IsPrefix(Append(q, n), path) /\ entries[<<At[q], n>>] # None
      BY <2>2, <3>1, WayThrough DEF Stat
    <3>3. \E n \in todo' : IsPrefix(Append(current', n), path)
      BY <2>1, <3>2
    <3> QED
      BY <2>1, <3>3 DEF Awaited
  <2> QED
    BY <1>1, <1>2, <2>1, <2>2, <2>3, <2>4 DEF Awaited
<1> QED
  BY <1>3, <1>4

LEMMA ListMissed ==
    ASSUME TypeInv, MissedInv, List, ~Fail, NEW path \in Paths, Sought(path)
    PROVE  Awaited(path)' /\ pc' # "ok"
<1>1. pc = "list" /\ request.op = "collect" /\ Walking
  BY RequestTyped DEF List, Program, TypeInv, TypeOK, Ensuring
<1>2. Awaited(path)
  BY <1>1 DEF MissedInv
<1>3. /\ Tree /\ current \in Paths /\ todo \subseteq Names /\ At[path] \in Files
      /\ Dirs \cap Files = {}
  BY TraversalAssumption DEF Sought, TypeInv, TypeOK, Tree
<1>4. CASE todo = {} /\ pc' = "pop" /\ UNCHANGED walk
  BY <1>1, <1>2, <1>4 DEF Awaited, walk
<1>5. ASSUME NEW n \in todo, Lstat(Append(current, n)) \in Dirs, at' = Append(current, n),
             todo' = todo \ {n}, pc' = "resolve", UNCHANGED <<root, stack, current, files>>
      PROVE  Awaited(path)'
  <2> DEFINE q == Append(current, n)
  <2>1. q \in Paths /\ q # <<>>
    BY <1>3, AppendParts
  <2>2. CASE IsPrefix(q, path)
    <3>1. Lstat(q) = At[q]
      <4> HIDE DEF q
      <4> QED
        BY <1>3, <2>1, <2>2, WayThrough
    <3>2. q # path
      BY <1>3, <1>5, <3>1
    <3> QED
      BY <1>5, <2>2, <3>2 DEF Awaited, IsStrictPrefix
  <2>3. CASE ~IsPrefix(q, path)
    BY <1>1, <1>2, <1>5, <2>3 DEF Awaited
  <2> QED
    BY <2>2, <2>3
<1>6. ASSUME NEW n \in todo, Lstat(Append(current, n)) \in Files,
             files' = files \cup {Append(current, n)},
             todo' = todo \ {n}, UNCHANGED <<pc, root, stack, current>>
      PROVE  Awaited(path)'
  <2> DEFINE q == Append(current, n)
  <2>1. q \in Paths /\ q # <<>>
    BY <1>3, AppendParts
  <2>2. CASE IsPrefix(q, path)
    <3>1. Lstat(q) = At[q] /\ (q = path \/ At[q] \in Dirs)
      <4> HIDE DEF q
      <4> QED
        BY <1>3, <2>1, <2>2, WayThrough
    <3>2. q = path
      BY <1>3, <1>6, <3>1
    <3> QED
      BY <1>6, <3>2 DEF Awaited
  <2>3. CASE ~IsPrefix(q, path)
    BY <1>1, <1>2, <1>6, <2>3 DEF Awaited
  <2> QED
    BY <2>2, <2>3
<1> QED
  BY <1>1, <1>4, <1>5, <1>6 DEF List, Goto

LEMMA ResolveMissed ==
    ASSUME TypeInv, MissedInv, Resolve, ~Fail, NEW path \in Paths, Sought(path)
    PROVE  Awaited(path)' /\ pc' # "ok"
<1>1. pc = "resolve" /\ request.op = "collect" /\ Walking
  BY RequestTyped DEF Resolve, Program, TypeInv, TypeOK, Ensuring
<1>2. Awaited(path)
  BY <1>1 DEF MissedInv
<1>3. /\ stack' = Append(stack, Canonical[at]) /\ pc' = "list"
      /\ UNCHANGED <<current, todo, files>>
  BY DEF Resolve, Goto
<1>4. /\ Tree /\ at \in Paths /\ At[path] \in Files
      /\ Range(stack') = Range(stack) \cup {Canonical[at]}
  BY <1>1, <1>3, CanonicalUnfolds, StackParts DEF Sought, TypeInv, TypeOK, Tree, Walking
<1>5. CASE IsStrictPrefix(at, path)
  <2>1. Canonical[at] = at
    BY <1>4, <1>5, WayThrough DEF IsStrictPrefix
  <2> QED
    BY <1>3, <1>4, <1>5, <2>1 DEF Awaited
<1>6. CASE ~IsStrictPrefix(at, path)
  BY <1>1, <1>2, <1>3, <1>4, <1>6 DEF Awaited
<1> QED
  BY <1>3, <1>5, <1>6

LEMMA NextMissed ==
    ASSUME TypeInv, MissedInv, [Next]_vars
    PROVE  MissedInv'
<1>1. Grown /\ TypeInv' /\ request' = request
  BY NextType
  DEF Next, Collect, Secure, StatRoot, ResolveRoot, Pop, List, Resolve, Ensure, Create, Recheck,
      Program, IoError, Others, OthersRemove, OthersCreate, OthersMkdir, OthersRename, Edit,
      Over, vars
<1> SUFFICES ASSUME request.op = "collect", pc' \in {"pop", "list", "resolve", "ok"}
             PROVE  /\ \A path \in Paths : Sought(path)' => Awaited(path)'
                    /\ pc' = "ok" => stack' = <<>>
  BY <1>1 DEF MissedInv
<1>2. CASE Collect /\ ~ResolveRoot
  <2>1. ~Fail /\ root' = root
    BY <1>2 DEF Fail, Goto, Collect, StatRoot, Pop, List, Resolve, walk
  <2>2. pc' # "resolve root"
    OBVIOUS
  <2>3. Pop \/ List \/ Resolve
    BY <1>2, <2>1, <2>2 DEF Collect, StatRoot, Goto
  <2>4. ASSUME NEW path \in Paths, Sought(path)'
        PROVE  Awaited(path)'
    BY <1>1, <2>1, <2>3, <2>4, SoughtBefore, PopMissed, ListMissed, ResolveMissed
  <2>5. pc' = "ok" => stack' = <<>>
    BY <2>1, <2>3 DEF Pop, List, Resolve, Program, Goto, walk
  <2> QED
    BY <2>4, <2>5
<1>3. CASE ResolveRoot
  <2>1. pc' = "pop" /\ root' \in Paths /\ stack' = <<root'>>
    BY <1>1, <1>3 DEF ResolveRoot, Fail, Goto, TypeInv, TypeOK
  <2>2. root' \in Range(stack')
    BY <2>1 DEF Range
  <2> QED
    BY <2>1, <2>2 DEF Sought, Awaited
<1>4. CASE Secure
  BY <1>1, <1>4, RequestTyped
  DEF Secure, Ensure, Create, Recheck, Program, TypeInv, TypeOK, Walking
<1>5. CASE UNCHANGED <<pc, walk, at>>
  <2>1. ASSUME NEW path \in Paths, Sought(path)'
        PROVE  Awaited(path)'
    <3>1. root' = root /\ UNCHANGED <<pc, stack, current, todo, files, at>>
      BY <1>5 DEF walk
    <3>2. Sought(path)
      BY <1>1, <2>1, <3>1, SoughtBefore
    <3> QED
      BY <3>1, <3>2 DEF MissedInv, Awaited
  <2> QED
    BY <1>5, <2>1 DEF MissedInv, walk
<1> QED
  BY <1>2, <1>3, <1>4, <1>5
  DEF Next, IoError, Others, OthersRemove, OthersCreate, OthersMkdir, OthersRename, Edit, Over, vars

\* A walk that succeeds has found every file that was below its root all the time,
\* whatever others do to the names beside it, and however deep the tree is.
THEOREM AllFound == Spec => []NothingMissed
<1>1. Init => MissedInv
  BY DEF Init, MissedInv
<1>2. TypeInv /\ MissedInv /\ [Next]_vars => MissedInv'
  BY NextMissed
<1>3. TypeInv /\ MissedInv => NothingMissed
  <2> SUFFICES ASSUME TypeInv, MissedInv, collected, NEW path \in Shallow,
                      Below(path), Undisturbed(path), At[path] \in Files
               PROVE  path \in files
    BY DEF NothingMissed
  <2>1. path \in Paths
    BY SeqDef DEF Shallow, Paths
  <2>2. Awaited(path) /\ stack = <<>>
    BY <2>1 DEF MissedInv, Sought, Below, collected
  <2> QED
    BY <2>2 DEF Awaited, collected, Range
<1> QED
  BY <1>1, <1>2, <1>3, TypeInvariant, PTL DEF Spec

-------------------------------------------------------------------------------
(* Directories are made where the path says.                               *)

\* The directory that the component at hand is looked for in, or the last one.
Judged == IF pc = "ok" THEN at ELSE Front(at)

Obstructed == \E k \in 1 .. Len(request.path) :
    Lstat(Upto(request.path, k)) \in Files \cup Links \cup Specials

\* What is made, and why the way may end, while others change nothing.
Alone ==
    /\ \A m \in made : /\ m.path # <<>> /\ IsPrefix(m.path, request.path)
                       /\ At[Front(m.path)] = m.parent
    /\ pc = "recheck" => At[at] # None
    /\ pc = "failed" => broken \/ Obstructed

EnsureInv ==
    request.op = "ensure" =>
        /\ Undisturbed(request.path) => At[Judged] \in Dirs
        /\ touched = {} => Alone

LEMMA DirSteady ==
    ASSUME Grown, NEW path \in Paths, Undisturbed(path)', NEW k \in 0 .. Len(path),
           At[Upto(path, k)] \in Dirs
    PROVE  At'[Upto(path, k)] = At[Upto(path, k)]
<1>1. None \notin Dirs
  BY TraversalAssumption DEF Objects
<1> QED
  BY <1>1, Followed

LEMMA JudgedIn ==
    ASSUME TypeInv, request.op = "ensure"
    PROVE  /\ request.path \in Paths /\ Len(request.path) \in Nat
           /\ at \in Paths /\ at # <<>> /\ Front(at) \in Paths /\ Last(at) \in Names
           /\ at = Append(Front(at), Last(at))
           /\ Len(at) \in 1 .. Len(request.path) /\ at = Upto(request.path, Len(at))
           /\ IsPrefix(at, request.path)
           /\ \E k \in 0 .. Len(request.path) : Judged = Upto(request.path, k)
<1>1. /\ request.path \in Paths /\ at \in Paths /\ at # <<>> /\ Len(request.path) \in Nat
      /\ Len(at) \in 1 .. Len(request.path) /\ at = Upto(request.path, Len(at))
  BY RequestTyped, LenProperties DEF TypeInv, TypeOK, Ensuring, Paths
<1>2. Front(at) \in Paths /\ Last(at) \in Names /\ at = Append(Front(at), Last(at))
  BY <1>1, PathParts
<1>3. Len(at) \in 0 .. Len(request.path) /\ Len(at) - 1 \in 0 .. Len(request.path)
  BY <1>1
<1>4. \A i \in 1 .. Len(at) : at[i] = request.path[i]
  BY <1>1, <1>3, UptoParts
<1>5. IsPrefix(at, request.path)
  BY <1>1, <1>4, PrefixMeans
<1>6. Front(at) = Upto(request.path, Len(at) - 1)
  <2>1. /\ Front(at) = Upto(at, Len(at) - 1)
        /\ Len(at) - 1 \in 0 .. Len(at)
    BY <1>1, UptoFront
  <2>2. /\ Len(Front(at)) = Len(at) - 1
        /\ \A i \in 1 .. Len(at) - 1 : Front(at)[i] = at[i]
    BY <1>1, <2>1, UptoParts
  <2>3. /\ Upto(request.path, Len(at) - 1) \in Paths
        /\ Len(Upto(request.path, Len(at) - 1)) = Len(at) - 1
        /\ \A i \in 1 .. Len(at) - 1 : Upto(request.path, Len(at) - 1)[i] = request.path[i]
    BY <1>1, <1>3, UptoParts
  <2>4. \A i \in 1 .. Len(at) - 1 : i \in 1 .. Len(at)
    BY <1>1
  <2> QED
    BY <1>2, <1>4, <2>2, <2>3, <2>4, SamePath
<1> QED
  BY <1>1, <1>2, <1>3, <1>5, <1>6 DEF Judged

\* What is looked at is in the directory before it.
LEMMA Looked ==
    ASSUME TypeInv, EnsureInv, request.op = "ensure", pc # "ok", Undisturbed(request.path)
    PROVE  /\ At[Front(at)] \in Dirs /\ Lstat(at) = At[at] /\ Parent = At[Front(at)]
           /\ At[at] = entries[<<At[Front(at)], Last(at)>>]
<1>1. Tree /\ At[Front(at)] \in Dirs
  BY DEF TypeInv, TypeOK, Tree, EnsureInv, Judged
<1>2. /\ at \in Paths \ {<<>>} /\ Front(at) \in Paths /\ Last(at) \in Names
      /\ at = Append(Front(at), Last(at))
  BY JudgedIn
<1>3. Lstat(at) = At[at]
  BY <1>1, <1>2, PlainLstat
<1>4. Parent = At[Front(at)]
  BY <1>1, <1>2, DirPath DEF Parent, Stat
<1>5. At[Append(Front(at), Last(at))] =
        IF At[Front(at)] \in Dirs THEN entries[<<At[Front(at)], Last(at)>>] ELSE None
  BY <1>1, <1>2, AtUnfolds DEF Tree
<1> QED
  BY <1>1, <1>2, <1>3, <1>4, <1>5

\* What was so before a step still is.
LEMMA EnsuredStill ==
    ASSUME TypeInv, EnsureInv, Grown, request.op = "ensure", request' = request
    PROVE  /\ Undisturbed(request.path)' =>
                Undisturbed(request.path) /\ At[Judged] \in Dirs /\ At'[Judged] \in Dirs
           /\ touched' = {} =>
                /\ Undisturbed(request.path)' /\ touched = {}
                /\ \A m \in made : /\ m.path # <<>> /\ IsPrefix(m.path, request.path)
                                   /\ At'[Front(m.path)] = m.parent
                /\ At[at] # None => At'[at] # None
                /\ Obstructed => Obstructed'
<1>1. /\ request.path \in Paths /\ at \in Paths
      /\ \E k \in 0 .. Len(request.path) : Judged = Upto(request.path, k)
  BY JudgedIn
<1>2. ASSUME Undisturbed(request.path)'
      PROVE  Undisturbed(request.path) /\ At[Judged] \in Dirs /\ At'[Judged] \in Dirs
  <2>1. (request'.path = request.path) /\ \A p \in Paths : Undisturbed(p)' => Undisturbed(p)
    BY UndisturbedBefore
  <2>2. PICK path \in Paths : path = request.path
    BY <1>1
  <2>3. Undisturbed(path)' /\ Undisturbed(path)
    BY <1>2, <2>1, <2>2 DEF Undisturbed, Chain
  <2>4. At[Judged] \in Dirs
    BY <2>2, <2>3 DEF EnsureInv
  <2>5. PICK k \in 0 .. Len(path) : Judged = Upto(path, k)
    BY <1>1, <2>2
  <2>6. At'[Judged] = At[Judged]
    BY <2>3, <2>4, <2>5, DirSteady
  <2> QED
    BY <2>2, <2>3, <2>4, <2>6
<1>3. ASSUME touched' = {}
      PROVE  /\ Undisturbed(request.path)' /\ touched = {}
             /\ \A m \in made : /\ m.path # <<>> /\ IsPrefix(m.path, request.path)
                                /\ At'[Front(m.path)] = m.parent
             /\ At[at] # None => At'[at] # None
             /\ Obstructed => Obstructed'
  <2>1. Undisturbed(request.path)' /\ touched = {} /\ Alone
    BY <1>3 DEF Undisturbed, Grown, EnsureInv
  <2>2. \A p \in Paths : At[p] # None => At'[p] = At[p]
    BY <1>3, Steady, Untouched
  <2>3. ASSUME NEW m \in made
        PROVE  At'[Front(m.path)] = m.parent
    <3>1. m.path \in Paths /\ m.parent \in Dirs /\ m.path # <<>> /\ At[Front(m.path)] = m.parent
      BY <2>1 DEF Alone, TypeInv, TypeOK
    <3>2. Front(m.path) \in Paths /\ None \notin Dirs
      BY <3>1, PathParts, TraversalAssumption DEF Objects
    <3> QED
      BY <2>2, <3>1, <3>2
  <2>4. At[at] # None => At'[at] # None
    BY <1>1, <2>2
  <2>5. ASSUME Obstructed
        PROVE  Obstructed'
    <3>1. PICK k \in 1 .. Len(request.path) :
            Lstat(Upto(request.path, k)) \in Files \cup Links \cup Specials
      BY <2>5 DEF Obstructed
    <3> DEFINE q == Upto(request.path, k)
    <3>2. k \in 0 .. Len(request.path) /\ k # 0 /\ None \notin Files \cup Links \cup Specials
      BY <1>1, LenProperties, TraversalAssumption DEF Paths, Objects
    <3>3. q \in Paths /\ q # <<>>
      BY <1>1, <3>2, UptoParts, EmptySeq DEF Paths
    <3>4. Lstat(q)' = Lstat(q)
      <4>1. q \in Paths \ {<<>>} /\ Lstat(q) # None
        BY <3>1, <3>2, <3>3
      <4>2. PICK p \in Paths \ {<<>>} : p = q
        BY <4>1
      <4>3. Lstat(p)' = Lstat(p)
        BY <1>3, <4>1, <4>2, LstatSteady
      <4> QED
        BY <4>2, <4>3 DEF Lstat, Upto
    <3> QED
      BY <3>1, <3>4 DEF Obstructed, Upto
  <2> QED
    BY <2>1, <2>3, <2>4, <2>5 DEF Alone
<1> QED
  BY <1>2, <1>3

\* On to the next component: it is looked for in a directory.
LEMMA OnwardEnsured ==
    ASSUME TypeInv, EnsureInv, Grown, request.op = "ensure", request' = request,
           NEW o, Judge(o), pc \in {"ensure", "recheck"}, o = Lstat(at), touched' = touched,
           o \in Objects, broken' = broken
    PROVE  EnsureInv'
<1> DEFINE fine == Undisturbed(request.path)'
<1>1. /\ UNCHANGED <<entries, walk, made>>
      /\ \/ pc' = "failed" /\ at' = at /\ o \notin Dirs
         \/ pc' = "ok" /\ at' = at /\ at = request.path /\ o \in Dirs
         \/ pc' = "ensure" /\ o \in Dirs /\ Front(at') = at
  BY OnwardType
<1>2. at \in Paths /\ \E k \in 0 .. Len(request.path) : at = Upto(request.path, k)
  <2>1. at \in Paths /\ Len(at) \in 1 .. Len(request.path) /\ at = Upto(request.path, Len(at))
    BY JudgedIn
  <2> QED
    BY <2>1
<1>3. ASSUME fine
      PROVE  At'[Judged'] \in Dirs
  <2>1. Undisturbed(request.path) /\ At[Judged] \in Dirs /\ At'[Judged] \in Dirs
    BY <1>3, EnsuredStill
  <2>2. Lstat(at) = At[at]
    BY <2>1, Looked
  <2>3. CASE pc' = "failed"
    BY <1>1, <2>1, <2>3 DEF Judged
  <2>4. CASE o \in Dirs /\ Judged' = at
    <3>1. PICK path \in Paths : path = request.path
      BY JudgedIn
    <3>2. PICK k \in 0 .. Len(path) : at = Upto(path, k)
      BY <1>2, <3>1
    <3>3. Undisturbed(path)'
      BY <1>3, <3>1 DEF Undisturbed, Chain
    <3>4. At'[at] = At[at]
      BY <2>2, <2>4, <3>2, <3>3, DirSteady
    <3> QED
      BY <2>2, <2>4, <3>4
  <2> QED
    BY <1>1, <2>3, <2>4 DEF Judged
<1>4. ASSUME touched' = {}
      PROVE  Alone'
  <2>1. /\ Undisturbed(request.path) /\ touched = {}
        /\ \A m \in made' : /\ m.path # <<>> /\ IsPrefix(m.path, request.path)
                            /\ At'[Front(m.path)] = m.parent
        /\ Obstructed => Obstructed'
    BY <1>1, <1>4, EnsuredStill
  <2>2. ASSUME pc' = "failed"
        PROVE  Obstructed
    <3>1. Len(at) \in 1 .. Len(request.path) /\ at = Upto(request.path, Len(at))
      BY JudgedIn
    <3>2. Lstat(at) \in Files \cup Links \cup Specials
      BY <1>1, <2>2 DEF Objects
    <3> QED
      BY <3>1, <3>2 DEF Obstructed
  <2>3. pc' # "recheck"
    BY <1>1
  <2>4. \A m \in made' : /\ m.path # <<>> /\ IsPrefix(m.path, request'.path)
                         /\ At'[Front(m.path)] = m.parent
    BY <2>1
  <2> QED
    BY <2>1, <2>2, <2>3, <2>4 DEF Alone
<1> QED
  BY <1>3, <1>4 DEF EnsureInv

\* A component that is made, by the call or by others, is there.
LEMMA CreateEnsured ==
    ASSUME TypeInv, EnsureInv, Grown, request.op = "ensure", request' = request,
           Create, touched' = touched
    PROVE  EnsureInv'
<1>1. pc = "create" /\ Tree /\ None \notin Objects
  BY TraversalAssumption DEF Create, Program, TypeInv, TypeOK, Tree
<1>2. /\ at \in Paths /\ Front(at) \in Paths /\ Last(at) \in Names
      /\ at = Append(Front(at), Last(at)) /\ at # <<>> /\ IsPrefix(at, request.path)
  BY JudgedIn
<1>3. /\ at' = at /\ broken' = broken
      /\ pc' \in {"failed", "recheck"} /\ Judged' = Judged
  BY <1>1 DEF Create, Fail, MakeDirectory, Goto, Judged
<1>4. ASSUME Undisturbed(request.path)'
      PROVE  At'[Judged'] \in Dirs
  BY <1>3, <1>4, EnsuredStill
<1>5. ASSUME touched' = {}
      PROVE  Alone'
  <2>1. /\ Undisturbed(request.path) /\ Undisturbed(request.path)' /\ touched = {}
        /\ At'[Judged] \in Dirs
        /\ \A m \in made : /\ m.path # <<>> /\ IsPrefix(m.path, request.path)
                           /\ At'[Front(m.path)] = m.parent
        /\ At[at] # None => At'[at] # None
    BY <1>5, EnsuredStill
  <2>2. /\ At[Front(at)] \in Dirs /\ Parent = At[Front(at)]
        /\ At[at] = entries[<<At[Front(at)], Last(at)>>]
    BY <1>1, <2>1, Looked
  <2>3. At'[Front(at)] = At[Front(at)]
    BY <1>1, <1>2, <1>5, <2>2, Steady, Untouched DEF Objects
  <2>4. CASE pc' = "recheck" /\ At[at] # None /\ made' = made
    BY <1>3, <2>1, <2>4 DEF Alone
  <2>5. CASE /\ MakeDirectory
    <3> DEFINE d == CHOOSE o \in Unmade : TRUE
               e == <<Parent, Last(at)>>
    <3>1. /\ d \in Unmade /\ entries' = [entries EXCEPT ![e] = d] /\ pc' = "recheck"
          /\ made' = made \cup {[path |-> at, parent |-> Parent]}
      BY <2>5 DEF MakeDirectory, Goto
    <3>2. e \in DOMAIN entries /\ d \in Dirs
      BY <1>1, <1>2, <2>2, <3>1 DEF Tree, Unmade
    <3>3. entries'[e] = d
      <4> HIDE DEF e, d
      <4> QED
        BY <3>1, <3>2
    <3>4. At'[at] # None
      <4>1. At'[Append(Front(at), Last(at))] =
                IF At'[Front(at)] \in Dirs THEN entries'[<<At'[Front(at)], Last(at)>>] ELSE None
        BY <1>2, NextAtAppend DEF Grown
      <4> QED
        BY <1>1, <1>2, <2>2, <2>3, <3>2, <3>3, <4>1 DEF Objects
    <3>5. \A m \in made' : /\ m.path # <<>> /\ IsPrefix(m.path, request'.path)
                           /\ At'[Front(m.path)] = m.parent
      <4> DEFINE u == [path |-> at, parent |-> Parent]
      <4>1. u.path = at /\ u.parent = Parent
        OBVIOUS
      <4>2. u.path # <<>> /\ IsPrefix(u.path, request.path) /\ At'[Front(u.path)] = u.parent
        BY <1>2, <2>2, <2>3, <4>1
      <4> HIDE DEF u
      <4>3. made' = made \cup {u}
        BY <3>1 DEF u
      <4> QED
        BY <2>1, <4>2, <4>3
    <3> HIDE DEF d, e
    <3> QED
      BY <1>3, <3>1, <3>4, <3>5 DEF Alone
  <2>6. ~Fail
    <3>1. Parent \in Dirs
      BY <2>2
    <3> QED
      BY <3>1, <1>1 DEF Create, Fail, Goto, MakeDirectory
  <2> QED
    BY <2>2, <2>4, <2>5, <2>6 DEF Create, Goto
<1> QED
  BY <1>4, <1>5 DEF EnsureInv

LEMMA NextEnsured ==
    ASSUME TypeInv, EnsureInv, [Next]_vars
    PROVE  EnsureInv'
<1>1. Grown /\ TypeInv' /\ request' = request
  BY NextType
  DEF Next, Collect, Secure, StatRoot, ResolveRoot, Pop, List, Resolve, Ensure, Create, Recheck,
      Program, IoError, Others, OthersRemove, OthersCreate, OthersMkdir, OthersRename, Edit,
      Over, vars
<1>2. SUFFICES ASSUME request.op = "ensure"
               PROVE  EnsureInv'
  BY <1>1 DEF EnsureInv
<1>3. TypeOK /\ Ensuring
  BY <1>2 DEF TypeInv
<1> DEFINE stays ==
        /\ made' = made /\ at' = at
        /\ \/ pc' = pc /\ broken' = broken
           \/ pc # "ok" /\ pc' = "failed" /\ broken'
           \/ pc # "ok" /\ pc' = "create" /\ broken' = broken
<1>4. ASSUME stays
      PROVE  EnsureInv'
  <2>1. Judged' = Judged
    BY <1>4 DEF Judged
  <2>2. Undisturbed(request.path)' => At'[Judged'] \in Dirs
    BY <1>1, <1>2, <2>1, EnsuredStill
  <2>3. ASSUME touched' = {}
        PROVE  Alone'
    <3>1. /\ touched = {}
          /\ \A m \in made : /\ m.path # <<>> /\ IsPrefix(m.path, request.path)
                             /\ At'[Front(m.path)] = m.parent
          /\ At[at] # None => At'[at] # None
          /\ Obstructed => Obstructed'
      BY <1>1, <1>2, <2>3, EnsuredStill
    <3>2. Alone
      BY <1>2, <3>1 DEF EnsureInv
    <3>3. \A m \in made' : /\ m.path # <<>> /\ IsPrefix(m.path, request'.path)
                           /\ At'[Front(m.path)] = m.parent
      BY <1>1, <1>4, <3>1
    <3>4. /\ pc' = "recheck" => At'[at'] # None
          /\ pc' = "failed" => broken' \/ Obstructed'
      BY <1>4, <3>1, <3>2 DEF Alone
    <3> QED
      BY <3>3, <3>4 DEF Alone
  <2> QED
    BY <2>2, <2>3 DEF EnsureInv
<1>5. CASE Collect
  BY <1>3, <1>5
  DEF Collect, StatRoot, ResolveRoot, Pop, List, Resolve, Program, Ensuring
<1>6. CASE Ensure
  <2>1. CASE Lstat(at) # None /\ Judge(Lstat(at))
    <3>1. pc = "ensure" /\ touched' = touched /\ broken' = broken
      BY <1>6, <2>1 DEF Ensure, Program, Judge, Fail
    <3>2. Lstat(at) \in Objects
      BY <1>3, <2>1, StatTyped DEF TypeInv, TypeOK
    <3> QED
      BY <1>1, <1>2, <2>1, <3>1, <3>2, OnwardEnsured
  <2>2. CASE Goto("create") /\ UNCHANGED <<entries, walk, at, made, broken>>
    BY <1>4, <1>6, <2>2 DEF Goto, Ensure, Program
  <2> QED
    BY <1>6, <2>1, <2>2 DEF Ensure
<1>7. CASE Create
  BY <1>1, <1>2, <1>7, CreateEnsured DEF Create, Program
<1>8. CASE Recheck
  <2>1. pc = "recheck" /\ touched' = touched /\ broken' = broken /\ Judge(Lstat(at))
    BY <1>8 DEF Recheck, Program, Judge, Fail
  <2>2. Lstat(at) \in Objects \cup {None}
    BY <1>3, StatTyped DEF TypeInv, TypeOK
  <2>3. CASE Lstat(at) # None
    BY <1>1, <1>2, <2>1, <2>2, <2>3, OnwardEnsured
  <2>4. CASE Lstat(at) = None
    <3>1. Fail /\ pc' = "failed" /\ at' = at /\ made' = made
      BY <2>1, <2>4, TraversalAssumption DEF Judge, Fail, Objects
    <3>2. Judged' = Judged
      BY <2>1, <3>1 DEF Judged
    <3>3. touched' # {}
      <4> SUFFICES ASSUME touched' = {}
                   PROVE  FALSE
        OBVIOUS
      <4>1. Undisturbed(request.path) /\ touched = {}
        BY <1>1, <1>2, EnsuredStill
      <4>2. Lstat(at) = At[at] /\ At[at] # None
        BY <1>2, <2>1, <4>1, Looked DEF EnsureInv, Alone
      <4> QED
        BY <2>4, <4>2
    <3>4. Undisturbed(request.path)' => At'[Judged'] \in Dirs
      BY <1>1, <1>2, <3>2, EnsuredStill
    <3> QED
      BY <3>3, <3>4 DEF EnsureInv
  <2> QED
    BY <2>3, <2>4
<1>9. CASE IoError
  BY <1>4, <1>9 DEF IoError
<1>10. CASE Others
  BY <1>4, <1>10 DEF Others, OthersRemove, OthersCreate, OthersMkdir, OthersRename, Edit
<1>11. CASE Over \/ UNCHANGED vars
  BY <1>4, <1>11 DEF Over, vars
<1> QED
  BY <1>5, <1>6, <1>7, <1>8, <1>9, <1>10, <1>11 DEF Next, Secure

LEMMA EnsureInvariant == Spec => []EnsureInv
<1>1. Init /\ TypeInv => EnsureInv
  <2> SUFFICES ASSUME Init, TypeInv, request.op = "ensure"
               PROVE  At[Judged] \in Dirs /\ Alone
    BY DEF EnsureInv
  <2>1. request.path \in Paths /\ Len(request.path) \in Nat \ {0}
    BY RequestTyped, EmptySeq DEF Init, Paths
  <2>2. at = Upto(request.path, 1) /\ at \in Paths /\ Len(at) = 1 /\ at # <<>>
    BY <2>1, UptoParts DEF Init, Upto, TypeInv
  <2>3. Front(at) = Upto(at, 0)
    <3>1. Front(at) = Upto(at, Len(at) - 1)
      BY <2>2, UptoFront
    <3>2. Len(at) - 1 = 0
      BY <2>2
    <3> QED
      BY <3>1, <3>2
  <2>4. At[Judged] = Top
    BY <2>2, <2>3, UptoEnds, AtRoot DEF Init, Judged, TypeInv, TypeOK, Tree
  <2>5. Alone
    BY DEF Init, Alone
  <2> QED
    BY <2>4, <2>5, TraversalAssumption
<1>2. TypeInv /\ EnsureInv /\ [Next]_vars => EnsureInv'
  BY NextEnsured
<1> QED
  BY <1>1, <1>2, TypeInvariant, PTL DEF Spec

\* A directory that is made is where its path says, as long as nobody disturbs that.
MadeInv ==
    request.op = "ensure" =>
        /\ Undisturbed(Front(at)) => At[Front(at)] \in Dirs
        /\ \A m \in made :
            /\ m.path # <<>> /\ IsPrefix(m.path, request.path)
            /\ Undisturbed(Front(m.path)) => At[Front(m.path)] = m.parent

\* An undisturbed directory stays the same.
LEMMA DirKept ==
    ASSUME Grown, NEW path \in Paths, Undisturbed(path)', NEW d \in Dirs,
           Undisturbed(path) => At[path] = d
    PROVE  At'[path] = d
<1>1. None \notin Dirs
  BY TraversalAssumption DEF Objects
<1> QED
  BY <1>1, UndisturbedBefore, Steady

\* What is looked at, if its directory is undisturbed.
LEMMA LookedAlone ==
    ASSUME TypeInv, MadeInv, request.op = "ensure", Undisturbed(Front(at))
    PROVE  Lstat(at) = At[at] /\ Parent = At[Front(at)]
<1>1. Tree /\ At[Front(at)] \in Dirs
  BY DEF TypeInv, TypeOK, Tree, MadeInv
<1>2. PICK path \in Paths \ {<<>>} : path = at
  BY JudgedIn
<1>3. Front(path) \in Paths /\ Lstat(path) = At[path]
  BY <1>1, <1>2, PlainLstat, PathParts
<1>4. Canonical[Front(path)] = Front(path)
  BY <1>1, <1>2, <1>3, DirPath
<1> QED
  BY <1>2, <1>3, <1>4 DEF Parent, Stat

LEMMA MadeStill ==
    ASSUME TypeInv, MadeInv, Grown, request.op = "ensure"
    PROVE  /\ Undisturbed(Front(at))' /\ at' = at => At'[Front(at)] \in Dirs
           /\ \A m \in made :
                /\ m.path # <<>> /\ IsPrefix(m.path, request.path)
                /\ Undisturbed(Front(m.path))' => At'[Front(m.path)] = m.parent
<1>1. ASSUME Undisturbed(Front(at))', at' = at
      PROVE  At'[Front(at)] \in Dirs
  <2>1. PICK path \in Paths : path = Front(at)
    BY JudgedIn
  <2>2. Undisturbed(path)'
    BY <1>1, <2>1 DEF Undisturbed, Chain
  <2>3. Undisturbed(path)
    BY <2>2, UndisturbedBefore
  <2>4. At[path] \in Dirs
    BY <2>1, <2>3 DEF MadeInv
  <2> QED
    BY <2>1, <2>2, <2>4, DirKept
<1>2. ASSUME NEW m \in made
      PROVE  /\ m.path # <<>> /\ IsPrefix(m.path, request.path)
             /\ Undisturbed(Front(m.path))' => At'[Front(m.path)] = m.parent
  <2>1. /\ m.path # <<>> /\ IsPrefix(m.path, request.path)
        /\ Undisturbed(Front(m.path)) => At[Front(m.path)] = m.parent
    BY DEF MadeInv
  <2>2. m.path \in Paths /\ m.parent \in Dirs
    BY DEF TypeInv, TypeOK
  <2>3. Front(m.path) \in Paths
    BY <2>1, <2>2, PathParts
  <2> QED
    BY <2>1, <2>2, <2>3, DirKept
<1> QED
  BY <1>1, <1>2

LEMMA NextMade ==
    ASSUME TypeInv, MadeInv, [Next]_vars
    PROVE  MadeInv'
<1>1. Grown /\ TypeInv' /\ request' = request
  BY NextType
  DEF Next, Collect, Secure, StatRoot, ResolveRoot, Pop, List, Resolve, Ensure, Create, Recheck,
      Program, IoError, Others, OthersRemove, OthersCreate, OthersMkdir, OthersRename, Edit,
      Over, vars
<1> SUFFICES ASSUME request.op = "ensure"
             PROVE  /\ Undisturbed(Front(at))' => At'[Front(at')] \in Dirs
                    /\ \A m \in made' :
                        /\ m.path # <<>> /\ IsPrefix(m.path, request.path)
                        /\ Undisturbed(Front(m.path))' => At'[Front(m.path)] = m.parent
  BY <1>1 DEF MadeInv
<1>2. \A m \in made :
        /\ m.path # <<>> /\ IsPrefix(m.path, request.path)
        /\ Undisturbed(Front(m.path))' => At'[Front(m.path)] = m.parent
  BY <1>1, MadeStill
<1>3. ASSUME at' = at
      PROVE  Undisturbed(Front(at))' => At'[Front(at')] \in Dirs
  BY <1>1, <1>3, MadeStill
<1>4. CASE Collect
  BY <1>4 DEF Collect, StatRoot, ResolveRoot, Pop, List, Resolve, Program, TypeInv, Ensuring
<1>5. ASSUME Judge(Lstat(at)), pc \in {"ensure", "recheck"}, Lstat(at) \in Objects
      PROVE  /\ made' = made
             /\ Undisturbed(Front(at))' => At'[Front(at')] \in Dirs
  <2>1. /\ UNCHANGED <<entries, walk, made>>
        /\ at' = at \/ (Lstat(at) \in Dirs /\ Front(at') = at)
    BY <1>1, <1>5, OnwardType
  <2>2. ASSUME Lstat(at) \in Dirs, Front(at') = at, Undisturbed(Front(at))'
        PROVE  At'[at] \in Dirs
    <3>1. PICK path \in Paths \ {<<>>} : path = at
      BY JudgedIn
    <3>2. Undisturbed(path)'
      BY <2>2, <3>1 DEF Undisturbed, Chain
    <3>3. Undisturbed(path) /\ Front(path) \in Paths /\ IsPrefix(Front(path), path)
      <4>1. Front(path) \in Paths /\ Last(path) \in Names /\ path = Append(Front(path), Last(path))
        BY PathParts
      <4>2. \A s \in Paths, n \in Names : IsPrefix(s, Append(s, n))
        BY PrefixAppend
      <4>3. IsPrefix(Front(path), Append(Front(path), Last(path)))
        BY <4>1, <4>2
      <4> QED
        BY <1>1, <3>2, <4>1, <4>3, UndisturbedBefore
    <3>4. Undisturbed(Front(path))
      BY <3>3, UndisturbedAbove
    <3>5. At[path] \in Dirs
      BY <2>2, <3>1, <3>4, LookedAlone
    <3> QED
      BY <1>1, <3>1, <3>2, <3>5, DirKept
  <2> QED
    BY <1>3, <2>1, <2>2
<1>6. ASSUME Judge(Lstat(at)), Lstat(at) \notin Objects
      PROVE  made' = made /\ at' = at
  BY <1>6 DEF Judge, Fail, Objects
<1>7. CASE Ensure
  <2>1. pc = "ensure"
    BY <1>7 DEF Ensure, Program
  <2>2. CASE Judge(Lstat(at))
    BY <1>2, <1>3, <1>5, <1>6, <2>1, <2>2
  <2>3. CASE made' = made /\ at' = at
    BY <1>2, <1>3, <2>3
  <2> QED
    BY <1>7, <2>2, <2>3 DEF Ensure
<1>8. CASE Recheck
  BY <1>2, <1>3, <1>5, <1>6, <1>8 DEF Recheck, Program
<1>9. CASE Create
  <2>1. at' = at
    BY <1>9 DEF Create, Fail, MakeDirectory
  <2>2. CASE made' = made
    BY <1>2, <1>3, <2>1, <2>2
  <2>3. CASE made' = made \cup {[path |-> at, parent |-> Parent]}
    <3>1. PICK path \in Paths : path = Front(at)
      BY JudgedIn
    <3>2. ASSUME Undisturbed(Front(at))'
          PROVE  At'[Front(at)] = Parent
      <4>1. Undisturbed(path)'
        BY <2>1, <3>1, <3>2 DEF Undisturbed, Chain
      <4>2. Undisturbed(path)
        BY <1>1, <4>1, UndisturbedBefore
      <4>3. At[path] \in Dirs /\ Parent = At[path]
        BY <3>1, <4>2, LookedAlone DEF MadeInv
      <4> QED
        BY <1>1, <3>1, <4>1, <4>3, DirKept
    <3>3. at # <<>> /\ IsPrefix(at, request.path)
      BY JudgedIn
    <3> DEFINE u == [path |-> at, parent |-> Parent]
    <3>4. u.path = at /\ u.parent = Parent
      OBVIOUS
    <3>5. Undisturbed(Front(u.path))' => Undisturbed(Front(at))'
      BY <2>1, <3>4 DEF Undisturbed, Chain
    <3>6. made' = made \cup {u}
      BY <2>3
    <3>7. /\ u.path # <<>> /\ IsPrefix(u.path, request.path)
          /\ Undisturbed(Front(u.path))' => At'[Front(u.path)] = u.parent
      BY <3>2, <3>3, <3>4, <3>5
    <3> HIDE DEF u
    <3> DEFINE right(m) == /\ m.path # <<>> /\ IsPrefix(m.path, request.path)
                           /\ Undisturbed(Front(m.path))' => At'[Front(m.path)] = m.parent
    <3>8. \A m \in made' : right(m)
      <4>1. right(u) /\ \A m \in made : right(m)
        BY <1>2, <3>7
      <4> HIDE DEF right
      <4> QED
        BY <3>6, <4>1
    <3> QED
      BY <1>3, <2>1, <3>8
  <2> QED
    BY <1>9, <2>2, <2>3 DEF Create, Fail, MakeDirectory
<1>10. CASE IoError \/ Others \/ Over \/ UNCHANGED vars
  <2>1. made' = made /\ at' = at
    BY <1>10 DEF IoError, Others, OthersRemove, OthersCreate, OthersMkdir, OthersRename, Edit,
                 Over, vars
  <2> QED
    BY <1>2, <1>3, <2>1
<1> QED
  BY <1>4, <1>7, <1>8, <1>9, <1>10 DEF Next, Secure

LEMMA MadeInvariant == Spec => []MadeInv
<1>1. Init /\ TypeInv => MadeInv
  <2> SUFFICES ASSUME Init, TypeInv, request.op = "ensure"
               PROVE  At[Front(at)] \in Dirs /\ made = {}
    BY DEF MadeInv
  <2>1. request.path \in Paths /\ Len(request.path) \in Nat \ {0}
    BY RequestTyped, EmptySeq DEF Init, Paths
  <2>2. at = Upto(request.path, 1) /\ at \in Paths /\ Len(at) = 1 /\ at # <<>>
    BY <2>1, UptoParts DEF Init, Upto, TypeInv
  <2>3. Front(at) = Upto(at, 0)
    <3>1. Front(at) = Upto(at, Len(at) - 1)
      BY <2>2, UptoFront
    <3>2. Len(at) - 1 = 0
      BY <2>2
    <3> QED
      BY <3>1, <3>2
  <2>4. At[Front(at)] = Top
    BY <2>2, <2>3, UptoEnds, AtRoot DEF TypeInv, TypeOK, Tree
  <2> QED
    BY <2>4, TraversalAssumption DEF Init
<1>2. TypeInv /\ MadeInv /\ [Next]_vars => MadeInv'
  BY NextMade
<1> QED
  BY <1>1, <1>2, TypeInvariant, PTL DEF Spec

\* The directory that is promised is one where the path says, component by component,
\* unless others have changed a component of it; and each directory that was made is
\* in the one its path says, not behind a link, unless others have changed a component
\* above it. Paths are of any length, and others may change anything else.
THEOREM MadeInPlace == Spec => []EnsuredInPlace
<1>1. TypeInv /\ EnsureInv /\ MadeInv => EnsuredInPlace
  BY DEF EnsuredInPlace, EnsureInv, MadeInv, Judged, TypeInv, Ensuring
<1> QED
  BY <1>1, TypeInvariant, EnsureInvariant, MadeInvariant, PTL

\* Making directories fails only for a file or a link in the way, or an I/O error: not
\* because another process has made the same directory first.
THEOREM Unobstructed == Spec => []OnlyObstructed
<1>1. EnsureInv => OnlyObstructed
  BY DEF EnsureInv, Alone, Obstructed, OnlyObstructed, Upto
<1> QED
  BY <1>1, EnsureInvariant, PTL

-------------------------------------------------------------------------------
(* Nothing else is found, nor anything twice.                              *)

Apart(p, q) == ~IsPrefix(p, q) /\ ~IsPrefix(q, p)

\* What is still to be looked at in the directory at hand.
Ahead(p) ==
    \/ pc \in {"list", "resolve"} /\ \E n \in todo : p = Append(current, n)
    \/ pc = "resolve" /\ p = at

\* What the walk holds is there ...
Places ==
    /\ pc \in {"collect", "resolve root"} => files = {}
    /\ pc = "resolve root" => Lstat(request.path) \in Dirs
    /\ \A q \in Range(stack) : At[q] \in Dirs
    /\ pc \in {"list", "resolve"} => At[current] \in Dirs
    /\ pc = "resolve" => At[at] \in Dirs
    /\ \A f \in files : IsStrictPrefix(root, f) /\ At[f] \in Files

\* ... and no part of it lies in another, or holds a file that is found.
Distinct ==
    /\ ~repeated
    /\ \A i, j \in 1 .. Len(stack) : i # j => ~IsPrefix(stack[i], stack[j])
    /\ \A p \in Paths : Ahead(p) => /\ \A q \in Range(stack) : Apart(p, q)
                                    /\ \A f \in files : ~IsPrefix(p, f)
    /\ \A q \in Range(stack), f \in files : ~IsPrefix(q, f)

ElseInv == request.op = "collect" /\ touched = {} => Places /\ Distinct

LEMMA Single ==
    ASSUME NEW p
    PROVE  Range(<<p>>) = {p} /\ Len(<<p>>) = 1 /\ 1 .. Len(<<p>>) = {1}
<1>1. Len(<<p>>) = 1
  OBVIOUS
<1>2. DOMAIN <<p>> = {1} /\ <<p>>[1] = p
  OBVIOUS
<1>3. Range(<<p>>) = {p}
  BY <1>2 DEF Range
<1> QED
  BY <1>1, <1>3

LEMMA Siblings ==
    ASSUME NEW p \in Paths, NEW m \in Names, NEW n \in Names
    PROVE  /\ IsPrefix(Append(p, m), Append(p, n)) => m = n
           /\ ~IsPrefix(Append(p, m), p)
<1>1. /\ Append(p, m) \in Paths /\ Append(p, n) \in Paths
      /\ Len(Append(p, m)) = Len(p) + 1 /\ Len(p) \in Nat
      /\ Append(p, m)[Len(p) + 1] = m /\ Append(p, n)[Len(p) + 1] = n
  BY AppendProperties, LenProperties DEF Paths
<1>2. ~IsPrefix(Append(p, m), p)
  <2>1. ~(Len(p) + 1 <= Len(p))
    BY <1>1
  <2> QED
    BY <1>1, <2>1, PrefixMeans
<1>3. IsPrefix(Append(p, m), Append(p, n)) => Append(p, m) = Append(p, n)
  BY <1>1, <1>2, PrefixAppend
<1>4. Append(p, m) = Append(p, n) => m = n
  BY <1>1
<1> QED
  BY <1>2, <1>3, <1>4

LEMMA Children ==
    ASSUME NEW p \in Paths, NEW n \in Names, NEW q \in Paths
    PROVE  /\ ~IsPrefix(p, q) => ~IsPrefix(Append(p, n), q)
           /\ Apart(p, q) => Apart(Append(p, n), q)
           /\ IsPrefix(q, p) => IsStrictPrefix(q, Append(p, n))
<1> DEFINE u == Append(p, n)
<1>1. u \in Paths /\ IsPrefix(p, u)
  BY PrefixAppend, AppendParts
<1>2. (IsPrefix(q, u) <=> IsPrefix(q, p) \/ q = u) /\ ~IsPrefix(u, p)
  BY PrefixAppend, Siblings
<1> HIDE DEF u
<1>3. ~IsPrefix(p, q) => ~IsPrefix(u, q)
  BY <1>1, PrefixOfPrefix
<1>4. Apart(p, q) => Apart(u, q)
  BY <1>1, <1>2, <1>3 DEF Apart
<1>5. IsPrefix(q, p) => IsStrictPrefix(q, u)
  BY <1>2 DEF IsStrictPrefix
<1> QED
  BY <1>3, <1>4, <1>5 DEF u

\* Without changes by others, what is there stays.
LEMMA Stays ==
    ASSUME Grown, touched' = {}, NEW p \in Paths
    PROVE  /\ At[p] \in Dirs => At'[p] \in Dirs
           /\ At[p] \in Files => At'[p] \in Files
<1>1. None \notin Dirs \cup Files
  BY TraversalAssumption DEF Objects
<1> QED
  BY <1>1, Steady, Untouched

LEMMA StaysElse ==
    ASSUME TypeInv, ElseInv, Grown, request.op = "collect", request' = request, touched' = {},
           UNCHANGED <<walk, at>>, pc' = pc \/ pc' \in {"failed", "ok"}
    PROVE  Places' /\ Distinct'
<1>1. Places /\ Distinct
  BY DEF ElseInv, Grown
<1>2. /\ UNCHANGED <<root, stack, current, todo, files, repeated>>
      /\ \A q \in Range(stack) : q \in Paths
      /\ current \in Paths /\ at \in Paths /\ files \subseteq Paths
      /\ request.path \in Paths \ {<<>>}
  BY RequestTyped DEF walk, TypeInv, TypeOK
<1>3. Places'
  <2>1. ASSUME pc' = "resolve root"
        PROVE  (Lstat(request.path) \in Dirs)'
    <3>1. Lstat(request.path) \in Dirs /\ None \notin Dirs
      BY <1>1, <2>1, TraversalAssumption DEF Places, Objects
    <3>2. PICK path \in Paths \ {<<>>} : path = request.path
      BY <1>2
    <3>3. Lstat(path)' = Lstat(path)
      BY <3>1, <3>2, LstatSteady
    <3> QED
      BY <3>1, <3>2, <3>3 DEF Lstat
  <2>2. \A q \in Range(stack') : At'[q] \in Dirs
    BY <1>1, <1>2, Stays DEF Places
  <2>3. /\ pc' \in {"list", "resolve"} => At'[current'] \in Dirs
        /\ pc' = "resolve" => At'[at'] \in Dirs
    BY <1>1, <1>2, Stays DEF Places
  <2>4. \A f \in files' : IsStrictPrefix(root', f) /\ At'[f] \in Files
    BY <1>1, <1>2, Stays DEF Places
  <2>5. pc' \in {"collect", "resolve root"} => files' = {}
    BY <1>1, <1>2 DEF Places
  <2> QED
    BY <2>1, <2>2, <2>3, <2>4, <2>5 DEF Places
<1>4. Distinct'
  <2>1. \A p : Ahead(p)' => Ahead(p)
    BY <1>2 DEF Ahead
  <2> QED
    BY <1>1, <1>2, <2>1 DEF Distinct
<1> QED
  BY <1>3, <1>4

LEMMA RootElse ==
    ASSUME TypeInv, ElseInv, Grown, request.op = "collect", touched' = {}, ResolveRoot, ~Fail
    PROVE  Places' /\ Distinct'
<1>1. /\ root' = Canonical[request.path] /\ stack' = <<root'>> /\ pc' = "pop"
      /\ UNCHANGED <<files, repeated>> /\ pc = "resolve root"
  BY DEF ResolveRoot, Goto, Program
<1>2. Places /\ Distinct /\ Tree
  BY DEF ElseInv, Grown
<1>3. /\ request.path \in Paths /\ Front(request.path) \in Paths /\ Last(request.path) \in Names
      /\ request.path = Append(Front(request.path), Last(request.path))
  BY RequestTyped, PathParts DEF TypeInv, TypeOK
<1> DEFINE q == Append(Canonical[Front(request.path)], Last(request.path))
<1>4. At[q] \in Dirs /\ q \in Paths
  <2>1. Canonical[Front(request.path)] \in Paths
    BY <1>3, CanonicalUnfolds
  <2> QED
    BY <1>1, <1>2, <1>3, <2>1, AppendParts DEF Places, Lstat
<1>5. Canonical[Append(Front(request.path), Last(request.path))] =
        IF At[q] \in Links THEN Far[At[q]] ELSE q
  BY <1>3, CanonicalUnfolds
<1>6. root' = q
  BY <1>1, <1>3, <1>4, <1>5, TraversalAssumption
<1>7. At'[root'] \in Dirs
  BY <1>4, <1>6, Stays
<1>8. Range(stack') = {root'} /\ 1 .. Len(stack') = {1}
  BY <1>1, Single
<1>9. files' = {} /\ ~repeated'
  BY <1>1, <1>2 DEF Places, Distinct
<1>10. Places'
  BY <1>1, <1>7, <1>8, <1>9 DEF Places
<1>11. Distinct'
  BY <1>1, <1>8, <1>9 DEF Distinct, Ahead
<1> QED
  BY <1>10, <1>11

LEMMA PopElse ==
    ASSUME TypeInv, ElseInv, Grown, request.op = "collect", touched' = {}, Pop, ~Fail,
           stack # <<>>
    PROVE  Places' /\ Distinct'
<1> DEFINE q == Last(stack)
           d == Stat(q)
<1>1. /\ d \in Dirs /\ stack' = Front(stack) /\ current' = q
      /\ todo' = {n \in Names : entries[<<d, n>>] # None}
      /\ pc' = "list" /\ UNCHANGED <<root, files, repeated>>
  BY DEF Pop, Goto
<1>2. Places /\ Distinct /\ Walking /\ files \subseteq Paths
  BY DEF ElseInv, Grown, TypeInv, TypeOK
<1>3. /\ Range(stack) \subseteq Paths /\ q \in Range(stack) /\ q \in Paths
      /\ Range(stack') \subseteq Range(stack)
  BY <1>1, <1>2, StackParts DEF Walking
<1>4. /\ Len(stack) \in Nat \ {0} /\ Len(stack') = Len(stack) - 1
      /\ \A i \in 1 .. Len(stack) - 1 : stack'[i] = stack[i]
      /\ Range(stack') = {stack'[i] : i \in 1 .. Len(stack')}
  <2>1. stack \in Seq(Paths) /\ stack' \in Seq(Paths)
    BY <1>1, <1>2, StackParts DEF Walking
  <2> QED
    BY <1>1, <2>1, SeqParts, EmptySeq, RangeEquality
<1>5. \A i \in 1 .. Len(stack') : i \in 1 .. Len(stack) /\ i # Len(stack) /\ i \in 1 .. Len(stack) - 1
  BY <1>4
<1>6. Len(stack) \in 1 .. Len(stack) /\ q = stack[Len(stack)]
  BY <1>4 DEF Last
<1>7. \A i, j \in 1 .. Len(stack) : i # j => ~IsPrefix(stack[i], stack[j])
  BY <1>2 DEF Distinct
<1>8. \A r \in Range(stack') : Apart(q, r)
  BY <1>4, <1>5, <1>6, <1>7 DEF Apart
<1>9. \A i, j \in 1 .. Len(stack') : i # j => ~IsPrefix(stack'[i], stack'[j])
  BY <1>4, <1>5, <1>7
<1>10. \A r \in Paths : Ahead(r)' => \E n \in Names : r = Append(q, n)
  BY <1>1 DEF Ahead
<1>11. Distinct'
  <2>1. ASSUME NEW p \in Paths, Ahead(p)'
        PROVE  /\ \A r \in Range(stack') : Apart(p, r)
               /\ \A f \in files' : ~IsPrefix(p, f)
    <3>1. PICK n \in Names : p = Append(q, n)
      BY <1>10, <2>1
    <3>2. \A f \in files : ~IsPrefix(q, f)
      BY <1>2, <1>3 DEF Distinct
    <3> HIDE DEF q, d
    <3> QED
      BY <1>1, <1>2, <1>3, <1>8, <3>1, <3>2, Children
  <2>2. \A r \in Range(stack'), f \in files' : ~IsPrefix(r, f)
    BY <1>1, <1>2, <1>3 DEF Distinct
  <2>3. ~repeated'
    BY <1>1, <1>2 DEF Distinct
  <2> QED
    BY <1>9, <2>1, <2>2, <2>3 DEF Distinct
<1>12. Places'
  <2>1. At[q] \in Dirs
    BY <1>2, <1>3 DEF Places
  <2>2. At'[current'] \in Dirs /\ \A r \in Range(stack') : At'[r] \in Dirs
    <3>1. \A r \in Range(stack) : At'[r] \in Dirs
      BY <1>2, <1>3, Stays DEF Places
    <3> QED
      BY <1>1, <1>3, <3>1
  <2>3. \A f \in files' : IsStrictPrefix(root', f) /\ At'[f] \in Files
    BY <1>1, <1>2, Stays DEF Places
  <2> QED
    BY <1>1, <2>2, <2>3 DEF Places
<1> QED
  BY <1>11, <1>12

LEMMA ResolveElse ==
    ASSUME TypeInv, ElseInv, Grown, request.op = "collect", touched' = {}, Resolve, ~Fail
    PROVE  Places' /\ Distinct'
<1>1. /\ pc = "resolve" /\ stack' = Append(stack, Canonical[at]) /\ pc' = "list"
      /\ UNCHANGED <<root, current, todo, files, repeated>>
  BY DEF Resolve, Program, Goto
<1>2. /\ Places /\ Distinct /\ Walking /\ Tree /\ todo \subseteq Names
      /\ at \in Paths /\ current \in Paths /\ files \subseteq Paths
  BY DEF ElseInv, Grown, TypeInv, TypeOK
<1>3. At[at] \in Dirs /\ stack' = Append(stack, at)
  BY <1>1, <1>2, DirPath DEF Places
<1>4. PICK n \in Names \ todo : at = Append(current, n)
  BY <1>1, <1>2 DEF Walking
<1>5. /\ stack \in Seq(Paths) /\ Len(stack) \in Nat
      /\ Range(stack) \subseteq Paths /\ Range(stack) = {stack[i] : i \in 1 .. Len(stack)}
      /\ Range(stack') = Range(stack) \cup {at}
  BY <1>2, <1>3, StackParts DEF Walking
<1>6. /\ Len(stack') = Len(stack) + 1 /\ stack'[Len(stack) + 1] = at
      /\ \A i \in 1 .. Len(stack) : stack'[i] = stack[i]
  BY <1>2, <1>3, <1>5, AppendProperties
<1>7. \A q \in Range(stack) : Apart(at, q)
  BY <1>1, <1>2 DEF Distinct, Ahead
<1>8. \A i, j \in 1 .. Len(stack') : i # j => ~IsPrefix(stack'[i], stack'[j])
  <2>1. \A i \in 1 .. Len(stack') : i \in 1 .. Len(stack) \/ i = Len(stack) + 1
    BY <1>5, <1>6
  <2>2. \A i, j \in 1 .. Len(stack) : i # j => ~IsPrefix(stack[i], stack[j])
    BY <1>2 DEF Distinct
  <2>3. \A i \in 1 .. Len(stack) : Apart(at, stack'[i])
    BY <1>5, <1>6, <1>7
  <2> QED
    BY <1>6, <2>1, <2>2, <2>3 DEF Apart
<1>9. ASSUME NEW p \in Paths, Ahead(p)'
      PROVE  Ahead(p) /\ Apart(p, at)
  <2>1. PICK m \in todo : p = Append(current, m)
    BY <1>1, <1>9 DEF Ahead
  <2>2. ~IsPrefix(p, at) /\ ~IsPrefix(at, p)
    BY <1>2, <1>4, <2>1, Siblings
  <2> QED
    BY <1>1, <2>1, <2>2 DEF Ahead, Apart
<1>10. Distinct'
  <2>1. \A p \in Paths : Ahead(p)' => /\ \A q \in Range(stack') : Apart(p, q)
                                      /\ \A f \in files' : ~IsPrefix(p, f)
    BY <1>1, <1>2, <1>5, <1>9 DEF Distinct
  <2>2. \A q \in Range(stack'), f \in files' : ~IsPrefix(q, f)
    BY <1>1, <1>2, <1>5 DEF Distinct, Ahead
  <2> QED
    BY <1>1, <1>2, <1>8, <2>1, <2>2 DEF Distinct
<1>11. Places'
  <2>1. \A q \in Range(stack') : At'[q] \in Dirs
    <3>1. \A q \in Range(stack) \cup {at} : q \in Paths /\ At[q] \in Dirs
      BY <1>2, <1>3, <1>5 DEF Places
    <3> QED
      BY <1>5, <3>1, Stays
  <2>2. At'[current'] \in Dirs
    BY <1>1, <1>2, Stays DEF Places
  <2>3. \A f \in files' : IsStrictPrefix(root', f) /\ At'[f] \in Files
    BY <1>1, <1>2, Stays DEF Places
  <2> QED
    BY <1>1, <2>1, <2>2, <2>3 DEF Places
<1> QED
  BY <1>10, <1>11

LEMMA ListElse ==
    ASSUME TypeInv, ElseInv, Grown, request.op = "collect", touched' = {}, List, ~Fail,
           todo # {}
    PROVE  Places' /\ Distinct'
<1>1. /\ pc = "list"
      /\ UNCHANGED <<root, stack, current>>
      /\ Places /\ Distinct /\ Walking /\ Tree /\ todo \subseteq Names
      /\ current \in Paths /\ files \subseteq Paths /\ Range(stack) \subseteq Paths
  BY DEF List, Program, ElseInv, Grown, TypeInv, TypeOK, walk
<1>2. PICK n \in todo :
        \/ /\ Lstat(Append(current, n)) \in Dirs
           /\ at' = Append(current, n) /\ pc' = "resolve" /\ todo' = todo \ {n}
           /\ UNCHANGED <<files, repeated>>
        \/ /\ Lstat(Append(current, n)) \in Files
           /\ files' = files \cup {Append(current, n)} /\ pc' = "list" /\ todo' = todo \ {n}
           /\ repeated' = (repeated \/ Append(current, n) \in files)
  BY <1>1 DEF List, Goto
<1> DEFINE q == Append(current, n)
<1>3. /\ q \in Paths /\ q # <<>> /\ Front(q) = current /\ n \in Names
  BY <1>1, AppendParts
<1>4. Lstat(q) = At[q]
  <2> HIDE DEF q
  <2> QED
    BY <1>1, <1>3, PlainLstat DEF Places
<1>5. /\ Ahead(q) /\ IsStrictPrefix(root, q)
      /\ \A r \in Range(stack) : Apart(q, r)
      /\ \A f \in files : ~IsPrefix(q, f)
  <2>1. Ahead(q)
    BY <1>1 DEF Ahead
  <2>2. IsStrictPrefix(root, q)
    BY <1>1, <1>3, Children DEF Walking, TypeInv, TypeOK
  <2> HIDE DEF q
  <2> QED
    BY <1>1, <1>3, <2>1, <2>2 DEF Distinct
<1>6. ASSUME NEW m \in todo \ {n}
      PROVE  Ahead(Append(current, m)) /\ Apart(q, Append(current, m))
  BY <1>1, <1>3, Siblings DEF Ahead, Apart
<1>7. /\ At'[current'] \in Dirs
      /\ \A r \in Range(stack') : At'[r] \in Dirs
      /\ \A f \in files : IsStrictPrefix(root', f) /\ At'[f] \in Files
      /\ ~repeated
      /\ \A i, j \in 1 .. Len(stack') : i # j => ~IsPrefix(stack'[i], stack'[j])
      /\ \A r \in Range(stack), f \in files : ~IsPrefix(r, f)
  BY <1>1, Stays DEF Places, Distinct
<1>8. CASE Lstat(q) \in Dirs /\ at' = q /\ pc' = "resolve" /\ todo' = todo \ {n} /\ UNCHANGED <<files, repeated>>
  <2>1. At'[at'] \in Dirs
    <3> HIDE DEF q
    <3> QED
      BY <1>3, <1>4, <1>8, Stays
  <2>2. \A p \in Paths : Ahead(p)' => Ahead(p)
    BY <1>1, <1>5, <1>6, <1>8 DEF Ahead
  <2>3. Distinct'
    BY <1>1, <1>7, <1>8, <2>2 DEF Distinct
  <2>4. Places'
    BY <1>7, <1>8, <2>1 DEF Places
  <2> QED
    BY <2>3, <2>4
<1>9. CASE /\ Lstat(q) \in Files /\ files' = files \cup {q} /\ pc' = "list" /\ todo' = todo \ {n}
           /\ repeated' = (repeated \/ q \in files)
  <2>1. At'[q] \in Files
    <3> HIDE DEF q
    <3> QED
      BY <1>3, <1>4, <1>9, Stays
  <2>2. q \notin files
    <3> HIDE DEF q
    <3> QED
      BY <1>3, <1>5, PrefixSelf
  <2>3. ASSUME NEW p \in Paths, Ahead(p)'
        PROVE  Ahead(p) /\ ~IsPrefix(p, q)
    <3>1. PICK m \in todo \ {n} : p = Append(current, m)
      BY <1>1, <1>9, <2>3 DEF Ahead
    <3> QED
      BY <1>6, <3>1 DEF Apart
  <2>4. Distinct'
    <3>1. \A p \in Paths : Ahead(p)' => /\ \A r \in Range(stack') : Apart(p, r)
                                        /\ \A f \in files' : ~IsPrefix(p, f)
      <4> HIDE DEF q
      <4> QED
        BY <1>1, <1>9, <2>3 DEF Distinct
    <3>2. \A r \in Range(stack'), f \in files' : ~IsPrefix(r, f)
      <4> HIDE DEF q
      <4> QED
        BY <1>1, <1>5, <1>7, <1>9 DEF Apart
    <3>3. ~repeated'
      BY <1>7, <1>9, <2>2
    <3> QED
      BY <1>7, <3>1, <3>2, <3>3 DEF Distinct
  <2>5. Places'
    <3>1. \A f \in files' : IsStrictPrefix(root', f) /\ At'[f] \in Files
      <4> HIDE DEF q
      <4> QED
        BY <1>1, <1>5, <1>7, <1>9, <2>1
    <3> QED
      BY <1>7, <1>9, <3>1 DEF Places
  <2> QED
    BY <2>4, <2>5
<1> QED
  BY <1>2, <1>8, <1>9

LEMMA NextElse ==
    ASSUME TypeInv, ElseInv, [Next]_vars
    PROVE  ElseInv'
<1>1. Grown /\ TypeInv' /\ request' = request
  BY NextType
  DEF Next, Collect, Secure, StatRoot, ResolveRoot, Pop, List, Resolve, Ensure, Create, Recheck,
      Program, IoError, Others, OthersRemove, OthersCreate, OthersMkdir, OthersRename, Edit,
      Over, vars
<1>2. SUFFICES ASSUME request.op = "collect", touched' = {}
               PROVE  Places' /\ Distinct'
  BY <1>1 DEF ElseInv
<1>3. ASSUME UNCHANGED <<walk, at>>, pc' = pc \/ pc' \in {"failed", "ok"}
      PROVE  Places' /\ Distinct'
  BY <1>1, <1>2, <1>3, StaysElse
<1>4. CASE Fail
  BY <1>3, <1>4 DEF Fail
<1>5. CASE StatRoot /\ ~Fail
  <2>1. /\ pc = "collect" /\ Lstat(request.path) \in Dirs /\ pc' = "resolve root"
        /\ UNCHANGED <<entries, walk, at>>
    BY <1>5 DEF StatRoot, Program, Goto
  <2>2. Places /\ Distinct
    BY <1>1, <1>2 DEF ElseInv, Grown
  <2>3. (Lstat(request.path) \in Dirs)'
    <3>1. PICK path \in Paths \ {<<>>} : path = request.path
      BY RequestTyped DEF TypeInv, TypeOK
    <3>2. Lstat(path) # None
      BY <2>1, <3>1, TraversalAssumption DEF Objects
    <3>3. Lstat(path)' = Lstat(path)
      BY <1>1, <1>2, <3>1, <3>2, LstatSteady
    <3> QED
      BY <1>1, <2>1, <3>1, <3>3 DEF Lstat
  <2>4. /\ \A q \in Range(stack) : q \in Paths
        /\ files' = {} /\ UNCHANGED <<root, stack, current, todo, files, repeated>>
    BY <2>1, <2>2 DEF Places, walk, TypeInv, TypeOK
  <2>5. Places'
    BY <1>1, <1>2, <2>1, <2>2, <2>3, <2>4, Stays DEF Places
  <2>6. Distinct'
    BY <2>1, <2>2, <2>4 DEF Distinct, Ahead
  <2> QED
    BY <2>5, <2>6
<1>6. CASE ResolveRoot /\ ~Fail
  BY <1>1, <1>2, <1>6, RootElse
<1>7. CASE Pop /\ ~Fail
  <2>1. CASE stack = <<>>
    BY <1>3, <1>7, <2>1 DEF Pop, Goto
  <2> QED
    BY <1>1, <1>2, <1>7, <2>1, PopElse
<1>8. CASE List /\ ~Fail
  <2>1. CASE todo = {}
    <3>1. pc' = "pop" /\ pc = "list" /\ UNCHANGED walk
      BY <1>8, <2>1 DEF List, Program, Goto
    <3>2. Places /\ Distinct /\ files \subseteq Paths /\ Range(stack) \subseteq Paths
      BY <1>1, <1>2 DEF ElseInv, Grown, TypeInv, TypeOK
    <3>3. UNCHANGED <<root, stack, current, todo, files, repeated>>
      BY <3>1 DEF walk
    <3>4. Places'
      BY <1>1, <1>2, <3>1, <3>2, <3>3, Stays DEF Places
    <3>5. Distinct'
      BY <3>1, <3>2, <3>3 DEF Distinct, Ahead
    <3> QED
      BY <3>4, <3>5
  <2> QED
    BY <1>1, <1>2, <1>8, <2>1, ListElse
<1>9. CASE Resolve /\ ~Fail
  BY <1>1, <1>2, <1>9, ResolveElse
<1>10. CASE Secure
  BY <1>2, <1>10 DEF Secure, Ensure, Create, Recheck, Program, TypeInv, Walking
<1>11. CASE IoError \/ Over \/ UNCHANGED vars
  BY <1>3, <1>11 DEF IoError, Over, vars, walk
<1>12. CASE Others
  BY <1>3, <1>12 DEF Others, OthersRemove, OthersCreate, OthersMkdir, OthersRename, Edit
<1> QED
  BY <1>4, <1>5, <1>6, <1>7, <1>8, <1>9, <1>10, <1>11, <1>12 DEF Next, Collect

\* What the walk holds and has found, as long as nobody disturbs it.
FoundInv ==
    request.op = "collect" =>
        /\ pc \in {"collect", "resolve root"} => files = {}
        /\ \A q \in Range(stack) : Undisturbed(q) => At[q] \notin Links \cup {None}
        /\ pc \in {"list", "resolve"} => (Undisturbed(current) => At[current] \in Dirs)
        /\ \A f \in files : IsStrictPrefix(root, f) /\ (Undisturbed(f) => At[f] \in Files)

LEMMA FoundStill ==
    ASSUME TypeInv, FoundInv, Grown, request.op = "collect"
    PROVE  /\ \A q \in Range(stack) : Undisturbed(q)' => At'[q] \notin Links \cup {None}
           /\ pc \in {"list", "resolve"} => (Undisturbed(current)' /\ current' = current =>
                                                At'[current] \in Dirs)
           /\ \A f \in files : IsStrictPrefix(root, f) /\ (Undisturbed(f)' => At'[f] \in Files)
<1>1. /\ Range(stack) \subseteq Paths /\ current \in Paths /\ files \subseteq Paths
      /\ None \notin Dirs \cup Files
  BY TraversalAssumption DEF TypeInv, TypeOK, Objects
<1>2. ASSUME NEW q \in Paths, Undisturbed(q)'
      PROVE  Undisturbed(q) /\ (At[q] # None => At'[q] = At[q])
  BY <1>2, UndisturbedBefore, Steady
<1>3. \A q \in Range(stack) : Undisturbed(q)' => At'[q] \notin Links \cup {None}
  BY <1>1, <1>2 DEF FoundInv
<1>4. ASSUME pc \in {"list", "resolve"}, Undisturbed(current)', current' = current
      PROVE  At'[current] \in Dirs
  <2>1. PICK path \in Paths : path = current
    BY <1>1
  <2>2. Undisturbed(path)'
    BY <1>4, <2>1 DEF Undisturbed, Chain
  <2>3. At[path] \in Dirs /\ At'[path] = At[path]
    BY <1>1, <1>2, <1>4, <2>1, <2>2 DEF FoundInv
  <2> QED
    BY <2>1, <2>3
<1>5. \A f \in files : IsStrictPrefix(root, f) /\ (Undisturbed(f)' => At'[f] \in Files)
  BY <1>1, <1>2 DEF FoundInv
<1> QED
  BY <1>3, <1>4, <1>5

LEMMA NextFound ==
    ASSUME TypeInv, FoundInv, [Next]_vars
    PROVE  FoundInv'
<1>1. Grown /\ TypeInv' /\ request' = request
  BY NextType
  DEF Next, Collect, Secure, StatRoot, ResolveRoot, Pop, List, Resolve, Ensure, Create, Recheck,
      Program, IoError, Others, OthersRemove, OthersCreate, OthersMkdir, OthersRename, Edit,
      Over, vars
<1> SUFFICES ASSUME request.op = "collect"
             PROVE  FoundInv'
  BY <1>1 DEF FoundInv
<1>2. /\ \A q \in Range(stack) : Undisturbed(q)' => At'[q] \notin Links \cup {None}
      /\ pc \in {"list", "resolve"} => (Undisturbed(current)' /\ current' = current =>
                                            At'[current] \in Dirs)
      /\ \A f \in files : IsStrictPrefix(root, f) /\ (Undisturbed(f)' => At'[f] \in Files)
  BY <1>1, FoundStill
<1>3. /\ Range(stack) \subseteq Paths /\ current \in Paths /\ files \subseteq Paths
      /\ todo \subseteq Names /\ at \in Paths /\ Tree /\ Walking
      /\ Dirs \cap (Links \cup {None}) = {}
  BY TraversalAssumption DEF TypeInv, TypeOK, Objects, Tree
<1>4. ASSUME UNCHANGED <<root, stack, current, files>>,
             \/ pc' \in {pc, "ok", "failed", "pop"}
             \/ pc' = "resolve root" /\ pc = "collect"
             \/ pc' = "resolve" /\ pc = "list"
      PROVE  FoundInv'
  BY <1>1, <1>2, <1>4 DEF FoundInv
<1>5. CASE Fail \/ StatRoot \/ (Pop /\ stack = <<>>) \/ (List /\ todo = {})
  <2>1. CASE Fail
    BY <1>4, <2>1 DEF Fail, walk
  <2>2. CASE ~Fail
    <3>1. /\ UNCHANGED walk
          /\ \/ pc' \in {"ok", "pop"}
             \/ pc' = "resolve root" /\ pc = "collect"
      BY <1>5, <2>2 DEF StatRoot, Pop, List, Program, Goto
    <3> QED
      BY <1>4, <3>1 DEF walk
  <2> QED
    BY <2>1, <2>2
<1>6. CASE ResolveRoot /\ ~Fail
  <2>1. /\ Reached(request.path) /\ root' = Canonical[request.path] /\ stack' = <<root'>>
        /\ pc' = "pop" /\ UNCHANGED <<entries, touched, files>> /\ files = {}
    BY <1>6 DEF ResolveRoot, Program, Goto, FoundInv
  <2>2. Range(stack') = {root'}
    BY <2>1, Single
  <2>3. PICK path \in Paths : path = root'
    BY <1>1 DEF TypeInv, TypeOK
  <2>4. At[path] \notin Links \cup {None}
    BY <2>1, <2>3 DEF Reached, Stat
  <2>5. Undisturbed(path)' => At'[path] \notin Links \cup {None}
    BY <1>1, <2>4, Steady
  <2>6. \A q \in Range(stack') : Undisturbed(q)' => At'[q] \notin Links \cup {None}
    BY <2>2, <2>3, <2>5
  <2> QED
    BY <1>1, <2>1, <2>6 DEF FoundInv
<1>7. CASE Pop /\ ~Fail /\ stack # <<>>
  <2> DEFINE q == Last(stack)
  <2>1. /\ Stat(q) \in Dirs /\ stack' = Front(stack) /\ current' = q /\ pc' = "list"
        /\ UNCHANGED <<root, files>>
    BY <1>7 DEF Pop, Goto
  <2>2. q \in Range(stack) /\ q \in Paths /\ Range(stack') \subseteq Range(stack)
    BY <1>3, <1>7, <2>1, StackParts DEF Walking
  <2>3. PICK path \in Paths : path = q
    BY <2>2
  <2>4. ASSUME Undisturbed(path)'
        PROVE  At'[path] \in Dirs
    <3>1. At[path] \notin Links \cup {None}
      BY <1>1, <2>2, <2>3, <2>4, UndisturbedBefore DEF FoundInv
    <3>2. At[path] = Stat(path)
      BY <1>3, <3>1, PlainPath DEF Stat
    <3> QED
      BY <1>1, <2>1, <2>3, <2>4, <3>1, <3>2, Steady
  <2>5. Undisturbed(current)' => Undisturbed(path)'
    BY <2>1, <2>3 DEF Undisturbed, Chain
  <2>6. Undisturbed(current)' => At'[current'] \in Dirs
    BY <2>1, <2>3, <2>4, <2>5
  <2> QED
    BY <1>1, <1>2, <2>1, <2>2, <2>6 DEF FoundInv
<1>8. CASE List /\ ~Fail /\ todo # {}
  <2>1. pc = "list" /\ UNCHANGED <<root, stack, current>>
    BY <1>8 DEF List, Program, walk
  <2>2. PICK n \in todo :
          \/ pc' = "resolve" /\ files' = files
          \/ /\ Lstat(Append(current, n)) \in Files
             /\ files' = files \cup {Append(current, n)} /\ pc' = "list"
    BY <1>8, <2>1 DEF List, Goto
  <2>3. CASE pc' = "resolve" /\ files' = files
    BY <1>4, <2>1, <2>3
  <2>4. CASE /\ Lstat(Append(current, n)) \in Files
             /\ files' = files \cup {Append(current, n)} /\ pc' = "list"
    <3>1. PICK f \in Paths : f = Append(current, n)
      BY <1>3, AppendParts
    <3>2. f # <<>> /\ Front(f) = current /\ IsPrefix(current, f) /\ IsStrictPrefix(root, f)
      <4>1. \A s \in Paths, m \in Names : IsPrefix(s, Append(s, m))
        BY PrefixAppend
      <4> QED
        BY <1>1, <1>3, <2>1, <3>1, <4>1, AppendParts, Children DEF Walking, TypeInv, TypeOK
    <3>3. ASSUME Undisturbed(f)'
          PROVE  At'[f] \in Files
      <4>1. Undisturbed(f)
        BY <1>1, <3>3, UndisturbedBefore
      <4>2. Undisturbed(current)
        BY <1>3, <3>2, <4>1, UndisturbedAbove
      <4>3. At[f] \in Files
        BY <1>3, <2>1, <2>4, <3>1, <3>2, <4>2, PlainLstat DEF FoundInv
      <4> QED
        BY <1>1, <3>3, <4>3, Steady, TraversalAssumption DEF Objects
    <3>4. \A g \in files' : IsStrictPrefix(root', g) /\ (Undisturbed(g)' => At'[g] \in Files)
      BY <1>2, <2>1, <2>4, <3>1, <3>2, <3>3
    <3> QED
      BY <1>1, <1>2, <2>1, <2>4, <3>4 DEF FoundInv
  <2> QED
    BY <2>2, <2>3, <2>4
<1>9. CASE Resolve /\ ~Fail
  <2>1. /\ Reached(at) /\ stack' = Append(stack, Canonical[at]) /\ pc' = "list" /\ pc = "resolve"
        /\ UNCHANGED <<root, current, files>>
    BY <1>9 DEF Resolve, Program, Goto
  <2>2. PICK path \in Paths : path = Canonical[at]
    BY <1>3, CanonicalUnfolds
  <2>3. Undisturbed(path)' => At'[path] \notin Links \cup {None}
    BY <1>1, <2>1, <2>2, Steady DEF Reached, Stat
  <2>4. Range(stack') = Range(stack) \cup {path}
    BY <1>3, <2>1, <2>2, StackParts DEF Walking
  <2>5. \A q \in Range(stack') : Undisturbed(q)' => At'[q] \notin Links \cup {None}
    BY <1>2, <2>3, <2>4
  <2> QED
    BY <1>1, <1>2, <2>1, <2>5 DEF FoundInv
<1>10. CASE Secure
  BY <1>3, <1>10 DEF Secure, Ensure, Create, Recheck, Program, Walking
<1>11. CASE IoError \/ Others \/ Over \/ UNCHANGED vars
  <2>1. UNCHANGED walk /\ (pc' = pc \/ pc' = "failed")
    BY <1>11 DEF IoError, Others, OthersRemove, OthersCreate, OthersMkdir, OthersRename, Edit,
                 Over, vars
  <2> QED
    BY <1>4, <2>1 DEF walk
<1> QED
  BY <1>5, <1>6, <1>7, <1>8, <1>9, <1>10, <1>11 DEF Next, Collect

\* A walk finds only files below its root and where their paths say, however the tree
\* is laid out, whatever its links stand for, and whatever others do, unless they have
\* changed a component of the very path; it finds none twice unless others have
\* removed, moved or occupied some entry meanwhile.
THEOREM OnlyBelow == Spec => []NothingElse
<1>1. Init => ElseInv
  <2> SUFFICES ASSUME Init, request.op = "collect"
               PROVE  Places /\ Distinct
    BY DEF ElseInv
  <2>1. Range(stack) = {} /\ Len(stack) = 0 /\ files = {} /\ pc = "collect" /\ ~repeated
    BY DEF Init, Range
  <2>2. Places
    BY <2>1 DEF Places
  <2>3. Distinct
    BY <2>1 DEF Distinct, Ahead
  <2> QED
    BY <2>2, <2>3
<1>2. TypeInv /\ ElseInv /\ [Next]_vars => ElseInv'
  BY NextElse
<1>3. Init => FoundInv
  BY DEF Init, FoundInv, Range
<1>4. TypeInv /\ FoundInv /\ [Next]_vars => FoundInv'
  BY NextFound
<1>5. ElseInv /\ FoundInv => NothingElse
  BY DEF ElseInv, FoundInv, Distinct, NothingElse, Below, collected
<1> QED
  BY <1>1, <1>2, <1>3, <1>4, <1>5, TypeInvariant, PTL DEF Spec
===============================================================================
