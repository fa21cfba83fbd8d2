-------------------------- MODULE StreamCryptoProofs --------------------------
(***************************************************************************)
(* Theorems about StreamCrypto for every plaintext, chunk size, word size, *)
(* injective nonce derivation and amount of damage to the stream.          *)
(***************************************************************************)
EXTENDS StreamCrypto, SequenceTheorems, TLAPS

-------------------------------------------------------------------------------
(* Records and sequences of them.                                          *)

\* What the writer seals is a record.
LEMMA SealedType ==
    ASSUME NEW h \in {"own", "other"}, NEW t \in 1 .. 3, NEW s \in 0 .. MaxWord,
           NEW a \in Nat, NEW b \in Nat
    PROVE  Sealed(h, t, s, <<a, b>>) \in Record
<1>1. Seal("right", h, t, s) \in Seals
  BY DEF Seals
<1>2. t \in 0 .. 3 /\ <<a, b>> \in Nat \X Nat
  OBVIOUS
<1> QED
  BY <1>1, <1>2 DEF Sealed, Record

\* So is a fragment of one.
LEMMA FragmentType == Fragment \in Record
<1>1. Seal("right", "own", DATA, 0) \in Seals
  <2>1. DATA \in 1 .. 3 /\ 0 \in 0 .. MaxWord
    BY StreamAssumption DEF DATA
  <2> QED
    BY <2>1 DEF Seals
<1>2. /\ 0 \in 0 .. 3 /\ 0 \in 0 .. MaxWord
      /\ <<0, 0>> \in Nat \X Nat
      /\ FALSE \in BOOLEAN
  BY StreamAssumption
<1> QED
  BY <1>1, <1>2 DEF Fragment, Record

\* So are those of another stream.
LEMMA ForeignType == Foreign \subseteq Record
<1>1. {0, 1, 2} \subseteq 0 .. MaxWord /\ {0, 1} \subseteq Nat
  BY StreamAssumption
<1>2. METADATA \in 1 .. 3 /\ DATA \in 1 .. 3 /\ FINAL \in 1 .. 3
  BY DEF METADATA, DATA, FINAL
<1>3. /\ Sealed("other", METADATA, 0, <<0, 0>>) \in Record
      /\ Sealed("other", DATA, 1, <<0, 1>>) \in Record
      /\ Sealed("other", FINAL, 1, <<0, 0>>) \in Record
      /\ Sealed("other", FINAL, 2, <<1, 1>>) \in Record
  BY <1>1, <1>2, SealedType
<1> QED
  BY <1>3 DEF Foreign

\* And a record one field of which was changed.
LEMMA AlteredType ==
    ASSUME NEW record \in Record
    PROVE  Altered(record) \subseteq Record
<1>1. ASSUME NEW t \in {METADATA, DATA, FINAL}
      PROVE  [record EXCEPT !.type = t] \in Record
  <2>1. t \in 0 .. 3
    BY DEF METADATA, DATA, FINAL
  <2> QED
    BY <2>1 DEF Record
<1>2. ASSUME NEW s \in 0 .. 3
      PROVE  [record EXCEPT !.seq = s] \in Record
  <2>1. s \in 0 .. MaxWord
    BY StreamAssumption
  <2> QED
    BY <2>1 DEF Record
<1>3. [record EXCEPT !.intact = FALSE] \in Record
  BY DEF Record
<1> QED
  BY <1>1, <1>2, <1>3 DEF Altered

\* Whatever holds of every record of the stream, of fragments, of foreign and
\* of written records, and survives a change to a record, survives damage.
LEMMA DamagedTape ==
    ASSUME NEW S, tape \in Seq(S), Damage,
           Fragment \in S, Foreign \subseteq S,
           \A k \in 1 .. Len(written) : written[k] \in S,
           \A record \in S : Altered(record) \subseteq S
    PROVE  tape' \in Seq(S)
<1>1. ASSUME NEW i \in 1 .. Len(tape)
      PROVE  /\ SubSeq(tape, 1, i - 1) \in Seq(S)
             /\ Append(SubSeq(tape, 1, i - 1), Fragment) \in Seq(S)
             /\ Remove(i) \in Seq(S)
             /\ \A record \in Altered(tape[i]) : [tape EXCEPT ![i] = record] \in Seq(S)
  <2>1. SubSeq(tape, 1, i - 1) \in Seq(S)
    BY SubSeqProperties
  <2>2. Append(SubSeq(tape, 1, i - 1), Fragment) \in Seq(S)
    BY <2>1, AppendProperties
  <2>3. Remove(i) \in Seq(S)
    <3>1. Len(tape) - 1 \in Nat
      BY LenProperties
    <3>2. \A j \in 1 .. Len(tape) - 1 : tape[j] \in S /\ tape[j + 1] \in S
      BY ElementOfSeq, LenProperties
    <3>3. Remove(i) \in [1 .. Len(tape) - 1 -> S]
      BY <3>2 DEF Remove
    <3> QED
      BY <3>1, <3>3, IsASeq
  <2>4. tape[i] \in S
    BY ElementOfSeq
  <2>5. \A record \in Altered(tape[i]) : [tape EXCEPT ![i] = record] \in Seq(S)
    BY <2>4, ExceptSeq
  <2> QED
    BY <2>1, <2>2, <2>3, <2>5
<1>2. ASSUME NEW i \in 1 .. Len(tape) + 1,
             NEW record \in Foreign \cup {written[k] : k \in 1 .. Len(written)}
      PROVE  Insert(i, record) \in Seq(S)
  <2>1. Len(tape) + 1 \in Nat /\ i \in Nat
    BY LenProperties
  <2>2. record \in S
    OBVIOUS
  <2>3. \A j \in 1 .. Len(tape) + 1 :
          /\ j < i => tape[j] \in S
          /\ j # i /\ ~(j < i) => tape[j - 1] \in S
    BY ElementOfSeq, LenProperties
  <2>4. Insert(i, record) \in [1 .. Len(tape) + 1 -> S]
    BY <2>2, <2>3 DEF Insert
  <2> QED
    BY <2>1, <2>4, IsASeq
<1> QED
  BY <1>1, <1>2 DEF Damage

-------------------------------------------------------------------------------
(* Type correctness.                                                       *)

LEMMA EncryptType ==
    ASSUME TypeOK, Encrypt \/ Stop
    PROVE  TypeOK'
<1> USE StreamAssumption DEF encVars, decVars, TypeOK
<1>1. CASE WriteHeader
  BY <1>1 DEF WriteHeader
<1>2. CASE WriteMetadata
  <2>1. Sealed("own", METADATA, 0, <<0, 0>>) \in Record
    <3>1. METADATA \in 1 .. 3 /\ 0 \in 0 .. MaxWord
      BY DEF METADATA
    <3> QED
      BY <3>1, SealedType
  <2>2. written' \in Seq(Record) /\ tape' \in Seq(Record)
    BY <1>2, <2>1, AppendProperties DEF WriteMetadata, Write
  <2> QED
    BY <1>2, <2>2 DEF WriteMetadata
<1>3. CASE WriteChunk
  <2> DEFINE filled == IF size - pos < ChunkSize THEN size - pos ELSE ChunkSize
  <2>1. filled \in Nat \ {0} /\ pos \in Nat /\ pos + filled \in Nat
    <3>1. ChunkSize \in Nat \ {0} /\ size \in Nat /\ pos \in Nat /\ pos < size
      BY <1>3 DEF WriteChunk
    <3> QED
      BY ONLY <3>1 
  <2>2. Sealed("own", DATA, seq, <<pos, pos + filled>>) \in Record
    <3>1. DATA \in 1 .. 3 /\ seq \in 0 .. MaxWord
      BY DEF DATA
    <3> HIDE DEF filled
    <3> QED
      BY <2>1, <3>1, SealedType
  <2>3. written' \in Seq(Record) /\ tape' \in Seq(Record)
    BY <1>3, <2>2, AppendProperties DEF WriteChunk, Write
  <2>4. {pos', chunks', seq'} \subseteq 0 .. MaxWord
    <3>1. /\ MaxWord \in Nat /\ chunks \in Nat /\ seq \in Nat
          /\ pos \in 0 .. MaxWord /\ chunks \in 0 .. MaxWord /\ seq \in 0 .. MaxWord
      OBVIOUS
    <3>2. \/ /\ pos + filled <= MaxWord /\ chunks + 1 <= MaxWord /\ seq + 1 <= MaxWord
             /\ pos' = pos + filled /\ chunks' = chunks + 1 /\ seq' = seq + 1
          \/ pos' = pos /\ chunks' = chunks /\ seq' = seq
      BY <1>3 DEF WriteChunk, Fits
    <3> HIDE DEF filled
    <3> QED
      BY ONLY <2>1, <3>1, <3>2
  <2>5. enc' \in {"final", "chunks", "failed"}
    BY <1>3 DEF WriteChunk
  <2> QED
    BY <1>3, <2>3, <2>4, <2>5 DEF WriteChunk
<1>4. CASE WriteFinal
  <2>1. Sealed("own", FINAL, seq, <<pos, chunks>>) \in Record
    <3>1. FINAL \in 1 .. 3 /\ seq \in 0 .. MaxWord /\ pos \in Nat /\ chunks \in Nat
      BY DEF FINAL
    <3> QED
      BY <3>1, SealedType
  <2>2. written' \in Seq(Record) /\ tape' \in Seq(Record)
    BY <1>4, <2>1, AppendProperties DEF WriteFinal, Write
  <2> QED
    BY <1>4, <2>2 DEF WriteFinal
<1>5. CASE Stop
  <2>1. tape' \in Seq(Record)
    <3>1. Append(tape, Fragment) \in Seq(Record)
      BY FragmentType, AppendProperties
    <3>2. tape' \in {tape, Append(tape, Fragment)}
      BY <1>5 DEF Stop
    <3> QED
      BY <3>1, <3>2
  <2> QED
    BY <1>5, <2>1 DEF Stop
<1> QED
  BY <1>1, <1>2, <1>3, <1>4, <1>5 DEF Encrypt

LEMMA DamageType ==
    ASSUME TypeOK, Damage
    PROVE  TypeOK'
<1> USE StreamAssumption DEF encVars, decVars, TypeOK
<1>1. tape' \in Seq(Record)
  <2>1. \A k \in 1 .. Len(written) : written[k] \in Record
    BY ElementOfSeq
  <2> QED
    BY <2>1, FragmentType, ForeignType, AlteredType, DamagedTape
<1>2. heading' \in {"own", "other", "malformed"} \/ heading' = heading
  BY DEF Damage
<1>3. damage' \in 0 .. MaxDamage /\ UNCHANGED <<encVars, decVars>>
  BY DEF Damage
<1> QED
  BY <1>1, <1>2, <1>3

LEMMA DecryptType ==
    ASSUME TypeOK, Decrypt
    PROVE  TypeOK'
<1> USE StreamAssumption DEF encVars, decVars, TypeOK
<1>1. tape' \in Seq(Record)
  <2>1. tape # <<>> => Tail(tape) \in Seq(Record)
    BY HeadTailProperties
  <2> QED
    BY <2>1 DEF Decrypt, ReadHeader, ReadMetadata, ReadData, ReadFinal, ReadInvalid,
                ReadTrailing
<1>2. CASE ReadHeader
  BY <1>1, <1>2 DEF ReadHeader, Reject
<1>3. CASE ReadMetadata
  BY <1>1, <1>3 DEF ReadMetadata, Reject
<1>4. CASE ReadData
  <2> DEFINE record == Head(tape)
  <2>1. record \in Record
    BY <1>4, HeadTailProperties DEF ReadData
  <2>2. record.body \in Nat \X Nat
    BY <2>1 DEF Record
  <2>3. record.body[1] \in Nat /\ record.body[2] \in Nat
    BY <2>2
  <2>4. out' \in Seq(Nat \X Nat)
    BY <1>4, <2>2, AppendProperties DEF ReadData
  <2>5. next + 1 <= MaxWord /\ next' = next + 1
    BY <1>4 DEF ReadData, Acceptable
  <2>6. {total', count'} \subseteq 0 .. MaxWord /\ dec' \in {dec, "failed"}
    <3> DEFINE length == record.body[2] - record.body[1]
    <3>1. /\ MaxWord \in Nat /\ total \in 0 .. MaxWord /\ count \in 0 .. MaxWord
      OBVIOUS
    <3>2. length \in Nat \ {0}
      <4>1. record.body[1] < record.body[2]
        BY <1>4 DEF ReadData
      <4> QED
        BY ONLY <2>3, <4>1
    <3>3. \/ /\ total + length <= MaxWord /\ count + 1 <= MaxWord
             /\ total' = total + length /\ count' = count + 1 /\ dec' = dec
          \/ total' = total /\ count' = count /\ dec' = "failed"
      BY <1>4 DEF ReadData, Counted
    <3> HIDE DEF length
    <3> QED
      BY ONLY <3>1, <3>2, <3>3
  <2> QED
    BY <1>1, <1>4, <2>4, <2>5, <2>6 DEF ReadData
<1>5. CASE ReadFinal
  BY <1>1, <1>5 DEF ReadFinal, Acceptable
<1>6. CASE ReadInvalid
  BY <1>1, <1>6 DEF ReadInvalid, Reject
<1>7. CASE ReadTrailing
  BY <1>1, <1>7 DEF ReadTrailing, Reject
<1> QED
  BY <1>2, <1>3, <1>4, <1>5, <1>6, <1>7 DEF Decrypt

LEMMA InitType == Init => TypeOK
<1> QED
  BY StreamAssumption, EmptySeq DEF Init, TypeOK

LEMMA NextType == TypeOK /\ [Next]_vars => TypeOK'
<1> SUFFICES ASSUME TypeOK, [Next]_vars
             PROVE  TypeOK'
  OBVIOUS
<1>1. CASE UNCHANGED vars
  BY <1>1 DEF TypeOK, vars, encVars, decVars
<1>2. CASE Over
  BY <1>2 DEF Over, TypeOK, vars, encVars, decVars
<1>3. CASE IoError
  BY <1>3, StreamAssumption DEF IoError, Reject, TypeOK, encVars
<1> QED
  BY <1>1, <1>2, <1>3, EncryptType, DamageType, DecryptType DEF Next

\* Counters stay within their words, records well formed: no arithmetic of
\* either end wraps around, because each checks before it stores.
THEOREM StreamTypeCorrect == Spec => []TypeOK
<1> QED
  BY InitType, NextType, PTL DEF Spec

-------------------------------------------------------------------------------
(* The inductive invariant. Its parts say how far the writer is, what it   *)
(* has written, that whatever opens on the tape was written by it or by    *)
(* the writer of another stream, and how far the reader is along that.     *)

EncoderPlace ==
    /\ enc = "header" => heading = "missing"
    /\ enc \in {"header", "metadata"} => written = <<>> /\ pos = 0
    /\ enc \in {"chunks", "final"} =>
          /\ seq \in 1 .. MaxWord
          /\ Len(written) = seq
          /\ pos = written[seq].body[2]
          /\ pos <= size
    /\ enc = "final" => pos = size

WrittenInOrder ==
    \A k \in 1 .. Len(written) :
        /\ k - 1 <= MaxWord
        /\ written[k] = Sealed("own", written[k].type, k - 1, written[k].body)
        /\ k = 1 => written[k].type = METADATA /\ written[k].body = <<0, 0>>
        /\ k > 1 => written[k].type \in {DATA, FINAL}
        /\ written[k].type = DATA => written[k].body[1] = written[k - 1].body[2]
        /\ written[k].type = FINAL => enc = "ok" /\ written[k].body[1] = size

\* Records that do not open under the stream's own header, or that were written.
Genuine ==
    {r \in Record : r.intact /\ r.seal.key[2] = "own" =>
        \E k \in 1 .. Len(written) :
            written[k].seal = r.seal /\ written[k].body = r.body}

TapeGenuine == tape \in Seq(Genuine)

ReaderPlace ==
    /\ heading = "missing" => dec \in {"header", "failed"}
    /\ dec \in {"header", "metadata"} => next = 1 /\ total = 0 /\ out = <<>>
    /\ heading = "missing" => out = <<>>
    /\ heading = "own" =>
          /\ \A k \in 1 .. Len(out) :
                k + 1 \in 1 .. Len(written) /\ out[k] = written[k + 1].body
                    /\ written[k + 1].type = DATA
          /\ dec = "records" =>
                /\ next \in 1 .. Len(written)
                /\ total = written[next].body[2]
                /\ Len(out) = next - 1
          /\ dec \in {"trailing", "ok"} => total = size /\ enc = "ok"
          /\ dec = "ok" => tape = <<>>

StreamInv == EncoderPlace /\ WrittenInOrder /\ TapeGenuine /\ ReaderPlace

\* Appending a record leaves those before it where they are.
LEMMA Growth ==
    ASSUME TypeOK, NEW r \in Record, Write(r)
    PROVE  /\ Len(written) \in Nat
           /\ Len(written') = Len(written) + 1
           /\ \A k \in 1 .. Len(written) : written'[k] = written[k]
           /\ written'[Len(written) + 1] = r
           /\ tape' = Append(tape, r)
<1>1. written \in Seq(Record)
  BY DEF TypeOK
<1> QED
  BY <1>1, AppendProperties, LenProperties DEF Write

LEMMA GenuineGrows ==
    ASSUME TypeOK, NEW r \in Record, Write(r), TapeGenuine
    PROVE  TapeGenuine'
<1>1. Genuine \subseteq Genuine'
  <2> SUFFICES ASSUME NEW g \in Genuine, g.intact, g.seal.key[2] = "own"
               PROVE  \E k \in 1 .. Len(written') :
                          written'[k].seal = g.seal /\ written'[k].body = g.body
    BY DEF Genuine
  <2>1. PICK k \in 1 .. Len(written) : written[k].seal = g.seal /\ written[k].body = g.body
    BY DEF Genuine
  <2>2. k \in 1 .. Len(written') /\ written'[k] = written[k]
    BY Growth
  <2> QED
    BY <2>1, <2>2
<1>2. r \in Genuine'
  <2>1. Len(written) + 1 \in 1 .. Len(written')
    BY Growth
  <2>2. written'[Len(written) + 1] = r
    BY Growth
  <2> QED
    BY <2>1, <2>2 DEF Genuine
<1>3. tape \in Seq(Genuine')
  BY <1>1, SeqMonotonic DEF TapeGenuine
<1>4. tape' = Append(tape, r)
  BY Growth
<1> QED
  BY <1>2, <1>3, <1>4, AppendProperties DEF TapeGenuine

\* The records that were sealed under another header, and fragments, open never.
LEMMA NeverOpen == Fragment \in Genuine /\ Foreign \subseteq Genuine
<1>1. Fragment \in Genuine
  BY FragmentType DEF Genuine, Fragment
<1>2. \A r \in Foreign : r.seal.key[2] = "other"
  BY DEF Foreign, Sealed, Seal
<1> QED
  BY <1>1, <1>2, ForeignType DEF Genuine

\* What opens is what the writer put at that place.
LEMMA OpensAsWritten ==
    ASSUME TypeOK, WrittenInOrder, TapeGenuine, heading = "own",
           tape # <<>>, Opens(Head(tape))
    PROVE  /\ Head(tape).seq + 1 \in 1 .. Len(written)
           /\ written[Head(tape).seq + 1].body = Head(tape).body
           /\ written[Head(tape).seq + 1].type = Head(tape).type
<1> DEFINE r == Head(tape)
<1>1. r \in Genuine
  BY HeadTailProperties DEF TapeGenuine
<1>2. r.intact /\ r.seal = Seal(password, "own", r.type, r.seq)
  BY DEF Opens
<1>3. r.seal.key[2] = "own"
  BY <1>2 DEF Seal
<1>4. PICK k \in 1 .. Len(written) : written[k].seal = r.seal /\ written[k].body = r.body
  BY <1>1, <1>2, <1>3 DEF Genuine
<1>5. written[k] = Sealed("own", written[k].type, k - 1, written[k].body)
  BY DEF WrittenInOrder
<1>6. written[k].seal.aad = <<"own", written[k].type, k - 1>>
  BY <1>5 DEF Sealed, Seal
<1>7. r.seal.aad = <<"own", r.type, r.seq>>
  BY <1>2 DEF Seal
<1>8. written[k].type = r.type /\ k - 1 = r.seq
  BY <1>4, <1>6, <1>7
<1>9. k = r.seq + 1
  <2>1. k \in Int /\ r.seq \in Int
    BY <1>1 DEF Genuine, Record
  <2> QED
    BY <1>8, <2>1
<1> QED
  BY <1>4, <1>8, <1>9

-------------------------------------------------------------------------------
(* The writer keeps the invariant.                                         *)

LEMMA InOrderGrows ==
    ASSUME TypeOK, WrittenInOrder, enc # "ok", size' = size,
           NEW r \in Record, Write(r), Len(written) <= MaxWord,
           r = Sealed("own", r.type, Len(written), r.body),
           Len(written) = 0 => r.type = METADATA /\ r.body = <<0, 0>>,
           Len(written) > 0 => r.type \in {DATA, FINAL},
           r.type = DATA => r.body[1] = written[Len(written)].body[2],
           r.type = FINAL => enc' = "ok" /\ r.body[1] = size
    PROVE  WrittenInOrder'
<1> DEFINE n == Len(written)
<1>1. n \in Nat /\ Len(written') = n + 1
  BY Growth
<1>2. \A k \in 1 .. n : written'[k] = written[k]
  BY Growth
<1>3. written'[n + 1] = r
  BY Growth
<1> SUFFICES ASSUME NEW k \in 1 .. n + 1
             PROVE  /\ k - 1 <= MaxWord
                    /\ written'[k] = Sealed("own", written'[k].type, k - 1, written'[k].body)
                    /\ k = 1 => written'[k].type = METADATA /\ written'[k].body = <<0, 0>>
                    /\ k > 1 => written'[k].type \in {DATA, FINAL}
                    /\ written'[k].type = DATA => written'[k].body[1] = written'[k - 1].body[2]
                    /\ written'[k].type = FINAL => enc' = "ok" /\ written'[k].body[1] = size'
  BY <1>1 DEF WrittenInOrder
<1>4. CASE k \in 1 .. n
  <2>1. k > 1 => k - 1 \in 1 .. n
    BY <1>1, <1>4
  <2>2. k = 1 => written[k].type = METADATA
    BY <1>4 DEF WrittenInOrder
  <2>3. written[k].type = DATA => k > 1
    BY <1>1, <1>4, <2>2 DEF METADATA, DATA
  <2>4. written[k].type # FINAL
    BY <1>4 DEF WrittenInOrder
  <2> QED
    BY <1>2, <1>4, <2>1, <2>3, <2>4 DEF WrittenInOrder
<1>5. CASE k = n + 1
  <2>1. k - 1 = n /\ (k = 1 <=> n = 0) /\ (k > 1 <=> n > 0)
    BY <1>1, <1>5
  <2>2. r.type = DATA => written'[n] = written[n]
    <3>1. r.type = DATA => n # 0
      BY DEF METADATA, DATA
    <3> QED
      BY <1>1, <1>2, <3>1
  <2> QED
    BY <1>3, <1>5, <2>1, <2>2
<1> QED
  BY <1>1, <1>4, <1>5

LEMMA ReaderUndisturbed ==
    ASSUME TypeOK, ReaderPlace, enc # "ok", NEW r \in Record, Write(r),
           UNCHANGED <<size, heading, decVars>>
    PROVE  ReaderPlace'
<1>1. Len(written) \in Nat /\ Len(written') = Len(written) + 1
  BY Growth
<1>2. \A k \in 1 .. Len(written) : written'[k] = written[k] /\ k \in 1 .. Len(written')
  BY <1>1, Growth
<1>3. UNCHANGED <<dec, next, total, out, heading, size>>
  BY DEF decVars
<1>4. heading = "own" => dec \notin {"trailing", "ok"}
  BY DEF ReaderPlace
<1> QED
  BY <1>2, <1>3, <1>4 DEF ReaderPlace

LEMMA WriterKeepsInv ==
    ASSUME TypeOK, StreamInv, Encrypt \/ Stop
    PROVE  StreamInv'
<1> USE DEF StreamInv
<1>a. /\ {size, pos, chunks, seq, next, total} \subseteq Nat
      /\ {MaxWord, ChunkSize} \subseteq Nat
      /\ written \in Seq(Record) /\ tape \in Seq(Record)
      /\ Len(written) \in Nat
  BY StreamAssumption, LenProperties DEF TypeOK
<1>1. CASE WriteHeader
  <2>1. UNCHANGED <<size, password, pos, chunks, seq, written, tape, decVars>>
        /\ enc = "header" /\ enc' = "metadata" /\ heading' = "own"
    BY <1>1 DEF WriteHeader
  <2>2. written = <<>> /\ Len(written) = 0 /\ heading = "missing"
    BY <2>1, EmptySeq DEF EncoderPlace
  <2>3. EncoderPlace' /\ WrittenInOrder'
    BY <2>1, <2>2 DEF EncoderPlace, WrittenInOrder
  <2>4. TapeGenuine'
    BY <2>1 DEF TapeGenuine, Genuine
  <2>5. ReaderPlace'
    <3>1. out = <<>> /\ Len(out) = 0 /\ dec \in {"header", "failed"}
      BY <2>2, EmptySeq DEF ReaderPlace
    <3> QED
      BY <2>1, <3>1 DEF ReaderPlace, decVars
  <2> QED
    BY <2>3, <2>4, <2>5
<1>2. CASE WriteMetadata
  <2> DEFINE r == Sealed("own", METADATA, 0, <<0, 0>>)
  <2>1. /\ enc = "metadata" /\ enc' = "chunks" /\ seq' = 1
        /\ Write(r)
        /\ UNCHANGED <<size, pos, heading, decVars>>
    BY <1>2 DEF WriteMetadata
  <2>2. written = <<>> /\ Len(written) = 0
    BY <2>1, EmptySeq DEF EncoderPlace
  <2>3. r \in Record
    <3>1. METADATA \in 1 .. 3 /\ 0 \in 0 .. MaxWord /\ 0 \in Nat
      BY <1>a DEF METADATA
    <3> QED
      BY <3>1, SealedType
  <2>4. r.type = METADATA /\ r.body = <<0, 0>> /\ r = Sealed("own", r.type, 0, r.body)
    BY DEF Sealed
  <2> HIDE DEF r
  <2>5. WrittenInOrder'
    BY <1>a, <2>1, <2>2, <2>3, <2>4, InOrderGrows DEF METADATA, DATA, FINAL
  <2>6. Len(written') = 1 /\ written'[1] = r
    BY <2>1, <2>2, <2>3, Growth
  <2>7. r.body[2] = 0
    BY <2>4
  <2>8. EncoderPlace'
    <3>1. 1 \in 1 .. MaxWord /\ pos = 0 /\ 0 <= size
      BY <1>a, <2>1, StreamAssumption DEF EncoderPlace
    <3> QED
      BY <2>1, <2>6, <2>7, <3>1 DEF EncoderPlace
  <2> QED
    BY <2>1, <2>3, <2>5, <2>8, GenuineGrows, ReaderUndisturbed
<1>3. CASE WriteChunk
  <2> DEFINE filled == IF size - pos < ChunkSize THEN size - pos ELSE ChunkSize
             r == Sealed("own", DATA, seq, <<pos, pos + filled>>)
  <2>1. /\ enc = "chunks" /\ enc' # "header" /\ enc' # "metadata" /\ enc' # "ok"
        /\ pos < size
        /\ Write(r)
        /\ UNCHANGED <<size, heading, decVars>>
    BY <1>3 DEF WriteChunk
  <2>2. /\ seq \in 1 .. MaxWord /\ Len(written) = seq /\ pos = written[seq].body[2]
    BY <2>1 DEF EncoderPlace
  <2>3. /\ filled \in Nat \ {0} /\ pos + filled \in Nat /\ pos + filled <= size
        /\ filled < ChunkSize => pos + filled = size
    <3>1. ChunkSize \in Nat \ {0} /\ size \in Nat /\ pos \in Nat /\ pos < size
      BY <1>a, <2>1, StreamAssumption
    <3> QED
      BY ONLY <3>1
  <2>4. \/ /\ seq + 1 <= MaxWord /\ seq' = seq + 1 /\ pos' = pos + filled
           /\ enc' \in {"chunks", "final"}
           /\ enc' = "final" => filled < ChunkSize
        \/ enc' = "failed"
    BY <1>3 DEF WriteChunk, Fits
  <2>5. r \in Record
    <3>1. DATA \in 1 .. 3 /\ seq \in 0 .. MaxWord
      BY <1>a, <2>2 DEF DATA
    <3> HIDE DEF filled
    <3> QED
      BY <1>a, <2>3, <3>1, SealedType
  <2>6. /\ r.type = DATA /\ r.body[1] = pos /\ r.body[2] = pos + filled
        /\ r = Sealed("own", r.type, seq, r.body)
    BY DEF Sealed
  <2> HIDE DEF r, filled
  <2>7. WrittenInOrder'
    <3>1. /\ enc # "ok" /\ size' = size /\ Len(written) <= MaxWord /\ Len(written) > 0
          /\ r.type # FINAL
      BY <1>a, <2>1, <2>2, <2>6 DEF DATA, FINAL
    <3> QED
      BY <2>1, <2>2, <2>5, <2>6, <3>1, InOrderGrows
  <2>8. EncoderPlace'
    <3>1. Len(written') = seq + 1 /\ written'[seq + 1] = r
      BY <2>1, <2>2, <2>5, Growth
    <3>2. CASE enc' = "failed"
      BY <3>2 DEF EncoderPlace
    <3>3. CASE enc' \in {"chunks", "final"}
      <4>1. seq' = seq + 1 /\ pos' = pos + filled /\ (enc' = "final" => filled < ChunkSize)
        BY <2>4, <3>3
      <4>2. seq' \in 1 .. MaxWord
        BY <1>a, <2>2, <2>4, <3>3
      <4>3. pos' = written'[seq'].body[2]
        BY <2>6, <3>1, <4>1
      <4>4. pos' <= size' /\ (enc' = "final" => pos' = size')
        BY <2>1, <2>3, <4>1
      <4> QED
        BY <2>1, <3>1, <4>1, <4>2, <4>3, <4>4 DEF EncoderPlace
    <3> QED
      BY <2>4, <3>2, <3>3
  <2> QED
    BY <2>1, <2>5, <2>7, <2>8, GenuineGrows, ReaderUndisturbed
<1>4. CASE WriteFinal
  <2> DEFINE r == Sealed("own", FINAL, seq, <<pos, chunks>>)
  <2>1. /\ enc \in {"chunks", "final"} /\ enc' = "ok"
        /\ enc = "chunks" => pos = size
        /\ Write(r)
        /\ UNCHANGED <<size, heading, decVars>>
    BY <1>4 DEF WriteFinal
  <2>2. /\ seq \in 1 .. MaxWord /\ Len(written) = seq /\ pos = size
    BY <2>1 DEF EncoderPlace
  <2>3. r \in Record
    <3>1. FINAL \in 1 .. 3 /\ seq \in 0 .. MaxWord
      BY <1>a, <2>2 DEF FINAL
    <3> QED
      BY <1>a, <3>1, SealedType
  <2>4. r.type = FINAL /\ r.body[1] = size /\ r = Sealed("own", r.type, seq, r.body)
    BY <2>2 DEF Sealed
  <2> HIDE DEF r
  <2>5. WrittenInOrder'
    <3>1. /\ enc # "ok" /\ size' = size /\ Len(written) <= MaxWord /\ Len(written) > 0
          /\ r.type # DATA
      BY <1>a, <2>1, <2>2, <2>4 DEF DATA, FINAL
    <3> QED
      BY <2>1, <2>2, <2>3, <2>4, <3>1, InOrderGrows
  <2>6. EncoderPlace'
    BY <2>1 DEF EncoderPlace
  <2> QED
    BY <2>1, <2>3, <2>5, <2>6, GenuineGrows, ReaderUndisturbed
<1>5. CASE Stop
  <2>1. /\ enc # "ok" /\ enc' = "failed"
        /\ UNCHANGED <<size, written, heading, decVars>>
        /\ tape' \in {tape, Append(tape, Fragment)}
    BY <1>5 DEF Stop
  <2>2. EncoderPlace'
    BY <2>1 DEF EncoderPlace
  <2>3. WrittenInOrder'
    BY <2>1 DEF WrittenInOrder
  <2>4. TapeGenuine'
    <3>1. Genuine' = Genuine
      BY <2>1 DEF Genuine
    <3>2. tape' \in Seq(Genuine)
      BY <2>1, NeverOpen, AppendProperties DEF TapeGenuine
    <3> QED
      BY <3>1, <3>2 DEF TapeGenuine
  <2>5. ReaderPlace'
    BY <2>1 DEF ReaderPlace, decVars
  <2> QED
    BY <2>2, <2>3, <2>4, <2>5
<1> QED
  BY <1>1, <1>2, <1>3, <1>4, <1>5 DEF Encrypt

-------------------------------------------------------------------------------
(* So do damage and the reader.                                            *)

LEMMA DamageKeepsInv ==
    ASSUME TypeOK, StreamInv, Damage
    PROVE  StreamInv'
<1> USE DEF StreamInv
<1>1. /\ UNCHANGED <<encVars, decVars>>
      /\ heading # "missing"
      /\ heading' = heading \/ heading' \in {"other", "malformed"}
      /\ dec # "ok"
  BY DEF Damage
<1>2. EncoderPlace' /\ WrittenInOrder'
  BY <1>1 DEF EncoderPlace, WrittenInOrder, encVars
<1>3. TapeGenuine'
  <2>1. Genuine' = Genuine
    BY <1>1 DEF Genuine, encVars
  <2>2. \A k \in 1 .. Len(written) : written[k] \in Genuine
    BY ElementOfSeq DEF TypeOK, Genuine
  <2>3. ASSUME NEW g \in Genuine, NEW a \in Altered(g)
        PROVE  a \in Genuine
    <3>1. a \in Record /\ g \in Record
      BY AlteredType DEF Genuine
    <3>2. a.seal = g.seal /\ a.body = g.body /\ (a.intact => g.intact)
      BY <3>1 DEF Altered, Record
    <3> QED
      BY <3>1, <3>2 DEF Genuine
  <2>4. tape' \in Seq(Genuine)
    BY <2>2, <2>3, NeverOpen, DamagedTape DEF TapeGenuine
  <2> QED
    BY <2>1, <2>4 DEF TapeGenuine
<1>4. ReaderPlace'
  BY <1>1 DEF ReaderPlace, encVars, decVars
<1> QED
  BY <1>2, <1>3, <1>4

LEMMA ReaderKeepsInv ==
    ASSUME TypeOK, StreamInv, Decrypt
    PROVE  StreamInv'
<1> USE DEF StreamInv
<1>1. UNCHANGED <<encVars, heading, damage>>
  BY DEF Decrypt, ReadHeader, ReadMetadata, ReadData, ReadFinal, ReadInvalid, ReadTrailing
<1>2. UNCHANGED <<size, enc, pos, seq, written, heading>>
  BY <1>1 DEF encVars
<1>3. EncoderPlace' /\ WrittenInOrder'
  BY <1>2 DEF EncoderPlace, WrittenInOrder
<1>4. TapeGenuine'
  <2>1. Genuine' = Genuine
    BY <1>2 DEF Genuine
  <2>2. tape' = tape \/ (tape # <<>> /\ tape' = Tail(tape))
    BY DEF Decrypt, ReadHeader, ReadMetadata, ReadData, ReadFinal, ReadInvalid, ReadTrailing
  <2>3. tape' \in Seq(Genuine)
    BY <2>2, HeadTailProperties DEF TapeGenuine
  <2> QED
    BY <2>1, <2>3 DEF TapeGenuine
<1>5. ReaderPlace'
  <2>a. next \in Nat /\ total \in Nat /\ Len(out) \in Nat /\ out \in Seq(Nat \X Nat)
        /\ Len(written) \in Nat /\ written \in Seq(Record)
    BY LenProperties DEF TypeOK
  <2>1. CASE ReadHeader
    BY <1>2, <2>1 DEF ReadHeader, Reject, ReaderPlace
  <2>2. CASE ReadMetadata
    <3>1. CASE dec' = "failed"
      BY <1>2, <2>2, <3>1 DEF ReadMetadata, Reject, ReaderPlace
    <3>2. CASE dec' = "records"
      <4>1. /\ tape # <<>> /\ Head(tape).seq = 0 /\ Opens(Head(tape))
            /\ dec = "metadata" /\ UNCHANGED <<next, total, out>>
        BY <2>2, <3>2 DEF ReadMetadata, Reject
      <4>2. heading = "own" => 1 \in 1 .. Len(written) /\ written[1].body[2] = 0
        <5>1. heading = "own" => 0 + 1 \in 1 .. Len(written)
          BY <4>1, OpensAsWritten
        <5> QED
          BY <2>a, <5>1 DEF WrittenInOrder
      <4>3. next = 1 /\ total = 0 /\ out = <<>> /\ Len(out) = 0 /\ heading # "missing"
        BY <4>1, EmptySeq DEF ReaderPlace
      <4> QED
        BY <1>2, <3>2, <4>1, <4>2, <4>3 DEF ReaderPlace
    <3> QED
      BY <2>2, <3>1, <3>2 DEF ReadMetadata, Reject
  <2>3. CASE ReadData
    <3> DEFINE r == Head(tape)
    <3>1. /\ dec = "records" /\ tape # <<>> /\ r.seq = next /\ r.type = DATA /\ Opens(r)
          /\ next' = next + 1 /\ out' = Append(out, r.body)
          /\ \/ dec' = dec /\ total' = total + (r.body[2] - r.body[1])
             \/ dec' = "failed"
      BY <2>3 DEF ReadData, Acceptable
    <3>2. heading # "missing"
      BY <3>1 DEF ReaderPlace
    <3> SUFFICES ASSUME heading = "own"
                 PROVE  ReaderPlace'
      BY <1>2, <3>1, <3>2 DEF ReaderPlace
    <3>3. /\ next + 1 \in 1 .. Len(written)
          /\ written[next + 1].body = r.body /\ written[next + 1].type = DATA
      BY <3>1, OpensAsWritten
    <3>4. next \in 1 .. Len(written) /\ total = written[next].body[2] /\ Len(out) = next - 1
      BY <3>1 DEF ReaderPlace
    <3>5. r.body[1] = total
      <4>1. written[next + 1].body[1] = written[(next + 1) - 1].body[2]
        BY <3>3 DEF WrittenInOrder
      <4> QED
        BY <2>a, <3>3, <3>4, <4>1
    <3>6. r.body \in Nat \X Nat
      <4>1. r \in Record
        BY <3>1, HeadTailProperties DEF TypeOK
      <4> QED
        BY <4>1 DEF Record
    <3>7. /\ Len(out') = next /\ out'[next] = r.body
          /\ \A k \in 1 .. Len(out) : out'[k] = out[k]
      <4>1. Len(out) + 1 = next
        BY <2>a, <3>4
      <4>2. out' = Append(out, r.body)
        BY <3>1
      <4> HIDE DEF r
      <4> QED
        BY <2>a, <3>6, <4>1, <4>2, AppendProperties
    <3>8. ASSUME NEW k \in 1 .. Len(out')
          PROVE  k + 1 \in 1 .. Len(written) /\ out'[k] = written[k + 1].body
                    /\ written[k + 1].type = DATA
      <4>1. CASE k = next
        BY <3>3, <3>7, <4>1
      <4>2. CASE k \in 1 .. Len(out)
        BY <3>7, <4>2 DEF ReaderPlace
      <4> QED
        BY <2>a, <3>4, <3>7, <4>1, <4>2
    <3>9. dec' = "records" => total' = written[next + 1].body[2]
      <4>1. r.body[2] \in Nat
        BY <3>6
      <4>2. dec' = "records" => total' = total + (r.body[2] - r.body[1])
        BY <3>1
      <4>3. total + (r.body[2] - total) = r.body[2]
        BY <2>a, <4>1
      <4> QED
        BY <3>3, <3>5, <4>2, <4>3
    <3> QED
      BY <1>2, <2>a, <3>1, <3>3, <3>7, <3>8, <3>9 DEF ReaderPlace
  <2>4. CASE ReadFinal
    <3> DEFINE r == Head(tape)
    <3>1. /\ dec = "records" /\ tape # <<>> /\ r.seq = next /\ r.type = FINAL /\ Opens(r)
          /\ \/ dec' = "trailing" /\ r.body = <<total, count>>
             \/ dec' = "failed"
          /\ UNCHANGED <<total, out>>
      BY <2>4 DEF ReadFinal, Acceptable
    <3>2. heading = "own" /\ dec' = "trailing" => total = size /\ enc = "ok"
      <4> SUFFICES ASSUME heading = "own", dec' = "trailing"
                   PROVE  total = size /\ enc = "ok"
        OBVIOUS
      <4>1. /\ next + 1 \in 1 .. Len(written)
            /\ written[next + 1].body = r.body /\ written[next + 1].type = FINAL
        BY <3>1, OpensAsWritten
      <4>2. r.body[1] = total
        BY <3>1
      <4> QED
        BY <4>1, <4>2 DEF WrittenInOrder
    <3> QED
      BY <1>2, <3>1, <3>2 DEF ReaderPlace
  <2>5. CASE ReadInvalid
    BY <1>2, <2>5 DEF ReadInvalid, Reject, ReaderPlace
  <2>6. CASE ReadTrailing
    BY <1>2, <2>6 DEF ReadTrailing, Reject, AtEnd, ReaderPlace
  <2> QED
    BY <2>1, <2>2, <2>3, <2>4, <2>5, <2>6 DEF Decrypt
<1> QED
  BY <1>3, <1>4, <1>5

-------------------------------------------------------------------------------
(* The theorems.                                                           *)

LEMMA StreamInvInit == Init => StreamInv
<1> SUFFICES ASSUME Init
             PROVE  StreamInv
  OBVIOUS
<1>1. Len(written) = 0 /\ Len(out) = 0 /\ tape \in Seq(Genuine)
  BY EmptySeq DEF Init
<1> QED
  BY <1>1 DEF Init, StreamInv, EncoderPlace, WrittenInOrder, TapeGenuine, ReaderPlace

LEMMA StreamInvNext == TypeOK /\ StreamInv /\ [Next]_vars => StreamInv'
<1> SUFFICES ASSUME TypeOK, StreamInv, UNCHANGED vars \/ IoError
             PROVE  StreamInv'
  BY WriterKeepsInv, DamageKeepsInv, ReaderKeepsInv DEF Next, Over
<1>1. /\ UNCHANGED <<size, enc, pos, seq, written, heading, tape, next, total, out>>
      /\ dec' = dec \/ dec' = "failed"
  BY DEF vars, encVars, decVars, IoError, Reject
<1>2. Genuine' = Genuine
  BY <1>1 DEF Genuine
<1> QED
  BY <1>1, <1>2 DEF StreamInv, EncoderPlace, WrittenInOrder, TapeGenuine, ReaderPlace

LEMMA StreamInvariant == Spec => [](TypeOK /\ StreamInv)
<1> QED
  BY InitType, NextType, StreamInvInit, StreamInvNext, PTL DEF Spec

\* A reader is never handed a byte out of place, however the stream was damaged:
\* decrypt_to writes a chunk only after its sequence, type and seal were checked.
THEOREM PlaintextPrefix == Spec => []PrefixOnly
<1>1. TypeOK /\ StreamInv => PrefixOnly
  <2> SUFFICES ASSUME TypeOK, StreamInv, heading = "own", NEW k \in 1 .. Len(out)
               PROVE  out[k][1] = (IF k = 1 THEN 0 ELSE out[k - 1][2])
    BY DEF PrefixOnly
  <2>1. Len(out) \in Nat /\ Len(written) \in Nat
    BY LenProperties DEF TypeOK
  <2>2. /\ k + 1 \in 1 .. Len(written) /\ out[k] = written[k + 1].body
        /\ written[k + 1].type = DATA
    BY DEF StreamInv, ReaderPlace
  <2>3. out[k][1] = written[k].body[2]
    <3>1. written[k + 1].body[1] = written[(k + 1) - 1].body[2]
      BY <2>2 DEF StreamInv, WrittenInOrder
    <3> QED
      BY <2>1, <2>2, <3>1
  <2>4. CASE k = 1
    <3>1. 1 \in 1 .. Len(written)
      BY <2>1, <2>2, <2>4
    <3>2. written[1].body[2] = 0
      BY <3>1 DEF StreamInv, WrittenInOrder
    <3> QED
      BY <2>3, <2>4, <3>2
  <2>5. CASE k # 1
    <3>1. k - 1 \in 1 .. Len(out)
      BY <2>1, <2>5
    <3>2. out[k - 1] = written[(k - 1) + 1].body
      BY <3>1 DEF StreamInv, ReaderPlace
    <3> QED
      BY <2>1, <2>3, <2>5, <3>2
  <2> QED
    BY <2>4, <2>5
<1> QED
  BY <1>1, StreamInvariant, PTL

\* Success means the whole plaintext: a stream cut at a record boundary, or with
\* bytes after its end, is refused by the final record and the trailing check.
THEOREM NoTruncation == Spec => []SuccessIsWhole
<1>1. StreamInv => SuccessIsWhole
  BY DEF StreamInv, ReaderPlace, SuccessIsWhole
<1> QED
  BY <1>1, StreamInvariant, PTL

\* derive_record_nonce never repeats within a stream: a sequence number is used
\* once, and the counter stops the writer before it could wrap.
THEOREM NoncesUnique == Spec => []NonceOnce
<1>1. TypeOK /\ StreamInv => NonceOnce
  <2> SUFFICES ASSUME TypeOK, StreamInv,
                      NEW j \in 1 .. Len(written), NEW k \in 1 .. Len(written),
                      written[j].seal.nonce = written[k].seal.nonce
               PROVE  j = k
    BY DEF NonceOnce
  <2>1. ASSUME NEW i \in 1 .. Len(written)
        PROVE  written[i].seal.nonce = Nonce("own", i - 1) /\ i - 1 \in 0 .. MaxWord
    <3>1. /\ written[i] = Sealed("own", written[i].type, i - 1, written[i].body)
          /\ i - 1 <= MaxWord
      BY DEF StreamInv, WrittenInOrder
    <3>2. written[i].seal.nonce = Nonce("own", i - 1)
      BY <3>1 DEF Sealed, Seal
    <3> QED
      BY <3>1, <3>2, StreamAssumption
  <2>2. j - 1 = k - 1
    BY <2>1, NonceAssumption
  <2> QED
    BY <2>2
<1> QED
  BY <1>1, StreamInvariant, PTL
-------------------------------------------------------------------------------
(* A stream left alone.                                                    *)

\* While the writer goes on, its counters agree with its records. Two bytes a
\* record, but for the last, keep the sequence away from its limit.
Tallied ==
    /\ enc \in {"header", "metadata"} => pos = 0 /\ chunks = 0
    /\ enc \in {"chunks", "final", "ok"} => seq = chunks + 1 /\ seq \in 1 .. MaxWord
    /\ enc = "chunks" => 2 * chunks <= pos
    /\ enc \in {"final", "ok"} => 2 * chunks <= pos + 1
    /\ enc = "ok" =>
        /\ Len(written) = seq + 1
        /\ written[seq].body[2] = pos
        /\ written[seq + 1].type = FINAL
    /\ \A k \in 1 .. Len(written) :
        /\ written[k].type = DATA =>
            written[k].body[1] < written[k].body[2] /\ written[k].body[2] <= pos
        /\ written[k].type = FINAL =>
            k = Len(written) /\ written[k].body = <<pos, chunks>>

\* The reader has read so many records of it.
Read == IF dec \in {"header", "metadata"} THEN 0 ELSE next

\* What it has not read is what was written next.
Followed ==
    /\ dec # "failed"
    /\ heading = IF enc = "header" THEN "missing" ELSE "own"
    /\ Len(written) = Read + Len(tape)
    /\ \A k \in 1 .. Len(tape) : tape[k] = written[Read + k]
    /\ dec # "trailing" /\ dec # "ok" => count = next - 1
    /\ dec \in {"trailing", "ok"} => enc = "ok" /\ tape = <<>>

Alone == damage = 0 /\ password = "right"

AloneInv == enc # "failed" => Tallied /\ (Alone => Followed)

LEMMA AloneInit == Init => AloneInv
<1> SUFFICES ASSUME Init PROVE AloneInv
  OBVIOUS
<1>1. Len(written) = 0 /\ Len(tape) = 0
  BY EmptySeq DEF Init
<1> QED
  BY <1>1 DEF Init, AloneInv, Tallied, Alone, Followed, Read

\* The writer's side of a record.
LEMMA AloneWrites ==
    ASSUME TypeOK, StreamInv, enc \notin {"failed", "ok"}, AloneInv, NEW r \in Record, Write(r),
           UNCHANGED <<password, damage, decVars, heading>>, heading # "missing", enc' # "header"
    PROVE  Alone' => Followed'
<1> SUFFICES ASSUME Alone' PROVE Followed'
  OBVIOUS
<1>1. Alone /\ Followed /\ enc # "header"
  BY DEF AloneInv, Alone, StreamInv, EncoderPlace
<1>2. /\ Len(written) \in Nat /\ Len(written') = Len(written) + 1
      /\ \A k \in 1 .. Len(written) : written'[k] = written[k]
      /\ written'[Len(written) + 1] = r
  BY Growth
<1>3. /\ Len(tape) \in Nat /\ Len(tape') = Len(tape) + 1
      /\ \A k \in 1 .. Len(tape) : tape'[k] = tape[k]
      /\ tape'[Len(tape) + 1] = r
  BY AppendProperties, LenProperties DEF TypeOK, Write
<1>4. Read' = Read /\ Read \in Nat
  BY DEF Read, decVars, TypeOK
<1>5. dec \notin {"trailing", "ok"}
  BY <1>1 DEF Followed
<1>6. Len(written') = Read' + Len(tape')
  BY <1>1, <1>2, <1>3, <1>4 DEF Followed
<1>7. ASSUME NEW k \in 1 .. Len(tape') PROVE tape'[k] = written'[Read + k]
  <2>1. CASE k \in 1 .. Len(tape)
    <3>1. Read + k \in 1 .. Len(written)
      BY <1>1, <1>2, <1>3, <1>4, <2>1 DEF Followed
    <3> QED
      BY <1>1, <1>2, <1>3, <2>1, <3>1 DEF Followed
  <2>2. CASE k = Len(tape) + 1
    <3>1. Read + k = Len(written) + 1
      BY <1>1, <1>2, <1>3, <1>4, <2>2 DEF Followed
    <3> QED
      BY <1>2, <1>3, <2>2, <3>1
  <2> QED
    BY <1>3, <2>1, <2>2
<1> QED
  BY <1>1, <1>4, <1>5, <1>6, <1>7 DEF Followed, decVars

LEMMA WriterAlone ==
    ASSUME TypeOK, StreamInv, AloneInv, Encrypt \/ Stop
    PROVE  AloneInv'
<1>0. UNCHANGED <<size, password, damage, decVars>> /\ enc # "failed" /\ enc # "ok"
  BY DEF Encrypt, Stop, WriteHeader, WriteMetadata, WriteChunk, WriteFinal
<1>t. Tallied /\ (Alone => Followed)
  BY <1>0 DEF AloneInv
<1>n. Len(written) \in Nat /\ pos \in Nat /\ chunks \in Nat /\ seq \in Nat /\ size \in Nat
  BY LenProperties, StreamAssumption DEF TypeOK
<1>1. CASE enc' = "failed"
  BY <1>1 DEF AloneInv
<1>2. CASE WriteHeader
  <2>1. /\ enc = "header" /\ enc' = "metadata" /\ heading' = "own" /\ dec \in {"header", "failed"}
        /\ UNCHANGED <<size, password, pos, chunks, seq, written, tape, damage, decVars>>
    BY <1>2 DEF WriteHeader, StreamInv, EncoderPlace, ReaderPlace
  <2>2. Read' = Read
    BY <2>1 DEF Read, decVars
  <2> QED
    BY <1>t, <2>1, <2>2 DEF AloneInv, Tallied, Alone, Followed, decVars
<1>3. CASE WriteMetadata
  <2> DEFINE r == Sealed("own", METADATA, 0, <<0, 0>>)
  <2>1. r \in Record
    BY SealedType, StreamAssumption DEF METADATA
  <2>2. /\ enc = "metadata" /\ enc' = "chunks" /\ Write(r) /\ seq' = 1 /\ written = <<>>
        /\ UNCHANGED <<password, pos, chunks, heading, damage, decVars>> /\ pos = 0 /\ chunks = 0
    BY <1>3, <1>t DEF WriteMetadata, StreamInv, EncoderPlace, Tallied
  <2>3. Len(written') = 1 /\ written'[1] = r
    BY <2>1, <2>2, Growth, EmptySeq
  <2>4. r.type = METADATA
    BY DEF Sealed
  <2>5. Tallied'
    BY <2>2, <2>3, <2>4, StreamAssumption DEF Tallied, METADATA, DATA, FINAL
  <2>6. heading # "missing" \/ ~Alone
    BY <1>t, <2>2 DEF Followed
  <2>7. Alone' => Followed'
    BY <2>1, <2>2, <2>6, AloneWrites DEF Alone
  <2> QED
    BY <2>5, <2>7 DEF AloneInv
<1>4. CASE WriteChunk /\ enc' # "failed"
  <2> DEFINE filled == IF size - pos < ChunkSize THEN size - pos ELSE ChunkSize
             r == Sealed("own", DATA, seq, <<pos, pos + filled>>)
  <2>1. /\ enc = "chunks" /\ pos < size /\ Write(r) /\ Fits(filled)
        /\ pos' = pos + filled /\ chunks' = chunks + 1 /\ seq' = seq + 1
        /\ enc' = IF filled < ChunkSize THEN "final" ELSE "chunks"
        /\ UNCHANGED <<size, password, heading, damage, decVars>>
    BY <1>4 DEF WriteChunk
  <2>2. filled \in Nat \ {0} /\ (filled < ChunkSize \/ filled >= 2)
    BY <1>n, <2>1, StreamAssumption
  <2>3. seq \in 1 .. MaxWord /\ Len(written) = seq /\ seq = chunks + 1 /\ 2 * chunks <= pos
    BY <1>t, <2>1 DEF StreamInv, EncoderPlace, Tallied
  <2>4. r \in Record
    <3>1. DATA \in 1 .. 3 /\ seq \in 0 .. MaxWord /\ pos \in Nat /\ pos + filled \in Nat
      BY <1>n, <2>2, <2>3 DEF DATA
    <3> QED
      BY <3>1, SealedType
  <2>5. r.type = DATA /\ r.body[1] = pos /\ r.body[2] = pos + filled
    BY DEF Sealed
  <2>6. /\ Len(written') = Len(written) + 1
        /\ \A k \in 1 .. Len(written) : written'[k] = written[k]
        /\ written'[Len(written) + 1] = r
    BY <2>1, <2>4, Growth
  <2>7. seq + 1 <= MaxWord
    BY <2>1 DEF Fits
  <2>8. ASSUME NEW k \in 1 .. Len(written')
        PROVE  /\ written'[k].type = DATA =>
                    written'[k].body[1] < written'[k].body[2] /\ written'[k].body[2] <= pos'
               /\ written'[k].type # FINAL
    <3>1. CASE k \in 1 .. Len(written)
      <4>1. written[k] \in Record
        BY <3>1, ElementOfSeq DEF TypeOK
      <4>2. written[k].body[2] \in Nat
        BY <4>1 DEF Record
      <4>3. written[k].type # FINAL
        BY <2>1, <3>1 DEF StreamInv, WrittenInOrder
      <4>4. written[k].type = DATA =>
                written[k].body[1] < written[k].body[2] /\ written[k].body[2] <= pos
        BY <1>t, <3>1 DEF Tallied
      <4>5. written[k].body[2] <= pos => written[k].body[2] <= pos'
        BY <1>n, <2>1, <2>2, <4>2
      <4> QED
        BY <2>6, <3>1, <4>3, <4>4, <4>5
    <3>2. CASE k = Len(written) + 1
      <4>1. pos < pos + filled /\ pos + filled <= pos'
        BY <1>n, <2>1, <2>2
      <4> QED
        BY <2>5, <2>6, <3>2, <4>1 DEF DATA, FINAL
    <3> QED
      BY <1>n, <2>6, <3>1, <3>2
  <2>9. /\ seq' = chunks' + 1 /\ seq' \in 1 .. MaxWord
        /\ enc' = "chunks" => 2 * chunks' <= pos'
        /\ enc' = "final" => 2 * chunks' <= pos' + 1
    BY <1>n, <2>1, <2>2, <2>3, <2>7
  <2>10. Tallied'
    BY <2>1, <2>8, <2>9 DEF Tallied
  <2>11. heading # "missing" \/ ~Alone
    BY <1>t, <2>1 DEF Followed
  <2>12. Alone' => Followed'
    BY <2>1, <2>4, <2>11, AloneWrites DEF Alone
  <2> QED
    BY <2>10, <2>12 DEF AloneInv
<1>5. CASE WriteFinal
  <2> DEFINE r == Sealed("own", FINAL, seq, <<pos, chunks>>)
  <2>1. /\ enc \in {"chunks", "final"} /\ enc' = "ok" /\ Write(r)
        /\ UNCHANGED <<size, password, pos, chunks, seq, heading, damage, decVars>>
    BY <1>5 DEF WriteFinal
  <2>2. seq \in 1 .. MaxWord /\ Len(written) = seq /\ seq = chunks + 1 /\ 2 * chunks <= pos + 1
    BY <1>n, <1>t, <2>1 DEF StreamInv, EncoderPlace, Tallied
  <2>3. r \in Record
    <3>1. FINAL \in 1 .. 3 /\ seq \in 0 .. MaxWord
      BY <2>2 DEF FINAL
    <3> QED
      BY <1>n, <3>1, SealedType
  <2>4. r.type = FINAL /\ r.body = <<pos, chunks>>
    BY DEF Sealed
  <2>5. /\ Len(written') = Len(written) + 1
        /\ \A k \in 1 .. Len(written) : written'[k] = written[k]
        /\ written'[Len(written) + 1] = r
    BY <2>1, <2>3, Growth
  <2>6. ASSUME NEW k \in 1 .. Len(written')
        PROVE  /\ written'[k].type = DATA =>
                    written'[k].body[1] < written'[k].body[2] /\ written'[k].body[2] <= pos
               /\ written'[k].type = FINAL =>
                    k = Len(written') /\ written'[k].body = <<pos, chunks>>
    <3>1. CASE k \in 1 .. Len(written)
      <4>1. written[k].type # FINAL
        BY <1>0, <3>1 DEF StreamInv, WrittenInOrder
      <4> QED
        BY <1>t, <2>5, <3>1, <4>1 DEF Tallied
    <3>2. CASE k = Len(written) + 1
      BY <2>4, <2>5, <3>2 DEF DATA, FINAL
    <3> QED
      BY <1>n, <2>5, <3>1, <3>2
  <2>l. written'[seq].body[2] = pos /\ written'[seq + 1].type = FINAL
    <3>1. pos = written[seq].body[2]
      BY <2>1 DEF StreamInv, EncoderPlace
    <3> QED
      BY <2>2, <2>4, <2>5, <3>1
  <2>7. Tallied'
    BY <2>1, <2>2, <2>5, <2>6, <2>l DEF Tallied
  <2>8. heading # "missing" \/ ~Alone
    BY <1>t, <2>1 DEF Followed
  <2>9. Alone' => Followed'
    BY <2>1, <2>3, <2>8, AloneWrites DEF Alone
  <2> QED
    BY <2>7, <2>9 DEF AloneInv
<1> QED
  BY <1>1, <1>2, <1>3, <1>4, <1>5 DEF Encrypt, Stop

\* The counters of both ends have room for every record there is.
LEMMA RoomForAll ==
    ASSUME TypeOK, StreamInv, Tallied, enc # "failed"
    PROVE  Len(written) <= MaxWord
<1>1. pos \in 0 .. MaxWord /\ chunks \in 0 .. MaxWord /\ MaxWord \in Nat /\ MaxWord >= 5
  BY StreamAssumption DEF TypeOK
<1>2. CASE enc \in {"header", "metadata"}
  <2>1. Len(written) = 0
    BY <1>2, EmptySeq DEF StreamInv, EncoderPlace
  <2> QED
    BY <1>1, <2>1
<1>3. CASE enc \in {"chunks", "final"}
  BY <1>1, <1>3 DEF StreamInv, EncoderPlace
<1>4. CASE enc = "ok"
  <2>1. Len(written) = chunks + 1 + 1 /\ 2 * chunks <= pos + 1
    BY <1>4 DEF Tallied
  <2> QED
    BY <1>1, <2>1
<1> QED
  BY <1>2, <1>3, <1>4 DEF TypeOK

\* What a reader finds next in a stream left alone is the next record of it.
LEMMA HeadAlone ==
    ASSUME TypeOK, StreamInv, Followed, Alone, heading = "own", tape # <<>>
    PROVE  /\ Read + 1 \in 1 .. Len(written)
           /\ Head(tape) = written[Read + 1]
           /\ Head(tape).seq = Read
           /\ Opens(Head(tape))
           /\ Len(Tail(tape)) = Len(tape) - 1
           /\ \A k \in 1 .. Len(Tail(tape)) : Tail(tape)[k] = written[(Read + 1) + k]
<1>1. tape \in Seq(Record) /\ Len(tape) \in Nat /\ Len(written) \in Nat /\ Read \in Nat
  BY LenProperties DEF TypeOK, Read
<1>2. 1 \in 1 .. Len(tape) /\ Head(tape) = tape[1]
  BY <1>1, EmptySeq, HeadTailProperties
<1>3. Head(tape) = written[Read + 1] /\ Read + 1 \in 1 .. Len(written)
  BY <1>1, <1>2 DEF Followed
<1>4. Head(tape) = Sealed("own", Head(tape).type, Read, Head(tape).body)
  <2>1. written[Read + 1] =
          Sealed("own", written[Read + 1].type, (Read + 1) - 1, written[Read + 1].body)
    BY <1>3 DEF StreamInv, WrittenInOrder
  <2>2. (Read + 1) - 1 = Read
    BY <1>1
  <2> QED
    BY <1>3, <2>1, <2>2
<1>5. /\ Head(tape).seq = Read /\ Head(tape).intact
      /\ Head(tape).seal = Seal("right", "own", Head(tape).type, Read)
  <2> DEFINE r == Head(tape)
  <2>1. r = Sealed("own", r.type, Read, r.body)
    BY <1>4
  <2> HIDE DEF r
  <2>2. r.seq = Read /\ r.intact /\ r.seal = Seal("right", "own", r.type, Read)
    BY <2>1 DEF Sealed
  <2> QED
    BY <2>2 DEF r
<1>6. Opens(Head(tape))
  BY <1>5 DEF Opens, Alone
<1>7. /\ Len(Tail(tape)) = Len(tape) - 1
      /\ \A k \in 1 .. Len(Tail(tape)) : Tail(tape)[k] = tape[k + 1]
  BY <1>1, HeadTailProperties
<1>8. ASSUME NEW k \in 1 .. Len(Tail(tape))
      PROVE  Tail(tape)[k] = written[(Read + 1) + k]
  <2>1. k + 1 \in 1 .. Len(tape) /\ Read + (k + 1) = (Read + 1) + k
    BY <1>1, <1>7
  <2> QED
    BY <1>7, <2>1 DEF Followed
<1> QED
  BY <1>3, <1>5, <1>6, <1>7, <1>8

\* Taking it keeps the reader in step.
LEMMA TakenAlone ==
    ASSUME TypeOK, StreamInv, Followed, Alone, heading = "own", tape # <<>>, tape' = Tail(tape),
           UNCHANGED <<encVars, heading>>, Read' = Read + 1, dec' # "failed",
           dec' \notin {"trailing", "ok"} => count' = next' - 1,
           dec' \in {"trailing", "ok"} => enc = "ok" /\ Read + 1 = Len(written),
           enc # "header"
    PROVE  Followed'
<1>1. Len(tape) \in Nat /\ Len(written) \in Nat /\ Read \in Nat
  BY LenProperties DEF TypeOK, Read
<1>2. /\ Len(tape') = Len(tape) - 1
      /\ \A k \in 1 .. Len(tape') : tape'[k] = written'[Read' + k]
  BY HeadAlone DEF encVars
<1>3. Len(written') = Read' + Len(tape')
  BY <1>1, <1>2 DEF encVars, Followed
<1>4. dec' \in {"trailing", "ok"} => enc' = "ok" /\ tape' = <<>>
  <2> SUFFICES ASSUME dec' \in {"trailing", "ok"} PROVE enc' = "ok" /\ tape' = <<>>
    OBVIOUS
  <2>1. Len(tape') = 0
    BY <1>1, <1>2, <1>3 DEF encVars
  <2>2. tape' \in Seq(Record)
    BY HeadTailProperties DEF TypeOK
  <2> QED
    BY <2>1, <2>2, EmptySeq DEF encVars
<1>5. heading' = IF enc' = "header" THEN "missing" ELSE "own"
  BY DEF encVars
<1> QED
  BY <1>2, <1>3, <1>4, <1>5 DEF Followed

\* Left alone the reader has no reason to refuse: every record opens, no counter
\* overflows before the writer's did, and the totals agree.
LEMMA ReaderAlone ==
    ASSUME TypeOK, StreamInv, AloneInv, Decrypt
    PROVE  AloneInv'
<1>0. UNCHANGED <<encVars, heading, damage>>
  BY DEF Decrypt, ReadHeader, ReadMetadata, ReadData, ReadFinal, ReadInvalid, ReadTrailing
<1>a. Tallied => Tallied'
  BY <1>0 DEF encVars, Tallied
<1> SUFFICES ASSUME enc # "failed", Alone
             PROVE  Followed'
  BY <1>0, <1>a DEF AloneInv, Alone, encVars
<1>t. Tallied /\ Followed
  BY DEF AloneInv
<1>n. /\ Len(written) \in Nat /\ Len(tape) \in Nat /\ Len(written) <= MaxWord
      /\ written \in Seq(Record) /\ tape \in Seq(Record)
      /\ next \in Nat /\ total \in Nat /\ count \in Nat /\ seq \in Nat
      /\ pos \in 0 .. MaxWord /\ chunks \in Nat /\ MaxWord \in Nat
  BY <1>t, RoomForAll, LenProperties, StreamAssumption DEF TypeOK
<1>h. dec # "header" => heading = "own" /\ enc # "header"
  BY <1>t DEF Followed, StreamInv, ReaderPlace
<1>1. CASE ReadHeader
  <2>1. ~AtEnd \/ enc # "header"
    BY DEF AtEnd
  <2>2. dec = "header" /\ dec' = "metadata" /\ UNCHANGED <<tape, next, total, count, out>>
    BY <1>t, <1>1, <2>1 DEF ReadHeader, Followed
  <2>3. Read' = Read
    BY <2>2 DEF Read
  <2> QED
    BY <1>0, <1>t, <2>2, <2>3 DEF Followed, encVars
<1>2. CASE ReadMetadata
  <2>1. dec = "metadata" /\ heading = "own" /\ enc # "header" /\ Read = 0
    BY <1>2, <1>h DEF ReadMetadata, Read
  <2>2. ~AtEnd
    <3> SUFFICES ASSUME tape = <<>>, enc = "ok" PROVE FALSE
      BY DEF AtEnd
    <3>1. Len(tape) = 0
      BY EmptySeq
    <3> QED
      BY <1>n, <1>t, <2>1, <3>1 DEF Followed, Tallied
  <2>3. tape # <<>> /\ tape' = Tail(tape)
    BY <1>2, <2>2 DEF ReadMetadata
  <2>4. /\ 1 \in 1 .. Len(written) /\ Head(tape) = written[1]
        /\ Head(tape).seq = 0 /\ Opens(Head(tape))
    BY <1>t, <2>1, <2>3, HeadAlone
  <2>5. Head(tape).type = METADATA
    BY <2>4 DEF StreamInv, WrittenInOrder
  <2>6. dec' = "records" /\ UNCHANGED <<next, count>>
    BY <1>2, <2>2, <2>4, <2>5 DEF ReadMetadata
  <2>7. next = 1 /\ count = next - 1
    BY <1>t, <2>1 DEF StreamInv, ReaderPlace, Followed
  <2>8. Read' = Read + 1
    BY <2>1, <2>6, <2>7 DEF Read
  <2> QED
    BY <1>0, <1>t, <2>1, <2>3, <2>6, <2>7, <2>8, TakenAlone
<1>3. ASSUME dec = "records"
      PROVE  /\ heading = "own" /\ enc # "header" /\ Read = next /\ count = next - 1
             /\ next \in 1 .. Len(written) /\ total = written[next].body[2]
             /\ next > 1 => written[next].type = DATA
             /\ ~AtEnd
  <2>1. heading = "own" /\ enc # "header" /\ Read = next /\ count = next - 1
    BY <1>3, <1>h, <1>t DEF Read, Followed
  <2>2. next \in 1 .. Len(written) /\ total = written[next].body[2] /\ Len(out) = next - 1
    BY <1>3, <2>1 DEF StreamInv, ReaderPlace
  <2>3. next > 1 => written[next].type = DATA
    <3> SUFFICES ASSUME next > 1 PROVE written[next].type = DATA
      OBVIOUS
    <3>1. next - 1 \in 1 .. Len(out) /\ (next - 1) + 1 = next
      BY <1>n, <2>2
    <3> QED
      BY <2>1, <3>1 DEF StreamInv, ReaderPlace
  <2>4. ~AtEnd
    <3> SUFFICES ASSUME tape = <<>>, enc = "ok" PROVE FALSE
      BY DEF AtEnd
    <3>1. Len(written) = next
      BY <1>n, <1>t, <2>1, EmptySeq DEF Followed
    <3>2. next = seq + 1 /\ next > 1 /\ written[next].type = FINAL
      BY <1>n, <1>t, <3>1 DEF Tallied
    <3> QED
      BY <2>3, <3>2 DEF DATA, FINAL
  <2> QED
    BY <2>1, <2>2, <2>3, <2>4
<1>4. ASSUME dec = "records", tape # <<>>
      PROVE  /\ next + 1 \in 1 .. Len(written) /\ Head(tape) = written[next + 1]
             /\ Acceptable(Head(tape))
             /\ Head(tape).type = DATA =>
                  /\ Head(tape).body[1] = total /\ Head(tape).body[1] < Head(tape).body[2]
                  /\ Counted(Head(tape).body[2] - Head(tape).body[1])
             /\ Head(tape).type = FINAL =>
                  enc = "ok" /\ next + 1 = Len(written) /\ Head(tape).body = <<total, count>>
  <2> DEFINE r == Head(tape)
  <2>1. /\ next + 1 \in 1 .. Len(written) /\ r = written[next + 1] /\ r.seq = next /\ Opens(r)
    BY <1>t, <1>3, <1>4, HeadAlone
  <2>2. r \in Record /\ r.body[1] \in Nat /\ r.body[2] \in Nat
    <3>1. written[next + 1] \in Record
      BY <1>n, <2>1, ElementOfSeq
    <3> HIDE DEF r
    <3> QED
      BY <2>1, <3>1 DEF Record
  <2>3. r.type \in {DATA, FINAL}
    <3>1. next + 1 > 1
      BY <1>n, <1>4, <1>3
    <3> QED
      BY <2>1, <3>1 DEF StreamInv, WrittenInOrder
  <2>4. Acceptable(r)
    BY <1>n, <2>1, <2>3 DEF Acceptable
  <2>5. ASSUME r.type = DATA
        PROVE  /\ r.body[1] = total /\ r.body[1] < r.body[2]
               /\ Counted(r.body[2] - r.body[1])
    <3>1. r.body[1] = written[(next + 1) - 1].body[2]
      BY <2>1, <2>5 DEF StreamInv, WrittenInOrder
    <3>2. (next + 1) - 1 = next
      BY <1>n
    <3>3. r.body[1] = total
      BY <1>3, <1>4, <3>1, <3>2
    <3>4. r.body[1] < r.body[2] /\ r.body[2] <= pos
      BY <1>t, <2>1, <2>5 DEF Tallied
    <3> HIDE DEF r
    <3>5. total + (r.body[2] - r.body[1]) <= MaxWord
      BY <1>n, <2>2, <3>3, <3>4
    <3>6. count + 1 <= MaxWord
      BY <1>n, <1>3, <1>4, <2>1
    <3> QED
      BY <3>3, <3>4, <3>5, <3>6 DEF Counted
  <2>6. ASSUME r.type = FINAL
        PROVE  enc = "ok" /\ next + 1 = Len(written) /\ r.body = <<total, count>>
    <3>1. enc = "ok"
      BY <2>1, <2>6 DEF StreamInv, WrittenInOrder
    <3>2. next + 1 = Len(written) /\ r.body = <<pos, chunks>>
      BY <1>t, <2>1, <2>6 DEF Tallied
    <3>3. /\ Len(written) = seq + 1 /\ seq = chunks + 1 /\ written[seq].body[2] = pos
      BY <1>t, <3>1 DEF Tallied
    <3>4. seq = next /\ chunks = count
      BY <1>n, <1>3, <1>4, <3>2, <3>3
    <3> QED
      BY <1>3, <1>4, <3>1, <3>2, <3>3, <3>4
  <2> QED
    BY <2>1, <2>4, <2>5, <2>6
<1>5. CASE ReadData
  <2>1. /\ dec = "records" /\ tape # <<>> /\ Head(tape).type = DATA /\ next' = next + 1
        /\ tape' = Tail(tape)
    BY <1>5 DEF ReadData
  <2>2. Counted(Head(tape).body[2] - Head(tape).body[1])
    BY <1>4, <2>1
  <2>3. count' = count + 1 /\ dec' = "records"
    BY <1>5, <2>1, <2>2 DEF ReadData
  <2>4. Read' = Read + 1 /\ count' = next' - 1
    BY <1>n, <1>3, <2>1, <2>3 DEF Read
  <2> QED
    BY <1>0, <1>t, <1>3, <2>1, <2>3, <2>4, TakenAlone
<1>6. CASE ReadFinal
  <2>1. /\ dec = "records" /\ tape # <<>> /\ Head(tape).type = FINAL /\ next' = next + 1
        /\ tape' = Tail(tape)
    BY <1>6 DEF ReadFinal
  <2>2. enc = "ok" /\ next + 1 = Len(written) /\ Head(tape).body = <<total, count>>
    BY <1>4, <2>1
  <2>3. dec' = "trailing"
    BY <1>6, <2>2 DEF ReadFinal
  <2>4. Read' = Read + 1
    BY <1>3, <2>1, <2>3 DEF Read
  <2> QED
    BY <1>0, <1>t, <1>3, <2>1, <2>2, <2>3, <2>4, TakenAlone
<1>7. ~ReadInvalid
  <2> SUFFICES ASSUME ReadInvalid PROVE FALSE
    OBVIOUS
  <2>1. dec = "records" /\ tape # <<>>
    BY <1>3 DEF ReadInvalid
  <2>2. \/ ~Acceptable(Head(tape))
        \/ Head(tape).type = DATA /\ Head(tape).body[1] >= Head(tape).body[2]
    BY <1>3, <2>1 DEF ReadInvalid
  <2>3. Head(tape).body[1] \in Nat /\ Head(tape).body[2] \in Nat
    <3>1. written[next + 1] \in Record /\ Head(tape) = written[next + 1]
      BY <1>n, <1>4, <2>1, ElementOfSeq
    <3> QED
      BY <3>1 DEF Record
  <2> QED
    BY <1>4, <2>1, <2>2, <2>3
<1>8. CASE ReadTrailing
  <2>1. dec = "trailing" /\ tape = <<>>
    BY <1>8, <1>t DEF ReadTrailing, Followed
  <2>2. dec' = "ok" /\ UNCHANGED <<tape, next, total, count, out>>
    BY <1>8, <2>1 DEF ReadTrailing
  <2>3. Read' = Read
    BY <2>1, <2>2 DEF Read
  <2> QED
    BY <1>0, <1>t, <2>1, <2>2, <2>3 DEF Followed, encVars
<1> QED
  BY <1>1, <1>2, <1>5, <1>6, <1>7, <1>8 DEF Decrypt

LEMMA AloneNext == TypeOK /\ StreamInv /\ AloneInv /\ [Next]_vars => AloneInv'
<1> SUFFICES ASSUME TypeOK, StreamInv, AloneInv, [Next]_vars
             PROVE  AloneInv'
  OBVIOUS
<1>1. CASE Damage \/ IoError
  <2>1. UNCHANGED encVars /\ damage' = damage + 1 /\ damage \in Nat
    BY <1>1, StreamAssumption DEF Damage, IoError, TypeOK
  <2>2. damage' # 0
    BY <2>1
  <2>3. Tallied => Tallied'
    BY <2>1 DEF encVars, Tallied
  <2> QED
    BY <2>1, <2>2, <2>3 DEF AloneInv, Alone, encVars
<1>2. CASE UNCHANGED vars
  BY <1>2 DEF vars, encVars, decVars, AloneInv, Tallied, Alone, Followed, Read
<1> QED
  BY <1>1, <1>2, WriterAlone, ReaderAlone DEF Next, Over

\* A stream encrypt_stream completed and nothing changed is decrypted by the right
\* password: decrypt_to never refuses it, not even where the counters run out.
THEOREM StreamsRoundTrip == Spec => []RoundTrip
<1>1. TypeOK /\ AloneInv => RoundTrip
  <2> SUFFICES ASSUME TypeOK, AloneInv, dec = "failed", enc = "ok", ~(damage > 0),
                      password = "right"
               PROVE  FALSE
    BY DEF RoundTrip
  <2>1. damage = 0
    BY StreamAssumption DEF TypeOK
  <2> QED
    BY <2>1 DEF AloneInv, Alone, Followed
<1>2. TypeOK /\ StreamInv /\ AloneInv /\ [Next]_vars => AloneInv'
  BY AloneNext
<1> QED
  BY <1>1, <1>2, AloneInit, StreamInvariant, PTL DEF Spec
===============================================================================
