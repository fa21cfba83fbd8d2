----------------------------- MODULE StreamCrypto -----------------------------
(***************************************************************************)
(* The version 2 stream format (src/src/stream_crypto.rs): encrypt_stream  *)
(* writes a header and sealed records, a reader opens them one by one, and *)
(* between the two the stream may be truncated, damaged, reordered or      *)
(* mixed with another one. The two ends may run at once, as in a pipe.     *)
(*                                                                         *)
(* Plaintext bytes are named by their position: <<a, b>> stands for the    *)
(* bytes a+1 .. b. The cipher is symbolic: opening succeeds for exactly    *)
(* the key, nonce and associated data a record was sealed with.            *)
(***************************************************************************)
EXTENDS Naturals, Sequences

CONSTANTS
    ChunkSize,      \* DEFAULT_CHUNK_SIZE
    MaxWord,        \* the largest u64
    MaxSize,        \* bound on the plaintext
    MaxDamage,      \* bound on those changes and the reader's I/O errors
    Nonce(_, _)     \* derive_record_nonce: base nonce of a header, sequence

\* 64 KiB and 2^64 - 1 in the code. With these bounds, at the limit the total
\* overflows before a counter does, which RoundTrip relies on.
ASSUME StreamAssumption ==
    /\ ChunkSize \in Nat \ {0, 1}
    /\ {MaxWord, MaxSize, MaxDamage} \subseteq Nat
    /\ MaxWord >= 5

\* XOR with a fixed base is injective.
ASSUME NonceAssumption ==
    \A h \in {"own", "other"} : \A s, t \in 0 .. MaxWord :
        Nonce(h, s) = Nonce(h, t) => s = t

METADATA == 1
DATA == 2
FINAL == 3

VARIABLES
    size, password,             \* the plaintext, and the reader's password
    enc, pos, chunks, seq,      \* encrypt_stream: total_plaintext, chunk_count, sequence
    written,                    \* history: the records it has sealed, in order
    heading, tape,              \* the stream: its header, the records not yet read
    damage,                     \* changes made to it and I/O errors of the reader so far
    dec, next, total, count,    \* decrypt_to: next_sequence, total_plaintext, chunk_count
    out                         \* the plaintext handed to the writer

encVars == <<size, password, enc, pos, chunks, seq, written>>
decVars == <<dec, next, total, count, out>>
vars == <<encVars, heading, tape, damage, decVars>>

-------------------------------------------------------------------------------
(* Records. A field changed after sealing no longer agrees with the seal;  *)
(* a changed body, tag or length leaves the record not intact.             *)

Seal(pass, header, type, s) ==
    [key |-> <<pass, header>>, nonce |-> Nonce(header, s),
     aad |-> <<header, type, s>>]

Sealed(header, type, s, body) ==
    [type |-> type, seq |-> s, body |-> body, seal |-> Seal("right", header, type, s),
     intact |-> TRUE]

Fragment ==     \* the first bytes of a record
    [type |-> 0, seq |-> 0, body |-> <<0, 0>>, seal |-> Seal("right", "own", DATA, 0),
     intact |-> FALSE]

\* decrypt_record_body: nonce and data are rebuilt from what was read.
Opens(record) ==
    record.intact /\ record.seal = Seal(password, heading, record.type, record.seq)

\* The records of another stream under the same password.
Foreign ==
    {Sealed("other", METADATA, 0, <<0, 0>>), Sealed("other", DATA, 1, <<0, 1>>),
     Sealed("other", FINAL, 1, <<0, 0>>), Sealed("other", FINAL, 2, <<1, 1>>)}

-------------------------------------------------------------------------------
(* encrypt_stream.                                                         *)

Write(record) ==
    /\ written' = Append(written, record)
    /\ tape' = Append(tape, record)

WriteHeader ==
    /\ enc = "header"
    /\ heading' = "own"
    /\ enc' = "metadata"
    /\ UNCHANGED <<size, password, pos, chunks, seq, written, tape, damage, decVars>>

\* Faulty: the metadata record does not use up its sequence number.
WriteMetadataUncounted ==
    /\ enc = "metadata"
    /\ Write(Sealed("own", METADATA, 0, <<0, 0>>))
    /\ enc' = "chunks"
    /\ UNCHANGED <<size, password, pos, chunks, seq, heading, damage, decVars>>

WriteMetadata ==
    /\ enc = "metadata"
    /\ Write(Sealed("own", METADATA, 0, <<0, 0>>))
    /\ seq' = 1
    /\ enc' = "chunks"
    /\ UNCHANGED <<size, password, pos, chunks, heading, damage, decVars>>

\* checked_add of the three counters.
FitsUnchecked(filled) == filled > 0     \* faulty: plain additions
Fits(filled) == pos + filled <= MaxWord /\ chunks + 1 <= MaxWord /\ seq + 1 <= MaxWord

\* One turn of the loop: fill the buffer, or as much as is left; a short chunk
\* is the last. The counters are checked once the record is out.
WriteChunk ==
    /\ enc = "chunks"
    /\ pos < size
    /\ LET filled == IF size - pos < ChunkSize THEN size - pos ELSE ChunkSize
       IN  /\ Write(Sealed("own", DATA, seq, <<pos, pos + filled>>))
           /\ \/ /\ Fits(filled)
                 /\ pos' = pos + filled
                 /\ chunks' = chunks + 1
                 /\ seq' = seq + 1
                 /\ enc' = IF filled < ChunkSize THEN "final" ELSE "chunks"
              \/ /\ ~Fits(filled)
                 /\ enc' = "failed"
                 /\ UNCHANGED <<pos, chunks, seq>>
    /\ UNCHANGED <<size, password, heading, damage, decVars>>

WriteFinal ==
    /\ enc = "final" \/ (enc = "chunks" /\ pos = size)
    /\ Write(Sealed("own", FINAL, seq, <<pos, chunks>>))
    /\ enc' = "ok"
    /\ UNCHANGED <<size, password, pos, chunks, seq, heading, damage, decVars>>

\* A read or write error, or the end of the process, within a record or not.
Stop ==
    /\ enc \notin {"ok", "failed"}
    /\ enc' = "failed"
    /\ tape' \in {tape} \cup IF enc = "header" THEN {} ELSE {Append(tape, Fragment)}
    /\ UNCHANGED <<size, password, pos, chunks, seq, written, heading, damage, decVars>>

-------------------------------------------------------------------------------
(* What may happen to the stream between its ends.                         *)

Remove(i) == [j \in 1 .. Len(tape) - 1 |-> IF j < i THEN tape[j] ELSE tape[j + 1]]
Insert(i, record) ==
    [j \in 1 .. Len(tape) + 1 |->
        IF j < i THEN tape[j] ELSE IF j = i THEN record ELSE tape[j - 1]]

Altered(record) ==      \* one field of the record, or its sealed part
    {[record EXCEPT !.type = t] : t \in {METADATA, DATA, FINAL}} \cup
    {[record EXCEPT !.seq = s] : s \in 0 .. 3} \cup
    {[record EXCEPT !.intact = FALSE]}

Damage ==
    /\ damage < MaxDamage
    /\ heading # "missing"
    /\ dec \notin {"ok", "failed"}
    /\ damage' = damage + 1
    /\ \/ /\ heading = "own" /\ dec = "header"
          /\ heading' \in {"other", "malformed"}
          /\ UNCHANGED tape
       \/ /\ \E i \in 1 .. Len(tape) :
                \/ tape' = SubSeq(tape, 1, i - 1)
                \/ tape' = Append(SubSeq(tape, 1, i - 1), Fragment)
                \/ tape' = Remove(i)
                \/ \E record \in Altered(tape[i]) : tape' = [tape EXCEPT ![i] = record]
          /\ UNCHANGED heading
       \/ /\ \E i \in 1 .. Len(tape) + 1 :
                \E record \in Foreign \cup {written[k] : k \in 1 .. Len(written)} :
                    tape' = Insert(i, record)
          /\ UNCHANGED heading
    /\ UNCHANGED <<encVars, decVars>>

-------------------------------------------------------------------------------
(* StreamDecryptor::new and decrypt_to.                                    *)

AtEnd == tape = <<>> /\ enc \in {"ok", "failed"}

Reject == dec' = "failed" /\ UNCHANGED <<next, total, count, out>>

\* The prefix and the header: magic, version, limits; the key is derived.
ReadHeader ==
    /\ dec = "header"
    /\ \/ heading \in {"own", "other"} /\ dec' = "metadata" /\ UNCHANGED <<next, total, count, out>>
       \/ heading = "malformed" /\ Reject
       \/ heading = "missing" /\ AtEnd /\ Reject
    /\ UNCHANGED <<encVars, heading, tape, damage>>

ReadMetadata ==
    /\ dec = "metadata"
    /\ \/ AtEnd /\ Reject /\ UNCHANGED tape
       \/ /\ tape # <<>>
          /\ tape' = Tail(tape)
          /\ LET record == Head(tape)
                 valid == record.type = METADATA /\ record.seq = 0 /\ Opens(record)
             IN  \/ ~valid /\ Reject
                 \/ valid /\ dec' = "records" /\ UNCHANGED <<next, total, count, out>>
    /\ UNCHANGED <<encVars, heading, damage>>

\* read_next_record: the sequence first, then the type, then the seal.
AcceptableAnywhere(record) ==       \* faulty: the sequence is not compared
    record.type \in {DATA, FINAL} /\ Opens(record) /\ next + 1 <= MaxWord
Acceptable(record) ==
    /\ record.seq = next
    /\ record.type \in {DATA, FINAL}
    /\ Opens(record)
    /\ next + 1 <= MaxWord

CountedShort(length) == total + length < MaxWord /\ count + 1 < MaxWord   \* faulty
Counted(length) == total + length <= MaxWord /\ count + 1 <= MaxWord

ReadData ==
    /\ dec = "records" /\ tape # <<>>
    /\ LET record == Head(tape)
           length == record.body[2] - record.body[1]
       IN  /\ Acceptable(record) /\ record.type = DATA
           /\ record.body[1] < record.body[2]
           /\ out' = Append(out, record.body)
           /\ \/ /\ Counted(length)
                 /\ total' = total + length
                 /\ count' = count + 1
                 /\ UNCHANGED dec
              \/ ~Counted(length) /\ dec' = "failed" /\ UNCHANGED <<total, count>>
    /\ next' = next + 1
    /\ tape' = Tail(tape)
    /\ UNCHANGED <<encVars, heading, damage>>

ReadFinal ==
    /\ dec = "records" /\ tape # <<>>
    /\ LET record == Head(tape)
       IN  /\ Acceptable(record) /\ record.type = FINAL
           /\ dec' = IF record.body = <<total, count>> THEN "trailing" ELSE "failed"
    /\ next' = next + 1
    /\ tape' = Tail(tape)
    /\ UNCHANGED <<encVars, heading, damage, total, count, out>>

\* Faulty: at the end of the stream the read is tried again.
ReadInvalidRetrying ==
    /\ dec = "records"
    /\ \/ AtEnd /\ UNCHANGED <<tape, decVars>>
       \/ tape # <<>> /\ ~Acceptable(Head(tape)) /\ tape' = Tail(tape) /\ Reject
    /\ UNCHANGED <<encVars, heading, damage>>

\* Anything else: the end of the stream, a fragment, a record out of place,
\* one that does not open, or an empty chunk.
ReadInvalid ==
    /\ dec = "records"
    /\ \/ AtEnd /\ UNCHANGED tape
       \/ /\ tape # <<>>
          /\ LET record == Head(tape)
             IN  \/ ~Acceptable(record)
                 \/ record.type = DATA /\ record.body[1] >= record.body[2]
          /\ tape' = Tail(tape)
    /\ Reject
    /\ UNCHANGED <<encVars, heading, damage>>

\* After the final record not a byte may follow.
ReadTrailingIgnored ==      \* faulty: what follows is not read
    /\ dec = "trailing" /\ dec' = "ok"
    /\ UNCHANGED <<encVars, heading, tape, damage, next, total, count, out>>
ReadTrailing ==
    /\ dec = "trailing"
    /\ \/ tape # <<>> /\ Reject
       \/ AtEnd /\ dec' = "ok" /\ UNCHANGED <<next, total, count, out>>
    /\ UNCHANGED <<encVars, heading, tape, damage>>

\* A read of the stream or a write of the plaintext fails.
IoError ==
    /\ dec \notin {"ok", "failed"}
    /\ damage < MaxDamage
    /\ damage' = damage + 1
    /\ Reject
    /\ UNCHANGED <<encVars, heading, tape>>

-------------------------------------------------------------------------------
Init ==
    /\ size \in 0 .. MaxSize
    /\ password \in {"right", "wrong"}
    /\ enc = "header" /\ pos = 0 /\ chunks = 0 /\ seq = 0
    /\ written = <<>>
    /\ heading = "missing" /\ tape = <<>>
    /\ damage = 0
    /\ dec = "header" /\ next = 1 /\ total = 0 /\ count = 0
    /\ out = <<>>

Encrypt == WriteHeader \/ WriteMetadata \/ WriteChunk \/ WriteFinal
Decrypt == ReadHeader \/ ReadMetadata \/ ReadData \/ ReadFinal \/ ReadInvalid \/ ReadTrailing
Over == enc \in {"ok", "failed"} /\ dec \in {"ok", "failed"} /\ UNCHANGED vars

Next == Encrypt \/ Stop \/ Damage \/ Decrypt \/ IoError \/ Over

Spec == Init /\ [][Next]_vars

-------------------------------------------------------------------------------
Seals ==
    {Seal("right", h, t, s) : h \in {"own", "other"}, t \in 1 .. 3, s \in 0 .. MaxWord}

Record == [type : 0 .. 3, seq : 0 .. MaxWord, body : Nat \X Nat, seal : Seals,
           intact : BOOLEAN]

TypeOK ==
    /\ size \in 0 .. MaxSize
    /\ password \in {"right", "wrong"}
    /\ enc \in {"header", "metadata", "chunks", "final", "ok", "failed"}
    /\ {pos, chunks, seq} \subseteq 0 .. MaxWord
    /\ written \in Seq(Record)
    /\ heading \in {"missing", "own", "other", "malformed"}
    /\ tape \in Seq(Record)
    /\ damage \in 0 .. MaxDamage
    /\ dec \in {"header", "metadata", "records", "trailing", "ok", "failed"}
    /\ next \in 1 .. MaxWord
    /\ {total, count} \subseteq 0 .. MaxWord
    /\ out \in Seq(Nat \X Nat)

\* What a reader has been given is a prefix of the plaintext, in order and
\* without a gap, whatever was done to the stream (README, Streaming consumers).
\* A header replaced by another stream's makes it that stream.
PrefixOnly ==
    heading = "own" =>
        \A k \in 1 .. Len(out) : out[k][1] = (IF k = 1 THEN 0 ELSE out[k - 1][2])

\* Success is given for the whole plaintext and nothing after it.
SuccessIsWhole ==
    dec = "ok" /\ heading = "own" => total = size /\ tape = <<>> /\ enc = "ok"

\* A stream completed by encrypt_stream and left alone is decrypted: the limits
\* of the two ends agree, also where the counters run out.
RoundTrip ==
    dec = "failed" /\ enc = "ok" => damage > 0 \/ password # "right"

\* No two records of a stream are sealed with the same nonce.
NonceOnce ==
    \A j, k \in 1 .. Len(written) :
        written[j].seal.nonce = written[k].seal.nonce => j = k

Fairness == WF_vars(Encrypt) /\ WF_vars(Decrypt)
LiveSpec == Spec /\ Fairness

\* The reader comes to a verdict on every stream.
Decides == <>(dec \in {"ok", "failed"})
===============================================================================
