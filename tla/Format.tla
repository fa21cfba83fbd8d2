-------------------------------- MODULE Format --------------------------------
(***************************************************************************)
(* The headers of both stream versions: the layout and the limits of       *)
(* src/src/crypto.rs and src/src/stream_crypto.rs. A stream is its header  *)
(* fields, its size and what has become of its sealed part; it carries     *)
(* what its writer sealed as a history. The records of version 2 are the   *)
(* subject of StreamCrypto.                                                *)
(***************************************************************************)
EXTENDS Naturals

CONSTANTS
    Word,               \* u32 holds 0 .. Word - 1
    MinMemory, MaxMemory, MinIterations, MaxIterations,
    MinParallelism, MaxParallelism,
    MinChunk, MaxChunk, \* of a v2 header
    MaxLegacy           \* MAX_LEGACY_FILE_SIZE

\* In the code 8 * 8 is far below 2^32.
ASSUME FormatAssumption ==
    /\ {Word, MinMemory, MaxMemory, MinIterations, MaxIterations,
        MinParallelism, MaxParallelism, MaxLegacy} \subseteq Nat
    /\ MaxParallelism * 8 < Word

PREFIX == 9             \* magic and version
SALT == 16
NONCE == 12
TAG == 16
LEGACY_FIXED == PREFIX + 12 + 2     \* up to the filename
HEADER == PREFIX + 12 + 4 + SALT + NONCE
RECORD == 1 + 8 + 4
FINAL_BODY == 16

\* Offsets of a v1 file, see the table in crypto.rs.
FilenameEnd(name) == LEGACY_FIXED + name
CiphertextStart(name) == FilenameEnd(name) + SALT + NONCE
MINIMUM == CiphertextStart(0) + TAG

MetadataEnd(name) == HEADER + RECORD + 2 + name + TAG

-------------------------------------------------------------------------------
(* Argon2 parameters. *)

KdfParams == [memory : 0 .. Word - 1, iterations : 0 .. Word - 1, parallelism : 0 .. Word - 1]

\* A product that does not fit aborts the process (overflow-checks and panic of
\* Cargo.toml).
LanesFit(kdf) ==
    IF kdf.parallelism * 8 >= Word THEN "panicked"
    ELSE IF kdf.memory < kdf.parallelism * 8 THEN "InvalidFileFormat" ELSE "ok"

ValidateUnordered(kdf) ==   \* faulty: lanes are compared with the memory only
    IF \/ kdf.memory \notin MinMemory .. MaxMemory
       \/ kdf.iterations \notin MinIterations .. MaxIterations
    THEN "ResourceLimit"
    ELSE LanesFit(kdf)

\* validate_kdf_params: each range first, so that the product cannot overflow.
Validate(kdf) ==
    IF \/ kdf.memory \notin MinMemory .. MaxMemory
       \/ kdf.iterations \notin MinIterations .. MaxIterations
       \/ kdf.parallelism \notin MinParallelism .. MaxParallelism
    THEN "ResourceLimit"
    ELSE LanesFit(kdf)

\* What the program may spend on a header nobody has authenticated yet, and
\* what Argon2 accepts.
Bounded(kdf) ==
    /\ kdf.memory \in MinMemory .. MaxMemory
    /\ kdf.iterations \in MinIterations .. MaxIterations
    /\ kdf.parallelism \in MinParallelism .. MaxParallelism
    /\ 8 * kdf.parallelism <= kdf.memory

-------------------------------------------------------------------------------
(* Streams. *)

Fresh(header, size) ==
    [header |-> header, size |-> size, body |-> "intact",
     written |-> [header |-> header, size |-> size]]

\* create_encrypted_file_with_params, the writer of the v1 files in the wild.
WrittenLegacy(kdf, name, length) ==
    Fresh([magic |-> TRUE, version |-> 1, kdf |-> kdf, chunk |-> 0, name |-> name,
           utf8 |-> TRUE],
          CiphertextStart(name) + length + TAG)

\* encrypt_stream_with_params: one data record unless it is empty, a final one.
Written(kdf, chunk, name, length) ==
    Fresh([magic |-> TRUE, version |-> 2, kdf |-> kdf, chunk |-> chunk, name |-> name,
           utf8 |-> TRUE],
          MetadataEnd(name) + (IF length = 0 THEN 0 ELSE RECORD + length + TAG)
            + RECORD + FINAL_BODY + TAG)

\* What any writer has sealed: derive_key_from_password has let its parameters
\* pass, and the last record is there.
Sealed(written) ==
    LET header == written.header
    IN  /\ header.magic /\ header.utf8
        /\ Validate(header.kdf) = "ok"
        /\ \/ /\ header.version = 1
              /\ written.size >= CiphertextStart(header.name) + TAG
           \/ /\ header.version = 2
              /\ header.chunk \in MinChunk .. MaxChunk
              /\ written.size >= MetadataEnd(header.name) + RECORD + FINAL_BODY + TAG

Intact(s) == s.header = s.written.header /\ s.size = s.written.size /\ s.body = "intact"

(* StreamDecryptor::new, before the key. *)

Prefix(s) ==
    IF s.size < PREFIX \/ ~s.header.magic \/ s.header.version \notin {1, 2}
    THEN "InvalidFileFormat" ELSE "ok"

HeaderV2(s) ==
    IF s.size < HEADER THEN "InvalidFileFormat"
    ELSE IF s.header.chunk \notin MinChunk .. MaxChunk THEN "ResourceLimit" ELSE "ok"

TakenExactly(s) == IF s.size > MaxLegacy THEN MaxLegacy ELSE s.size    \* faulty: no byte beyond

\* new_legacy reads no further than one byte beyond the limit, to tell.
Taken(s) == IF s.size > MaxLegacy + 1 THEN MaxLegacy + 1 ELSE s.size
TooLarge(s) == Taken(s) > MaxLegacy

LegacyUnchecked(s) ==   \* faulty: the filename may reach beyond the file
    IF TooLarge(s) THEN "ResourceLimit"
    ELSE IF Taken(s) < MINIMUM \/ ~s.header.utf8 THEN "InvalidFileFormat" ELSE "ok"

\* new_legacy, then decrypt_file up to the slices.
Legacy(s) ==
    IF TooLarge(s) THEN "ResourceLimit"
    ELSE IF \/ Taken(s) < MINIMUM \/ Taken(s) < CiphertextStart(s.header.name) + TAG
            \/ ~s.header.utf8
    THEN "InvalidFileFormat" ELSE "ok"

\* A slice beyond the end panics.
InBounds(s) == CiphertextStart(s.header.name) <= Taken(s)

\* decrypt with the header as associated data, symbolic: what has been read must
\* be what was sealed, its version included.
OpensLegacy(s, password) == password = "right" /\ Intact(s) /\ Taken(s) = s.size
OpensMetadata(s, password) ==
    /\ password = "right"
    /\ s.header = s.written.header
    /\ s.body # "metadata"
    /\ s.size >= MetadataEnd(s.header.name)
===============================================================================
