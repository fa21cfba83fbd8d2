-------------------------------- MODULE Session --------------------------------
(***************************************************************************)
(* One process of Ironlock, from its command line to its exit status: run  *)
(* and the prompts of src/src/main.rs, the secrets it keeps meanwhile and  *)
(* the streams it reads. With file arguments the plan and the outputs are  *)
(* those of Batch, here only their success; without, stdin is the stream.  *)
(***************************************************************************)
EXTENDS SecretMemory, Format

CONSTANTS
    CommandLines,   \* what clap is given
    Current,        \* KdfParams::current
    Streams,        \* what a reader may find on its input
    None

Options == {"force", "shred", "output", "progress"}
SessionRegions == {"password", "confirm", "key"}

ASSUME SessionAssumption ==
    /\ Regions = SessionRegions
    /\ CommandLines \subseteq [op : {"none", "help", "encrypt", "decrypt"}, files : Nat,
                               options : SUBSET Options, terminal : BOOLEAN]
    /\ Current \in KdfParams /\ Validate(Current) = "ok"
    /\ \A s \in Streams :
        /\ s.header.kdf \in KdfParams /\ s.header.name \in Nat /\ s.size \in Nat
        /\ Sealed(s.written)
    /\ None \notin {0, 1, 2, "ok", "error"}

\* IronlockError: what a step may end with.
Errors ==
    {"FileNotFound", "InvalidExtension", "EncryptionFailed", "DecryptionFailed",
     "InvalidFileFormat", "IoError", "PasswordMismatch", "EmptyPassword", "NoInput",
     "NoFilesToProcess", "SecureDeletionFailed", "NotADirectory", "UnsafePath",
     "OutputCollision", "ResourceLimit", "BatchIncomplete", "Cancelled"}
PlanErrors ==
    {"FileNotFound", "InvalidExtension", "IoError", "NoFilesToProcess", "NotADirectory",
     "UnsafePath", "OutputCollision"}

VARIABLES
    command, pc,
    typed, same,        \* the password, and whether it was repeated
    left, failures,     \* items to do, items that failed
    error,              \* the error of the item at hand, or of run
    stream,             \* the input of the item at hand
    emitted,            \* how much of its plaintext has been handed out
    result,             \* how the last item ended
    work,               \* history: the parameters Argon2 has run with for it
    doomed, phase, after,   \* regions to drop, how far the next is, what follows
    exit                \* the exit status, None while running

dropping == <<doomed, phase, after>>
item == <<stream, emitted, result>>
vars == <<command, pc, typed, same, left, failures, error, item, work, dropping, exit, memory>>

encrypting == command.op = "encrypt"
Goto(label) == pc' = label
Quiet == UNCHANGED <<command, typed, same, left, work, exit>>

\* Leaving a scope drops its secrets, the last one declared first.
Scope == {r \in Regions : Live(r)}
Latest(regions) ==
    IF "key" \in regions THEN "key" ELSE IF "confirm" \in regions THEN "confirm" ELSE "password"

Leave(regions, label) ==
    /\ doomed' = regions
    /\ phase' = "clear"
    /\ after' = label
    /\ pc' = "drop"
    /\ UNCHANGED memory

\* The early returns of run before the loop.
Abort(e) ==
    /\ error' = e
    /\ failures' = failures + 1
    /\ Leave(Scope, "finish")
    /\ UNCHANGED item

\* An item ends, the others go on; on stdin there is only one.
Keys == Scope \cap {"key"}
ItemFails(e) ==
    /\ error' = e
    /\ failures' = failures + 1
    /\ result' = "error"
    /\ Leave(Keys, "item")
    /\ UNCHANGED <<stream, emitted>>
ItemSucceeds ==
    /\ result' = "ok"
    /\ Leave(Keys, "item")
    /\ UNCHANGED <<failures, error, stream>>

-------------------------------------------------------------------------------
(* The command line: cli.rs. *)

Allowed == IF encrypting THEN Options \ {"output"} ELSE Options \ {"shred"}

\* Every option requires files.
Usage ==
    \/ command.op = "none"
    \/ command.op \in {"encrypt", "decrypt"}
       /\ (~(command.options \subseteq Allowed) \/ (command.options # {} /\ command.files = 0))

Exit(status) ==
    /\ exit' = status
    /\ pc' = "exited"
    /\ UNCHANGED <<command, typed, same, left, failures, error, item, work, dropping, memory>>

Parse ==
    /\ pc = "parse"
    /\ \/ Usage /\ Exit(2)
       \/ command.op = "help" /\ Exit(0)
       \/ /\ ~Usage /\ command.op # "help"
          /\ Goto("inputs")
          /\ left' = IF command.files = 0 THEN 1 ELSE command.files
          /\ UNCHANGED <<command, typed, same, failures, error, item, work, dropping,
                         exit, memory>>

\* Before any prompt: stdin must be a pipe, or the plan must stand.
Inputs ==
    /\ pc = "inputs"
    /\ \/ command.files = 0 /\ command.terminal /\ Abort("NoInput")
       \/ command.files > 0 /\ \E e \in PlanErrors : Abort(e)
       \/ /\ command.files = 0 => ~command.terminal
          /\ Goto("prompt")
          /\ UNCHANGED <<failures, error, item, dropping, memory>>
    /\ Quiet

-------------------------------------------------------------------------------
(* The prompts of main.rs read the terminal. *)

Answer(text) == IF text = "" THEN {} ELSE {"text"}

Prompt ==
    /\ pc = "prompt"
    /\ \/ Abort("IoError") /\ UNCHANGED typed
       \/ \E text \in {"", "right", "wrong"} :
            /\ typed' = text
            /\ NewString("password", Answer(text))
            /\ Goto("validate")
            /\ UNCHANGED <<failures, error, item, dropping>>
    /\ UNCHANGED <<command, same, left, work, exit>>

ValidatePassword ==
    /\ pc = "validate"
    /\ \/ typed = "" /\ Abort("EmptyPassword")
       \/ /\ typed # ""
          /\ Goto(IF encrypting THEN "confirm" ELSE "item")
          /\ UNCHANGED <<failures, error, item, dropping, memory>>
    /\ Quiet

Confirm ==
    /\ pc = "confirm"
    /\ \/ Abort("IoError") /\ UNCHANGED same
       \/ /\ same' \in BOOLEAN
          /\ NewString("confirm", {"text"})
          /\ Goto("compare")
          /\ UNCHANGED <<failures, error, item, dropping>>
    /\ UNCHANGED <<command, typed, left, work, exit>>

Compare ==
    /\ pc = "compare"
    /\ \/ ~same /\ Abort("PasswordMismatch")
       \/ same /\ Leave({"confirm"}, "item") /\ UNCHANGED <<failures, error, item>>
    /\ Quiet

-------------------------------------------------------------------------------
(* The items: the loop of run, encrypt_stdin and decrypt_stdin. *)

\* What an item starts with: for files encryption chooses its output first,
\* decryption once the stream has told its filename.
Files == command.files > 0
Sealing == IF Files THEN "output" ELSE "derive"
Emitting == IF Files THEN "output" ELSE "emit"

Start ==
    /\ stream' \in IF encrypting THEN {None} ELSE Streams
    /\ emitted' = "nothing"
    /\ result' = None /\ error' = None /\ work' = None
    /\ Goto(IF encrypting THEN Sealing ELSE "prefix")
    /\ UNCHANGED <<dropping, memory>>

ItemRetry ==             \* faulty: an item that failed is tried again
    /\ pc = "item"
    /\ \/ /\ left = 0
          /\ Leave(Scope, "finish")
          /\ UNCHANGED <<item, left, failures, error, work>>
       \/ /\ left > 0
          /\ left' = IF result = "error" THEN left ELSE left - 1
          /\ failures' = IF result = "error" THEN failures - 1 ELSE failures
          /\ Start
    /\ UNCHANGED <<command, typed, same, exit>>

Item ==
    /\ pc = "item"
    /\ \/ /\ left = 0
          /\ Leave(Scope, "finish")
          /\ UNCHANGED <<item, left, error, work>>
       \/ /\ left > 0
          /\ left' = left - 1
          /\ Start
    /\ UNCHANGED <<command, typed, same, failures, exit>>

\* Reading the header ends the item, or goes on.
Judged(verdict, label) ==
    /\ \/ ItemFails("IoError")
       \/ verdict # "ok" /\ ItemFails(verdict)
       \/ /\ verdict = "ok"
          /\ Goto(label)
          /\ UNCHANGED <<failures, error, item, dropping, memory>>
    /\ Quiet

\* A file is opened and verified first (verified_source_file).
ReadPrefix ==
    /\ pc = "prefix"
    /\ \/ Judged(Prefix(stream), IF stream.header.version = 1 THEN "legacy" ELSE "header")
       \/ Files /\ (\E e \in {"FileNotFound", "UnsafePath"} : ItemFails(e)) /\ Quiet

ReadHeader ==
    /\ pc = "header"
    /\ Judged(HeaderV2(stream), "derive")

ReadLegacy ==
    /\ pc = "legacy"
    /\ Judged(Legacy(stream),
              IF Legacy(stream) = "ok" /\ ~InBounds(stream) THEN "panicked" ELSE "derive")

\* derive_key_from_password: the key's memory first, then Argon2. After a panic
\* nothing matters.
Derive ==
    LET kdf == IF encrypting THEN Current ELSE stream.header.kdf
    IN  /\ pc = "derive"
        /\ \/ Validate(kdf) \in Errors /\ ItemFails(Validate(kdf)) /\ UNCHANGED work
           \/ /\ Validate(kdf) \notin Errors
              /\ Zeroed("key")
              /\ work' = kdf
              /\ Goto(IF Validate(kdf) = "ok" THEN "hash" ELSE "panicked")
              /\ UNCHANGED <<failures, error, item, dropping>>
        /\ UNCHANGED <<command, typed, same, left, exit>>

Hash ==
    /\ pc = "hash"
    /\ \/ ItemFails("EncryptionFailed")
       \/ /\ Fill("key")
          /\ Goto(IF encrypting THEN "seal" ELSE "open")
          /\ UNCHANGED <<failures, error, item, dropping>>
    /\ Quiet

\* The output of a file: the names are compared, the source of an encryption is
\* verified, AtomicOutput::new looks at the destination and asks before it is
\* overwritten.
Output ==
    /\ pc = "output"
    /\ \/ \E e \in {"FileNotFound", "IoError", "UnsafePath", "OutputCollision"} : ItemFails(e)
       \/ /\ \/ "force" \notin command.options /\ Goto("overwrite")
             \/ Goto(IF encrypting THEN "derive" ELSE "emit")
          /\ UNCHANGED <<failures, error, item, dropping, memory>>
    /\ Quiet

Overwrite ==
    /\ pc = "overwrite"
    /\ \/ \E e \in {"Cancelled", "IoError", "UnsafePath"} : ItemFails(e)
       \/ /\ Goto(IF encrypting THEN "derive" ELSE "emit")
          /\ UNCHANGED <<failures, error, item, dropping, memory>>
    /\ Quiet

\* What a write to the output, its commit and the shredding may end with.
CommitErrors == {"IoError", "UnsafePath", "SecureDeletionFailed"}

\* encrypt_stream after the key, to its output.
Seal ==
    /\ pc = "seal"
    /\ \/ \E e \in CommitErrors \cup {"EncryptionFailed"} : ItemFails(e)
       \/ ItemSucceeds /\ emitted' = "whole"
    /\ Quiet

\* The metadata record, or the whole of a v1 file, whose key is dropped here.
Open ==
    /\ pc = "open"
    /\ IF stream.header.version = 1
       THEN \/ ~OpensLegacy(stream, typed) /\ ItemFails("DecryptionFailed")
            \/ /\ OpensLegacy(stream, typed)
               /\ Leave({"key"}, Emitting)
               /\ UNCHANGED <<failures, error, item>>
       ELSE \/ ~OpensMetadata(stream, typed)
               /\ \E e \in {"DecryptionFailed", "InvalidFileFormat", "ResourceLimit", "IoError"} :
                    ItemFails(e)
            \/ /\ OpensMetadata(stream, typed)
               /\ Goto(Emitting)
               /\ UNCHANGED <<failures, error, item, dropping, memory>>
    /\ Quiet

EmitUnsealed ==         \* faulty: a v2 stream without a final record will do
    /\ pc = "emit"
    /\ emitted' = "whole"
    /\ ItemSucceeds
    /\ Quiet

\* decrypt_to, and the commit of a file. Version 2 hands out
\* chunks as they open and may fail after any of them; see StreamCrypto.
Emit ==
    /\ pc = "emit"
    /\ \/ /\ Intact(stream)
          /\ emitted' = "whole"
          /\ ItemSucceeds
       \/ /\ emitted' \in IF stream.header.version = 1 THEN {"nothing"}
                          ELSE {"nothing", "part", "whole"}
          /\ error' \in CommitErrors
               \cup IF Intact(stream) THEN {}
                    ELSE {"DecryptionFailed", "InvalidFileFormat", "ResourceLimit"}
          /\ failures' = failures + 1
          /\ result' = "error"
          /\ Leave(Keys, "item")
          /\ UNCHANGED stream
    /\ Quiet

-------------------------------------------------------------------------------
DropClear ==
    /\ pc = "drop" /\ doomed # {} /\ phase = "clear"
    /\ Clear(Latest(doomed))
    /\ phase' = "unlock"
    /\ UNCHANGED <<pc, failures, error, item, doomed, after>>
    /\ Quiet

DropUnlock ==
    /\ pc = "drop" /\ doomed # {} /\ phase = "unlock"
    /\ Unlock(Latest(doomed))
    /\ phase' = "free"
    /\ UNCHANGED <<pc, failures, error, item, doomed, after>>
    /\ Quiet

DropFree ==
    /\ pc = "drop" /\ doomed # {} /\ phase = "free"
    /\ Free(Latest(doomed))
    /\ doomed' = doomed \ {Latest(doomed)}
    /\ phase' = "clear"
    /\ UNCHANGED <<pc, failures, error, item, after>>
    /\ Quiet

Dropped ==
    /\ pc = "drop" /\ doomed = {}
    /\ pc' = after
    /\ UNCHANGED <<failures, error, item, dropping, memory>>
    /\ Quiet

FinishLenient ==        \* faulty: a batch with one success is a success
    /\ pc = "finish"
    /\ Exit(IF failures = 0 \/ (command.files > failures) THEN 0 ELSE 1)

\* print_summary and main.
Finish ==
    /\ pc = "finish"
    /\ Exit(IF failures = 0 THEN 0 ELSE 1)

-------------------------------------------------------------------------------
Init ==
    /\ command \in CommandLines
    /\ pc = "parse"
    /\ typed = "" /\ same = FALSE
    /\ left = 0 /\ failures = 0
    /\ error = None
    /\ stream = None /\ emitted = "nothing" /\ result = None
    /\ work = None
    /\ doomed = {} /\ phase = "clear" /\ after = "parse"
    /\ exit = None
    /\ MemoryInit

Program ==
    \/ Parse \/ Inputs \/ Prompt \/ ValidatePassword \/ Confirm \/ Compare
    \/ Item \/ ReadPrefix \/ ReadHeader \/ ReadLegacy \/ Output \/ Overwrite \/ Derive \/ Hash
    \/ Seal \/ Open \/ Emit
    \/ DropClear \/ DropUnlock \/ DropFree \/ Dropped \/ Finish
Over == pc = "exited" /\ UNCHANGED vars

Next == Program \/ Over

\* Steps that wait for somebody: an answer at a prompt, or the other end of a
\* pipe.
Asking ==
    \/ pc \in {"prompt", "confirm", "overwrite"}
    \/ ~Files /\ pc \in {"prefix", "header", "legacy", "seal", "open", "emit"}

\* Nobody can be made to answer, or to go on writing or reading.
Spec == Init /\ [][Next]_vars /\ WF_vars(~Asking /\ Program)

-------------------------------------------------------------------------------
\* No pc is "panicked": every slice of a header lies within it, and no product
\* of its parameters overflows.
TypeOK ==
    /\ command \in CommandLines
    /\ pc \in {"parse", "inputs", "prompt", "validate", "confirm", "compare", "item",
               "prefix", "header", "legacy", "output", "overwrite", "derive", "hash",
               "seal", "open", "emit", "drop", "finish", "exited"}
    /\ typed \in {"", "right", "wrong"} /\ same \in BOOLEAN
    /\ left \in Nat /\ failures \in Nat
    /\ error \in Errors \cup {None}
    /\ stream \in Streams \cup {None}
    /\ emitted \in {"nothing", "part", "whole"}
    /\ result \in {None, "ok", "error"}
    /\ work \in KdfParams \cup {None}
    /\ doomed \subseteq Regions /\ phase \in {"clear", "unlock", "free"}
    /\ exit \in {None, 0, 1, 2}
    /\ MemoryTypeOK

\* Argon2 runs only with parameters within the limits, whatever the header of
\* an unauthenticated stream claims (README, Bounded parsing).
WorkBounded == work # None => Bounded(work)

\* Plaintext is handed out for the right password and the header as written
\* only; of a v1 stream all of it, or nothing; and success means nothing was
\* changed, so neither version passes for the other.
Authentic ==
    ~encrypting =>
        /\ emitted # "nothing" => typed = "right" /\ stream.header = stream.written.header
        /\ emitted # "nothing" /\ stream.header.version = 1 => emitted = "whole" /\ Intact(stream)
        /\ result = "ok" => typed = "right" /\ Intact(stream)

\* A stream its writer sealed is refused neither for its size nor for its
\* parameters, unless it is a v1 file beyond the limit: that one is refused as
\* too large, and never mistaken for a changed one because it was cut short.
Accepted ==
    result = "error" /\ ~encrypting /\ Intact(stream) /\ typed = "right" =>
        \/ error \in {"FileNotFound", "IoError", "EncryptionFailed", "UnsafePath", "OutputCollision",
                      "SecureDeletionFailed", "Cancelled"}
        \/ error = "ResourceLimit" /\ stream.header.version = 1 /\ stream.size > MaxLegacy

\* When the process ends no secret is left in its memory, on whatever path.
SecretsGone ==
    /\ NothingLeft
    /\ exit # None => \A r \in Regions : ~Live(r)

\* README, Exit Status: 0 if everything requested has been done, 2 for a command
\* line that is not valid and nothing else, 1 for the rest.
ExitStatus ==
    /\ exit = 0 => command.op = "help" \/ (failures = 0 /\ left = 0 /\ result = "ok")
    /\ exit = 2 <=> exit # None /\ Usage
    /\ exit = 1 => failures > 0

\* The process comes to an end, unless it waits for ever for an answer or for the
\* other end of a pipe.
Ends == <>(exit # None) \/ <>[]Asking
===============================================================================
