---------------------------- MODULE SessionProofs -----------------------------
(***************************************************************************)
(* Proofs about Session, for any command lines, streams, limits, word size *)
(* and layout of the secrets in memory.                                    *)
(***************************************************************************)
EXTENDS Session, TLAPS

-------------------------------------------------------------------------------
(* The work is bounded.                                                    *)

\* The product in validate_kdf_params cannot overflow once the ranges have been
\* checked.
LEMMA NoOverflow == \A kdf : Validate(kdf) # "panicked"
<1> SUFFICES ASSUME NEW kdf, kdf.parallelism \in MinParallelism .. MaxParallelism
             PROVE  ~(kdf.parallelism * 8 >= Word)
  BY DEF Validate, LanesFit
<1> QED
  BY FormatAssumption

\* Parameters that pass validate_kdf_params are within the limits.
LEMMA ValidBounded ==
    ASSUME NEW kdf, Validate(kdf) = "ok"
    PROVE  Bounded(kdf)
<1>1. /\ kdf.memory \in MinMemory .. MaxMemory
      /\ kdf.iterations \in MinIterations .. MaxIterations
      /\ kdf.parallelism \in MinParallelism .. MaxParallelism
      /\ ~(kdf.memory < kdf.parallelism * 8)
  BY DEF Validate, LanesFit
<1> QED
  BY <1>1, FormatAssumption DEF Bounded

\* What is not refused is accepted.
LEMMA Accepts == \A kdf : Validate(kdf) \notin Errors => Validate(kdf) = "ok"
  BY NoOverflow DEF Validate, LanesFit, Errors

\* Only Derive runs Argon2.
LEMMA WorkStep == WorkBounded /\ [Next]_vars => WorkBounded'
<1> SUFFICES ASSUME WorkBounded, [Next]_vars PROVE WorkBounded'
  OBVIOUS
<1>1. CASE Derive
  BY <1>1, ValidBounded, Accepts DEF Derive, WorkBounded, ItemFails
<1>2. CASE Item
  BY <1>2 DEF Item, Start, WorkBounded
<1>3. CASE UNCHANGED work
  BY <1>3 DEF WorkBounded
<1>4. Derive \/ Item \/ UNCHANGED work
  BY DEF Next, Program, vars, Parse, Exit, Inputs, Quiet, ValidatePassword, Compare, ReadPrefix,
         ReadHeader, ReadLegacy, Judged, Output, Overwrite, Hash, Seal, Open, Emit, DropClear,
         DropUnlock, DropFree, Dropped, Finish, Prompt, Confirm, Over
<1> QED
  BY <1>1, <1>2, <1>3, <1>4

\* Whatever an unauthenticated header claims, Argon2 runs only with parameters
\* within the limits (validate_kdf_params before derive_key_from_password).
THEOREM BoundedWork == Spec => []WorkBounded
<1>1. Init => WorkBounded
  BY DEF Init, WorkBounded
<1> QED
  BY <1>1, WorkStep, PTL DEF Spec

-------------------------------------------------------------------------------
(* The exit status.                                                        *)

\* At a label, or on the way to it.
At(label) == pc = label \/ (pc = "drop" /\ after = label)

\* An exit status of 0 needs the count: the items left and the failures are those
\* of the loop, and an item that did not fail succeeded.
Counted ==
    /\ command \in CommandLines
    /\ failures \in Nat /\ left \in Nat
    /\ pc = "drop" => after \in {"item", "emit", "output", "finish"}
    /\ exit # None <=> pc = "exited"
    /\ pc \notin {"parse", "exited"} => ~Usage /\ command.op # "help"
    /\ pc \in {"inputs", "prompt", "validate", "confirm", "compare"} => left > 0
    /\ At("item") /\ failures = 0 => left > 0 \/ result = "ok"
    /\ At("finish") /\ failures = 0 => left = 0 /\ result = "ok"
    /\ ExitStatus

\* No item and no exit status is mistaken for a result.
LEMMA NoneDiffers == None # 0 /\ None # 1 /\ None # 2 /\ None # "ok"
  BY SessionAssumption

\* Nothing has been counted yet.
LEMMA CountedInit == Init => Counted
<1> SUFFICES ASSUME Init PROVE Counted
  OBVIOUS
<1>1. exit = None /\ pc = "parse" /\ failures = 0 /\ left = 0 /\ command \in CommandLines
  BY DEF Init
<1>2. ExitStatus
  BY <1>1, NoneDiffers DEF ExitStatus
<1> QED
  BY <1>1, <1>2 DEF Counted, At

\* The program runs on: neither its command nor its exit status changes.
Running == pc \notin {"parse", "exited"} /\ UNCHANGED <<command, exit>>

\* Whether the command line is valid does not change.
LEMMA UsageFixed == UNCHANGED command => (Usage <=> Usage')
  BY DEF Usage, Allowed, encrypting

\* A step that goes on leaves the exit status alone.
LEMMA RunningExit ==
    ASSUME Counted, Running
    PROVE  /\ ExitStatus' /\ exit' = None
           /\ ~Usage' /\ command'.op # "help" /\ command' \in CommandLines
  BY UsageFixed, NoneDiffers DEF Counted, Running, ExitStatus

\* An early return is a failure, and leads to Finish.
LEMMA AbortCounted ==
    ASSUME Counted, Running, UNCHANGED left, NEW e, Abort(e)
    PROVE  Counted'
  BY RunningExit DEF Abort, Leave, Counted, At

\* A failed item is counted.
LEMMA ItemFailsCounted ==
    ASSUME Counted, Running, UNCHANGED left, NEW e, ItemFails(e)
    PROVE  Counted'
  BY RunningExit DEF ItemFails, Leave, Counted, At

\* An item that succeeds says so.
LEMMA ItemSucceedsCounted ==
    ASSUME Counted, Running, UNCHANGED left, ItemSucceeds
    PROVE  Counted'
  BY RunningExit DEF ItemSucceeds, Leave, Counted, At

\* On to a step that judges nothing.
LEMMA OnCounted ==
    ASSUME Counted, Running, UNCHANGED <<left, failures>>,
           pc' \notin {"exited", "drop", "item", "finish"},
           pc' \in {"inputs", "prompt", "validate", "confirm", "compare"} =>
             pc \in {"inputs", "prompt", "validate", "confirm"}
    PROVE  Counted'
  BY RunningExit DEF Counted, At

\* A usage error ends the process, anything else has an item to do.
LEMMA ParseCounted == Counted /\ Parse => Counted'
<1> SUFFICES ASSUME Counted, Parse PROVE Counted'
  OBVIOUS
<1>0. pc = "parse" /\ exit = None /\ UNCHANGED command
  BY DEF Counted, Parse, Exit
<1>1. CASE Usage /\ Exit(2)
  BY <1>0, <1>1, UsageFixed, NoneDiffers DEF Exit, Counted, At, ExitStatus
<1>2. CASE command.op = "help" /\ Exit(0)
  <2>1. ~Usage
    BY <1>2 DEF Usage
  <2> QED
    BY <1>0, <1>2, <2>1, UsageFixed, NoneDiffers DEF Exit, Counted, At, ExitStatus
<1>3. CASE ~Usage /\ command.op # "help" /\ Goto("inputs")
  <2>1. command.files \in Nat
    BY SessionAssumption DEF Counted
  <2>2. left' \in Nat /\ left' > 0 /\ failures' = failures /\ exit' = None
    BY <1>0, <1>3, <2>1 DEF Parse, Goto, Exit
  <2>3. ExitStatus'
    BY <2>2, NoneDiffers DEF ExitStatus
  <2> QED
    BY <1>0, <1>3, <2>2, <2>3, UsageFixed DEF Goto, Counted, At
<1> QED
  BY <1>1, <1>2, <1>3 DEF Parse

\* The loop ends when no item is left, and takes one otherwise.
LEMMA ItemCounted == Counted /\ Item => Counted'
<1> SUFFICES ASSUME Counted, Item PROVE Counted'
  OBVIOUS
<1>0. Running
  BY DEF Item, Running
<1>1. CASE left = 0 /\ Leave(Scope, "finish") /\ UNCHANGED <<item, left, failures>>
  BY <1>0, <1>1, RunningExit DEF Item, Leave, item, Counted, At
<1>2. CASE left > 0 /\ left' = left - 1 /\ pc' \in {"derive", "output", "prefix"}
           /\ UNCHANGED failures
  BY <1>0, <1>2, RunningExit DEF Counted, At
<1> QED
  BY <1>1, <1>2 DEF Item, Start, Sealing, Goto

\* Dropping secrets counts nothing.
LEMMA DropCounted ==
    ASSUME Counted, DropClear \/ DropUnlock \/ DropFree \/ Dropped
    PROVE  Counted'
<1>0. Running /\ UNCHANGED <<left, failures, result, after>>
  BY DEF DropClear, DropUnlock, DropFree, Dropped, Quiet, item, dropping, Running
<1>3. ExitStatus' /\ exit' = None /\ ~Usage' /\ command'.op # "help" /\ command' \in CommandLines
  BY <1>0, RunningExit
<1>1. CASE pc' = pc
  BY <1>0, <1>1, <1>3 DEF Counted, At, Running
<1>2. CASE Dropped
  BY <1>0, <1>2, RunningExit DEF Dropped, Counted, At
<1> QED
  BY <1>1, <1>2 DEF DropClear, DropUnlock, DropFree

\* The exit status follows the failures.
LEMMA FinishCounted == Counted /\ Finish => Counted'
<1> SUFFICES ASSUME Counted, Finish PROVE Counted'
  OBVIOUS
<1>1. /\ pc = "finish" /\ pc' = "exited" /\ UNCHANGED <<command, left, failures, result, after>>
      /\ exit' = IF failures = 0 THEN 0 ELSE 1
  BY DEF Finish, Exit, item, dropping
<1>2. ~Usage' /\ command'.op # "help"
  BY <1>1, UsageFixed DEF Counted
<1>3. ExitStatus'
  BY <1>1, <1>2 DEF ExitStatus, Counted, At
<1> QED
  BY <1>1, <1>3, NoneDiffers DEF Counted, At

\* The last step of a decryption succeeds or is counted as a failure.
LEMMA EmitCounted == Counted /\ Emit => Counted'
<1> SUFFICES ASSUME Counted, Emit PROVE Counted'
  OBVIOUS
<1>1. Running /\ UNCHANGED left
  BY DEF Emit, Quiet, Running
<1>2. CASE ItemSucceeds
  BY <1>1, <1>2, ItemSucceedsCounted
<1>3. CASE failures' = failures + 1 /\ Leave(Keys, "item")
  BY <1>1, <1>3, RunningExit DEF Leave, Counted, At
<1> QED
  BY <1>2, <1>3 DEF Emit

\* A header is accepted or the item fails.
LEMMA JudgedCounted ==
    ASSUME Counted, Running, NEW verdict, NEW label \in {"legacy", "header", "derive", "panicked"},
           Judged(verdict, label)
    PROVE  Counted'
<1>1. UNCHANGED left
  BY DEF Judged, Quiet
<1>2. CASE \E e : ItemFails(e)
  BY <1>1, <1>2, ItemFailsCounted
<1>3. CASE Goto(label) /\ UNCHANGED failures
  BY <1>1, <1>3, OnCounted DEF Goto
<1> QED
  BY <1>2, <1>3 DEF Judged

\* Every step keeps the count.
LEMMA CountedStep == Counted /\ [Next]_vars => Counted'
<1> SUFFICES ASSUME Counted, [Next]_vars PROVE Counted'
  OBVIOUS
<1>1. CASE Parse
  BY <1>1, ParseCounted
<1>2. CASE Inputs
  <2>1. Running /\ UNCHANGED left
    BY <1>2 DEF Inputs, Quiet, Running
  <2>2. CASE \E e : Abort(e)
    BY <2>1, <2>2, AbortCounted
  <2>3. CASE Goto("prompt") /\ UNCHANGED failures
    BY <1>2, <2>1, <2>3, OnCounted DEF Goto, Inputs
  <2> QED
    BY <1>2, <2>2, <2>3 DEF Inputs
<1>3. CASE Prompt
  <2>1. Running /\ UNCHANGED left
    BY <1>3 DEF Prompt, Running
  <2>2. CASE \E e : Abort(e)
    BY <2>1, <2>2, AbortCounted
  <2>3. CASE Goto("validate") /\ UNCHANGED failures
    BY <1>3, <2>1, <2>3, OnCounted DEF Goto, Prompt
  <2> QED
    BY <1>3, <2>2, <2>3 DEF Prompt
<1>4. CASE ValidatePassword
  <2>1. Running /\ UNCHANGED left /\ pc = "validate"
    BY <1>4 DEF ValidatePassword, Quiet, Running
  <2>2. CASE \E e : Abort(e)
    BY <2>1, <2>2, AbortCounted
  <2>3. CASE pc' \in {"confirm", "item"} /\ UNCHANGED <<failures, item, dropping>>
    BY <2>1, <2>3, RunningExit DEF Counted, At
  <2> QED
    BY <1>4, <2>2, <2>3 DEF ValidatePassword, Goto
<1>5. CASE Confirm
  <2>1. Running /\ UNCHANGED left
    BY <1>5 DEF Confirm, Running
  <2>2. CASE \E e : Abort(e)
    BY <2>1, <2>2, AbortCounted
  <2>3. CASE Goto("compare") /\ UNCHANGED failures
    BY <1>5, <2>1, <2>3, OnCounted DEF Goto, Confirm
  <2> QED
    BY <1>5, <2>2, <2>3 DEF Confirm
<1>6. CASE Compare
  <2>1. Running /\ UNCHANGED left /\ pc = "compare"
    BY <1>6 DEF Compare, Quiet, Running
  <2>2. CASE \E e : Abort(e)
    BY <2>1, <2>2, AbortCounted
  <2>3. CASE Leave({"confirm"}, "item") /\ UNCHANGED failures
    BY <2>1, <2>3, RunningExit DEF Leave, Counted, At
  <2> QED
    BY <1>6, <2>2, <2>3 DEF Compare
<1>7. CASE Item
  BY <1>7, ItemCounted
<1>8. CASE ReadPrefix \/ ReadHeader \/ ReadLegacy
  <2>1. Running /\ UNCHANGED left
    BY <1>8 DEF ReadPrefix, ReadHeader, ReadLegacy, Judged, Quiet, Running
  <2>2. CASE \E e : ItemFails(e)
    BY <2>1, <2>2, ItemFailsCounted
  <2> QED
    BY <1>8, <2>1, <2>2, JudgedCounted DEF ReadPrefix, ReadHeader, ReadLegacy
<1>9. CASE Output \/ Overwrite \/ Derive \/ Hash \/ Seal \/ Open
  <2>1. Running /\ UNCHANGED left
    BY <1>9 DEF Output, Overwrite, Derive, Hash, Seal, Open, Quiet, Running
  <2>2. CASE \E e : ItemFails(e)
    BY <2>1, <2>2, ItemFailsCounted
  <2>3. CASE ItemSucceeds
    BY <2>1, <2>3, ItemSucceedsCounted
  <2>4. CASE Leave({"key"}, Emitting) /\ UNCHANGED failures
    BY <2>1, <2>4, RunningExit DEF Leave, Emitting, Counted, At
  <2>5. CASE /\ pc' \in {"output", "overwrite", "derive", "hash", "seal", "open", "emit"}
             /\ UNCHANGED failures
    BY <2>1, <2>5, OnCounted
  <2> QED
    BY <1>9, <2>2, <2>3, <2>4, <2>5, Accepts
    DEF Output, Overwrite, Derive, Hash, Seal, Open, Emitting, Goto
<1>10. CASE Emit
  BY <1>10, EmitCounted
<1>11. CASE DropClear \/ DropUnlock \/ DropFree \/ Dropped
  BY <1>11, DropCounted
<1>12. CASE Finish
  BY <1>12, FinishCounted
<1>13. CASE UNCHANGED vars
  BY <1>13, UsageFixed DEF vars, item, dropping, Counted, At, ExitStatus
<1> QED
  BY <1>1, <1>2, <1>3, <1>4, <1>5, <1>6, <1>7, <1>8, <1>9, <1>10, <1>11, <1>12, <1>13
  DEF Next, Program, Over

\* README, Exit Status: 0 only if everything requested has been done, 2 for an
\* invalid command line and nothing else, 1 for the rest (run, main).
THEOREM TrueExitStatus == Spec => []ExitStatus
<1>1. Counted => ExitStatus
  BY DEF Counted
<1> QED
  BY <1>1, CountedInit, CountedStep, PTL DEF Spec

-------------------------------------------------------------------------------
(* Plaintext.                                                              *)

\* Until an item hands out plaintext, or ends, there is nothing to check.
Prompting == pc \in {"parse", "inputs", "prompt", "validate", "confirm", "compare"}
Reading == pc \in {"prefix", "header", "legacy", "derive", "hash", "open"}
\* What is handed out has been opened.
Opened ==
    /\ typed = "right"
    /\ stream.header = stream.written.header
    /\ stream.header.version = 1 => Intact(stream)

\* Where an opened stream waits for its output, or to be handed out.
Handing == At("emit") \/ At("output") \/ pc = "overwrite"

\* Emit is reached for an opened stream only.
AuthInv ==
    /\ pc = "drop" => after \in {"item", "emit", "output", "finish"}
    /\ ~encrypting =>
        /\ pc # "seal"
        /\ Prompting \/ Reading \/ Handing => emitted = "nothing" /\ result = None
        /\ Handing => Opened
    /\ Authentic

\* Nothing has been handed out.
LEMMA AuthInit == Init => AuthInv
  BY NoneDiffers DEF Init, AuthInv, Authentic, Prompting, Reading, Handing, At

\* An item or the program fails, nothing more is handed out.
LEMMA FailAuth ==
    ASSUME AuthInv, UNCHANGED <<command, stream, emitted>>, 
           typed' = typed \/ pc = "prompt",
           result' \in {"error"} \/ result' = result, pc' = "drop", after' \in {"item", "finish"}
    PROVE  AuthInv'
  BY NoneDiffers DEF AuthInv, Authentic, Prompting, Reading, Handing, At, encrypting, Intact, Opened

\* A step that hands nothing out.
LEMMA OnAuth ==
    ASSUME AuthInv, UNCHANGED <<command, stream, emitted, result>>,
           typed' = typed \/ pc = "prompt", pc' # "emit", pc' # "drop",
           ~encrypting => pc' \notin {"seal", "emit", "output", "overwrite"},
           (Prompting \/ Reading)' => Prompting \/ Reading
    PROVE  AuthInv'
  BY NoneDiffers DEF AuthInv, Authentic, Prompting, Reading, Handing, At, encrypting, Intact, Opened

\* Encryption does not hand out plaintext.
LEMMA EncryptingAuth ==
    ASSUME encrypting, UNCHANGED command, pc' = "drop", after' \in {"item", "emit", "output", "finish"}
    PROVE  AuthInv'
  BY DEF AuthInv, Authentic, encrypting

\* A program that fails, or one of its items.
LEMMA AbortAuth ==
    ASSUME AuthInv, NEW e, Abort(e), UNCHANGED command, typed' = typed \/ pc = "prompt"
    PROVE  AuthInv'
  BY FailAuth DEF Abort, Leave, item

\* An item fails.
LEMMA ItemFailsAuth ==
    ASSUME AuthInv, NEW e, ItemFails(e), UNCHANGED <<command, typed>>
    PROVE  AuthInv'
  BY FailAuth DEF ItemFails, Leave

\* Reading a header hands nothing out.
LEMMA JudgedAuth ==
    ASSUME AuthInv, Reading, NEW verdict, NEW label \in {"legacy", "header", "derive", "panicked"},
           Judged(verdict, label)
    PROVE  AuthInv'
<1>1. UNCHANGED <<command, typed>>
  BY DEF Judged, Quiet
<1>2. CASE \E e : ItemFails(e)
  BY <1>1, <1>2, ItemFailsAuth
<1>3. CASE Goto(label) /\ UNCHANGED item
  BY <1>1, <1>3, OnAuth DEF Goto, item
<1> QED
  BY <1>2, <1>3 DEF Judged

\* The prompts.
LEMMA StartAuth ==
    ASSUME AuthInv, Parse \/ Inputs \/ Prompt \/ ValidatePassword \/ Confirm \/ Compare
    PROVE  AuthInv'
<1>1. UNCHANGED <<command, stream, emitted, result>> /\ (typed' = typed \/ pc = "prompt")
  BY DEF Parse, Exit, Inputs, Prompt, ValidatePassword, Confirm, Compare, Abort, Quiet, item
<1>2. CASE \E e : Abort(e)
  BY <1>1, <1>2, AbortAuth
<1>3. CASE pc' \in {"inputs", "prompt", "validate", "confirm", "compare", "item", "exited"}
           /\ pc \in {"parse", "inputs", "prompt", "validate", "confirm", "compare"}
  BY <1>1, <1>3, OnAuth DEF Prompting, Reading
<1>4. CASE Leave({"confirm"}, "item")
  BY <1>1, <1>4, FailAuth DEF Leave
<1> QED
  BY <1>2, <1>3, <1>4
  DEF Parse, Exit, Inputs, Prompt, ValidatePassword, Confirm, Compare, Goto

\* A new item has no plaintext yet.
LEMMA ItemAuth == AuthInv /\ Item => AuthInv'
<1> SUFFICES ASSUME AuthInv, Item PROVE AuthInv'
  OBVIOUS
<1>1. CASE Leave(Scope, "finish") /\ UNCHANGED item /\ UNCHANGED <<command, typed>>
  BY <1>1, FailAuth DEF Leave, item
<1>2. CASE /\ emitted' = "nothing" /\ result' = None /\ UNCHANGED command
           /\ pc' = IF encrypting THEN Sealing ELSE "prefix"
  BY <1>2, NoneDiffers DEF Sealing, AuthInv, Authentic, Prompting, Reading, Handing, At, encrypting
<1> QED
  BY <1>1, <1>2 DEF Item, Start, Goto

\* Deriving the key hands nothing out.
LEMMA KeyAuth == AuthInv /\ (Derive \/ Hash) => AuthInv'
<1> SUFFICES ASSUME AuthInv, Derive \/ Hash PROVE AuthInv'
  OBVIOUS
<1>1. UNCHANGED <<command, typed>> /\ pc \in {"derive", "hash"}
  BY DEF Derive, Hash, Quiet
<1>2. CASE \E e : ItemFails(e)
  BY <1>1, <1>2, ItemFailsAuth
<1>3. CASE UNCHANGED item /\ pc' \in {"hash", IF encrypting THEN "seal" ELSE "open"}
  BY <1>1, <1>3, OnAuth DEF item, Prompting, Reading
<1> QED
  BY <1>2, <1>3, Accepts DEF Derive, Hash, Goto

\* Only a stream that opens goes on to Emit.
LEMMA OpenAuth == AuthInv /\ Open => AuthInv'
<1> SUFFICES ASSUME AuthInv, Open PROVE AuthInv'
  OBVIOUS
<1>1. UNCHANGED <<command, typed>> /\ pc = "open"
  BY DEF Open, Quiet
<1>2. CASE \E e : ItemFails(e)
  BY <1>1, <1>2, ItemFailsAuth
<1>3. CASE Opened /\ UNCHANGED item /\ (pc' = Emitting \/ (pc' = "drop" /\ after' = Emitting))
  BY <1>1, <1>3, NoneDiffers
  DEF item, AuthInv, Authentic, Prompting, Reading, Handing, At, encrypting, Opened, Intact,
      Emitting
<1> QED
  BY <1>2, <1>3 DEF Open, OpensLegacy, OpensMetadata, Opened, Intact, Goto, Leave

\* Choosing an output hands nothing out.
LEMMA OutputAuth == AuthInv /\ (Output \/ Overwrite) => AuthInv'
<1> SUFFICES ASSUME AuthInv, Output \/ Overwrite PROVE AuthInv'
  OBVIOUS
<1>1. UNCHANGED <<command, typed>> /\ pc \in {"output", "overwrite"}
  BY DEF Output, Overwrite, Quiet
<1>2. CASE \E e : ItemFails(e)
  BY <1>1, <1>2, ItemFailsAuth
<1>3. CASE UNCHANGED item /\ pc' \in {"overwrite", IF encrypting THEN "derive" ELSE "emit"}
  BY <1>1, <1>3, NoneDiffers
  DEF item, AuthInv, Authentic, Prompting, Reading, Handing, At, encrypting, Opened, Intact
<1> QED
  BY <1>2, <1>3 DEF Output, Overwrite, Goto

\* Success, and any plaintext of version 1, need the stream as it was written.
LEMMA EmitAuth == AuthInv /\ Emit => AuthInv'
<1> SUFFICES ASSUME AuthInv, Emit, ~encrypting PROVE AuthInv'
  BY EncryptingAuth DEF Emit, Quiet, ItemSucceeds, Leave
<1>1. UNCHANGED <<command, typed, stream>> /\ Opened /\ pc' = "drop" /\ after' = "item"
  BY DEF Emit, Quiet, ItemSucceeds, Leave, AuthInv, Handing, At
<1>2. CASE Intact(stream) /\ emitted' = "whole"
  BY <1>1, <1>2 DEF AuthInv, Authentic, Prompting, Reading, Handing, At, encrypting, Opened, Intact
<1>3. CASE /\ emitted' \in IF stream.header.version = 1 THEN {"nothing"}
                           ELSE {"nothing", "part", "whole"}
           /\ result' = "error"
  BY <1>1, <1>3 DEF AuthInv, Authentic, Prompting, Reading, Handing, At, encrypting, Opened
<1> QED
  BY <1>2, <1>3 DEF Emit

\* Dropping secrets leads on to the same place.
LEMMA DropAuth ==
    ASSUME AuthInv, DropClear \/ DropUnlock \/ DropFree \/ Dropped \/ Finish
    PROVE  AuthInv'
<1>1. UNCHANGED <<command, typed, stream, emitted, result, after>>
  BY DEF DropClear, DropUnlock, DropFree, Dropped, Finish, Exit, Quiet, item, dropping
<1>2. CASE pc' = pc
  BY <1>1, <1>2 DEF AuthInv, Authentic, Prompting, Reading, Handing, At, encrypting, Opened, Intact
<1>3. CASE pc = "drop" /\ pc' = after
  BY <1>1, <1>3 DEF AuthInv, Authentic, Prompting, Reading, Handing, At, encrypting, Opened, Intact
<1>4. CASE pc = "finish" /\ pc' = "exited"
  BY <1>1, <1>4 DEF AuthInv, Authentic, Prompting, Reading, Handing, At, encrypting, Opened, Intact
<1> QED
  BY <1>2, <1>3, <1>4 DEF DropClear, DropUnlock, DropFree, Dropped, Finish, Exit

\* Every step keeps it.
LEMMA AuthStep == AuthInv /\ [Next]_vars => AuthInv'
<1> SUFFICES ASSUME AuthInv, [Next]_vars PROVE AuthInv'
  OBVIOUS
<1>1. CASE Parse \/ Inputs \/ Prompt \/ ValidatePassword \/ Confirm \/ Compare
  BY <1>1, StartAuth
<1>2. CASE Item
  BY <1>2, ItemAuth
<1>3. CASE ReadPrefix \/ ReadHeader \/ ReadLegacy
  <2>1. CASE (\E e : ItemFails(e)) /\ Quiet
    BY <2>1, ItemFailsAuth DEF Quiet
  <2> QED
    BY <1>3, <2>1, JudgedAuth DEF ReadPrefix, ReadHeader, ReadLegacy, Prompting, Reading
<1>4. CASE Derive \/ Hash \/ Output \/ Overwrite
  BY <1>4, KeyAuth, OutputAuth
<1>5. CASE Seal
  <2>1. encrypting /\ UNCHANGED command
    BY <1>5 DEF Seal, Quiet, AuthInv
  <2> QED
    BY <2>1, EncryptingAuth, <1>5 DEF Seal, ItemFails, ItemSucceeds, Leave, AuthInv
<1>6. CASE Open
  BY <1>6, OpenAuth
<1>7. CASE Emit
  BY <1>7, EmitAuth
<1>8. CASE DropClear \/ DropUnlock \/ DropFree \/ Dropped \/ Finish
  BY <1>8, DropAuth
<1>9. CASE UNCHANGED vars
  BY <1>9 DEF vars, item, dropping, AuthInv, Authentic, Prompting, Reading, Handing, At, encrypting,
              Opened, Intact
<1> QED
  BY <1>1, <1>2, <1>3, <1>4, <1>5, <1>6, <1>7, <1>8, <1>9 DEF Next, Program, Over

\* Plaintext is handed out for the right password and an unchanged header only,
\* of a v1 stream all or nothing, and success means an unchanged stream
\* (StreamDecryptor::new, new_legacy, decrypt_to).
THEOREM AuthenticPlaintext == Spec => []Authentic
<1>1. AuthInv => Authentic
  BY DEF AuthInv
<1> QED
  BY <1>1, AuthInit, AuthStep, PTL DEF Spec

-------------------------------------------------------------------------------
(* Secrets.                                                                *)

\* An allocation keeps the memory well typed.
LEMMA AllocateTypes ==
    ASSUME MemoryTypeOK, NEW r \in Regions, NEW bytes \in SUBSET {"text", "spare"},
           Allocate(r, bytes)
    PROVE  MemoryTypeOK'
<1>1. PICK pages \in Extents :
        /\ place' = [place EXCEPT ![r] = pages]
        /\ holds' = [holds EXCEPT ![r] = bytes]
        /\ TryLock(r, pages)
  BY DEF Allocate
<1>2. pinned' \subseteq UNION Extents
  BY <1>1 DEF TryLock, MemoryTypeOK
<1>3. locked' \in [Regions -> BOOLEAN]
  BY <1>1 DEF TryLock, MemoryTypeOK
<1> QED
  BY <1>1, <1>2, <1>3 DEF MemoryTypeOK

\* Given back means cleared and unlocked; a page is pinned for a locked region.
Tidy ==
    /\ MemoryTypeOK
    /\ \A r \in Regions : ~Live(r) => holds[r] = {} /\ ~locked[r]
    /\ \A p \in pinned : \E r \in Regions : locked[r] /\ p \in place[r]

\* Tidy is stronger than the part of SecretsGone about memory.
LEMMA TidyLeavesNothing == Tidy => NothingLeft
  BY DEF Tidy, NothingLeft

\* A new secret, pinned or not.
LEMMA AllocateTidy ==
    ASSUME Tidy, NEW r \in Regions, ~Live(r), NEW bytes \in SUBSET {"text", "spare"},
           Allocate(r, bytes)
    PROVE  Tidy' /\ Scope' \subseteq Scope \cup {r} /\ Live(r)'
<1>1. PICK pages \in Extents :
        /\ place' = [place EXCEPT ![r] = pages]
        /\ holds' = [holds EXCEPT ![r] = bytes]
        /\ TryLock(r, pages)
  BY DEF Allocate
<1>2. MemoryTypeOK'
  BY AllocateTypes DEF Tidy
<1>3. pages # {} /\ Live(r)' /\ \A q \in Regions \ {r} : Live(q)' <=> Live(q)
  BY <1>1, MemoryAssumption DEF Live, Tidy, MemoryTypeOK
<1>4. \A q \in Regions : ~Live(q)' => holds'[q] = {} /\ ~locked'[q]
  BY <1>1, <1>3 DEF Tidy, MemoryTypeOK, TryLock
<1>5. ~locked[r]
  BY DEF Tidy
<1>6. \A p \in pinned' : \E q \in Regions : locked'[q] /\ p \in place'[q]
  <2>1. CASE UNCHANGED <<locked, pinned>>
    BY <1>1, <1>5, <2>1 DEF Tidy, MemoryTypeOK
  <2>2. CASE locked' = [locked EXCEPT ![r] = TRUE] /\ pinned' = pinned \cup pages
    <3> SUFFICES ASSUME NEW p \in pinned' PROVE \E q \in Regions : locked'[q] /\ p \in place'[q]
      OBVIOUS
    <3>1. CASE p \in pages
      BY <1>1, <2>2, <3>1 DEF Tidy, MemoryTypeOK
    <3>2. CASE p \in pinned
      BY <1>1, <1>5, <2>2, <3>2 DEF Tidy, MemoryTypeOK
    <3> QED
      BY <2>2, <3>1, <3>2
  <2> QED
    BY <1>1, <2>1, <2>2 DEF TryLock
<1> QED
  BY <1>2, <1>3, <1>4, <1>6 DEF Tidy, Scope

\* The key arrives in memory that is in use.
LEMMA FillTidy ==
    ASSUME Tidy, NEW r \in Regions, Live(r), Fill(r)
    PROVE  Tidy' /\ Scope' = Scope
  BY DEF Tidy, MemoryTypeOK, Fill, Scope, Live

\* clear_and_unlock, first half.
LEMMA ClearTidy ==
    ASSUME Tidy, NEW r \in Regions, Clear(r)
    PROVE  Tidy' /\ Scope' = Scope /\ holds'[r] = {}
  BY DEF Tidy, MemoryTypeOK, Clear, Scope, Live

\* clear_and_unlock, second half: it may unpin the pages of others, never too few.
LEMMA UnlockTidy ==
    ASSUME Tidy, NEW r \in Regions, Unlock(r)
    PROVE  Tidy' /\ Scope' = Scope /\ ~locked'[r] /\ holds' = holds
<1>1. MemoryTypeOK' /\ ~locked'[r] /\ UNCHANGED <<place, holds>> /\ pinned' \subseteq pinned
  BY DEF Tidy, MemoryTypeOK, Unlock
<1>2. \A q \in Regions : ~Live(q)' => holds'[q] = {} /\ ~locked'[q]
  BY <1>1 DEF Tidy, MemoryTypeOK, Unlock, Live
<1>3. \A p \in pinned' : \E q \in Regions : locked'[q] /\ p \in place'[q]
  <2> SUFFICES ASSUME NEW p \in pinned' PROVE \E q \in Regions : locked'[q] /\ p \in place'[q]
    OBVIOUS
  <2>1. PICK q \in Regions : locked[q] /\ p \in place[q]
    BY <1>1 DEF Tidy
  <2>2. CASE q = r
    BY <1>1, <2>1, <2>2 DEF Unlock
  <2>3. CASE q # r
    BY <1>1, <2>1, <2>3 DEF Unlock, Tidy, MemoryTypeOK
  <2> QED
    BY <2>2, <2>3
<1> QED
  BY <1>1, <1>2, <1>3 DEF Tidy, Scope, Live

\* Memory that is cleared and unlocked may be given back.
LEMMA FreeTidy ==
    ASSUME Tidy, NEW r \in Regions, holds[r] = {}, ~locked[r], Free(r)
    PROVE  Tidy' /\ Scope' = Scope \ {r}
<1>1. MemoryTypeOK' /\ UNCHANGED <<holds, locked, pinned>> /\ place'[r] = {}
      /\ \A q \in Regions \ {r} : place'[q] = place[q]
  BY DEF Tidy, MemoryTypeOK, Free
<1>2. \A p \in pinned' : \E q \in Regions : locked'[q] /\ p \in place'[q]
  BY <1>1 DEF Tidy
<1>3. \A q \in Regions : ~Live(q)' => holds'[q] = {} /\ ~locked'[q]
  BY <1>1 DEF Tidy, Live
<1> QED
  BY <1>1, <1>2, <1>3 DEF Tidy, Scope, Live

\* Steps that leave the memory alone.
LEMMA TidyFixed ==
    ASSUME Tidy, UNCHANGED memory
    PROVE  Tidy' /\ Scope' = Scope /\ \A r \in Regions : Live(r)' <=> Live(r)
  BY DEF Tidy, MemoryTypeOK, memory, Scope, Live

\* Which secrets there may be, at each point of run.
Early == {"parse", "inputs", "prompt", "finish", "exited"}
Alone == {"validate", "confirm", "item", "prefix", "header", "legacy", "derive"}
Keyed == {"hash", "seal", "open", "emit"}
Choosing == {"output", "overwrite"}

\* What is in scope, and how far the drop of it has come.
SecretsInv ==
    /\ Tidy
    /\ exit # None => pc = "exited"
    /\ pc \in Early => Scope = {}
    /\ pc \in Alone => Scope \subseteq {"password"}
    /\ pc = "compare" => Scope \subseteq {"password", "confirm"}
    /\ pc = "hash" => Live("key")
    /\ pc = "open" => ~encrypting
    /\ pc \in Keyed => Scope \subseteq {"password", "key"}
    /\ pc \in Choosing => Scope \subseteq {"password"} \cup IF encrypting THEN {} ELSE {"key"}
    /\ pc = "drop" =>
        /\ doomed \subseteq Regions
        /\ after \in {"item", "emit", "output", "finish"}
        /\ after = "item" => Scope \ doomed \subseteq {"password"}
        /\ after = "emit" => Scope \ doomed \subseteq {"password", "key"}
        /\ after = "output" => Scope \ doomed \subseteq {"password"}
        /\ after = "finish" => Scope \subseteq doomed
        /\ doomed # {} /\ phase # "clear" => holds[Latest(doomed)] = {}
        /\ doomed # {} /\ phase = "free" => ~locked[Latest(doomed)]

\* The next region to drop is one of them.
LEMMA LatestAmong ==
    ASSUME NEW regions \in SUBSET Regions, regions # {}
    PROVE  Latest(regions) \in regions /\ Latest(regions) \in Regions
  BY SessionAssumption DEF Latest, SessionRegions

\* There are no secrets yet.
LEMMA SecretsInit == Init => SecretsInv
<1> SUFFICES ASSUME Init PROVE SecretsInv
  OBVIOUS
<1>1. /\ place = [r \in Regions |-> {}] /\ holds = [r \in Regions |-> {}]
      /\ locked = [r \in Regions |-> FALSE] /\ pinned = {}
      /\ pc = "parse" /\ exit = None
  BY DEF Init, MemoryInit
<1>2. MemoryTypeOK
  BY <1>1 DEF MemoryTypeOK
<1>3. Tidy
  BY <1>1, <1>2 DEF Tidy
<1>4. Scope = {}
  BY <1>1 DEF Scope, Live
<1> QED
  BY <1>1, <1>3, <1>4 DEF SecretsInv, Early, Alone, Keyed, Choosing, encrypting

\* Leaving a scope keeps what the place it goes to may have.
LEMMA LeaveSecrets ==
    ASSUME SecretsInv, NEW regions \in SUBSET Regions, NEW label, Leave(regions, label),
           pc # "exited", UNCHANGED <<command, exit>>,
           \/ label = "item" /\ Scope \ regions \subseteq {"password"}
           \/ label = "emit" /\ Scope \ regions \subseteq {"password", "key"}
           \/ label = "output" /\ Scope \ regions \subseteq {"password"}
           \/ label = "finish" /\ Scope \subseteq regions
    PROVE  SecretsInv'
<1>1. Tidy' /\ Scope' = Scope
  BY TidyFixed DEF SecretsInv, Leave
<1> QED
  BY <1>1 DEF SecretsInv, Leave, Early, Alone, Keyed, Choosing, encrypting

\* An early return of run leaves every scope.
LEMMA AbortSecrets ==
    ASSUME SecretsInv, NEW e, Abort(e), pc # "exited", UNCHANGED <<command, exit>>
    PROVE  SecretsInv'
<1>1. Scope \in SUBSET Regions
  BY DEF Scope
<1> QED
  BY <1>1, LeaveSecrets DEF Abort

\* An item leaves its key only.
LEMMA EndSecrets ==
    ASSUME SecretsInv, Leave(Keys, "item"), pc \in Alone \cup Keyed \cup Choosing,
           UNCHANGED <<command, exit>>
    PROVE  SecretsInv'
<1>1. Keys \in SUBSET Regions
  BY DEF Keys, Scope
<1>2. Scope \ Keys \subseteq {"password"}
  BY DEF SecretsInv, Keys, Alone, Keyed, Choosing
<1>3. pc # "exited"
  BY DEF Alone, Keyed, Choosing
<1> QED
  BY <1>1, <1>2, <1>3, LeaveSecrets

\* On to a step that may have the same secrets.
LEMMA OnSecrets ==
    ASSUME SecretsInv, UNCHANGED <<memory, command, exit>>, pc # "exited",
           pc' \notin {"drop", "compare", "hash", "open", "exited"},
           pc' \in Early => pc \in Early,
           pc' \in Alone => pc \in Early \cup Alone,
           pc' \in Keyed => pc \in Alone \cup Keyed,
           pc' \in Choosing => pc \in Early \cup Alone \/ (pc \in Keyed /\ ~encrypting)
    PROVE  SecretsInv'
<1>1. Tidy' /\ Scope' = Scope
  BY TidyFixed DEF SecretsInv
<1> QED
  BY <1>1 DEF SecretsInv, Early, Alone, Keyed, Choosing, encrypting

\* A secret is allocated where it is not in scope already.
LEMMA NewSecrets ==
    ASSUME SecretsInv, NEW r \in Regions, NEW bytes \in SUBSET {"text", "spare"},
           Allocate(r, bytes), UNCHANGED <<command, exit>>,
           \/ r = "password" /\ pc = "prompt" /\ pc' = "validate"
           \/ r = "confirm" /\ pc = "confirm" /\ pc' = "compare"
           \/ r = "key" /\ pc = "derive" /\ pc' = "hash"
    PROVE  SecretsInv'
<1>1. ~Live(r)
  BY DEF SecretsInv, Scope, Early, Alone
<1>2. Tidy' /\ Scope' \subseteq Scope \cup {r} /\ Live(r)'
  BY <1>1, AllocateTidy DEF SecretsInv
<1> QED
  BY <1>2 DEF SecretsInv, Early, Alone, Keyed, Choosing, encrypting

\* Each region is cleared, then unlocked, then freed.
LEMMA DropSecrets ==
    ASSUME SecretsInv, DropClear \/ DropUnlock \/ DropFree \/ Dropped
    PROVE  SecretsInv'
<1>0. pc = "drop" /\ UNCHANGED <<command, exit, after>> /\ exit = None
  BY DEF DropClear, DropUnlock, DropFree, Dropped, Quiet, dropping, SecretsInv
<1>1. CASE Dropped
  <2>1. Tidy' /\ Scope' = Scope
    BY <1>1, TidyFixed DEF SecretsInv, Dropped
  <2>2. doomed = {} /\ pc' = after
    BY <1>1 DEF Dropped
  <2> QED
    BY <1>0, <2>1, <2>2 DEF SecretsInv, Early, Alone, Keyed, Choosing, encrypting
<1>2. CASE DropClear
  <2>1. Latest(doomed) \in Regions
    BY <1>0, <1>2, LatestAmong DEF DropClear, SecretsInv
  <2>2. Tidy' /\ Scope' = Scope /\ holds'[Latest(doomed)] = {}
    BY <1>2, <2>1, ClearTidy DEF DropClear, SecretsInv
  <2>3. doomed' = doomed /\ phase' = "unlock" /\ pc' = "drop"
    BY <1>0, <1>2 DEF DropClear
  <2> QED
    BY <1>0, <2>2, <2>3 DEF SecretsInv, Early, Alone, Keyed, Choosing, encrypting
<1>3. CASE DropUnlock
  <2>1. Latest(doomed) \in Regions /\ holds[Latest(doomed)] = {}
    BY <1>0, <1>3, LatestAmong DEF DropUnlock, SecretsInv
  <2>2. Tidy' /\ Scope' = Scope /\ ~locked'[Latest(doomed)] /\ holds' = holds
    BY <1>3, <2>1, UnlockTidy DEF DropUnlock, SecretsInv
  <2>3. doomed' = doomed /\ phase' = "free" /\ pc' = "drop"
    BY <1>0, <1>3 DEF DropUnlock
  <2> QED
    BY <1>0, <2>1, <2>2, <2>3 DEF SecretsInv, Early, Alone, Keyed, Choosing, encrypting
<1>4. CASE DropFree
  <2>1. Latest(doomed) \in Regions /\ holds[Latest(doomed)] = {} /\ ~locked[Latest(doomed)]
    BY <1>0, <1>4, LatestAmong DEF DropFree, SecretsInv
  <2>2. Tidy' /\ Scope' = Scope \ {Latest(doomed)}
    BY <1>4, <2>1, FreeTidy DEF DropFree, SecretsInv
  <2>3. doomed' = doomed \ {Latest(doomed)} /\ phase' = "clear" /\ pc' = "drop"
    BY <1>0, <1>4 DEF DropFree
  <2> QED
    BY <1>0, <2>2, <2>3 DEF SecretsInv, Early, Alone, Keyed, Choosing, encrypting
<1> QED
  BY <1>1, <1>2, <1>3, <1>4

\* The prompts.
LEMMA StartSecrets ==
    ASSUME SecretsInv, Parse \/ Inputs \/ Prompt \/ ValidatePassword \/ Confirm \/ Compare
    PROVE  SecretsInv'
<1>1. CASE Parse
  <2>1. Tidy' /\ Scope' = Scope /\ pc = "parse" /\ pc' \in {"inputs", "exited"}
    BY <1>1, TidyFixed DEF Parse, Exit, Goto, SecretsInv
  <2>2. pc' = "exited" \/ exit' = exit
    BY <1>1 DEF Parse, Exit, Goto
  <2> QED
    BY <2>1, <2>2 DEF SecretsInv, Early, Alone, Keyed, Choosing, encrypting
<1>2. CASE \E e : Abort(e) /\ UNCHANGED <<command, exit>> /\ pc # "exited"
  BY <1>2, AbortSecrets
<1>3. CASE Inputs /\ Goto("prompt") /\ UNCHANGED memory
  BY <1>3, OnSecrets DEF Inputs, Goto, Quiet, Early, Alone, Keyed, Choosing, encrypting
<1>4. CASE Prompt /\ \E text \in {"", "right", "wrong"} :
             NewString("password", Answer(text)) /\ Goto("validate")
  BY <1>4, NewSecrets, SessionAssumption
  DEF Prompt, Goto, NewString, Answer, SessionRegions
<1>5. CASE ValidatePassword /\ Goto(IF encrypting THEN "confirm" ELSE "item") /\ UNCHANGED memory
  BY <1>5, OnSecrets DEF ValidatePassword, Goto, Quiet, Early, Alone, Keyed, Choosing, encrypting
<1>6. CASE Confirm /\ NewString("confirm", {"text"}) /\ Goto("compare")
  BY <1>6, NewSecrets, SessionAssumption DEF Confirm, Goto, NewString, SessionRegions
<1>7. CASE Compare /\ Leave({"confirm"}, "item")
  <2>1. Scope \ {"confirm"} \subseteq {"password"} /\ {"confirm"} \subseteq Regions
    BY <1>7, SessionAssumption DEF Compare, SecretsInv, SessionRegions
  <2> QED
    BY <1>7, <2>1, LeaveSecrets DEF Compare, Quiet
<1> QED
  BY <1>1, <1>2, <1>3, <1>4, <1>5, <1>6, <1>7
  DEF Inputs, Prompt, ValidatePassword, Confirm, Compare, Quiet

\* A header is read before there is a key.
LEMMA JudgedSecrets ==
    ASSUME SecretsInv, pc \in Alone, NEW verdict,
           NEW label \in {"legacy", "header", "derive", "panicked"}, Judged(verdict, label)
    PROVE  SecretsInv'
<1>1. UNCHANGED <<command, exit>> /\ pc # "exited"
  BY DEF Judged, Quiet, Alone
<1>2. CASE \E e : ItemFails(e)
  BY <1>1, <1>2, EndSecrets DEF ItemFails
<1>3. CASE Goto(label) /\ UNCHANGED memory
  BY <1>1, <1>3, OnSecrets DEF Goto, Early, Alone, Keyed, Choosing, encrypting
<1> QED
  BY <1>2, <1>3 DEF Judged

\* An item has a key, and no other secret, of its own.
LEMMA ItemSecrets ==
    ASSUME SecretsInv, \/ Item \/ ReadPrefix \/ ReadHeader \/ ReadLegacy
                       \/ Output \/ Overwrite \/ Derive \/ Hash \/ Seal \/ Open \/ Emit
    PROVE  SecretsInv'
<1>1. CASE Item
  <2>1. CASE Leave(Scope, "finish")
    <3>1. Scope \in SUBSET Regions
      BY DEF Scope
    <3> QED
      BY <1>1, <2>1, <3>1, LeaveSecrets DEF Item
  <2>2. CASE Goto(IF encrypting THEN Sealing ELSE "prefix") /\ UNCHANGED memory
    BY <1>1, <2>2, OnSecrets DEF Item, Goto, Sealing, Early, Alone, Keyed, Choosing
  <2> QED
    BY <1>1, <2>1, <2>2 DEF Item, Start
<1>2. CASE Judged(Prefix(stream), IF stream.header.version = 1 THEN "legacy" ELSE "header")
           /\ pc = "prefix"
  BY <1>2, JudgedSecrets DEF Alone
<1>8. CASE ReadHeader \/ ReadLegacy
  BY <1>8, JudgedSecrets DEF ReadHeader, ReadLegacy, Alone
<1>3. CASE /\ Leave(Keys, "item")
           /\ ReadPrefix \/ Output \/ Overwrite \/ Derive \/ Hash \/ Seal \/ Open \/ Emit
  <2>1. UNCHANGED <<command, exit>>
    BY <1>3 DEF ReadPrefix, Judged, Output, Overwrite, Derive, Hash, Seal, Open, Emit, Quiet
  <2>2. pc \in Alone \cup Keyed \cup Choosing
    BY <1>3 DEF ReadPrefix, Output, Overwrite, Derive, Hash, Seal, Open, Emit, Alone, Keyed, Choosing
  <2> QED
    BY <1>3, <2>1, <2>2, EndSecrets
<1>9. CASE /\ pc \in Choosing
           /\ pc' \in {"overwrite", IF encrypting THEN "derive" ELSE "emit"}
           /\ UNCHANGED <<memory, command, exit>>
  <2>1. Tidy' /\ Scope' = Scope
    BY <1>9, TidyFixed DEF SecretsInv
  <2> QED
    BY <1>9, <2>1 DEF SecretsInv, Early, Alone, Keyed, Choosing, encrypting
<1>4. CASE Derive /\ Zeroed("key") /\ Goto("hash")
  BY <1>4, NewSecrets, SessionAssumption DEF Derive, Goto, Zeroed, SessionRegions
<1>5. CASE Hash /\ Fill("key") /\ Goto(IF encrypting THEN "seal" ELSE "open")
  <2>1. Tidy' /\ Scope' = Scope
    BY <1>5, SessionAssumption, FillTidy DEF Hash, SecretsInv, SessionRegions
  <2> QED
    BY <1>5, <2>1 DEF Hash, Goto, Quiet, SecretsInv, Early, Alone, Keyed, Choosing, encrypting
<1>6. CASE Open /\ Goto(Emitting) /\ UNCHANGED memory
  BY <1>6, OnSecrets
  DEF Open, Goto, Quiet, Emitting, SecretsInv, Early, Alone, Keyed, Choosing, encrypting
<1>7. CASE Open /\ Leave({"key"}, Emitting)
  <2>1. Scope \ {"key"} \subseteq {"password"} /\ {"key"} \subseteq Regions
    BY <1>7, SessionAssumption DEF Open, SecretsInv, Keyed, SessionRegions
  <2> QED
    BY <1>7, <2>1, LeaveSecrets DEF Open, Quiet, Emitting
<1> QED
  BY <1>1, <1>2, <1>3, <1>4, <1>5, <1>6, <1>7, <1>8, <1>9, Accepts
  DEF ReadPrefix, Output, Overwrite, Derive, Hash, Seal, Open, Emit, ItemFails, ItemSucceeds, Goto,
      Quiet, Choosing

\* Every step keeps it.
LEMMA SecretsStep == SecretsInv /\ [Next]_vars => SecretsInv'
<1> SUFFICES ASSUME SecretsInv, [Next]_vars PROVE SecretsInv'
  OBVIOUS
<1>1. CASE Finish
  <2>1. Tidy' /\ Scope' = Scope /\ pc = "finish" /\ pc' = "exited"
    BY <1>1, TidyFixed DEF Finish, Exit, SecretsInv
  <2> QED
    BY <2>1 DEF SecretsInv, Early, Alone, Keyed, Choosing, encrypting
<1>2. CASE UNCHANGED vars
  <2>1. Tidy' /\ Scope' = Scope
    BY <1>2, TidyFixed DEF vars, SecretsInv
  <2> QED
    BY <1>2, <2>1
    DEF vars, dropping, memory, SecretsInv, Early, Alone, Keyed, Choosing, encrypting, Live
<1> QED
  BY <1>1, <1>2, StartSecrets, ItemSecrets, DropSecrets DEF Next, Program, Over

\* Memory that has been given back holds no secret and keeps no page pinned, and
\* the process ends with none, on whatever path (memlock.rs, run).
THEOREM NoSecretsLeft == Spec => []SecretsGone
<1>1. SecretsInv => SecretsGone
  BY TidyLeavesNothing DEF SecretsInv, SecretsGone, Early, Scope
<1> QED
  BY <1>1, SecretsInit, SecretsStep, PTL DEF Spec

-------------------------------------------------------------------------------
(* Types.                                                                  *)

\* The slices of decrypt_file follow its size check.
LEMMA SlicesInBounds ==
    ASSUME NEW s \in Streams, Legacy(s) = "ok" PROVE InBounds(s)
<1>1. s.size \in Nat /\ s.header.name \in Nat /\ Taken(s) \in Nat
  BY SessionAssumption, FormatAssumption DEF Taken
<1>2. ~(Taken(s) < CiphertextStart(s.header.name) + TAG)
  BY DEF Legacy
<1> QED
  BY <1>1, <1>2 DEF InBounds, CiphertextStart, FilenameEnd, TAG, SALT, NONCE, LEGACY_FIXED, PREFIX

\* A header is accepted or refused with an IronlockError.
LEMMA Verdicts ==
    /\ \A s : Prefix(s) \in Errors \cup {"ok"}
    /\ \A s : HeaderV2(s) \in Errors \cup {"ok"}
    /\ \A s : Legacy(s) \in Errors \cup {"ok"}
  BY DEF Prefix, HeaderV2, Legacy, Errors

\* No "panicked" among them.
Labels ==
    {"parse", "inputs", "prompt", "validate", "confirm", "compare", "item", "prefix", "header",
     "legacy", "output", "overwrite", "derive", "hash", "seal", "open", "emit", "drop", "finish",
     "exited"}

\* A stream is at hand wherever it is read.
Holding == \/ pc \in {"prefix", "header", "legacy", "open"} \/ At("emit")
           \/ ~encrypting /\ (At("output") \/ pc \in {"overwrite", "derive", "hash"})

\* What TypeOK says of the run, and of the item at hand.
RunTypes ==
    /\ pc \in Labels
    /\ pc = "drop" => after \in {"item", "emit", "output", "finish"}
    /\ typed \in {"", "right", "wrong"} /\ same \in BOOLEAN
    /\ error \in Errors \cup {None}
    /\ exit \in {None, 0, 1, 2}
    /\ doomed \subseteq Regions /\ phase \in {"clear", "unlock", "free"}
ItemTypes ==
    /\ stream \in Streams \cup {None}
    /\ Holding => stream \in Streams
    /\ emitted \in {"nothing", "part", "whole"}
    /\ result \in {None, "ok", "error"}
    /\ work \in KdfParams \cup {None}
Types == RunTypes /\ ItemTypes

\* The process starts well typed.
LEMMA TypesInit == Init => Types
  BY DEF Init, Types, RunTypes, ItemTypes, Holding, At, Labels

\* Scopes are made of regions.
LEMMA ScopeTypes == Scope \subseteq Regions /\ Keys \subseteq Regions
  BY DEF Scope, Keys

\* A scope is left.
LEMMA LeaveTypes ==
    ASSUME Types, NEW regions \in SUBSET Regions, NEW label \in {"item", "finish"},
           Leave(regions, label), typed' \in {"", "right", "wrong"}, same' \in BOOLEAN,
           error' \in Errors \cup {None}, UNCHANGED <<command, exit>>,
           stream' = stream, emitted' \in {"nothing", "part", "whole"},
           result' \in {None, "ok", "error"}, work' = work
    PROVE  Types'
<1>1. RunTypes'
  BY DEF Types, RunTypes, Leave, Labels
<1>2. ItemTypes'
  BY DEF Types, ItemTypes, Holding, At, Leave
<1> QED
  BY <1>1, <1>2 DEF Types

\* An early return of run.
LEMMA AbortTypes ==
    ASSUME Types, NEW e \in Errors, Abort(e), UNCHANGED <<command, same, exit, work>>,
           typed' \in {"", "right", "wrong"}
    PROVE  Types'
  BY LeaveTypes, ScopeTypes DEF Abort, item, Types, RunTypes, ItemTypes

\* An item fails.
LEMMA ItemFailsTypes ==
    ASSUME Types, NEW e \in Errors, ItemFails(e),
           UNCHANGED <<command, typed, same, exit, work>>
    PROVE  Types'
  BY LeaveTypes, ScopeTypes DEF ItemFails, Types, RunTypes, ItemTypes

\* On to the next step.
LEMMA OnTypes ==
    ASSUME Types, pc' \in Labels \ {"drop"}, typed' \in {"", "right", "wrong"}, same' \in BOOLEAN,
           error' \in Errors \cup {None}, UNCHANGED <<command, doomed, phase>>,
           exit' \in {None, 0, 1, 2},
           stream' \in Streams \cup {None}, Holding' => stream' \in Streams,
           emitted' \in {"nothing", "part", "whole"},
           result' \in {None, "ok", "error"}, work' \in KdfParams \cup {None}
    PROVE  Types'
  BY DEF Types, RunTypes, ItemTypes

\* A header is accepted, or the item fails.
LEMMA JudgedTypes ==
    ASSUME Types, Holding, NEW verdict \in Errors \cup {"ok"},
           NEW label \in {"legacy", "header", "derive"}, Judged(verdict, label)
    PROVE  Types'
<1>1. UNCHANGED <<command, typed, same, work, exit>>
  BY DEF Judged, Quiet
<1>2. CASE \E e \in Errors : ItemFails(e)
  BY <1>1, <1>2, ItemFailsTypes
<1>3. CASE Goto(label) /\ UNCHANGED <<error, item, dropping>>
  <2>1. pc' \in Labels \ {"drop"}
    BY <1>3 DEF Goto, Labels
  <2> QED
    BY <1>1, <1>3, <2>1, OnTypes DEF item, dropping, Types, RunTypes, ItemTypes
<1>4. "IoError" \in Errors
  BY DEF Errors
<1> QED
  BY <1>2, <1>3, <1>4 DEF Judged

\* The command line and the prompts.
LEMMA StartTypes ==
    ASSUME Types, Parse \/ Inputs \/ Prompt \/ ValidatePassword \/ Confirm \/ Compare
    PROVE  Types'
<1>1. UNCHANGED <<command, work>> /\ typed' \in {"", "right", "wrong"} /\ same' \in BOOLEAN
  BY DEF Parse, Exit, Inputs, Prompt, ValidatePassword, Confirm, Compare, Quiet, Types, RunTypes
<1>2. CASE Parse
  <2>1. /\ UNCHANGED <<error, item, dropping>>
        /\ pc' \in {"inputs", "exited"} /\ exit' \in {exit, 0, 2}
    BY <1>2 DEF Parse, Exit, Goto
  <2>2. pc' \in Labels \ {"drop"} /\ ~Holding'
    BY <2>1 DEF Labels, Holding, At
  <2> QED
    BY <1>1, <2>1, <2>2, OnTypes DEF item, dropping, Types, RunTypes, ItemTypes
<1>3. CASE ~Parse
  <2>1. UNCHANGED exit
    BY <1>3 DEF Inputs, Prompt, ValidatePassword, Confirm, Compare, Quiet
  <2>2. CASE \E e \in Errors : Abort(e) /\ UNCHANGED same
    BY <1>1, <2>1, <2>2, AbortTypes
  <2>3. CASE Leave({"confirm"}, "item") /\ UNCHANGED <<error, item>>
    BY <1>1, <2>1, <2>3, SessionAssumption, LeaveTypes
    DEF SessionRegions, item, Types, RunTypes, ItemTypes
  <2>4. CASE /\ UNCHANGED <<error, item, dropping>>
             /\ pc' \in {"prompt", "validate", "confirm", "compare", "item"}
    <3>1. pc' \in Labels \ {"drop"} /\ ~Holding'
      BY <2>4 DEF Labels, Holding, At
    <3> QED
      BY <1>1, <2>1, <2>4, <3>1, OnTypes DEF item, dropping, Types, RunTypes, ItemTypes
  <2>5. PlanErrors \cup {"NoInput", "IoError", "EmptyPassword", "PasswordMismatch"} \subseteq Errors
    BY DEF PlanErrors, Errors
  <2> QED
    BY <1>3, <2>2, <2>3, <2>4, <2>5
    DEF Inputs, Prompt, ValidatePassword, Confirm, Compare, Quiet, Goto
<1> QED
  BY <1>2, <1>3

\* The loop takes an item, or ends.
LEMMA ItemStepTypes == Types /\ Item => Types'
<1> SUFFICES ASSUME Types, Item PROVE Types'
  OBVIOUS
<1>1. UNCHANGED <<command, typed, same, exit>>
  BY DEF Item
<1>2. CASE Leave(Scope, "finish") /\ UNCHANGED <<item, error, work>>
  BY <1>1, <1>2, LeaveTypes, ScopeTypes DEF item, Types, RunTypes, ItemTypes
<1>3. CASE /\ stream' \in IF encrypting THEN {None} ELSE Streams
           /\ emitted' = "nothing" /\ result' = None /\ error' = None /\ work' = None
           /\ pc' = IF encrypting THEN Sealing ELSE "prefix"
           /\ UNCHANGED dropping
  <2>1. pc' \in Labels \ {"drop"}
    BY <1>3 DEF Labels, Sealing
  <2>2. Holding' => stream' \in Streams
    BY <1>1, <1>3 DEF Holding, At, encrypting, Sealing
  <2> QED
    BY <1>1, <1>3, <2>1, <2>2, OnTypes DEF dropping, Types, RunTypes, ItemTypes
<1> QED
  BY <1>2, <1>3 DEF Item, Start, Goto

\* No stream makes the program slice beyond what it has read.
LEMMA ReadTypes == Types /\ (ReadPrefix \/ ReadHeader \/ ReadLegacy) => Types'
<1> SUFFICES ASSUME Types, ReadPrefix \/ ReadHeader \/ ReadLegacy PROVE Types'
  OBVIOUS
<1>1. Holding /\ stream \in Streams
  BY DEF ReadPrefix, ReadHeader, ReadLegacy, Holding, Types, ItemTypes
<1>2. ~(Legacy(stream) = "ok" /\ ~InBounds(stream))
  BY <1>1, SlicesInBounds
<1>3. CASE (\E e \in {"FileNotFound", "UnsafePath"} : ItemFails(e)) /\ Quiet
  BY <1>3, ItemFailsTypes DEF Quiet, Errors
<1> QED
  BY <1>1, <1>2, <1>3, JudgedTypes, Verdicts DEF ReadPrefix, ReadHeader, ReadLegacy

\* The key derivation, with the parameters of the stream or the current ones.
LEMMA DeriveTypes == Types /\ Derive => Types'
<1> SUFFICES ASSUME Types, Derive PROVE Types'
  OBVIOUS
<1>1. UNCHANGED <<command, typed, same, exit>> /\ pc = "derive"
  BY DEF Derive
<1>2. CASE \E e \in Errors : ItemFails(e) /\ UNCHANGED work
  BY <1>1, <1>2, ItemFailsTypes
<1>3. CASE /\ work' = IF encrypting THEN Current ELSE stream.header.kdf
           /\ pc' = "hash" /\ UNCHANGED <<error, item, dropping>>
  <2>1. Holding' => stream' \in Streams
    BY <1>1, <1>3 DEF Holding, At, encrypting, item, Types, ItemTypes
  <2>2. work' \in KdfParams
    BY <1>1, <1>3, SessionAssumption DEF Holding, Types, ItemTypes
  <2>3. pc' \in Labels \ {"drop"}
    BY <1>3 DEF Labels
  <2> QED
    BY <1>1, <1>3, <2>1, <2>2, <2>3, OnTypes DEF item, dropping, Types, RunTypes, ItemTypes
<1> QED
  BY <1>2, <1>3, Accepts DEF Derive, Goto

\* The output, and the steps with the key.
LEMMA KeyedTypes == Types /\ (Output \/ Overwrite \/ Hash \/ Seal \/ Open) => Types'
<1> SUFFICES ASSUME Types, Output \/ Overwrite \/ Hash \/ Seal \/ Open PROVE Types'
  OBVIOUS
<1>1. /\ UNCHANGED <<command, typed, same, exit, work>>
      /\ pc \in {"output", "overwrite", "hash", "seal", "open"}
  BY DEF Output, Overwrite, Hash, Seal, Open, Quiet
<1>2. CASE \E e \in Errors : ItemFails(e)
  BY <1>1, <1>2, ItemFailsTypes
<1>3. CASE ItemSucceeds /\ emitted' = "whole"
  BY <1>1, <1>3, LeaveTypes, ScopeTypes DEF ItemSucceeds, Types, RunTypes, ItemTypes
<1>4. CASE /\ UNCHANGED <<error, item, dropping>>
           /\ \/ pc = "open" /\ pc' = Emitting
              \/ pc = "hash" /\ pc' = IF encrypting THEN "seal" ELSE "open"
              \/ /\ pc \in {"output", "overwrite"}
                 /\ pc' \in {"overwrite", IF encrypting THEN "derive" ELSE "emit"}
  <2>1. Holding' => stream' \in Streams
    BY <1>1, <1>4 DEF Holding, At, encrypting, Emitting, item, Types, ItemTypes
  <2>2. pc' \in Labels \ {"drop"}
    BY <1>4 DEF Labels, Emitting
  <2> QED
    BY <1>1, <1>4, <2>1, <2>2, OnTypes DEF item, dropping, Types, RunTypes, ItemTypes
<1>5. CASE Open /\ Leave({"key"}, Emitting) /\ UNCHANGED <<error, item>>
  <2>1. RunTypes'
    BY <1>1, <1>5, SessionAssumption DEF SessionRegions, Types, RunTypes, Leave, Labels, Emitting
  <2>2. ItemTypes'
    BY <1>1, <1>5 DEF Types, ItemTypes, item, Holding, Open
  <2> QED
    BY <2>1, <2>2 DEF Types
<1>6. CommitErrors \cup {"FileNotFound", "OutputCollision", "Cancelled", "EncryptionFailed",
       "DecryptionFailed", "InvalidFileFormat", "ResourceLimit"} \subseteq Errors
  BY DEF CommitErrors, Errors
<1>7. CASE Output \/ Overwrite
  BY <1>2, <1>4, <1>6, <1>7 DEF Output, Overwrite, CommitErrors, Goto
<1>8. CASE Hash \/ Seal \/ Open
  BY <1>2, <1>3, <1>4, <1>5, <1>6, <1>8 DEF Hash, Seal, Open, CommitErrors, Goto
<1> QED
  BY <1>7, <1>8

\* The last step of a decryption.
LEMMA EmitTypes == Types /\ Emit => Types'
<1> SUFFICES ASSUME Types, Emit PROVE Types'
  OBVIOUS
<1>1. UNCHANGED <<command, typed, same, exit, work, stream>> /\ Leave(Keys, "item")
  BY DEF Emit, Quiet, ItemSucceeds
<1>2. /\ emitted' \in {"nothing", "part", "whole"} /\ result' \in {None, "ok", "error"}
      /\ error' \in Errors \cup {None}
  BY DEF Emit, ItemSucceeds, CommitErrors, Types, RunTypes, Errors
<1> QED
  BY <1>1, <1>2, LeaveTypes, ScopeTypes DEF Types, RunTypes, ItemTypes

\* Dropping secrets.
LEMMA DropTypes ==
    ASSUME Types, DropClear \/ DropUnlock \/ DropFree \/ Dropped
    PROVE  Types'
<1>1. UNCHANGED <<command, typed, same, exit, work, error, item, after>> /\ pc = "drop"
  BY DEF DropClear, DropUnlock, DropFree, Dropped, Quiet, dropping
<1>2. RunTypes'
  BY <1>1 DEF DropClear, DropUnlock, DropFree, Dropped, dropping, Types, RunTypes, Labels
<1>3. pc' = "drop" \/ pc' = after
  BY <1>1 DEF DropClear, DropUnlock, DropFree, Dropped
<1>4. ItemTypes'
  BY <1>1, <1>3 DEF item, Types, RunTypes, ItemTypes, Holding, At, encrypting
<1> QED
  BY <1>2, <1>4 DEF Types

\* Every step keeps the types.
LEMMA TypesStep == Types /\ [Next]_vars => Types'
<1> SUFFICES ASSUME Types, [Next]_vars PROVE Types'
  OBVIOUS
<1>1. CASE Finish
  <2>1. /\ exit' \in {0, 1} /\ pc' = "exited"
        /\ UNCHANGED <<command, typed, same, work, error, item, dropping>>
    BY <1>1 DEF Finish, Exit
  <2>2. pc' \in Labels \ {"drop"} /\ ~Holding'
    BY <2>1 DEF Labels, Holding, At
  <2> QED
    BY <2>1, <2>2, OnTypes DEF item, dropping, Types, RunTypes, ItemTypes
<1>2. CASE UNCHANGED vars
  <2>1. Holding' <=> Holding
    BY <1>2 DEF vars, dropping, Holding, At, encrypting
  <2>2. RunTypes'
    BY <1>2 DEF vars, dropping, Types, RunTypes
  <2>3. ItemTypes'
    BY <1>2, <2>1 DEF vars, item, Types, ItemTypes
  <2> QED
    BY <2>2, <2>3 DEF Types
<1> QED
  BY <1>1, <1>2, StartTypes, ItemStepTypes, ReadTypes, DeriveTypes, KeyedTypes, EmitTypes, DropTypes
  DEF Next, Program, Over

\* Session keeps its types. In particular no header, whatever it claims, makes
\* the program slice beyond what it has read (new_legacy, decrypt_file).
THEOREM SessionTypeCorrect == Spec => []TypeOK
<1>1. Types /\ Counted /\ SecretsInv => TypeOK
  BY DEF Types, RunTypes, ItemTypes, Labels, Counted, SecretsInv, Tidy, TypeOK
<1>2. Spec => []Types
  BY TypesInit, TypesStep, PTL DEF Spec
<1>3. Spec => []Counted
  BY CountedInit, CountedStep, PTL DEF Spec
<1>4. Spec => []SecretsInv
  BY SecretsInit, SecretsStep, PTL DEF Spec
<1> QED
  BY <1>1, <1>2, <1>3, <1>4, PTL
-------------------------------------------------------------------------------
(* Nothing good is refused.                                                *)

\* What is assumed of the streams is what both writers guarantee.
LEMMA WritersSeal ==
    ASSUME NEW kdf \in KdfParams, Validate(kdf) = "ok", NEW name \in Nat, NEW length \in Nat,
           NEW chunk \in MinChunk .. MaxChunk
    PROVE  Sealed(WrittenLegacy(kdf, name, length).written)
           /\ Sealed(Written(kdf, chunk, name, length).written)
BY DEF Sealed, WrittenLegacy, Written, Fresh, CiphertextStart, FilenameEnd, LEGACY_FIXED, PREFIX,
       SALT, NONCE, TAG, MetadataEnd, HEADER, RECORD, FINAL_BODY

\* The errors that are not about the stream, and the one that is.
Excuses ==
    {"FileNotFound", "IoError", "EncryptionFailed", "UnsafePath", "OutputCollision",
     "SecureDeletionFailed", "Cancelled"}
Oversized == stream.header.version = 1 /\ stream.size > MaxLegacy

\* Each version is read by its own reader, and a v1 stream has been read to its
\* end before it is opened.
Deriving == ~encrypting /\ pc \in {"derive", "hash", "open"}
AcceptInv ==
    /\ pc = "legacy" => stream.header.version = 1
    /\ pc = "header" => stream.header.version # 1
    /\ Deriving /\ stream.header.version = 1 => Taken(stream) = stream.size
    /\ Accepted

\* An intact stream passes every check before its key, at its own version.
LEMMA GoodPasses ==
    ASSUME NEW s \in Streams, Intact(s)
    PROVE  /\ Prefix(s) = "ok"
           /\ s.header.version # 1 => HeaderV2(s) = "ok" /\ s.size >= MetadataEnd(s.header.name)
           /\ s.header.version = 1 =>
                Legacy(s) = "ok" \/ (Legacy(s) = "ResourceLimit" /\ s.size > MaxLegacy)
           /\ Validate(s.header.kdf) = "ok"
<1>1. /\ s.header.name \in Nat /\ s.size \in Nat
      /\ s.header = s.written.header /\ s.size = s.written.size /\ Sealed(s.written)
  BY SessionAssumption DEF Intact
<1>2. s.header.magic /\ s.header.utf8 /\ Validate(s.header.kdf) = "ok"
  BY <1>1 DEF Sealed
<1>3. CASE s.header.version = 1
  <2>1. s.size >= CiphertextStart(s.header.name) + TAG
    BY <1>1, <1>3 DEF Sealed
  <2>2. s.size >= MINIMUM /\ s.size >= PREFIX
    BY <1>1, <2>1
    DEF MINIMUM, CiphertextStart, FilenameEnd, LEGACY_FIXED, PREFIX, SALT, NONCE, TAG
  <2>3. Prefix(s) = "ok"
    BY <1>1, <1>2, <1>3, <2>2 DEF Prefix, PREFIX
  <2> DEFINE judged == Legacy(s) = "ok" \/ (Legacy(s) = "ResourceLimit" /\ s.size > MaxLegacy)
  <2>4. ASSUME Taken(s) = s.size PROVE judged
    <3>1. /\ ~(Taken(s) < MINIMUM) /\ ~(Taken(s) < CiphertextStart(s.header.name) + TAG)
          /\ TooLarge(s) => s.size > MaxLegacy
      BY <1>1, <2>1, <2>2, <2>4 DEF TooLarge,
         MINIMUM, CiphertextStart, FilenameEnd, LEGACY_FIXED, PREFIX, SALT, NONCE, TAG
    <3> QED
      BY <1>2, <3>1 DEF Legacy
  <2>5. ASSUME Taken(s) # s.size PROVE judged
    <3>1. TooLarge(s) /\ s.size > MaxLegacy
      BY <1>1, <2>5, FormatAssumption DEF Taken, TooLarge
    <3> QED
      BY <3>1 DEF Legacy
  <2> QED
    BY <1>2, <1>3, <2>3, <2>4, <2>5
<1>4. CASE s.header.version # 1
  <2>1. /\ s.header.version = 2 /\ s.header.chunk \in MinChunk .. MaxChunk
        /\ s.size >= MetadataEnd(s.header.name) + RECORD + FINAL_BODY + TAG
    BY <1>1, <1>4 DEF Sealed
  <2>2. /\ s.size >= MetadataEnd(s.header.name)
        /\ ~(s.size < HEADER) /\ ~(s.size < PREFIX)
    BY <1>1, <2>1 DEF MetadataEnd, HEADER, RECORD, FINAL_BODY, TAG, PREFIX, SALT, NONCE
  <2>3. Prefix(s) = "ok" /\ HeaderV2(s) = "ok"
    BY <1>2, <2>1, <2>2 DEF Prefix, HeaderV2
  <2> QED
    BY <1>2, <1>4, <2>2, <2>3
<1> QED
  BY <1>3, <1>4

\* A v1 stream that passes has been read to its end.
LEMMA TakenWhole ==
    ASSUME NEW s \in Streams, Legacy(s) = "ok" PROVE Taken(s) = s.size
  BY SessionAssumption, FormatAssumption DEF Legacy, TooLarge, Taken

\* No item has failed yet.
LEMMA AcceptInit == Init => AcceptInv
  BY NoneDiffers, SessionAssumption DEF Init, AcceptInv, Deriving, Accepted

\* A step after which no item has failed, or the one that has is the same.
LEMMA SameAccept ==
    ASSUME AcceptInv, UNCHANGED <<command, typed, item, error>>,
           pc' \notin {"legacy", "header", "derive", "hash", "open"} \/ UNCHANGED pc
    PROVE  AcceptInv'
  BY DEF AcceptInv, Deriving, Accepted, encrypting, Intact, Taken, item

\* No item has failed.
LEMMA NoneAccept ==
    ASSUME result' # "error", pc' \notin {"legacy", "header"}, ~Deriving'
    PROVE  AcceptInv'
  BY DEF AcceptInv, Accepted

\* An item fails for a good reason.
LEMMA FailAccept ==
    ASSUME NEW e, UNCHANGED <<command, typed, stream>>, error' = e, pc' = "drop",
           ~encrypting /\ Intact(stream) /\ typed = "right" =>
             e \in Excuses \/ (e = "ResourceLimit" /\ Oversized)
    PROVE  AcceptInv'
  BY DEF AcceptInv, Deriving, Accepted, encrypting, Intact, Excuses, Oversized

\* Reading a header refuses no intact stream.
LEMMA JudgedAccept ==
    ASSUME Types, AuthInv, AcceptInv, ReadPrefix \/ ReadHeader \/ ReadLegacy
    PROVE  AcceptInv'
<1>1. /\ UNCHANGED <<command, typed>> /\ stream \in Streams
      /\ ~encrypting => result = None
      /\ pc = "legacy" => stream.header.version = 1
      /\ pc = "header" => stream.header.version # 1
  BY DEF ReadPrefix, ReadHeader, ReadLegacy, Judged, Quiet, Types, ItemTypes, Holding, AuthInv,
         Reading, AcceptInv
<1> DEFINE verdict == IF pc = "prefix" THEN Prefix(stream)
                      ELSE IF pc = "header" THEN HeaderV2(stream) ELSE Legacy(stream)
<1>2. ASSUME Intact(stream) PROVE verdict = "ok" \/ (verdict = "ResourceLimit" /\ Oversized)
  BY <1>1, <1>2, GoodPasses DEF ReadPrefix, ReadHeader, ReadLegacy, Oversized
<1>3. CASE \/ \E e \in Excuses : ItemFails(e)
           \/ verdict # "ok" /\ ItemFails(verdict)
  BY <1>1, <1>2, <1>3, FailAccept DEF ItemFails, Leave
<1>4. CASE /\ UNCHANGED item
           /\ \/ pc' = "panicked"
              \/ pc = "prefix" /\ pc' = IF stream.header.version = 1 THEN "legacy" ELSE "header"
              \/ pc = "header" /\ pc' = "derive"
              \/ pc = "legacy" /\ pc' = "derive" /\ Legacy(stream) = "ok"
  BY <1>1, <1>4, TakenWhole, NoneDiffers, SessionAssumption
  DEF item, AcceptInv, Deriving, Accepted, encrypting, Taken
<1>5. "IoError" \in Excuses /\ "FileNotFound" \in Excuses /\ "UnsafePath" \in Excuses
  BY DEF Excuses
<1> QED
  BY <1>3, <1>4, <1>5 DEF ReadPrefix, ReadHeader, ReadLegacy, Judged, Goto

\* Nor do its parameters.
LEMMA KeyAccept ==
    ASSUME Types, AuthInv, AcceptInv, Derive \/ Hash
    PROVE  AcceptInv'
<1>1. /\ UNCHANGED <<command, typed>> /\ pc \in {"derive", "hash"}
      /\ ~encrypting => stream \in Streams /\ result = None
  BY DEF Derive, Hash, Quiet, Types, ItemTypes, Holding, AuthInv, Reading
<1>2. CASE Hash /\ ItemFails("EncryptionFailed")
  BY <1>1, <1>2, FailAccept DEF ItemFails, Leave, Excuses
<1>3. CASE Derive /\ \E e : ItemFails(e)
  <2>1. CASE encrypting \/ ~Intact(stream)
    BY <1>1, <1>3, <2>1, FailAccept DEF ItemFails, Leave
  <2>2. CASE ~encrypting /\ Intact(stream)
    <3>1. Validate(stream.header.kdf) = "ok"
      BY <1>1, <2>2, GoodPasses
    <3>2. "ok" \notin Errors
      BY DEF Errors
    <3>3. pc' = "drop" /\ "drop" # "hash" /\ "drop" # "panicked"
      BY <1>3 DEF ItemFails, Leave
    <3> QED
      BY <1>3, <2>2, <3>1, <3>2, <3>3 DEF Derive, Goto
  <2> QED
    BY <2>1, <2>2
<1>4. CASE UNCHANGED item /\ pc' \notin {"legacy", "header"}
  BY <1>1, <1>4, SessionAssumption DEF item, AcceptInv, Deriving, Accepted, encrypting, Taken
<1> QED
  BY <1>2, <1>3, <1>4 DEF Derive, Hash, Goto

\* Nor does its first record.
LEMMA OpenAccept ==
    ASSUME Types, AuthInv, AcceptInv, Open
    PROVE  AcceptInv'
<1>1. /\ UNCHANGED <<command, typed, stream>> /\ pc = "open" /\ stream \in Streams
      /\ ~encrypting => result = None
  BY DEF Open, Quiet, ItemFails, Leave, item, Types, ItemTypes, Holding, AuthInv, Reading
<1>2. CASE \E e : ItemFails(e)
  <2>1. ~(~encrypting /\ Intact(stream) /\ typed = "right")
    <3>1. SUFFICES ASSUME ~encrypting, Intact(stream), typed = "right" PROVE FALSE
      OBVIOUS
    <3>2. stream.header.version = 1 => OpensLegacy(stream, typed)
      BY <1>1, <3>1 DEF OpensLegacy, AcceptInv, Deriving, AuthInv
    <3>3. stream.header.version # 1 => OpensMetadata(stream, typed)
      BY <1>1, <3>1, GoodPasses DEF OpensMetadata, Intact
    <3> QED
      BY <1>2, <3>2, <3>3 DEF Open, Emitting, ItemFails, Leave, Goto, item, dropping
  <2> QED
    BY <1>1, <1>2, <2>1, FailAccept DEF ItemFails, Leave
<1>3. CASE UNCHANGED item /\ pc' \in {"drop", "output", "emit"}
  BY <1>1, <1>3, SessionAssumption DEF item, AcceptInv, Deriving, Accepted, encrypting
<1> QED
  BY <1>2, <1>3 DEF Open, Emitting, Goto, Leave, item
\* Nor the choice of an output.
LEMMA OutputAccept ==
    ASSUME Types, AuthInv, AcceptInv, Output \/ Overwrite
    PROVE  AcceptInv'
<1>1. UNCHANGED <<command, typed>> /\ (~encrypting => result = None)
  BY DEF Output, Overwrite, Quiet, AuthInv, Handing, At
<1>2. CASE \E e \in Excuses : ItemFails(e)
  BY <1>1, <1>2, FailAccept DEF ItemFails, Leave
<1>3. CASE UNCHANGED item /\ pc' \in {"overwrite", IF encrypting THEN "derive" ELSE "emit"}
  BY <1>1, <1>3, SessionAssumption DEF item, AcceptInv, Deriving, Accepted, encrypting
<1> QED
  BY <1>2, <1>3 DEF Output, Overwrite, Goto, Excuses

\* Before the first item nothing has failed.
LEMMA StartAccept ==
    ASSUME AuthInv, AcceptInv,
           Parse \/ Inputs \/ Prompt \/ ValidatePassword \/ Confirm \/ Compare
    PROVE  AcceptInv'
<1>1. /\ UNCHANGED <<command, result>> /\ Prompting
      /\ pc' \notin {"legacy", "header", "derive", "hash", "open"}
  BY DEF Parse, Exit, Inputs, Prompt, ValidatePassword, Confirm, Compare, Abort, Leave, Goto, Quiet,
         item, Prompting
<1> QED
  BY <1>1, SessionAssumption DEF AuthInv, AcceptInv, Deriving, Accepted, encrypting

\* After its metadata an intact stream fails with its output only.
LEMMA EmitAccept ==
    ASSUME AcceptInv, Emit
    PROVE  AcceptInv'
<1>1. UNCHANGED <<command, typed, stream>> /\ pc' = "drop"
  BY DEF Emit, Quiet, ItemSucceeds, Leave
<1>2. CASE result' = "ok"
  BY <1>1, <1>2, NoneAccept DEF Deriving
<1>3. CASE Intact(stream) => error' \in CommitErrors
  BY <1>1, <1>3, FailAccept DEF Excuses, CommitErrors
<1> QED
  BY <1>2, <1>3 DEF Emit, ItemSucceeds

LEMMA AcceptStep == Types /\ AuthInv /\ AcceptInv /\ [Next]_vars => AcceptInv'
<1> SUFFICES ASSUME Types, AuthInv, AcceptInv, [Next]_vars PROVE AcceptInv'
  OBVIOUS
<1>1. CASE Item
  <2>1. CASE result' = None
    BY <1>1, <2>1, SessionAssumption, NoneAccept
    DEF Item, Start, Sealing, Deriving, encrypting, Goto, Leave
  <2>2. CASE Leave(Scope, "finish") /\ UNCHANGED <<item, error>>
    BY <1>1, <2>2, SameAccept DEF Item, Leave
  <2> QED
    BY <1>1, <2>1, <2>2 DEF Item, Start
<1>2. CASE Seal
  BY <1>2 DEF Seal, Quiet, ItemFails, ItemSucceeds, Leave, AuthInv, AcceptInv, Deriving, Accepted,
             encrypting
<1>3. CASE DropClear \/ DropUnlock \/ DropFree \/ Dropped
  <2>1. UNCHANGED <<command, typed, item, error>>
    BY <1>3 DEF DropClear, DropUnlock, DropFree, Dropped, Quiet
  <2>2. pc' \notin {"legacy", "header", "derive", "hash", "open"}
    BY <1>3 DEF DropClear, DropUnlock, DropFree, Dropped, Types, RunTypes
  <2> QED
    BY <2>1, <2>2, SameAccept
<1>4. CASE Finish \/ UNCHANGED vars
  BY <1>4, SameAccept DEF Finish, Exit, vars
<1> QED
  BY <1>1, <1>2, <1>3, <1>4, StartAccept, JudgedAccept, KeyAccept, OpenAccept, OutputAccept, EmitAccept
  DEF Next, Program, Over

\* A stream that its writer sealed and nobody changed is never refused for what
\* it is: with the right password it fails only with the reading, the key's
\* memory or the output, unless it is a v1 file beyond MAX_LEGACY_FILE_SIZE.
THEOREM GoodAccepted == Spec => []Accepted
<1>1. AcceptInv => Accepted
  BY DEF AcceptInv
<1>2. Spec => []Types
  BY TypesInit, TypesStep, PTL DEF Spec
<1>3. Spec => []AuthInv
  BY AuthInit, AuthStep, PTL DEF Spec
<1>4. Spec => []AcceptInv
  BY <1>2, <1>3, AcceptInit, AcceptStep, PTL DEF Spec
<1> QED
  BY <1>1, <1>4, PTL
===============================================================================
