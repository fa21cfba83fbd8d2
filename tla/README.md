# Ironlock in TLA+

Ironlock (the repository's README: "a password-based authenticated file-encryption
CLI") encrypts and decrypts files. Its two promises are about what nobody tests by
hand: an interrupted, failing or contended run never costs the user a file or
leaves a half-written one under a real name; and a decryption gives out genuine
plaintext or an error. This directory models the code that makes these promises, checks it
with TLC on small instances, and proves its safety properties for every value of the
constants with TLAPS.

    tlc -config AtomicOutputSafety.cfg MCAtomicOutput
    tlc -config Batch.cfg MCBatch
    tlapm AtomicOutputProofs.tla

PROJECT.json lists the runs, the lines of the code behind every definition
(`map`), the hazards with the properties that cover them, the theorems, and for
every property a plausible bug that breaks it (`mutants`). Definitions whose
comment begins with "faulty" exist only for that: no action uses them.

## 1. The system

| component | state | operations | source | module |
|---|---|---|---|---|
| atomic output | the observed destination (an open handle), a temporary file, a quarantined old file, `committed` | `AtomicOutput::new`, `writer`, `commit`, both `Drop`s | secure_fs.rs 23-75, 303-440, 524-711 | AtomicOutput, AtomicReplace |
| shredding | the verified open source, a quarantined source, the pass number | `secure_delete_inner` | secure_fs.rs 144, 266-300, 719-810 | SecureDelete |
| file encryption | the open source | `encrypt_file_to_path`: output, then with `--shred` the shredding | secure_fs.rs 227-240, 932-990 | EncryptFile |
| stream format, version 2 | writer and reader counters, a key derived from password and header | `encrypt_stream`, `StreamDecryptor::new`, `decrypt_to` | stream_crypto.rs | StreamCrypto |
| file decryption, batch guard | the outputs and inputs already claimed | `decrypt_file_to_path_inner`, `DecryptionBatchGuard` | secure_fs.rs 995-1085, 1132-1205 | Batch |
| batch planning | source/destination pairs | `collect_inputs`, `plan_encryption_inputs`, `plan_decryption_inputs` | secure_fs.rs 177-220, 811-930, 1208-1285 | Batch |
| traversal | a stack of directories, the files collected | `collect_files_recursive`, `ensure_safe_directory` | secure_fs.rs 78-140, 1087-1130 | Traversal |
| command flow | counters of done, skipped and failed files; the exit status | `run`, the prompts, `Counters` | main.rs | Batch, Session |
| locked memory | for every secret whether its pages are pinned | `LockedBytes`, `LockedString` | memlock.rs | SecretMemory |
| keys, legacy format | none kept | Argon2 parameter limits, version 1 | crypto.rs | Format, Session |
| command line, errors | none | declarations | cli.rs, error.rs, file_ops.rs | Session |

How they interact. The command flow collects the inputs, plans the outputs, asks
for the password, and calls the file operations one after another, with the
password in locked memory throughout and a key in it for each file. A file
operation opens its source and keeps the handle, writes the stream format into
an `AtomicOutput`, commits it, and only then may shred the source through the
handle it kept. Without file arguments the stream goes from stdin to stdout.
There is one thread. The concurrency is with *other processes of the same user*,
which share the directories and act between any two system calls, with the
*medium*, which receives directory changes later than the program makes them,
and with the *peer* of a pipe, who may be slower, stop or damage what passes.

What is hard, and what correctness means:

* **Atomic output.** `new` looks at the destination five times before it creates
  anything, `commit` four times more, and each look may be out of date at the
  next. `commit` replaces without an atomic replace: it moves the old file
  aside, checks that it is the observed one, moves the output in without
  overwriting, syncs the directory, removes the old file. Correct: output is
  seen complete or not at all, also after a power cut (`DestinationAtomic`); no
  content that the user did not approve for replacement ever loses its last name
  (`NoDataLost`); what was moved aside by a run that fails returns to its own name
  (`PutBack`); nothing temporary stays (`NoTempLeft`); success is durable
  (`CommitIsDurable`). All of it together, as seen by someone who knows nothing of
  temporary names and system calls, is AtomicReplace (`OutputReplaces`).
* **Shredding.** Overwriting hits every name of a file, so it must be done only
  when the one name is the quarantine (`SoleNameOverwritten`,
  `NoAliasShredded`), only to the file that was encrypted, and everything that
  stops before it must cost nothing (`OnlySourceLost`) and put the source back
  under its name (`PutBack`).
* **File encryption.** At every moment, power cut or not, the content exists as
  plaintext or as ciphertext (`PlaintextOrCiphertext`); after success with
  `--shred` no plaintext is left on the medium (`ShredComplete`); the run ends
  whatever others do (`Terminates`).
* **Stream format.** Chunks are handed out before the final record is seen, so
  what a failing reader gave out must already be genuine (`PrefixOnly`), and a
  success must mean the whole (`SuccessIsWhole`). No nonce twice (`NonceOnce`).
  Both ends count in u64 and check the limits at different places, and must
  agree (`RoundTrip`). Every stream gets a verdict (`Decides`).
* **Batches.** The plan is made before the password prompt and used long after.
  Files of one batch may be each other's outputs, by name (`a.txt` and `a.md`
  both want `a.il`, which may be a third source) or as hard links, and the
  filename inside a ciphertext is known only when it has been opened. No file of a
  batch may spoil another's input (`InputsKept`, `NoAliasReplaced`) or output
  (`OutputsStay`), whichever of them fail; a source may go only when its output is
  committed, for a `--shred` may fail with the source already overwritten or
  unlinked (src/README.md 295-298); and the exit status must tell
  (`ExitTellsTruth`). The command ends (`CommandEnds`).
* **Walking paths.** A directory may be moved or replaced by a link between the
  look at it and its use. A walk that succeeds must have found what was there
  all the time, and nothing elsewhere (`NothingMissed`, `NothingElse`); making a
  directory must tolerate another process that makes it too
  (`OnlyObstructed`), but not leave the path (`EnsuredInPlace`); links upwards must not
  make it endless (`Ends`).
* **One process.** What a header claims is used before it can be authenticated:
  Argon2's cost (`WorkBounded`), offsets into a v1 file and a product of parameters
  (`TypeOK`: no slice out of bounds and no overflow, either of which aborts the
  process), the version, which selects another format altogether
  (`Authentic`). The limits must not refuse what the writers produce
  (`Accepted`). Every early return between the prompts and the last file leaves
  secrets in scope (`SecretsGone`), and must lead to the documented exit
  status (`ExitStatus`).

## 2. The modules

    FileSystem ──┬── AtomicOutput ──┬── EncryptFile      StreamCrypto
                 └── SecureDelete ──┘                    Traversal
        AtomicOutput implements AtomicReplace            SecretMemory ─┬─ Session
        Batch is built on AtomicReplace                  Format ───────┘

XProofs holds the theorems about X; there is one for each of AtomicOutput, SecureDelete,
EncryptFile (which takes the two before it as instances), Batch, Traversal, StreamCrypto
and Session, and FileSystemProofs has the lemmas on system calls that the first
two share.
MCX instantiates X for TLC. Four groups do not share variables: the file system
calls of one output (left), the commands over many files (Batch), walking paths
(Traversal), and one process with its secrets and streams (Session). Each is cut where
the code has an interface the next one relies on: Batch takes an output by the
promise that AtomicOutput is shown to keep, Session takes Batch's files by their results.

**FileSystem** is what the code relies on in the kernel, and the other
processes. `dir` maps names to inodes; `files` gives each inode its contents as
written and as on the medium; `open` says which inode each handle of the program
pins (an inode number is reused once no name and no handle has it, which is why
the code compares identities against *open* handles). `images` is the set of
directories a power cut may leave: every change is applied to all the images and
added to them, `SyncDirectory` reduces them to the present one. So unsynced changes may survive
independently and in any subset, but one rename is never split.
Contents are model values: the user's (all different), `blank`, `partial` and
`whole` for Ironlock's output, `noise` for a shredded file, and a name for a
symbolic link to it. `born` and `discarded` are history: which of the user's
contents existed, and which ones others took the last name of.
Other processes create, link, rename (also over a name) and remove files under
the user's names. They do not touch the `.ironlock-*.tmp` names: these carry
random bytes, and the loops over names that are taken are for leftovers, which
`FilesInit` includes. What others do is on the medium at once, with the changes made
before it, as by a journal that keeps the order; so a loss in a power cut is always
the program's own doing. Both are limits of the model. Temporary
names can be listed, and a hard link to the quarantine made between the link count
(secure_fs.rs:748) and the passes (758) would be overwritten with it: nothing
in the code prevents that, so no property could hold there, and the
hazard is listed without one. And on a medium that reorders changes an image may lack a change
of the program and have a later one by others; the images without any later
change are all there. A link leads to the end of a chain of links (`Ends`), or nowhere if the chain closes.

**AtomicOutput**. `pc` names the system call about to be made; an action is that
call with all the code up to the next one. `Stat`, `OpenObserved`, `Check`,
`Prompt`, `Recheck`, `CreateTemp` are `AtomicOutput::new` with
`check_overwrite` and `create_private_temp`; `Write` is the caller; `SyncOutput`
to `SyncRemoval` are `commit` with `QuarantinedFile::new` and `remove`;
`Restore` and `Cleanup` are the two `Drop`s. Every early return goes through
`Unwind`, in Rust's drop order: the local quarantine first, then the
output. `IoError` is any call failing, `IgnoredError` a failing call inside a
`Drop`. A call that reports an error has had no effect; a failing fsync of the
directory leaves the images as they were. A write that fails half-way is a
`Write` (or `Overwrite`) followed by the error of the next call.

**SecureDelete** is `secure_delete_inner` in the same style, from
`verified_source_file` through the quarantine, the link count, three synced
passes, and the removal. The holder `Expected` is the caller's handle. The
length and the bytes of a pass are left out: a pass that began counts as the
content being gone, and an error within a pass is an error after it began. An error of the last
two calls leaves the source overwritten and put back, or gone. It is checked alone (two faults, names found taken) and
inside EncryptFile.

**EncryptFile** composes the two by `INSTANCE ... WITH` over one file system and
adds `paths_refer_to_same_file`, the opening of the source, and the order of the
parts. In this module only, a run without `--shred` keeps the `Reading` handle
until it ends where the code closes it a little earlier; nothing depends on it,
as no comparison with that handle follows.

**StreamCrypto** is both ends and the stream between them. A plaintext byte is
its position, a chunk the interval `<<from, to>>`. A record carries what it says
(`type`, `seq`), what it was sealed with (`seal`: key, nonce, associated data)
and whether its body still agrees; `Opens` is the AEAD, symbolic: it accepts
exactly the key, nonce and associated data of the sealing. `Damage` truncates,
cuts within a record, drops, repeats, reorders, alters fields, inserts records
of another stream under the same password, and exchanges the header. The writer
may stop anywhere. `Nonce` is a constant operator: what the code does
(XOR of the sequence number into the base) is used only through its being
injective. The counters are u64 with limit `MaxWord`; `Fits` and `Counted`
are the checked additions of the two ends. Byte layout and allocation are left out.

**AtomicReplace** is what one output promises, over what each name *shows*: the old
file is withdrawn as a whole, the output appears as a whole in the empty place,
the old file goes for good only when the checks have let it pass and the output is
durable, and otherwise returns or is kept aside. A power cut keeps one of the two.
The refinement mapping (end of AtomicOutput) takes a name for the content it shows,
`aside` for the content of the quarantine, `consent` for the approved
contents, and `Progress` from `pc`. `OutputReplaces` states `Replace!Spec` and, as
`Replace!Others` may do anything to the names, also that every change of what the abstract
variables show is a step of `Others`, of the abstract program or of its `Crash`.

**Batch** is `run()` with file arguments. A path is the sequence of its
components and need not be normalized (`Place` is the name it means); a file is its
identity, as `same_file::Handle` compares it. Links lead to names (`LinkTo`), and `Key`, `Identity`
and `Exists` follow them as `fs::canonicalize`, `Handle::from_path` and `exists` do: a default
output that is a link to its own source has the source's key, and gets a unique name. `Collect`, `Sort`,
`Identify`, `NoteDefault` and `Assign` are the planning, one input or one file per step, so that others act
in between; `Password` separates plan and use. Per file, `EncryptSource`, or
`DecryptSource`, `ChooseOutput` (with `Sanitized` for the filename inside) and
`Reserve` (`DecryptionBatchGuard::reserve`) lead to the output, whose steps are
those of AtomicReplace by `INSTANCE ... WITH`. `Shred` comes after the output, with every end
that SecureDelete has: the source gone, or an error with the source as it was,
left under its temporary name, overwritten and put back, or unlinked all the same (`overwritten` and the
history `results`, with `committed`, tell them apart). Every call may fail: `Drop` ends a file,
`Conclude` counts it and goes on to the next. `late` holds the
names changed since the guard looked: what others put there afterwards
is a matter of the output, not of the guard. Walking a directory is one step
here; Traversal has its parts.

**Traversal** has `collect_files_recursive` and `ensure_safe_directory` call by
call over a tree with links. `Canonical` and `At` are the kernel's path
resolution (recursive functions over paths of any length); links in the path of a link are followed
in turn, as often as there are links (`Leads`), and a path that still ends at a link has no canonical form. A new directory is one of
`Unmade`, which nothing leads to and nothing is in. Others remove, create, move and exchange
entries (renameat2). Canonicalization of a path is one step: what happens while the kernel
follows it is not observable to the program except as one of the results before
or after. `Pop` takes all names of a directory at once, where `read_dir` delivers them lazily: a name
that comes or goes in between has been changed, and the properties except it.

**SecretMemory** is memlock.rs over pages. A region lies on one or more pages, and the
system pins pages, not regions: pinning is not counted. `holds` separates the
text from the spare capacity. Clearing, unlocking and freeing are three steps.

**Format** is what both headers say, the limits and `validate_kdf_params` in
arithmetic of a fixed word, an overflow being a panic (Cargo.toml, `overflow-checks`), and the verdicts of the readers before a key
exists. `Taken` is the v1 body as it is read, one byte beyond the limit and no further, so that a body
that was cut short shows its length there (`TooLarge`). A stream carries what its writer sealed as history (`written`);
`OpensLegacy` and `OpensMetadata` are the AEAD, symbolic. Sizes and offsets are the code's.

**Session** is one process: `Parse` (clap's rules and the exit status 2), `Inputs` (what
is refused before a prompt), the prompts, then per item the output of an encryption with its
errors and its overwrite question (`Output`, `Overwrite`), the header, the key derivation, the output of
a decryption, whose filename is known only then, and the result, and at every end of a scope the drop of its
secrets in Rust's order (`Leave`, `DropClear`, `DropUnlock`, `DropFree`,
`Latest`: last declared first). What Batch and StreamCrypto detail is here one step with all its results
(`Inputs`, `Seal`, `Emit`).

## 3. The runs

| run | question | instance | distinct states |
|---|---|---|---|
| AtomicOutputSafety | is output complete, durable, and the user's data safe? does it implement AtomicReplace? | 2 user names, 2 temporary names, 4 inodes, 2 contents, 3 changes by others, 2 tries, 1 error | 260 000 |
| SecureDelete | what may shredding hit, what may it lose? | 2+2 names, 3 inodes, 2 contents, 4 changes, 2 tries, 2 errors | 45 000 |
| EncryptFile | plaintext or ciphertext at any moment? | 2+2 names, 4 inodes, 3 changes, 1 try, 1 error | 256 000 |
| EncryptFileEnds | does it end? | 3 inodes, 1 content, 1 change | 69 000 |
| StreamCrypto | what may a damaged stream give out? do the two ends agree up to the limits? | chunks of 2, u64 limit 5, plaintext up to 6, two changes or errors | 447 000 |
| Batch | do files of a batch spoil each other? is the exit status true? does it end? | 2 or 3 files in 2+2 directories, 24 commands (which inputs, `--force`, `--shred`, `--output`), 1 change by others | 1 000 000 |
| Traversal | is all found, nothing else, in place? | 7 directories, 3 files, 4 links, a pipe; files looked for up to depth 5; 1 change | 49 000 |
| Session | is the work bounded, plaintext authentic, no secret left, the exit status true? | 16 command lines, up to 2 items, 2 pages, 67 streams, a 6-bit word | 259 000 |
| AtomicOutputLeftover, -Asked, -Links, SessionUnlocked | the four findings | as AtomicOutputSafety and Session | stopped at the violation |

Why the bounds are enough to be interesting.

*Output and shredding.* A race on the destination needs its name,
one to move a file to and back, a file of the user in each, the output and a
leftover: two names, four inodes. Three changes by others make
the longest pattern the code defends against (move the destination away, put
something else there, move it back), and four for shredding allow linking, moving and replacing
together. Two temporary names with two tries make each loop over taken names
succeed at once, succeed late, and give up (a name may be drawn twice). One error per run reaches every
early return, and two (SecureDelete) an error in the recovery from an error.
Every directory the programs can start in is an initial state: absent or
present destination, a link there, leftovers of a crashed run in the temporary
names. SYMMETRY is over inodes, temporary names and contents, in safety runs only.

*Streams.* Chunks of two give the empty, short, full, one-and-a-half, two- and
three-chunk plaintexts; two changes allow an exchange of records (insert one,
drop one) and a header with a foreign record. The plaintext may exceed what the
counters hold, so both ends run into their limits.

*Batches.* The commands and directories are those in which files meet: two
sources with one default output, a source that is another's default output, a
source given twice, two ciphertexts with the same filename inside, one with the
name of a pending input, one with no usable filename, one that does not open; an output
that is absent, old, or a link to the source or elsewhere. One change by others at any time makes a stale plan
(rename, remove), and a hard link to a pending input (`OthersLink`). Two
random names per directory of sources let the choice of a unique name succeed once, twice or fail.

*Traversal.* A subdirectory, a link out, up, to a file or through another link, and a special file; a walk
starts at a directory or behind a link to one above it; the
change may move a directory that waits on the stack, or exchange one with a link.
Three directories can be made (`Unmade`), as many as a path asks for. Two bounds are
of the quantifiers only, not of the behaviour: `Shallow` (what `NothingMissed` looks for) and
the depth of requests.

*Session.* With a six-bit word `8 * parallelism` can overflow (8 * 8 = 64), which the
order of the checks prevents. Every limit is met from both sides, each header field
changed alone; sizes are those around the prefix, either header and the limit. Regions lie on
page 1 or on 1 and 2, so any two share a page. Two items let one fail and the
other succeed in either order.

Every specification has `Over`, a stuttering step of a run that ended, so that
TLC's deadlock check, left on in every run, finds any state in which the code
could not go on.

**Fairness.** Weak fairness of the program's own steps: `Terminates` of
`Step`, `Decides` of the writer's and the reader's steps, `CommandEnds` of `Run`,
Traversal's `Ends` of `Collect \/ Secure`, Session's `Ends` of `Program`. Each is
one sequential program, whose next
call the operating system makes sooner or later; in a pipe the two ends are
scheduled independently. Prompts are excepted: nobody can be made to answer. In
EncryptFile, Batch and Session fairness holds only outside `Asking`, and the properties
allow a run to wait there for ever. In Session `Asking` is each password prompt, the question before
a file is overwritten, and, for a stream, every read from and write to the pipe, whose
other end may be idle for ever. Nothing is assumed of others, of errors outside the
program's own calls, of damage, or of power cuts. `Write` may repeat (a long
file) and may finish; weak fairness of `Step` alone would allow it to write for
ever, but a repeated `Write` leaves the file as it is and is a stuttering step in
the model, so fairness eventually takes a step that counts. That a plaintext is finite is thereby assumed.
Changes by others are bounded, so in a run they come to an end; the steps of the
program make progress also while they last, except that a tree can be walked for
longer while others extend it.

## 4. What is proved

Every safety property that the runs check is a theorem, for every value of the
constants that satisfies the named assumptions, and so is the refinement.
EncryptFile's type invariant is proved without a run of its own: it is that of its parts, which their runs check. TLC evaluates
the assumptions in the runs. They say

* `NamesAssumption`: names, contents and `None` are told apart, and there are finitely
  many names (a directory is finite; links are counted);
* `OutputAssumption`, `ShredAssumption`, `EncryptAssumption`: which names and handles
  the program has, the handles of one run being distinct, and bounds that are
  numbers;
* `StreamAssumption`: chunks of two bytes or more (the code has 64 KiB) and a
  word of at least 5; `NonceAssumption`: `Nonce` is injective in the sequence number;
* `BatchAssumption`, `PathAssumption`: outputs have identities of their own; the
  constants for names, inside names and default outputs fit each other; only
  normalized names are in `Names`;
* `FormatAssumption`: the limit on parallelism fits the word; `MemoryAssumption`: an
  allocation is somewhere; `SessionAssumption`: command lines and streams
  are well formed, and what a stream says was `written` is something the writers
  produce (`Sealed`);
* `TraversalAssumption`: the kinds of objects are disjoint, and a directory that does
  not exist yet has no entries.

**AtomicOutputProofs.**
`TypeCorrect`, and on top of it two invariants.
* `OutputAtomic` (`DestinationAtomic`). A step
  is safe because of what holds of files that are *not* at a user's name, so
  `AtomicInv` adds: the present directory is among the images;
  in every image output at a user's name is whole and synced (`Published`);
  while it is written no image shows the temporary file under a user's
  name (`PrivateWhileWritten`); from `withdraw` on it is synced
  (`SyncedBeforeInstall`); what was moved aside and may be restored is not
  unfinished output (`AsideSettled`).
* `NothingLost` (`NoDataLost`), `TempsRemoved` (`NoTempLeft`), `Committed`
  (`CommitIsDurable`), from `LossInv`. A power cut may leave any image, so a
  statement about the directory is no invariant: all parts speak of every
  image. `ImagesUnmoved` and `ImagesMoved` say where an image may still differ from the directory;
  `Strict`, that until the output is installed every image keeps every content, and `NoLoss`,
  that afterwards it may lack only what was let pass, and then has the output;
  `Observing` and `AsideCleared`, that what is aside when the output is installed has the content that was
  let pass, or is a link; `OldForeign`, `TempAlone` and `WholePublic`, that it
  is not the output itself.
* `OldPutBack` (`PutBack`), from `PutInv`: while a file is aside, its name is taken only
  after a change by others, or by the output (`OutputOut`), which others lose only by discarding it.
* `Replaces` (`OutputReplaces`): AtomicOutput implements AtomicReplace. The initial states map, and
  each action maps to one abstract action or to a stutter, one lemma
  per group. `PlacesInv` is what the mapping needs beyond `LossInv`: where the
  images show what is aside (`DestKept`, `AsideKept`, `AsideOnce`), and that the
  directory is synced before the old file is removed (`DestSynced`), so that a power cut
  is the abstract `Crash`.

**SecureDeleteProofs.** `ShredTypeCorrect`.
* `SoleNameOnly` (`SoleNameOverwritten`, an action property): from `SoleInv`, the
  victim is the file the caller read (`Matched`), it is under the quarantine
  (`Quarantined`), and from the count of links on under no other name (`SoleName`),
  which others cannot undo, as they do not see the quarantine.
* `SourceOnly` (`OnlySourceLost`): `LossInv` follows the overwriting through the medium:
  before it every image keeps everything (`OneImage`, `Moved`), afterwards only
  one file differs (`OneWritten`), it is as far as `passes` says (`Overwritten`),
  and all contents but its own are kept (`KeptRest`).
* `SourceReturned` (`PutBack`), from `ReturnInv`: each early return after the withdrawal
  leads to the restore, and after the passes only an error leads there, as the comparison before the removal
  cannot fail (`ConfirmPasses`).

**EncryptFileProofs.** The parts are instances of the two modules above, so that
every step of a part keeps the part's invariants by their lemmas; the new work
is the handing over. While output is made (`MakeInv`), nothing is noise, and the source is
held and is on the medium in one file (`SourceHeld`, `Single`);
between the parts all is flushed (`Flushed`); while shredding (`ShredInv`) the ciphertext is
kept in every image unless others remove it (`CipherKept`), and what is overwritten is the source that was
encrypted (`SourceShredded`), which no image shows elsewhere (`VictimHidden`). From these:
`EncryptTypeCorrect`, `SourceOrCiphertext` (`PlaintextOrCiphertext`), `AliasesSpared`
(`NoAliasShredded`), `PlaintextGone` (`ShredComplete`).

**BatchProofs.** `BatchTypeCorrect`, with `Flow`: how much of the plan and of the loop
is behind the command; the outputs are steps of AtomicReplace, taken apart in
`Replacing`.
* `InputsStay` (`InputsKept`: a source is where it was found, not overwritten, until its
  own `--shred`, and its output is committed by then) and `OutputsRemain` (`OutputsStay`, also for files whose shredding
  failed), for any number of files: from `ClaimInv`, every source is among the claimed names and identities
  (`SourcesClaimed`), and outputs are reserved one by one and differ from
  all claimed before (`OutputsReserved`).
* `CiphertextsKept` (`NoAliasReplaced`): from `AliasInv`, from the reservation to the
  withdrawal no name leads to another file than the guard saw, unless others
  change it, and what is aside is that file.
* `ExitTruthful` (`ExitTellsTruth`): every verdict is counted once (`Counted`).

**TraversalProofs**, for trees, links and paths of any size.
`At` and `Canonical` are recursive functions. Their equations, and what they say of
every path, are proved by induction in the form the provers can use: a set of numbers that has 0
and is closed under successor is `Nat` (from the least element of the complement), a
set of paths that has `<<>>` and is closed under one more name has all. `Grown` says what
any step does to the tree: an entry changes with a trace in `touched`, or was
free and leads to a directory with nothing in it. Hence what an undisturbed path leads to
stays (`Steady`), and if nothing is touched so do canonical paths
(`CanonicalSteady`).
* `WalkTypeCorrect` (`TypeOK`): the stack holds paths below the root.
* `AllFound` (`NothingMissed`): a file that is there is found, or below something the
  walk has still to look at: the stack, the names to do, or the directory at hand
  (`MissedInv`).
* `OnlyBelow` (`NothingElse`): what the walk holds is a directory where it says
  (`Places`), and no two parts of it lie in each other, nor a file found in
  any of them (`Distinct`), so that nothing comes twice.
* Both `NothingElse` and `EnsuredInPlace` speak of runs that others disturb: only the paths whose own
  components others have changed are excepted (`Undisturbed`), not the run.
* `MadeInPlace` (`EnsuredInPlace`) and `Unobstructed` (`OnlyObstructed`): the component at
  hand is looked for in a directory (`EnsureInv`), so `create_dir` acts where the path
  says, and after it the component is there, whoever made it.

**StreamCryptoProofs.**
* `StreamTypeCorrect`: in particular no counter passes
  the limit, which is what the checked additions are for.
* `NoncesUnique` (`NonceOnce`), from `WrittenInOrder` (record k has
  sequence k - 1) and the injectivity of `Nonce`.
* `PlaintextPrefix` and `NoTruncation` (`PrefixOnly`,
  `SuccessIsWhole`), for every length of stream, every amount and
  order of damage. `StreamInv` says where the writer is, that
  the written records are the plaintext in order, that every intact record on
  the tape with this stream's seal has the body of a written record with the
  same seal (`TapeGenuine`; a record whose outer fields were changed no longer opens), and that
  the reader's counters are those of the written prefix it has consumed
  (`ReaderPlace`). Damage is then harmless because it preserves
  `TapeGenuine`, whatever it does to the order.
* `StreamsRoundTrip` (`RoundTrip`): without damage the tape is what was written next (`Followed`), and the
  writer's counters tell how much there is (`Tallied`). The reader checks its limits at other places than the
  writer; that it refuses nothing needs two bytes in every record but the last, so the plaintext
  reaches its limit before the sequence numbers do.

**SessionProofs**, for any command lines and number of files, any streams, limits and word
size that hold the limits, and any layout of the secrets in memory.
* `BoundedWork` (`WorkBounded`), from `ValidBounded`: what
  `validate_kdf_params` lets pass is within the limits.
* `TrueExitStatus` (`ExitStatus`), from `Counted`, which relates the
  items left, the failures and the last result at the head of the loop
  and at its end, also while secrets are dropped on the way there.
* `AuthenticPlaintext` (`Authentic`), from `AuthInv`: `Emit` is reached
  only for a stream that opened, and nothing has been handed out before.
* `GoodAccepted` (`Accepted`), from `AcceptInv`: each version is read by its own reader, and an
  intact stream, being `Sealed`, passes every check of that reader.
* `NoSecretsLeft` (`SecretsGone`), from `SecretsInv`: at each point of
  `run` an upper bound of what is in scope (`Early`, `Alone`, `Keyed`), during a drop
  how far the region at hand has come, and `Tidy`: a region that is not
  allocated holds nothing, and every pinned page belongs to a locked
  region. The last part is why unlocking a shared page (finding 4) is harmless here:
  it unpins too much, never too little.
* `SessionTypeCorrect` (`TypeOK`), in particular that no header leads to
  a slice out of bounds (`SlicesInBounds`) or to an overflow (`NoOverflow`).

The strengthened invariants were checked by TLC on the runs' instances before they were
proved. Proving corrected the model in three places that TLC's instances had not
shown: others could move a file *into* a directory not made yet (`OthersRename` did
not ask that there is something to move); files below a root
that is reached through a link above it were not counted as found (`Below` compared with the path
requested, not with its canonical form); and a `CASE` without a default in
`Progress` left the refinement mapping undefined where it did not matter.

**Only model-checked** are the liveness properties, `Terminates`, `Decides`, `CommandEnds` and both
`Ends`: they rest on fairness and so on ENABLED, which the prover does not handle. The four
findings are runs as well.

## 5. Findings

Each is a run whose one property, taken from the repository's own words, TLC
violates. The first three need a crash, or another process acting in a small window;
the fourth happens whenever two secrets share a page.

1. **A leftover may be the user's only copy** (AtomicOutputLeftover).
   README.md 276-278 calls what a crash leaves an "owner-only" file among
   "temporary outputs". When a destination is being replaced, `commit` first
   moves the user's old file to such a name; a crash there leaves the old
   file, with its own permissions, as the leftover, and before the
   installation it is the only copy.
2. **Replacing without being asked** (AtomicOutputAsked). `check_overwrite`
   approves an absent destination (secure_fs.rs:53). If the destination
   observed before is away exactly at that check and back at the
   identity comparison (563), it is replaced without `--force` or prompt.
3. **A link is removed** (AtomicOutputLinks). The check on the quarantined
   destination (secure_fs.rs:597) follows symbolic links; README.md 205 says links
   are rejected. If others move the observed file away and put a link
   to it in its place, the link is taken for the file and removed, and the
   output takes its place. The file itself is kept under its new name.
4. **A secret in use is unpinned** (SessionUnlocked). memlock.rs 132-133 promises of a
   `LockedString` that it is "locked when possible and zeroized before it is
   unlocked". munlock works on whole pages and does not count, so dropping the
   confirmation of the password, or the key of a file, unpins the page for the password
   if it lies there too; its field `locked` stays true. It may then be paged out
   until it is cleared. Cleared it always is: `NoSecretsLeft`, section 4.

## 6. Not modelled

* Targets without an atomic no-replace rename (secure_fs.rs 468-484, 513-522),
  where the code links the output and then unlinks its temporary name (other Unix), or looks and
  then renames (neither Unix nor Windows); and that syncing a directory
  does nothing outside Unix. The model has
  renameat2 and its counterparts on macOS and Windows.
* Others acting on the temporary names, and their unsynced changes (section 2, FileSystem).
* Others writing into existing files. An identity check cannot see that, and
  the code does not claim to; it is in the hazards without a property.
* The byte layout of headers and records: sequential parsing, where a unit test
  says more than a model of it. What the fields decide is in Format.
* Help texts, aliases, messages, progress bars, allocation.
* That the AEAD and Argon2 are secure. It is the assumption under which the
  properties of the streams hold. It includes that the version byte cannot be exchanged: all of the header is
  authenticated with each record (stream_crypto.rs:74-79), and the symbolic cipher takes it so.
* Signals: the program has no handler; a kill is
  a crash, with the leftovers of finding 1, and its memory goes as it is. So it would with a panic, which
  aborts (Cargo.toml); `TypeOK` of Session says that the two that are modelled do not happen.

## 7. Plan

No component is waiting to be modelled, and no safety property to be proved. What
could be added:

1. an abstract specification of shredding (one file goes, or nothing does), as
   AtomicReplace is for output, with SecureDelete shown to implement it; EncryptFile's
   promises from the two abstract ones;
2. for Session, that its one-step `Emit` and `Inputs` are abstractions of
   StreamCrypto and Batch;
3. the progress steps behind `Terminates` and `Ends` as safety: a measure that
   every step of the program lowers.
