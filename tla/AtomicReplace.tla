----------------------------- MODULE AtomicReplace -----------------------------
(***************************************************************************)
(* What one output of Ironlock promises to everyone who looks at the       *)
(* directory, without temporary names, inodes or system calls. The old     *)
(* file is withdrawn as a whole, the new one appears as a whole in the     *)
(* place left empty, and what was withdrawn is put back or kept aside      *)
(* unless it may go. AtomicOutput implements it; Batch builds on it.       *)
(***************************************************************************)
CONSTANTS
    Names,          \* the names everyone sees
    Contents,       \* what may stand under a name
    Links,          \* those of the contents that are symbolic links
    Dest,           \* the name of the output
    New,            \* the output, complete
    None            \* nothing under the name, nothing aside

VARIABLES
    shown,          \* what each name shows
    aside,          \* what the program has taken from Dest and holds privately
    consent,        \* the contents --force, a prompt or absence let it replace
    outcome         \* how far the output has come

promised == <<shown, aside, consent, outcome>>

Outcomes == {"open", "installed", "committed", "undone", "done", "failed", "crashed"}

Init ==
    /\ shown \in [Names -> Contents \cup {None}]
    /\ aside = None
    /\ consent = {}
    /\ outcome = "open"

\* The checks of AtomicOutput::new let one content pass, once.
Approve ==
    /\ outcome = "open"
    /\ consent = {}
    /\ \E c \in {shown[n] : n \in Names} \ {None} : consent' = {c}
    /\ UNCHANGED <<shown, aside, outcome>>

Withdraw ==
    /\ outcome = "open"
    /\ aside = None
    /\ shown[Dest] # None
    /\ aside' = shown[Dest]
    /\ shown' = [shown EXCEPT ![Dest] = None]
    /\ UNCHANGED <<consent, outcome>>

\* The output takes an empty place; what was aside may go. That a link to such
\* a content passes too is the code's (see NoLinkRemoved).
Install ==
    /\ outcome = "open"
    /\ shown[Dest] = None
    /\ aside \in consent \cup Links \cup {None}
    /\ shown' = [shown EXCEPT ![Dest] = New]
    /\ outcome' = "installed"
    /\ UNCHANGED <<aside, consent>>

\* From here on no power cut takes the output back.
Commit ==
    /\ outcome = "installed"
    /\ outcome' = IF aside = None THEN "done" ELSE "committed"
    /\ UNCHANGED <<shown, aside, consent>>

Discard ==
    /\ outcome = "committed"
    /\ aside # None
    /\ aside' = None
    /\ UNCHANGED <<shown, consent, outcome>>

Finish ==
    /\ outcome = "committed"
    /\ aside = None
    /\ outcome' = "done"
    /\ UNCHANGED <<shown, aside, consent>>

\* An error or a refusal, with something left to undo or not.
Abort ==
    /\ outcome \in {"open", "installed", "committed", "undone"}
    /\ outcome' \in {"undone", "failed"}
    /\ outcome' = "failed" => outcome = "undone" \/ aside = None
    /\ UNCHANGED <<shown, aside, consent>>

\* What was withdrawn returns, if its place is still empty.
Restore ==
    /\ outcome = "undone"
    /\ aside # None
    /\ shown[Dest] = None
    /\ shown' = [shown EXCEPT ![Dest] = aside]
    /\ aside' = None
    /\ outcome' \in {"undone", "failed"}
    /\ UNCHANGED consent

\* A power cut may take back what the last sync did not cover, but only at
\* Dest, and never both what stood there and the output.
Crash ==
    /\ outcome \notin {"done", "failed", "crashed"}
    /\ outcome' = "crashed"
    /\ \E kept \in {shown[Dest], aside, New, None},
          held \in {shown[Dest], aside, None} \cup consent \cup Links :
        /\ shown' = [shown EXCEPT ![Dest] = kept]
        /\ aside' = held
        /\ kept # New => {shown[Dest], aside} \subseteq {kept, held, New, None}
        /\ outcome = "open" => kept # New
        /\ outcome = "committed" => kept = shown[Dest]
    /\ UNCHANGED consent

Others ==
    /\ shown' \in [Names -> Contents \cup {None}]
    /\ UNCHANGED <<aside, consent, outcome>>

Own == Approve \/ Withdraw \/ Install \/ Commit \/ Discard \/ Finish \/ Abort \/ Restore

Next == Own \/ Crash \/ Others

Spec == Init /\ [][Next]_promised
===============================================================================
