---------------------------- MODULE MCAtomicOutput ----------------------------
(* Small instances of AtomicOutput for TLC. *)
EXTENDS AtomicOutput, TLC

CONSTANTS dst, other, t1, t2, i1, i2, i3, i4, old, new, observedHandle

MCUserNames == {dst, other}
MCTempNames == {t1, t2}
MCInodes == {i1, i2, i3, i4}
MCUserData == {old, new}
MCHolders == {observedHandle}

Symmetry == Permutations(MCTempNames) \cup Permutations(MCInodes) \cup Permutations(MCUserData)
===============================================================================
