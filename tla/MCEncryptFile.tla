----------------------------- MODULE MCEncryptFile -----------------------------
(* Small instances of EncryptFile for TLC. *)
EXTENDS EncryptFile, TLC

CONSTANTS src, dst, t1, t2, i1, i2, i3, i4, plain, old, reading, observing, shredding

MCUserNames == {src, dst}
MCTempNames == {t1, t2}
MCInodes == {i1, i2, i3, i4}
MCUserData == {plain, old}
FewInodes == {i1, i2, i3}
FewData == {plain}
MCHolders == {reading, observing, shredding}

Symmetry == Permutations(MCTempNames) \cup Permutations(MCInodes) \cup Permutations(MCUserData)
===============================================================================
