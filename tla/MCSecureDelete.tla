---------------------------- MODULE MCSecureDelete ----------------------------
(* Small instances of SecureDelete for TLC. *)
EXTENDS SecureDelete, TLC

CONSTANTS src, other, t1, t2, i1, i2, i3, plain, old, reading, shredding

MCUserNames == {src, other}
MCTempNames == {t1, t2}
MCInodes == {i1, i2, i3}
MCUserData == {plain, old}
MCHolders == {reading, shredding}

Symmetry == Permutations(MCTempNames) \cup Permutations(MCInodes) \cup Permutations(MCUserData)
===============================================================================
