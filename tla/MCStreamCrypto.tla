---------------------------- MODULE MCStreamCrypto ----------------------------
(* Small instances of StreamCrypto for TLC. *)
EXTENDS StreamCrypto, Bitwise

\* derive_record_nonce on a four-bit counter: XOR with the header's base.
MCNonce(header, s) == (IF header = "own" THEN 5 ELSE 12) ^^ s
===============================================================================
