------------------------------- MODULE MCBoot -------------------------------
(***************************************************************************)
(* Boot with a uint32_t of seven values.  A byte is a whole word: a record *)
(* that is erased or lacks its tail has six attempts.                      *)
(***************************************************************************)
EXTENDS Boot

S(a, n, k) == [start |-> a, length |-> n, bank |-> k]
MCSectors == << S(0, 1, 0), S(1, 1, 0), S(2, 2, 1), S(5, 1, 7) >>
=============================================================================
