------------------------------ MODULE MCSession -----------------------------
(***************************************************************************)
(* An application of five bytes in two sectors, sent in blocks of two and  *)
(* a last one of one; the progress is saved after two of them.  An earlier *)
(* session may have left an update of the same image or of another.        *)
(***************************************************************************)
EXTENDS UpdateSession

CONSTANTS A1, A2

S(a, n, k) == [start |-> a, length |-> n, bank |-> k]
MCSectors == << S(0, 1, 0), S(1, 2, 0), S(3, 2, 1), S(5, 3, 1), S(9, 2, 7) >>

MCImages == {A1, A2}
MCApp == [addr |-> 3, size |-> 5, crc |-> A1]
MCRequests == {MCApp}
MCBlocks == [addr : 3 .. 7, size : {1, 2}, data : {A1, Garbage}, crc : {A1}]
MCEarlier == {[initialized |-> TRUE, start |-> 3, next |-> 7, size |-> 5, crc |-> m] : m \in MCImages}
=============================================================================
