--------------------------- MODULE ImageTransfer ----------------------------
(***************************************************************************)
(* What the updater promises the ground, without flash, EEPROM or packets: *)
(* at most one transfer; its blocks are appended in order; it ends when    *)
(* exactly its size has arrived; a restart loses it or takes it back by at *)
(* most Lag bytes, never to a place it has not been at and never forward.  *)
(***************************************************************************)
EXTENDS Integers

CONSTANTS
    MaxBlock,  \* the largest block
    Lag        \* the most a restart may take back

VARIABLES
    transfer,  \* the transfer in progress and the bytes it has got
    epoch      \* changes with every restart

NoTransfer == [active |-> FALSE, base |-> 0, size |-> 0, done |-> 0]

TransferInit == transfer = NoTransfer /\ epoch = FALSE

Begin ==
    /\ transfer' \in [active : {TRUE}, base : Nat, size : Nat \ {0}, done : {0}]
    /\ UNCHANGED epoch

Append ==
    /\ transfer.active /\ transfer.done # transfer.size
    /\ \E n \in 0 .. MaxBlock : transfer' = [transfer EXCEPT !.done = transfer.done + n]
    /\ UNCHANGED epoch

Finish ==
    /\ transfer.active /\ transfer.done = transfer.size
    /\ transfer' = NoTransfer
    /\ UNCHANGED epoch

\* A restart forgets the transfer, or goes on from an earlier point of it.
TakenBack ==
    {[transfer EXCEPT !.done = d] : d \in (transfer.done - Lag) .. transfer.done}

Restarted ==
    /\ \/ transfer' = NoTransfer
       \/ transfer.active /\ transfer' \in TakenBack /\ transfer'.done >= 0
    /\ epoch' = ~epoch

TransferNext == Begin \/ Append \/ Finish \/ Restarted

TransferSpec == TransferInit /\ [][TransferNext]_<<transfer, epoch>>
=============================================================================
