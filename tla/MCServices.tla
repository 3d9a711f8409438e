----------------------------- MODULE MCServices -----------------------------
(***************************************************************************)
(* Three buffers, so that a command, its clone and a packet of another     *)
(* service fill the pool.  The lines have no, one and several parameters,  *)
(* spaces at their end and more than one between, and commands that fit    *)
(* none.                                                                   *)
(***************************************************************************)
EXTENDS Services

MCRegistered == << [name |-> "help", expected |-> 0], [name |-> "echo", expected |-> -1],
                   [name |-> "set", expected |-> 1] >>

MCLines == { <<"help">>, <<"help", " ">>, <<"echo", " ", " ", "a", " ", "b", " ">>,
             <<"set">>, <<"set", " ", " ", "a">>, <<"seta">>, <<>> }
=============================================================================
