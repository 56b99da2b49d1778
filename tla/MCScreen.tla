------------------------------ MODULE MCScreen ------------------------------
(***************************************************************************)
(* The prompt and the chat on two small terminals, with characters of one, *)
(* two and three bytes.                                                    *)
(***************************************************************************)
EXTENDS Screen

MCSizes == {[cols |-> 7, lines |-> 9], [cols |-> 6, lines |-> 8]}
=============================================================================
