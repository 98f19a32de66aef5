-------------------------------- MODULE MCMail --------------------------------
(* A small instance of Mail for TLC. *)
EXTENDS Mail

OwnRelay == {[relay |-> "own", enabled |-> TRUE]}
=============================================================================
