------------------------------ MODULE MCRecovery ------------------------------
(* Small instances of Recovery for TLC. *)
EXTENDS Recovery
OnePolicy == {[release |-> 2, take |-> 1, keep |-> 1]}
=============================================================================
