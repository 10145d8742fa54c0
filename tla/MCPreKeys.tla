------------------------------ MODULE MCPreKeys ------------------------------
(* Constants for model checking PreKeys.                                   *)
EXTENDS PreKeys
=============================================================================
