----------------------------- MODULE MCConnection -----------------------------
(* Model checking of Connection; its constants are numbers, set in the     *)
(* configurations.                                                         *)
EXTENDS Connection
=============================================================================
