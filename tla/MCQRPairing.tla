----------------------------- MODULE MCQRPairing ------------------------------
(* Instance of QRPairing for TLC. *)
EXTENDS QRPairing
=============================================================================
