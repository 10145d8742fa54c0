--------------------------- MODULE MCMessageReceive ---------------------------
(* Constants for model checking MessageReceive.                            *)
EXTENDS MessageReceive

CONSTANTS m1, m2

\* One message of any kind.
AnyKind == [Msgs -> Kinds]
=============================================================================
