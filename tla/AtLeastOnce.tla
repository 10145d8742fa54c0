----------------------------- MODULE AtLeastOnce -----------------------------
(***************************************************************************)
(* What receiving a message promises its sender, without saying how.  A    *)
(* delivery receipt makes the server forget the parts of a stanza.  A safe *)
(* receiver sends it only once the event handlers have had every part; the *)
(* other kind only once it has opened every part.                          *)
(***************************************************************************)
CONSTANT Parts

VARIABLES
    safe,       \* the kind of receiver, chosen once
    opened,     \* parts that have been decrypted
    finished,   \* parts that the handlers have had
    receipted   \* parts that the server has forgotten

promiseVars == <<safe, opened, finished, receipted>>

Init ==
    /\ safe \in BOOLEAN
    /\ opened = {} /\ finished = {} /\ receipted = {}

Open ==
    /\ \E p \in Parts : opened' = opened \cup {p}
    /\ UNCHANGED <<safe, finished, receipted>>

Finish ==
    /\ \E p \in Parts : opened' = opened \cup {p} /\ finished' = finished \cup {p}
    /\ UNCHANGED <<safe, receipted>>

\* One receipt covers all parts of a stanza.
Receipt ==
    /\ receipted \subseteq receipted'
    /\ receipted' \subseteq receipted \cup (IF safe THEN finished ELSE opened)
    /\ UNCHANGED <<safe, opened, finished>>

Next == Receipt \/ Open \/ Finish

Spec == Init /\ [][Next]_promiseVars
=============================================================================
