-------------------------- MODULE MCHandlerPipeline --------------------------
(* Constants for model checking HandlerPipeline.                           *)
EXTENDS HandlerPipeline

CONSTANTS s1, s2

Limited == [from |-> {}, valid |-> TRUE, perMinute |-> 1, perHour |-> 2,
            perSender |-> 1, cooldown |-> 0]

Input(c) == [cfg |-> c, enabled |-> TRUE, cb |-> "absent",
             threshold |-> Absent, reset |-> Absent]

\* Every limit set; a filter, and an invalid action with a cooldown.
Filtered == [Limited EXCEPT !.from = {s1}, !.perSender = 2]
Invalid == [Limited EXCEPT !.valid = FALSE, !.cooldown = 1]

MixedConfigs == {Filtered, Invalid}

\* A breaker with the default values, one that is off, and a disabled handler.
MixedInputs == {Input(Filtered), [Input(Invalid) EXCEPT !.cb = "off"],
                [Input(Filtered) EXCEPT !.enabled = FALSE, !.threshold = 0]}

OneConfig == {Limited}
OneInput == {Input(Limited)}
=============================================================================
