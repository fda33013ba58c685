------------------------ MODULE MCSubscriptionStream ------------------------
(* Bounded instances of SubscriptionStream for TLC.                        *)
EXTENDS SubscriptionStream

Plain == [event |-> TRUE, numbered |-> TRUE, inline |-> FALSE, newest |-> FALSE, replay |-> TRUE]

\* The default for an EVENT topic, each option changed alone, and a TELEMETRY
\* topic in both modes.
MCConfigs ==
    {Plain,
     [Plain EXCEPT !.newest = TRUE],
     [Plain EXCEPT !.replay = FALSE],
     [Plain EXCEPT !.numbered = FALSE],
     [Plain EXCEPT !.inline = TRUE],
     [Plain EXCEPT !.event = FALSE],
     [Plain EXCEPT !.event = FALSE, !.inline = TRUE]}
=============================================================================
