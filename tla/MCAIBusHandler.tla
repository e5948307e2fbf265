--------------------------- MODULE MCAIBusHandler ---------------------------
(* Instances of AIBusHandler for TLC: which messages the programs write.    *)
EXTENDS AIBusHandler, TLC

CONSTANTS radio, nav, phone

\* Message number id from s to r, of that many units of data.
Msg(s, r, id, units) ==
    [t |-> "msg", s |-> s, r |-> r, n |-> 1, i |-> 0, d |-> [p \in 1..units |-> <<id, p - 1>>]]

\* Two devices write to each other, one of them twice.
CrossScript == radio :> <<Msg(radio, nav, 1, 1), Msg(radio, nav, 2, 1)>> @@ nav :> <<Msg(nav, radio, 3, 1)>>

\* One split message.
OneSplitScript == radio :> <<Msg(radio, nav, 1, 2)>> @@ nav :> << >>

\* Two devices send split messages to a third.
SplitScript == radio :> <<Msg(radio, phone, 1, 3)>> @@ nav :> <<Msg(nav, phone, 2, 2)>> @@ phone :> << >>

\* Bound: only frames of the longer of the two split messages are repeated.
OnePairRepeats == repeated \subseteq {<<radio, phone>>}

=============================================================================
