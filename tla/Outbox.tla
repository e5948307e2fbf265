-------------------------------- MODULE Outbox --------------------------------
(***************************************************************************)
(* What AMirror's sending side promises the program: every message that is *)
(* submitted goes out once, and the fragments of a split message go out in *)
(* order with no other message in between.  Messages that wait may be      *)
(* taken in any order.  Module AMirrorLink is shown to implement this.     *)
(***************************************************************************)
EXTENDS Naturals, Sequences

CONSTANTS
    Out,     \* the messages the program may submit
    Frags    \* Frags[m]: the number of frames message m is sent as

VARIABLES
    waiting,  \* messages submitted of which no frame has gone out
    sending,  \* <<m, i>>: i frames of m have gone out; << >>: none in progress
    sent      \* the messages that have gone out, in order

vars == <<waiting, sending, sent>>

Init == waiting = {} /\ sending = << >> /\ sent = << >>

Submit(m) ==
    /\ m \notin waiting
    /\ m \notin {sent[k] : k \in DOMAIN sent}
    /\ sending = << >> \/ sending[1] # m
    /\ waiting' = waiting \union {m}
    /\ UNCHANGED <<sending, sent>>

\* Frame i + 1 of m goes out; it is the message's last, or more are to come.
Frame(m, i) ==
    IF i + 1 = Frags[m]
      THEN sending' = << >> /\ sent' = Append(sent, m)
      ELSE sending' = <<m, i + 1>> /\ UNCHANGED sent

Begin(m) ==
    /\ sending = << >>
    /\ m \in waiting
    /\ waiting' = waiting \ {m}
    /\ Frame(m, 0)

Continue ==
    /\ sending # << >>
    /\ Frame(sending[1], sending[2])
    /\ UNCHANGED waiting

Next == (\E m \in Out : Submit(m) \/ Begin(m)) \/ Continue

Spec == Init /\ [][Next]_vars

=============================================================================
