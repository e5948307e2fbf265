---------------------------- MODULE MCAMirrorLink ----------------------------
(* Instances of AMirrorLink for TLC.                                        *)
EXTENDS AMirrorLink

CONSTANTS text, list, nav, radio

From(d, kind, i) == [from |-> d, to |-> Me, kind |-> kind, n |-> 2, i |-> i]

MCOut == {text, list}
MCDest == [m \in MCOut |-> IF m = text THEN radio ELSE nav]
MCFrags == [m \in MCOut |-> IF m = text THEN 2 ELSE 1]
BusArrivals == <<{From(radio, "frag", 0), From(nav, "deny", 0)},
                 {From(nav, "frag", 1), From(radio, "frag", 1), From(radio, "resend", 0)}>>
NoArrivals == << >>
MCTries == [b \in BOOLEAN |-> 1]

=============================================================================
