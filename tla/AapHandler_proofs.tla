--------------------------- MODULE AapHandler_proofs ---------------------------
(***************************************************************************)
(* Proofs about the connection to an Android phone, for any media          *)
(* channels, requests, session numbers and bounds.                         *)
(***************************************************************************)
EXTENDS AapHandler, TLAPS

(***************************************************************************)
(* What is on its way.                                                     *)
(***************************************************************************)
Types == {"version_request", "version", "ssl", "auth", "sdr", "sdr_request", "sdr_response", "garbage",
          "open", "open_response", "setup", "config", "focus", "video_focus", "start", "data", "stop", "ack",
          "ping", "ping_request", "nav_focus", "byebye", "audio_focus", "binding", "sensor",
          "sensor_request", "sensor_response", "batch"}
Wire == [chan : Channels, type : Types, key : Nat, arg : Nat]
Frames == [m : Wire, part : Int, of : Int]
ChannelState == [at : {"closed", "opening", "open", "setup", "focus", "ready", "started"}, session : Nat, part : Nat, sent : Nat, acks : Nat]
PhoneState == [at : {"idle", "version", "ssl", "sdr", "up"}, key : Nat, ch : [Media -> ChannelState]]

Session == [id : Nat, state : {"null", "begun", "answered", "done", "broken"}]

Typed ==
    /\ toPhone \in Seq(Wire) /\ toHU \in Seq(Frames)
    /\ phone \in PhoneState
    /\ ssl \in Session /\ channel_session \in [Media -> Nat]
    /\ aa_activated \in BOOLEAN /\ stale \in BOOLEAN
    /\ cable \in Nat /\ handle \in Nat /\ plug \in Nat

MediaTypes == {"open", "setup", "start", "data", "stop", "video_focus"}

\* What a phone says.
Said(f) ==
    /\ f.m.chan \in Media => f.m.type \in MediaTypes /\ (f.m.type = "video_focus" => f.m.chan = Video)
    /\ f.m.type \in {"version", "ssl"} => f.m.key = Plain
Spoken == \A i \in 1..Len(toHU) : Said(toHU[i])

\* Cables have growing numbers; a handle of an earlier one reaches nobody.
Plugged ==
    /\ cable <= plug /\ handle <= plug
    /\ aa_activated => handle # 0
    /\ cable = 0 => toPhone = << >> /\ toHU = << >>
    /\ cable # 0 /\ cable # handle => toPhone = << >> /\ toHU = << >> /\ phone.at = "idle" /\ phone.key = 0
    /\ phone_type # Android => ~aa_activated /\ ssl.state = "null"

(***************************************************************************)
(* The TLS session.  A plugging-in has one connection, which begins with   *)
(* the request for the version, so that the phone answers one version and  *)
(* is in one TLS session, the handler's (Asked, Answers).  As long         *)
(* as the connection lasts the phone has been told that the handshake is   *)
(* finished only when it is, and unless the connection before was not      *)
(* ended the handler is not further than the phone (Shaken).               *)
(***************************************************************************)
InSession == {"ssl", "sdr", "up"}
Secure == {"sdr", "up"}

NoVersion == \A k \in 1..Len(toHU) : toHU[k].m.type # "version"

Asked == \A i \in 1..Len(toPhone) :
    /\ toPhone[i].type = "version_request" => i = 1 /\ phone.at = "idle"
    /\ toPhone[i].type \in {"ssl", "auth"} => toPhone[i].arg = ssl.id /\ phone.at # "idle" /\ NoVersion

Answers ==
    /\ phone.at = "idle" => toHU = << >>
    /\ phone.at \in InSession => phone.key = ssl.id /\ NoVersion
    /\ \A i \in 1..Len(toHU) :
        /\ toHU[i].m.type = "version" => i = 1 /\ phone.at = "version"
        /\ toHU[i].m.type = "ssl" => toHU[i].m.arg = ssl.id /\ phone.at \in InSession
        /\ toHU[i].m.key # Plain => toHU[i].m.key = ssl.id /\ phone.at \in Secure

Told == phone.at \in Secure \/ \E i \in 1..Len(toPhone) : toPhone[i].type = "auth"

Shaken == Alive =>
    /\ Told => ssl.state = "done"
    /\ ~stale /\ ssl.state \in {"answered", "done"} => phone.at \in InSession

\* What is encrypted is for the session the phone is in.
KeysFit == ~stale => \A j \in 1..Len(toPhone) :
    toPhone[j].key # Plain => toPhone[j].key = ssl.id /\ phone.at \in InSession

KeyInv == Typed /\ Spoken /\ Plugged /\ Asked /\ Answers /\ Shaken /\ KeysFit

\* What is left to read after a read.
Fewer ==
    /\ toHU' \in Seq(Frames)
    /\ \A i \in 1..Len(toHU') : \E k \in 1..Len(toHU) : i <= k /\ toHU'[i] = toHU[k]

LEMMA Carried ==
    ASSUME Typed
    PROVE  /\ \A i \in 1..Len(toPhone) : toPhone[i] \in Wire /\ toPhone[i].arg \in Nat
           /\ \A i \in 1..Len(toHU) : toHU[i] \in Frames /\ toHU[i].m \in Wire /\ toHU[i].m.arg \in Nat
<1>1. \A i \in 1..Len(toPhone) : toPhone[i] \in Wire
  BY DEF Typed
<1>2. \A i \in 1..Len(toHU) : toHU[i] \in Frames
  BY DEF Typed
<1>3. \A f \in Frames : f.m \in Wire
  BY DEF Frames
<1>4. \A m \in Wire : m.arg \in Nat
  BY DEF Wire
<1>5. QED
  BY <1>1, <1>2, <1>3, <1>4

\* Every message has its type.
LEMMA OutType ==
    ASSUME NEW chan \in Channels, NEW type \in Types, NEW key \in Nat, NEW arg \in Nat
    PROVE  /\ Out(chan, type, key, arg) \in Wire
           /\ Out(chan, type, key, arg).type = type /\ Out(chan, type, key, arg).key = key
           /\ Out(chan, type, key, arg).arg = arg /\ Out(chan, type, key, arg).chan = chan
BY DEF Out, Wire

LEMMA TailIsFewer == ASSUME Typed, toHU # << >>, toHU' = Tail(toHU) PROVE Fewer
<1>1. toHU' \in Seq(Frames) /\ Len(toHU) \in Nat /\ Len(toHU') = Len(toHU) - 1
  BY DEF Typed
<1>2. \A i \in 1..Len(toHU') : i + 1 \in 1..Len(toHU) /\ i <= i + 1 /\ toHU'[i] = toHU[i + 1]
  BY <1>1 DEF Typed
<1>3. QED
  BY <1>1, <1>2 DEF Fewer

LEMMA SameIsFewer == ASSUME Typed, toHU' = toHU PROVE Fewer
<1>1. toHU' \in Seq(Frames) /\ \A i \in 1..Len(toHU') : i \in 1..Len(toHU) /\ i <= i /\ toHU'[i] = toHU[i]
  BY DEF Typed
<1>2. QED
  BY <1>1 DEF Fewer

\* Nothing is left of nothing, and no version of none.
LEMMA FewerKeeps ==
    ASSUME Typed, Fewer
    PROVE  /\ toHU = << >> => toHU' = << >>
           /\ Spoken => Spoken'
           /\ NoVersion => NoVersion'
<1>1. ASSUME toHU = << >> PROVE toHU' = << >>
  <2>1. Len(toHU) = 0 /\ toHU' \in Seq(Frames) /\ Len(toHU') \in Nat
    BY <1>1 DEF Fewer
  <2>2. Len(toHU') = 0
    BY <2>1 DEF Fewer
  <2>3. QED
    BY <2>1, <2>2
<1>2. ASSUME Spoken PROVE Spoken'
  BY <1>2 DEF Spoken, Said, Fewer
<1>3. ASSUME NoVersion PROVE NoVersion'
  BY <1>3 DEF NoVersion, Fewer
<1>4. QED
  BY <1>1, <1>2, <1>3

\* The answers of a phone that stays as it is, with some of them read.
LEMMA AnswersStay ==
    ASSUME Typed, Answers, Fewer, phone' = phone, ssl'.id = ssl.id
    PROVE  Answers'
<1>1. toHU = << >> => toHU' = << >>
  BY FewerKeeps
<1>2. NoVersion => NoVersion'
  BY FewerKeeps
<1>3. ASSUME NEW i \in 1..Len(toHU')
      PROVE  /\ toHU'[i].m.type = "version" => i = 1 /\ phone'.at = "version"
             /\ toHU'[i].m.type = "ssl" => toHU'[i].m.arg = ssl'.id /\ phone'.at \in InSession
             /\ toHU'[i].m.key # Plain => toHU'[i].m.key = ssl'.id /\ phone'.at \in Secure
  <2>1. PICK k \in 1..Len(toHU) : i <= k /\ toHU'[i] = toHU[k]
    BY DEF Fewer
  <2>2. i \in Nat /\ i >= 1 /\ k \in Nat
    BY DEF Typed, Fewer
  <2>3. QED
    BY <2>1, <2>2 DEF Answers
<1>4. QED
  BY <1>1, <1>2, <1>3 DEF Answers

(***************************************************************************)
(* Writing.                                                                *)
(***************************************************************************)
\* What is on its way to the phone after messages of S were written.
Writes(S) ==
    /\ toPhone' \in Seq(Wire)
    /\ \A i \in 1..Len(toPhone') : (i \in 1..Len(toPhone) /\ toPhone'[i] = toPhone[i]) \/ toPhone'[i] \in S
    /\ ~Alive => toPhone' = toPhone

\* Some of the messages are written, in order.
LEMMA WritesFirst ==
    ASSUME Typed, NEW S \in SUBSET Wire, NEW ms \in Seq(S), WriteBytes(ms)
    PROVE  /\ \E n \in 0..Len(ms) : toPhone' = toPhone \o SubSeq(ms, 1, n)
           /\ Alive' => toPhone' = toPhone \o ms
           /\ ~Alive => toPhone' = toPhone
           /\ aa_activated' \in BOOLEAN /\ (aa_activated' => aa_activated)
<1>1. toPhone \in Seq(Wire) /\ ms \in Seq(Wire) /\ Len(ms) \in Nat
  BY DEF Typed
<1>2. SubSeq(ms, 1, 0) = << >> /\ SubSeq(ms, 1, Len(ms)) = ms
  BY <1>1
<1>3. toPhone \o << >> = toPhone
  BY <1>1
<1>4. CASE ~aa_activated \/ ms = << >>
  <2>1. toPhone' = toPhone /\ aa_activated' = aa_activated
    BY <1>4 DEF WriteBytes
  <2>2. 0 \in 0..Len(ms) /\ toPhone' = toPhone \o SubSeq(ms, 1, 0)
    BY <1>1, <1>2, <1>3, <2>1
  <2>3. Alive' => toPhone' = toPhone \o ms
    BY <1>3, <1>4, <2>1 DEF Alive
  <2>4. QED
    BY <2>1, <2>2, <2>3 DEF Typed
<1>5. CASE aa_activated /\ ms # << >> /\ cable = handle /\ toPhone' = toPhone \o ms /\ aa_activated' = aa_activated
  <2>1. Len(ms) \in 0..Len(ms) /\ toPhone' = toPhone \o SubSeq(ms, 1, Len(ms))
    BY <1>1, <1>2, <1>5
  <2>2. QED
    BY <1>5, <2>1 DEF Typed, Alive
<1>6. CASE /\ aa_activated /\ ms # << >> /\ aa_activated' = FALSE
           /\ \E n \in 0..(IF cable = handle THEN Len(ms) - 1 ELSE 0) : toPhone' = toPhone \o SubSeq(ms, 1, n)
  <2>1. \E n \in 0..Len(ms) : toPhone' = toPhone \o SubSeq(ms, 1, n)
    <3>1. PICK n \in 0..(IF cable = handle THEN Len(ms) - 1 ELSE 0) : toPhone' = toPhone \o SubSeq(ms, 1, n)
      BY <1>6
    <3>2. n \in 0..Len(ms)
      BY <1>1
    <3>3. QED
      BY <3>1, <3>2
  <2>2. ~Alive => toPhone' = toPhone
    <3>1. ASSUME cable # handle PROVE toPhone' = toPhone
      <4>1. \E n \in 0..0 : toPhone' = toPhone \o SubSeq(ms, 1, n)
        BY <1>6, <3>1
      <4>2. \A n \in 0..0 : n = 0
        OBVIOUS
      <4>3. QED
        BY <1>2, <1>3, <4>1, <4>2
    <3>2. QED
      BY <1>6, <3>1 DEF Alive
  <2>3. QED
    BY <1>6, <2>1, <2>2 DEF Alive
<1>7. QED
  BY <1>4, <1>5, <1>6 DEF WriteBytes

LEMMA WritesSome ==
    ASSUME Typed, NEW S \in SUBSET Wire, NEW ms \in Seq(S), WriteBytes(ms)
    PROVE  Writes(S) /\ aa_activated' \in BOOLEAN /\ (aa_activated' => aa_activated)
<1>1. PICK n \in 0..Len(ms) : toPhone' = toPhone \o SubSeq(ms, 1, n)
  BY WritesFirst
<1> DEFINE ws == SubSeq(ms, 1, n)
<1>2. ws \in Seq(S) /\ Len(ws) = n /\ n \in Nat
  OBVIOUS
<1> HIDE DEF ws
<1>3. ws \in Seq(Wire) /\ \A k \in 1..Len(ws) : ws[k] \in S
  BY <1>2
<1>4. toPhone \in Seq(Wire) /\ Len(toPhone) \in Nat /\ toPhone' = toPhone \o ws
  BY <1>1 DEF Typed, ws
<1>5. toPhone' \in Seq(Wire) /\ Len(toPhone') = Len(toPhone) + n
  BY <1>2, <1>3, <1>4
<1>6. ASSUME NEW i \in 1..Len(toPhone')
      PROVE  (i \in 1..Len(toPhone) /\ toPhone'[i] = toPhone[i]) \/ toPhone'[i] \in S
  <2>1. CASE i \in 1..Len(toPhone)
    BY <1>3, <1>4, <2>1
  <2>2. CASE i \notin 1..Len(toPhone)
    <3>1. i - Len(toPhone) \in 1..Len(ws) /\ toPhone'[i] = ws[i - Len(toPhone)]
      BY <1>2, <1>3, <1>4, <1>5, <2>2
    <3>2. QED
      BY <1>3, <3>1
  <2>3. QED
    BY <2>1, <2>2
<1>7. ~Alive => toPhone' = toPhone
  BY WritesFirst
<1>8. QED
  BY <1>5, <1>6, <1>7, WritesFirst DEF Writes

\* One message is written or not.
LEMMA WritesOne ==
    ASSUME Typed, NEW m \in Wire, WriteBytes(<<m>>)
    PROVE  Writes({m}) /\ aa_activated' \in BOOLEAN /\ (aa_activated' => aa_activated)
<1>1. {m} \in SUBSET Wire /\ <<m>> \in Seq({m})
  OBVIOUS
<1>2. QED
  BY <1>1, WritesSome

LEMMA WritesNothing == ASSUME Typed, toPhone' = toPhone PROVE Writes({})
BY DEF Typed, Writes

\* Messages that belong to the services: they are written in the session or not at all.
Safe(m) == m.type \notin {"version_request", "ssl", "auth"} /\ (m.key = Plain \/ (m.key = ssl.id /\ ssl.state = "done"))
SafeSeq(ms) == ms \in Seq(Wire) /\ \A k \in 1..Len(ms) : Safe(ms[k])

\* What the two ends know of each other, and the cables.
Apart == UNCHANGED <<phone, handle, cable, plug, stale, phone_type>>

\* The part of the invariant that is alike in all steps of the handler.
LEMMA CommonKeeps ==
    ASSUME KeyInv, Apart, Fewer, ssl' \in Session, channel_session' \in [Media -> Nat],
           toPhone' \in Seq(Wire), ~Alive => toPhone' = toPhone,
           aa_activated' \in BOOLEAN, aa_activated' => aa_activated,
           phone_type = Android \/ ssl' = ssl
    PROVE  Typed' /\ Spoken' /\ Plugged' /\ (Alive' => Alive)
<1>1. Typed' /\ Spoken'
  BY FewerKeeps DEF KeyInv, Typed, Apart, Fewer
<1>2. toHU = << >> => toHU' = << >>
  BY FewerKeeps DEF KeyInv
<1>3. Plugged'
  <2>1. cable = 0 \/ cable # handle => ~Alive
    BY DEF KeyInv, Plugged, Alive
  <2>2. QED
    BY <1>2, <2>1 DEF KeyInv, Plugged, Apart
<1>4. Alive' => Alive
  BY DEF Alive, Apart
<1>5. QED
  BY <1>1, <1>3, <1>4

\* Writing for the services, also when the connection is lost in it or before.
LEMMA WriteKeeps ==
    ASSUME KeyInv, Apart, Fewer, ssl' = ssl, channel_session' \in [Media -> Nat],
           Writes({m \in Wire : Safe(m)}), aa_activated' \in BOOLEAN, aa_activated' => aa_activated
    PROVE  KeyInv'
<1>1. Typed' /\ Spoken' /\ Plugged' /\ (Alive' => Alive)
  BY CommonKeeps DEF KeyInv, Typed, Writes
<1>2. Answers'
  BY AnswersStay DEF KeyInv, Apart
<1>3. \A i \in 1..Len(toPhone') : \/ i \in 1..Len(toPhone) /\ toPhone'[i] = toPhone[i]
                                  \/ Alive /\ Safe(toPhone'[i])
  BY DEF Writes
<1>4. NoVersion => NoVersion'
  BY FewerKeeps DEF KeyInv
<1>5. Asked'
  BY <1>3, <1>4 DEF KeyInv, Asked, Apart, Safe
<1>6. Shaken'
  BY <1>1, <1>3 DEF KeyInv, Shaken, Told, Apart, Safe
<1>7. KeysFit'
  BY <1>3 DEF KeyInv, KeysFit, Shaken, Apart, Safe
<1>8. QED
  BY <1>1, <1>2, <1>5, <1>6, <1>7 DEF KeyInv

LEMMA SilentKeeps ==
    ASSUME KeyInv, Apart, Fewer, UNCHANGED <<ssl, channel_session, toPhone, aa_activated>>
    PROVE  KeyInv'
<1>1. Writes({m \in Wire : Safe(m)}) /\ channel_session' \in [Media -> Nat] /\ aa_activated' \in BOOLEAN
  BY WritesNothing DEF KeyInv, Typed, Writes
<1>2. QED
  BY <1>1, WriteKeeps

\* The connection is taken to be over.
LEMMA LossKeeps ==
    ASSUME KeyInv, Apart, Fewer, UNCHANGED <<toPhone, channel_session>>, aa_activated, aa_activated' = FALSE,
           ssl' \in Session, ssl'.id = ssl.id
    PROVE  KeyInv'
<1>1. phone_type = Android /\ channel_session' \in [Media -> Nat] /\ toPhone' \in Seq(Wire)
  BY DEF KeyInv, Plugged, Typed
<1>2. Typed' /\ Spoken' /\ Plugged'
  BY <1>1, CommonKeeps
<1>3. Answers'
  BY AnswersStay DEF KeyInv, Apart
<1>4. NoVersion => NoVersion'
  BY FewerKeeps DEF KeyInv
<1>5. Asked' /\ KeysFit'
  BY <1>4 DEF KeyInv, Asked, KeysFit, Apart
<1>6. Shaken'
  BY DEF Shaken, Alive
<1>7. QED
  BY <1>2, <1>3, <1>5, <1>6 DEF KeyInv

\* The phone's version: the handshake of a new session, the first of this plugging-in.
LEMMA BeginKeeps ==
    ASSUME KeyInv, Alive, Apart, toHU # << >>, toHU' = Tail(toHU), Head(toHU).m.type = "version", BeginSslHandshake
    PROVE  KeyInv'
<1> DEFINE m == Out(Control, "ssl", Plain, ssl.id + 1)
<1>1. Typed /\ ssl.id \in Nat /\ Fewer
  BY TailIsFewer DEF KeyInv, Typed, Session
<1>2. m \in Wire /\ m.key = Plain /\ m.type = "ssl" /\ m.arg = ssl.id + 1
  <2>1. ssl.id + 1 \in Nat /\ Plain \in Nat /\ Control \in Channels /\ "ssl" \in Types
    BY <1>1 DEF Plain, Channels, Types
  <2>2. QED
    BY <2>1, OutType
<1>3. WriteBytes(<<m>>) /\ channel_session' = channel_session /\ ssl' = [id |-> ssl.id + 1, state |-> "begun"]
  BY DEF BeginSslHandshake, services, Unencoded
<1> HIDE DEF m
<1>4. Writes({m}) /\ aa_activated' \in BOOLEAN /\ (aa_activated' => aa_activated)
  BY <1>1, <1>2, <1>3, WritesOne
<1>5. ssl' \in Session /\ ssl'.id = ssl.id + 1 /\ ssl'.state = "begun"
  BY <1>1, <1>3 DEF Session
<1>6. phone_type = Android
  BY DEF KeyInv, Plugged, Alive
<1>7. channel_session' \in [Media -> Nat]
  BY <1>1, <1>3 DEF Typed
<1>8. Typed' /\ Spoken' /\ Plugged' /\ (Alive' => Alive)
  BY <1>1, <1>4, <1>5, <1>6, <1>7, CommonKeeps DEF Writes
<1>9. /\ Len(toHU) \in Nat /\ 1 \in 1..Len(toHU) /\ toHU[1] = Head(toHU) /\ Len(toHU') = Len(toHU) - 1
      /\ \A i \in 1..Len(toHU') : i + 1 \in 1..Len(toHU) /\ i + 1 # 1 /\ toHU'[i] = toHU[i + 1]
  BY <1>1 DEF Typed
<1>10. phone.at = "version" /\ ~NoVersion
  BY <1>9 DEF KeyInv, Answers, NoVersion
<1>11. \A i \in 1..Len(toHU') : toHU'[i].m.type \notin {"version", "ssl"} /\ toHU'[i].m.key = Plain
  BY <1>9, <1>10 DEF KeyInv, Answers, InSession, Secure
<1>12. Answers'
  BY <1>10, <1>11 DEF Answers, InSession, Apart
<1>13. \A i \in 1..Len(toPhone) : toPhone[i].type \notin {"version_request", "ssl", "auth"}
  BY <1>10 DEF KeyInv, Asked
<1>14. \A i \in 1..Len(toPhone') : \/ i \in 1..Len(toPhone) /\ toPhone'[i] = toPhone[i]
                                   \/ toPhone'[i] = m
  BY <1>4 DEF Writes
<1>15. Asked'
  BY <1>2, <1>5, <1>10, <1>11, <1>13, <1>14 DEF Asked, NoVersion, Apart
<1>16. Shaken'
  BY <1>2, <1>5, <1>10, <1>13, <1>14 DEF Shaken, Told, Secure, Apart
<1>17. KeysFit'
  BY <1>2, <1>10, <1>14 DEF KeyInv, KeysFit, InSession, Apart
<1>18. QED
  BY <1>8, <1>12, <1>15, <1>16, <1>17 DEF KeyInv

\* The phone's part of the handshake, of which every message is for the handler's session.
LEMMA HandshakeKeeps ==
    ASSUME KeyInv, Alive, Apart, toHU # << >>, toHU' = Tail(toHU), NEW m, m = Head(toHU).m, m.type = "ssl",
           HandleSslHandshake(m)
    PROVE  KeyInv'
<1>1. Typed /\ ssl.id \in Nat /\ ssl \in Session /\ Fewer
  BY TailIsFewer DEF KeyInv, Typed, Session
<1>2. Len(toHU) \in Nat /\ 1 \in 1..Len(toHU) /\ Head(toHU) = toHU[1]
  BY <1>1 DEF Typed
<1>3. m.arg = ssl.id /\ phone.at \in InSession /\ NoVersion
  BY <1>2 DEF KeyInv, Answers
<1>4. channel_session' = channel_session /\ channel_session' \in [Media -> Nat]
  BY <1>1 DEF HandleSslHandshake, services, Typed
<1>5. CASE ssl.state \in {"begun", "answered"}
  <2> DEFINE type == IF ssl.state = "begun" THEN "ssl" ELSE "auth"
             w == Out(Control, type, Plain, ssl.id)
  <2>1. w \in Wire /\ w.key = Plain /\ w.type = type /\ w.arg = ssl.id
    <3>1. Control \in Channels /\ type \in Types /\ Plain \in Nat
      BY DEF Channels, Types, Plain
    <3>2. QED
      BY <1>1, <3>1, OutType
  <2>2. WriteBytes(<<w>>)
    BY <1>3, <1>5 DEF HandleSslHandshake, Unencoded
  <2>3. ssl' = [ssl EXCEPT !.state = IF ssl.state = "begun" THEN "answered" ELSE "done"]
    BY <1>3, <1>5 DEF HandleSslHandshake
  <2>4. ssl' \in Session /\ ssl'.id = ssl.id /\ ssl'.state = (IF ssl.state = "begun" THEN "answered" ELSE "done")
    BY <1>1, <2>3 DEF Session
  <2>5. w.type = IF ssl.state = "begun" THEN "ssl" ELSE "auth"
    BY <2>1
  <2> HIDE DEF w, type
  <2>6. Writes({w}) /\ aa_activated' \in BOOLEAN /\ (aa_activated' => aa_activated)
    BY <1>1, <2>1, <2>2, WritesOne
  <2>7. phone_type = Android
    BY DEF KeyInv, Plugged, Alive
  <2>8. Typed' /\ Spoken' /\ Plugged' /\ (Alive' => Alive)
    BY <1>1, <1>4, <2>4, <2>6, <2>7, CommonKeeps DEF Writes
  <2>9. Answers'
    BY <1>1, <2>4, AnswersStay DEF KeyInv, Apart
  <2>10. \A i \in 1..Len(toPhone') : \/ i \in 1..Len(toPhone) /\ toPhone'[i] = toPhone[i]
                                     \/ toPhone'[i] = w
    BY <2>6 DEF Writes
  <2>11. NoVersion'
    BY <1>1, <1>3, FewerKeeps
  <2>12. phone.at # "idle"
    BY <1>3 DEF InSession
  <2>13. Asked'
    BY <2>1, <2>4, <2>5, <2>10, <2>11, <2>12 DEF KeyInv, Asked, Apart
  <2>14. ~Told
    BY <1>5 DEF KeyInv, Shaken
  <2>15. Shaken'
    BY <1>3, <2>4, <2>5, <2>10, <2>14 DEF Shaken, Told, Apart
  <2>16. KeysFit'
    BY <1>3, <2>1, <2>4, <2>10 DEF KeyInv, KeysFit, Apart
  <2>17. QED
    BY <2>8, <2>9, <2>13, <2>15, <2>16 DEF KeyInv
<1>6. CASE ssl.state \notin {"begun", "answered"}
  <2>1. WriteBytes(<< >>) /\ ssl' = [ssl EXCEPT !.state = ssl.state]
    BY <1>3, <1>6 DEF HandleSslHandshake
  <2>2. ssl' = ssl /\ UNCHANGED <<toPhone, aa_activated>>
    BY <1>1, <2>1 DEF WriteBytes, Session
  <2>3. QED
    BY <1>1, <1>4, <2>2, SilentKeeps
<1>7. QED
  BY <1>5, <1>6

(***************************************************************************)
(* Handling a message.                                                     *)
(***************************************************************************)
LEMMA SafeOne == ASSUME NEW m \in Wire, Safe(m) PROVE SafeSeq(<<m>>)
BY DEF SafeSeq

LEMMA SafeNone == SafeSeq(<< >>)
BY DEF SafeSeq

LEMMA SafeBoth == ASSUME NEW a, NEW b, SafeSeq(a), SafeSeq(b) PROVE SafeSeq(a \o b)
<1>1. a \in Seq(Wire) /\ b \in Seq(Wire) /\ a \o b \in Seq(Wire) /\ Len(a) \in Nat /\ Len(b) \in Nat
  BY DEF SafeSeq
<1>2. Len(a \o b) = Len(a) + Len(b)
  BY <1>1
<1>3. ASSUME NEW k \in 1..Len(a \o b) PROVE Safe((a \o b)[k])
  <2>1. CASE k <= Len(a)
    BY <1>1, <1>2, <2>1 DEF SafeSeq
  <2>2. CASE k > Len(a)
    <3>1. k - Len(a) \in 1..Len(b) /\ (a \o b)[k] = b[k - Len(a)]
      BY <1>1, <1>2, <2>2
    <3>2. QED
      BY <3>1 DEF SafeSeq
  <2>3. QED
    BY <1>1, <2>1, <2>2
<1>4. QED
  BY <1>1, <1>3 DEF SafeSeq

\* write_encoded writes in the session, or zeros.
LEMMA EncodedSafe ==
    ASSUME KeyInv, NEW chan \in Channels, NEW type \in Types \ {"version_request", "ssl", "auth"}, NEW arg \in Nat
    PROVE  SafeSeq(Encoded(chan, type, arg))
<1>1. ssl.id \in Nat /\ Plain \in Nat /\ 0 \in Nat /\ "garbage" \in Types
  BY DEF KeyInv, Typed, Session, Plain, Types
<1>2. CASE ssl.state = "null"
  BY <1>2, SafeNone DEF Encoded
<1>3. CASE ssl.state = "done"
  <2>1. Encoded(chan, type, arg) = <<Out(chan, type, ssl.id, arg)>>
    BY <1>3 DEF Encoded
  <2>2. Out(chan, type, ssl.id, arg) \in Wire /\ Safe(Out(chan, type, ssl.id, arg))
    BY <1>1, <1>3, OutType DEF Safe
  <2>3. QED
    BY <2>1, <2>2, SafeOne
<1>4. CASE ssl.state # "null" /\ ssl.state # "done"
  <2>1. Encoded(chan, type, arg) = <<Out(chan, "garbage", Plain, 0)>>
    BY <1>4 DEF Encoded, Garbage
  <2>2. Out(chan, "garbage", Plain, 0) \in Wire /\ Safe(Out(chan, "garbage", Plain, 0))
    BY <1>1, OutType DEF Safe
  <2>3. QED
    BY <2>1, <2>2, SafeOne
<1>5. QED
  BY <1>2, <1>3, <1>4

LEMMA UnencodedSafe ==
    ASSUME NEW chan \in Channels, NEW type \in Types \ {"version_request", "ssl", "auth"}, NEW arg \in Nat
    PROVE  SafeSeq(Unencoded(chan, type, arg))
<1>1. Plain \in Nat
  BY DEF Plain
<1>2. Out(chan, type, Plain, arg) \in Wire /\ Safe(Out(chan, type, Plain, arg))
  BY <1>1, OutType DEF Safe
<1>3. QED
  BY <1>2, SafeOne DEF Unencoded

LEMMA AnswerSafe ==
    ASSUME KeyInv, NEW m, m \in Wire, m.chan \in Media, m.type \in MediaTypes,
           m.type = "video_focus" => m.chan = Video
    PROVE  SafeSeq(Answer(m))
<1>1. m.chan \in Channels /\ 0 \in Nat
  BY DEF Channels
<1>2. channel_session[m.chan] \in Nat
  BY DEF KeyInv, Typed
<1>3. {"open_response", "config", "focus", "ack"} \subseteq Types \ {"version_request", "ssl", "auth"}
  BY DEF Types
<1>4. SafeSeq(Ack(m))
  BY <1>1, <1>2, <1>3, EncodedSafe DEF Ack
<1>5. CASE m.type = "open"
  BY <1>1, <1>3, <1>5, EncodedSafe DEF Answer
<1>6. CASE m.type = "setup"
  <2>1. SafeSeq(Encoded(m.chan, "config", 0))
    BY <1>1, <1>3, EncodedSafe
  <2>2. SafeSeq(IF m.chan = Video /\ ~first_video THEN Encoded(Video, "focus", 0) ELSE << >>)
    BY <1>1, <1>3, EncodedSafe, SafeNone
  <2>3. Answer(m) = Ack(m) \o Encoded(m.chan, "config", 0)
                      \o (IF m.chan = Video /\ ~first_video THEN Encoded(Video, "focus", 0) ELSE << >>)
    BY <1>6 DEF Answer
  <2>4. QED
    BY <1>4, <2>1, <2>2, <2>3, SafeBoth
<1>7. CASE m.type \in {"start", "data", "stop"}
  BY <1>4, <1>7 DEF Answer
<1>8. CASE m.type = "video_focus"
  BY <1>8, <1>1, <1>3, EncodedSafe DEF Answer
<1>9. QED
  BY <1>5, <1>6, <1>7, <1>8 DEF MediaTypes

LEMMA AnsweredSafe ==
    ASSUME KeyInv, NEW m, m \in Wire
    PROVE  SafeSeq(Answered(m))
<1>1. m.chan \in Channels /\ Control \in Channels /\ 0 \in Nat
  BY DEF Wire, Channels
<1>2. {"ping", "nav_focus", "byebye", "audio_focus", "open_response", "batch", "binding", "sensor_response"}
        \subseteq Types \ {"version_request", "ssl", "auth"}
  BY DEF Types
<1>3. CASE m.type = "audio_focus"
  BY <1>1, <1>2, <1>3, EncodedSafe, SafeNone DEF Answered
<1>4. CASE m.type \in {"ping", "nav_focus", "byebye"}
  BY <1>1, <1>2, <1>4, EncodedSafe, SafeNone DEF Answered
<1>5. CASE m.type = "open"
  <2>1. SafeSeq(Encoded(m.chan, "open_response", 0))
    BY <1>1, <1>2, EncodedSafe
  <2>2. SafeSeq(IF m.chan = "sensor" THEN Encoded(m.chan, "batch", 0) ELSE << >>)
    BY <1>1, <1>2, EncodedSafe, SafeNone
  <2>3. Answered(m) = IF m.chan # Control
                        THEN Encoded(m.chan, "open_response", 0)
                               \o (IF m.chan = "sensor" THEN Encoded(m.chan, "batch", 0) ELSE << >>)
                        ELSE << >>
    BY <1>5 DEF Answered
  <2>4. QED
    BY <2>1, <2>2, <2>3, SafeBoth, SafeNone
<1>6. CASE m.type = "binding"
  BY <1>1, <1>2, <1>6, EncodedSafe, SafeNone DEF Answered
<1>7. CASE m.type = "sensor_request"
  BY <1>1, <1>2, <1>7, EncodedSafe, SafeNone DEF Answered
<1>8. CASE m.type \notin {"audio_focus", "ping", "nav_focus", "byebye", "open", "binding", "sensor_request"}
  BY <1>8, SafeNone DEF Answered
<1>9. QED
  BY <1>3, <1>4, <1>5, <1>6, <1>7, <1>8

\* process_message: two steps of the handshake, and what is written for the services.
LEMMA HandleCases ==
    ASSUME KeyInv, toHU # << >>, NEW m, m = Head(toHU).m, Handle(m)
    PROVE  \/ m.type = "version" /\ BeginSslHandshake
           \/ m.type = "ssl" /\ HandleSslHandshake(m)
           \/ ssl' = ssl /\ channel_session' \in [Media -> Nat] /\ \E ms : SafeSeq(ms) /\ WriteBytes(ms)
<1>1. Len(toHU) \in Nat /\ 1 \in 1..Len(toHU) /\ Head(toHU) = toHU[1]
  BY DEF KeyInv, Typed
<1>2. m \in Wire /\ m.arg \in Nat /\ m.chan \in Channels
  BY <1>1, Carried DEF KeyInv, Wire
<1>3. Said(Head(toHU))
  BY <1>1 DEF KeyInv, Spoken
<1> m.chan \in Media => m.type \in MediaTypes
  BY <1>3 DEF Said
<1>4. CASE m.type = "version"
  BY <1>4 DEF Handle, MediaTypes
<1>5. CASE m.type = "ssl"
  BY <1>5 DEF Handle, MediaTypes
<1>6. CASE m.type = "sdr"
  <2> DEFINE ms == IF had_sdr THEN << >>
                   ELSE Unencoded(Control, "sdr_request", 0) \o Unencoded(Control, "sdr_response", 0)
  <2>1. HandleServiceDiscovery
    BY <1>6 DEF Handle, MediaTypes
  <2>2. SafeSeq(ms)
    <3>1. Control \in Channels /\ {"sdr_request", "sdr_response"} \subseteq Types \ {"version_request", "ssl", "auth"}
      BY DEF Channels, Types
    <3>2. QED
      BY <3>1, UnencodedSafe, SafeBoth, SafeNone
  <2>3. WriteBytes(ms) /\ UNCHANGED <<ssl, channel_session>>
    BY <2>1 DEF HandleServiceDiscovery
  <2> HIDE DEF ms
  <2>4. channel_session' \in [Media -> Nat]
    BY <2>3 DEF KeyInv, Typed
  <2>5. QED
    BY <2>2, <2>3, <2>4
<1>7. CASE m.type \notin {"version", "ssl", "sdr"} /\ m.chan \in Media
  <2>1. HandleMedia(m)
    BY <1>7 DEF Handle
  <2>2. SafeSeq(Answer(m))
    BY <1>2, <1>3, <1>7, AnswerSafe DEF Said
  <2>3. channel_session' \in [Media -> Nat]
    BY <1>2, <1>7, <2>1 DEF HandleMedia, KeyInv, Typed
  <2>4. WriteBytes(Answer(m)) /\ ssl' = ssl
    BY <2>1 DEF HandleMedia
  <2>5. QED
    BY <2>2, <2>3, <2>4
<1>8. CASE m.type \notin {"version", "ssl", "sdr"} /\ m.chan \notin Media
  <2>1. WriteBytes(Answered(m)) /\ UNCHANGED <<ssl, channel_session>>
    BY <1>8 DEF Handle, services
  <2>2. channel_session' \in [Media -> Nat]
    BY <2>1 DEF KeyInv, Typed
  <2>3. QED
    BY <1>2, <2>1, <2>2, AnsweredSafe
<1>9. QED
  BY <1>4, <1>5, <1>6, <1>7, <1>8

LEMMA SafeWrites == ASSUME Typed, NEW ms, SafeSeq(ms) PROVE ms \in Seq({m \in Wire : Safe(m)})
BY DEF SafeSeq

LEMMA HandleKeeps ==
    ASSUME KeyInv, Alive, Apart, toHU # << >>, toHU' = Tail(toHU), NEW m, m = Head(toHU).m, Handle(m)
    PROVE  KeyInv'
<1>1. CASE m.type = "version" /\ BeginSslHandshake
  BY <1>1, BeginKeeps
<1>2. CASE m.type = "ssl" /\ HandleSslHandshake(m)
  BY <1>2, HandshakeKeeps
<1>3. CASE ssl' = ssl /\ channel_session' \in [Media -> Nat] /\ \E ms : SafeSeq(ms) /\ WriteBytes(ms)
  <2>1. PICK ms : SafeSeq(ms) /\ WriteBytes(ms)
    BY <1>3
  <2>2. Writes({w \in Wire : Safe(w)}) /\ aa_activated' \in BOOLEAN /\ (aa_activated' => aa_activated)
    <3> DEFINE S == {w \in Wire : Safe(w)}
    <3>1. ms \in Seq(S) /\ S \in SUBSET Wire
      BY <2>1, SafeWrites DEF KeyInv
    <3> HIDE DEF S
    <3>2. Writes(S) /\ aa_activated' \in BOOLEAN /\ (aa_activated' => aa_activated)
      BY <2>1, <3>1, WritesSome DEF KeyInv
    <3>3. QED
      BY <3>2 DEF S
  <2>3. QED
    BY <1>3, <2>2, TailIsFewer, WriteKeeps DEF KeyInv
<1>4. QED
  BY <1>1, <1>2, <1>3, HandleCases

\* process_bytes.
LEMMA ProcessKeeps ==
    ASSUME KeyInv, Alive, toHU # << >>, NEW bad \in BOOLEAN, Process(bad)
    PROVE  KeyInv'
<1> DEFINE f == Head(toHU)
<1>1. toHU' = Tail(toHU) /\ Apart
  BY DEF Process, Apart
<1>2. Fewer
  BY <1>1, TailIsFewer DEF KeyInv
<1>3. CASE Fails(f, bad)
  <2>1. /\ aa_activated' = FALSE /\ ssl' = [ssl EXCEPT !.state = "broken"]
        /\ UNCHANGED <<channel_session, toPhone>>
    BY <1>3 DEF Process, services
  <2>2. ssl' \in Session /\ ssl'.id = ssl.id
    BY <2>1 DEF KeyInv, Typed, Session
  <2>3. QED
    BY <1>1, <1>2, <2>1, <2>2, LossKeeps DEF Alive
<1>4. CASE ~Fails(f, bad) /\ ~(f.m.key # Plain /\ ssl.state = "null") /\ f.part = f.of
  <2>1. Handle(f.m)
    BY <1>4 DEF Process
  <2>2. QED
    BY <1>1, <2>1, HandleKeeps
<1>5. CASE ~Fails(f, bad) /\ ((f.m.key # Plain /\ ssl.state = "null") \/ f.part # f.of)
  <2>1. UNCHANGED <<ssl, channel_session, toPhone, aa_activated>>
    BY <1>5 DEF Process, services
  <2>2. QED
    BY <1>1, <1>2, <2>1, SilentKeeps
<1>6. QED
  BY <1>3, <1>4, <1>5

(***************************************************************************)
(* The other steps of the handler.                                         *)
(***************************************************************************)
LEMMA SameKeeps ==
    ASSUME KeyInv, UNCHANGED <<toPhone, toHU, phone, ssl, channel_session, aa_activated, stale, cable, handle,
                               plug, phone_type>>
    PROVE  KeyInv'
<1>1. Fewer /\ Apart
  BY SameIsFewer DEF KeyInv, Apart
<1>2. QED
  BY <1>1, SilentKeeps

LEMMA ReadErrorKeeps == ASSUME KeyInv, ReadError PROVE KeyInv'
<1>1. Fewer /\ Apart /\ ssl' \in Session /\ ssl'.id = ssl.id
  BY SameIsFewer DEF ReadError, KeyInv, Typed, Apart, history, counts
<1>2. QED
  BY <1>1, LossKeeps DEF ReadError, services

LEMMA WriteOwnKeeps ==
    ASSUME KeyInv, NEW type \in {"ping_request", "sensor"}, WriteOwn(type)
    PROVE  KeyInv'
<1> DEFINE chan == IF type = "ping_request" THEN Control ELSE type
           ms == Encoded(chan, type, 0)
           S == {w \in Wire : Safe(w)}
<1>1. /\ WriteBytes(ms) /\ Apart
      /\ UNCHANGED <<ssl, channel_session, toHU>>
  BY DEF WriteOwn, services, history, Apart
<1>2. SafeSeq(ms)
  <2>1. chan \in Channels /\ type \in Types \ {"version_request", "ssl", "auth"} /\ 0 \in Nat
    BY DEF Channels, Types, Control
  <2> HIDE DEF chan
  <2>2. QED
    BY <2>1, EncodedSafe
<1>3. Fewer /\ channel_session' \in [Media -> Nat]
  BY <1>1, SameIsFewer DEF KeyInv, Typed
<1> HIDE DEF ms
<1>4. ms \in Seq(S) /\ S \in SUBSET Wire
  BY <1>2, SafeWrites DEF KeyInv
<1> HIDE DEF S
<1>5. Writes(S) /\ aa_activated' \in BOOLEAN /\ (aa_activated' => aa_activated)
  BY <1>1, <1>4, WritesSome DEF KeyInv
<1>6. QED
  BY <1>1, <1>3, <1>5, WriteKeeps DEF S

\* On a new plugging-in nothing is on its way.
LEMMA ConnectKeeps == ASSUME KeyInv, Connect PROVE KeyInv'
<1> DEFINE m == Out(Control, "version_request", Plain, 0)
<1>1. /\ ~aa_activated /\ cable # 0 /\ cable # handle /\ handle' = cable /\ phone_type' = Android
      /\ stale' = (phone_type = Android) /\ aa_activated' \in BOOLEAN
      /\ toPhone' = Append(toPhone, m) \/ toPhone' = toPhone
      /\ UNCHANGED <<ssl, channel_session, cable, toHU, phone, plug>>
  BY DEF Connect, services, counts, KeyInv, Typed
<1>2. Typed /\ Plugged
  BY DEF KeyInv
<1>3. m \in Wire /\ m.key = Plain /\ m.type = "version_request"
  <2>1. Plain \in Nat /\ 0 \in Nat /\ Control \in Channels /\ "version_request" \in Types
    BY DEF Plain, Channels, Types
  <2>2. QED
    BY <2>1, OutType
<1> HIDE DEF m
<1>4. toPhone = << >> /\ toHU = << >> /\ phone.at = "idle" /\ phone.key = 0
  BY <1>1, <1>2 DEF Plugged
<1>5. toPhone' \in Seq(Wire) /\ \A i \in 1..Len(toPhone') : i = 1 /\ toPhone'[i] = m
  <2>1. toPhone' = <<m>> \/ toPhone' = << >>
    BY <1>1, <1>4
  <2>2. <<m>> \in Seq(Wire) /\ << >> \in Seq(Wire)
    BY <1>3
  <2>3. CASE toPhone' = <<m>>
    BY <2>2, <2>3
  <2>4. CASE toPhone' = << >>
    <3>1. Len(toPhone') = 0
      BY <2>4
    <3>2. QED
      BY <2>2, <2>4, <3>1
  <2>5. QED
    BY <2>1, <2>3, <2>4
<1>6. toHU' = << >> /\ Len(toHU') = 0
  BY <1>1, <1>4
<1>7. stale' \in BOOLEAN /\ handle' \in Nat
  BY <1>1, <1>2 DEF Typed
<1>8. Typed'
  BY <1>1, <1>2, <1>5, <1>7 DEF Typed
<1>9. Spoken'
  BY <1>6 DEF Spoken
<1>10. Plugged'
  BY <1>1, <1>2 DEF Plugged
<1>11. Asked'
  BY <1>1, <1>3, <1>4, <1>5 DEF Asked
<1>12. Answers'
  BY <1>1, <1>4, <1>6 DEF Answers, InSession
<1>13. Shaken'
  <2>1. ~Told'
    BY <1>1, <1>3, <1>4, <1>5 DEF Told, Secure
  <2>2. ~stale' => ssl'.state = "null"
    BY <1>1, <1>2 DEF Plugged
  <2>3. QED
    BY <2>1, <2>2 DEF Shaken
<1>14. KeysFit'
  BY <1>3, <1>5 DEF KeysFit
<1>15. QED
  BY <1>8, <1>9, <1>10, <1>11, <1>12, <1>13, <1>14 DEF KeyInv

LEMMA NotConnectedKeeps == ASSUME KeyInv, NotConnected PROVE KeyInv'
<1>1. /\ ~aa_activated /\ phone_type' = None /\ ssl' = [ssl EXCEPT !.state = "null"]
      /\ UNCHANGED <<aa_activated, handle, channel_session, cable, toHU, toPhone, phone, plug, stale>>
  BY DEF NotConnected, StopConnection, connection, counts
<1>2. ssl' \in Session /\ ssl'.id = ssl.id /\ ssl'.state = "null"
  BY <1>1 DEF KeyInv, Typed, Session
<1>3. Typed' /\ Spoken' /\ Plugged'
  BY <1>1, <1>2 DEF KeyInv, Typed, Spoken, Plugged
<1>4. Asked' /\ Answers' /\ KeysFit'
  BY <1>1, <1>2 DEF KeyInv, Asked, Answers, NoVersion, KeysFit
<1>5. Shaken'
  BY <1>1 DEF Shaken, Alive
<1>6. QED
  BY <1>3, <1>4, <1>5 DEF KeyInv

LEMMA PlugKeeps == ASSUME KeyInv, Plug \/ Unplug PROVE KeyInv'
<1>1. Typed /\ Plugged
  BY DEF KeyInv
<1>2. /\ toPhone' = << >> /\ toHU' = << >>
      /\ UNCHANGED <<phone_type, aa_activated, handle, ssl, channel_session>>
  BY <1>1 DEF Plug, Unplug, Plugged, connection, services
<1>3. cable' # handle' \/ ~aa_activated'
  BY <1>1, <1>2 DEF Plug, Unplug, Plugged, Typed
<1>4. Closed \in ChannelState /\ NewPhone \in PhoneState /\ NewPhone.at = "idle" /\ NewPhone.key = 0
  BY DEF Closed, ChannelState, NewPhone, PhoneState
<1>5. phone' \in PhoneState /\ cable' \in Nat /\ plug' \in Nat /\ stale' \in BOOLEAN
  <2>1. CASE Plug
    BY <1>1, <1>4, <2>1 DEF Plug, Typed, history
  <2>2. CASE Unplug
    BY <1>1, <2>2 DEF Unplug, Typed, counts
  <2>3. QED
    BY <2>1, <2>2
<1>6. Len(toPhone') = 0 /\ Len(toHU') = 0
  BY <1>2
<1>7. Typed'
  BY <1>1, <1>2, <1>5 DEF Typed
<1>8. Spoken' /\ KeysFit' /\ Asked' /\ NoVersion'
  BY <1>6 DEF Spoken, KeysFit, Asked, NoVersion
<1>9. Answers'
  <2>1. phone'.at \in InSession => phone'.key = ssl'.id
    <3>1. CASE Plug
      BY <1>4, <3>1 DEF Plug, InSession
    <3>2. CASE Unplug
      BY <1>2, <3>2 DEF Unplug, KeyInv, Answers
    <3>3. QED
      BY <3>1, <3>2
  <2>2. QED
    BY <1>2, <1>6, <1>8, <2>1 DEF Answers
<1>10. Plugged'
  <2>1. CASE Plug
    BY <1>1, <1>2, <1>4, <2>1 DEF Plugged, Typed, Plug
  <2>2. CASE Unplug
    BY <1>1, <1>2, <2>2 DEF Plugged, Typed, Unplug, counts
  <2>3. QED
    BY <2>1, <2>2
<1>11. Shaken'
  BY <1>3 DEF Shaken, Alive
<1>12. QED
  BY <1>7, <1>8, <1>9, <1>10, <1>11 DEF KeyInv

(***************************************************************************)
(* The steps of the phone.                                                 *)
(***************************************************************************)
\* What is on its way to the phone, without the first d messages.
Later(d) ==
    /\ toPhone' \in Seq(Wire)
    /\ \A i \in 1..Len(toPhone') : i + d \in 1..Len(toPhone) /\ toPhone'[i] = toPhone[i + d]

\* A frame of the phone's that has no part in the handshake.
Aside(f) == f \in Frames /\ f.m.type \notin {"version", "ssl"} /\ f.m.key = phone.key /\ Said(f)

LEMMA TailIsLater == ASSUME Typed, toPhone # << >>, toPhone' = Tail(toPhone) PROVE Later(1)
<1>1. toPhone' \in Seq(Wire) /\ Len(toPhone) \in Nat /\ Len(toPhone') = Len(toPhone) - 1
  BY DEF Typed
<1>2. \A i \in 1..Len(toPhone') : i + 1 \in 1..Len(toPhone) /\ toPhone'[i] = toPhone[i + 1]
  BY <1>1 DEF Typed
<1>3. QED
  BY <1>1, <1>2 DEF Later

LEMMA SameIsLater == ASSUME Typed, toPhone' = toPhone PROVE Later(0)
<1>1. toPhone' \in Seq(Wire) /\ Len(toPhone) \in Nat
  BY DEF Typed
<1>2. \A i \in 1..Len(toPhone') : i + 0 = i
  BY <1>1
<1>3. QED
  BY <1>1, <1>2 DEF Later

\* What the phone and the cable keep while the phone takes a step.
Kept == UNCHANGED <<phone_type, aa_activated, handle, ssl, channel_session, cable, stale, plug>>

\* What the phone has sent is followed by frames for the services.
Follow == toHU' \in Seq(Frames) /\ \A i \in 1..Len(toHU') :
    (i \in 1..Len(toHU) /\ toHU'[i] = toHU[i]) \/ (phone'.at \in Secure /\ Aside(toHU'[i]))

LEMMA SameFollows == ASSUME Typed, toHU' = toHU PROVE Follow
BY DEF Typed, Follow

\* The phone goes on, its part of the handshake aside.
LEMMA GoesOnKeeps ==
    ASSUME KeyInv, Kept, cable # 0, cable = handle, NEW d \in {0, 1}, Later(d), Follow,
           phone' \in PhoneState, phone'.key = phone.key,
           phone'.at = phone.at \/ (phone'.at \in Secure /\ phone.at \in InSession /\ Told)
    PROVE  KeyInv'
<1>1. Typed /\ phone.key \in Nat /\ Len(toHU) \in Nat
  BY DEF KeyInv, Typed, PhoneState
<1>2. Typed'
  BY <1>1 DEF Typed, Kept, Later, Follow
<1>3. Spoken'
  BY DEF KeyInv, Spoken, Follow, Aside
<1>4. Plugged'
  BY DEF KeyInv, Plugged, Kept
<1>5. phone'.at = "idle" => phone.at = "idle"
  BY DEF Secure
<1>6. phone'.at = "idle" => toHU' = << >>
  <2> SUFFICES ASSUME phone'.at = "idle" PROVE toHU' = << >>
    OBVIOUS
  <2>1. Len(toHU) = 0 /\ phone'.at \notin Secure
    BY <1>5 DEF KeyInv, Answers, Secure
  <2>2. toHU' \in Seq(Frames) /\ Len(toHU') \in Nat /\ \A i \in 1..Len(toHU') : i \in 1..Len(toHU)
    BY <2>1 DEF Follow
  <2>3. Len(toHU') = 0
    BY <2>1, <2>2
  <2>4. QED
    BY <2>2, <2>3
<1>7. NoVersion => NoVersion'
  BY DEF NoVersion, Follow, Aside
<1>8. phone.at \in InSession => phone'.at \in InSession
  BY DEF Secure, InSession
<1>9. phone'.at \in InSession => phone.at \in InSession
  BY DEF Secure, InSession
<1>10. phone.at \in Secure => phone'.at \in Secure
  OBVIOUS
<1>11. phone'.at \in Secure => phone.key = ssl.id
  BY <1>9 DEF KeyInv, Answers, Secure, InSession
<1>12. Answers'
  <2>1. ASSUME NEW i \in 1..Len(toHU')
        PROVE  /\ toHU'[i].m.type = "version" => i = 1 /\ phone'.at = "version"
               /\ toHU'[i].m.type = "ssl" => toHU'[i].m.arg = ssl'.id /\ phone'.at \in InSession
               /\ toHU'[i].m.key # Plain => toHU'[i].m.key = ssl'.id /\ phone'.at \in Secure
    <3>1. CASE i \in 1..Len(toHU) /\ toHU'[i] = toHU[i]
      <4>1. phone.at = "version" => phone'.at = "version"
        BY DEF InSession
      <4>2. QED
        BY <1>8, <1>10, <3>1, <4>1 DEF KeyInv, Answers, Kept
    <3>2. CASE phone'.at \in Secure /\ Aside(toHU'[i])
      BY <1>11, <3>2 DEF Aside, Kept
    <3>3. QED
      BY <3>1, <3>2 DEF Follow
  <2>2. phone'.at \in InSession => phone'.key = ssl'.id /\ NoVersion'
    BY <1>7, <1>9 DEF KeyInv, Answers, Kept
  <2>3. QED
    BY <1>6, <2>1, <2>2 DEF Answers
<1>13. Asked'
  <2> SUFFICES ASSUME NEW i \in 1..Len(toPhone')
               PROVE  /\ toPhone'[i].type = "version_request" => i = 1 /\ phone'.at = "idle"
                      /\ toPhone'[i].type \in {"ssl", "auth"} =>
                            toPhone'[i].arg = ssl'.id /\ phone'.at # "idle" /\ NoVersion'
    BY DEF Asked
  <2>1. i + d \in 1..Len(toPhone) /\ toPhone'[i] = toPhone[i + d] /\ i \in Nat /\ i >= 1
    BY <1>2 DEF Later, Typed
  <2>2. i + d = 1 => i = 1
    BY <2>1
  <2>3. phone.at = "idle" => phone'.at = "idle"
    BY DEF InSession
  <2>4. QED
    BY <1>5, <1>7, <2>1, <2>2, <2>3 DEF KeyInv, Asked, Kept
<1>14. Told' => Told
  BY DEF Told, Later
<1>15. Shaken'
  BY <1>8, <1>14 DEF KeyInv, Shaken, Alive, Kept
<1>16. KeysFit'
  BY <1>8 DEF KeyInv, KeysFit, Later, Kept
<1>17. QED
  BY <1>2, <1>3, <1>4, <1>12, <1>13, <1>15, <1>16 DEF KeyInv

\* What a message appended to a sequence leaves and adds.
LEMMA FrameAtEnd ==
    ASSUME Typed, NEW f \in Frames, toHU' = Append(toHU, f)
    PROVE  /\ toHU' \in Seq(Frames) /\ Len(toHU) \in Nat /\ Len(toHU') = Len(toHU) + 1
           /\ \A i \in 1..Len(toHU') : \/ i = Len(toHU) + 1 /\ toHU'[i] = f
                                       \/ i \in 1..Len(toHU) /\ toHU'[i] = toHU[i]
BY DEF Typed

\* The phone is asked for its version: nothing else is on its way from it.
LEMMA VersionKeeps ==
    ASSUME KeyInv, Kept, cable # 0, cable = handle, toPhone # << >>, toPhone' = Tail(toPhone),
           Head(toPhone).type = "version_request", TakeVersion
    PROVE  KeyInv'
<1> DEFINE m == Out(Control, "version", Plain, 0)
           f == Frame(m, 1, 1)
<1>1. Typed /\ Later(1) /\ Len(toPhone) \in Nat /\ 1 \in 1..Len(toPhone) /\ toPhone[1] = Head(toPhone)
  BY TailIsLater DEF KeyInv, Typed
<1>2. phone.at = "idle" /\ toHU = << >>
  BY <1>1 DEF KeyInv, Asked, Answers
<1>3. toHU' = Append(toHU, f) /\ phone' = [NewPhone EXCEPT !.at = "version"]
  BY DEF TakeVersion, Send
<1>4. phone' \in PhoneState /\ phone'.at = "version"
  BY <1>3 DEF Closed, ChannelState, NewPhone, PhoneState
<1>5. m \in Wire /\ m.type = "version" /\ m.key = Plain /\ m.chan = Control
  <2>1. Plain \in Nat /\ 0 \in Nat /\ Control \in Channels /\ "version" \in Types
    BY DEF Plain, Channels, Types
  <2>2. QED
    BY <2>1, OutType
<1> HIDE DEF m
<1>6. f \in Frames /\ f.m = m
  BY <1>5 DEF Frame, Frames
<1> HIDE DEF f
<1>7. toHU' \in Seq(Frames) /\ \A i \in 1..Len(toHU') : i = 1 /\ toHU'[i] = f
  <2>1. toHU' = <<f>>
    BY <1>2, <1>3
  <2>2. QED
    BY <1>6, <2>1
<1>8. Typed'
  BY <1>1, <1>4, <1>7 DEF Typed, Kept, Later
<1>9. Spoken'
  BY <1>5, <1>6, <1>7, MediaAssumption DEF Spoken, Said, Control, Video
<1>10. Plugged'
  BY DEF KeyInv, Plugged, Kept
<1>11. Answers'
  BY <1>4, <1>5, <1>6, <1>7 DEF Answers, InSession
<1>12. \A i \in 1..Len(toPhone') : i + 1 \in 1..Len(toPhone) /\ i + 1 # 1 /\ toPhone'[i] = toPhone[i + 1]
  BY <1>1, <1>8 DEF Later, Typed
<1>13. \A i \in 1..Len(toPhone') : toPhone'[i].type \notin {"version_request", "ssl", "auth"}
  BY <1>2, <1>12 DEF KeyInv, Asked
<1>14. Asked'
  BY <1>13 DEF Asked
<1>15. Shaken'
  <2>1. ~Told'
    BY <1>4, <1>13 DEF Told, Secure
  <2>2. Alive' => Alive
    BY DEF Alive, Kept
  <2>3. Alive' => ~(~stale' /\ ssl'.state \in {"answered", "done"})
    BY <1>2, <2>2 DEF KeyInv, Shaken, InSession, Kept
  <2>4. QED
    BY <2>1, <2>3 DEF Shaken
<1>16. KeysFit'
  BY <1>2, <1>12 DEF KeyInv, KeysFit, InSession, Kept
<1>17. QED
  BY <1>8, <1>9, <1>10, <1>11, <1>14, <1>15, <1>16 DEF KeyInv

\* The phone's part of the handshake: from here on it is in the session.
LEMMA TakeSslKeeps ==
    ASSUME KeyInv, Kept, cable # 0, cable = handle, toPhone # << >>, toPhone' = Tail(toPhone),
           NEW a, a = Head(toPhone), a.type = "ssl", phone.at \in {"version", "ssl"}, TakeSsl(a)
    PROVE  KeyInv'
<1> DEFINE m == Out(Control, "ssl", Plain, a.arg)
           f == Frame(m, 1, 1)
<1>1. Typed /\ Later(1) /\ Len(toPhone) \in Nat /\ 1 \in 1..Len(toPhone) /\ toPhone[1] = a
  BY TailIsLater DEF KeyInv, Typed
<1>2. a.arg \in Nat /\ a.arg = ssl.id /\ NoVersion
  BY <1>1, Carried DEF KeyInv, Asked
<1>3. toHU' = Append(toHU, f) /\ phone' = [phone EXCEPT !.at = "ssl", !.key = a.arg]
  BY DEF TakeSsl, Send
<1>4. phone' \in PhoneState /\ phone'.at = "ssl" /\ phone'.key = a.arg
  BY <1>1, <1>2, <1>3 DEF Typed, PhoneState
<1>5. m \in Wire /\ m.type = "ssl" /\ m.key = Plain /\ m.chan = Control /\ m.arg = a.arg
  <2>1. Plain \in Nat /\ Control \in Channels /\ "ssl" \in Types
    BY DEF Plain, Channels, Types
  <2>2. QED
    BY <1>2, <2>1, OutType
<1> HIDE DEF m
<1>6. f \in Frames /\ f.m = m
  BY <1>5 DEF Frame, Frames
<1> HIDE DEF f
<1>7. /\ toHU' \in Seq(Frames)
      /\ \A i \in 1..Len(toHU') : toHU'[i] = f \/ (i \in 1..Len(toHU) /\ toHU'[i] = toHU[i])
  BY <1>1, <1>3, <1>6, FrameAtEnd
<1>8. Typed'
  BY <1>1, <1>4, <1>7 DEF Typed, Kept, Later
<1>9. Said(f)
  BY <1>5, <1>6, MediaAssumption DEF Said, Control, Video
<1>10. Spoken'
  BY <1>7, <1>9 DEF KeyInv, Spoken
<1>11. Plugged'
  BY DEF KeyInv, Plugged, Kept
<1>12. NoVersion'
  BY <1>2, <1>5, <1>6, <1>7 DEF NoVersion
<1>13. phone.at \notin Secure /\ phone'.at \notin Secure /\ phone'.at \in InSession /\ phone'.at # "idle"
  BY <1>4 DEF Secure, InSession
<1>14. Answers'
  <2>1. ASSUME NEW i \in 1..Len(toHU')
        PROVE  /\ toHU'[i].m.type # "version"
               /\ toHU'[i].m.type = "ssl" => toHU'[i].m.arg = ssl'.id
               /\ toHU'[i].m.key = Plain
    <3>1. CASE toHU'[i] = f
      BY <1>2, <1>5, <1>6, <3>1 DEF Kept
    <3>2. CASE i \in 1..Len(toHU) /\ toHU'[i] = toHU[i]
      BY <1>2, <1>13, <3>2 DEF KeyInv, Answers, NoVersion, Kept
    <3>3. QED
      BY <1>7, <3>1, <3>2
  <2>2. phone'.key = ssl'.id
    BY <1>2, <1>4 DEF Kept
  <2>3. QED
    BY <1>12, <1>13, <2>1, <2>2 DEF Answers
<1>15. \A i \in 1..Len(toPhone') : i + 1 \in 1..Len(toPhone) /\ i + 1 # 1 /\ toPhone'[i] = toPhone[i + 1]
  BY <1>1, <1>8 DEF Later, Typed
<1>16. Asked'
  BY <1>12, <1>13, <1>15 DEF KeyInv, Asked, Kept
<1>17. Shaken'
  BY <1>13, <1>15 DEF KeyInv, Shaken, Told, Alive, Kept
<1>18. KeysFit'
  BY <1>13, <1>15 DEF KeyInv, KeysFit, Kept
<1>19. QED
  BY <1>8, <1>10, <1>11, <1>14, <1>16, <1>17, <1>18 DEF KeyInv

\* Every other message leaves the phone in its session.
LEMMA Quiet ==
    ASSUME KeyInv, Kept, cable # 0, cable = handle, toPhone # << >>, toPhone' = Tail(toPhone),
           phone' \in PhoneState, phone'.key = phone.key, toHU' = toHU,
           phone'.at = phone.at \/ (phone'.at \in Secure /\ phone.at \in Secure)
    PROVE  KeyInv'
<1>1. Later(1) /\ Follow
  BY TailIsLater, SameFollows DEF KeyInv
<1>2. phone.at \in Secure => phone.at \in InSession /\ Told
  BY DEF Secure, InSession, Told
<1>3. QED
  BY <1>1, <1>2, GoesOnKeeps

\* A frame that is sent in the phone's session.
LEMMA SecretAside ==
    ASSUME KeyInv, NEW chan \in Channels, NEW type \in Types \ {"version", "ssl"}, NEW arg \in Nat,
           NEW part \in Int, NEW of \in Int,
           chan \in Media => type \in MediaTypes /\ (type = "video_focus" => chan = Video)
    PROVE  Aside(Frame(Secret(chan, type, arg), part, of))
<1>1. phone.key \in Nat
  BY DEF KeyInv, Typed, PhoneState
<1>2. /\ Secret(chan, type, arg) \in Wire /\ Secret(chan, type, arg).type = type
      /\ Secret(chan, type, arg).chan = chan /\ Secret(chan, type, arg).key = phone.key
  BY <1>1, OutType DEF Secret
<1>3. Frame(Secret(chan, type, arg), part, of) \in Frames /\ Frame(Secret(chan, type, arg), part, of).m = Secret(chan, type, arg)
  BY <1>2 DEF Frame, Frames
<1>4. QED
  BY <1>2, <1>3 DEF Aside, Said

LEMMA HeardType ==
    ASSUME NEW c \in ChannelState, NEW m
    PROVE  Heard(c, m) \in ChannelState
BY DEF Heard, ChannelState

\* What the phone makes of a message.
LEMMA TakeCases ==
    ASSUME Take, NEW m, m = Head(toPhone)
    PROVE  \/ m.type = "version_request" /\ TakeVersion
           \/ m.type = "ssl" /\ TakeSsl(m)
           \/ m.type = "auth" /\ TakeAuth(m)
           \/ phone.at = "sdr" /\ phone' = [phone EXCEPT !.at = "up"] /\ UNCHANGED toHU
           \/ /\ m.chan \in Media /\ m.key = phone.key /\ phone.at = "up"
              /\ phone' = [phone EXCEPT !.ch[m.chan] = Heard(@, m)] /\ UNCHANGED toHU
           \/ UNCHANGED <<phone, toHU>>
<1> DEFINE N == [phone EXCEPT !.ch[m.chan] = Heard(@, m)]
<1> HIDE DEF N
<1>1. CASE m.type = "version_request"
  BY <1>1 DEF Take, N
<1>2. CASE m.type # "version_request"
  BY <1>2 DEF Take, N
<1>3. QED
  BY <1>1, <1>2

LEMMA TakeKeeps == ASSUME KeyInv, Take PROVE KeyInv'
<1> DEFINE m == Head(toPhone)
<1>1. /\ cable # 0 /\ toPhone # << >> /\ toPhone' = Tail(toPhone) /\ Kept
  BY DEF Take, Unchanged, Kept, connection, services
<1>2. cable = handle /\ phone \in PhoneState
  BY <1>1 DEF KeyInv, Plugged, Typed
<1>3. \/ m.type = "version_request" /\ TakeVersion
      \/ m.type = "ssl" /\ TakeSsl(m)
      \/ m.type = "auth" /\ TakeAuth(m)
      \/ phone.at = "sdr" /\ phone' = [phone EXCEPT !.at = "up"] /\ UNCHANGED toHU
      \/ m.chan \in Media /\ phone.at = "up" /\ phone' = [phone EXCEPT !.ch[m.chan] = Heard(@, m)] /\ UNCHANGED toHU
      \/ UNCHANGED <<phone, toHU>>
  BY <1>1, TakeCases
<1>4. Len(toPhone) \in Nat /\ 1 \in 1..Len(toPhone) /\ toPhone[1] = m
  BY <1>1 DEF KeyInv, Typed
<1> HIDE DEF m
<1>5. CASE m.type = "version_request" /\ TakeVersion
  BY <1>1, <1>2, <1>5, VersionKeeps DEF m
<1>6. CASE m.type = "ssl" /\ TakeSsl(m)
  <2>1. CASE phone.at \in {"version", "ssl"}
    BY <1>1, <1>2, <1>6, <2>1, TakeSslKeeps DEF m
  <2>2. CASE phone.at \notin {"version", "ssl"}
    BY <1>1, <1>2, <1>6, <2>2, Quiet DEF TakeSsl
  <2>3. QED
    BY <2>1, <2>2
<1>7. CASE m.type = "auth" /\ TakeAuth(m)
  <2> DEFINE f == Frame(Secret(Control, "sdr", 0), 1, 1)
  <2>1. CASE phone.at = "ssl" /\ phone.key = m.arg
    <3>1. phone' = [phone EXCEPT !.at = "sdr"] /\ toHU' = Append(toHU, f)
      BY <1>7, <2>1 DEF TakeAuth, Send
    <3>2. Aside(f)
      <4>1. Control \in Channels /\ Control \notin Media /\ "sdr" \in Types \ {"version", "ssl"} /\ 0 \in Nat /\ 1 \in Int
        BY MediaAssumption DEF Channels, Types, Control, Video
      <4>2. QED
        BY <4>1, SecretAside
    <3> HIDE DEF f
    <3>3. phone' \in PhoneState /\ phone'.key = phone.key /\ phone'.at \in Secure /\ phone.at \in InSession
      BY <1>2, <2>1, <3>1 DEF PhoneState, Secure, InSession
    <3>4. Told
      BY <1>4, <1>7 DEF Told
    <3>5. Follow
      BY <3>1, <3>2, <3>3, FrameAtEnd DEF Aside, KeyInv, Follow
    <3>6. Later(1)
      BY <1>1, TailIsLater DEF KeyInv
    <3>7. QED
      BY <1>1, <1>2, <3>3, <3>4, <3>5, <3>6, GoesOnKeeps
  <2>2. CASE ~(phone.at = "ssl" /\ phone.key = m.arg)
    BY <1>1, <1>2, <1>7, <2>2, Quiet DEF TakeAuth
  <2>3. QED
    BY <2>1, <2>2
<1>8. CASE phone.at = "sdr" /\ phone' = [phone EXCEPT !.at = "up"] /\ UNCHANGED toHU
  <2>1. phone' \in PhoneState /\ phone'.key = phone.key /\ phone'.at \in Secure /\ phone.at \in Secure
    BY <1>2, <1>8 DEF PhoneState, Secure
  <2>2. QED
    BY <1>1, <1>2, <1>8, <2>1, Quiet
<1>9. CASE m.chan \in Media /\ phone.at = "up" /\ phone' = [phone EXCEPT !.ch[m.chan] = Heard(@, m)] /\ UNCHANGED toHU
  <2>1. phone.ch[m.chan] \in ChannelState
    BY <1>2, <1>9 DEF PhoneState
  <2>2. Heard(phone.ch[m.chan], m) \in ChannelState
    BY <2>1, HeardType
  <2>3. phone' = [phone EXCEPT !.ch = [phone.ch EXCEPT ![m.chan] = Heard(phone.ch[m.chan], m)]]
    BY <1>9
  <2>4. [phone.ch EXCEPT ![m.chan] = Heard(phone.ch[m.chan], m)] \in [Media -> ChannelState]
    BY <1>2, <2>2 DEF PhoneState
  <2>5. phone' \in PhoneState /\ phone'.key = phone.key /\ phone'.at = phone.at
    BY <1>2, <2>3, <2>4 DEF PhoneState
  <2>6. QED
    BY <1>1, <1>2, <1>9, <2>5, Quiet
<1>10. CASE UNCHANGED <<phone, toHU>>
  BY <1>1, <1>2, <1>10, Quiet
<1>11. QED
  BY <1>3, <1>5, <1>6, <1>7, <1>8, <1>9, <1>10

\* What the phone does on its media channels, once it has the services.
LEMMA UpKeeps ==
    ASSUME KeyInv, Kept, cable # 0, phone.at = "up", toPhone' = toPhone, Follow,
           phone' \in PhoneState, phone'.key = phone.key, phone'.at = phone.at
    PROVE  KeyInv'
<1>1. cable = handle
  BY DEF KeyInv, Plugged
<1>2. Later(0)
  BY SameIsLater DEF KeyInv
<1>3. QED
  BY <1>1, <1>2, GoesOnKeeps

\* ... with a frame of its own.
LEMMA FrameFollows ==
    ASSUME KeyInv, phone'.at = "up", NEW f, Aside(f), toHU' = Append(toHU, f)
    PROVE  Follow
BY FrameAtEnd DEF KeyInv, Aside, Follow, Secure

\* A step of a channel.
LEMMA ChannelStep ==
    ASSUME phone \in PhoneState, NEW chan \in Media, NEW c \in ChannelState,
           phone' = [phone EXCEPT !.ch = [phone.ch EXCEPT ![chan] = c]]
    PROVE  /\ phone' \in PhoneState /\ phone'.key = phone.key /\ phone.ch[chan] \in ChannelState
           /\ phone'.at = phone.at /\ phone'.ch[chan] = c
           /\ \A d \in Media \ {chan} : phone'.ch[d] = phone.ch[d]
<1>1. phone.ch \in [Media -> ChannelState]
  BY DEF PhoneState
<1>2. [phone.ch EXCEPT ![chan] = c] \in [Media -> ChannelState] /\ phone.ch[chan] \in ChannelState
  BY <1>1
<1>3. phone'.ch = [phone.ch EXCEPT ![chan] = c]
  BY DEF PhoneState
<1>4. phone'.ch[chan] = c /\ \A d \in Media \ {chan} : phone'.ch[d] = phone.ch[d]
  BY <1>1, <1>3
<1>5. phone' \in PhoneState /\ phone'.key = phone.key /\ phone'.at = phone.at
  BY <1>2 DEF PhoneState
<1>6. QED
  BY <1>2, <1>4, <1>5

LEMMA MediaTypesAreTypes == MediaTypes \subseteq Types \ {"version", "ssl"}
BY DEF MediaTypes, Types

LEMMA MoveKeeps == ASSUME KeyInv, NEW chan \in Media, Move(chan) PROVE KeyInv'
<1>1. PICK step \in Moves :
        /\ cable # 0 /\ phone.at = "up" /\ toPhone' = toPhone /\ Kept
        /\ toHU' = Append(toHU, Frame(Secret(chan, step[2], 0), 1, 1))
        /\ phone' = [phone EXCEPT !.ch[chan].at = step[3]]
  BY DEF Move, Send, Unchanged, Kept, connection, services
<1>2. phone \in PhoneState /\ phone.ch[chan] \in ChannelState
  BY DEF KeyInv, Typed, PhoneState
<1>3. step[2] \in {"open", "setup"} /\ step[3] \in {"opening", "setup"}
  BY DEF Moves
<1>4. [phone.ch[chan] EXCEPT !.at = step[3]] \in ChannelState
  BY <1>2, <1>3 DEF ChannelState
<1>5. phone' \in PhoneState /\ phone'.key = phone.key /\ phone'.at = phone.at
  BY <1>1, <1>2, <1>4, ChannelStep
<1>6. Aside(Frame(Secret(chan, step[2], 0), 1, 1))
  <2>1. chan \in Channels /\ step[2] \in MediaTypes /\ step[2] # "video_focus"
    BY <1>3 DEF Channels, MediaTypes
  <2>2. 0 \in Nat /\ 1 \in Int
    OBVIOUS
  <2>3. QED
    BY <2>1, <2>2, MediaTypesAreTypes, SecretAside
<1>7. QED
  BY <1>1, <1>5, <1>6, FrameFollows, UpKeeps

LEMMA StartKeeps == ASSUME KeyInv, NEW chan \in Media, NEW s \in Sessions, Start(chan, s) PROVE KeyInv'
<1>1. /\ cable # 0 /\ phone.at = "up" /\ toPhone' = toPhone /\ Kept
      /\ toHU' = Append(toHU, Frame(Secret(chan, "start", s), 1, 1))
      /\ phone' = [phone EXCEPT !.ch[chan] = [@ EXCEPT !.at = "started", !.session = s, !.sent = 0, !.acks = 0]]
  BY DEF Start, Send, Unchanged, Kept, connection, services
<1>2. phone \in PhoneState /\ phone.ch[chan] \in ChannelState /\ s \in Nat
  BY SessionAssumption DEF KeyInv, Typed, PhoneState
<1>3. [phone.ch[chan] EXCEPT !.at = "started", !.session = s, !.sent = 0, !.acks = 0] \in ChannelState
  BY <1>2 DEF ChannelState
<1>4. phone' \in PhoneState /\ phone'.key = phone.key /\ phone'.at = phone.at
  BY <1>1, <1>2, <1>3, ChannelStep
<1>5. Aside(Frame(Secret(chan, "start", s), 1, 1))
  <2>1. chan \in Channels /\ "start" \in MediaTypes /\ 1 \in Int
    BY DEF Channels, MediaTypes
  <2>2. QED
    BY <1>2, <2>1, MediaTypesAreTypes, SecretAside
<1>6. QED
  BY <1>1, <1>4, <1>5, FrameFollows, UpKeeps

LEMMA DataKeeps == ASSUME KeyInv, NEW chan \in Media, Data(chan) PROVE KeyInv'
<1> DEFINE c == phone.ch[chan]
           last == c.part + 1 = DataFrames
           part == IF last THEN 0 ELSE c.part + 1
           sent == IF last THEN c.sent + 1 ELSE c.sent
           d == [c EXCEPT !.part = part, !.sent = sent]
<1>1. /\ cable # 0 /\ phone.at = "up" /\ toPhone' = toPhone /\ Kept
      /\ toHU' = Append(toHU, Frame(Secret(chan, "data", c.sent + 1), c.part + 1, DataFrames))
      /\ phone' = [phone EXCEPT !.ch[chan].part = IF last THEN 0 ELSE @ + 1,
                                !.ch[chan].sent = IF last THEN @ + 1 ELSE @]
  BY DEF Data, Unchanged, Kept, connection, services
<1>2. phone \in PhoneState /\ c \in ChannelState /\ c.part \in Nat /\ c.sent \in Nat
  BY DEF KeyInv, Typed, PhoneState, ChannelState
<1>3. d \in ChannelState
  <2>1. part \in Nat /\ sent \in Nat
    BY <1>2
  <2> HIDE DEF part, sent
  <2>2. QED
    BY <1>2, <2>1 DEF ChannelState
<1>4. phone' = [phone EXCEPT !.ch = [phone.ch EXCEPT ![chan] = d]]
  BY <1>1, <1>2 DEF PhoneState
<1>5. phone' \in PhoneState /\ phone'.key = phone.key /\ phone'.at = phone.at
  <2> HIDE DEF d
  <2>1. QED
    BY <1>2, <1>3, <1>4, ChannelStep
<1>6. Aside(Frame(Secret(chan, "data", c.sent + 1), c.part + 1, DataFrames))
  <2>1. chan \in Channels /\ "data" \in MediaTypes /\ c.sent + 1 \in Nat /\ c.part + 1 \in Int /\ DataFrames \in Int
    BY <1>2, BoundAssumption DEF Channels, MediaTypes
  <2>2. QED
    BY <2>1, MediaTypesAreTypes, SecretAside
<1>7. QED
  BY <1>1, <1>5, <1>6, FrameFollows, UpKeeps

LEMMA StopKeeps == ASSUME KeyInv, NEW chan \in Media, Stop(chan) PROVE KeyInv'
<1> DEFINE f == Frame(Secret(chan, "stop", 0), 1, 1)
           g == Frame(Secret(Video, "video_focus", 0), 1, 1)
           at == IF chan = Video THEN "focus" ELSE "ready"
<1>1. /\ cable # 0 /\ phone.at = "up" /\ toPhone' = toPhone /\ Kept
      /\ toHU' = toHU \o <<f>> \o (IF chan = Video THEN <<g>> ELSE << >>)
      /\ phone' = [phone EXCEPT !.ch[chan].at = at]
  BY DEF Stop, Unchanged, Kept, connection, services
<1>2. phone \in PhoneState /\ phone.ch[chan] \in ChannelState
  BY DEF KeyInv, Typed, PhoneState
<1>3. [phone.ch[chan] EXCEPT !.at = at] \in ChannelState
  BY <1>2 DEF ChannelState
<1>4. phone' \in PhoneState /\ phone'.key = phone.key /\ phone'.at = "up"
  BY <1>1, <1>2, <1>3, ChannelStep
<1>5. Aside(f) /\ (chan = Video => Aside(g))
  <2>1. chan \in Channels /\ {"stop", "video_focus"} \subseteq MediaTypes /\ 0 \in Nat /\ 1 \in Int
    BY DEF Channels, MediaTypes
  <2>2. QED
    BY <2>1, MediaTypesAreTypes, SecretAside
<1> HIDE DEF f, g
<1>6. CASE chan # Video
  <2>1. toHU' = Append(toHU, f)
    BY <1>1, <1>5, <1>6 DEF KeyInv, Typed, Aside
  <2>2. QED
    BY <1>1, <1>4, <1>5, <2>1, FrameFollows, UpKeeps
<1>7. CASE chan = Video
  <2>1. toHU \in Seq(Frames) /\ f \in Frames /\ g \in Frames /\ Len(toHU) \in Nat
    BY <1>5, <1>7 DEF KeyInv, Typed, Aside
  <2>2. toHU' = Append(Append(toHU, f), g)
    <3>1. toHU' = toHU \o <<f>> \o <<g>>
      BY <1>1, <1>7
    <3>2. toHU \o <<f>> = Append(toHU, f) /\ Append(toHU, f) \in Seq(Frames)
      BY <2>1
    <3>3. Append(toHU, f) \o <<g>> = Append(Append(toHU, f), g)
      BY <2>1, <3>2
    <3>4. QED
      BY <3>1, <3>2, <3>3
  <2>3. toHU' \in Seq(Frames) /\ Len(toHU') = Len(toHU) + 2
    BY <2>1, <2>2
  <2>4. Follow
    <3>1. ASSUME NEW i \in 1..Len(toHU')
          PROVE  (i \in 1..Len(toHU) /\ toHU'[i] = toHU[i]) \/ Aside(toHU'[i])
      <4>1. CASE i \in 1..Len(toHU)
        BY <2>1, <2>2, <4>1
      <4>2. CASE i = Len(toHU) + 1
        BY <1>5, <2>1, <2>2, <4>2
      <4>3. CASE i = Len(toHU) + 2
        BY <1>5, <1>7, <2>1, <2>2, <4>3
      <4>4. QED
        BY <2>1, <2>3, <4>1, <4>2, <4>3
    <3>2. QED
      BY <1>4, <2>3, <3>1 DEF Follow, Secure
  <2>5. QED
    BY <1>1, <1>4, <2>4, UpKeeps
<1>8. QED
  BY <1>6, <1>7

LEMMA AskKeeps == ASSUME KeyInv, NEW r \in Asks, Ask(r) PROVE KeyInv'
<1>1. /\ cable # 0 /\ phone.at = "up" /\ toPhone' = toPhone /\ phone' = phone /\ Kept
      /\ toHU' = Append(toHU, Frame(Secret(r[1], r[2], 0), 1, 1))
  BY DEF Ask, Send, Unchanged, Kept, connection, services
<1>2. phone' \in PhoneState /\ phone'.at = "up"
  BY <1>1 DEF KeyInv, Typed
<1>3. r[1] \in {Control, "touch", "sensor"} /\ r[2] \in {"audio_focus", "ping", "nav_focus", "byebye", "open", "binding", "sensor_request"}
  BY AskAssumption
<1>4. r[1] \in Channels /\ r[1] \notin Media /\ r[2] \in Types \ {"version", "ssl"}
  BY <1>3, MediaAssumption DEF Channels, Types, Control, Video
<1>5. Aside(Frame(Secret(r[1], r[2], 0), 1, 1))
  <2>1. 0 \in Nat /\ 1 \in Int
    OBVIOUS
  <2>2. QED
    BY <1>4, <2>1, SecretAside
<1>6. QED
  BY <1>1, <1>2, <1>5, FrameFollows, UpKeeps

(***************************************************************************)
(* Every step.                                                             *)
(***************************************************************************)
\* While the rest of a frame is waited for, it is there.
Waiting == reading /\ Alive => toHU # << >>

LEMMA WaitingKeeps == ASSUME KeyInv, Waiting, [Next]_vars PROVE Waiting'
<1>1. Typed /\ Plugged
  BY DEF KeyInv
<1>2. CASE UNCHANGED vars
  BY <1>2 DEF Waiting, Alive, vars, connection
<1>3. CASE Connect \/ NotConnected \/ ReadError
  BY <1>3 DEF Connect, NotConnected, ReadError, Waiting, Alive, connection
<1>4. CASE Reads
  <2>1. PICK bad \in BOOLEAN : Process(bad)
    BY <1>4 DEF Reads, ReadRest, ReadFrame
  <2>2. QED
    BY <2>1 DEF Process, Waiting
<1>5. CASE ReadPart
  BY <1>5 DEF ReadPart, Waiting
<1>6. CASE \E type \in {"ping_request", "sensor"} : WriteOwn(type)
  BY <1>6 DEF WriteOwn, Waiting
<1>7. CASE Phone
  <2>1. UNCHANGED <<reading, aa_activated, cable, handle>>
    BY <1>7 DEF Phone, Take, Move, Start, Data, Stop, Ask, Unchanged, connection
  <2>2. \A s \in Seq(Frames) : \A f : Append(s, f) # << >>
    <3> SUFFICES ASSUME NEW s \in Seq(Frames), NEW f PROVE Append(s, f) # << >>
      OBVIOUS
    <3>1. s \in Seq(Frames \union {f}) /\ Len(s) \in Nat
      OBVIOUS
    <3>2. Len(Append(s, f)) = Len(s) + 1
      BY <3>1
    <3>3. QED
      BY <3>1, <3>2
  <2>3. toHU # << >> => toHU' # << >>
    <3>1. CASE Take
      BY <1>1, <2>2, <3>1 DEF Take, TakeVersion, TakeSsl, TakeAuth, Send, Typed
    <3>2. CASE \E c \in Media : Move(c) \/ (\E s \in Sessions : Start(c, s)) \/ Data(c)
      BY <1>1, <2>2, <3>2 DEF Move, Start, Data, Send, Typed
    <3>3. CASE \E c \in Media : Stop(c)
      <4>1. PICK c \in Media : Stop(c)
        BY <3>3
      <4>2. KeyInv' /\ cable # 0 /\ phone.at = "up"
        BY <4>1, StopKeeps DEF Stop
      <4>3. toHU' = toHU \o <<Frame(Secret(c, "stop", 0), 1, 1)>>
                        \o (IF c = Video THEN <<Frame(Secret(Video, "video_focus", 0), 1, 1)>> ELSE << >>)
        BY <4>1 DEF Stop
      <4>4. QED
        BY <1>1, <4>3 DEF Typed
    <3>4. CASE \E r \in Asks : Ask(r)
      BY <1>1, <2>2, <3>4 DEF Ask, Send, Typed
    <3>5. QED
      BY <1>7, <3>1, <3>2, <3>3, <3>4 DEF Phone
  <2>4. QED
    BY <2>1, <2>3 DEF Waiting, Alive
<1>8. CASE Plug \/ Unplug
  <2>1. ~Alive'
    <3>1. CASE Plug
      BY <1>1, <3>1 DEF Plug, Plugged, Typed, Alive, connection
    <3>2. CASE Unplug
      BY <1>1, <3>2 DEF Unplug, Plugged, Alive, connection
    <3>3. QED
      BY <1>8, <3>1, <3>2
  <2>2. QED
    BY <2>1 DEF Waiting
<1>9. QED
  BY <1>2, <1>3, <1>4, <1>5, <1>6, <1>7, <1>8 DEF Next, Handler

LEMMA InitKeys == Init => KeyInv /\ Waiting
<1> SUFFICES ASSUME Init PROVE KeyInv /\ Waiting
  OBVIOUS
<1>1. NewPhone \in PhoneState
  BY DEF Closed, ChannelState, NewPhone, PhoneState
<1>2. Len(toPhone) = 0 /\ Len(toHU) = 0 /\ toPhone \in Seq(Wire) /\ toHU \in Seq(Frames)
  BY DEF Init
<1>3. ssl \in Session /\ ssl.state = "null" /\ channel_session \in [Media -> Nat]
  BY DEF Init, Session
<1>4. Typed
  BY <1>1, <1>2, <1>3 DEF Init, Typed
<1>5. Spoken /\ KeysFit /\ Asked
  BY <1>2 DEF Spoken, KeysFit, Asked
<1>6. Plugged
  BY <1>3 DEF Init, Plugged
<1>7. Answers
  BY <1>2 DEF Init, Answers, NewPhone, InSession
<1>8. Shaken
  BY DEF Init, Shaken, Alive
<1>9. QED
  BY <1>4, <1>5, <1>6, <1>7, <1>8 DEF KeyInv, Waiting, Init

LEMMA NextKeys == ASSUME KeyInv, Waiting, [Next]_vars PROVE KeyInv'
<1>1. CASE UNCHANGED vars
  BY <1>1, SameKeeps DEF vars, connection, services, history, counts
<1>2. CASE Connect
  BY <1>2, ConnectKeeps
<1>3. CASE NotConnected
  BY <1>3, NotConnectedKeeps
<1>4. CASE ReadRest
  BY <1>4, ProcessKeeps DEF ReadRest, Waiting
<1>5. CASE \E bad \in BOOLEAN : ReadFrame(bad)
  BY <1>5, ProcessKeeps DEF ReadFrame
<1>6. CASE ReadPart
  BY <1>6, SameKeeps DEF ReadPart, services, history
<1>7. CASE ReadError
  BY <1>7, ReadErrorKeeps
<1>8. CASE \E type \in {"ping_request", "sensor"} : WriteOwn(type)
  BY <1>8, WriteOwnKeeps
<1>9. CASE Take
  BY <1>9, TakeKeeps
<1>10. CASE \E c \in Media : Move(c) \/ (\E s \in Sessions : Start(c, s)) \/ Data(c) \/ Stop(c)
  BY <1>10, MoveKeeps, StartKeeps, DataKeeps, StopKeeps
<1>11. CASE \E r \in Asks : Ask(r)
  BY <1>11, AskKeeps
<1>12. CASE Plug \/ Unplug
  BY <1>12, PlugKeeps
<1>13. QED
  BY <1>1, <1>2, <1>3, <1>4, <1>5, <1>6, <1>7, <1>8, <1>9, <1>10, <1>11, <1>12
     DEF Next, Handler, Reads, Phone

(***************************************************************************)
(* What is encrypted for the phone is encrypted in the session the phone   *)
(* is in, unless a connection was made again without the one before having *)
(* been ended (stop_connection, aa_handler.rs:272-276).                    *)
(***************************************************************************)
THEOREM PhoneHasTheKey == Spec => []KeyOfPhone
<1>1. Init => KeyInv /\ Waiting
  BY InitKeys
<1>2. (KeyInv /\ Waiting) /\ [Next]_vars => (KeyInv /\ Waiting)'
  BY NextKeys, WaitingKeeps
<1>3. KeyInv => KeyOfPhone
  <2> SUFFICES ASSUME KeyInv, ~stale, NEW i \in 1..Len(toPhone) PROVE toPhone[i].key \in {Plain, phone.key}
    BY DEF KeyOfPhone
  <2>1. toPhone[i].key # Plain => toPhone[i].key = ssl.id /\ phone.key = ssl.id
    BY DEF KeyInv, KeysFit, Answers
  <2>2. QED
    BY <2>1
<1>4. QED
  BY <1>1, <1>2, <1>3, PTL DEF Spec

(***************************************************************************)
(* An encrypted frame that is read next is encrypted in the session the    *)
(* handler is in, whose handshake is finished, so that only a fault on USB *)
(* can fail it and end the connection (process_bytes, aa_handler.rs:599    *)
(* and 641); also when the connection before was not ended.                *)
(***************************************************************************)
THEOREM HandlerHasTheKey == Spec => []KeyOfHandler
<1>1. Init => KeyInv /\ Waiting
  BY InitKeys
<1>2. (KeyInv /\ Waiting) /\ [Next]_vars => (KeyInv /\ Waiting)'
  BY NextKeys, WaitingKeeps
<1>3. KeyInv => KeyOfHandler
  <2> SUFFICES ASSUME KeyInv, Alive, toHU # << >>, Head(toHU).m.key # Plain
               PROVE  ssl.state = "done" /\ Head(toHU).m.key = ssl.id
    BY DEF KeyOfHandler
  <2>1. 1 \in 1..Len(toHU) /\ Head(toHU) = toHU[1]
    BY DEF KeyInv, Typed
  <2>2. Head(toHU).m.key = ssl.id /\ phone.at \in Secure
    BY <2>1 DEF KeyInv, Answers
  <2>3. QED
    BY <2>2 DEF KeyInv, Shaken, Told
<1>4. QED
  BY <1>1, <1>2, <1>3, PTL DEF Spec

===============================================================================
