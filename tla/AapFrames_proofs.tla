--------------------------- MODULE AapFrames_proofs ---------------------------
(***************************************************************************)
(* Proofs that the frames of the messages of an Android phone, mixed with  *)
(* those of other channels and of sessions that failed, are put together   *)
(* to the messages the phone sent, that the handler's state has its type,  *)
(* and that the phone is not sent more acknowledgements in a session than  *)
(* media messages have been handled.  They use the invariant of the TLS    *)
(* session (AapHandler_proofs).                                            *)
(***************************************************************************)
EXTENDS AapHandler_proofs, FiniteSetTheorems

(***************************************************************************)
(* The frames of a message.                                                *)
(***************************************************************************)
\* The first p of the n frames of message m.
Parts(m, p, n) == [k \in 1..p |-> Frame(m, k, n)]

Before(f) == Frame(f.m, f.part - 1, f.of)

\* The frame of channel c before number i of s is f; d is what was read of the channel.
Last(s, d, c, i, f) ==
    \/ \E j \in 1..(i - 1) : s[j] = f /\ \A l \in (j + 1)..(i - 1) : s[l].m.chan # c
    \/ (\A l \in 1..(i - 1) : s[l].m.chan # c) /\ d = Parts(f.m, f.part, f.of)

LEMMA FrameIs ==
    ASSUME NEW f \in Frames
    PROVE  f = Frame(f.m, f.part, f.of) /\ f.part \in Int /\ f.of \in Int /\ f.m \in Wire
BY DEF Frames, Frame

LEMMA FrameType ==
    ASSUME NEW m \in Wire, NEW p \in Int, NEW n \in Int
    PROVE  /\ Frame(m, p, n) \in Frames /\ Frame(m, p, n).m = m
           /\ Frame(m, p, n).part = p /\ Frame(m, p, n).of = n
BY DEF Frames, Frame

LEMMA PartsType ==
    ASSUME NEW m \in Wire, NEW p \in Nat, NEW n \in Int
    PROVE  /\ Parts(m, p, n) \in Seq(Frames) /\ Len(Parts(m, p, n)) = p
           /\ \A k \in 1..p : Parts(m, p, n)[k] = Frame(m, k, n)
<1>1. \A k \in 1..p : Frame(m, k, n) \in Frames
  BY FrameType
<1>2. QED
  BY <1>1 DEF Parts

LEMMA PartsGrow ==
    ASSUME NEW m \in Wire, NEW p \in Nat, NEW n \in Int
    PROVE  Append(Parts(m, p, n), Frame(m, p + 1, n)) = Parts(m, p + 1, n)
<1> DEFINE s == Append(Parts(m, p, n), Frame(m, p + 1, n))
           t == Parts(m, p + 1, n)
<1>1. s \in Seq(Frames) /\ Len(s) = p + 1 /\ \A k \in 1..(p + 1) : s[k] = Frame(m, k, n)
  BY PartsType, FrameType
<1>2. t \in Seq(Frames) /\ Len(t) = p + 1 /\ \A k \in 1..(p + 1) : t[k] = Frame(m, k, n)
  BY PartsType
<1> HIDE DEF s, t
<1>3. s = t
  BY <1>1, <1>2
<1>4. QED
  BY <1>3 DEF s, t

LEMMA PartsOne ==
    ASSUME NEW f \in Frames, f.part = 1
    PROVE  <<f>> = Parts(f.m, 1, f.of)
<1>1. f = Frame(f.m, 1, f.of) /\ f.m \in Wire /\ f.of \in Int
  BY FrameIs
<1> DEFINE s == Parts(f.m, 1, f.of)
<1>2. s \in Seq(Frames) /\ Len(s) = 1 /\ s[1] = f
  <2>1. 1 \in Nat /\ 1 \in 1..1
    OBVIOUS
  <2>2. s \in Seq(Frames) /\ Len(s) = 1 /\ \A k \in 1..1 : s[k] = Frame(f.m, k, f.of)
    BY <1>1, <2>1, PartsType
  <2>3. QED
    BY <1>1, <2>1, <2>2
<1> HIDE DEF s
<1>3. s = <<f>>
  <2>1. \A g \in Seq(Frames) : Len(g) = 1 => g = <<g[1]>>
    OBVIOUS
  <2>2. QED
    BY <1>2, <2>1
<1>4. QED
  BY <1>3 DEF s

\* The frames before one are the same when others are sent ...
LEMMA LastStays ==
    ASSUME NEW s \in Seq(Frames), NEW t \in Seq(Frames), NEW d, NEW c, NEW i \in 1..(Len(s) + 1), NEW f,
           Last(s, d, c, i, f)
    PROVE  Last(s \o t, d, c, i, f)
<1>1. Len(s) \in Nat /\ \A l \in 1..(i - 1) : (s \o t)[l] = s[l]
  OBVIOUS
<1>2. CASE \E j \in 1..(i - 1) : s[j] = f /\ \A l \in (j + 1)..(i - 1) : s[l].m.chan # c
  <2>1. PICK j \in 1..(i - 1) : s[j] = f /\ \A l \in (j + 1)..(i - 1) : s[l].m.chan # c
    BY <1>2
  <2>2. \A l \in (j + 1)..(i - 1) : l \in 1..(i - 1)
    BY <1>1
  <2>3. QED
    BY <1>1, <2>1, <2>2 DEF Last
<1>3. CASE (\A l \in 1..(i - 1) : s[l].m.chan # c) /\ d = Parts(f.m, f.part, f.of)
  BY <1>1, <1>3 DEF Last
<1>4. QED
  BY <1>2, <1>3 DEF Last

\* ... and the last one of a channel when those are of other channels.
LEMMA LastPast ==
    ASSUME NEW s \in Seq(Frames), NEW t \in Seq(Frames), NEW d, NEW c, NEW f,
           \A k \in 1..Len(t) : t[k].m.chan # c,
           Last(s, d, c, Len(s) + 1, f)
    PROVE  Last(s \o t, d, c, Len(s \o t) + 1, f)
<1>1. /\ Len(s) \in Nat /\ Len(t) \in Nat /\ Len(s \o t) = Len(s) + Len(t)
      /\ \A l \in 1..Len(s) : (s \o t)[l] = s[l]
      /\ \A l \in 1..Len(s \o t) : l \notin 1..Len(s) => (s \o t)[l] = t[l - Len(s)] /\ l - Len(s) \in 1..Len(t)
  OBVIOUS
<1>2. Len(s) + 1 - 1 = Len(s) /\ Len(s \o t) + 1 - 1 = Len(s \o t)
  BY <1>1
<1>3. \A l \in 1..Len(s \o t) : l \notin 1..Len(s) => (s \o t)[l].m.chan # c
  BY <1>1
<1>4. CASE \E j \in 1..Len(s) : s[j] = f /\ \A l \in (j + 1)..Len(s) : s[l].m.chan # c
  <2>1. PICK j \in 1..Len(s) : s[j] = f /\ \A l \in (j + 1)..Len(s) : s[l].m.chan # c
    BY <1>4
  <2>2. j \in 1..Len(s \o t) /\ (s \o t)[j] = f
    BY <1>1, <2>1
  <2>3. ASSUME NEW l \in (j + 1)..Len(s \o t) PROVE (s \o t)[l].m.chan # c
    <3>1. l \in 1..Len(s \o t) /\ (l \in 1..Len(s) => l \in (j + 1)..Len(s))
      BY <1>1, <2>1
    <3>2. QED
      BY <1>1, <1>3, <2>1, <3>1
  <2>4. QED
    BY <1>2, <2>2, <2>3 DEF Last
<1>5. CASE (\A l \in 1..Len(s) : s[l].m.chan # c) /\ d = Parts(f.m, f.part, f.of)
  <2>1. \A l \in 1..Len(s \o t) : (s \o t)[l].m.chan # c
    BY <1>1, <1>3, <1>5
  <2>2. QED
    BY <1>2, <1>5, <2>1 DEF Last
<1>6. QED
  BY <1>2, <1>4, <1>5 DEF Last

\* A frame that is read: when it is the frame before, it is what is read of the channel.
LEMMA LastRead ==
    ASSUME NEW s \in Seq(Frames), s # << >>, NEW d, NEW e, NEW c, NEW i \in 1..Len(s), NEW f,
           Last(s, d, c, i + 1, f),
           Head(s) = f => e = Parts(f.m, f.part, f.of),
           Head(s).m.chan # c => e = d
    PROVE  Last(Tail(s), e, c, i, f)
<1>1. /\ Len(s) \in Nat /\ Head(s) = s[1] /\ (i + 1) - 1 = i
      /\ \A l \in 1..(i - 1) : Tail(s)[l] = s[l + 1] /\ l + 1 \in 1..i
  OBVIOUS
<1>2. CASE \E j \in 1..i : s[j] = f /\ \A l \in (j + 1)..i : s[l].m.chan # c
  <2>1. PICK j \in 1..i : s[j] = f /\ \A l \in (j + 1)..i : s[l].m.chan # c
    BY <1>2
  <2>2. CASE j = 1
    <3>1. \A l \in 1..(i - 1) : Tail(s)[l].m.chan # c
      BY <1>1, <2>1, <2>2
    <3>2. e = Parts(f.m, f.part, f.of)
      BY <1>1, <2>1, <2>2
    <3>3. QED
      BY <3>1, <3>2 DEF Last
  <2>3. CASE j # 1
    <3>1. j - 1 \in 1..(i - 1) /\ Tail(s)[j - 1] = s[j]
      BY <1>1, <2>3
    <3>2. ASSUME NEW l \in ((j - 1) + 1)..(i - 1) PROVE Tail(s)[l].m.chan # c
      <4>1. l \in 1..(i - 1) /\ l + 1 \in (j + 1)..i
        BY <2>3
      <4>2. QED
        BY <1>1, <2>1, <4>1
    <3>3. QED
      BY <2>1, <3>1, <3>2 DEF Last
  <2>4. QED
    BY <2>2, <2>3
<1>3. CASE (\A l \in 1..i : s[l].m.chan # c) /\ d = Parts(f.m, f.part, f.of)
  <2>1. \A l \in 1..(i - 1) : Tail(s)[l].m.chan # c
    BY <1>1, <1>3
  <2>2. e = d
    BY <1>1, <1>3
  <2>3. QED
    BY <1>3, <2>1, <2>2 DEF Last
<1>4. QED
  BY <1>1, <1>2, <1>3 DEF Last

(***************************************************************************)
(* What is on its way, in whose session.  In a session that is set up the  *)
(* handler reads every message from its first frame (InStep), also the one *)
(* the phone has sent a part of (Begun), as nothing was sent in it before  *)
(* (Late).                                                                 *)
(***************************************************************************)
Formed(f, id) ==
    /\ f.of \in {1, DataFrames} /\ f.part \in 1..f.of
    /\ f.m.key = Plain => f.of = 1
    /\ f.m.key <= id
    /\ f.m.type = "start" => f.m.arg \in Sessions

\* The numbers of the TLS sessions are those of sessions that were begun.
Numbered ==
    /\ \A i \in 1..Len(toHU) : Formed(toHU[i], ssl.id)
    /\ \A i \in 1..Len(toPhone) : toPhone[i].type \in {"ssl", "auth"} => toPhone[i].arg \in 1..ssl.id
    /\ phone.key <= ssl.id
    /\ phone.at \in {"ssl", "sdr", "up"} => phone.key > 0
    /\ ssl.state \in {"begun", "answered", "done"} => ssl.id > 0

\* Nothing is sent in a session that is being set up.
Late == ssl.state \in {"begun", "answered"} =>
    /\ ~(phone.at \in {"sdr", "up"} /\ phone.key = ssl.id)
    /\ \A i \in 1..Len(toPhone) : ~(toPhone[i].type = "auth" /\ toPhone[i].arg = ssl.id)
    /\ \A i \in 1..Len(toHU) : toHU[i].m.key # ssl.id

\* A message half sent.
Halves == \A c \in Media :
    /\ phone.ch[c].part < DataFrames
    /\ phone.ch[c].part > 0 => phone.at = "up" /\ phone.ch[c].at = "started"

Linked == ssl.state = "done" /\ Alive

InStep == Linked => \A i \in 1..Len(toHU) :
    toHU[i].m.key = ssl.id /\ toHU[i].part > 1 =>
        Last(toHU, current_data[toHU[i].m.chan], toHU[i].m.chan, i, Before(toHU[i]))

Sending(c) == Frame(Secret(c, "data", phone.ch[c].sent + 1), phone.ch[c].part, DataFrames)

Begun == Linked /\ phone.key = ssl.id => \A c \in Media :
    phone.ch[c].part > 0 => Last(toHU, current_data[c], c, Len(toHU) + 1, Sending(c))

Kinds ==
    /\ current_data \in [Channels -> Seq(Frames)]
    /\ \A c \in Channels : Len(current_data[c]) < DataFrames

FrameInv == Kinds /\ Numbered /\ Late /\ Halves /\ InStep /\ Begun

LEMMA SendingIs ==
    ASSUME Typed, NEW c \in Media
    PROVE  /\ Sending(c) \in Frames /\ Sending(c).m = Secret(c, "data", phone.ch[c].sent + 1)
           /\ Sending(c).m.chan = c /\ Sending(c).m.key = phone.key
           /\ Sending(c).part = phone.ch[c].part /\ Sending(c).of = DataFrames
           /\ Sending(c).m.type = "data"
<1>1. phone.ch[c] \in ChannelState /\ phone.key \in Nat
  BY DEF Typed, PhoneState
<1>2. phone.ch[c].sent + 1 \in Nat /\ phone.ch[c].part \in Int /\ DataFrames \in Int
  BY <1>1, BoundAssumption DEF ChannelState
<1>3. c \in Channels /\ "data" \in Types
  BY DEF Channels, Types
<1>4. Secret(c, "data", phone.ch[c].sent + 1) \in Wire
  BY <1>1, <1>2, <1>3, OutType DEF Secret
<1>5. /\ Secret(c, "data", phone.ch[c].sent + 1).chan = c
      /\ Secret(c, "data", phone.ch[c].sent + 1).key = phone.key
      /\ Secret(c, "data", phone.ch[c].sent + 1).type = "data"
  BY DEF Secret, Out
<1>6. QED
  BY <1>2, <1>4, <1>5, FrameType DEF Sending

\* A frame that comes next in the session goes on where its channel was.
LEMMA NextFits ==
    ASSUME KeyInv, FrameInv, Alive, toHU # << >>, NEW f, f = Head(toHU),
           f.m.key = Plain \/ (f.m.key = ssl.id /\ ssl.state = "done")
    PROVE  Gathered(f) = Parts(f.m, f.part, f.of)
<1>1. Len(toHU) \in Nat /\ 1 \in 1..Len(toHU) /\ f = toHU[1]
  BY DEF KeyInv, Typed
<1>2. f \in Frames /\ Formed(f, ssl.id)
  BY <1>1, Carried DEF FrameInv, Numbered, KeyInv
<1>3. f = Frame(f.m, f.part, f.of) /\ f.part \in Nat /\ f.of \in Int /\ f.m \in Wire
  BY <1>2, FrameIs, BoundAssumption DEF Formed
<1>4. CASE f.part = 1
  <2>1. Gathered(f) = <<f>>
    BY <1>4 DEF Gathered
  <2>2. QED
    BY <1>2, <1>4, <2>1, PartsOne
<1>5. CASE f.part # 1
  <2>1. f.m.key = ssl.id /\ Linked /\ f.part > 1
    BY <1>2, <1>3, <1>5 DEF Formed, Linked
  <2>2. Last(toHU, current_data[f.m.chan], f.m.chan, 1, Before(f))
    BY <1>1, <2>1 DEF FrameInv, InStep
  <2>3. current_data[f.m.chan] = Parts(Before(f).m, Before(f).part, Before(f).of)
    BY <2>2 DEF Last
  <2>4. current_data[f.m.chan] = Parts(f.m, f.part - 1, f.of) /\ f.part - 1 \in Nat /\ (f.part - 1) + 1 = f.part
    BY <1>3, <1>5, <2>1, <2>3, FrameType DEF Before
  <2>5. Append(Parts(f.m, f.part - 1, f.of), Frame(f.m, (f.part - 1) + 1, f.of)) = Parts(f.m, (f.part - 1) + 1, f.of)
    BY <1>3, <2>4, PartsGrow
  <2>6. Gathered(f) = Append(current_data[f.m.chan], f)
    BY <1>5 DEF Gathered
  <2>7. QED
    BY <1>3, <2>4, <2>5, <2>6
<1>6. QED
  BY <1>4, <1>5

\* Reading on in the session.
LEMMA ReadOn ==
    ASSUME KeyInv, FrameInv, Linked, toHU # << >>, toHU' = Tail(toHU), ssl'.id = ssl.id, phone' = phone,
           NEW f, f = Head(toHU), NEW d, current_data' = [current_data EXCEPT ![f.m.chan] = d],
           f.m.key = ssl.id /\ f.part # f.of => d = Parts(f.m, f.part, f.of)
    PROVE  InStep' /\ Begun'
<1>1. /\ Len(toHU) \in Nat /\ 1 \in 1..Len(toHU) /\ f = toHU[1] /\ toHU \in Seq(Frames)
      /\ Len(toHU') = Len(toHU) - 1
      /\ \A i \in 1..Len(toHU') : toHU'[i] = toHU[i + 1] /\ i + 1 \in 1..Len(toHU) /\ i \in 1..Len(toHU)
  BY DEF KeyInv, Typed
<1>2. f.m.chan \in Channels
  <2>1. f.m \in Wire
    BY <1>1, Carried DEF KeyInv
  <2>2. QED
    BY <2>1 DEF Wire
<1>3. \A c : c \in Channels => (f.m.chan # c => current_data'[c] = current_data[c]) /\ (f.m.chan = c => current_data'[c] = d)
  BY <1>2 DEF FrameInv, Kinds
<1>4. ASSUME NEW c \in Channels, NEW i \in 1..Len(toHU), NEW g \in Frames, g.m.chan = c, g.m.key = ssl.id, g.part # g.of,
             Last(toHU, current_data[c], c, i + 1, g)
      PROVE  Last(Tail(toHU), current_data'[c], c, i, g)
  <2>1. Head(toHU) = g => current_data'[c] = Parts(g.m, g.part, g.of)
    BY <1>3, <1>4
  <2>2. Head(toHU).m.chan # c => current_data'[c] = current_data[c]
    BY <1>3
  <2> DEFINE e == current_data'[c]
             h == current_data[c]
  <2>3. (Head(toHU) = g => e = Parts(g.m, g.part, g.of)) /\ (Head(toHU).m.chan # c => e = h) /\ Last(toHU, h, c, i + 1, g)
    BY <1>4, <2>1, <2>2
  <2> HIDE DEF e, h
  <2>4. Last(Tail(toHU), e, c, i, g)
    BY <1>1, <2>3, LastRead
  <2>5. QED
    BY <2>4 DEF e
<1>5. InStep'
  <2> SUFFICES ASSUME NEW i \in 1..Len(toHU'), toHU'[i].m.key = ssl'.id, toHU'[i].part > 1
               PROVE  Last(toHU', current_data'[toHU'[i].m.chan], toHU'[i].m.chan, i, Before(toHU'[i]))
    BY DEF InStep
  <2> DEFINE g == toHU[i + 1]
  <2>1. i + 1 \in 1..Len(toHU) /\ i \in 1..Len(toHU) /\ toHU'[i] = g
    BY <1>1
  <2>2. g \in Frames /\ Formed(g, ssl.id) /\ g.m \in Wire /\ g.m.key = ssl.id /\ g.part > 1
    BY <2>1, Carried DEF FrameInv, Numbered, KeyInv
  <2>3. Last(toHU, current_data[g.m.chan], g.m.chan, i + 1, Before(g))
    BY <2>1, <2>2 DEF FrameInv, InStep
  <2> HIDE DEF g
  <2>4. g.part \in Int /\ g.of \in Int /\ g.part <= g.of
    BY <2>2, FrameIs DEF Formed
  <2>5. Before(g) \in Frames /\ Before(g).m = g.m /\ Before(g).part = g.part - 1 /\ Before(g).of = g.of
    BY <2>2, <2>4, FrameType DEF Before
  <2>6. Before(g).part # Before(g).of /\ g.m.chan \in Channels
    BY <2>2, <2>4, <2>5 DEF Wire
  <2>7. Last(Tail(toHU), current_data'[g.m.chan], g.m.chan, i, Before(g))
    BY <1>4, <2>1, <2>2, <2>3, <2>5, <2>6
  <2>8. QED
    BY <2>1, <2>7
<1>6. Begun'
  <2> SUFFICES ASSUME phone'.key = ssl'.id, NEW c \in Media, phone'.ch[c].part > 0
               PROVE  Last(toHU', current_data'[c], c, Len(toHU') + 1, Sending(c)')
    BY DEF Begun
  <2>1. Sending(c)' = Sending(c)
    BY DEF Sending, Secret
  <2>2. Last(toHU, current_data[c], c, Len(toHU) + 1, Sending(c))
    BY DEF FrameInv, Begun
  <2>3. /\ Sending(c) \in Frames /\ Sending(c).m.chan = c /\ Sending(c).m.key = ssl.id
        /\ Sending(c).part # Sending(c).of
    <3>1. phone.ch[c].part < DataFrames /\ phone.ch[c].part \in Nat
      BY DEF FrameInv, Halves, KeyInv, Typed, PhoneState, ChannelState
    <3>2. QED
      BY <3>1, SendingIs, BoundAssumption DEF KeyInv
  <2>4. c \in Channels /\ Len(toHU) \in 1..Len(toHU) /\ Len(toHU') + 1 = Len(toHU)
    BY <1>1 DEF Channels
  <2>5. Last(Tail(toHU), current_data'[c], c, Len(toHU), Sending(c))
    BY <1>4, <2>2, <2>3, <2>4
  <2>6. QED
    BY <2>1, <2>4, <2>5
<1>7. QED
  BY <1>5, <1>6

(***************************************************************************)
(* Reading.                                                                *)
(***************************************************************************)
\* What a message appended to what is on its way to the phone leaves and adds.
LEMMA PlainAtEnd ==
    ASSUME Typed, NEW m \in Wire, toPhone' = Append(toPhone, m)
    PROVE  /\ toPhone' \in Seq(Wire) /\ Len(toPhone) \in Nat /\ Len(toPhone') = Len(toPhone) + 1
           /\ \A i \in 1..Len(toPhone) : i \in 1..Len(toPhone') /\ toPhone'[i] = toPhone[i]
           /\ toPhone'[Len(toPhone) + 1] = m
           /\ \A i \in 1..Len(toPhone') : i \in 1..Len(toPhone) \/ i = Len(toPhone) + 1
BY DEF Typed

\* What is written is old or meets P.
Sent(i) == \E k \in 1..Len(toPhone) : toPhone'[i] = toPhone[k]

LEMMA WriteAdds ==
    ASSUME Typed, NEW ms, SafeSeq(ms), WriteBytes(ms)
    PROVE  \A i \in 1..Len(toPhone') : Sent(i) \/ toPhone'[i].type \notin {"ssl", "auth"}
<1> DEFINE S == {m \in Wire : Safe(m)}
<1>1. \A m \in S : m.type \notin {"ssl", "auth"}
  BY DEF Safe
<1>2. ms \in Seq(S) /\ S \in SUBSET Wire
  BY SafeWrites
<1> HIDE DEF S
<1>3. Writes(S)
  BY <1>2, WritesSome
<1>4. QED
  BY <1>1, <1>3 DEF Writes, Sent

\* The numbers stay in order while nothing but the handler moves.
LEMMA NumbersStay ==
    ASSUME KeyInv, Numbered, Fewer, phone' = phone, ssl' \in Session, ssl.id <= ssl'.id,
           \A i \in 1..Len(toPhone') :
              Sent(i) \/ toPhone'[i].type \notin {"ssl", "auth"} \/ toPhone'[i].arg \in 1..ssl'.id,
           ssl'.state \in {"begun", "answered", "done"} => ssl'.id > 0
    PROVE  Numbered'
<1>1. ssl.id \in Nat /\ ssl'.id \in Nat /\ phone.key \in Nat
  BY DEF KeyInv, Typed, Session, PhoneState
<1>2. \A i \in 1..Len(toHU) : toHU[i].m.key \in Nat
  BY Carried DEF KeyInv, Wire
<1>3. ASSUME NEW i \in 1..Len(toHU') PROVE Formed(toHU'[i], ssl'.id)
  <2>1. PICK k \in 1..Len(toHU) : toHU'[i] = toHU[k]
    BY DEF Fewer
  <2>2. Formed(toHU[k], ssl.id)
    BY DEF Numbered
  <2>3. QED
    BY <1>1, <1>2, <2>1, <2>2 DEF Formed
<1>4. ASSUME NEW i \in 1..Len(toPhone'), toPhone'[i].type \in {"ssl", "auth"} PROVE toPhone'[i].arg \in 1..ssl'.id
  <2>1. CASE Sent(i)
    <3>1. toPhone'[i].arg \in 1..ssl.id
      BY <1>4, <2>1 DEF Sent, Numbered
    <3>2. QED
      BY <1>1, <3>1
  <2>2. QED
    BY <1>4, <2>1
<1>5. phone'.key <= ssl'.id
  BY <1>1 DEF Numbered
<1>6. QED
  BY <1>3, <1>4, <1>5 DEF Numbered

LEMMA LateStays ==
    ASSUME Late, Fewer, phone' = phone, ssl'.id = ssl.id,
           ssl'.state \in {"begun", "answered"} => ssl.state \in {"begun", "answered"},
           \A i \in 1..Len(toPhone') : Sent(i) \/ toPhone'[i].type # "auth"
    PROVE  Late'
BY DEF Late, Fewer, Sent

LEMMA KindsStay ==
    ASSUME Kinds, NEW c \in Channels, NEW d \in Seq(Frames), Len(d) < DataFrames,
           current_data' = [current_data EXCEPT ![c] = d]
    PROVE  Kinds'
BY DEF Kinds

\* What is read of the message of the channel does not reach its end.
LEMMA ReadKinds ==
    ASSUME KeyInv, FrameInv, Alive, toHU # << >>, NEW f, f = Head(toHU), NEW d,
           current_data' = [current_data EXCEPT ![f.m.chan] = d],
           d = << >> \/ (d = Parts(f.m, f.part, f.of) /\ f.part # f.of)
    PROVE  Kinds'
<1>1. Len(toHU) \in Nat /\ 1 \in 1..Len(toHU) /\ f = toHU[1]
  BY DEF KeyInv, Typed
<1>2. f \in Frames /\ Formed(f, ssl.id) /\ f.m \in Wire
  BY <1>1, Carried DEF FrameInv, Numbered, KeyInv
<1>3. f.m.chan \in Channels
  BY <1>2 DEF Wire
<1>4. d \in Seq(Frames) /\ Len(d) < DataFrames
  <2>1. CASE d = << >>
    BY <2>1, BoundAssumption
  <2>2. CASE d = Parts(f.m, f.part, f.of) /\ f.part # f.of
    <3>1. f.part \in Nat /\ f.of \in Int /\ f.part < DataFrames
      BY <1>2, <2>2, BoundAssumption DEF Formed
    <3>2. QED
      BY <1>2, <2>2, <3>1, PartsType
  <2>3. QED
    BY <2>1, <2>2
<1>5. QED
  BY <1>3, <1>4, KindsStay DEF FrameInv

\* The handshake or not: who is linked then was so before, or begins to be.
LEMMA HandleFrames ==
    ASSUME KeyInv, FrameInv, Alive, toHU # << >>, toHU' = Tail(toHU), NEW f, f = Head(toHU), Handle(f.m),
           current_data' = [current_data EXCEPT ![f.m.chan] = << >>], f.part = f.of,
           UNCHANGED <<phone, handle, cable>>
    PROVE  FrameInv'
<1>1. Fewer /\ ssl \in Session /\ ssl.id \in Nat
  BY TailIsFewer DEF KeyInv, Typed, Session
<1>2. Kinds'
  BY ReadKinds
<1>3. Halves'
  BY DEF FrameInv, Halves
<1>4. CASE BeginSslHandshake
  <2>1. ssl' = [id |-> ssl.id + 1, state |-> "begun"]
    BY <1>4 DEF BeginSslHandshake
  <2>2. ssl' \in Session /\ ssl'.id = ssl.id + 1 /\ ssl'.state = "begun"
    <3>1. ssl.id + 1 \in Nat
      BY <1>1
    <3>2. QED
      BY <2>1, <3>1 DEF Session
  <2> DEFINE m == Out(Control, "ssl", Plain, ssl.id + 1)
  <2>3. m \in Wire /\ m.type = "ssl" /\ m.arg = ssl.id + 1
    <3>1. Control \in Channels /\ "ssl" \in Types /\ Plain \in Nat /\ ssl.id + 1 \in Nat
      BY <1>1 DEF Channels, Types, Plain
    <3>2. QED
      BY <3>1, OutType
  <2>4. WriteBytes(<<m>>)
    BY <1>4 DEF BeginSslHandshake, Unencoded
  <2> HIDE DEF m
  <2>5. Writes({m})
    BY <2>3, <2>4, WritesOne DEF KeyInv
  <2>6. \A i \in 1..Len(toPhone') : Sent(i) \/ toPhone'[i] = m
    BY <2>5 DEF Writes, Sent
  <2>7. Numbered'
    <3>1. ssl.id + 1 \in 1..ssl'.id /\ ssl.id <= ssl'.id /\ ssl'.id > 0
      BY <1>1, <2>2
    <3>2. QED
      BY <1>1, <2>2, <2>3, <2>6, <3>1, NumbersStay DEF FrameInv
  <2>8. Late'
    <3>1. phone.key # ssl'.id
      BY <1>1, <2>2 DEF FrameInv, Numbered, KeyInv, Typed, PhoneState
    <3>2. ASSUME NEW i \in 1..Len(toPhone'), toPhone'[i].type = "auth" PROVE toPhone'[i].arg # ssl'.id
      <4>1. Sent(i)
        BY <2>3, <2>6, <3>2
      <4>2. toPhone'[i].arg \in 1..ssl.id
        BY <3>2, <4>1 DEF Sent, FrameInv, Numbered
      <4>3. QED
        BY <1>1, <2>2, <4>2
    <3>3. ASSUME NEW i \in 1..Len(toHU') PROVE toHU'[i].m.key # ssl'.id
      <4>1. PICK k \in 1..Len(toHU) : toHU'[i] = toHU[k]
        BY <1>1 DEF Fewer
      <4>2. toHU[k].m.key <= ssl.id /\ toHU[k].m.key \in Nat
        BY Carried DEF FrameInv, Numbered, Formed, KeyInv, Wire
      <4>3. QED
        BY <1>1, <2>2, <4>1, <4>2
    <3>4. QED
      BY <3>1, <3>2, <3>3 DEF Late
  <2>9. ~Linked'
    BY <2>2 DEF Linked
  <2>10. QED
    BY <1>2, <1>3, <2>7, <2>8, <2>9 DEF FrameInv, InStep, Begun
<1>5. CASE f.m.type = "ssl" /\ HandleSslHandshake(f.m)
  <2>1. /\ ssl' \in Session /\ ssl'.id = ssl.id
        /\ \/ ssl'.state = ssl.state /\ ssl.state \notin {"begun", "answered"}
           \/ ssl'.state = "broken"
           \/ ssl.state = "begun" /\ ssl'.state = "answered"
           \/ ssl.state = "answered" /\ ssl'.state = "done"
    BY <1>1, <1>5 DEF HandleSslHandshake, Session
  <2>3. \/ toPhone' = toPhone
        \/ ssl.state = "begun" /\ WriteBytes(<<Out(Control, "ssl", Plain, ssl.id)>>)
        \/ ssl.state = "answered" /\ f.m.arg = ssl.id /\ WriteBytes(<<Out(Control, "auth", Plain, ssl.id)>>)
    <3>1. CASE f.m.arg = ssl.id /\ ssl.state \in {"begun", "answered"}
      BY <1>5, <3>1 DEF HandleSslHandshake, Unencoded
    <3>2. CASE ~(f.m.arg = ssl.id /\ ssl.state \in {"begun", "answered"})
      BY <1>5, <3>2 DEF HandleSslHandshake, WriteBytes
    <3>3. QED
      BY <3>1, <3>2
  <2>4. /\ \A i \in 1..Len(toPhone') : Sent(i) \/ toPhone'[i].arg = ssl.id
        /\ ssl'.state # "done" => \A i \in 1..Len(toPhone') : Sent(i) \/ toPhone'[i].type # "auth"
        /\ ssl.state \notin {"begun", "answered"} => \A i \in 1..Len(toPhone') : Sent(i)
    <3>1. Control \in Channels /\ {"ssl", "auth"} \subseteq Types /\ Plain \in Nat
      BY DEF Channels, Types, Plain
    <3>2. ASSUME NEW t \in {"ssl", "auth"}
          PROVE  /\ Out(Control, t, Plain, ssl.id) \in Wire /\ Out(Control, t, Plain, ssl.id).type = t
                 /\ Out(Control, t, Plain, ssl.id).arg = ssl.id
      <4>1. t \in Types
        BY <3>1
      <4>2. QED
        BY <1>1, <3>1, <4>1, OutType
    <3>3. CASE toPhone' = toPhone
      BY <3>3 DEF Sent
    <3>4. ASSUME NEW t \in {"ssl", "auth"}, WriteBytes(<<Out(Control, t, Plain, ssl.id)>>)
          PROVE  \A i \in 1..Len(toPhone') : Sent(i) \/ (toPhone'[i].arg = ssl.id /\ toPhone'[i].type = t)
      <4> DEFINE m == Out(Control, t, Plain, ssl.id)
      <4>1. m \in Wire /\ m.type = t /\ m.arg = ssl.id /\ WriteBytes(<<m>>)
        BY <3>2, <3>4
      <4> HIDE DEF m
      <4>2. Writes({m})
        BY <4>1, WritesOne DEF KeyInv
      <4>3. QED
        BY <4>1, <4>2 DEF Writes, Sent
    <3>5. ssl.state = "answered" /\ f.m.arg = ssl.id => ssl'.state = "done"
      BY <1>5, <1>1 DEF HandleSslHandshake, Session
    <3>6. QED
      BY <2>3, <3>3, <3>4, <3>5
  <2>5. ssl.id \in 1..ssl.id \/ ssl.state \notin {"begun", "answered", "done"}
    BY <1>1 DEF FrameInv, Numbered
  <2>6. Numbered'
    <3>1. \A i \in 1..Len(toPhone') : Sent(i) \/ toPhone'[i].arg \in 1..ssl'.id
      BY <2>1, <2>4, <2>5
    <3>2. ssl.id <= ssl'.id /\ (ssl'.state \in {"begun", "answered", "done"} => ssl'.id > 0)
      BY <1>1, <2>1, <2>5
    <3>3. QED
      BY <1>1, <2>1, <3>1, <3>2, NumbersStay DEF FrameInv
  <2>7. Late'
    <3>1. ssl'.state \in {"begun", "answered"} => ssl.state \in {"begun", "answered"}
      BY <2>1
    <3>2. ssl'.state \notin {"begun", "answered"} => Late'
      BY DEF Late
    <3>3. ssl'.state \in {"begun", "answered"} => \A i \in 1..Len(toPhone') : Sent(i) \/ toPhone'[i].type # "auth"
      BY <2>4
    <3>4. QED
      BY <1>1, <2>1, <3>1, <3>2, <3>3, LateStays DEF FrameInv
  <2>8. InStep' /\ Begun'
    <3>1. CASE ~Linked'
      BY <3>1 DEF InStep, Begun
    <3>2. CASE Linked' /\ ssl.state = "done"
      <4>1. Linked
        BY <3>2 DEF Linked
      <4>2. QED
        BY <2>1, <4>1, ReadOn
    <3>3. CASE Linked' /\ ssl.state # "done"
      <4>1. ssl.state = "answered"
        BY <2>1, <3>3 DEF Linked
      <4>2. InStep'
        BY <1>1, <2>1, <4>1 DEF FrameInv, Late, InStep, Fewer
      <4>3. Begun'
        BY <2>1, <4>1 DEF FrameInv, Late, Halves, Begun
      <4>4. QED
        BY <4>2, <4>3
    <3>4. QED
      BY <3>1, <3>2, <3>3
  <2>9. QED
    BY <1>2, <1>3, <2>6, <2>7, <2>8 DEF FrameInv
<1>6. CASE ssl' = ssl /\ \E ms : SafeSeq(ms) /\ WriteBytes(ms)
  <2>1. PICK ms : SafeSeq(ms) /\ WriteBytes(ms)
    BY <1>6
  <2>3. \A i \in 1..Len(toPhone') : Sent(i) \/ toPhone'[i].type \notin {"ssl", "auth"}
    BY <2>1, WriteAdds DEF KeyInv
  <2>4. Numbered'
    BY <1>1, <1>6, <2>3, NumbersStay DEF FrameInv, Numbered
  <2>5. Late'
    BY <1>1, <1>6, <2>3, LateStays DEF FrameInv
  <2>6. InStep' /\ Begun'
    <3>1. Linked' => Linked
      BY <1>6 DEF Linked
    <3>2. CASE Linked
      BY <1>6, <3>2, ReadOn
    <3>3. QED
      BY <3>1, <3>2 DEF InStep, Begun
  <2>7. QED
    BY <1>2, <1>3, <2>4, <2>5, <2>6 DEF FrameInv
<1>7. QED
  BY <1>4, <1>5, <1>6, HandleCases

\* process_bytes.
LEMMA ProcessFrames ==
    ASSUME KeyInv, FrameInv, Whole, Alive, toHU # << >>, NEW bad \in BOOLEAN, Process(bad)
    PROVE  FrameInv' /\ Whole'
<1> DEFINE f == Head(toHU)
<1>1. toHU' = Tail(toHU) /\ UNCHANGED <<phone, handle, cable>>
  BY DEF Process
<1>2. Fewer /\ ssl \in Session /\ ssl.id \in Nat
  BY <1>1, TailIsFewer DEF KeyInv, Typed, Session
<1>3. Len(toHU) \in Nat /\ 1 \in 1..Len(toHU) /\ f = toHU[1]
  BY DEF KeyInv, Typed
<1>4. f \in Frames /\ Formed(f, ssl.id) /\ f.m \in Wire
  BY <1>3, Carried DEF FrameInv, Numbered, KeyInv
<1>5. Halves'
  BY <1>1 DEF FrameInv, Halves
<1>6. CASE Fails(f, bad)
  <2>1. /\ aa_activated' = FALSE /\ ssl' = [ssl EXCEPT !.state = "broken"]
        /\ current_data' = [current_data EXCEPT ![f.m.chan] = << >>]
        /\ UNCHANGED <<toPhone, message>>
    BY <1>6 DEF Process, Clear
  <2>2. ssl' \in Session /\ ssl'.id = ssl.id /\ ssl'.state = "broken" /\ ~Linked'
    BY <1>2, <2>1 DEF Session, Linked
  <2>3. \A i \in 1..Len(toPhone') : Sent(i)
    BY <2>1 DEF Sent
  <2>4. Kinds'
    BY <2>1, ReadKinds
  <2>5. Numbered' /\ Late'
    BY <1>1, <1>2, <2>2, <2>3, NumbersStay, LateStays DEF FrameInv
  <2>6. QED
    BY <1>5, <2>1, <2>2, <2>4, <2>5 DEF FrameInv, InStep, Begun, Whole
<1>7. CASE ~Fails(f, bad) /\ f.m.key # Plain /\ ssl.state = "null"
  <2>1. /\ current_data' = [current_data EXCEPT ![f.m.chan] = << >>]
        /\ UNCHANGED <<ssl, aa_activated, toPhone, message>>
    BY <1>7 DEF Process, Clear
  <2>2. ~Linked'
    BY <1>7, <2>1 DEF Linked
  <2>3. \A i \in 1..Len(toPhone') : Sent(i)
    BY <2>1 DEF Sent
  <2>4. Kinds'
    BY <2>1, ReadKinds
  <2>5. Numbered' /\ Late'
    BY <1>1, <1>2, <2>1, <2>3, NumbersStay, LateStays DEF FrameInv, Numbered
  <2>6. QED
    BY <1>5, <2>1, <2>2, <2>4, <2>5 DEF FrameInv, InStep, Begun, Whole
<1>8. CASE f.m.key = Plain \/ (f.m.key = ssl.id /\ ssl.state = "done")
  <2>1. Gathered(f) = Parts(f.m, f.part, f.of)
    BY <1>8, NextFits
  <2>2. ASSUME ~Fails(f, bad), f.part = f.of PROVE FrameInv' /\ Whole'
    <3>1. /\ current_data' = [current_data EXCEPT ![f.m.chan] = << >>]
          /\ message' = Gathered(f) /\ Handle(f.m)
      BY <1>8, <2>2, <1>2 DEF Process, Clear, Fails
    <3>2. FrameInv'
      <4> HIDE DEF f
      <4>1. f = Head(toHU)
        BY DEF f
      <4>2. QED
        BY <1>1, <2>2, <3>1, <4>1, HandleFrames
    <3>3. f.of \in Nat \ {0}
      BY <1>4, BoundAssumption DEF Formed
    <3>4. /\ Len(message') = f.of /\ \A i \in 1..f.of : message'[i] = Frame(f.m, i, f.of)
      <4>1. message' = Parts(f.m, f.of, f.of) /\ f.m \in Wire /\ f.of \in Nat /\ f.of \in Int
        BY <1>4, <2>1, <2>2, <3>1, <3>3
      <4> HIDE DEF f
      <4>2. QED
        BY <4>1, PartsType
    <3>5. message'[1].m = f.m /\ message'[1].of = f.of
      <4>1. 1 \in 1..f.of
        BY <3>3
      <4>2. message'[1] = Frame(f.m, 1, f.of)
        BY <3>4, <4>1
      <4> HIDE DEF f
      <4>3. QED
        BY <4>2 DEF Frame
    <3>6. QED
      BY <3>2, <3>4, <3>5 DEF Whole
  <2>3. ASSUME ~Fails(f, bad), f.part # f.of PROVE FrameInv' /\ Whole'
    <3>1. f.m.key = ssl.id /\ ssl.state = "done"
      BY <1>4, <1>8, <2>3 DEF Formed
    <3>2. /\ current_data' = [current_data EXCEPT ![f.m.chan] = Gathered(f)]
          /\ UNCHANGED <<ssl, aa_activated, toPhone, message>>
      BY <2>3, <3>1 DEF Process
    <3>3. Linked /\ \A i \in 1..Len(toPhone') : Sent(i)
      BY <3>1, <3>2 DEF Linked, Sent
    <3>4. Kinds'
      BY <2>1, <2>3, <3>2, ReadKinds
    <3>5. Numbered' /\ Late'
      BY <1>1, <1>2, <3>2, <3>3, NumbersStay, LateStays DEF FrameInv, Numbered
    <3>6. InStep' /\ Begun'
      BY <1>1, <2>1, <3>2, <3>3, ReadOn
    <3>7. QED
      BY <1>5, <3>2, <3>4, <3>5, <3>6 DEF FrameInv, Whole
  <2>4. CASE Fails(f, bad)
    BY <1>6, <2>4
  <2>5. QED
    BY <2>2, <2>3, <2>4
<1>9. QED
  BY <1>6, <1>7, <1>8 DEF Fails

(***************************************************************************)
(* The other steps of the handler.                                         *)
(***************************************************************************)
LEMMA OwnFrames ==
    ASSUME KeyInv, FrameInv, UNCHANGED <<toHU, phone, current_data, cable>>, ssl' \in Session, ssl'.id = ssl.id,
           ssl'.state \in {ssl.state, "null"},
           Linked' => Linked \/ (Len(toHU) = 0 /\ phone.at # "up"),
           \A i \in 1..Len(toPhone') : Sent(i) \/ toPhone'[i].type \notin {"ssl", "auth"}
    PROVE  FrameInv'
<1>1. Fewer /\ ssl.id \in Nat
  BY SameIsFewer DEF KeyInv, Typed, Session
<1>2. Kinds' /\ Halves'
  BY DEF FrameInv, Kinds, Halves
<1>3. Numbered'
  BY <1>1, NumbersStay DEF FrameInv, Numbered
<1>4. Late'
  BY <1>1, LateStays DEF FrameInv
<1>5. \A c \in Media : Sending(c)' = Sending(c)
  BY DEF Sending, Secret
<1>6. ASSUME Linked PROVE InStep' /\ Begun'
  BY <1>5, <1>6 DEF FrameInv, InStep, Begun
<1>7. ASSUME Len(toHU) = 0, phone.at # "up" PROVE InStep' /\ Begun'
  BY <1>7 DEF FrameInv, Halves, InStep, Begun
<1>8. ASSUME ~Linked' PROVE InStep' /\ Begun'
  BY <1>8 DEF InStep, Begun
<1>9. QED
  BY <1>2, <1>3, <1>4, <1>6, <1>7, <1>8 DEF FrameInv

LEMMA SameSent == ASSUME toPhone' = toPhone PROVE \A i \in 1..Len(toPhone') : Sent(i)
BY DEF Sent

LEMMA HandlerFrames ==
    ASSUME KeyInv, FrameInv,
           Connect \/ NotConnected \/ ReadPart \/ ReadError \/ (\E type \in {"ping_request", "sensor"} : WriteOwn(type))
    PROVE  FrameInv'
<1>1. ssl \in Session /\ Typed
  BY DEF KeyInv, Typed
<1>2. CASE Connect
  <2> DEFINE m == Out(Control, "version_request", Plain, 0)
  <2>1. /\ UNCHANGED <<toHU, phone, current_data, cable, ssl>> /\ cable # 0 /\ cable # handle
        /\ toPhone' = Append(toPhone, m) \/ toPhone' = toPhone
    BY <1>2 DEF Connect
  <2>2. m \in Wire /\ m.type = "version_request"
    <3>1. Plain \in Nat /\ 0 \in Nat /\ Control \in Channels /\ "version_request" \in Types
      BY DEF Plain, Channels, Types
    <3>2. QED
      BY <3>1, OutType
  <2> HIDE DEF m
  <2>3. \A i \in 1..Len(toPhone') : Sent(i) \/ toPhone'[i].type \notin {"ssl", "auth"}
    BY <1>1, <2>1, <2>2, PlainAtEnd, SameSent DEF Sent
  <2>4. Linked' => Len(toHU) = 0 /\ phone.at # "up"
    <3>1. toHU = << >> /\ phone.at = "idle"
      BY <2>1 DEF KeyInv, Plugged
    <3>2. QED
      BY <3>1
  <2>5. QED
    BY <1>1, <2>1, <2>3, <2>4, OwnFrames
<1>3. CASE NotConnected
  <2>1. UNCHANGED <<toHU, phone, current_data, cable, toPhone>> /\ ssl' = [ssl EXCEPT !.state = "null"]
    BY <1>3 DEF NotConnected, StopConnection
  <2>2. ssl' \in Session /\ ssl'.id = ssl.id /\ ssl'.state = "null" /\ ~Linked'
    BY <1>1, <2>1 DEF Session, Linked
  <2>3. QED
    BY <2>1, <2>2, SameSent, OwnFrames
<1>4. CASE ReadPart \/ ReadError
  <2>1. UNCHANGED <<toHU, phone, current_data, cable, toPhone, ssl, handle>> /\ (aa_activated' => aa_activated)
    BY <1>4 DEF ReadPart, ReadError
  <2>2. Linked' => Linked
    BY <2>1 DEF Linked, Alive
  <2>3. QED
    BY <1>1, <2>1, <2>2, SameSent, OwnFrames
<1>5. ASSUME NEW type \in {"ping_request", "sensor"}, WriteOwn(type) PROVE FrameInv'
  <2> DEFINE chan == IF type = "ping_request" THEN Control ELSE type
             ms == Encoded(chan, type, 0)
  <2>1. WriteBytes(ms) /\ UNCHANGED <<toHU, phone, current_data, cable, ssl, handle>>
    BY <1>5 DEF WriteOwn
  <2>2. SafeSeq(ms)
    <3>1. chan \in Channels /\ type \in Types \ {"version_request", "ssl", "auth"} /\ 0 \in Nat
      BY DEF Channels, Types, Control
    <3> HIDE DEF chan
    <3>2. QED
      BY <3>1, EncodedSafe
  <2> HIDE DEF ms
  <2>3. \A i \in 1..Len(toPhone') : Sent(i) \/ toPhone'[i].type \notin {"ssl", "auth"}
    BY <1>1, <2>1, <2>2, WriteAdds
  <2>4. Linked' => Linked
    BY <2>1 DEF Linked, Alive, WriteBytes
  <2>5. QED
    BY <1>1, <2>1, <2>3, <2>4, OwnFrames
<1>6. QED
  BY <1>2, <1>3, <1>4, <1>5

(***************************************************************************)
(* The steps of the phone, which sends t.                                  *)
(***************************************************************************)
Sends(t) == Kept /\ current_data' = current_data /\ t \in Seq(Frames) /\ toHU' = toHU \o t

LEMMA SentFrames ==
    ASSUME Typed, NEW t, Sends(t)
    PROVE  /\ toHU' \in Seq(Frames) /\ Len(toHU) \in Nat /\ Len(t) \in Nat /\ Len(toHU') = Len(toHU) + Len(t)
           /\ \A i \in 1..Len(toHU) : toHU'[i] = toHU[i]
           /\ \A i \in 1..Len(toHU') : i \notin 1..Len(toHU) =>
                 i - Len(toHU) \in 1..Len(t) /\ toHU'[i] = t[i - Len(toHU)]
BY DEF Sends, Typed

\* What a phone sends is of the session it is in.
Proper(t) ==
    /\ \A i \in 1..Len(toPhone') : Sent(i)
    /\ phone'.key <= ssl.id
    /\ phone'.at \in {"ssl", "sdr", "up"} => phone'.key > 0
    /\ \A k \in 1..Len(t) : Formed(t[k], ssl.id)
    /\ ssl.state \in {"begun", "answered"} =>
          /\ ~(phone'.at \in {"sdr", "up"} /\ phone'.key = ssl.id)
          /\ \A k \in 1..Len(t) : t[k].m.key # ssl.id

LEMMA PhoneNumbers ==
    ASSUME Typed, Numbered, Late, NEW t, Sends(t), Proper(t)
    PROVE  Numbered' /\ Late'
<1>1. ssl' = ssl
  BY DEF Sends, Kept
<1>2. \A i \in 1..Len(toHU') : (\E k \in 1..Len(toHU) : toHU'[i] = toHU[k]) \/ (\E k \in 1..Len(t) : toHU'[i] = t[k])
  BY SentFrames
<1>3. \A i \in 1..Len(toHU') : Formed(toHU'[i], ssl.id)
  BY <1>2 DEF Numbered, Proper
<1>4. Numbered'
  BY <1>1, <1>3 DEF Numbered, Proper, Sent
<1>5. Late'
  BY <1>1, <1>2 DEF Late, Proper, Sent
<1>6. QED
  BY <1>4, <1>5

LEMMA PhoneInStep ==
    ASSUME Typed, InStep, NEW t, Sends(t),
           \A k \in 1..Len(t) : Linked /\ t[k].m.key = ssl.id /\ t[k].part > 1 =>
               k = 1 /\ Last(toHU, current_data[t[k].m.chan], t[k].m.chan, Len(toHU) + 1, Before(t[k]))
    PROVE  InStep'
<1>1. ssl' = ssl /\ Linked' = Linked /\ current_data' = current_data /\ toHU' = toHU \o t /\ toHU \in Seq(Frames) /\ t \in Seq(Frames)
  BY DEF Sends, Kept, Linked, Alive, Typed
<1> SUFFICES ASSUME Linked, NEW i \in 1..Len(toHU'), toHU'[i].m.key = ssl.id, toHU'[i].part > 1
             PROVE  Last(toHU', current_data[toHU'[i].m.chan], toHU'[i].m.chan, i, Before(toHU'[i]))
  BY <1>1 DEF InStep
<1> DEFINE g == toHU'[i]
           d == current_data[toHU'[i].m.chan]
<1>2. i \in 1..(Len(toHU) + 1) /\ Last(toHU, d, g.m.chan, i, Before(g))
  <2>1. CASE i \in 1..Len(toHU)
    BY <2>1, SentFrames DEF InStep
  <2>2. CASE i \notin 1..Len(toHU)
    <3>1. i - Len(toHU) \in 1..Len(t) /\ g = t[i - Len(toHU)] /\ Len(toHU) \in Nat
      BY <2>2, SentFrames
    <3>2. i - Len(toHU) = 1 /\ Last(toHU, d, g.m.chan, Len(toHU) + 1, Before(g))
      BY <3>1
    <3>3. i = Len(toHU) + 1
      BY <3>1, <3>2
    <3>4. QED
      BY <3>1, <3>2, <3>3
  <2>3. QED
    BY <2>1, <2>2
<1> HIDE DEF g, d
<1>3. Last(toHU \o t, d, g.m.chan, i, Before(g))
  BY <1>1, <1>2, LastStays
<1>4. QED
  BY <1>1, <1>3 DEF g, d

\* A message that is half sent is so before and after.
LEMMA PhoneBegun ==
    ASSUME Typed, Begun, NEW t, Sends(t), NEW c \in Media, Linked, phone'.key = ssl.id,
           phone.key = ssl.id, phone.ch[c].part > 0, phone'.ch[c].part = phone.ch[c].part,
           phone'.ch[c].sent = phone.ch[c].sent, \A k \in 1..Len(t) : t[k].m.chan # c
    PROVE  Last(toHU', current_data'[c], c, Len(toHU') + 1, Sending(c)')
<1>1. Sending(c)' = Sending(c)
  BY DEF Sending, Secret
<1>2. current_data' = current_data /\ toHU' = toHU \o t /\ toHU \in Seq(Frames) /\ t \in Seq(Frames)
  BY DEF Sends, Typed
<1> DEFINE d == current_data[c]
           f == Sending(c)
<1>3. Last(toHU, d, c, Len(toHU) + 1, f)
  BY DEF Begun
<1> HIDE DEF d, f
<1>4. Last(toHU \o t, d, c, Len(toHU \o t) + 1, f)
  BY <1>2, <1>3, LastPast
<1>5. QED
  BY <1>1, <1>2, <1>4 DEF d, f

\* Whole messages, and none on a channel whose message is half sent.
Wholes(t) ==
    /\ \A k \in 1..Len(t) : t[k].part = 1
    /\ phone' \in PhoneState
    /\ \A c \in Media : phone'.ch[c].part > 0 =>
          /\ phone'.at = "up" /\ phone'.ch[c].at = "started" /\ phone'.key = phone.key
          /\ phone'.ch[c].part = phone.ch[c].part /\ phone'.ch[c].sent = phone.ch[c].sent
          /\ \A k \in 1..Len(t) : t[k].m.chan # c

LEMMA PhoneFrames ==
    ASSUME KeyInv, FrameInv, NEW t, Sends(t), Proper(t), Wholes(t)
    PROVE  FrameInv'
<1>1. Typed /\ ssl' = ssl /\ Linked' = Linked /\ current_data' = current_data
  BY DEF Sends, Kept, Linked, Alive, KeyInv
<1>2. Kinds'
  BY <1>1 DEF FrameInv, Kinds
<1>3. Numbered' /\ Late'
  BY <1>1, PhoneNumbers DEF FrameInv
<1>4. Halves'
  <2> SUFFICES ASSUME NEW c \in Media
               PROVE  /\ phone'.ch[c].part < DataFrames
                      /\ phone'.ch[c].part > 0 => phone'.at = "up" /\ phone'.ch[c].at = "started"
    BY DEF Halves
  <2>1. phone'.ch[c].part \in Nat
    BY DEF Wholes, PhoneState, ChannelState
  <2>2. QED
    BY <2>1, BoundAssumption DEF Wholes, FrameInv, Halves
<1>5. InStep'
  BY <1>1, PhoneInStep DEF FrameInv, Wholes
<1>6. Begun'
  BY <1>1, PhoneBegun DEF FrameInv, Begun, Wholes
<1>7. QED
  BY <1>2, <1>3, <1>4, <1>5, <1>6 DEF FrameInv

\* A whole message the phone encrypts.
LEMMA SecretFormed ==
    ASSUME KeyInv, FrameInv, phone.at \in {"ssl", "sdr", "up"}, NEW chan \in Channels, NEW type \in Types,
           NEW arg \in Nat, type = "start" => arg \in Sessions
    PROVE  LET f == Frame(Secret(chan, type, arg), 1, 1)
           IN  f \in Frames /\ Formed(f, ssl.id) /\ f.m.key = phone.key /\ f.m.chan = chan /\ f.part = 1
<1>1. phone.key \in Nat /\ phone.key > 0 /\ phone.key <= ssl.id
  BY DEF KeyInv, Typed, PhoneState, FrameInv, Numbered
<1> DEFINE m == Secret(chan, type, arg)
<1>2. m \in Wire /\ m.key = phone.key /\ m.chan = chan /\ m.type = type /\ m.arg = arg
  BY <1>1, OutType DEF Secret
<1> HIDE DEF m
<1> DEFINE f == Frame(m, 1, 1)
<1>3. f \in Frames /\ f.m = m /\ f.part = 1 /\ f.of = 1
  BY <1>2, FrameType
<1> HIDE DEF f
<1>4. Formed(f, ssl.id)
  BY <1>1, <1>2, <1>3 DEF Formed, Plain
<1>5. QED
  BY <1>2, <1>3, <1>4 DEF f, m

LEMMA NoFrames == Kept /\ current_data' = current_data /\ toHU' = toHU /\ Typed => Sends(<< >>)
BY DEF Sends, Typed

LEMMA OneFrame ==
    ASSUME Kept, current_data' = current_data, Typed, NEW f \in Frames, toHU' = Append(toHU, f)
    PROVE  Sends(<<f>>) /\ \A k \in 1..Len(<<f>>) : <<f>>[k] = f
<1>1. toHU \in Seq(Frames)
  BY DEF Typed
<1>2. Append(toHU, f) = toHU \o <<f>> /\ <<f>> \in Seq(Frames)
  BY <1>1
<1>3. \A k \in 1..Len(<<f>>) : <<f>>[k] = f
  OBVIOUS
<1>4. QED
  BY <1>2, <1>3 DEF Sends

\* A phone that has the services, and sends nothing it is not the session of.
LEMMA UpProper ==
    ASSUME KeyInv, FrameInv, phone.at = "up", phone'.at = "up", phone'.key = phone.key,
           \A i \in 1..Len(toPhone') : Sent(i), NEW t,
           \A k \in 1..Len(t) : Formed(t[k], ssl.id) /\ t[k].m.key = phone.key
    PROVE  Proper(t)
BY DEF Proper, FrameInv, Numbered, Late

\* A step of channel chan, of whose message nothing is sent before or after.
LEMMA ChannelFrames ==
    ASSUME KeyInv, FrameInv, phone.at = "up", NEW chan \in Media, NEW c \in ChannelState, NEW t, Sends(t),
           phone.ch[chan].part = 0, c.part = 0,
           phone' = [phone EXCEPT !.ch = [phone.ch EXCEPT ![chan] = c]],
           \A i \in 1..Len(toPhone') : Sent(i),
           \A k \in 1..Len(t) :
               Formed(t[k], ssl.id) /\ t[k].m.key = phone.key /\ t[k].part = 1 /\ t[k].m.chan = chan
    PROVE  FrameInv'
<1>1. /\ phone' \in PhoneState /\ phone'.key = phone.key /\ phone'.at = "up" /\ phone'.ch[chan] = c
      /\ \A d \in Media \ {chan} : phone'.ch[d] = phone.ch[d]
  BY ChannelStep DEF KeyInv, Typed
<1>2. Proper(t)
  BY <1>1, UpProper
<1>3. Wholes(t)
  BY <1>1 DEF Wholes, FrameInv, Halves
<1>4. QED
  BY <1>2, <1>3, PhoneFrames

LEMMA MoveFrames == ASSUME KeyInv, FrameInv, NEW chan \in Media, Move(chan) PROVE FrameInv'
<1>1. PICK step \in Moves :
        /\ phone.at = "up" /\ toPhone' = toPhone /\ Kept /\ current_data' = current_data
        /\ phone.ch[chan].at = step[1]
        /\ toHU' = Append(toHU, Frame(Secret(chan, step[2], 0), 1, 1))
        /\ phone' = [phone EXCEPT !.ch[chan].at = step[3]]
  BY DEF Move, Send, Unchanged, Kept, connection, services
<1>2. Typed /\ phone \in PhoneState /\ phone.ch[chan] \in ChannelState
  BY DEF KeyInv, Typed, PhoneState
<1>3. step[1] # "started" /\ step[2] \in {"open", "setup"} /\ step[3] \in {"opening", "setup"}
  BY DEF Moves
<1> DEFINE c == [phone.ch[chan] EXCEPT !.at = step[3]]
           f == Frame(Secret(chan, step[2], 0), 1, 1)
<1>4. c \in ChannelState /\ c.part = phone.ch[chan].part
  BY <1>2, <1>3 DEF ChannelState
<1>5. phone.ch[chan].part = 0
  BY <1>1, <1>2, <1>3 DEF FrameInv, Halves, ChannelState
<1>6. f \in Frames /\ Formed(f, ssl.id) /\ f.m.key = phone.key /\ f.m.chan = chan /\ f.part = 1
  <2>1. chan \in Channels /\ step[2] \in Types /\ 0 \in Nat /\ step[2] # "start"
    BY <1>3 DEF Channels, Types
  <2>2. QED
    BY <1>1, <2>1, SecretFormed
<1>7. phone' = [phone EXCEPT !.ch = [phone.ch EXCEPT ![chan] = c]]
  BY <1>1, <1>2 DEF PhoneState
<1>8. toHU' = Append(toHU, f)
  BY <1>1
<1> HIDE DEF c, f
<1> DEFINE t == <<f>>
<1>9. Sends(t) /\ \A k \in 1..Len(t) : t[k] = f
  BY <1>1, <1>2, <1>6, <1>8, OneFrame
<1> HIDE DEF t
<1>10. QED
  BY <1>1, <1>4, <1>5, <1>6, <1>7, <1>9, SameSent, ChannelFrames

LEMMA StartFrames ==
    ASSUME KeyInv, FrameInv, NEW chan \in Media, NEW s \in Sessions, Start(chan, s) PROVE FrameInv'
<1> DEFINE c == [phone.ch[chan] EXCEPT !.at = "started", !.session = s, !.sent = 0, !.acks = 0]
           f == Frame(Secret(chan, "start", s), 1, 1)
<1>1. /\ phone.at = "up" /\ toPhone' = toPhone /\ Kept /\ current_data' = current_data
      /\ phone.ch[chan].at = "ready" /\ toHU' = Append(toHU, f)
      /\ phone' = [phone EXCEPT !.ch[chan] = [@ EXCEPT !.at = "started", !.session = s, !.sent = 0, !.acks = 0]]
  BY DEF Start, Send, Unchanged, Kept, connection, services
<1>2. Typed /\ phone \in PhoneState /\ phone.ch[chan] \in ChannelState /\ s \in Nat
  BY SessionAssumption DEF KeyInv, Typed, PhoneState
<1>3. c \in ChannelState /\ c.part = phone.ch[chan].part
  BY <1>2 DEF ChannelState
<1>4. phone.ch[chan].part = 0
  BY <1>1, <1>2 DEF FrameInv, Halves, ChannelState
<1>5. f \in Frames /\ Formed(f, ssl.id) /\ f.m.key = phone.key /\ f.m.chan = chan /\ f.part = 1
  <2>1. chan \in Channels /\ "start" \in Types
    BY DEF Channels, Types
  <2>2. QED
    BY <1>1, <1>2, <2>1, SecretFormed
<1>6. phone' = [phone EXCEPT !.ch = [phone.ch EXCEPT ![chan] = c]]
  BY <1>1, <1>2 DEF PhoneState
<1> HIDE DEF c, f
<1> DEFINE t == <<f>>
<1>7. Sends(t) /\ \A k \in 1..Len(t) : t[k] = f
  BY <1>1, <1>2, <1>5, OneFrame
<1> HIDE DEF t
<1>8. \A i \in 1..Len(toPhone') : Sent(i)
  BY <1>1, SameSent
<1>9. phone.at = "up" /\ c.part = 0
  BY <1>1, <1>3, <1>4
<1>10. QED
  BY <1>3, <1>4, <1>5, <1>6, <1>7, <1>8, <1>9, ChannelFrames

LEMMA StopFrames == ASSUME KeyInv, FrameInv, NEW chan \in Media, Stop(chan) PROVE FrameInv'
<1> DEFINE f == Frame(Secret(chan, "stop", 0), 1, 1)
           g == Frame(Secret(Video, "video_focus", 0), 1, 1)
           at == IF chan = Video THEN "focus" ELSE "ready"
           t == IF chan = Video THEN <<f, g>> ELSE <<f>>
           c == [phone.ch[chan] EXCEPT !.at = at]
<1>1. /\ phone.at = "up" /\ toPhone' = toPhone /\ Kept /\ current_data' = current_data
      /\ phone.ch[chan].part = 0
      /\ toHU' = toHU \o <<f>> \o (IF chan = Video THEN <<g>> ELSE << >>)
      /\ phone' = [phone EXCEPT !.ch[chan].at = at]
  BY DEF Stop, Unchanged, Kept, connection, services
<1>2. Typed /\ phone \in PhoneState /\ phone.ch[chan] \in ChannelState
  BY DEF KeyInv, Typed, PhoneState
<1>3. c \in ChannelState /\ c.part = 0
  <2>1. at \in {"focus", "ready"}
    OBVIOUS
  <2> HIDE DEF at
  <2>2. QED
    BY <1>1, <1>2, <2>1 DEF ChannelState
<1>4. f \in Frames /\ Formed(f, ssl.id) /\ f.m.key = phone.key /\ f.m.chan = chan /\ f.part = 1
  <2>1. chan \in Channels /\ "stop" \in Types /\ 0 \in Nat
    BY DEF Channels, Types
  <2>2. QED
    BY <1>1, <2>1, SecretFormed
<1>5. chan = Video => g \in Frames /\ Formed(g, ssl.id) /\ g.m.key = phone.key /\ g.m.chan = chan /\ g.part = 1
  <2>1. chan \in Channels /\ "video_focus" \in Types /\ 0 \in Nat
    BY DEF Channels, Types
  <2>2. QED
    BY <1>1, <2>1, SecretFormed
<1>6. phone' = [phone EXCEPT !.ch = [phone.ch EXCEPT ![chan] = c]]
  BY <1>1, <1>2 DEF PhoneState
<1> HIDE DEF c, f, g, at
<1>7. toHU' = toHU \o t /\ t \in Seq(Frames) /\ \A k \in 1..Len(t) : t[k] = f \/ (chan = Video /\ t[k] = g)
  <2>1. CASE chan = Video
    <3>1. toHU \in Seq(Frames) /\ f \in Frames /\ g \in Frames
      BY <1>2, <1>4, <1>5, <2>1 DEF Typed
    <3>2. toHU' = (toHU \o <<f>>) \o <<g>>
      BY <1>1, <2>1
    <3>3. (toHU \o <<f>>) \o <<g>> = toHU \o <<f, g>> /\ <<f, g>> \in Seq(Frames)
      <4> DEFINE a == (toHU \o <<f>>) \o <<g>>
                 b == toHU \o <<f, g>>
      <4>1. <<f>> \in Seq(Frames) /\ <<g>> \in Seq(Frames) /\ <<f, g>> \in Seq(Frames) /\ Len(toHU) \in Nat
        BY <3>1
      <4>2. a \in Seq(Frames) /\ Len(a) = Len(toHU) + 2 /\ a[Len(toHU) + 1] = f /\ a[Len(toHU) + 2] = g /\ \A i \in 1..Len(toHU) : a[i] = toHU[i]
        BY <3>1, <4>1
      <4>3. b \in Seq(Frames) /\ Len(b) = Len(toHU) + 2 /\ b[Len(toHU) + 1] = f /\ b[Len(toHU) + 2] = g /\ \A i \in 1..Len(toHU) : b[i] = toHU[i]
        BY <3>1, <4>1
      <4> HIDE DEF a, b
      <4>4. \A i \in 1..Len(a) : i \in 1..Len(toHU) \/ i = Len(toHU) + 1 \/ i = Len(toHU) + 2
        BY <4>1, <4>2
      <4>5. a = b
        BY <4>2, <4>3, <4>4
      <4>6. QED
        BY <4>1, <4>5 DEF a, b
    <3>4. QED
      BY <2>1, <3>2, <3>3
  <2>2. CASE chan # Video
    <3>1. toHU \in Seq(Frames) /\ f \in Frames
      BY <1>2, <1>4 DEF Typed
    <3>2. toHU' = (toHU \o <<f>>) \o << >>
      BY <1>1, <2>2
    <3>3. toHU \o <<f>> \in Seq(Frames) /\ <<f>> \in Seq(Frames)
      BY <3>1
    <3>4. \A s \in Seq(Frames) : s \o << >> = s
      OBVIOUS
    <3>5. QED
      BY <2>2, <3>2, <3>3, <3>4
  <2>3. QED
    BY <2>1, <2>2
<1> HIDE DEF t
<1>8. Sends(t)
  BY <1>1, <1>7 DEF Sends
<1>9. \A k \in 1..Len(t) : Formed(t[k], ssl.id) /\ t[k].m.key = phone.key /\ t[k].part = 1 /\ t[k].m.chan = chan
  BY <1>4, <1>5, <1>7
<1>10. phone.at = "up" /\ phone.ch[chan].part = 0 /\ \A i \in 1..Len(toPhone') : Sent(i)
  BY <1>1, SameSent
<1>11. QED
  BY <1>3, <1>6, <1>8, <1>9, <1>10, ChannelFrames

LEMMA AskFrames == ASSUME KeyInv, FrameInv, NEW r \in Asks, Ask(r) PROVE FrameInv'
<1> DEFINE f == Frame(Secret(r[1], r[2], 0), 1, 1)
<1>1. /\ phone.at = "up" /\ toPhone' = toPhone /\ phone' = phone /\ Kept /\ current_data' = current_data
      /\ toHU' = Append(toHU, f)
  BY DEF Ask, Send, Unchanged, Kept, connection, services
<1>2. r[1] \in {Control, "touch", "sensor"} /\ r[2] \in {"audio_focus", "ping", "nav_focus", "byebye", "open", "binding", "sensor_request"}
  BY AskAssumption
<1>3. r[1] \in Channels /\ r[1] \notin Media /\ r[2] \in Types /\ r[2] # "start" /\ 0 \in Nat
  BY <1>2, MediaAssumption DEF Channels, Types, Control, Video
<1>4. f \in Frames /\ Formed(f, ssl.id) /\ f.m.key = phone.key /\ f.m.chan = r[1] /\ f.part = 1
  BY <1>1, <1>3, SecretFormed
<1> HIDE DEF f
<1> DEFINE t == <<f>>
<1>5. Sends(t) /\ \A k \in 1..Len(t) : t[k] = f
  BY <1>1, <1>4, OneFrame DEF KeyInv
<1> HIDE DEF t
<1>6. Proper(t)
  BY <1>1, <1>4, <1>5, SameSent, UpProper
<1>7. Wholes(t)
  <2>1. phone' \in PhoneState
    BY <1>1 DEF KeyInv, Typed
  <2>2. \A c \in Media : r[1] # c
    BY <1>3
  <2>3. QED
    BY <1>1, <1>4, <1>5, <2>1, <2>2 DEF Wholes, FrameInv, Halves
<1>8. QED
  BY <1>5, <1>6, <1>7, PhoneFrames

\* The next part of a message: the first one, or it goes on where the one before ended.
LEMMA DataPartFrames == ASSUME KeyInv, FrameInv, NEW chan \in Media, Data(chan) PROVE FrameInv'
<1> DEFINE c == phone.ch[chan]
           last == c.part + 1 = DataFrames
           part == IF last THEN 0 ELSE c.part + 1
           sent == IF last THEN c.sent + 1 ELSE c.sent
           d == [c EXCEPT !.part = part, !.sent = sent]
           m == Secret(chan, "data", c.sent + 1)
           f == Frame(m, c.part + 1, DataFrames)
           t == <<f>>
<1>1. /\ phone.at = "up" /\ c.at = "started" /\ toPhone' = toPhone /\ Kept /\ current_data' = current_data
      /\ toHU' = Append(toHU, f)
      /\ phone' = [phone EXCEPT !.ch[chan].part = IF last THEN 0 ELSE @ + 1,
                                !.ch[chan].sent = IF last THEN @ + 1 ELSE @]
  BY DEF Data, Unchanged, Kept, connection, services
<1>2. Typed /\ phone \in PhoneState /\ c \in ChannelState /\ c.part \in Nat /\ c.sent \in Nat
  BY DEF KeyInv, Typed, PhoneState, ChannelState
<1>3. /\ phone.key \in Nat /\ phone.key > 0 /\ phone.key <= ssl.id /\ DataFrames \in Nat /\ c.part < DataFrames
      /\ ssl.id \in Nat
  BY <1>1, BoundAssumption DEF KeyInv, Typed, PhoneState, Session, FrameInv, Numbered, Halves
<1>4. part \in Nat /\ sent \in Nat /\ part < DataFrames
  BY <1>2, <1>3
<1>5. d \in ChannelState /\ d.part = part /\ d.sent = sent /\ d.at = "started"
  <2> HIDE DEF part, sent
  <2>1. QED
    BY <1>1, <1>2, <1>4 DEF ChannelState
<1>6. phone' = [phone EXCEPT !.ch = [phone.ch EXCEPT ![chan] = d]]
  BY <1>1, <1>2 DEF PhoneState
<1>7. /\ phone' \in PhoneState /\ phone'.key = phone.key /\ phone'.at = "up" /\ phone'.ch[chan] = d
      /\ \A x \in Media \ {chan} : phone'.ch[x] = phone.ch[x]
  <2> HIDE DEF d
  <2>1. QED
    BY <1>1, <1>2, <1>5, <1>6, ChannelStep
<1>8. m \in Wire /\ m.key = phone.key /\ m.chan = chan /\ m.type = "data"
  <2>1. chan \in Channels /\ "data" \in Types /\ c.sent + 1 \in Nat
    BY <1>2 DEF Channels, Types
  <2>2. QED
    BY <1>3, <2>1, OutType DEF Secret
<1>9. f \in Frames /\ f.m = m /\ f.part = c.part + 1 /\ f.of = DataFrames
  <2>1. c.part + 1 \in Int /\ DataFrames \in Int
    BY <1>2, <1>3
  <2> HIDE DEF m
  <2>2. QED
    BY <1>8, <2>1, FrameType
<1>10. Formed(f, ssl.id)
  <2> HIDE DEF f, m
  <2>1. QED
    BY <1>2, <1>3, <1>8, <1>9 DEF Formed, Plain
<1>11. Sends(t) /\ \A k \in 1..Len(t) : t[k] = f /\ k = 1
  <2> HIDE DEF f
  <2>1. QED
    BY <1>1, <1>2, <1>9, OneFrame
<1>12. Proper(t)
  <2> HIDE DEF f, t, m
  <2>1. QED
    BY <1>1, <1>7, <1>8, <1>9, <1>10, <1>11, SameSent, UpProper
<1>13. Numbered' /\ Late'
  <2> HIDE DEF t
  <2>1. QED
    BY <1>2, <1>11, <1>12, PhoneNumbers DEF FrameInv
<1>14. Kinds'
  BY <1>1 DEF FrameInv, Kinds
<1>15. Halves'
  <2> SUFFICES ASSUME NEW x \in Media
               PROVE  /\ phone'.ch[x].part < DataFrames
                      /\ phone'.ch[x].part > 0 => phone'.at = "up" /\ phone'.ch[x].at = "started"
    BY DEF Halves
  <2> HIDE DEF d, part
  <2>1. CASE x = chan
    BY <1>4, <1>5, <1>7, <2>1
  <2>2. CASE x # chan
    BY <1>7, <2>2 DEF FrameInv, Halves
  <2>3. QED
    BY <2>1, <2>2
<1>16. InStep'
  <2>1. ASSUME Linked, f.m.key = ssl.id, f.part > 1
        PROVE  Last(toHU, current_data[f.m.chan], f.m.chan, Len(toHU) + 1, Before(f))
    <3>1. c.part > 0 /\ phone.key = ssl.id
      BY <1>2, <1>8, <1>9, <2>1
    <3>2. Last(toHU, current_data[chan], chan, Len(toHU) + 1, Sending(chan))
      BY <2>1, <3>1 DEF FrameInv, Begun
    <3>3. Before(f) = Sending(chan)
      <4>1. Before(f) = Frame(m, (c.part + 1) - 1, DataFrames) /\ (c.part + 1) - 1 = c.part
        BY <1>2, <1>9 DEF Before
      <4>2. QED
        BY <4>1 DEF Sending
    <3>4. f.m.chan = chan
      BY <1>8, <1>9
    <3>5. QED
      BY <3>2, <3>3, <3>4
  <2> HIDE DEF f, t
  <2>2. QED
    BY <1>2, <1>11, <2>1, PhoneInStep DEF FrameInv
<1>17. Begun'
  <2> SUFFICES ASSUME Linked', phone'.key = ssl'.id, NEW x \in Media, phone'.ch[x].part > 0
               PROVE  Last(toHU', current_data'[x], x, Len(toHU') + 1, Sending(x)')
    BY DEF Begun
  <2>1. Linked /\ ssl' = ssl /\ phone.key = ssl.id
    BY <1>1, <1>7 DEF Linked, Alive, Kept
  <2>2. CASE x # chan
    <3>1. phone'.ch[x] = phone.ch[x]
      BY <1>7, <2>2
    <3>2. \A k \in 1..Len(t) : t[k].m.chan # x
      <4> HIDE DEF f, t, m
      <4>1. QED
        BY <1>8, <1>9, <1>11, <2>2
    <3> HIDE DEF t
    <3>3. QED
      BY <1>2, <1>11, <2>1, <3>1, <3>2, PhoneBegun DEF FrameInv
  <2>3. CASE x = chan
    <3>1. ~last /\ part = c.part + 1 /\ sent = c.sent
      <4>1. part > 0
        <5> HIDE DEF d, part
        <5>1. QED
          BY <1>5, <1>7, <2>3
      <4>2. QED
        BY <4>1
    <3>2. phone'.ch[chan].part = c.part + 1 /\ phone'.ch[chan].sent = c.sent
      <4> HIDE DEF d, part, sent
      <4>1. QED
        BY <1>5, <1>7, <3>1
    <3>3. Sending(chan)' = f
      BY <1>7, <3>2 DEF Sending, Secret
    <3>4. Len(toHU) + 1 \in 1..Len(toHU') /\ Len(toHU') = Len(toHU) + 1 /\ toHU'[Len(toHU) + 1] = f
      <4> HIDE DEF f
      <4>1. QED
        BY <1>1, <1>2, <1>9 DEF Typed
    <3> HIDE DEF f
    <3>5. Len(toHU) \in Nat
      BY <1>2 DEF Typed
    <3>6. Last(toHU', current_data'[chan], chan, Len(toHU') + 1, f)
      BY <3>4, <3>5 DEF Last
    <3>7. QED
      BY <2>3, <3>3, <3>6
  <2>4. QED
    BY <2>2, <2>3
<1>18. QED
  BY <1>13, <1>14, <1>15, <1>16, <1>17 DEF FrameInv

\* A message is taken.
LEMMA TakeFrames == ASSUME KeyInv, FrameInv, Take PROVE FrameInv'
<1> DEFINE m == Head(toPhone)
<1>1. /\ toPhone # << >> /\ toPhone' = Tail(toPhone) /\ Kept /\ current_data' = current_data
  BY DEF Take, Unchanged, Kept, connection, services
<1>2. Typed /\ phone \in PhoneState /\ ssl.id \in Nat /\ phone.key \in Nat
  BY DEF KeyInv, Typed, PhoneState, Session
<1>3. Len(toPhone) \in Nat /\ 1 \in 1..Len(toPhone) /\ m = toPhone[1]
  BY <1>1, <1>2 DEF Typed
<1>4. \A i \in 1..Len(toPhone') : Sent(i)
  <2>1. Later(1)
    BY <1>1, <1>2, TailIsLater
  <2>2. QED
    BY <2>1 DEF Later, Sent
<1>5. /\ m.type \in {"ssl", "auth"} => m.arg \in 1..ssl.id
      /\ ssl.state \in {"begun", "answered"} => ~(m.type = "auth" /\ m.arg = ssl.id)
  BY <1>3 DEF FrameInv, Numbered, Late
<1>6. UNCHANGED toHU => Sends(<< >>) /\ Len(<< >>) = 0
  BY <1>1, <1>2, NoFrames
<1>7. CASE m.type = "version_request" /\ TakeVersion
  <2> DEFINE w == Out(Control, "version", Plain, 0)
             f == Frame(w, 1, 1)
             t == <<f>>
  <2>1. toHU' = Append(toHU, f) /\ phone' = [NewPhone EXCEPT !.at = "version"]
    BY <1>7 DEF TakeVersion, Send
  <2>2. phone' \in PhoneState /\ phone'.at = "version" /\ phone'.key = 0 /\ \A c \in Media : phone'.ch[c].part = 0
    BY <2>1 DEF Closed, ChannelState, NewPhone, PhoneState
  <2>3. w \in Wire /\ w.type = "version" /\ w.key = Plain
    <3>1. Plain \in Nat /\ 0 \in Nat /\ Control \in Channels /\ "version" \in Types
      BY DEF Plain, Channels, Types
    <3>2. QED
      BY <3>1, OutType
  <2> HIDE DEF w
  <2>4. f \in Frames /\ f.m = w /\ f.part = 1 /\ f.of = 1
    BY <2>3, FrameType
  <2> HIDE DEF f
  <2>5. Sends(t) /\ \A k \in 1..Len(t) : t[k] = f
    BY <1>1, <1>2, <2>1, <2>4, OneFrame
  <2> HIDE DEF t
  <2>6. Proper(t)
    BY <1>2, <1>4, <2>2, <2>3, <2>4, <2>5 DEF Proper, Formed, Plain, FrameInv, Numbered
  <2>7. Wholes(t)
    BY <2>2, <2>4, <2>5 DEF Wholes
  <2>8. QED
    BY <2>5, <2>6, <2>7, PhoneFrames
<1>8. CASE m.type = "ssl" /\ phone.at \in {"version", "ssl"} /\ TakeSsl(m)
  <2> DEFINE w == Out(Control, "ssl", Plain, m.arg)
             f == Frame(w, 1, 1)
             t == <<f>>
  <2>1. toHU' = Append(toHU, f) /\ phone' = [phone EXCEPT !.at = "ssl", !.key = m.arg]
    BY <1>8 DEF TakeSsl, Send
  <2>2. m.arg \in Nat /\ m.arg \in 1..ssl.id
    BY <1>2, <1>5, <1>8
  <2>3. /\ phone' \in PhoneState /\ phone'.at = "ssl" /\ phone'.key = m.arg /\ phone'.ch = phone.ch
    BY <1>2, <2>1, <2>2 DEF PhoneState
  <2>4. \A c \in Media : ~(phone'.ch[c].part > 0)
    BY <1>8, <2>3 DEF FrameInv, Halves
  <2>5. w \in Wire /\ w.type = "ssl" /\ w.key = Plain
    <3>1. Plain \in Nat /\ Control \in Channels /\ "ssl" \in Types
      BY DEF Plain, Channels, Types
    <3>2. QED
      BY <2>2, <3>1, OutType
  <2> HIDE DEF w
  <2>6. f \in Frames /\ f.m = w /\ f.part = 1 /\ f.of = 1
    BY <2>5, FrameType
  <2> HIDE DEF f
  <2>7. Sends(t) /\ \A k \in 1..Len(t) : t[k] = f
    BY <1>1, <1>2, <2>1, <2>6, OneFrame
  <2> HIDE DEF t
  <2>8. Proper(t)
    BY <1>2, <1>4, <2>2, <2>3, <2>5, <2>6, <2>7 DEF Proper, Formed, Plain, FrameInv, Numbered
  <2>9. Wholes(t)
    BY <2>3, <2>4, <2>6, <2>7 DEF Wholes
  <2>10. QED
    BY <2>7, <2>8, <2>9, PhoneFrames
<1>9. CASE m.type = "auth" /\ phone.at = "ssl" /\ phone.key = m.arg /\ TakeAuth(m)
  <2> DEFINE f == Frame(Secret(Control, "sdr", 0), 1, 1)
             t == <<f>>
  <2>1. toHU' = Append(toHU, f) /\ phone' = [phone EXCEPT !.at = "sdr"]
    BY <1>9 DEF TakeAuth, Send
  <2>2. phone' \in PhoneState /\ phone'.at = "sdr" /\ phone'.key = phone.key /\ phone'.ch = phone.ch
    BY <1>2, <2>1 DEF PhoneState
  <2>3. \A c \in Media : ~(phone'.ch[c].part > 0)
    BY <1>9, <2>2 DEF FrameInv, Halves
  <2>4. f \in Frames /\ Formed(f, ssl.id) /\ f.m.key = phone.key /\ f.part = 1
    <3>1. Control \in Channels /\ "sdr" \in Types /\ 0 \in Nat
      BY DEF Channels, Types
    <3>2. QED
      BY <1>9, <3>1, SecretFormed
  <2> HIDE DEF f
  <2>5. Sends(t) /\ \A k \in 1..Len(t) : t[k] = f
    BY <1>1, <1>2, <2>1, <2>4, OneFrame
  <2> HIDE DEF t
  <2>6. phone.key \in 1..ssl.id /\ (ssl.state \in {"begun", "answered"} => phone.key # ssl.id)
    BY <1>5, <1>9
  <2>7. Proper(t)
    BY <1>2, <1>4, <2>2, <2>4, <2>5, <2>6 DEF Proper
  <2>8. Wholes(t)
    BY <2>2, <2>3, <2>4, <2>5 DEF Wholes
  <2>9. QED
    BY <2>5, <2>7, <2>8, PhoneFrames
<1>10. CASE phone.at = "sdr" /\ phone' = [phone EXCEPT !.at = "up"] /\ UNCHANGED toHU
  <2>1. phone' \in PhoneState /\ phone'.at = "up" /\ phone'.key = phone.key /\ phone'.ch = phone.ch
    BY <1>2, <1>10 DEF PhoneState
  <2>2. Proper(<< >>)
    BY <1>4, <1>6, <1>10, <2>1 DEF Proper, FrameInv, Numbered, Late
  <2>3. Wholes(<< >>)
    BY <1>6, <1>10, <2>1 DEF Wholes, FrameInv, Halves
  <2>4. QED
    BY <1>6, <1>10, <2>2, <2>3, PhoneFrames
<1>11. CASE m.chan \in Media /\ phone.at = "up" /\ phone' = [phone EXCEPT !.ch[m.chan] = Heard(@, m)] /\ UNCHANGED toHU
  <2> DEFINE c == phone.ch[m.chan]
             h == Heard(c, m)
  <2>1. c \in ChannelState /\ h \in ChannelState
    BY <1>2, <1>11, HeardType DEF PhoneState
  <2>2. h.part = c.part /\ h.sent = c.sent /\ (c.at = "started" => h.at = "started")
    <3> HIDE DEF c
    <3>1. QED
      BY <2>1 DEF Heard, ChannelState
  <2>3. phone' = [phone EXCEPT !.ch = [phone.ch EXCEPT ![m.chan] = h]]
    BY <1>2, <1>11 DEF PhoneState
  <2> HIDE DEF h
  <2>4. /\ phone' \in PhoneState /\ phone'.key = phone.key /\ phone'.at = "up" /\ phone'.ch[m.chan] = h
        /\ \A x \in Media \ {m.chan} : phone'.ch[x] = phone.ch[x]
    BY <1>2, <1>11, <2>1, <2>3, ChannelStep
  <2>5. Proper(<< >>)
    BY <1>4, <1>6, <1>11, <2>4 DEF Proper, FrameInv, Numbered, Late
  <2>6. Wholes(<< >>)
    <3>1. ASSUME NEW x \in Media, phone'.ch[x].part > 0
          PROVE  phone'.ch[x].at = "started" /\ phone'.ch[x].part = phone.ch[x].part /\ phone'.ch[x].sent = phone.ch[x].sent
      <4>1. CASE x = m.chan
        BY <2>2, <2>4, <3>1, <4>1 DEF FrameInv, Halves
      <4>2. CASE x # m.chan
        BY <2>4, <3>1, <4>2 DEF FrameInv, Halves
      <4>3. QED
        BY <4>1, <4>2
    <3>2. QED
      BY <1>6, <1>11, <2>4, <3>1 DEF Wholes
  <2>7. QED
    BY <1>6, <1>11, <2>5, <2>6, PhoneFrames
<1>12. CASE UNCHANGED <<phone, toHU>>
  <2>1. Proper(<< >>)
    BY <1>4, <1>6, <1>12 DEF Proper, FrameInv, Numbered, Late
  <2>2. Wholes(<< >>)
    BY <1>2, <1>6, <1>12 DEF Wholes, FrameInv, Halves
  <2>3. QED
    BY <1>6, <1>12, <2>1, <2>2, PhoneFrames
<1>13. TakeSsl(m) => phone.at \in {"version", "ssl"} \/ UNCHANGED <<phone, toHU>>
  BY DEF TakeSsl
<1>14. TakeAuth(m) => (phone.at = "ssl" /\ phone.key = m.arg) \/ UNCHANGED <<phone, toHU>>
  BY DEF TakeAuth
<1> HIDE DEF m
<1>15. m = Head(toPhone)
  BY DEF m
<1>16. QED
  BY <1>7, <1>8, <1>9, <1>10, <1>11, <1>12, <1>13, <1>14, <1>15, TakeCases

(***************************************************************************)
(* Every step.                                                             *)
(***************************************************************************)
LEMMA PlugFrames == ASSUME KeyInv, FrameInv, Plug \/ Unplug PROVE FrameInv'
<1>1. toHU' = << >> /\ toPhone' = << >> /\ UNCHANGED <<ssl, current_data, aa_activated, handle>>
  BY DEF Plug, Unplug, KeyInv, Plugged, connection
<1>2. phone' = phone \/ phone' = NewPhone
  BY DEF Plug, Unplug
<1>3. ~Linked'
  BY <1>1 DEF Plug, Unplug, KeyInv, Typed, Plugged, Linked, Alive, counts
<1>4. Len(toHU') = 0 /\ Len(toPhone') = 0
  BY <1>1
<1>5. Kinds' /\ InStep' /\ Begun'
  BY <1>1, <1>3 DEF FrameInv, Kinds, InStep, Begun
<1>6. NewPhone.at = "idle" /\ NewPhone.key = 0 /\ \A c \in Media : NewPhone.ch[c].part = 0
  BY DEF NewPhone, Closed
<1>7. Numbered' /\ Late'
  <2>1. 0 <= ssl.id
    BY DEF KeyInv, Typed, Session
  <2>2. QED
    BY <1>1, <1>2, <1>4, <1>6, <2>1 DEF FrameInv, Numbered, Late
<1>8. Halves'
  BY <1>2, <1>6, BoundAssumption DEF FrameInv, Halves
<1>9. QED
  BY <1>5, <1>7, <1>8 DEF FrameInv

LEMMA SameFrames ==
    ASSUME FrameInv, UNCHANGED <<current_data, toHU, toPhone, phone, ssl, aa_activated, cable, handle>>
    PROVE  FrameInv'
<1>1. Linked' = Linked
  BY DEF Linked, Alive
<1>2. \A c \in Media : Sending(c)' = Sending(c)
  BY DEF Sending, Secret
<1>3. Kinds' /\ Numbered' /\ Late' /\ Halves'
  BY DEF FrameInv, Kinds, Numbered, Late, Halves
<1>4. InStep' /\ Begun'
  BY <1>1, <1>2 DEF FrameInv, InStep, Begun
<1>5. QED
  BY <1>3, <1>4 DEF FrameInv

LEMMA InitFrames == Init => FrameInv /\ Whole
<1> SUFFICES ASSUME Init PROVE FrameInv /\ Whole
  OBVIOUS
<1>1. Len(toHU) = 0 /\ Len(toPhone) = 0 /\ Len(message) = 0 /\ ssl.id = 0 /\ ssl.state = "null"
  BY DEF Init
<1>2. phone.at = "idle" /\ phone.key = 0 /\ \A c \in Media : phone.ch[c].part = 0
  BY DEF Init, NewPhone, Closed
<1>3. << >> \in Seq(Frames) /\ Len(<< >>) = 0
  OBVIOUS
<1>4. Kinds
  BY <1>3, BoundAssumption DEF Init, Kinds
<1>5. Numbered /\ Late /\ Halves
  BY <1>1, <1>2, BoundAssumption DEF Numbered, Late, Halves
<1>6. InStep /\ Begun
  BY <1>1 DEF InStep, Begun, Linked
<1>7. QED
  BY <1>1, <1>4, <1>5, <1>6 DEF FrameInv, Whole

LEMMA NextFrames == ASSUME KeyInv, Waiting, FrameInv, Whole, [Next]_vars PROVE FrameInv' /\ Whole'
<1>1. CASE UNCHANGED vars
  BY <1>1, SameFrames DEF vars, connection, history, Whole
<1>2. CASE ReadRest
  BY <1>2, ProcessFrames DEF ReadRest, Waiting
<1>3. CASE \E bad \in BOOLEAN : ReadFrame(bad)
  BY <1>3, ProcessFrames DEF ReadFrame
<1>4. CASE Connect \/ NotConnected \/ ReadPart \/ ReadError \/ (\E type \in {"ping_request", "sensor"} : WriteOwn(type))
  <2>1. message' = message \/ message' = << >>
    BY <1>4 DEF Connect, NotConnected, ReadPart, ReadError, WriteOwn, history
  <2>2. Whole'
    BY <2>1 DEF Whole
  <2>3. QED
    BY <1>4, <2>2, HandlerFrames
<1>5. CASE Phone
  <2>1. message' = message
    BY <1>5 DEF Phone, Take, Move, Start, Data, Stop, Ask, Unchanged
  <2>2. FrameInv'
    BY <1>5, TakeFrames, MoveFrames, StartFrames, DataPartFrames, StopFrames, AskFrames DEF Phone
  <2>3. QED
    BY <2>1, <2>2 DEF Whole
<1>6. CASE Plug \/ Unplug
  BY <1>6, PlugFrames DEF Plug, Unplug, history, Whole
<1>7. QED
  BY <1>1, <1>2, <1>3, <1>4, <1>5, <1>6 DEF Next, Handler, Reads

(***************************************************************************)
(* A message that is handled is one message of the phone's from its first  *)
(* frame to its last, whatever was read in between on other channels, lost *)
(* in an error or left from the connection before (process_bytes,          *)
(* aa_handler.rs:533 and 659).                                             *)
(***************************************************************************)
THEOREM MessagesAreWhole == Spec => []Whole
<1>1. Init => KeyInv /\ Waiting /\ FrameInv /\ Whole
  BY InitKeys, InitFrames
<1>2. KeyInv /\ Waiting /\ FrameInv /\ Whole /\ [Next]_vars => (KeyInv /\ Waiting /\ FrameInv /\ Whole)'
  BY NextKeys, WaitingKeeps, NextFrames
<1>3. QED
  BY <1>1, <1>2, PTL DEF Spec

(***************************************************************************)
(* The handler's state has its type.                                       *)
(***************************************************************************)
Services ==
    /\ had_sdr \in BOOLEAN /\ first_video \in BOOLEAN
    /\ channel_session \in [Media -> Sessions \union {0}]
    /\ DOMAIN taken = Media

Rest ==
    /\ phone_type \in {None, Android}
    /\ reading \in BOOLEAN /\ again \in BOOLEAN /\ plug <= MaxPlug
    /\ Services

LEMMA HandleServices ==
    ASSUME KeyInv, FrameInv, Services, toHU # << >>, NEW m, m = Head(toHU).m, Handle(m)
    PROVE  Services'
<1>1. Len(toHU) \in Nat /\ 1 \in 1..Len(toHU) /\ Head(toHU) = toHU[1]
  BY DEF KeyInv, Typed
<1>2. Said(Head(toHU)) /\ Formed(Head(toHU), ssl.id)
  BY <1>1 DEF KeyInv, Spoken, FrameInv, Numbered
<1>3. (m.chan \in Media => m.type \in MediaTypes) /\ (m.type = "start" => m.arg \in Sessions)
  BY <1>2 DEF Said, Formed
<1>4. \/ UNCHANGED <<services, taken>>
      \/ UNCHANGED <<first_video, channel_session, taken>> /\ had_sdr' = TRUE
      \/ m.chan \in Media /\ HandleMedia(m)
  <2>1. CASE m.type = "version"
    BY <1>3, <2>1 DEF Handle, MediaTypes, BeginSslHandshake
  <2>2. CASE m.type = "ssl"
    BY <1>3, <2>2 DEF Handle, MediaTypes, HandleSslHandshake
  <2>3. CASE m.type = "sdr"
    BY <1>3, <2>3 DEF Handle, MediaTypes, HandleServiceDiscovery
  <2>4. CASE m.type \notin {"version", "ssl", "sdr"}
    BY <2>4 DEF Handle
  <2>5. QED
    BY <2>1, <2>2, <2>3, <2>4
<1>5. CASE m.chan \in Media /\ HandleMedia(m)
  <2> DEFINE v == CASE m.type = "start" -> m.arg
                    [] m.type = "stop"  -> 0
                    [] OTHER            -> channel_session[m.chan]
  <2>1. v \in Sessions \union {0}
    BY <1>3, <1>5 DEF Services
  <2>2. channel_session' = [channel_session EXCEPT ![m.chan] = v]
    BY <1>5 DEF HandleMedia
  <2> HIDE DEF v
  <2>3. channel_session' \in [Media -> Sessions \union {0}]
    BY <1>5, <2>1, <2>2 DEF Services
  <2>4. DOMAIN taken' = Media
    BY <1>5 DEF HandleMedia, Services
  <2>5. first_video' \in BOOLEAN /\ had_sdr' = had_sdr
    BY <1>5 DEF HandleMedia, Services
  <2>6. QED
    BY <2>3, <2>4, <2>5 DEF Services
<1>6. CASE UNCHANGED <<services, taken>>
  BY <1>6 DEF Services, services
<1>7. CASE UNCHANGED <<first_video, channel_session, taken>> /\ had_sdr' = TRUE
  BY <1>7 DEF Services
<1>8. QED
  BY <1>4, <1>5, <1>6, <1>7

LEMMA ProcessServices ==
    ASSUME KeyInv, FrameInv, Services, toHU # << >>, NEW bad \in BOOLEAN, Process(bad)
    PROVE  Services'
<1> DEFINE m == Head(toHU).m
<1>1. UNCHANGED <<services, taken>> \/ Handle(m)
  BY DEF Process
<1>2. CASE UNCHANGED <<services, taken>>
  BY <1>2 DEF Services, services
<1>3. CASE Handle(m)
  <2> HIDE DEF m
  <2>1. m = Head(toHU).m
    BY DEF m
  <2>2. QED
    BY <1>3, <2>1, HandleServices
<1>4. QED
  BY <1>1, <1>2, <1>3

LEMMA NextRest == ASSUME KeyInv, Waiting, FrameInv, Rest, [Next]_vars PROVE Rest'
<1>1. CASE UNCHANGED vars
  BY <1>1 DEF vars, connection, services, history, counts, Rest, Services
<1>2. CASE Reads
  <2>1. PICK bad \in BOOLEAN : Process(bad) /\ toHU # << >>
    BY <1>2 DEF Reads, ReadRest, ReadFrame, Waiting
  <2>2. reading' = FALSE /\ UNCHANGED <<phone_type, again, plug>>
    BY <2>1 DEF Process
  <2>3. QED
    BY <2>1, <2>2, ProcessServices DEF Rest
<1>3. CASE Connect
  BY <1>3 DEF Connect, services, counts, Rest, Services
<1>4. CASE NotConnected
  BY <1>4 DEF NotConnected, StopConnection, connection, counts, Rest, Services
<1>5. CASE ReadPart \/ ReadError \/ (\E type \in {"ping_request", "sensor"} : WriteOwn(type))
  <2>1. UNCHANGED <<phone_type, services, taken, again, plug>> /\ reading' \in BOOLEAN
    BY <1>5 DEF ReadPart, ReadError, WriteOwn, services, history, counts, Rest
  <2>2. QED
    BY <2>1 DEF services, Rest, Services
<1>6. CASE Phone
  <2>1. UNCHANGED <<phone_type, reading, services, taken, plug>> /\ again' \in BOOLEAN
    <3>1. UNCHANGED <<phone_type, reading, services, taken, plug>>
      BY <1>6 DEF Phone, Take, Move, Start, Data, Stop, Ask, Unchanged, connection
    <3>2. again' = again \/ \E c \in Media : \E s \in Sessions : Start(c, s)
      BY <1>6 DEF Phone, Take, Move, Data, Stop, Ask
    <3>3. \A c \in Media : \A s \in Sessions : Start(c, s) => again' \in BOOLEAN
      BY DEF Start
    <3>4. QED
      BY <3>1, <3>2, <3>3 DEF Rest
  <2>2. QED
    BY <2>1 DEF services, Rest, Services
<1>7. CASE Plug
  <2>1. plug' <= MaxPlug
    BY <1>7, BoundAssumption DEF Plug, KeyInv, Typed
  <2>2. QED
    BY <1>7, <2>1 DEF Plug, connection, services, history, Rest, Services
<1>8. CASE Unplug
  BY <1>8 DEF Unplug, connection, services, history, counts, Rest, Services
<1>9. QED
  BY <1>1, <1>2, <1>3, <1>4, <1>5, <1>6, <1>7, <1>8 DEF Next, Handler

THEOREM HandlerTypes == Spec => []TypeOK
<1>1. Init => KeyInv /\ Waiting /\ FrameInv /\ Whole /\ Rest
  <2>1. Init => Rest
    <3> SUFFICES ASSUME Init PROVE Rest
      OBVIOUS
    <3>1. plug <= MaxPlug
      BY BoundAssumption DEF Init
    <3>2. had_sdr \in BOOLEAN /\ first_video \in BOOLEAN /\ reading \in BOOLEAN /\ again \in BOOLEAN
      BY DEF Init
    <3>3. channel_session \in [Media -> Sessions \union {0}] /\ DOMAIN taken = Media
      BY DEF Init
    <3>4. phone_type \in {None, Android}
      BY DEF Init
    <3>5. QED
      BY <3>1, <3>2, <3>3, <3>4 DEF Rest, Services
  <2>2. QED
    BY <2>1, InitKeys, InitFrames
<1>2. KeyInv /\ Waiting /\ FrameInv /\ Whole /\ Rest /\ [Next]_vars => (KeyInv /\ Waiting /\ FrameInv /\ Whole /\ Rest)'
  BY NextKeys, WaitingKeeps, NextFrames, NextRest
<1>3. KeyInv /\ FrameInv /\ Rest => TypeOK
  <2> SUFFICES ASSUME KeyInv, FrameInv, Rest PROVE TypeOK
    OBVIOUS
  <2>1. handle \in 0..MaxPlug /\ cable \in 0..MaxPlug
    BY BoundAssumption DEF KeyInv, Typed, Plugged, Rest
  <2>2. ssl \in [id : Nat, state : {"null", "begun", "answered", "done", "broken"}]
    BY DEF KeyInv, Typed, Session
  <2>3. aa_activated \in BOOLEAN /\ stale \in BOOLEAN
    BY DEF KeyInv, Typed
  <2>4. \A c \in Channels : Len(current_data[c]) < DataFrames
    BY DEF FrameInv, Kinds
  <2>5. phone_type \in {None, Android} /\ channel_session \in [Media -> Sessions \union {0}] /\ DOMAIN taken = Media
    BY DEF Rest, Services
  <2>6. {handle, cable} \subseteq 0..MaxPlug
    BY <2>1
  <2>7. {aa_activated, had_sdr, first_video, reading, stale, again} \subseteq BOOLEAN
    <3>1. aa_activated \in BOOLEAN /\ had_sdr \in BOOLEAN /\ first_video \in BOOLEAN /\ reading \in BOOLEAN /\ stale \in BOOLEAN /\ again \in BOOLEAN
      BY <2>3 DEF Rest, Services
    <3>2. QED
      BY <3>1, Zenon
  <2>8. QED
    BY <2>2, <2>4, <2>5, <2>6, <2>7 DEF TypeOK
<1>4. QED
  BY <1>1, <1>2, <1>3, PTL DEF Spec

-------------------------------------------------------------------------------
(***************************************************************************)
(* Counting a message in what is on its way.                               *)
(***************************************************************************)
Places(s, a) == {i \in 1..Len(s) : s[i] = a}
Count(s, a) == Cardinality(Places(s, a))

LEMMA PlacesFinite ==
    ASSUME NEW s \in Seq(Wire), NEW a
    PROVE  IsFiniteSet(Places(s, a)) /\ Count(s, a) \in Nat
<1>1. IsFiniteSet(1..Len(s))
  BY FS_Interval
<1>2. Places(s, a) \in SUBSET (1..Len(s))
  BY DEF Places
<1>3. IsFiniteSet(Places(s, a))
  BY <1>1, <1>2, FS_Subset
<1>4. QED
  BY <1>3, FS_CardinalityType DEF Count

LEMMA CountNone ==
    ASSUME NEW s, NEW a, \A i \in 1..Len(s) : s[i] # a
    PROVE  Count(s, a) = 0
<1>1. Places(s, a) = {}
  BY DEF Places
<1>2. QED
  BY <1>1, FS_EmptySet DEF Count

\* What is added does not count, or counts at most once each.
LEMMA CountAdded ==
    ASSUME NEW s \in Seq(Wire), NEW t \in Seq(Wire), NEW a
    PROVE  /\ s \o t \in Seq(Wire) /\ Count(s \o t, a) \in Nat /\ Count(s \o t, a) <= Count(s, a) + Len(t)
           /\ (\A i \in 1..Len(t) : t[i] # a) => Count(s \o t, a) = Count(s, a)
<1> DEFINE n == Len(s)
           u == s \o t
           T == (n + 1)..(n + Len(t))
<1>1. u \in Seq(Wire) /\ n \in Nat /\ Len(t) \in Nat /\ Len(u) = n + Len(t)
  OBVIOUS
<1>2. \A i \in 1..n : u[i] = s[i]
  OBVIOUS
<1>3. \A i \in T : i - n \in 1..Len(t) /\ u[i] = t[i - n]
  OBVIOUS
<1> HIDE DEF u, n
<1>4. Places(u, a) \in SUBSET (Places(s, a) \union T)
  BY <1>1, <1>2 DEF Places, n
<1>5. IsFiniteSet(Places(s, a)) /\ Count(s, a) \in Nat /\ Count(u, a) \in Nat
  BY <1>1, PlacesFinite
<1>6. IsFiniteSet(T) /\ Cardinality(T) = Len(t)
  <2> DEFINE lo == n + 1
             hi == n + Len(t)
  <2>1. lo \in Int /\ hi \in Int /\ (lo > hi <=> Len(t) = 0) /\ hi - lo + 1 = Len(t)
    BY <1>1
  <2> HIDE DEF lo, hi
  <2>2. IsFiniteSet(lo..hi) /\ Cardinality(lo..hi) = IF lo > hi THEN 0 ELSE hi - lo + 1
    BY <2>1, FS_Interval
  <2>3. IsFiniteSet(lo..hi) /\ Cardinality(lo..hi) = Len(t)
    BY <2>1, <2>2
  <2>4. QED
    BY <2>3 DEF lo, hi
<1> HIDE DEF T
<1>7. /\ IsFiniteSet(Places(s, a) \union T)
      /\ Cardinality(Places(s, a) \union T) = Cardinality(Places(s, a)) + Cardinality(T) - Cardinality(Places(s, a) \cap T)
      /\ Cardinality(Places(s, a) \cap T) \in Nat
  <2>1. IsFiniteSet(Places(s, a) \cap T)
    BY <1>5, FS_Intersection
  <2>2. QED
    BY <1>5, <1>6, <2>1, FS_Union, FS_CardinalityType
<1>8. Cardinality(Places(u, a)) <= Cardinality(Places(s, a) \union T)
  BY <1>4, <1>7, FS_Subset
<1>9. Count(u, a) <= Count(s, a) + Len(t)
  BY <1>1, <1>5, <1>6, <1>7, <1>8 DEF Count
<1>10. ASSUME \A i \in 1..Len(t) : t[i] # a PROVE Count(u, a) = Count(s, a)
  <2>1. \A i \in T : u[i] # a
    BY <1>3, <1>10 DEF T
  <2>2. \A i \in 1..Len(u) : i \in 1..n \/ i \in T
    BY <1>1 DEF T
  <2>3. \A i \in 1..n : i \in 1..Len(u)
    BY <1>1
  <2>4. Places(u, a) = Places(s, a)
    BY <1>2, <2>1, <2>2, <2>3 DEF Places, n
  <2>5. QED
    BY <2>4 DEF Count
<1>11. QED
  BY <1>1, <1>5, <1>9, <1>10 DEF u

\* The first message is taken.
LEMMA CountTaken ==
    ASSUME NEW s \in Seq(Wire), s # << >>, NEW a
    PROVE  /\ Tail(s) \in Seq(Wire) /\ Count(Tail(s), a) \in Nat
           /\ Count(s, a) = Count(Tail(s), a) + (IF Head(s) = a THEN 1 ELSE 0)
<1> DEFINE t == Tail(s)
           n == Len(t)
<1>1. t \in Seq(Wire) /\ n \in Nat /\ Len(s) = n + 1 /\ s[1] = Head(s)
  OBVIOUS
<1>2. \A i \in 1..n : i + 1 \in 1..Len(s) /\ t[i] = s[i + 1]
  BY <1>1
<1>3. \A i \in 1..Len(s) : i # 1 => i - 1 \in 1..n /\ t[i - 1] = s[i]
  BY <1>1
<1> HIDE DEF t, n
<1> DEFINE P == Places(t, a)
           Q == Places(s, a) \ {1}
           f == [i \in P |-> i + 1]
<1>4. \A i \in P : i \in 1..n /\ i \in Int /\ t[i] = a
  BY <1>1 DEF Places, n
<1>5. \A i \in P : f[i] \in Q
  BY <1>1, <1>2, <1>4 DEF Places
<1>6. \A j \in Q : j - 1 \in P /\ f[j - 1] = j
  BY <1>1, <1>3 DEF Places, n
<1>7. f \in [P -> Q] /\ \A i, j \in P : f[i] = f[j] => i = j
  BY <1>4, <1>5
<1>8. f \in Bijection(P, Q)
  BY <1>6, <1>7 DEF Bijection, Injection, Surjection, IsInjective
<1>9. IsFiniteSet(P) /\ Count(t, a) \in Nat /\ IsFiniteSet(Places(s, a)) /\ Count(s, a) \in Nat
  BY <1>1, PlacesFinite
<1> HIDE DEF f, P
<1>10. Cardinality(Q) = Cardinality(P)
  BY <1>8, <1>9, FS_Bijection DEF ExistsBijection
<1>11. Cardinality(Q) = IF 1 \in Places(s, a) THEN Cardinality(Places(s, a)) - 1 ELSE Cardinality(Places(s, a))
  BY <1>9, FS_RemoveElement
<1>12. 1 \in Places(s, a) <=> Head(s) = a
  BY <1>1 DEF Places
<1>13. QED
  BY <1>1, <1>9, <1>10, <1>11, <1>12 DEF Count, P, t

(***************************************************************************)
(* What the handler writes for a message.                                  *)
(***************************************************************************)
\* An acknowledgement among ms is for the channel of m, with the session known before.
Acking(ms, m) ==
    /\ ms \in Seq(Wire)
    /\ \A i \in 1..Len(ms) : ms[i].type = "ack" =>
            m.chan \in Media /\ ms[i].chan = m.chan /\ ms[i].arg = channel_session[m.chan]

LEMMA AckingNone == ASSUME NEW m PROVE Acking(<< >>, m)
BY DEF Acking

LEMMA AckingBoth ==
    ASSUME NEW a, NEW b, NEW m, Acking(a, m), Acking(b, m)
    PROVE  Acking(a \o b, m)
<1>1. a \in Seq(Wire) /\ b \in Seq(Wire) /\ a \o b \in Seq(Wire) /\ Len(a) \in Nat /\ Len(b) \in Nat
  BY DEF Acking
<1>2. Len(a \o b) = Len(a) + Len(b)
  BY <1>1
<1>3. ASSUME NEW k \in 1..Len(a \o b), (a \o b)[k].type = "ack"
      PROVE  m.chan \in Media /\ (a \o b)[k].chan = m.chan /\ (a \o b)[k].arg = channel_session[m.chan]
  <2>1. CASE k <= Len(a)
    <3>1. k \in 1..Len(a) /\ (a \o b)[k] = a[k]
      BY <1>1, <1>2, <2>1
    <3>2. QED
      BY <1>3, <3>1 DEF Acking
  <2>2. CASE k > Len(a)
    <3>1. k - Len(a) \in 1..Len(b) /\ (a \o b)[k] = b[k - Len(a)]
      BY <1>1, <1>2, <2>2
    <3>2. QED
      BY <1>3, <3>1 DEF Acking
  <2>3. QED
    BY <1>1, <2>1, <2>2
<1>4. QED
  BY <1>1, <1>3 DEF Acking

LEMMA EncodedAcking ==
    ASSUME KeyInv, NEW m, NEW chan \in Channels, NEW type \in Types, NEW arg \in Nat,
           type = "ack" => m.chan \in Media /\ chan = m.chan /\ arg = channel_session[m.chan]
    PROVE  Acking(Encoded(chan, type, arg), m) /\ Len(Encoded(chan, type, arg)) <= 1
<1>1. ssl.id \in Nat /\ Plain \in Nat /\ 0 \in Nat /\ "garbage" \in Types
  BY DEF KeyInv, Typed, Session, Plain, Types
<1>2. CASE ssl.state = "null"
  BY <1>2, AckingNone DEF Encoded
<1>3. CASE ssl.state = "done"
  <2>1. Encoded(chan, type, arg) = <<Out(chan, type, ssl.id, arg)>>
    BY <1>3 DEF Encoded
  <2>2. /\ Out(chan, type, ssl.id, arg) \in Wire /\ Out(chan, type, ssl.id, arg).type = type
        /\ Out(chan, type, ssl.id, arg).chan = chan /\ Out(chan, type, ssl.id, arg).arg = arg
    BY <1>1, OutType
  <2>3. QED
    BY <2>1, <2>2 DEF Acking
<1>4. CASE ssl.state # "null" /\ ssl.state # "done"
  <2>1. Encoded(chan, type, arg) = <<Out(chan, "garbage", Plain, 0)>>
    BY <1>4 DEF Encoded, Garbage
  <2>2. Out(chan, "garbage", Plain, 0) \in Wire /\ Out(chan, "garbage", Plain, 0).type = "garbage"
    BY <1>1, OutType
  <2>3. QED
    BY <2>1, <2>2 DEF Acking
<1>5. QED
  BY <1>2, <1>3, <1>4

LEMMA UnencodedAcking ==
    ASSUME NEW m, NEW chan \in Channels, NEW type \in Types \ {"ack"}, NEW arg \in Nat
    PROVE  Acking(Unencoded(chan, type, arg), m)
<1>1. Out(chan, type, Plain, arg) \in Wire /\ Out(chan, type, Plain, arg).type = type
  BY OutType DEF Plain
<1>2. QED
  BY <1>1 DEF Unencoded, Acking

LEMMA AnswerAcking ==
    ASSUME KeyInv, NEW m, m \in Wire, m.chan \in Media, m.type \in MediaTypes,
           m.type = "video_focus" => m.chan = Video
    PROVE  Acking(Answer(m), m) /\ (m.type = "data" => Len(Answer(m)) <= 1)
<1>1. m.chan \in Channels /\ 0 \in Nat
  BY DEF Channels
<1>2. channel_session[m.chan] \in Nat
  BY DEF KeyInv, Typed
<1>3. {"open_response", "config", "focus", "ack"} \subseteq Types
  BY DEF Types
<1>4. Acking(Ack(m), m) /\ Len(Ack(m)) <= 1
  BY <1>1, <1>2, <1>3, EncodedAcking DEF Ack
<1>5. CASE m.type = "open"
  BY <1>1, <1>3, <1>5, EncodedAcking DEF Answer
<1>6. CASE m.type = "setup"
  <2>1. Acking(Encoded(m.chan, "config", 0), m)
    BY <1>1, <1>3, EncodedAcking
  <2>2. Acking(IF m.chan = Video /\ ~first_video THEN Encoded(Video, "focus", 0) ELSE << >>, m)
    BY <1>1, <1>3, EncodedAcking, AckingNone
  <2>3. Answer(m) = Ack(m) \o Encoded(m.chan, "config", 0)
                      \o (IF m.chan = Video /\ ~first_video THEN Encoded(Video, "focus", 0) ELSE << >>)
    BY <1>6 DEF Answer
  <2>4. QED
    BY <1>4, <1>6, <2>1, <2>2, <2>3, AckingBoth
<1>7. CASE m.type \in {"start", "data", "stop"}
  BY <1>4, <1>7 DEF Answer
<1>8. CASE m.type = "video_focus"
  BY <1>8, <1>1, <1>3, EncodedAcking DEF Answer
<1>9. QED
  BY <1>5, <1>6, <1>7, <1>8 DEF MediaTypes

LEMMA AnsweredAcking ==
    ASSUME KeyInv, NEW m, m \in Wire
    PROVE  Acking(Answered(m), m)
<1>1. m.chan \in Channels /\ Control \in Channels /\ 0 \in Nat
  BY DEF Wire, Channels
<1>2. {"ping", "nav_focus", "byebye", "audio_focus", "open_response", "batch", "binding", "sensor_response"} \subseteq Types
  BY DEF Types
<1>3. CASE m.type = "audio_focus"
  BY <1>1, <1>2, <1>3, EncodedAcking, AckingNone DEF Answered
<1>4. CASE m.type \in {"ping", "nav_focus", "byebye"}
  BY <1>1, <1>2, <1>4, EncodedAcking, AckingNone DEF Answered
<1>5. CASE m.type = "open"
  <2>1. Acking(Encoded(m.chan, "open_response", 0), m)
    BY <1>1, <1>2, EncodedAcking
  <2>2. Acking(IF m.chan = "sensor" THEN Encoded(m.chan, "batch", 0) ELSE << >>, m)
    BY <1>1, <1>2, EncodedAcking, AckingNone
  <2>3. Answered(m) = IF m.chan # Control
                        THEN Encoded(m.chan, "open_response", 0)
                               \o (IF m.chan = "sensor" THEN Encoded(m.chan, "batch", 0) ELSE << >>)
                        ELSE << >>
    BY <1>5 DEF Answered
  <2>4. QED
    BY <2>1, <2>2, <2>3, AckingBoth, AckingNone
<1>6. CASE m.type = "binding"
  BY <1>1, <1>2, <1>6, EncodedAcking, AckingNone DEF Answered
<1>7. CASE m.type = "sensor_request"
  BY <1>1, <1>2, <1>7, EncodedAcking, AckingNone DEF Answered
<1>8. CASE m.type \notin {"audio_focus", "ping", "nav_focus", "byebye", "open", "binding", "sensor_request"}
  BY <1>8, AckingNone DEF Answered
<1>9. QED
  BY <1>3, <1>4, <1>5, <1>6, <1>7, <1>8

\* What a write puts on the way is the first of what it is given, so it acknowledges no more.
LEMMA FewerAcking ==
    ASSUME Typed, NEW m, NEW ms, Acking(ms, m), WriteBytes(ms)
    PROVE  \E ws : Acking(ws, m) /\ Len(ws) <= Len(ms) /\ toPhone' = toPhone \o ws
<1>1. ms \in Seq(Wire) /\ Len(ms) \in Nat /\ Wire \in SUBSET Wire
  BY DEF Acking
<1>2. PICK n \in 0..Len(ms) : toPhone' = toPhone \o SubSeq(ms, 1, n)
  BY <1>1, WritesFirst
<1> DEFINE ws == SubSeq(ms, 1, n)
<1>3. ws \in Seq(Wire) /\ Len(ws) = n /\ n \in Nat /\ n <= Len(ms)
  BY <1>1
<1>4. \A k \in 1..Len(ws) : k \in 1..Len(ms) /\ ws[k] = ms[k]
  BY <1>1, <1>3
<1>5. toPhone' = toPhone \o ws
  BY <1>2
<1> HIDE DEF ws
<1>6. Acking(ws, m)
  BY <1>3, <1>4 DEF Acking
<1>7. QED
  BY <1>3, <1>5, <1>6

\* What reading message m does to the acknowledgements.
Reading(m) ==
    \E ms :
        /\ Acking(ms, m) /\ toPhone' = toPhone \o ms
        /\ taken' \in [Media -> Nat]
        /\ \A c \in Media \ {m.chan} : taken'[c] = taken[c] /\ channel_session'[c] = channel_session[c]
        /\ m.chan \in Media =>
              \/ channel_session'[m.chan] \in {channel_session[m.chan], 0}
              \/ m.type = "start" /\ channel_session'[m.chan] = m.arg
        /\ m.chan \in Media /\ m.type = "data" => taken'[m.chan] >= taken[m.chan] + Len(ms)

LEMMA QuietReading ==
    ASSUME Typed, taken \in [Media -> Nat], UNCHANGED <<taken, channel_session>>, NEW m, NEW ms, Acking(ms, m),
           WriteBytes(ms), m.chan \notin Media
    PROVE  Reading(m)
<1>1. PICK ws : Acking(ws, m) /\ toPhone' = toPhone \o ws
  BY FewerAcking
<1>2. QED
  BY <1>1 DEF Reading

LEMMA HandleReading ==
    ASSUME KeyInv, Alive, taken \in [Media -> Nat], toHU # << >>, NEW m, m = Head(toHU).m, Handle(m)
    PROVE  Reading(m)
<1>1. Len(toHU) \in Nat /\ 1 \in 1..Len(toHU) /\ Head(toHU) = toHU[1]
  BY DEF KeyInv, Typed
<1>2. m \in Wire /\ m.arg \in Nat /\ m.chan \in Channels
  BY <1>1, Carried DEF KeyInv, Wire
<1>3. Said(Head(toHU))
  BY <1>1 DEF KeyInv, Spoken
<1>4. m.chan \in Media => m.type \in MediaTypes /\ (m.type = "video_focus" => m.chan = Video)
  BY <1>3 DEF Said
<1>5. Typed
  BY DEF KeyInv
<1>6. Control \in Channels /\ {"ssl", "auth", "sdr_request", "sdr_response"} \subseteq Types \ {"ack"}
      /\ ssl.id \in Nat /\ ssl.id + 1 \in Nat /\ 0 \in Nat
  BY DEF Channels, Types, KeyInv, Typed, Session
<1>7. CASE m.type = "version"
  <2>1. BeginSslHandshake
    BY <1>4, <1>7 DEF Handle, MediaTypes
  <2>2. WriteBytes(Unencoded(Control, "ssl", ssl.id + 1)) /\ UNCHANGED <<taken, channel_session>>
    BY <2>1 DEF BeginSslHandshake, services
  <2>3. m.chan \notin Media
    BY <1>4, <1>7 DEF MediaTypes
  <2>4. QED
    BY <1>5, <1>6, <2>2, <2>3, UnencodedAcking, QuietReading
<1>8. CASE m.type = "ssl"
  <2> DEFINE ms == CASE m.arg = ssl.id /\ ssl.state = "begun" -> Unencoded(Control, "ssl", ssl.id)
                     [] m.arg = ssl.id /\ ssl.state = "answered" -> Unencoded(Control, "auth", ssl.id)
                     [] OTHER -> << >>
  <2>1. HandleSslHandshake(m)
    BY <1>4, <1>8 DEF Handle, MediaTypes
  <2>2. WriteBytes(ms) /\ UNCHANGED <<taken, channel_session>>
    BY <2>1 DEF HandleSslHandshake, services
  <2>3. Acking(ms, m)
    <3>1. Acking(Unencoded(Control, "ssl", ssl.id), m) /\ Acking(Unencoded(Control, "auth", ssl.id), m)
      BY <1>6, UnencodedAcking
    <3>2. QED
      BY <3>1, AckingNone
  <2> HIDE DEF ms
  <2>4. m.chan \notin Media
    BY <1>4, <1>8 DEF MediaTypes
  <2>5. QED
    BY <1>5, <2>2, <2>3, <2>4, QuietReading
<1>9. CASE m.type = "sdr"
  <2> DEFINE ms == IF had_sdr THEN << >>
                   ELSE Unencoded(Control, "sdr_request", 0) \o Unencoded(Control, "sdr_response", 0)
  <2>1. HandleServiceDiscovery
    BY <1>4, <1>9 DEF Handle, MediaTypes
  <2>2. WriteBytes(ms) /\ UNCHANGED <<taken, channel_session>>
    BY <2>1 DEF HandleServiceDiscovery
  <2>3. Acking(ms, m)
    BY <1>6, UnencodedAcking, AckingNone, AckingBoth
  <2> HIDE DEF ms
  <2>4. m.chan \notin Media
    BY <1>4, <1>9 DEF MediaTypes
  <2>5. QED
    BY <1>5, <2>2, <2>3, <2>4, QuietReading
<1>10. CASE m.type \notin {"version", "ssl", "sdr"} /\ m.chan \in Media
  <2> DEFINE ms == Answer(m)
  <2>1. HandleMedia(m)
    BY <1>10 DEF Handle
  <2>2. Acking(ms, m) /\ (m.type = "data" => Len(ms) <= 1)
    BY <1>2, <1>4, <1>10, AnswerAcking
  <2>3. Len(ms) \in Nat
    BY <2>2 DEF Acking
  <2>4. /\ WriteBytes(ms)
        /\ channel_session' = [channel_session EXCEPT ![m.chan] =
                                 CASE m.type = "start" -> m.arg
                                   [] m.type = "stop"  -> 0
                                   [] OTHER            -> @]
        /\ taken' = [taken EXCEPT ![m.chan] =
                       IF m.type = "start" THEN 0 ELSE IF m.type = "data" THEN @ + 1 ELSE @]
    BY <2>1 DEF HandleMedia
  <2> HIDE DEF ms
  <2>5. PICK ws : Acking(ws, m) /\ Len(ws) <= Len(ms) /\ toPhone' = toPhone \o ws
    BY <1>5, <2>2, <2>4, FewerAcking
  <2>6. Len(ws) \in Nat
    BY <2>5 DEF Acking
  <2>7. taken' \in [Media -> Nat] /\ (m.type = "data" => taken'[m.chan] = taken[m.chan] + 1)
    BY <1>10, <2>4
  <2>8. m.type = "data" => taken'[m.chan] >= taken[m.chan] + Len(ws)
    BY <1>10, <2>2, <2>3, <2>7, <2>5, <2>6
  <2>9. \A c \in Media \ {m.chan} : taken'[c] = taken[c] /\ channel_session'[c] = channel_session[c]
    BY <2>4 DEF KeyInv, Typed
  <2>10. channel_session'[m.chan] = CASE m.type = "start" -> m.arg
                                      [] m.type = "stop"  -> 0
                                      [] OTHER            -> channel_session[m.chan]
    BY <1>10, <2>4 DEF KeyInv, Typed
  <2>11. \/ channel_session'[m.chan] \in {channel_session[m.chan], 0}
         \/ m.type = "start" /\ channel_session'[m.chan] = m.arg
    BY <2>10
  <2>12. QED
    BY <2>7, <2>8, <2>9, <2>11, <2>5 DEF Reading
<1>11. CASE m.type \notin {"version", "ssl", "sdr"} /\ m.chan \notin Media
  <2>1. WriteBytes(Answered(m)) /\ UNCHANGED <<taken, channel_session>>
    BY <1>11 DEF Handle, services
  <2>2. QED
    BY <1>2, <1>5, <1>11, <2>1, AnsweredAcking, QuietReading
<1>12. QED
  BY <1>7, <1>8, <1>9, <1>10, <1>11

LEMMA ProcessReading ==
    ASSUME KeyInv, Alive, taken \in [Media -> Nat], toHU # << >>, NEW bad \in BOOLEAN, Process(bad)
    PROVE  toHU' = Tail(toHU) /\ UNCHANGED <<phone, again>> /\ Reading(Head(toHU).m)
<1> DEFINE f == Head(toHU)
<1>1. toHU' = Tail(toHU) /\ UNCHANGED <<phone, again>>
  BY DEF Process
<1>2. CASE ~Fails(f, bad) /\ ~(f.m.key # Plain /\ ssl.state = "null") /\ f.part = f.of
  <2>1. Handle(f.m)
    BY <1>2 DEF Process
  <2>2. QED
    BY <1>1, <2>1, HandleReading
<1>3. CASE Fails(f, bad) \/ (f.m.key # Plain /\ ssl.state = "null") \/ f.part # f.of
  <2>1. UNCHANGED <<channel_session, toPhone, taken>>
    BY <1>3 DEF Process, services
  <2>2. toPhone' = toPhone \o << >>
    BY <2>1 DEF KeyInv, Typed
  <2> DEFINE m == f.m
             ms == << >>
  <2>3. Acking(ms, m) /\ Len(ms) = 0 /\ toPhone' = toPhone \o ms
    BY <2>2, AckingNone
  <2>4. m.chan \in Media => taken'[m.chan] >= taken[m.chan] + Len(ms)
    <3>1. m.chan \in Media => taken[m.chan] \in Nat
      OBVIOUS
    <3> HIDE DEF m
    <3>2. QED
      BY <2>1, <2>3, <3>1
  <2> HIDE DEF ms
  <2>5. Reading(m)
    BY <2>1, <2>3, <2>4 DEF Reading
  <2>6. QED
    BY <1>1, <2>5
<1>4. QED
  BY <1>2, <1>3

(***************************************************************************)
(* The session of a channel.  Number p of the frames on their way opens it, *)
(* or the handler is in it (p = 0); what follows on the channel is data.   *)
(* Until it is open no acknowledgement carries its number.                 *)
(***************************************************************************)
Fresh(c, p) ==
    /\ \A i \in (p + 1)..Len(toHU) : toHU[i].m.chan = c => toHU[i].m.type = "data"
    /\ p = 0 => Acks(c) <= taken[c]
    /\ p > 0 =>
          /\ toHU[p].m.chan = c /\ toHU[p].m.type = "start" /\ toHU[p].m.arg = phone.ch[c].session
          /\ Acks(c) = 0 /\ channel_session[c] # phone.ch[c].session
          /\ \A i \in 1..(p - 1) :
                toHU[i].m.chan = c /\ toHU[i].m.type = "start" => toHU[i].m.arg # phone.ch[c].session

Ready(c) ==
    /\ phone.at = "up"
    /\ ~again => phone.ch[c].session \in Sessions /\ \E p \in 0..Len(toHU) : Fresh(c, p)

Counted == taken \in [Media -> Nat] /\ \A c \in Media : phone.ch[c].at = "started" => Ready(c)

LEMMA AcksType ==
    ASSUME KeyInv, NEW c \in Media
    PROVE  /\ Acks(c) = Count(toPhone, Secret(c, "ack", phone.ch[c].session)) + phone.ch[c].acks
           /\ Acks(c) \in Nat /\ Count(toPhone, Secret(c, "ack", phone.ch[c].session)) \in Nat
           /\ phone.ch[c] \in ChannelState /\ phone.ch[c].acks \in Nat
<1>1. toPhone \in Seq(Wire) /\ phone.ch[c] \in ChannelState
  BY DEF KeyInv, Typed, PhoneState
<1>2. phone.ch[c].acks \in Nat
  BY <1>1 DEF ChannelState
<1>3. Acks(c) = Count(toPhone, Secret(c, "ack", phone.ch[c].session)) + phone.ch[c].acks
  BY DEF Acks, Count, Places
<1>4. QED
  BY <1>1, <1>2, <1>3, PlacesFinite

\* Nothing that counts is written.
LEMMA WrittenAcks ==
    ASSUME KeyInv, NEW c \in Media, NEW ms \in Seq(Wire), toPhone' = toPhone \o ms,
           phone'.key = phone.key, phone'.ch[c].session = phone.ch[c].session, phone'.ch[c].acks = phone.ch[c].acks,
           \A i \in 1..Len(ms) : ms[i] # Secret(c, "ack", phone.ch[c].session)
    PROVE  Acks(c)' = Acks(c) /\ Acks(c) \in Nat
<1> DEFINE a == Secret(c, "ack", phone.ch[c].session)
<1>1. Acks(c) \in Nat /\ Acks(c) = Count(toPhone, a) + phone.ch[c].acks
  BY AcksType
<1>2. Secret(c, "ack", phone.ch[c].session)' = a
  BY DEF Secret
<1>3. Acks(c)' = Count(toPhone', a) + phone.ch[c].acks
  BY <1>2 DEF Acks, Count, Places
<1> HIDE DEF a
<1>4. Count(toPhone \o ms, a) = Count(toPhone, a)
  BY CountAdded DEF a, KeyInv, Typed
<1>5. QED
  BY <1>1, <1>3, <1>4

LEMMA SameAcks ==
    ASSUME KeyInv, NEW c \in Media, toPhone' = toPhone, phone'.key = phone.key,
           phone'.ch[c].session = phone.ch[c].session, phone'.ch[c].acks = phone.ch[c].acks
    PROVE  Acks(c)' = Acks(c) /\ Acks(c) \in Nat
<1> DEFINE ms == << >>
<1>1. toPhone' = toPhone \o ms /\ ms \in Seq(Wire) /\ \A i \in 1..Len(ms) : FALSE
  BY DEF KeyInv, Typed
<1> HIDE DEF ms
<1>2. QED
  BY <1>1, WrittenAcks

\* Frames are added to those on their way.
Added == Len(toHU) + 1..Len(toHU')
Extended ==
    /\ Len(toHU) \in Nat /\ Len(toHU') \in Nat /\ Len(toHU') >= Len(toHU)
    /\ \A i \in 1..Len(toHU) : toHU'[i] = toHU[i]

LEMMA SameExtended == ASSUME KeyInv, toHU' = toHU PROVE Extended /\ \A i \in Added : FALSE
BY DEF KeyInv, Typed, Extended, Added

LEMMA OneExtended ==
    ASSUME KeyInv, NEW f, f \in Frames, toHU' = Append(toHU, f)
    PROVE  Extended /\ \A i \in Added : toHU'[i] = f
BY DEF KeyInv, Typed, Extended, Added

\* Data follows, or a message is lost.
LEMMA StaysReady ==
    ASSUME KeyInv, taken \in [Media -> Nat], NEW c \in Media, Ready(c), UNCHANGED <<taken, channel_session>>,
           again => again', phone'.at = phone.at, phone'.ch[c].session = phone.ch[c].session,
           Acks(c)' \in Nat, Acks(c)' <= Acks(c),
           Extended, \A i \in Added : toHU'[i].m.chan = c => toHU'[i].m.type = "data"
    PROVE  Ready(c)'
<1>1. Len(toHU) \in Nat /\ Len(toHU') \in Nat /\ Len(toHU') >= Len(toHU)
  BY DEF Extended
<1>2. \A i \in 1..Len(toHU) : toHU'[i] = toHU[i]
  BY DEF Extended
<1>3. Acks(c) \in Nat /\ taken[c] \in Nat
  BY AcksType
<1>4. ASSUME NEW p \in 0..Len(toHU), Fresh(c, p) PROVE Fresh(c, p)'
  <2>1. \A i \in (p + 1)..Len(toHU') : toHU'[i].m.chan = c => toHU'[i].m.type = "data"
    <3> SUFFICES ASSUME NEW i \in (p + 1)..Len(toHU'), toHU'[i].m.chan = c PROVE toHU'[i].m.type = "data"
      OBVIOUS
    <3>1. CASE i <= Len(toHU)
      <4>1. i \in (p + 1)..Len(toHU) /\ i \in 1..Len(toHU)
        BY <1>1, <1>2, <3>1
      <4>2. QED
        BY <1>2, <1>4, <4>1 DEF Fresh
    <3>2. CASE i > Len(toHU)
      <4>1. i \in Added
        BY <1>1, <3>2 DEF Added
      <4>2. QED
        BY <4>1
    <3>3. QED
      BY <1>1, <1>2, <3>1, <3>2
  <2>2. p = 0 => Acks(c)' <= taken'[c]
    BY <1>3, <1>4 DEF Fresh
  <2>3. p > 0 => p \in 1..Len(toHU) /\ \A i \in 1..(p - 1) : i \in 1..Len(toHU)
    BY <1>1
  <2>4. p > 0 => Acks(c)' = 0
    BY <1>3, <1>4 DEF Fresh
  <2>5. QED
    BY <1>2, <1>4, <2>1, <2>2, <2>3, <2>4 DEF Fresh
<1>5. ASSUME ~again' PROVE phone'.ch[c].session \in Sessions /\ \E p \in 0..Len(toHU') : Fresh(c, p)'
  <2>1. PICK p \in 0..Len(toHU) : Fresh(c, p)
    BY <1>5 DEF Ready
  <2>2. p \in 0..Len(toHU')
    BY <1>1, <1>2
  <2>3. phone.ch[c].session \in Sessions
    BY <1>5 DEF Ready
  <2>4. QED
    BY <1>4, <2>1, <2>2, <2>3
<1>6. QED
  BY <1>5 DEF Ready

\* A step that leaves the sessions alone.
LEMMA StaysCounted ==
    ASSUME KeyInv, Counted, UNCHANGED <<phone, taken, channel_session, again, toHU>>,
           NEW ms \in Seq(Wire), toPhone' = toPhone \o ms, \A i \in 1..Len(ms) : ms[i].type # "ack"
    PROVE  Counted'
<1> SUFFICES ASSUME NEW c \in Media, phone.ch[c].at = "started" PROVE Ready(c)'
  BY DEF Counted
<1>1. phone.ch[c].session \in Nat /\ phone.key \in Nat /\ c \in Channels /\ "ack" \in Types
  BY DEF KeyInv, Typed, PhoneState, ChannelState, Channels, Types
<1>2. Secret(c, "ack", phone.ch[c].session).type = "ack"
  BY <1>1, OutType DEF Secret
<1>3. Acks(c)' = Acks(c) /\ Acks(c) \in Nat
  BY <1>2, WrittenAcks
<1>4. Extended /\ \A i \in Added : FALSE
  BY SameExtended
<1>5. taken \in [Media -> Nat] /\ Ready(c)
  BY DEF Counted
<1>6. Acks(c)' <= Acks(c)
  BY <1>3
<1>7. QED
  BY <1>3, <1>4, <1>5, <1>6, StaysReady

\* The handler reads a frame: its acknowledgement counts only in the session, for data.
LEMMA ReadReady ==
    ASSUME KeyInv, taken \in [Media -> Nat], NEW c \in Media, Ready(c), toHU # << >>, NEW m, m = Head(toHU).m,
           toHU' = Tail(toHU), UNCHANGED <<phone, again>>, Reading(m)
    PROVE  Ready(c)'
<1> SUFFICES ASSUME ~again PROVE phone.ch[c].session \in Sessions /\ \E q \in 0..Len(toHU') : Fresh(c, q)'
  BY DEF Ready
<1> DEFINE n == phone.ch[c].session
           a == Secret(c, "ack", n)
<1>1. n \in Sessions /\ n # 0 /\ n \in Nat
  BY SessionAssumption DEF Ready
<1>2. PICK p \in 0..Len(toHU) : Fresh(c, p)
  BY DEF Ready
<1>3. /\ toHU \in Seq(Frames) /\ Len(toHU) \in Nat /\ Len(toHU') = Len(toHU) - 1 /\ toHU[1].m = m
      /\ \A i \in 1..Len(toHU') : i + 1 \in 1..Len(toHU) /\ toHU'[i] = toHU[i + 1]
  BY DEF KeyInv, Typed
<1>4. PICK ms :
        /\ Acking(ms, m) /\ toPhone' = toPhone \o ms
        /\ taken' \in [Media -> Nat]
        /\ \A d \in Media \ {m.chan} : taken'[d] = taken[d] /\ channel_session'[d] = channel_session[d]
        /\ m.chan \in Media =>
              \/ channel_session'[m.chan] \in {channel_session[m.chan], 0}
              \/ m.type = "start" /\ channel_session'[m.chan] = m.arg
        /\ m.chan \in Media /\ m.type = "data" => taken'[m.chan] >= taken[m.chan] + Len(ms)
  BY DEF Reading
<1>5. a.type = "ack" /\ a.chan = c /\ a.arg = n
  <2>1. phone.key \in Nat /\ c \in Channels /\ "ack" \in Types
    BY DEF KeyInv, Typed, PhoneState, Channels, Types
  <2>2. QED
    BY <1>1, <2>1, OutType DEF Secret
<1>6. ms \in Seq(Wire) /\ Len(ms) \in Nat
  BY <1>4 DEF Acking
<1>7. Acks(c) \in Nat /\ taken[c] \in Nat /\ taken'[c] \in Nat
  BY <1>4, AcksType
<1>8. m.chan # c \/ channel_session[c] # n => Acks(c)' = Acks(c)
  <2> SUFFICES ASSUME m.chan # c \/ channel_session[c] # n PROVE Acks(c)' = Acks(c)
    OBVIOUS
  <2>1. \A i \in 1..Len(ms) : ms[i] # a
    BY <1>4, <1>5 DEF Acking
  <2>2. QED
    BY <1>4, <1>6, <2>1, WrittenAcks
<1>9. Acks(c)' <= Acks(c) + Len(ms)
  <2>1. Acks(c) = Count(toPhone, a) + phone.ch[c].acks /\ Count(toPhone, a) \in Nat /\ phone.ch[c].acks \in Nat
    BY AcksType
  <2>2. Secret(c, "ack", phone.ch[c].session)' = a
    BY DEF Secret
  <2>3. Acks(c)' = Count(toPhone', a) + phone.ch[c].acks
    BY <2>2 DEF Acks, Count, Places
  <2> HIDE DEF a, n
  <2>4. Count(toPhone \o ms, a) <= Count(toPhone, a) + Len(ms) /\ Count(toPhone \o ms, a) \in Nat
    BY <1>6, CountAdded DEF KeyInv, Typed
  <2>5. Count(toPhone', a) <= Count(toPhone, a) + Len(ms) /\ Count(toPhone', a) \in Nat
    BY <1>4, <2>4
  <2> DEFINE x == Count(toPhone, a)
             y == Count(toPhone', a)
             k == phone.ch[c].acks
             l == Len(ms)
  <2>6. x \in Nat /\ y \in Nat /\ k \in Nat /\ l \in Nat /\ y <= x + l
    BY <1>6, <2>1, <2>5
  <2>7. Acks(c) = x + k /\ Acks(c)' = y + k
    BY <2>1, <2>3
  <2> HIDE DEF x, y, k, l
  <2>8. y + k <= (x + k) + l
    BY <2>6
  <2>9. Acks(c)' <= Acks(c) + l
    BY <2>7, <2>8
  <2>10. QED
    BY <2>9 DEF l
<1>10. Acks(c)' \in Nat
  <2>1. phone.ch[c].acks \in Nat
    BY AcksType
  <2>2. toPhone' \in Seq(Wire)
    BY <1>4, <1>6, CountAdded DEF KeyInv, Typed
  <2>3. Secret(c, "ack", phone.ch[c].session)' = a
    BY DEF Secret
  <2>4. Acks(c)' = Count(toPhone', a) + phone.ch[c].acks
    BY <2>3 DEF Acks, Count, Places
  <2> HIDE DEF a, n
  <2>5. Count(toPhone', a) \in Nat
    BY <2>2, PlacesFinite
  <2>6. QED
    BY <2>1, <2>4, <2>5
<1> HIDE DEF a
<1>11. CASE p = 0
  <2>1. \A i \in 1..Len(toHU') : toHU'[i].m.chan = c => toHU'[i].m.type = "data"
    BY <1>2, <1>3, <1>11 DEF Fresh
  <2>2. m.chan = c => m.type = "data"
    <3>1. 1 \in 1..Len(toHU)
      BY <1>3
    <3>2. QED
      BY <1>2, <1>3, <1>11, <3>1 DEF Fresh
  <2>3. Acks(c) <= taken[c]
    BY <1>2, <1>11 DEF Fresh
  <2>4. Acks(c)' <= taken'[c]
    <3>1. CASE m.chan = c
      <4>1. taken'[c] >= taken[c] + Len(ms)
        BY <1>4, <2>2, <3>1
      <4>2. QED
        BY <1>6, <1>7, <1>9, <1>10, <2>3, <4>1
    <3>2. CASE m.chan # c
      BY <1>4, <1>8, <2>3, <3>2
    <3>3. QED
      BY <3>1, <3>2
  <2>5. 0 \in 0..Len(toHU') /\ Fresh(c, 0)'
    BY <1>3, <2>1, <2>4 DEF Fresh
  <2>6. QED
    BY <1>1, <2>5
<1>12. CASE p = 1
  <2>1. \A i \in 1..Len(toHU') : toHU'[i].m.chan = c => toHU'[i].m.type = "data"
    BY <1>2, <1>3, <1>12 DEF Fresh
  <2>2. Acks(c) = 0 /\ channel_session[c] # n
    BY <1>2, <1>12 DEF Fresh
  <2>3. Acks(c)' <= taken'[c]
    BY <1>7, <1>8, <2>2
  <2>4. 0 \in 0..Len(toHU') /\ Fresh(c, 0)'
    BY <1>3, <2>1, <2>3 DEF Fresh
  <2>5. QED
    BY <1>1, <2>4
<1>13. CASE p > 1
  <2> DEFINE q == p - 1
  <2>1. q \in 1..Len(toHU') /\ q + 1 = p /\ q > 0
    BY <1>3, <1>13
  <2> HIDE DEF q
  <2>2. Acks(c) = 0 /\ channel_session[c] # n
    BY <1>2, <1>13 DEF Fresh
  <2>3. Acks(c)' = 0
    BY <1>8, <2>2
  <2>4. m.chan = c /\ m.type = "start" => m.arg # n
    <3>1. 1 \in 1..(p - 1)
      BY <1>13
    <3>2. QED
      BY <1>2, <1>3, <1>13, <3>1 DEF Fresh
  <2>5. channel_session'[c] # n
    BY <1>1, <1>4, <2>2, <2>4
  <2>6. \A i \in (q + 1)..Len(toHU') : toHU'[i].m.chan = c => toHU'[i].m.type = "data"
    <3> SUFFICES ASSUME NEW i \in (q + 1)..Len(toHU') PROVE toHU'[i].m.chan = c => toHU'[i].m.type = "data"
      OBVIOUS
    <3>1. i \in 1..Len(toHU') /\ i + 1 \in (p + 1)..Len(toHU)
      BY <1>3, <2>1
    <3>2. QED
      BY <1>2, <1>3, <3>1 DEF Fresh
  <2>7. toHU'[q] = toHU[p]
    BY <1>3, <2>1
  <2>8. \A i \in 1..(q - 1) : toHU'[i].m.chan = c /\ toHU'[i].m.type = "start" => toHU'[i].m.arg # n
    <3> SUFFICES ASSUME NEW i \in 1..(q - 1)
                 PROVE  toHU'[i].m.chan = c /\ toHU'[i].m.type = "start" => toHU'[i].m.arg # n
      OBVIOUS
    <3>1. i \in 1..Len(toHU') /\ i + 1 \in 1..(p - 1)
      BY <1>3, <2>1
    <3>2. QED
      BY <1>2, <1>3, <1>13, <3>1 DEF Fresh
  <2>9. toHU[p].m.chan = c /\ toHU[p].m.type = "start" /\ toHU[p].m.arg = n
    BY <1>2, <1>13 DEF Fresh
  <2>10. Fresh(c, q)'
    BY <2>1, <2>3, <2>5, <2>6, <2>7, <2>8, <2>9 DEF Fresh
  <2>11. QED
    BY <1>1, <1>3, <2>1, <2>10
<1>14. QED
  BY <1>3, <1>11, <1>12, <1>13

LEMMA ProcessCounted ==
    ASSUME KeyInv, Counted, Alive, toHU # << >>, NEW bad \in BOOLEAN, Process(bad)
    PROVE  Counted'
<1> DEFINE m == Head(toHU).m
<1>1. taken \in [Media -> Nat]
  BY DEF Counted
<1>2. toHU' = Tail(toHU) /\ UNCHANGED <<phone, again>> /\ Reading(m)
  BY <1>1, ProcessReading
<1>3. taken' \in [Media -> Nat]
  BY <1>2 DEF Reading
<1> HIDE DEF m
<1>4. ASSUME NEW c \in Media, phone'.ch[c].at = "started" PROVE Ready(c)'
  <2>1. Ready(c)
    BY <1>2, <1>4 DEF Counted
  <2>2. QED
    BY <1>1, <1>2, <2>1, ReadReady DEF m
<1>5. QED
  BY <1>3, <1>4 DEF Counted

\* The phone sends frames on one channel.
LEMMA SendingCounted ==
    ASSUME KeyInv, Counted, UNCHANGED <<taken, channel_session, toPhone>>, again => again',
           phone'.at = phone.at, phone'.key = phone.key,
           Extended, NEW chan, \A i \in Added : toHU'[i].m.chan = chan,
           \A c \in Media \ {chan} : phone'.ch[c] = phone.ch[c],
           chan \in Media /\ phone'.ch[chan].at = "started" => Ready(chan)'
    PROVE  Counted'
<1>1. taken \in [Media -> Nat] /\ taken' \in [Media -> Nat]
  BY DEF Counted
<1>2. ASSUME NEW c \in Media, phone'.ch[c].at = "started", c # chan PROVE Ready(c)'
  <2>1. phone'.ch[c] = phone.ch[c]
    BY <1>2
  <2>2. Ready(c)
    BY <1>2, <2>1 DEF Counted
  <2>3. Acks(c)' = Acks(c) /\ Acks(c) \in Nat
    BY <2>1, SameAcks
  <2>4. Acks(c)' \in Nat /\ Acks(c)' <= Acks(c) /\ phone'.ch[c].session = phone.ch[c].session
    BY <2>1, <2>3
  <2>5. \A i \in Added : toHU'[i].m.chan # c
    BY <1>2
  <2>6. QED
    BY <1>1, <2>2, <2>4, <2>5, StaysReady
<1>3. QED
  BY <1>1, <1>2 DEF Counted

LEMMA SecretIs ==
    ASSUME KeyInv, NEW chan \in Channels, NEW type \in Types, NEW arg \in Nat
    PROVE  /\ Secret(chan, type, arg) \in Wire /\ Secret(chan, type, arg).type = type
           /\ Secret(chan, type, arg).chan = chan /\ Secret(chan, type, arg).arg = arg
<1>1. phone.key \in Nat
  BY DEF KeyInv, Typed, PhoneState
<1>2. QED
  BY <1>1, OutType DEF Secret

LEMMA FrameOf ==
    ASSUME NEW m \in Wire, NEW p \in Int, NEW n \in Int
    PROVE  Frame(m, p, n) \in Frames /\ Frame(m, p, n).m = m
BY DEF Frames, Frame

LEMMA MoveCounted == ASSUME KeyInv, Counted, NEW chan \in Media, Move(chan) PROVE Counted'
<1>1. PICK step \in Moves :
        /\ UNCHANGED <<taken, channel_session, toPhone, again>>
        /\ toHU' = Append(toHU, Frame(Secret(chan, step[2], 0), 1, 1))
        /\ phone' = [phone EXCEPT !.ch[chan].at = step[3]]
  BY DEF Move, Send, Unchanged, services
<1>2. step[2] \in {"open", "setup"} /\ step[3] \in {"opening", "setup"}
  BY DEF Moves
<1> DEFINE c == [phone.ch[chan] EXCEPT !.at = step[3]]
           f == Frame(Secret(chan, step[2], 0), 1, 1)
<1>3. phone \in PhoneState /\ phone.ch[chan] \in ChannelState
  BY DEF KeyInv, Typed, PhoneState
<1>4. c \in ChannelState /\ c.at # "started"
  BY <1>2, <1>3 DEF ChannelState
<1>5. phone' = [phone EXCEPT !.ch = [phone.ch EXCEPT ![chan] = c]]
  BY <1>1, <1>3 DEF PhoneState
<1>6. f \in Frames /\ f.m.chan = chan
  <2>1. chan \in Channels /\ step[2] \in Types /\ 0 \in Nat /\ 1 \in Int
    BY <1>2 DEF Channels, Types
  <2>2. Secret(chan, step[2], 0) \in Wire /\ Secret(chan, step[2], 0).chan = chan
    BY <2>1, SecretIs
  <2>3. QED
    BY <2>1, <2>2, FrameOf
<1>7. toHU' = Append(toHU, f)
  BY <1>1
<1> HIDE DEF c, f
<1>8. Extended /\ \A i \in Added : toHU'[i].m.chan = chan
  BY <1>6, <1>7, OneExtended
<1>9. /\ phone'.key = phone.key /\ phone'.at = phone.at /\ phone'.ch[chan] = c
      /\ \A d \in Media \ {chan} : phone'.ch[d] = phone.ch[d]
  BY <1>3, <1>4, <1>5, ChannelStep
<1>10. QED
  BY <1>1, <1>4, <1>8, <1>9, SendingCounted

\* A session begins: nothing there carries its number, unless it is in use.
LEMMA StartCounted ==
    ASSUME KeyInv, Counted, NEW chan \in Media, NEW s \in Sessions, Start(chan, s) PROVE Counted'
<1> DEFINE c == [phone.ch[chan] EXCEPT !.at = "started", !.session = s, !.sent = 0, !.acks = 0]
           f == Frame(Secret(chan, "start", s), 1, 1)
           a == Secret(chan, "ack", s)
<1>1. /\ UNCHANGED <<taken, channel_session, toPhone>> /\ phone.at = "up"
      /\ toHU' = Append(toHU, f)
      /\ phone' = [phone EXCEPT !.ch[chan] = [@ EXCEPT !.at = "started", !.session = s, !.sent = 0, !.acks = 0]]
      /\ again' = (again \/ InUse(chan, s))
  BY DEF Start, Send, Unchanged, services
<1>2. phone \in PhoneState /\ phone.ch[chan] \in ChannelState /\ s \in Nat
  BY SessionAssumption DEF KeyInv, Typed, PhoneState
<1>3. c \in ChannelState /\ c.session = s /\ c.acks = 0
  BY <1>2 DEF ChannelState
<1>4. phone' = [phone EXCEPT !.ch = [phone.ch EXCEPT ![chan] = c]]
  BY <1>1, <1>2 DEF PhoneState
<1>5. f \in Frames /\ f.m.chan = chan /\ f.m.type = "start" /\ f.m.arg = s
  <2>1. chan \in Channels /\ "start" \in Types /\ 1 \in Int
    BY DEF Channels, Types
  <2>2. /\ Secret(chan, "start", s) \in Wire /\ Secret(chan, "start", s).chan = chan
        /\ Secret(chan, "start", s).type = "start" /\ Secret(chan, "start", s).arg = s
    BY <1>2, <2>1, SecretIs
  <2>3. QED
    BY <2>1, <2>2, FrameOf
<1> HIDE DEF c, f
<1>6. Extended /\ \A i \in Added : toHU'[i] = f
  BY <1>1, <1>5, OneExtended
<1>7. /\ phone'.key = phone.key /\ phone'.at = phone.at /\ phone'.ch[chan] = c
      /\ \A d \in Media \ {chan} : phone'.ch[d] = phone.ch[d]
  BY <1>2, <1>3, <1>4, ChannelStep
<1>8. ASSUME ~again' PROVE phone'.ch[chan].session \in Sessions /\ \E p \in 0..Len(toHU') : Fresh(chan, p)'
  <2>. PICK p \in Nat : p = Len(toHU) + 1
    BY DEF KeyInv, Typed
  <2>1. ~InUse(chan, s)
    BY <1>1, <1>8, Zenon
  <2>2. toHU \in Seq(Frames) /\ Len(toHU) \in Nat /\ p = Len(toHU') /\ p = Len(toHU) + 1 /\ toHU'[p] = f
    BY <1>1, <1>5 DEF KeyInv, Typed
  <2>3. p > 0 /\ p \in 0..Len(toHU') /\ \A i \in (p + 1)..Len(toHU') : FALSE
    BY <2>2
  <2>4. Acks(chan)' = 0
    <3>1. Secret(chan, "ack", phone.ch[chan].session)' = a
      BY <1>3, <1>7 DEF Secret
    <3>2. Acks(chan)' = Count(toPhone', a) + phone'.ch[chan].acks
      BY <1>3, <1>7, <3>1 DEF Acks, Count, Places
    <3>3. \A i \in 1..Len(toPhone) : toPhone[i] # a
      BY <2>1 DEF InUse
    <3> HIDE DEF a
    <3>4. Count(toPhone', a) = 0
      BY <1>1, <3>3, CountNone
    <3>5. QED
      BY <1>3, <1>7, <3>2, <3>4
  <2>5. channel_session'[chan] # s
    BY <1>1, <2>1 DEF InUse
  <2>6. \A i \in 1..(p - 1) : toHU'[i].m.chan = chan /\ toHU'[i].m.type = "start" => toHU'[i].m.arg # s
    <3> SUFFICES ASSUME NEW i \in 1..(p - 1)
                 PROVE  toHU'[i].m.chan = chan /\ toHU'[i].m.type = "start" => toHU'[i].m.arg # s
      OBVIOUS
    <3>1. i \in 1..Len(toHU) /\ toHU'[i] = toHU[i]
      BY <1>6, <2>2 DEF Extended
    <3>2. QED
      BY <2>1, <3>1 DEF InUse
  <2>7. Fresh(chan, p)'
    BY <1>3, <1>5, <1>7, <2>2, <2>3, <2>4, <2>5, <2>6 DEF Fresh
  <2>8. QED
    BY <1>3, <1>7, <2>3, <2>7
<1>9. Ready(chan)'
  BY <1>1, <1>7, <1>8 DEF Ready
<1>10. again => again'
  BY <1>1, Zenon
<1>11. \A i \in Added : toHU'[i].m.chan = chan
  BY <1>5, <1>6
<1>12. QED
  BY <1>1, <1>6, <1>7, <1>9, <1>10, <1>11, SendingCounted

LEMMA DataCounted == ASSUME KeyInv, Counted, NEW chan \in Media, Data(chan) PROVE Counted'
<1> DEFINE c == phone.ch[chan]
           last == c.part + 1 = DataFrames
           part == IF last THEN 0 ELSE c.part + 1
           sent == IF last THEN c.sent + 1 ELSE c.sent
           d == [c EXCEPT !.part = part, !.sent = sent]
           f == Frame(Secret(chan, "data", c.sent + 1), c.part + 1, DataFrames)
<1>1. /\ UNCHANGED <<taken, channel_session, toPhone, again>> /\ c.at = "started"
      /\ toHU' = Append(toHU, f)
      /\ phone' = [phone EXCEPT !.ch[chan].part = IF last THEN 0 ELSE @ + 1,
                                !.ch[chan].sent = IF last THEN @ + 1 ELSE @]
  BY DEF Data, Unchanged, services
<1>2. phone \in PhoneState /\ c \in ChannelState /\ c.part \in Nat /\ c.sent \in Nat
  BY DEF KeyInv, Typed, PhoneState, ChannelState
<1>3. d \in ChannelState /\ d.session = c.session /\ d.acks = c.acks
  <2>1. part \in Nat /\ sent \in Nat
    BY <1>2
  <2> HIDE DEF part, sent
  <2>2. QED
    BY <1>2, <2>1 DEF ChannelState
<1>4. phone' = [phone EXCEPT !.ch = [phone.ch EXCEPT ![chan] = d]]
  BY <1>1, <1>2 DEF PhoneState
<1>5. f \in Frames /\ f.m.chan = chan /\ f.m.type = "data"
  <2>1. chan \in Channels /\ "data" \in Types /\ c.sent + 1 \in Nat /\ c.part + 1 \in Int /\ DataFrames \in Int
    BY <1>2, BoundAssumption DEF Channels, Types
  <2>2. /\ Secret(chan, "data", c.sent + 1) \in Wire /\ Secret(chan, "data", c.sent + 1).chan = chan
        /\ Secret(chan, "data", c.sent + 1).type = "data"
    BY <2>1, SecretIs
  <2>3. QED
    BY <2>1, <2>2, FrameOf
<1> HIDE DEF d, f
<1>6. Extended /\ \A i \in Added : toHU'[i] = f
  BY <1>1, <1>5, OneExtended
<1>7. /\ phone'.key = phone.key /\ phone'.at = phone.at /\ phone'.ch[chan] = d
      /\ \A e \in Media \ {chan} : phone'.ch[e] = phone.ch[e]
  BY <1>2, <1>3, <1>4, ChannelStep
<1>8. Ready(chan)'
  <2>1. taken \in [Media -> Nat] /\ Ready(chan)
    BY <1>1 DEF Counted
  <2>2. phone'.ch[chan].session = phone.ch[chan].session /\ phone'.ch[chan].acks = phone.ch[chan].acks
    BY <1>3, <1>7
  <2>3. Acks(chan)' = Acks(chan) /\ Acks(chan) \in Nat
    BY <1>1, <1>7, <2>2, SameAcks
  <2>4. Acks(chan)' \in Nat /\ Acks(chan)' <= Acks(chan)
    BY <2>3
  <2>5. \A i \in Added : toHU'[i].m.chan = chan => toHU'[i].m.type = "data"
    BY <1>5, <1>6
  <2>6. again => again'
    BY <1>1
  <2>7. QED
    BY <1>1, <1>6, <1>7, <2>1, <2>2, <2>4, <2>5, <2>6, StaysReady
<1>9. \A i \in Added : toHU'[i].m.chan = chan
  BY <1>5, <1>6
<1>10. QED
  BY <1>1, <1>6, <1>7, <1>8, <1>9, SendingCounted

LEMMA StopCounted == ASSUME KeyInv, Counted, NEW chan \in Media, Stop(chan) PROVE Counted'
<1> DEFINE f == Frame(Secret(chan, "stop", 0), 1, 1)
           g == Frame(Secret(Video, "video_focus", 0), 1, 1)
           at == IF chan = Video THEN "focus" ELSE "ready"
           c == [phone.ch[chan] EXCEPT !.at = at]
<1>1. /\ UNCHANGED <<taken, channel_session, toPhone, again>>
      /\ toHU' = toHU \o <<f>> \o (IF chan = Video THEN <<g>> ELSE << >>)
      /\ phone' = [phone EXCEPT !.ch[chan].at = at]
  BY DEF Stop, Unchanged, services
<1>2. phone \in PhoneState /\ phone.ch[chan] \in ChannelState /\ toHU \in Seq(Frames) /\ Len(toHU) \in Nat
  BY DEF KeyInv, Typed, PhoneState
<1>3. c \in ChannelState /\ c.at # "started"
  <2>1. at \in {"focus", "ready"}
    OBVIOUS
  <2> HIDE DEF at
  <2>2. QED
    BY <1>2, <2>1 DEF ChannelState
<1>4. f \in Frames /\ f.m.chan = chan /\ (chan = Video => g \in Frames /\ g.m.chan = chan)
  <2>1. chan \in Channels /\ "stop" \in Types /\ "video_focus" \in Types /\ 0 \in Nat /\ 1 \in Int
    BY DEF Channels, Types
  <2>2. Secret(chan, "stop", 0) \in Wire /\ Secret(chan, "stop", 0).chan = chan
    BY <2>1, SecretIs
  <2>3. Secret(chan, "video_focus", 0) \in Wire /\ Secret(chan, "video_focus", 0).chan = chan
    BY <2>1, SecretIs
  <2>4. QED
    BY <2>1, <2>2, <2>3, FrameOf
<1>5. phone' = [phone EXCEPT !.ch = [phone.ch EXCEPT ![chan] = c]]
  BY <1>1, <1>2 DEF PhoneState
<1> HIDE DEF c, f, g, at
<1>6. Extended /\ \A i \in Added : toHU'[i].m.chan = chan
  <2> DEFINE h == toHU \o <<f>>
  <2>1. /\ h \in Seq(Frames) /\ Len(h) = Len(toHU) + 1 /\ h[Len(toHU) + 1] = f
        /\ \A i \in 1..Len(toHU) : h[i] = toHU[i]
    BY <1>2, <1>4
  <2>2. toHU' = h \o (IF chan = Video THEN <<g>> ELSE << >>)
    BY <1>1
  <2> HIDE DEF h
  <2>3. CASE chan = Video
    <3>1. toHU' = h \o <<g>>
      BY <2>2, <2>3
    <3>2. /\ Len(toHU') = Len(toHU) + 2 /\ toHU'[Len(toHU) + 1] = f /\ toHU'[Len(toHU) + 2] = g
          /\ \A i \in 1..Len(toHU) : toHU'[i] = toHU[i]
      BY <1>2, <1>4, <2>1, <2>3, <3>1
    <3>3. \A i \in Added : i = Len(toHU) + 1 \/ i = Len(toHU) + 2
      BY <1>2, <3>2 DEF Added
    <3>4. Extended
      BY <1>2, <3>2 DEF Extended
    <3>5. QED
      BY <1>4, <2>3, <3>2, <3>3, <3>4
  <2>4. CASE chan # Video
    <3>1. toHU' = h
      BY <2>1, <2>2, <2>4
    <3>2. \A i \in Added : i = Len(toHU) + 1
      BY <1>2, <2>1, <3>1 DEF Added
    <3>3. Extended
      BY <1>2, <2>1, <3>1 DEF Extended
    <3>4. QED
      BY <1>4, <2>1, <3>1, <3>2, <3>3
  <2>5. QED
    BY <2>3, <2>4
<1>7. /\ phone'.key = phone.key /\ phone'.at = phone.at /\ phone'.ch[chan] = c
      /\ \A d \in Media \ {chan} : phone'.ch[d] = phone.ch[d]
  BY <1>2, <1>3, <1>5, ChannelStep
<1>8. QED
  BY <1>1, <1>3, <1>6, <1>7, SendingCounted

LEMMA AskCounted == ASSUME KeyInv, Counted, NEW r \in Asks, Ask(r) PROVE Counted'
<1> DEFINE f == Frame(Secret(r[1], r[2], 0), 1, 1)
<1>1. UNCHANGED <<taken, channel_session, toPhone, again, phone>> /\ toHU' = Append(toHU, f)
  BY DEF Ask, Send, Unchanged, services
<1>2. r[1] \in {Control, "touch", "sensor"} /\ r[2] \in {"audio_focus", "ping", "nav_focus", "byebye", "open", "binding", "sensor_request"}
  BY AskAssumption
<1>3. r[1] \in Channels /\ r[1] \notin Media /\ r[2] \in Types /\ 0 \in Nat /\ 1 \in Int
  BY <1>2, MediaAssumption DEF Channels, Types, Control, Video
<1>4. f \in Frames /\ f.m.chan = r[1]
  <2>1. Secret(r[1], r[2], 0) \in Wire /\ Secret(r[1], r[2], 0).chan = r[1]
    BY <1>3, SecretIs
  <2>2. QED
    BY <1>3, <2>1, FrameOf
<1> HIDE DEF f
<1>5. Extended /\ \A i \in Added : toHU'[i].m.chan = r[1]
  BY <1>1, <1>4, OneExtended
<1>6. /\ phone'.key = phone.key /\ phone'.at = phone.at
      /\ \A d \in Media \ {r[1]} : phone'.ch[d] = phone.ch[d]
  BY <1>1
<1>7. QED
  BY <1>1, <1>3, <1>5, <1>6, SendingCounted

\* A message is taken: an acknowledgement that counts is counted once more by the phone.
LEMMA TakenReady ==
    ASSUME KeyInv, Counted, NEW c \in Media, phone.ch[c].at = "started", toPhone # << >>, toPhone' = Tail(toPhone),
           UNCHANGED <<toHU, taken, channel_session, again>>, phone'.key = phone.key, phone'.at = phone.at,
           phone'.ch[c].session = phone.ch[c].session,
           \/ phone'.ch[c].acks = phone.ch[c].acks
           \/ /\ phone'.ch[c].acks = phone.ch[c].acks + 1
              /\ Head(toPhone) = Secret(c, "ack", phone.ch[c].session)
    PROVE  Ready(c)'
<1> DEFINE a == Secret(c, "ack", phone.ch[c].session)
           x == Count(toPhone, a)
           y == Count(Tail(toPhone), a)
           k == phone.ch[c].acks
           l == phone'.ch[c].acks
<1>1. Acks(c) = x + k /\ Acks(c) \in Nat /\ x \in Nat /\ k \in Nat
  BY AcksType
<1>2. Secret(c, "ack", phone.ch[c].session)' = a
  BY DEF Secret
<1>3. Acks(c)' = y + l
  BY <1>2 DEF Acks, Count, Places
<1>4. l = k \/ (l = k + 1 /\ Head(toPhone) = a)
  OBVIOUS
<1> HIDE DEF a
<1>5. y \in Nat /\ x = y + (IF Head(toPhone) = a THEN 1 ELSE 0)
  BY CountTaken DEF KeyInv, Typed
<1> HIDE DEF x, y, k, l
<1>6. y + l \in Nat /\ y + l <= x + k
  BY <1>1, <1>4, <1>5
<1>7. Acks(c)' \in Nat /\ Acks(c)' <= Acks(c)
  BY <1>1, <1>3, <1>6
<1>8. Extended /\ \A i \in Added : FALSE
  BY SameExtended
<1>9. taken \in [Media -> Nat] /\ Ready(c)
  BY DEF Counted
<1>10. again => again'
  OBVIOUS
<1>11. QED
  BY <1>7, <1>8, <1>9, <1>10, StaysReady

LEMMA TakeCounted == ASSUME KeyInv, Counted, Take PROVE Counted'
<1> DEFINE m == Head(toPhone)
<1>1. /\ cable # 0 /\ toPhone # << >> /\ toPhone' = Tail(toPhone)
      /\ UNCHANGED <<taken, channel_session, again>>
  BY DEF Take, Unchanged, services
<1>2. taken' \in [Media -> Nat]
  BY <1>1 DEF Counted
<1>3. phone \in PhoneState
  BY DEF KeyInv, Typed
<1>4. \/ m.type = "version_request" /\ TakeVersion
      \/ m.type = "ssl" /\ TakeSsl(m)
      \/ m.type = "auth" /\ TakeAuth(m)
      \/ phone.at = "sdr" /\ phone' = [phone EXCEPT !.at = "up"] /\ UNCHANGED toHU
      \/ /\ m.chan \in Media /\ m.key = phone.key /\ phone.at = "up"
         /\ phone' = [phone EXCEPT !.ch[m.chan] = Heard(@, m)] /\ UNCHANGED toHU
      \/ UNCHANGED <<phone, toHU>>
  BY <1>1, TakeCases
<1>5. m \in Wire
  BY <1>1 DEF KeyInv, Typed
<1> HIDE DEF m
<1>6. CASE phone.at # "up" /\ phone'.ch = phone.ch
  BY <1>2, <1>6 DEF Counted, Ready
<1>7. CASE UNCHANGED <<phone, toHU>>
  <2>1. ASSUME NEW c \in Media, phone'.ch[c].at = "started" PROVE Ready(c)'
    BY <1>1, <1>7, <2>1, TakenReady
  <2>2. QED
    BY <1>2, <2>1 DEF Counted
<1>8. CASE m.type = "version_request" /\ TakeVersion
  <2>1. \A c \in Media : phone'.ch[c].at = "closed"
    BY <1>8 DEF TakeVersion, NewPhone, Closed
  <2>2. QED
    BY <1>2, <2>1 DEF Counted
<1>9. CASE m.type = "ssl" /\ TakeSsl(m)
  <2>1. UNCHANGED <<phone, toHU>> \/ (phone.at \in {"version", "ssl"} /\ phone' = [phone EXCEPT !.at = "ssl", !.key = m.arg])
    BY <1>9 DEF TakeSsl
  <2>2. CASE phone.at \in {"version", "ssl"} /\ phone' = [phone EXCEPT !.at = "ssl", !.key = m.arg]
    BY <1>3, <1>6, <2>2 DEF PhoneState
  <2>3. QED
    BY <1>7, <2>1, <2>2
<1>10. CASE m.type = "auth" /\ TakeAuth(m)
  <2>1. UNCHANGED <<phone, toHU>> \/ (phone.at = "ssl" /\ phone' = [phone EXCEPT !.at = "sdr"])
    BY <1>10 DEF TakeAuth
  <2>2. CASE phone.at = "ssl" /\ phone' = [phone EXCEPT !.at = "sdr"]
    BY <1>3, <1>6, <2>2 DEF PhoneState
  <2>3. QED
    BY <1>7, <2>1, <2>2
<1>11. CASE phone.at = "sdr" /\ phone' = [phone EXCEPT !.at = "up"]
  BY <1>3, <1>6, <1>11 DEF PhoneState
<1>12. CASE /\ m.chan \in Media /\ m.key = phone.key /\ phone.at = "up"
            /\ phone' = [phone EXCEPT !.ch[m.chan] = Heard(@, m)] /\ UNCHANGED toHU
  <2> DEFINE e == phone.ch[m.chan]
             d == Heard(e, m)
  <2>1. e \in ChannelState /\ d \in ChannelState /\ phone' = [phone EXCEPT !.ch = [phone.ch EXCEPT ![m.chan] = d]]
    BY <1>3, <1>12, HeardType DEF PhoneState
  <2>2. d.at = "started" => e.at = "started" /\ d.session = e.session
                            /\ (d.acks = e.acks \/ (d.acks = e.acks + 1 /\ m.type = "ack" /\ m.arg = e.session))
    BY <2>1 DEF Heard, ChannelState
  <2> HIDE DEF d
  <2>3. /\ phone'.key = phone.key /\ phone'.at = phone.at /\ phone'.ch[m.chan] = d
        /\ \A c \in Media \ {m.chan} : phone'.ch[c] = phone.ch[c]
    BY <1>3, <1>12, <2>1, ChannelStep
  <2>4. m = Out(m.chan, m.type, m.key, m.arg)
    BY <1>5 DEF Wire, Out
  <2>5. ASSUME NEW c \in Media, phone'.ch[c].at = "started" PROVE Ready(c)'
    <3>1. CASE c # m.chan
      <4>1. phone'.ch[c] = phone.ch[c]
        BY <2>3, <3>1
      <4>2. QED
        BY <1>1, <1>12, <2>3, <2>5, <4>1, TakenReady
    <3>2. CASE c = m.chan
      <4>1. d.at = "started" /\ phone'.ch[c] = d /\ phone.ch[c] = e
        BY <2>3, <2>5, <3>2
      <4>2. d.acks = e.acks \/ (d.acks = e.acks + 1 /\ m = Secret(c, "ack", e.session))
        BY <1>12, <2>2, <2>4, <3>2, <4>1 DEF Secret
      <4>3. QED
        BY <1>1, <1>12, <2>2, <2>3, <4>1, <4>2, TakenReady DEF m
    <3>3. QED
      BY <3>1, <3>2
  <2>6. QED
    BY <1>2, <2>5 DEF Counted
<1>13. QED
  BY <1>4, <1>7, <1>8, <1>9, <1>10, <1>11, <1>12

LEMMA PlugCounted == ASSUME KeyInv, Counted, Plug PROVE Counted'
<1>1. \A c \in Media : phone'.ch[c].at = "closed"
  BY DEF Plug, NewPhone, Closed
<1>2. QED
  BY <1>1 DEF Counted, Plug, history

\* What is lost does not come.
LEMMA UnplugCounted == ASSUME KeyInv, Counted, Unplug PROVE Counted'
<1>1. toHU' = << >> /\ toPhone' = << >> /\ UNCHANGED <<taken, channel_session, again, phone>>
  BY DEF Unplug, services, history
<1>2. taken \in [Media -> Nat] /\ taken' \in [Media -> Nat]
  BY <1>1 DEF Counted
<1>3. ASSUME NEW c \in Media, phone'.ch[c].at = "started" PROVE Ready(c)'
  <2> DEFINE a == Secret(c, "ack", phone.ch[c].session)
  <2>1. Ready(c)
    BY <1>1, <1>3 DEF Counted
  <2>2. /\ Acks(c) = Count(toPhone, a) + phone.ch[c].acks /\ Acks(c) \in Nat /\ Count(toPhone, a) \in Nat
        /\ phone.ch[c].acks \in Nat
    BY AcksType
  <2>3. Secret(c, "ack", phone.ch[c].session)' = a
    BY <1>1 DEF Secret
  <2>4. Acks(c)' = Count(toPhone', a) + phone.ch[c].acks
    BY <1>1, <2>3 DEF Acks, Count, Places
  <2> HIDE DEF a
  <2>5. Count(toPhone', a) = 0
    <3>1. \A i \in 1..Len(toPhone') : toPhone'[i] # a
      BY <1>1
    <3>2. QED
      BY <3>1, CountNone
  <2>6. Acks(c)' <= Acks(c)
    BY <2>2, <2>4, <2>5
  <2>7. ASSUME ~again PROVE Acks(c)' <= taken[c]
    <3>1. PICK p \in 0..Len(toHU) : Fresh(c, p)
      BY <2>1, <2>7 DEF Ready
    <3>2. Acks(c) <= taken[c] /\ taken[c] \in Nat
      <4>1. p = 0 \/ p > 0
        BY DEF KeyInv, Typed
      <4>2. QED
        BY <1>2, <3>1, <4>1 DEF Fresh
    <3>3. Acks(c)' \in Nat
      BY <2>2, <2>4, <2>5
    <3>4. QED
      BY <2>2, <2>6, <3>2, <3>3
  <2>8. Len(toHU') = 0 /\ 0 \in 0..Len(toHU')
    BY <1>1
  <2>9. ASSUME ~again PROVE Fresh(c, 0)'
    BY <1>1, <2>7, <2>8, <2>9 DEF Fresh
  <2>10. QED
    BY <1>1, <2>1, <2>8, <2>9 DEF Ready
<1>4. QED
  BY <1>2, <1>3 DEF Counted

(***************************************************************************)
(* The other steps of the handler write no acknowledgement.                *)
(***************************************************************************)
LEMMA SilentCounted ==
    ASSUME KeyInv, Counted, UNCHANGED <<phone, taken, channel_session, again, toHU, toPhone>> PROVE Counted'
<1> DEFINE ms == << >>
<1>1. toPhone' = toPhone \o ms /\ ms \in Seq(Wire) /\ \A i \in 1..Len(ms) : FALSE
  BY DEF KeyInv, Typed
<1> HIDE DEF ms
<1>2. QED
  BY <1>1, StaysCounted

LEMMA ConnectCounted == ASSUME KeyInv, Counted, Connect PROVE Counted'
<1> DEFINE m == Out(Control, "version_request", Plain, 0)
           ms == <<m>>
<1>1. (toPhone' = Append(toPhone, m) \/ toPhone' = toPhone) /\ UNCHANGED <<phone, taken, channel_session, again, toHU>>
  BY DEF Connect, services
<1>2. m \in Wire /\ m.type = "version_request"
  <2>1. Control \in Channels /\ "version_request" \in Types /\ Plain \in Nat /\ 0 \in Nat
    BY DEF Channels, Types, Plain
  <2>2. QED
    BY <2>1, OutType
<1> HIDE DEF m
<1>3. ms \in Seq(Wire) /\ \A i \in 1..Len(ms) : ms[i].type # "ack"
  BY <1>2
<1>4. toPhone' = Append(toPhone, m) => toPhone' = toPhone \o ms
  <2>1. toPhone \in Seq(Wire)
    BY DEF KeyInv, Typed
  <2>2. Append(toPhone, m) = toPhone \o <<m>>
    BY <1>2, <2>1
  <2>3. QED
    BY <2>2
<1> HIDE DEF ms
<1>5. QED
  BY <1>1, <1>3, <1>4, StaysCounted, SilentCounted

LEMMA WriteOwnCounted ==
    ASSUME KeyInv, Counted, NEW type \in {"ping_request", "sensor"}, WriteOwn(type) PROVE Counted'
<1> DEFINE chan == IF type = "ping_request" THEN Control ELSE type
           ms == Encoded(chan, type, 0)
           m == Out(chan, type, Plain, 0)
<1>1. WriteBytes(ms) /\ UNCHANGED <<phone, taken, channel_session, again, toHU>>
  BY DEF WriteOwn, services, history
<1>2. chan \in Channels /\ chan \notin Media /\ type \in Types /\ type # "ack" /\ 0 \in Nat /\ Plain \in Nat
  BY MediaAssumption DEF Channels, Types, Control, Video, Plain
<1> HIDE DEF chan
<1>3. m.chan = chan
  BY <1>2, OutType
<1> HIDE DEF m
<1>4. Acking(ms, m)
  BY <1>2, EncodedAcking
<1> HIDE DEF ms
<1>5. PICK ws : Acking(ws, m) /\ toPhone' = toPhone \o ws
  BY <1>1, <1>4, FewerAcking DEF KeyInv
<1>6. ws \in Seq(Wire) /\ \A i \in 1..Len(ws) : ws[i].type # "ack"
  BY <1>2, <1>3, <1>5 DEF Acking
<1>7. QED
  BY <1>1, <1>5, <1>6, StaysCounted

LEMMA NextCounted == ASSUME KeyInv, Waiting, Counted, [Next]_vars PROVE Counted'
<1>1. CASE UNCHANGED vars
  BY <1>1, SilentCounted DEF vars, services, history
<1>2. CASE Connect
  BY <1>2, ConnectCounted
<1>3. CASE NotConnected
  BY <1>3, SilentCounted DEF NotConnected, StopConnection
<1>4. CASE Reads
  <2>1. PICK bad \in BOOLEAN : Process(bad) /\ toHU # << >> /\ Alive
    BY <1>4 DEF Reads, ReadRest, ReadFrame, Waiting
  <2>2. QED
    BY <2>1, ProcessCounted
<1>5. CASE ReadPart \/ ReadError
  BY <1>5, SilentCounted DEF ReadPart, ReadError, services, history
<1>6. CASE \E type \in {"ping_request", "sensor"} : WriteOwn(type)
  BY <1>6, WriteOwnCounted
<1>7. CASE Take
  BY <1>7, TakeCounted
<1>8. CASE \E c \in Media : Move(c) \/ (\E s \in Sessions : Start(c, s)) \/ Data(c) \/ Stop(c)
  BY <1>8, MoveCounted, StartCounted, DataCounted, StopCounted
<1>9. CASE \E r \in Asks : Ask(r)
  BY <1>9, AskCounted
<1>10. CASE Plug \/ Unplug
  BY <1>10, PlugCounted, UnplugCounted
<1>11. QED
  BY <1>1, <1>2, <1>3, <1>4, <1>5, <1>6, <1>7, <1>8, <1>9, <1>10 DEF Next, Handler, Phone

(***************************************************************************)
(* In a session the phone is not sent more acknowledgements than media     *)
(* messages have been handled (aa_handler.rs:925-940), unless its number   *)
(* was still in use when the session began.                                *)
(***************************************************************************)
THEOREM AcksAreEarned == Spec => []AckedIsHandled
<1>1. Init => KeyInv /\ Waiting /\ Counted
  <2>1. Init => Counted
    BY DEF Init, NewPhone, Closed, Counted
  <2>2. QED
    BY <2>1, InitKeys
<1>2. (KeyInv /\ Waiting /\ Counted) /\ [Next]_vars => (KeyInv /\ Waiting /\ Counted)'
  BY NextKeys, WaitingKeeps, NextCounted
<1>3. KeyInv /\ Counted => AckedIsHandled
  <2> SUFFICES ASSUME KeyInv, Counted, ~again, NEW c \in Media, phone.ch[c].at = "started"
               PROVE  Acks(c) <= taken[c]
    BY DEF AckedIsHandled
  <2>1. PICK p \in 0..Len(toHU) : Fresh(c, p)
    BY DEF Counted, Ready
  <2>2. taken[c] \in Nat /\ (p = 0 \/ p > 0)
    BY DEF Counted, KeyInv, Typed
  <2>3. QED
    BY <2>1, <2>2 DEF Fresh
<1>4. QED
  BY <1>1, <1>2, <1>3, PTL DEF Spec

===============================================================================
