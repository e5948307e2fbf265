------------------------ MODULE AIBusDelivery_proofs ------------------------
(***************************************************************************)
(* Proofs about AIBusHandler for any number of devices, any scripts and    *)
(* any bounds: what becomes of a message that was written.  A resend       *)
(* request is answered with a message; an acknowledged message was read,   *)
(* and is not lost in the calls of its receiver; messages that were not    *)
(* repeated arrive in their order.                                         *)
(* The last three hold as long as a receiver can keep what it acknowledges *)
(* (CanKeep).                                                              *)
(***************************************************************************)
EXTENDS AIBusHandler_proofs

-----------------------------------------------------------------------------
(* Where the frames come from.                                             *)

Messages(d) == {Script[d][k] : k \in 1..Len(Script[d])}

\* Frames that a device may put on the bus: messages of its script, fragments of one,
\* and requests to resend a message to a device that gets split messages.
Real(f) ==
    /\ f.t = "msg" => f.s \in Devices /\ f \in Messages(f.s)
    /\ f.t = "frag" => f.s \in Devices /\ f.n > 1 /\ Splits(f.s, f.r)
    /\ f.t = "resend" => f.r \in Devices /\ (f.s \in Devices => Splits(f.r, f.s))
    /\ f.t = "ack" => f.s \in Devices
    /\ f.t \in {"ack", "resend"} => f.d = << >>

\* What d writes, and what it hears: never its own frames.
Own(d, f) == f.t # "bad" /\ f.s \in {d, Broadcast} /\ Real(f)
Foreigner(d, f) == f.s # d /\ Real(f)
Heard(d, f) == f.t # "bad" => Foreigner(d, f)

-----------------------------------------------------------------------------
(* The calls of a stack.                                                   *)

Pair(f) == <<f.s, f.r>>

\* A write of d; rep are the pairs for which frames were repeated.
WriteIs(d, c, rep) ==
    /\ Own(d, c.m)
    /\ c.pc = "group" => c.m.t = "msg" /\ Len(c.m.d) > 1
    /\ c.pc # "group" => Len(c.m.d) <= 1
    /\ c.pc = "drain" => ~c.ok
    /\ c.m.t = "ack" => ~c.ack /\ c.pc = "drain"
    /\ ~c.ack /\ c.m.t # "ack" => c.m.r = Broadcast \/ Pair(c.m) \in rep
    /\ c.tries > 0 => Pair(c.m) \in rep

\* A suspended read of d.
ReadIs(d, c) ==
    /\ c.pc = "ack" => c.m.r = d /\ c.m.t \notin {"ack", "bad"} /\ Foreigner(d, c.m)
    /\ c.pc = "loop" => c.m.r \in {d, Broadcast} /\ Foreigner(d, c.m)
    /\ c.pc = "enter" => c.m.t = "resend"
    /\ c.pc = "nodata" => c.m.t = "frag" \/ (c.m.t = "resend" /\ c.m.r = d /\ Foreigner(d, c.m))

CallIs(d, c, rep) ==
    /\ c.pc \in WritePC => WriteIs(d, c, rep)
    /\ c.pc \in ReadPC => ReadIs(d, c)

\* The calls that read, and a stack to which a read returns.
Reading == {"drain", "collect", "await", "loop"}
Reader(s) == s = << >> \/ Top(s).pc \in Reading

\* A call c of the program itself, out being the results of its writes: its read, or the
\* message it writes next.
Starts(d, c, out) ==
    /\ c.pc \in WritePC => /\ Len(out) < Len(Script[d])
                           /\ c.m = Script[d][Len(out) + 1]
                           /\ ~c.ack => c.m.r = Broadcast
    /\ c.pc = "enter" => c.cache

\* A call b that was made by the call a.
Made(d, a, b, rep) ==
    /\ b.pc \in ReadPC => a.pc \in Reading
    /\ b.pc = "enter" /\ b.cache => a.pc = "loop"
    /\ a.pc = "ack" => b.pc = "drain" /\ b.m = Ack(d, a.m.s)
    /\ a.pc \in {"enter", "nodata"} => b.pc \in WritePC
    /\ a.pc = "nodata" /\ a.m.t = "resend" /\ ~Splits(a.m.s, d) => b.m.t = "msg"
    /\ b.pc \in WritePC /\ b.m.t = "msg" => Pair(b.m) \in rep

Sound(d, s, rep, out) ==
    /\ \A p \in 1..Len(s) : CallIs(d, s[p], rep)
    /\ \A p \in 2..Len(s) : Made(d, s[p - 1], s[p], rep)
    /\ s # << >> => Starts(d, s[1], out)

Origin(d) ==
    /\ Sound(d, stack[d], repeated, outcome[d])
    /\ \A p \in 1..Len(rx[d]) : Heard(d, rx[d][p])
    /\ \A m \in tx[d] : Own(d, m) /\ m.t \in {"msg", "resend"}
    /\ \A p \in 1..Len(multi[d]) : Foreigner(d, multi[d][p]) /\ multi[d][p].r \in {d, Broadcast}
    /\ \A p \in 1..Len(cached[d]) : cached[d][p].t # "ack"

OriginInv == TypeOK /\ \A d \in Devices : Origin(d)

\* Changing the top of a stack is pushing on the rest.
LEMMA PushPop ==
    ASSUME NEW S, NEW s \in Seq(S), s # << >>, NEW c \in S
    PROVE  /\ s = Push(Pop(s), Top(s))
           /\ SetTop(s, c) = Push(Pop(s), c)
<1>1. /\ Len(s) \in Nat /\ Len(s) > 0 /\ Top(s) \in S
      /\ Pop(s) \in Seq(S) /\ Len(Pop(s)) = Len(s) - 1 /\ \A j \in 1..Len(s) - 1 : Pop(s)[j] = s[j]
  BY EmptySeq, LenProperties, TopProperties, PopProperties
<1>2. /\ SetTop(s, c) \in Seq(S) /\ Len(SetTop(s, c)) = Len(s) /\ SetTop(s, c)[Len(s)] = c
      /\ \A j \in 1..Len(s) - 1 : SetTop(s, c)[j] = s[j]
  <2> DEFINE u == SetTop(s, c)
  <2>1. /\ u \in Seq(S) /\ Len(u) = Len(s) /\ Top(u) = c
        /\ \A j \in 1..Len(s) - 1 : u[j] = s[j]
    BY SetTopProperties
  <2>2. Top(u) = u[Len(u)]
    BY DEF Top
  <2> HIDE DEF u
  <2>3. u[Len(s)] = c
    BY <2>1, <2>2
  <2> QED
    BY <2>1, <2>3 DEF u
<1>3. \A x \in S : /\ Push(Pop(s), x) \in Seq(S)
                   /\ Len(Push(Pop(s), x)) = Len(s)
                   /\ Push(Pop(s), x)[Len(s)] = x
                   /\ \A j \in 1..Len(s) - 1 : Push(Pop(s), x)[j] = s[j]
  <2> TAKE x \in S
  <2> DEFINE r == Pop(s)
             u == Push(r, x)
  <2>1. r \in Seq(S) /\ Len(r) = Len(s) - 1 /\ \A j \in 1..Len(s) - 1 : r[j] = s[j]
    BY <1>1
  <2> HIDE DEF r
  <2>2. u \in Seq(S) /\ Len(u) = Len(r) + 1 /\ u[Len(r) + 1] = x /\ \A j \in 1..Len(r) : u[j] = r[j]
    <3>1. u = Append(r, x) /\ r \in Seq(S) /\ x \in S
      BY <2>1 DEF Push
    <3> HIDE DEF u
    <3> QED
      BY <3>1, AppendProperties
  <2> HIDE DEF u
  <2>3. u \in Seq(S) /\ Len(u) = Len(s) /\ u[Len(s)] = x /\ \A j \in 1..Len(s) - 1 : u[j] = s[j]
    BY <1>1, <2>1, <2>2
  <2> QED
    BY <2>3 DEF r, u
<1>4. s[Len(s)] = Top(s)
  BY DEF Top
<1>5. \A j \in 1..Len(s) : /\ s[j] = Push(Pop(s), Top(s))[j]
                           /\ SetTop(s, c)[j] = Push(Pop(s), c)[j]
  <2> TAKE j \in 1..Len(s)
  <2>1. CASE j = Len(s)
    BY <1>1, <1>2, <1>3, <1>4, <2>1
  <2>2. CASE j # Len(s)
    <3>1. j \in 1..Len(s) - 1
      BY <1>1, <2>2
    <3> QED
      BY <1>1, <1>2, <1>3, <3>1
  <2> QED
    BY <2>1, <2>2
<1>6. s = Push(Pop(s), Top(s))
  BY <1>1, <1>3, <1>5, SeqEqual
<1>7. SetTop(s, c) = Push(Pop(s), c)
  BY <1>1, <1>2, <1>3, <1>5, SeqEqual
<1> QED
  BY <1>6, <1>7

\* What is true of a call stays true when more frames have been repeated.
LEMMA SoundMono ==
    ASSUME NEW d, NEW s, NEW out, NEW rep, NEW more, rep \subseteq more, Sound(d, s, rep, out)
    PROVE  Sound(d, s, more, out)
<1>1. ASSUME NEW c, CallIs(d, c, rep)
      PROVE  CallIs(d, c, more)
  BY <1>1 DEF CallIs, WriteIs
<1>2. ASSUME NEW a, NEW b, Made(d, a, b, rep)
      PROVE  Made(d, a, b, more)
  BY <1>2 DEF Made
<1> QED
  BY <1>1, <1>2 DEF Sound

LEMMA SoundPop ==
    ASSUME NEW d, NEW s \in Seq(Call), s # << >>, NEW rep, NEW out, Sound(d, s, rep, out)
    PROVE  /\ Sound(d, Pop(s), rep, out)
           /\ CallIs(d, Top(s), rep)
           /\ Pop(s) = << >> => Starts(d, Top(s), out)
           /\ Pop(s) # << >> => Made(d, Top(Pop(s)), Top(s), rep)
<1> DEFINE n == Len(s)
           t == Pop(s)
<1>1. n \in Nat /\ n > 0 /\ t \in Seq(Call) /\ Len(t) = n - 1 /\ \A j \in 1..n - 1 : t[j] = s[j]
  BY EmptySeq, LenProperties, PopProperties
<1>2. Top(s) = s[n] /\ Top(t) = t[Len(t)]
  BY DEF Top
<1>3. /\ \A p \in 1..n : CallIs(d, s[p], rep)
      /\ \A p \in 2..n : Made(d, s[p - 1], s[p], rep)
      /\ Starts(d, s[1], out)
  BY DEF Sound
<1>4. t # << >> => n > 1
  BY <1>1, EmptySeq
<1>5. t = << >> => n = 1
  BY <1>1
<1> HIDE DEF n, t
<1>6. \A p \in 1..Len(t) : CallIs(d, t[p], rep)
  BY <1>1, <1>3
<1>7. \A p \in 2..Len(t) : Made(d, t[p - 1], t[p], rep)
  <2> TAKE p \in 2..Len(t)
  <2>1. p \in 2..n /\ t[p] = s[p] /\ t[p - 1] = s[p - 1]
    BY <1>1
  <2> QED
    BY <1>3, <2>1
<1>8. t # << >> => Starts(d, t[1], out)
  BY <1>1, <1>3, <1>4
<1>9. CallIs(d, s[n], rep)
  BY <1>1, <1>3
<1>10. t # << >> => Made(d, t[n - 1], s[n], rep)
  <2> SUFFICES ASSUME t # << >> PROVE Made(d, t[n - 1], s[n], rep)
    OBVIOUS
  <2>1. n \in 2..n /\ t[n - 1] = s[n - 1]
    BY <1>1, <1>4
  <2> QED
    BY <1>3, <2>1
<1>11. Sound(d, t, rep, out)
  BY <1>6, <1>7, <1>8 DEF Sound
<1> QED
  BY <1>1, <1>2, <1>3, <1>5, <1>9, <1>10, <1>11 DEF t

LEMMA SoundPush ==
    ASSUME NEW d, NEW s \in Seq(Call), NEW c \in Call, NEW rep, NEW out, Sound(d, s, rep, out),
           CallIs(d, c, rep),
           s = << >> => Starts(d, c, out),
           s # << >> => Made(d, Top(s), c, rep)
    PROVE  Sound(d, Push(s, c), rep, out)
<1> DEFINE n == Len(s)
           t == Push(s, c)
<1>1. n \in Nat /\ t \in Seq(Call) /\ Len(t) = n + 1 /\ t[n + 1] = c /\ \A j \in 1..n : t[j] = s[j]
  BY LenProperties, PushProperties
<1>2. Top(s) = s[n] /\ (s = << >> <=> n = 0)
  BY <1>1, EmptySeq DEF Top
<1>3. /\ \A p \in 1..n : CallIs(d, s[p], rep)
      /\ \A p \in 2..n : Made(d, s[p - 1], s[p], rep)
      /\ s # << >> => Starts(d, s[1], out)
  BY DEF Sound
<1> HIDE DEF n, t
<1>4. ASSUME NEW p \in 1..Len(t)
      PROVE  CallIs(d, t[p], rep)
  <2>1. p = n + 1 \/ p \in 1..n
    BY <1>1
  <2> QED
    BY <1>1, <1>3, <2>1
<1>5. ASSUME NEW p \in 2..Len(t)
      PROVE  Made(d, t[p - 1], t[p], rep)
  <2>1. CASE p = n + 1
    <3>1. n > 0 /\ t[p] = c /\ t[p - 1] = s[n]
      BY <1>1, <2>1
    <3> QED
      BY <1>2, <3>1
  <2>2. CASE p # n + 1
    <3>1. p \in 2..n /\ t[p] = s[p] /\ t[p - 1] = s[p - 1]
      BY <1>1, <2>2
    <3> QED
      BY <1>3, <3>1
  <2> QED
    BY <2>1, <2>2
<1>6. Starts(d, t[1], out)
  <2>1. CASE n = 0
    BY <1>1, <1>2, <2>1
  <2>2. CASE n # 0
    BY <1>1, <1>2, <1>3, <2>2
  <2> QED
    BY <2>1, <2>2
<1>7. Sound(d, t, rep, out)
  BY <1>4, <1>5, <1>6 DEF Sound
<1> QED
  BY <1>7 DEF t

\* The top moves on: it stays the same kind of call, with the same frame.
LEMMA SoundSetTop ==
    ASSUME NEW d, NEW s \in Seq(Call), s # << >>, NEW rep, NEW out, Sound(d, s, rep, out),
           NEW c \in Call, CallIs(d, c, rep), c.m = Top(s).m, c.pc # "enter",
           c.pc \in WritePC => Top(s).pc \in WritePC /\ c.ack = Top(s).ack,
           c.pc \in ReadPC => Top(s).pc \in ReadPC,
           c.pc = Top(s).pc \/ c.m.t # "ack"
    PROVE  Sound(d, SetTop(s, c), rep, out)
<1> DEFINE b == Top(s)
<1>1. /\ Pop(s) \in Seq(Call) /\ SetTop(s, c) = Push(Pop(s), c)
      /\ Sound(d, Pop(s), rep, out)
      /\ Pop(s) = << >> => Starts(d, b, out)
      /\ Pop(s) # << >> => Made(d, Top(Pop(s)), b, rep)
  BY PushPop, PopProperties, SoundPop
<1>2. Starts(d, b, out) => Starts(d, c, out)
  BY DEF Starts
<1>3. ASSUME NEW a, Made(d, a, b, rep)
      PROVE  Made(d, a, c, rep)
  <2>1. a.pc = "ack" => c.pc = "drain" /\ c.m = Ack(d, a.m.s)
    BY <1>3 DEF Made, Ack, Short
  <2>2. c.pc \in WritePC \union ReadPC
    BY CallKinds
  <2>3. b.pc \in WritePC => b.pc \notin ReadPC
    BY DEF WritePC, ReadPC
  <2> QED
    BY <1>3, <2>1, <2>2, <2>3 DEF Made
<1> HIDE DEF b
<1> QED
  BY <1>1, <1>2, <1>3, SoundPush


-----------------------------------------------------------------------------
(* Returning from a read.                                                  *)

\* The stack to which a read returns: without the record of the read, if it had one.  A
\* drain loop notes that it has read.
Resumable(s, b) ==
    \/ b = s /\ Reader(s)
    \/ /\ s # << >> /\ Top(s).pc = "drain"
       /\ b = SetTop(s, [Top(s) EXCEPT !.k = 1])
    \/ s # << >> /\ Top(s).pc \in {"enter", "ack", "loop"} /\ b = Pop(s)

LEMMA DrainNotes ==
    ASSUME NEW c \in Call, c.pc = "drain"
    PROVE  /\ [c EXCEPT !.k = 1] \in Call
           /\ \A f \in {"pc", "m", "ack", "tries", "ok"} : [c EXCEPT !.k = 1][f] = c[f]
BY CallKinds DEF WriteRecord, WritePC, Call

LEMMA ReadBack ==
    ASSUME TypeOK, NEW d \in Devices, Reads(d)
    PROVE  Resumable(stack[d], Base(d))
BY DEF Reads, Base, TopIs, Resumable, Reader, Reading

LEMMA ResumableSound ==
    ASSUME NEW d, NEW s \in Seq(Call), NEW b, Resumable(s, b),
           NEW rep, NEW out, Sound(d, s, rep, out)
    PROVE  b \in Seq(Call) /\ Sound(d, b, rep, out) /\ Reader(b)
<1> DEFINE c == Top(s)
<1>1. CASE b = s /\ Reader(s)
  BY <1>1
<1>2. CASE s # << >> /\ c.pc = "drain" /\ b = SetTop(s, [c EXCEPT !.k = 1])
  <2> DEFINE e == [c EXCEPT !.k = 1]
  <2>1. c \in Call /\ CallIs(d, c, rep)
    BY <1>2, TopProperties, SoundPop
  <2>2. e \in Call /\ e.pc = "drain" /\ e.m = c.m /\ e.ack = c.ack /\ e.tries = c.tries /\ e.ok = c.ok
    <3> HIDE DEF c
    <3> QED
      BY <1>2, <2>1, DrainNotes
  <2> HIDE DEF e
  <2>3. CallIs(d, e, rep)
    <3>1. e.pc \in WritePC /\ e.pc \notin ReadPC
      BY <2>2 DEF WritePC, ReadPC
    <3>2. WriteIs(d, c, rep)
      BY <1>2, <2>1 DEF CallIs, WritePC
    <3> HIDE DEF c
    <3> QED
      BY <1>2, <2>2, <3>1, <3>2 DEF CallIs, WriteIs
  <2>4. Sound(d, SetTop(s, e), rep, out)
    BY <1>2, <2>1, <2>2, <2>3, SoundSetTop DEF WritePC, ReadPC
  <2>5. SetTop(s, e) \in Seq(Call) /\ Len(SetTop(s, e)) = Len(s) /\ Top(SetTop(s, e)) = e
    BY <1>2, <2>2, SetTopProperties
  <2> QED
    BY <1>2, <2>2, <2>4, <2>5 DEF e, Reader, Reading
<1>3. CASE s # << >> /\ c.pc \in {"enter", "ack", "loop"} /\ b = Pop(s)
  BY <1>3, PopProperties, SoundPop DEF Reader, Made, ReadPC
<1> QED
  BY <1>1, <1>2, <1>3 DEF Resumable

\* What the caller makes of a message that a read returns.
LEMMA ResumeForms ==
    ASSUME NEW s \in Seq(Call), NEW x \in Frame
    PROVE  \/ ResumeStack(s, x) = s
           \/ /\ s # << >>
              /\ \E c \in Call :
                    /\ ResumeStack(s, x) = SetTop(s, c)
                    /\ c.pc = Top(s).pc /\ c.m = Top(s).m
                    /\ \/ /\ c.pc \in {"collect", "await"} /\ IsAckFor(Top(s), x)
                          /\ c.ack = Top(s).ack /\ c.tries = Top(s).tries /\ c.ok
                       \/ c.pc = "loop"
<1>1. CASE s = << >>
  BY <1>1 DEF ResumeStack
<1>2. CASE s # << >>
  <2> DEFINE t == Top(s)
             e == [t EXCEPT !.ok = TRUE]
             g == [t EXCEPT !.got[x.i + 1] = x.d[1], !.k = t.k + 1]
  <2>1. t \in Call
    BY <1>2, TopProperties
  <2>2. CASE t.pc \in {"collect", "await"} /\ IsAckFor(t, x)
    <3>1. ResumeStack(s, x) = SetTop(s, e)
      BY <1>2, <2>2 DEF ResumeStack
    <3>2. /\ e \in Call /\ e.pc = t.pc /\ e.m = t.m /\ e.ack = t.ack /\ e.tries = t.tries /\ e.ok
      <4> HIDE DEF t
      <4> QED
        BY <2>1, <2>2, CallKinds DEF WritePC, WriteRecord, Call
    <3> HIDE DEF e
    <3> QED
      BY <1>2, <2>2, <3>1, <3>2
  <2>3. CASE ~(t.pc \in {"collect", "await"} /\ IsAckFor(t, x)) /\ t.pc = "loop" /\ Continues(t, x) /\ x.i >= t.k
    <3>1. ResumeStack(s, x) = SetTop(s, g)
      BY <1>2, <2>3 DEF ResumeStack
    <3>2. SetTop(s, g) \in Seq(Call)
      BY <3>1, ResumeStackType
    <3>3. g \in Call
      <4>1. SetTop(s, g)[Len(s)] = g /\ Len(SetTop(s, g)) = Len(s) /\ Len(s) \in 1..Len(s)
        <5> HIDE DEF g
        <5> QED
          BY <1>2, EmptySeq, LenProperties DEF SetTop
      <4> HIDE DEF g
      <4> QED
        BY <3>2, <4>1, ElementOfSeq
    <3>4. g.pc = t.pc /\ g.m = t.m
      <4>1. t \in ReadRecord
        BY <2>1, <2>3, CallKinds DEF ReadPC
      <4> HIDE DEF t
      <4> QED
        BY <4>1 DEF ReadRecord
    <3> HIDE DEF g
    <3> QED
      BY <1>2, <2>3, <3>1, <3>3, <3>4
  <2>4. CASE ~(t.pc \in {"collect", "await"} /\ IsAckFor(t, x)) /\ ~(t.pc = "loop" /\ Continues(t, x) /\ x.i >= t.k)
    BY <1>2, <2>4 DEF ResumeStack
  <2> QED
    BY <2>2, <2>3, <2>4
<1> QED
  BY <1>1, <1>2

LEMMA ResumeSound ==
    ASSUME NEW d, NEW s \in Seq(Call), NEW x \in Frame, NEW rep, NEW out, Sound(d, s, rep, out)
    PROVE  Sound(d, ResumeStack(s, x), rep, out)
<1>1. CASE ResumeStack(s, x) = s
  BY <1>1
<1>2. ASSUME s # << >>, NEW c \in Call, ResumeStack(s, x) = SetTop(s, c),
             c.pc = Top(s).pc, c.m = Top(s).m,
             \/ /\ c.pc \in {"collect", "await"}
                /\ c.ack = Top(s).ack /\ c.tries = Top(s).tries
             \/ c.pc = "loop"
      PROVE  Sound(d, ResumeStack(s, x), rep, out)
  <2>1. CallIs(d, Top(s), rep)
    BY <1>2, SoundPop
  <2>2. CallIs(d, c, rep)
    <3>1. CASE c.pc \in {"collect", "await"} /\ c.ack = Top(s).ack /\ c.tries = Top(s).tries
      <4>1. c.pc \in WritePC /\ c.pc \notin ReadPC /\ c.pc \notin {"group", "drain"}
        BY <3>1 DEF WritePC, ReadPC
      <4>2. WriteIs(d, Top(s), rep)
        BY <1>2, <2>1, <4>1 DEF CallIs
      <4> QED
        BY <1>2, <3>1, <4>1, <4>2 DEF CallIs, WriteIs
    <3>2. CASE c.pc = "loop"
      <4>1. c.pc \in ReadPC /\ c.pc \notin WritePC
        BY <3>2 DEF WritePC, ReadPC
      <4> QED
        BY <1>2, <2>1, <3>2, <4>1 DEF CallIs, ReadIs
    <3> QED
      BY <1>2, <3>1, <3>2
  <2>3. c.pc # "enter" /\ (c.pc \in WritePC => c.ack = Top(s).ack)
    BY <1>2 DEF WritePC
  <2> QED
    BY <1>2, <2>2, <2>3, SoundSetTop
<1> QED
  BY <1>1, <1>2, ResumeForms


-----------------------------------------------------------------------------
(* What a step of a read does.                                             *)

\* The read has got a frame that it must acknowledge.
Taken(d, b) ==
    /\ ~TopIs(d, {"ack"})
    /\ rx[d] # << >>
    /\ rx' = [rx EXCEPT ![d] = Tail(rx[d])]
    /\ Head(rx[d]).r = d /\ Head(rx[d]).t \notin {"ack", "bad"} /\ Foreigner(d, Head(rx[d]))
    /\ b = << >> => cached[d] = << >>
    /\ \E r \in Call :
          /\ r.pc = "ack" /\ r.m = Head(rx[d])
          /\ stack' = [stack EXCEPT ![d] = Push(Push(b, r), WriteCall(Ack(d, Head(rx[d]).s), FALSE))]
    /\ UNCHANGED <<cached, inbox, repeated>>

\* Where a read has a message from, and what it leaves in cached_vec.
FromCache(d, b, c, x) ==
    /\ ~TopIs(d, {"ack"})
    /\ cached[d] # << >>
    /\ x = Head(cached[d]) /\ c = Tail(cached[d])
    /\ b = << >> \/ Top(b).pc = "loop"
    /\ UNCHANGED rx
FromBus(d, c, x) ==
    /\ ~TopIs(d, {"ack"})
    /\ c = cached[d]
    /\ rx[d] # << >>
    /\ x = Head(rx[d])
    /\ rx' = [rx EXCEPT ![d] = Tail(rx[d])]
    /\ x.t # "bad" /\ (x.t = "ack" \/ x.r # d)
FromCall(d, b, c, x) ==
    /\ TopIs(d, {"ack"})
    /\ c = cached[d]
    /\ x = Top(stack[d]).m
    /\ b = Pop(stack[d])
    /\ UNCHANGED rx
FragmentRead(d) ==
    /\ TopIs(d, {"ack"}) => Top(stack[d]).m.t # "msg"
    /\ \/ UNCHANGED rx
       \/ rx[d] # << >> /\ Head(rx[d]).t = "frag" /\ rx' = [rx EXCEPT ![d] = Tail(rx[d])]
Joined(d, c, x) ==
    /\ c = cached[d]
    /\ x.t = "msg"
    /\ Len(x.d) > 1 \/ TopIs(d, {"loop"})
    /\ FragmentRead(d)

Returned(d, b) ==
    /\ \E c, x : /\ x \in Frame
                 /\ ReturnMessage(d, b, c, x)
                 /\ FromCache(d, b, c, x) \/ FromBus(d, c, x) \/ FromCall(d, b, c, x) \/ Joined(d, c, x)
    /\ UNCHANGED repeated

\* A read r on the stack b, suspended for the write of m.
Suspended(d, b, r, m) ==
    /\ r \in Call /\ r.pc \in {"enter", "nodata"} /\ ReadIs(d, r)
    /\ r.pc = "enter" /\ r.cache => b = << >> \/ Top(b).pc = "loop"
    /\ r.pc = "enter" /\ b = << >> => r.cache
    /\ m \in Frame /\ Own(d, m) /\ m.t \in {"msg", "resend"}
    /\ m.t = "msg" => Pair(m) \in repeated'
    /\ r.pc = "nodata" /\ r.m.t = "resend" /\ ~Splits(r.m.s, d) => m.t = "msg"

\* The read returns nothing, begins the loop over the fragments, or asks for a message or
\* sends one again.
Skipped(d, b) ==
    /\ UNCHANGED <<cached, inbox>>
    /\ FragmentRead(d) \/ (rx[d] # << >> /\ Head(rx[d]).t = "bad" /\ rx' = [rx EXCEPT ![d] = << >>])
    /\ TopIs(d, {"ack"}) => Top(stack[d]).m.t # "msg"
    /\ \/ stack' = [stack EXCEPT ![d] = b]
       \/ \E c \in Call : c.pc = "loop" /\ ReadIs(d, c) /\ stack' = [stack EXCEPT ![d] = Push(b, c)]
       \/ \E r, m : /\ Suspended(d, b, r, m)
                    /\ stack' = [stack EXCEPT ![d] = Push(Push(b, r), WriteCall(m, TRUE))]

ReadShape(d) ==
    /\ \E b : Resumable(stack[d], b) /\ (Taken(d, b) \/ Returned(d, b) \/ Skipped(d, b))
    /\ repeated \subseteq repeated'
    /\ UNCHANGED <<outcome, losses>>

\* What tx_vec and multi_cache of d hold, and that a step of d leaves those of others.
Stored(d) ==
    /\ \A m \in tx[d] : Own(d, m) /\ m.t \in {"msg", "resend"}
    /\ \A p \in 1..Len(multi[d]) : Foreigner(d, multi[d][p]) /\ multi[d][p].r \in {d, Broadcast}
StoreKept(d) == \A e \in Others(d) : tx'[e] = tx[e] /\ multi'[e] = multi[e]

LEMMA RememberOwn ==
    ASSUME TypeOK, NEW d \in Devices, Stored(d), NEW m \in Frame, Own(d, m)
    PROVE  \A x \in Remember(d, m) : Own(d, x) /\ x.t \in {"msg", "resend"}
<1>1. Remember(d, m) \subseteq tx[d] \/ (m.t \notin {"ack", "frag"} /\ Remember(d, m) \subseteq tx[d] \union {m})
  BY DEF Remember
<1>2. m.t \in {"msg", "frag", "ack", "resend", "bad"} /\ m.t # "bad"
  BY DEF Own, Frame
<1> QED
  BY <1>1, <1>2 DEF Stored

\* Reading a fragment.
LEMMA ReadFragmentShape ==
    ASSUME TypeOK, NEW d \in Devices, Stored(d), NEW b \in Seq(Call), NEW f \in Fragments,
           Foreigner(d, f), f.r \in {d, Broadcast},
           NEW flags \in [cache : BOOLEAN, multi : BOOLEAN],
           FragmentRead(d), ReadFragment(d, b, f, flags), UNCHANGED <<tx, repeated>>
    PROVE  (Returned(d, b) \/ Skipped(d, b)) /\ Stored(d)' /\ StoreKept(d)
<1> DEFINE frags == Append(multi[d], f)
           loop == [ReadCall("loop", f, flags) EXCEPT
                      !.k = 1, !.got = [p \in 1..f.n |-> IF p = 1 THEN f.d[1] ELSE Junk]]
           whole == WholeMessage(f, [p \in 1..frags[1].n |-> AssembledSlot(frags, f, p - 1)])
<1>1. multi \in [Devices -> Seq(Fragments)] /\ tx \in [Devices -> SUBSET Frame]
  BY DEF TypeOK
<1>2. /\ frags \in Seq(Fragments) /\ Len(frags) = Len(multi[d]) + 1 /\ Len(multi[d]) \in Nat
      /\ frags[Len(multi[d]) + 1] = f
      /\ \A p \in 1..Len(multi[d]) : frags[p] = multi[d][p]
  BY <1>1, AppendProperties, LenProperties
<1>3. \A p \in 1..Len(frags) : Foreigner(d, frags[p]) /\ frags[p].r \in {d, Broadcast}
  <2> TAKE p \in 1..Len(frags)
  <2>1. p = Len(multi[d]) + 1 \/ p \in 1..Len(multi[d])
    BY <1>2
  <2> HIDE DEF frags
  <2> QED
    BY <1>2, <2>1 DEF Stored
<1>4. frags[1] \in Fragments /\ Foreigner(d, frags[1])
  <2> HIDE DEF frags
  <2>1. 1 \in 1..Len(frags)
    BY <1>2
  <2> QED
    BY <1>2, <1>3, <2>1, ElementOfSeq
<1>5. CASE /\ multi' = multi
           /\ ReturnNoData(d, b) \/ ReturnNoData(d, Push(b, loop))
  <2>1. loop \in Call
    BY LoopStartType
  <2>2. loop.pc = "loop" /\ loop.m = f
    BY DEF ReadCall
  <2> HIDE DEF loop
  <2>3. ReadIs(d, loop)
    BY <2>2 DEF ReadIs
  <2>4. Skipped(d, b)
    BY <1>5, <2>1, <2>2, <2>3 DEF Skipped, ReturnNoData, FragmentRead
  <2> QED
    BY <1>5, <2>4 DEF Stored, StoreKept
<1>6. CASE multi' = [multi EXCEPT ![d] = frags] /\ ReturnNoData(d, b)
  <2> HIDE DEF frags
  <2>1. Skipped(d, b)
    BY <1>6 DEF Skipped, ReturnNoData, FragmentRead
  <2> QED
    BY <1>1, <1>3, <1>6, <2>1 DEF Stored, StoreKept, Others
<1>7. CASE multi' = [multi EXCEPT ![d] = << >>] /\ ReturnMessage(d, b, cached[d], whole)
  <2>1. whole \in Frame
    BY <1>1, AssembledType
  <2>2. whole.t = "msg" /\ Len(whole.d) > 1
    <3> DEFINE n == frags[1].n
               data == [p \in 1..n |-> AssembledSlot(frags, f, p - 1)]
    <3>1. n \in Nat /\ n > 1
      <4> HIDE DEF frags
      <4> QED
        BY <1>4 DEF Fragments, Frame, Foreigner, Real
    <3>2. whole.t = "msg" /\ whole.d = data
      BY DEF WholeMessage
    <3>3. data \in Seq(Unit)
      BY <2>1, <3>2 DEF Frame
    <3>4. DOMAIN data = 1..n /\ DOMAIN data = 1..Len(data) /\ Len(data) \in Nat
      <4>1. DOMAIN data = 1..n
        OBVIOUS
      <4> HIDE DEF data
      <4> QED
        BY <3>3, <4>1, LenProperties
    <3> HIDE DEF whole, data, n
    <3>5. Len(data) = n
      BY <3>1, <3>4
    <3> QED
      BY <3>1, <3>2, <3>5
  <2> HIDE DEF whole
  <2>3. Joined(d, cached[d], whole)
    BY <2>2 DEF Joined
  <2>4. Returned(d, b)
    BY <1>7, <2>1, <2>3 DEF Returned
  <2> QED
    BY <1>1, <1>7, <2>4 DEF Stored, StoreKept, Others
<1> QED
  BY <1>5, <1>6, <1>7 DEF ReadFragment


\* The rest of a read, once the frame is acknowledged if it had to be.
LEMMA AcceptShape ==
    ASSUME TypeOK, NEW d \in Devices, Stored(d), NEW b \in Seq(Call), NEW f \in Frame,
           f.t # "bad", Foreigner(d, f),
           NEW flags \in [cache : BOOLEAN, multi : BOOLEAN],
           \/ FromBus(d, cached[d], f)
           \/ FromCall(d, b, cached[d], f) /\ f.r = d,
           Accept(d, b, f, flags)
    PROVE  /\ Returned(d, b) \/ Skipped(d, b)
           /\ Stored(d)' /\ StoreKept(d) /\ repeated \subseteq repeated'
<1>1. tx \in [Devices -> SUBSET Frame]
  BY DEF TypeOK
<1>2. CASE f.t = "resend" /\ f.r = d
  <2> DEFINE last == {m \in tx[d] : m.r = f.s /\ m.s = f.r}
  <2>1. UNCHANGED multi /\ repeated \subseteq repeated'
    BY <1>2 DEF Accept
  <2>2. FragmentRead(d) /\ (TopIs(d, {"ack"}) => Top(stack[d]).m.t # "msg")
    BY <1>2 DEF FromBus, FromCall, FragmentRead
  <2>3. CASE last = {}
    <3>1. ReturnNoData(d, b) /\ UNCHANGED tx
      BY <1>2, <2>3 DEF Accept
    <3> QED
      BY <2>1, <2>2, <3>1 DEF Skipped, ReturnNoData, Stored, StoreKept
  <2>4. CASE last # {}
    <3> DEFINE m == CHOOSE m \in last : TRUE
               call == ReadCall("nodata", f, flags)
    <3>1. m \in last
      BY <2>4
    <3>2. m \in Frame /\ Own(d, m) /\ m.t \in {"msg", "resend"} /\ m.r = f.s /\ m.s = f.r
      BY <1>1, <3>1 DEF Stored
    <3>3. /\ ReturnNoData(d, Push(Push(b, call), WriteCall(m, TRUE)))
          /\ tx' = [tx EXCEPT ![d] = Remember(d, m)]
          /\ repeated' = repeated \union {<<f.r, f.s>>}
      BY <1>2, <2>4 DEF Accept
    <3> HIDE DEF m
    <3>4. Remember(d, m) \in SUBSET Frame /\ \A x \in Remember(d, m) : Own(d, x) /\ x.t \in {"msg", "resend"}
      BY <3>2, RememberType, RememberOwn
    <3>5. call \in Call /\ call.pc = "nodata" /\ call.m = f
      BY ReadCallType DEF ReadCall
    <3> HIDE DEF call
    <3>6. ReadIs(d, call)
      BY <1>2, <3>5 DEF ReadIs
    <3>7. m.t = "resend" => Splits(f.s, d)
      BY <1>2, <3>2 DEF Own, Real
    <3>8. Suspended(d, b, call, m)
      BY <1>2, <3>2, <3>3, <3>5, <3>6, <3>7 DEF Suspended, Pair
    <3>9. Skipped(d, b)
      BY <2>2, <3>3, <3>8 DEF Skipped, ReturnNoData
    <3>10. Stored(d)' /\ StoreKept(d)
      BY <1>1, <2>1, <3>3, <3>4 DEF Stored, StoreKept, Others
    <3> QED
      BY <2>1, <3>9, <3>10
  <2> QED
    BY <2>3, <2>4
<1>3. CASE ~(f.t = "resend" /\ f.r = d)
  <2>1. UNCHANGED <<tx, repeated>>
    BY <1>3 DEF Accept
  <2>2. CASE f.t = "frag" /\ flags.multi /\ f.r \in {d, Broadcast}
    <3>1. ReadFragment(d, b, f, flags) /\ f \in Fragments
      BY <1>3, <2>2 DEF Accept, Fragments
    <3>2. FragmentRead(d)
      BY <2>2 DEF FromBus, FromCall, FragmentRead
    <3> QED
      BY <2>1, <2>2, <3>1, <3>2, ReadFragmentShape
  <2>3. CASE ~(f.t = "frag" /\ flags.multi /\ f.r \in {d, Broadcast})
    <3>1. ReturnMessage(d, b, cached[d], f) /\ UNCHANGED multi
      BY <1>3, <2>3 DEF Accept
    <3> QED
      BY <2>1, <3>1 DEF Returned, Stored, StoreKept
  <2> QED
    BY <2>2, <2>3
<1> QED
  BY <1>2, <1>3

\* One lemma per action.
LEMMA OriginParts ==
    ASSUME NEW d, Origin(d)
    PROVE  Stored(d) /\ Sound(d, stack[d], repeated, outcome[d])
BY DEF Origin, Stored

\* A request to resend a split message whose fragments s sent to r.
LEMMA ResendReal ==
    ASSUME NEW d \in Devices, NEW f \in Fragments, Foreigner(d, f), f.r \in {d, Broadcast}
    PROVE  /\ ResendMsg(f.r, f.s) \in Frame
           /\ Own(d, ResendMsg(f.r, f.s))
           /\ ResendMsg(f.r, f.s).t = "resend"
BY ShortType DEF Own, Real, Foreigner, Splits, ResendMsg, Short, Fragments, Frame, Addresses

\* cached_vec is read by the program itself and by the loop over fragments, and only there.
LEMMA CacheBase ==
    ASSUME TypeOK, NEW d \in Devices, Origin(d), Reads(d)
    PROVE  /\ Flags(d).cache => Base(d) = << >> \/ Top(Base(d)).pc = "loop"
           /\ Base(d) = << >> => Flags(d).cache
<1>1. stack[d] \in Seq(Call)
  BY DEF TypeOK
<1>2. CASE TopIs(d, {"drain"})
  <2>1. /\ Base(d) = SetTop(stack[d], [Top(stack[d]) EXCEPT !.k = 1])
        /\ [Top(stack[d]) EXCEPT !.k = 1] \in Call
        /\ Flags(d) = [cache |-> FALSE, multi |-> TRUE]
    BY <1>1, <1>2, DrainNotes, TopProperties DEF Base, Flags, TopIs
  <2>2. Len(Base(d)) = Len(stack[d]) /\ Len(stack[d]) # 0
    BY <1>1, <1>2, <2>1, SetTopProperties, EmptySeq DEF TopIs
  <2> QED
    BY <2>1, <2>2
<1>3. CASE TopIs(d, {"enter"})
  <2>1. /\ Base(d) = Pop(stack[d]) /\ Flags(d).cache = Top(stack[d]).cache
        /\ stack[d] # << >> /\ Top(stack[d]).pc = "enter"
    BY <1>3 DEF Base, Flags, TopIs
  <2>2. /\ Pop(stack[d]) = << >> => Starts(d, Top(stack[d]), outcome[d])
        /\ Pop(stack[d]) # << >> => Made(d, Top(Pop(stack[d])), Top(stack[d]), repeated)
    BY <1>1, <2>1, SoundPop DEF Origin
  <2> QED
    BY <2>1, <2>2 DEF Starts, Made
<1>4. CASE ~TopIs(d, {"drain"}) /\ ~TopIs(d, {"enter"})
  BY <1>4 DEF Flags, Base, TopIs
<1> QED
  BY <1>2, <1>3, <1>4

LEMMA ExpireMultiShape ==
    ASSUME TypeOK, NEW d \in Devices, Origin(d), ExpireMulti(d)
    PROVE  ReadShape(d) /\ Stored(d)' /\ StoreKept(d)
<1> DEFINE f == multi[d][1]
           m == ResendMsg(d, f.s)
           call == ReadCall("enter", m, Flags(d))
<1>1. /\ Reads(d) /\ ~TopIs(d, {"enter"})
      /\ Flags(d) \in [cache : BOOLEAN, multi : BOOLEAN]
      /\ Resumable(stack[d], Base(d))
      /\ tx \in [Devices -> SUBSET Frame] /\ multi \in [Devices -> Seq(Fragments)]
  BY ReadContextType, ReadBack DEF ExpireMulti, TypeOK
<1>2. multi[d] \in Seq(Fragments) /\ multi[d] # << >>
  BY DEF ExpireMulti, TypeOK
<1>3. f \in Fragments /\ Foreigner(d, f) /\ f.r \in {d, Broadcast}
  <2>1. 1 \in 1..Len(multi[d])
    BY <1>2, EmptySeq, LenProperties
  <2> QED
    BY <1>2, <2>1, ElementOfSeq DEF Origin
<1>4. /\ multi' = [multi EXCEPT ![d] = << >>]
      /\ IF f.r = d
         THEN /\ stack' = [stack EXCEPT ![d] = Push(Push(Base(d), call), WriteCall(m, TRUE))]
              /\ tx' = [tx EXCEPT ![d] = Remember(d, m)]
         ELSE UNCHANGED <<stack, tx>>
      /\ UNCHANGED <<rx, cached, inbox, outcome, repeated, losses>>
  BY DEF ExpireMulti
<1>5. FragmentRead(d) /\ ~TopIs(d, {"ack"})
  BY <1>1, <1>4 DEF Reads, TopIs, FragmentRead
<1>6. StoreKept(d) /\ \A p \in 1..Len(multi'[d]) : FALSE
  <2>1. multi'[d] = << >> /\ Len(<< >>) = 0
    BY <1>1, <1>4
  <2>2. \A p \in 1..Len(multi'[d]) : FALSE
    BY <2>1
  <2>3. \A e \in Others(d) : tx'[e] = tx[e] /\ multi'[e] = multi[e]
    BY <1>1, <1>4 DEF Others
  <2> QED
    BY <2>2, <2>3 DEF StoreKept
<1>7. CASE f.r = d
  <2>1. m \in Frame /\ Own(d, m) /\ m.t = "resend"
    <3> HIDE DEF f
    <3> QED
      BY <1>3, <1>7, ResendReal
  <2>2. call \in Call /\ call.pc = "enter" /\ call.m = m /\ call.cache = Flags(d).cache
    <3> HIDE DEF m
    <3> QED
      BY <1>1, <2>1, ReadCallType DEF ReadCall
  <2>3. /\ stack' = [stack EXCEPT ![d] = Push(Push(Base(d), call), WriteCall(m, TRUE))]
        /\ tx' = [tx EXCEPT ![d] = Remember(d, m)]
    BY <1>4, <1>7
  <2> HIDE DEF m, call, f
  <2>4. ReadIs(d, call)
    BY <2>1, <2>2 DEF ReadIs
  <2>5. /\ Flags(d).cache => Base(d) = << >> \/ Top(Base(d)).pc = "loop"
        /\ Base(d) = << >> => Flags(d).cache
    BY <1>1, CacheBase
  <2>6. Suspended(d, Base(d), call, m)
    BY <2>1, <2>2, <2>4, <2>5 DEF Suspended
  <2>7. Skipped(d, Base(d))
    BY <1>4, <1>5, <2>3, <2>6 DEF Skipped
  <2>8. \A x \in Remember(d, m) : Own(d, x) /\ x.t \in {"msg", "resend"}
    BY <2>1, RememberOwn, OriginParts
  <2>9. Stored(d)'
    BY <1>1, <1>6, <2>3, <2>8 DEF Stored
  <2> QED
    BY <1>1, <1>4, <1>6, <2>7, <2>9 DEF ReadShape
<1>8. CASE f.r # d
  <2>1. UNCHANGED <<stack, tx>>
    BY <1>4, <1>8
  <2>2. Resumable(stack[d], stack[d])
    BY <1>1 DEF Reads, TopIs, Resumable, Reader, Reading
  <2>3. stack' = [stack EXCEPT ![d] = stack[d]]
    BY <2>1 DEF TypeOK
  <2>4. Skipped(d, stack[d])
    BY <1>4, <1>5, <2>3 DEF Skipped
  <2>5. Stored(d)'
    BY <1>6, <2>1, OriginParts DEF Stored
  <2> QED
    BY <1>4, <1>6, <2>2, <2>4, <2>5 DEF ReadShape
<1> QED
  BY <1>7, <1>8


LEMMA ReadCachedShape ==
    ASSUME TypeOK, NEW d \in Devices, Origin(d), ReadCached(d)
    PROVE  ReadShape(d) /\ Stored(d)' /\ StoreKept(d)
<1>1. /\ Reads(d) /\ Flags(d).cache /\ cached[d] # << >> /\ cached[d] \in Seq(Frame)
      /\ ReturnMessage(d, Base(d), Tail(cached[d]), Head(cached[d]))
      /\ UNCHANGED <<rx, multi, tx, outcome, repeated, losses>>
  BY DEF ReadCached, TypeOK
<1>2. /\ Resumable(stack[d], Base(d))
      /\ Base(d) = << >> \/ Top(Base(d)).pc = "loop"
      /\ ~TopIs(d, {"ack"})
      /\ Stored(d)
  BY <1>1, ReadBack, CacheBase, OriginParts DEF Reads, TopIs
<1>3. Head(cached[d]) \in Frame
  BY <1>1
<1>4. FromCache(d, Base(d), Tail(cached[d]), Head(cached[d]))
  BY <1>1, <1>2 DEF FromCache
<1>5. Returned(d, Base(d))
  BY <1>1, <1>3, <1>4 DEF Returned
<1>6. Stored(d)' /\ StoreKept(d)
  BY <1>1, <1>2 DEF Stored, StoreKept
<1> QED
  BY <1>1, <1>2, <1>5, <1>6 DEF ReadShape

LEMMA ReadFrameShape ==
    ASSUME TypeOK, NEW d \in Devices, Origin(d), ReadFrame(d)
    PROVE  ReadShape(d) /\ Stored(d)' /\ StoreKept(d)
<1> DEFINE f == Head(rx[d])
           call == ReadCall("ack", f, Flags(d))
<1>1. /\ Reads(d) /\ rx[d] # << >> /\ rx[d] \in Seq(Frame)
      /\ ~(Flags(d).cache /\ cached[d] # << >>)
      /\ rx' = [rx EXCEPT ![d] = IF f.t = "bad" THEN << >> ELSE Tail(rx[d])]
      /\ UNCHANGED <<outcome, losses>>
  BY DEF ReadFrame, TypeOK
<1>2. /\ Resumable(stack[d], Base(d))
      /\ Base(d) \in Seq(Call) /\ Flags(d) \in [cache : BOOLEAN, multi : BOOLEAN]
      /\ Base(d) = << >> => Flags(d).cache
      /\ ~TopIs(d, {"ack"})
      /\ Stored(d)
  BY <1>1, ReadBack, ReadContextType, CacheBase, OriginParts DEF Reads, TopIs
<1>3. f \in Frame /\ Heard(d, f)
  <2>1. f = rx[d][1] /\ 1 \in 1..Len(rx[d])
    BY <1>1, EmptySeq, LenProperties
  <2> QED
    BY <1>1, <2>1, ElementOfSeq DEF Origin
<1>4. CASE f.t = "bad" \/ Foreign(d, f)
  <2>1. ReturnNoData(d, Base(d)) /\ UNCHANGED <<multi, tx, repeated>>
    BY <1>4 DEF ReadFrame
  <2>2. Skipped(d, Base(d))
    BY <1>1, <1>2, <1>4, <2>1 DEF Skipped, FragmentRead, ReturnNoData, Foreign
  <2>3. Stored(d)' /\ StoreKept(d)
    BY <1>2, <2>1 DEF Stored, StoreKept
  <2> QED
    BY <1>1, <1>2, <2>1, <2>2, <2>3 DEF ReadShape
<1>5. CASE ~(f.t = "bad" \/ Foreign(d, f)) /\ f.r = d /\ f.t # "ack"
  <2>1. /\ ReturnNoData(d, Push(Push(Base(d), call), WriteCall(Ack(d, f.s), FALSE)))
        /\ UNCHANGED <<multi, tx, repeated>>
    BY <1>5 DEF ReadFrame
  <2>2. call \in Call /\ call.pc = "ack" /\ call.m = f
    <3> HIDE DEF f
    <3> QED
      BY <1>2, <1>3, ReadCallType DEF ReadCall
  <2> HIDE DEF call
  <2>3. Taken(d, Base(d))
    BY <1>1, <1>2, <1>3, <1>5, <2>1, <2>2 DEF Taken, ReturnNoData, Heard
  <2>4. Stored(d)' /\ StoreKept(d)
    BY <1>2, <2>1 DEF Stored, StoreKept
  <2> QED
    BY <1>1, <1>2, <2>1, <2>3, <2>4 DEF ReadShape
<1>6. CASE ~(f.t = "bad" \/ Foreign(d, f)) /\ ~(f.r = d /\ f.t # "ack")
  <2>1. Accept(d, Base(d), f, Flags(d))
    BY <1>6 DEF ReadFrame
  <2>2. FromBus(d, cached[d], f)
    BY <1>1, <1>2, <1>6 DEF FromBus
  <2>3. Foreigner(d, f) /\ f.t # "bad"
    BY <1>3, <1>6 DEF Heard
  <2> HIDE DEF f
  <2>4. /\ Returned(d, Base(d)) \/ Skipped(d, Base(d))
        /\ Stored(d)' /\ StoreKept(d) /\ repeated \subseteq repeated'
    BY <1>2, <1>3, <2>1, <2>2, <2>3, AcceptShape
  <2> QED
    BY <1>1, <1>2, <2>4 DEF ReadShape
<1> QED
  BY <1>4, <1>5, <1>6

LEMMA AcknowledgedShape ==
    ASSUME TypeOK, NEW d \in Devices, Origin(d), Acknowledged(d)
    PROVE  ReadShape(d) /\ Stored(d)' /\ StoreKept(d)
<1> DEFINE s == stack[d]
           c == Top(s)
           b == Pop(s)
           flags == [cache |-> c.cache, multi |-> c.multi]
<1>1. s \in Seq(Call) /\ s # << >> /\ c.pc = "ack" /\ TopIs(d, {"ack"})
  BY DEF Acknowledged, TopIs, TypeOK
<1>2. c \in Call /\ b \in Seq(Call) /\ CallIs(d, c, repeated) /\ Stored(d)
  BY <1>1, TopProperties, PopProperties, SoundPop, OriginParts
<1>3. c.m \in Frame /\ flags \in [cache : BOOLEAN, multi : BOOLEAN]
  <2>1. c \in ReadRecord
    BY <1>1, <1>2, CallKinds DEF ReadPC
  <2> HIDE DEF c
  <2> QED
    BY <2>1 DEF ReadRecord
<1>4. c.m.r = d /\ c.m.t \notin {"ack", "bad"} /\ Foreigner(d, c.m)
  BY <1>1, <1>2 DEF CallIs, ReadIs, ReadPC
<1>5. Accept(d, b, c.m, flags) /\ UNCHANGED <<rx, outcome, losses>>
  BY DEF Acknowledged
<1>6. FromCall(d, b, cached[d], c.m)
  BY <1>1, <1>5 DEF FromCall
<1>7. Resumable(s, b)
  BY <1>1 DEF Resumable
<1> HIDE DEF c, flags, b
<1>8. /\ Returned(d, b) \/ Skipped(d, b)
      /\ Stored(d)' /\ StoreKept(d) /\ repeated \subseteq repeated'
  BY <1>2, <1>3, <1>4, <1>5, <1>6, AcceptShape
<1> QED
  BY <1>5, <1>7, <1>8 DEF ReadShape

LEMMA ReadNothingShape ==
    ASSUME TypeOK, NEW d \in Devices, Origin(d), ReadNothing(d)
    PROVE  ReadShape(d) /\ Stored(d)' /\ StoreKept(d)
<1>1. /\ TopIs(d, {"enter"}) /\ Reads(d) /\ ReturnNoData(d, Base(d))
      /\ UNCHANGED <<rx, multi, tx, outcome, repeated, losses>>
  BY DEF ReadNothing, Reads
<1>2. Resumable(stack[d], Base(d)) /\ ~TopIs(d, {"ack"}) /\ Stored(d)
  BY <1>1, ReadBack, OriginParts DEF TopIs
<1>3. Skipped(d, Base(d))
  BY <1>1, <1>2 DEF Skipped, FragmentRead, ReturnNoData
<1>4. Stored(d)' /\ StoreKept(d)
  BY <1>1, <1>2 DEF Stored, StoreKept
<1> QED
  BY <1>1, <1>2, <1>3, <1>4 DEF ReadShape

LEMMA LoopDoneShape ==
    ASSUME TypeOK, NEW d \in Devices, Origin(d), LoopDone(d)
    PROVE  ReadShape(d) /\ Stored(d)' /\ StoreKept(d)
<1> DEFINE c == Top(stack[d])
           b == Pop(stack[d])
<1>1. /\ stack[d] \in Seq(Call) /\ stack[d] # << >> /\ c.pc = "loop"
      /\ TopIs(d, {"loop"}) /\ ~TopIs(d, {"ack"})
  BY DEF LoopDone, TopIs, TypeOK
<1>2. LoopMessage(c) \in Frame /\ LoopMessage(c).t = "msg" /\ Stored(d)
  BY <1>1, TopProperties, LoopMessageType, OriginParts DEF LoopMessage, WholeMessage
<1>3. /\ ReturnMessage(d, b, cached[d], LoopMessage(c))
      /\ UNCHANGED <<rx, multi, tx, outcome, repeated, losses>>
  BY DEF LoopDone
<1>4. Resumable(stack[d], b)
  BY <1>1 DEF Resumable
<1> HIDE DEF c, b
<1>5. Joined(d, cached[d], LoopMessage(c))
  BY <1>1, <1>2, <1>3 DEF Joined, FragmentRead
<1>6. Returned(d, b)
  BY <1>2, <1>3, <1>5 DEF Returned
<1>7. Stored(d)' /\ StoreKept(d)
  BY <1>2, <1>3 DEF Stored, StoreKept
<1> QED
  BY <1>3, <1>4, <1>6, <1>7 DEF ReadShape

LEMMA LoopTimeoutShape ==
    ASSUME TypeOK, NEW d \in Devices, Origin(d), LoopTimeout(d)
    PROVE  ReadShape(d) /\ Stored(d)' /\ StoreKept(d)
<1> DEFINE c == Top(stack[d])
           b == Pop(stack[d])
           m == ResendMsg(c.m.r, c.m.s)
           call == [c EXCEPT !.pc = "nodata"]
<1>1. /\ stack[d] \in Seq(Call) /\ stack[d] # << >> /\ c.pc = "loop"
      /\ TopIs(d, {"loop"}) /\ ~TopIs(d, {"ack"}) /\ tx \in [Devices -> SUBSET Frame]
  BY DEF LoopTimeout, TopIs, TypeOK
<1>2. /\ LoopMessage(c) \in Frame /\ LoopMessage(c).t = "msg" /\ Stored(d)
      /\ c \in ReadRecord /\ CallIs(d, c, repeated)
  BY <1>1, TopProperties, LoopMessageType, OriginParts, SoundPop, CallKinds
     DEF LoopMessage, WholeMessage, ReadPC
<1>3. /\ \/ ReturnMessage(d, b, cached[d], LoopMessage(c)) /\ UNCHANGED tx
         \/ /\ ReturnNoData(d, Push(Push(b, call), WriteCall(m, TRUE)))
            /\ tx' = [tx EXCEPT ![d] = Remember(d, m)]
      /\ UNCHANGED <<rx, multi, outcome, repeated, losses>>
  BY DEF LoopTimeout
<1>4. Resumable(stack[d], b)
  BY <1>1 DEF Resumable
<1>5. c.m \in Fragments /\ c.m.r \in {d, Broadcast} /\ Foreigner(d, c.m)
  <2> HIDE DEF c
  <2> QED
    BY <1>1, <1>2 DEF CallIs, ReadIs, ReadPC, ReadRecord, Fragments
<1>6. m \in Frame /\ Own(d, m) /\ m.t = "resend"
  <2> HIDE DEF c
  <2> QED
    BY <1>5, ResendReal
<1>7. call \in Call /\ call.pc = "nodata" /\ call.m = c.m
  <2> HIDE DEF c
  <2> QED
    BY <1>2 DEF ReadRecord, ReadPC, Call
<1> HIDE DEF c, b, m, call
<1>8. CASE ReturnMessage(d, b, cached[d], LoopMessage(c)) /\ UNCHANGED tx
  <2>1. Joined(d, cached[d], LoopMessage(c))
    BY <1>1, <1>2, <1>3 DEF Joined, FragmentRead
  <2>2. Returned(d, b)
    BY <1>2, <1>3, <1>8, <2>1 DEF Returned
  <2>3. Stored(d)' /\ StoreKept(d)
    BY <1>2, <1>3, <1>8 DEF Stored, StoreKept
  <2> QED
    BY <1>3, <1>4, <2>2, <2>3 DEF ReadShape
<1>9. CASE /\ ReturnNoData(d, Push(Push(b, call), WriteCall(m, TRUE)))
           /\ tx' = [tx EXCEPT ![d] = Remember(d, m)]
  <2>1. ReadIs(d, call)
    BY <1>5, <1>7 DEF ReadIs, Fragments
  <2>2. Suspended(d, b, call, m)
    BY <1>5, <1>6, <1>7, <2>1 DEF Suspended, Fragments
  <2>3. Skipped(d, b)
    BY <1>1, <1>3, <1>9, <2>2 DEF Skipped, FragmentRead, ReturnNoData
  <2>4. \A x \in Remember(d, m) : Own(d, x) /\ x.t \in {"msg", "resend"}
    BY <1>2, <1>6, RememberOwn
  <2>5. Stored(d)' /\ StoreKept(d)
    BY <1>1, <1>2, <1>3, <1>9, <2>4 DEF Stored, StoreKept, Others
  <2> QED
    BY <1>3, <1>4, <2>3, <2>5 DEF ReadShape
<1> QED
  BY <1>3, <1>8, <1>9

\* Every step of a read has that shape.
LEMMA ReadHasShape ==
    ASSUME TypeOK, NEW d \in Devices, Origin(d), Read(d)
    PROVE  ReadShape(d) /\ Stored(d)' /\ StoreKept(d)
BY ExpireMultiShape, ReadCachedShape, ReadFrameShape, AcknowledgedShape, ReadNothingShape,
   LoopDoneShape, LoopTimeoutShape DEF Read


-----------------------------------------------------------------------------
(* What a step of a write does.                                            *)

\* A new write.
LEMMA NewWrite ==
    ASSUME NEW d, NEW m \in Frame, NEW ack \in BOOLEAN, NEW rep, Own(d, m),
           Len(m.d) > 1 => m.t = "msg",
           m.t = "ack" => ~ack,
           ~ack /\ m.t # "ack" => m.r = Broadcast \/ Pair(m) \in rep
    PROVE  /\ WriteCall(m, ack) \in Call
           /\ WriteCall(m, ack).pc = IF Len(m.d) > 1 THEN "group" ELSE "drain"
           /\ WriteCall(m, ack).m = m /\ WriteCall(m, ack).ack = ack
           /\ CallIs(d, WriteCall(m, ack), rep)
<1> DEFINE w == WriteCall(m, ack)
<1>1. /\ w \in Call /\ w.pc = (IF Len(m.d) > 1 THEN "group" ELSE "drain")
      /\ w.m = m /\ w.ack = ack /\ w.tries = 0 /\ w.ok = (Len(m.d) > 1)
  BY WriteCallType DEF WriteCall
<1>2. Len(m.d) \in Nat
  BY LenProperties DEF Frame
<1> HIDE DEF w
<1>3. WriteIs(d, w, rep)
  <2>1. m.t = "ack" => w.pc = "drain"
    BY <1>1, <1>2 DEF Own, Real
  <2>2. w.pc # "group" => Len(m.d) <= 1
    BY <1>1, <1>2
  <2>3. w.pc = "drain" => ~w.ok
    BY <1>1, <1>2
  <2>4. w.pc = "group" => m.t = "msg" /\ Len(m.d) > 1
    BY <1>1, <1>2
  <2>5. ~(w.tries > 0)
    BY <1>1
  <2> QED
    BY <1>1, <2>1, <2>2, <2>3, <2>4, <2>5 DEF WriteIs
<1>4. CallIs(d, w, rep)
  BY <1>1, <1>3 DEF CallIs, WritePC, ReadPC
<1> QED
  BY <1>1, <1>4 DEF w

\* What the caller makes of a write that returns.
LEMMA ReturnForms ==
    ASSUME TypeOK, NEW d \in Devices, NEW s \in Seq(Call), NEW ok \in BOOLEAN, ReturnWrite(d, s, ok)
    PROVE  /\ \A e \in Others(d) : stack'[e] = stack[e] /\ outcome'[e] = outcome[e]
           /\ s = << >> => stack'[d] = << >> /\ outcome'[d] = Append(outcome[d], ok)
           /\ s # << >> =>
                 /\ outcome'[d] = outcome[d]
                 /\ \/ stack'[d] = s
                    \/ Top(s).pc = "nodata" /\ stack'[d] = Pop(s)
                    \/ /\ Top(s).pc = "group"
                       /\ \E c \in Call : /\ stack'[d] = SetTop(s, c)
                                          /\ c.pc = "group" /\ c.m = Top(s).m
                                          /\ c.ack = Top(s).ack /\ c.tries = Top(s).tries
<1> DEFINE t == Top(s)
           e == [t EXCEPT !.k = @ + 1, !.ok = @ /\ ok]
<1>1. stack \in [Devices -> Seq(Call)] /\ outcome \in [Devices -> Seq(BOOLEAN)]
  BY DEF TypeOK
<1>2. \A x \in Others(d) : stack'[x] = stack[x] /\ outcome'[x] = outcome[x]
  BY <1>1 DEF ReturnWrite, Others
<1>3. s = << >> => stack'[d] = << >> /\ outcome'[d] = Append(outcome[d], ok)
  BY <1>1 DEF ReturnWrite
<1>4. s # << >> => /\ outcome'[d] = outcome[d]
                   /\ stack'[d] = CASE t.pc = "nodata" -> Pop(s)
                                    [] t.pc = "group" -> SetTop(s, e)
                                    [] OTHER -> s
  BY <1>1 DEF ReturnWrite
<1>5. s # << >> /\ t.pc = "group" => e \in Call /\ e.pc = "group" /\ e.m = t.m /\ e.ack = t.ack /\ e.tries = t.tries
  <2> SUFFICES ASSUME s # << >>, t.pc = "group"
               PROVE  e \in Call /\ e.pc = "group" /\ e.m = t.m /\ e.ack = t.ack /\ e.tries = t.tries
    OBVIOUS
  <2>1. t \in WriteRecord
    BY TopProperties, CallKinds DEF WritePC
  <2> DEFINE b == t.ok /\ ok
             k == t.k + 1
             y == [t EXCEPT !.k = k]
  <2> HIDE DEF t
  <2>2. b \in BOOLEAN /\ k \in Nat
    BY <2>1 DEF WriteRecord
  <2>3. y \in WriteRecord /\ y.pc = t.pc /\ y.m = t.m /\ y.ack = t.ack /\ y.tries = t.tries
    <3> HIDE DEF k
    <3> QED
      BY <2>1, <2>2 DEF WriteRecord
  <2>4. e = [y EXCEPT !.ok = b]
    BY <2>1 DEF WriteRecord
  <2> HIDE DEF y, b, e
  <2>5. e \in WriteRecord /\ e.pc = y.pc /\ e.m = y.m /\ e.ack = y.ack /\ e.tries = y.tries
    BY <2>2, <2>3, <2>4 DEF WriteRecord
  <2> QED
    BY <2>3, <2>5 DEF Call
<1> HIDE DEF t, e
<1>6. s # << >> => \/ stack'[d] = s
                   \/ t.pc = "nodata" /\ stack'[d] = Pop(s)
                   \/ t.pc = "group" /\ stack'[d] = SetTop(s, e)
  BY <1>4
<1> QED
  BY <1>2, <1>3, <1>4, <1>5, <1>6 DEF t

LEMMA ReturnWriteSound ==
    ASSUME TypeOK, NEW d \in Devices, Origin(d), stack[d] # << >>, NEW ok \in BOOLEAN,
           ReturnWrite(d, Pop(stack[d]), ok)
    PROVE  Sound(d, stack'[d], repeated, outcome'[d])
<1> DEFINE s == Pop(stack[d])
           t == stack'[d]
           out == outcome'[d]
<1>1. s \in Seq(Call) /\ Sound(d, s, repeated, outcome[d])
  BY PopProperties, SoundPop DEF TypeOK, Origin
<1>2. /\ s = << >> => t = << >>
      /\ s # << >> =>
            /\ out = outcome[d]
            /\ \/ t = s
               \/ t = Pop(s)
               \/ /\ Top(s).pc = "group"
                  /\ \E c \in Call : /\ t = SetTop(s, c)
                                     /\ c.pc = "group" /\ c.m = Top(s).m
                                     /\ c.ack = Top(s).ack /\ c.tries = Top(s).tries
  BY <1>1, ReturnForms
<1> HIDE DEF s, t, out
<1>3. CASE s = << >>
  <2>1. t = << >> /\ Len(t) = 0
    BY <1>2, <1>3
  <2>2. /\ \A p \in 1..Len(t) : FALSE
        /\ \A p \in 2..Len(t) : FALSE
    BY <2>1
  <2>3. Sound(d, t, repeated, out)
    BY <2>1, <2>2 DEF Sound
  <2> QED
    BY <2>3 DEF t, out
<1>4. CASE s # << >> /\ t = s
  BY <1>1, <1>2, <1>4 DEF t, out
<1>5. CASE s # << >> /\ t = Pop(s)
  <2>1. Sound(d, t, repeated, out)
    BY <1>1, <1>2, <1>5, SoundPop
  <2> QED
    BY <2>1 DEF t, out
<1>6. ASSUME s # << >>, Top(s).pc = "group", NEW c \in Call, t = SetTop(s, c),
             c.pc = "group", c.m = Top(s).m, c.ack = Top(s).ack, c.tries = Top(s).tries
      PROVE  Sound(d, stack'[d], repeated, outcome'[d])
  <2>1. CallIs(d, Top(s), repeated)
    BY <1>1, <1>6, SoundPop
  <2>2. CallIs(d, c, repeated)
    BY <1>6, <2>1 DEF CallIs, WriteIs, WritePC, ReadPC
  <2>3. Sound(d, SetTop(s, c), repeated, outcome[d])
    BY <1>1, <1>6, <2>2, SoundSetTop DEF WritePC, ReadPC
  <2> QED
    BY <1>2, <1>6, <2>3 DEF t, out
<1> QED
  BY <1>2, <1>3, <1>4, <1>5, <1>6

\* What the bus does to the receive buffers.
LEMMA Carried ==
    ASSUME TypeOK, NEW d \in Devices, NEW f \in Frame, Transmit(d, f)
    PROVE  /\ rx'[d] = rx[d]
           /\ \A e \in Others(d) : \/ rx'[e] = rx[e]
                                   \/ rx'[e] = Append(rx[e], f)
                                   \/ rx'[e] = Append(rx[e], Damaged(f))
           /\ losses' = 0 => losses = 0 /\ \A e \in Others(d) : rx'[e] = Append(rx[e], f)
<1>1. losses \in Nat
  BY BoundAssumption DEF TypeOK
<1>2. CASE /\ rx' = [e \in Devices |-> IF e = d THEN rx[e] ELSE Append(rx[e], f)]
           /\ UNCHANGED losses
  BY <1>2 DEF Others
<1>3. ASSUME NEW victims \in SUBSET Others(d) \ {{}}, NEW lost \in BOOLEAN,
             losses' = losses + 1,
             rx' = [e \in Devices |->
                      IF e = d \/ (e \in victims /\ lost) THEN rx[e]
                      ELSE Append(rx[e], IF e \in victims THEN Damaged(f) ELSE f)]
      PROVE  /\ rx'[d] = rx[d]
             /\ \A e \in Others(d) : \/ rx'[e] = rx[e]
                                     \/ rx'[e] = Append(rx[e], f)
                                     \/ rx'[e] = Append(rx[e], Damaged(f))
             /\ losses' # 0
  <2>1. losses' # 0 /\ rx'[d] = rx[d]
    BY <1>1, <1>3
  <2>2. ASSUME NEW e \in Others(d)
        PROVE  rx'[e] = rx[e] \/ rx'[e] = Append(rx[e], f) \/ rx'[e] = Append(rx[e], Damaged(f))
    <3>1. e \in Devices /\ e # d
      BY DEF Others
    <3> QED
      BY <1>3, <3>1
  <2> QED
    BY <2>1, <2>2
<1> QED
  BY <1>2, <1>3 DEF Transmit


-----------------------------------------------------------------------------
(* The origin of frames is an invariant.                                   *)

OthersKept(d) ==
    \A e \in Others(d) : /\ stack'[e] = stack[e] /\ outcome'[e] = outcome[e]
                         /\ cached'[e] = cached[e] /\ inbox'[e] = inbox[e]

\* A read takes at most the first frame from the serial buffer, or empties it.
LEMMA ReadBuffers ==
    ASSUME TypeOK, NEW d \in Devices, ReadShape(d)
    PROVE  /\ OthersKept(d)
           /\ \A e \in Others(d) : rx'[e] = rx[e]
           /\ \/ rx'[d] = rx[d]
              \/ rx[d] # << >> /\ rx'[d] = Tail(rx[d])
              \/ rx[d] # << >> /\ Head(rx[d]).t = "bad" /\ rx'[d] = << >>
<1>1. /\ rx \in [Devices -> Seq(Frame)] /\ stack \in [Devices -> Seq(Call)]
      /\ cached \in [Devices -> Seq(Frame)] /\ inbox \in [Devices -> Seq(Frame)]
      /\ UNCHANGED outcome
  BY DEF TypeOK, ReadShape
<1>2. PICK b : Taken(d, b) \/ Returned(d, b) \/ Skipped(d, b)
  BY DEF ReadShape
<1>3. CASE Taken(d, b)
  BY <1>1, <1>3 DEF Taken, OthersKept, Others
<1>4. CASE Returned(d, b)
  <2>1. PICK c, x : /\ ReturnMessage(d, b, c, x)
                    /\ FromCache(d, b, c, x) \/ FromBus(d, c, x) \/ FromCall(d, b, c, x) \/ Joined(d, c, x)
    BY <1>4 DEF Returned
  <2>2. OthersKept(d)
    BY <1>1, <2>1 DEF ReturnMessage, OthersKept, Others
  <2>3. UNCHANGED rx \/ (rx[d] # << >> /\ rx' = [rx EXCEPT ![d] = Tail(rx[d])])
    BY <2>1 DEF FromCache, FromBus, FromCall, Joined, FragmentRead
  <2> QED
    BY <1>1, <2>2, <2>3 DEF Others
<1>5. CASE Skipped(d, b)
  <2>1. OthersKept(d)
    BY <1>1, <1>5 DEF Skipped, OthersKept, Others
  <2>2. \/ UNCHANGED rx
        \/ rx[d] # << >> /\ rx' = [rx EXCEPT ![d] = Tail(rx[d])]
        \/ rx[d] # << >> /\ Head(rx[d]).t = "bad" /\ rx' = [rx EXCEPT ![d] = << >>]
    BY <1>5 DEF Skipped, FragmentRead
  <2> QED
    BY <1>1, <2>1, <2>2 DEF Others
<1> QED
  BY <1>2, <1>3, <1>4, <1>5

LEMMA ReadSound ==
    ASSUME TypeOK, NEW d \in Devices, Origin(d), ReadShape(d)
    PROVE  Sound(d, stack'[d], repeated', outcome'[d])
<1> DEFINE s == stack[d]
           rep == repeated'
           out == outcome[d]
<1>1. s \in Seq(Call) /\ Sound(d, s, rep, out) /\ outcome'[d] = out /\ stack \in [Devices -> Seq(Call)]
  BY SoundMono DEF TypeOK, Origin, ReadShape
<1>2. PICK b : Resumable(s, b) /\ (Taken(d, b) \/ Returned(d, b) \/ Skipped(d, b))
  BY DEF ReadShape
<1>3. b \in Seq(Call) /\ Sound(d, b, rep, out) /\ Reader(b)
  <2> HIDE DEF s, rep, out
  <2> QED
    BY <1>1, <1>2, ResumableSound
<1>4. CASE Taken(d, b)
  <2> DEFINE f == Head(rx[d])
             m == Ack(d, f.s)
  <2>1. /\ f \in Frame /\ f.r = d /\ f.t \notin {"ack", "bad"} /\ Foreigner(d, f)
    BY <1>4 DEF Taken, TypeOK
  <2>2. PICK r \in Call : /\ r.pc = "ack" /\ r.m = f
                          /\ stack'[d] = Push(Push(b, r), WriteCall(m, FALSE))
    BY <1>1, <1>4 DEF Taken
  <2>3. m \in Frame /\ Own(d, m) /\ m.t = "ack" /\ Len(m.d) = 0
    BY <2>1, ShortType DEF Frame, Addresses, Own, Real, Ack, Short
  <2> HIDE DEF f, m, s, rep, out
  <2>4. /\ WriteCall(m, FALSE) \in Call /\ WriteCall(m, FALSE).pc = "drain"
        /\ WriteCall(m, FALSE).m = m /\ CallIs(d, WriteCall(m, FALSE), rep)
    <3>1. ~(Len(m.d) > 1) /\ FALSE \in BOOLEAN
      BY <2>3
    <3> QED
      BY <2>3, <3>1, NewWrite
  <2>5. CallIs(d, r, rep)
    BY <2>1, <2>2 DEF CallIs, ReadIs, WritePC
  <2>6. Push(b, r) \in Seq(Call) /\ Top(Push(b, r)) = r /\ Push(b, r) # << >>
    BY <1>3, <2>2, PushProperties, EmptySeq DEF Push
  <2>7. Sound(d, Push(b, r), rep, out)
    <3>1. b = << >> => Starts(d, r, out)
      BY <2>2 DEF Starts, WritePC
    <3>2. b # << >> => Made(d, Top(b), r, rep)
      BY <1>3, <2>2 DEF Made, Reader, Reading, WritePC
    <3> QED
      BY <1>3, <2>2, <2>5, <3>1, <3>2, SoundPush
  <2>8. Made(d, r, WriteCall(m, FALSE), rep)
    BY <2>2, <2>3, <2>4 DEF Made, ReadPC, m
  <2>9. Sound(d, Push(Push(b, r), WriteCall(m, FALSE)), rep, out)
    BY <2>4, <2>6, <2>7, <2>8, SoundPush
  <2> QED
    BY <1>1, <2>2, <2>9 DEF rep, out
<1>5. CASE Returned(d, b)
  <2>1. PICK x \in Frame : stack'[d] = ResumeStack(b, x)
    BY <1>1, <1>5 DEF Returned, ReturnMessage
  <2> HIDE DEF s, rep, out
  <2>2. Sound(d, ResumeStack(b, x), rep, out)
    BY <1>3, ResumeSound
  <2> QED
    BY <1>1, <2>1, <2>2 DEF rep, out
<1>6. CASE Skipped(d, b)
  <2>1. \/ stack'[d] = b
        \/ \E c \in Call : c.pc = "loop" /\ ReadIs(d, c) /\ stack'[d] = Push(b, c)
        \/ \E r, m : Suspended(d, b, r, m) /\ stack'[d] = Push(Push(b, r), WriteCall(m, TRUE))
    <3>1. \A t : stack' = [stack EXCEPT ![d] = t] => stack'[d] = t
      BY <1>1
    <3>2. \/ stack' = [stack EXCEPT ![d] = b]
          \/ \E c \in Call : c.pc = "loop" /\ ReadIs(d, c) /\ stack' = [stack EXCEPT ![d] = Push(b, c)]
          \/ \E r, m : /\ Suspended(d, b, r, m)
                       /\ stack' = [stack EXCEPT ![d] = Push(Push(b, r), WriteCall(m, TRUE))]
      BY <1>6 DEF Skipped
    <3> QED
      BY <3>1, <3>2
  <2>2. CASE stack'[d] = b
    BY <1>1, <1>3, <2>2
  <2>3. ASSUME NEW c \in Call, c.pc = "loop", ReadIs(d, c), stack'[d] = Push(b, c)
        PROVE  Sound(d, stack'[d], repeated', outcome'[d])
    <3> HIDE DEF s, rep, out
    <3>1. CallIs(d, c, rep) /\ Starts(d, c, out)
      BY <2>3 DEF CallIs, WritePC, Starts
    <3>2. b # << >> => Made(d, Top(b), c, rep)
      BY <1>3, <2>3 DEF Made, Reader, Reading, WritePC
    <3>3. Sound(d, Push(b, c), rep, out)
      BY <1>3, <2>3, <3>1, <3>2, SoundPush
    <3> QED
      BY <1>1, <2>3, <3>3 DEF rep, out
  <2>4. ASSUME NEW r, NEW m, Suspended(d, b, r, m), stack'[d] = Push(Push(b, r), WriteCall(m, TRUE))
        PROVE  Sound(d, stack'[d], repeated', outcome'[d])
    <3>1. /\ r \in Call /\ r.pc \in {"enter", "nodata"} /\ ReadIs(d, r)
          /\ r.pc = "enter" /\ r.cache => b = << >> \/ Top(b).pc = "loop"
          /\ r.pc = "enter" /\ b = << >> => r.cache
          /\ m \in Frame /\ Own(d, m) /\ m.t \in {"msg", "resend"}
          /\ m.t = "msg" => Pair(m) \in rep
          /\ r.pc = "nodata" /\ r.m.t = "resend" /\ ~Splits(r.m.s, d) => m.t = "msg"
      BY <2>4 DEF Suspended
    <3> HIDE DEF s, rep, out
    <3>2. CallIs(d, r, rep) /\ (b = << >> => Starts(d, r, out))
      BY <3>1 DEF CallIs, WritePC, Starts
    <3>3. b # << >> => Made(d, Top(b), r, rep)
      BY <1>3, <3>1 DEF Made, Reader, Reading, WritePC
    <3>4. /\ Push(b, r) \in Seq(Call) /\ Top(Push(b, r)) = r /\ Push(b, r) # << >>
          /\ Sound(d, Push(b, r), rep, out)
      <4>1. Push(b, r) \in Seq(Call) /\ Top(Push(b, r)) = r /\ Push(b, r) # << >>
        BY <1>3, <3>1, PushProperties, EmptySeq DEF Push
      <4>2. Sound(d, Push(b, r), rep, out)
        BY <1>3, <3>1, <3>2, <3>3, SoundPush
      <4> QED
        BY <4>1, <4>2
    <3>5. Len(m.d) > 1 => m.t = "msg"
      BY <3>1 DEF Own, Real
    <3>6. /\ WriteCall(m, TRUE) \in Call /\ WriteCall(m, TRUE).pc \in {"group", "drain"}
          /\ WriteCall(m, TRUE).m = m /\ CallIs(d, WriteCall(m, TRUE), rep)
      BY <3>1, <3>5, NewWrite
    <3>7. Made(d, r, WriteCall(m, TRUE), rep)
      BY <3>1, <3>6 DEF Made, ReadPC, WritePC
    <3>8. Sound(d, Push(Push(b, r), WriteCall(m, TRUE)), rep, out)
      BY <3>4, <3>6, <3>7, SoundPush
    <3> QED
      BY <1>1, <2>4, <3>8 DEF rep, out
  <2> QED
    BY <2>1, <2>2, <2>3, <2>4
<1> QED
  BY <1>2, <1>4, <1>5, <1>6


\* What a step of d must keep for the origin of all frames to stay as it is.
LEMMA OriginLocal ==
    ASSUME OriginInv, NEW d \in Devices, repeated \subseteq repeated', OthersKept(d), StoreKept(d),
           Sound(d, stack'[d], repeated', outcome'[d]),
           Stored(d)',
           \A p \in 1..Len(cached'[d]) : cached'[d][p].t # "ack",
           \A e \in Devices : \A p \in 1..Len(rx'[e]) : Heard(e, rx'[e][p])
    PROVE  \A e \in Devices : Origin(e)'
<1> TAKE e \in Devices
<1>1. CASE e = d
  BY <1>1 DEF Origin, Stored
<1>2. CASE e # d
  <2>1. /\ stack'[e] = stack[e] /\ outcome'[e] = outcome[e] /\ cached'[e] = cached[e]
        /\ tx'[e] = tx[e] /\ multi'[e] = multi[e]
    BY <1>2 DEF OthersKept, StoreKept, Others
  <2>2. Origin(e)
    BY DEF OriginInv
  <2>3. Sound(e, stack'[e], repeated', outcome'[e])
    BY <2>1, <2>2, SoundMono DEF Origin
  <2> QED
    BY <2>1, <2>2, <2>3 DEF Origin
<1> QED
  BY <1>1, <1>2

\* Only messages are cached.
LEMMA ReadCaches ==
    ASSUME TypeOK, NEW d \in Devices, Origin(d), ReadShape(d)
    PROVE  \A p \in 1..Len(cached'[d]) : cached'[d][p].t # "ack"
<1>1. cached \in [Devices -> Seq(Frame)] /\ \A p \in 1..Len(cached[d]) : cached[d][p].t # "ack"
  BY DEF TypeOK, Origin
<1>2. PICK b : Taken(d, b) \/ Returned(d, b) \/ Skipped(d, b)
  BY DEF ReadShape
<1>3. CASE Taken(d, b) \/ Skipped(d, b)
  BY <1>1, <1>3 DEF Taken, Skipped
<1>4. CASE Returned(d, b)
  <2>1. PICK c, x : /\ x \in Frame /\ ReturnMessage(d, b, c, x)
                    /\ FromCache(d, b, c, x) \/ FromBus(d, c, x) \/ FromCall(d, b, c, x) \/ Joined(d, c, x)
    BY <1>4 DEF Returned
  <2>2. c = cached[d] \/ (cached[d] # << >> /\ c = Tail(cached[d]))
    BY <2>1 DEF FromCache, FromBus, FromCall, Joined
  <2>3. c \in Seq(Frame) /\ \A p \in 1..Len(c) : c[p].t # "ack"
    <3>1. CASE c = cached[d]
      BY <1>1, <3>1
    <3>2. CASE cached[d] # << >> /\ c = Tail(cached[d])
      <4>1. /\ c \in Seq(Frame) /\ Len(c) = Len(cached[d]) - 1 /\ Len(c) \in Nat
            /\ \A p \in 1..Len(c) : c[p] = cached[d][p + 1]
        BY <1>1, <3>2, HeadTailProperties, LenProperties
      <4>2. \A p \in 1..Len(c) : p + 1 \in 1..Len(cached[d])
        BY <4>1
      <4> QED
        BY <1>1, <4>1, <4>2
    <3> QED
      BY <2>2, <3>1, <3>2
  <2>4. cached'[d] = c \/ (cached'[d] = Append(c, x) /\ x.t # "ack")
    BY <1>1, <2>1 DEF ReturnMessage, ResumeCached, CacheMessage
  <2>5. ASSUME x.t # "ack", NEW p \in 1..Len(Append(c, x))
        PROVE  Append(c, x)[p].t # "ack"
    <3>1. /\ Len(Append(c, x)) = Len(c) + 1 /\ Append(c, x)[Len(c) + 1] = x /\ Len(c) \in Nat
          /\ \A q \in 1..Len(c) : Append(c, x)[q] = c[q]
      BY <2>1, <2>3, AppendProperties, LenProperties
    <3>2. p = Len(c) + 1 \/ p \in 1..Len(c)
      BY <3>1
    <3> QED
      BY <2>3, <2>5, <3>1, <3>2
  <2> QED
    BY <2>3, <2>4, <2>5
<1> QED
  BY <1>2, <1>3, <1>4

LEMMA ReadOrigin ==
    ASSUME OriginInv, NEW d \in Devices, Read(d)
    PROVE  \A e \in Devices : Origin(e)'
<1>1. TypeOK /\ Origin(d)
  BY DEF OriginInv
<1>2. ReadShape(d) /\ Stored(d)' /\ StoreKept(d)
  BY <1>1, ReadHasShape
<1>3. Sound(d, stack'[d], repeated', outcome'[d]) /\ OthersKept(d) /\ repeated \subseteq repeated'
  BY <1>1, <1>2, ReadSound, ReadBuffers DEF ReadShape
<1>4. \A p \in 1..Len(cached'[d]) : cached'[d][p].t # "ack"
  BY <1>1, <1>2, ReadCaches
<1>5. ASSUME NEW e \in Devices, NEW p \in 1..Len(rx'[e])
      PROVE  Heard(e, rx'[e][p])
  <2>1. rx[e] \in Seq(Frame) /\ \A q \in 1..Len(rx[e]) : Heard(e, rx[e][q])
    BY DEF OriginInv, TypeOK, Origin
  <2>2. rx'[e] = rx[e] \/ (rx[e] # << >> /\ rx'[e] = Tail(rx[e])) \/ rx'[e] = << >>
    BY <1>1, <1>2, ReadBuffers DEF Others
  <2>3. CASE rx'[e] = rx[e]
    BY <1>5, <2>1, <2>3
  <2>4. CASE rx[e] # << >> /\ rx'[e] = Tail(rx[e])
    <3>1. /\ Len(rx'[e]) = Len(rx[e]) - 1 /\ Len(rx[e]) \in Nat
          /\ \A q \in 1..Len(rx'[e]) : rx'[e][q] = rx[e][q + 1]
      BY <2>1, <2>4, HeadTailProperties, LenProperties
    <3>2. p + 1 \in 1..Len(rx[e])
      BY <1>5, <3>1
    <3> QED
      BY <1>5, <2>1, <3>1, <3>2
  <2>5. CASE rx'[e] = << >>
    BY <1>5, <2>5
  <2> QED
    BY <2>2, <2>3, <2>4, <2>5
<1> QED
  BY <1>2, <1>3, <1>4, <1>5, OriginLocal

\* A write step of d that transmits nothing.
LEMMA QuietOrigin ==
    ASSUME OriginInv, NEW d \in Devices, repeated \subseteq repeated', OthersKept(d), StoreKept(d),
           Sound(d, stack'[d], repeated', outcome'[d]), Stored(d)',
           UNCHANGED <<rx, cached>>
    PROVE  \A e \in Devices : Origin(e)'
<1>1. \A e \in Devices : /\ \A p \in 1..Len(rx[e]) : Heard(e, rx[e][p])
                         /\ \A p \in 1..Len(cached[e]) : cached[e][p].t # "ack"
  BY DEF OriginInv, Origin
<1>2. /\ \A p \in 1..Len(cached'[d]) : cached'[d][p].t # "ack"
      /\ \A e \in Devices : \A p \in 1..Len(rx'[e]) : Heard(e, rx'[e][p])
  BY <1>1
<1> QED
  BY <1>2, OriginLocal

LEMMA WriteOrigin ==
    ASSUME OriginInv, NEW d \in Devices, Write(d)
    PROVE  \A e \in Devices : Origin(e)'
<1> DEFINE m == Script[d][Len(outcome[d]) + 1]
           ack == m.r # Broadcast
           w == WriteCall(m, ack)
<1>1. /\ TypeOK /\ Origin(d) /\ Stored(d) /\ ack \in BOOLEAN
      /\ stack \in [Devices -> Seq(Call)] /\ tx \in [Devices -> SUBSET Frame]
      /\ outcome \in [Devices -> Seq(BOOLEAN)]
  BY OriginParts DEF OriginInv, TypeOK
<1>2. /\ stack[d] = << >> /\ Len(outcome[d]) < Len(Script[d])
      /\ stack' = [stack EXCEPT ![d] = <<w>>]
      /\ tx' = [tx EXCEPT ![d] = Remember(d, m)]
      /\ UNCHANGED <<rx, cached, multi, inbox, outcome, repeated>>
  BY DEF Write
<1>3. m \in Frame /\ m.t = "msg" /\ m.s = d /\ m \in Messages(d)
  <2>1. Len(outcome[d]) + 1 \in 1..Len(Script[d])
    BY <1>1, <1>2, ScriptAssumption, LenProperties
  <2> QED
    BY <2>1, ScriptAssumption, ElementOfSeq DEF Messages
<1>4. Own(d, m)
  BY <1>3 DEF Own, Real
<1>5. Sound(d, stack[d], repeated, outcome[d]) /\ stack'[d] = <<w>>
  BY <1>1, <1>2 DEF Origin
<1>6. /\ OthersKept(d) /\ StoreKept(d)
  BY <1>1, <1>2 DEF OthersKept, StoreKept, Others
<1>7. w \in Call /\ w.m = m /\ w.ack = ack /\ CallIs(d, w, repeated) /\ w.pc # "enter"
  <2>1. ~ack => m.r = Broadcast
    OBVIOUS
  <2> HIDE DEF ack, m
  <2> QED
    BY <1>1, <1>3, <1>4, <2>1, NewWrite
<1>8. Starts(d, w, outcome[d])
  <2>1. ~ack => m.r = Broadcast
    OBVIOUS
  <2> HIDE DEF w, ack
  <2> QED
    BY <1>2, <1>7, <2>1 DEF Starts
<1> HIDE DEF m, ack, w
<1>9. Push(<< >>, w) = <<w>> /\ << >> \in Seq(Call)
  BY <1>7 DEF Push
<1>10. Sound(d, <<w>>, repeated, outcome[d])
  BY <1>2, <1>5, <1>7, <1>8, <1>9, SoundPush
<1>11. \A x \in Remember(d, m) : Own(d, x) /\ x.t \in {"msg", "resend"}
  BY <1>1, <1>3, <1>4, RememberOwn
<1>12. Stored(d)'
  BY <1>1, <1>2, <1>11 DEF Stored
<1> QED
  BY <1>2, <1>5, <1>6, <1>10, <1>12, QuietOrigin

\* The call on top of a writer's stack.
LEMMA TopWrite ==
    ASSUME OriginInv, NEW d \in Devices, TopIs(d, WritePC)
    PROVE  /\ TypeOK /\ Origin(d) /\ Stored(d)
           /\ stack \in [Devices -> Seq(Call)] /\ outcome \in [Devices -> Seq(BOOLEAN)]
           /\ tx \in [Devices -> SUBSET Frame]
           /\ stack[d] \in Seq(Call) /\ stack[d] # << >> /\ Pop(stack[d]) \in Seq(Call)
           /\ Top(stack[d]) \in WriteRecord /\ Top(stack[d]) \in Call /\ Top(stack[d]).m \in Frame
           /\ Top(stack[d]).ok \in BOOLEAN /\ Top(stack[d]).ack \in BOOLEAN
           /\ Top(stack[d]).tries \in Nat
           /\ WriteIs(d, Top(stack[d]), repeated)
           /\ Sound(d, stack[d], repeated, outcome[d])
<1>1. TypeOK /\ Origin(d) /\ Stored(d) /\ Sound(d, stack[d], repeated, outcome[d])
  BY OriginParts DEF OriginInv
<1>2. /\ stack[d] \in Seq(Call) /\ stack[d] # << >> /\ Pop(stack[d]) \in Seq(Call)
      /\ Top(stack[d]) \in WriteRecord /\ Top(stack[d]).m \in Frame
      /\ Top(stack[d]).ok \in BOOLEAN /\ Top(stack[d]).ack \in BOOLEAN
      /\ Top(stack[d]).tries \in Nat
  BY <1>1, TopWriteType
<1>3. CallIs(d, Top(stack[d]), repeated) /\ Top(stack[d]).pc \in WritePC
  BY <1>1, <1>2, SoundPop DEF TopIs
<1> QED
  BY <1>1, <1>2, <1>3 DEF CallIs, TypeOK, Call

LEMMA WriteFragmentOrigin ==
    ASSUME OriginInv, NEW d \in Devices, WriteFragment(d)
    PROVE  \A e \in Devices : Origin(e)'
<1> DEFINE c == Top(stack[d])
           m == Fragment(c.m, c.k)
           w == WriteCall(m, c.ack)
<1>1. TopIs(d, WritePC)
  BY DEF WriteFragment, TopIs, WritePC
<1>2. /\ c.pc = "group" /\ c.k < Len(c.m.d)
      /\ stack' = [stack EXCEPT ![d] = Push(stack[d], w)]
      /\ UNCHANGED <<rx, cached, multi, tx, inbox, outcome, repeated>>
  BY DEF WriteFragment, TopIs
<1>3. /\ TypeOK /\ Origin(d) /\ Stored(d) /\ stack \in [Devices -> Seq(Call)]
      /\ stack[d] \in Seq(Call) /\ stack[d] # << >>
      /\ c \in WriteRecord /\ c \in Call /\ c.m \in Frame /\ c.ack \in BOOLEAN
      /\ WriteIs(d, c, repeated) /\ Sound(d, stack[d], repeated, outcome[d])
  BY <1>1, TopWrite
<1>4. m \in Frame /\ m.t = "frag" /\ m.s = c.m.s /\ m.r = c.m.r /\ m.n = Len(c.m.d) /\ Len(m.d) = 1
  <2>1. c.k \in Nat
    BY <1>3 DEF WriteRecord
  <2> HIDE DEF c
  <2>2. m \in Frame
    BY <1>2, <1>3, <2>1, FragmentType
  <2> QED
    BY <2>2 DEF Fragment, Frame
<1>5. c.m.t = "msg" /\ Len(c.m.d) > 1 /\ Own(d, c.m) /\ (~c.ack => c.m.r = Broadcast \/ Pair(c.m) \in repeated)
  BY <1>2, <1>3 DEF WriteIs
<1>6. Own(d, m)
  <2>1. c.m.s \in Devices /\ c.m \in Messages(c.m.s)
    BY <1>5 DEF Own, Real
  <2>2. Splits(c.m.s, c.m.r)
    BY <1>5, <2>1 DEF Messages, Splits, SentTo, Written
  <2> HIDE DEF m, c
  <2> QED
    BY <1>4, <1>5, <2>1, <2>2 DEF Own, Real
<1> HIDE DEF m, c
<1>7. w \in Call /\ w.pc = "drain" /\ w.m = m /\ CallIs(d, w, repeated)
  <2>1. ~(Len(m.d) > 1) /\ (~c.ack => m.r = Broadcast \/ Pair(m) \in repeated)
    BY <1>4, <1>5 DEF Pair
  <2> QED
    BY <1>3, <1>4, <1>6, <2>1, NewWrite
<1> HIDE DEF w
<1>8. Made(d, c, w, repeated)
  BY <1>2, <1>4, <1>7 DEF Made, ReadPC
<1>9. Sound(d, Push(stack[d], w), repeated, outcome[d])
  BY <1>3, <1>7, <1>8, SoundPush DEF c
<1>10. OthersKept(d) /\ StoreKept(d) /\ stack'[d] = Push(stack[d], w)
  BY <1>2, <1>3 DEF OthersKept, StoreKept, Others
<1>11. Stored(d)'
  BY <1>2, <1>3 DEF Stored
<1> QED
  BY <1>2, <1>9, <1>10, <1>11, QuietOrigin

LEMMA ReturnOrigin ==
    ASSUME OriginInv, NEW d \in Devices, TopIs(d, WritePC), NEW ok \in BOOLEAN,
           ReturnWrite(d, Pop(stack[d]), ok), UNCHANGED <<cached, multi, tx, inbox, repeated>>
    PROVE  /\ Sound(d, stack'[d], repeated', outcome'[d])
           /\ OthersKept(d) /\ StoreKept(d) /\ Stored(d)'
<1>1. /\ TypeOK /\ Origin(d) /\ Stored(d) /\ stack[d] # << >> /\ Pop(stack[d]) \in Seq(Call)
  BY TopWrite
<1>2. Sound(d, stack'[d], repeated', outcome'[d])
  BY <1>1, ReturnWriteSound
<1>3. \A e \in Others(d) : stack'[e] = stack[e] /\ outcome'[e] = outcome[e]
  BY <1>1, ReturnForms
<1> QED
  BY <1>1, <1>2, <1>3 DEF OthersKept, StoreKept, Stored

\* The top of a writer's stack moves on to c.
LEMMA MovesOrigin ==
    ASSUME OriginInv, NEW d \in Devices, TopIs(d, WritePC), NEW c \in Call, NEW rep,
           repeated \subseteq rep, c.pc \in {"collect", "await"}, c.m = Top(stack[d]).m,
           c.ack = Top(stack[d]).ack, Top(stack[d]).pc # "group", c.m.t # "ack",
           c.tries > 0 => Pair(c.m) \in rep
    PROVE  /\ SetTop(stack[d], c) \in Seq(Call) /\ CallIs(d, c, rep)
           /\ Sound(d, SetTop(stack[d], c), rep, outcome[d])
<1>1. /\ stack[d] \in Seq(Call) /\ stack[d] # << >> /\ WriteIs(d, Top(stack[d]), repeated)
      /\ Sound(d, stack[d], repeated, outcome[d]) /\ Top(stack[d]).pc \in WritePC
  BY TopWrite DEF TopIs
<1>2. Sound(d, stack[d], rep, outcome[d])
  BY <1>1, SoundMono
<1>3. WriteIs(d, c, rep)
  BY <1>1 DEF WriteIs
<1>4. c.pc \in WritePC /\ c.pc \notin ReadPC
  BY DEF WritePC, ReadPC
<1>5. CallIs(d, c, rep)
  BY <1>3, <1>4 DEF CallIs
<1> QED
  BY <1>1, <1>2, <1>4, <1>5, SoundSetTop, SetTopProperties


LEMMA WriteGroupDoneOrigin ==
    ASSUME OriginInv, NEW d \in Devices, WriteGroupDone(d)
    PROVE  \A e \in Devices : Origin(e)'
<1>1. TopIs(d, WritePC)
  BY DEF WriteGroupDone, TopIs, WritePC
<1>2. /\ ReturnWrite(d, Pop(stack[d]), Top(stack[d]).ok)
      /\ UNCHANGED <<rx, cached, multi, tx, inbox, repeated>>
  BY DEF WriteGroupDone
<1>3. Top(stack[d]).ok \in BOOLEAN
  BY <1>1, TopWrite
<1> QED
  BY <1>1, <1>2, <1>3, ReturnOrigin, QuietOrigin

LEMMA AwaitDoneOrigin ==
    ASSUME OriginInv, NEW d \in Devices, AwaitDone(d)
    PROVE  \A e \in Devices : Origin(e)'
<1>1. TopIs(d, WritePC)
  BY DEF AwaitDone, TopIs, WritePC
<1>2. /\ ReturnWrite(d, Pop(stack[d]), Top(stack[d]).ok)
      /\ UNCHANGED <<rx, cached, multi, tx, inbox, repeated>>
  BY DEF AwaitDone
<1>3. Top(stack[d]).ok \in BOOLEAN
  BY <1>1, TopWrite
<1> QED
  BY <1>1, <1>2, <1>3, ReturnOrigin, QuietOrigin

LEMMA CollectedOrigin ==
    ASSUME OriginInv, NEW d \in Devices, Collected(d)
    PROVE  \A e \in Devices : Origin(e)'
<1> DEFINE w == Top(stack[d])
           c == [w EXCEPT !.pc = "await"]
<1>1. TopIs(d, WritePC) /\ w.pc = "collect"
  BY DEF Collected, TopIs, WritePC
<1>2. /\ w \in WriteRecord /\ WriteIs(d, w, repeated) /\ stack \in [Devices -> Seq(Call)]
      /\ stack[d] # << >> /\ Stored(d)
  BY <1>1, TopWrite
<1>3. /\ stack' = [stack EXCEPT ![d] = SetTop(stack[d], c)]
      /\ UNCHANGED <<rx, cached, multi, tx, inbox, outcome, repeated>>
  BY DEF Collected
<1>4. c \in Call /\ c.pc = "await" /\ c.m = w.m /\ c.ack = w.ack /\ c.tries = w.tries
  <2> HIDE DEF w
  <2> QED
    BY <1>2 DEF WriteRecord, WritePC, Call
<1>5. c.m.t # "ack" /\ (c.tries > 0 => Pair(c.m) \in repeated)
  BY <1>1, <1>2, <1>4 DEF WriteIs
<1> HIDE DEF c
<1>6. Sound(d, SetTop(stack[d], c), repeated, outcome[d])
  BY <1>1, <1>4, <1>5, MovesOrigin
<1>7. OthersKept(d) /\ StoreKept(d) /\ Stored(d)' /\ stack'[d] = SetTop(stack[d], c)
  BY <1>2, <1>3 DEF OthersKept, StoreKept, Stored, Others
<1> QED
  BY <1>3, <1>6, <1>7, QuietOrigin

LEMMA RepeatOrigin ==
    ASSUME OriginInv, NEW d \in Devices, Repeat(d)
    PROVE  \A e \in Devices : Origin(e)'
<1> DEFINE w == Top(stack[d])
           c == [w EXCEPT !.tries = @ + 1]
           again == WriteCall(w.m, FALSE)
           rep == repeated \union {Pair(w.m)}
           s == SetTop(stack[d], c)
<1>1. TopIs(d, WritePC) /\ w.pc = "await"
  BY DEF Repeat, TopIs, WritePC
<1>2. /\ w \in WriteRecord /\ WriteIs(d, w, repeated) /\ stack \in [Devices -> Seq(Call)]
      /\ stack[d] # << >> /\ Stored(d) /\ w.m \in Frame /\ TypeOK
      /\ tx \in [Devices -> SUBSET Frame] /\ stack[d] \in Seq(Call)
  BY <1>1, TopWrite
<1>3. /\ stack' = [stack EXCEPT ![d] = Push(s, again)]
      /\ tx' = [tx EXCEPT ![d] = Remember(d, w.m)]
      /\ repeated' = rep
      /\ UNCHANGED <<rx, cached, multi, inbox, outcome>>
  BY DEF Repeat, Pair
<1>4. c \in Call /\ c.pc = "await" /\ c.m = w.m /\ c.ack = w.ack
  <2> HIDE DEF w
  <2> QED
    BY <1>1, <1>2 DEF WriteRecord, Call
<1>5. Own(d, w.m) /\ w.m.t # "ack" /\ Len(w.m.d) <= 1 /\ Len(w.m.d) \in Nat
  <2>1. w.m.d \in Seq(Unit)
    BY <1>2 DEF Frame
  <2> QED
    BY <1>1, <1>2, <2>1, LenProperties DEF WriteIs
<1>6. Pair(w.m) \in rep /\ repeated \subseteq rep
  OBVIOUS
<1> HIDE DEF w, c, rep
<1>7. Sound(d, s, rep, outcome[d]) /\ s \in Seq(Call)
  BY <1>1, <1>4, <1>5, <1>6, MovesOrigin DEF w
<1>8. again \in Call /\ again.pc = "drain" /\ again.m = w.m /\ CallIs(d, again, rep)
  <2>1. ~(Len(w.m.d) > 1)
    BY <1>5
  <2> QED
    BY <1>2, <1>5, <1>6, <2>1, NewWrite
<1>9. Top(s) = c /\ s # << >>
  BY <1>2, <1>4, SetTopProperties, EmptySeq
<1> HIDE DEF again, s
<1>10. Made(d, c, again, rep)
  BY <1>4, <1>6, <1>8 DEF Made, ReadPC
<1>11. Sound(d, Push(s, again), rep, outcome[d])
  BY <1>7, <1>8, <1>9, <1>10, SoundPush
<1>12. \A x \in Remember(d, w.m) : Own(d, x) /\ x.t \in {"msg", "resend"}
  BY <1>2, <1>5, RememberOwn
<1>13. OthersKept(d) /\ StoreKept(d) /\ Stored(d)' /\ stack'[d] = Push(s, again)
  BY <1>2, <1>3, <1>12 DEF OthersKept, StoreKept, Stored, Others
<1> QED
  BY <1>3, <1>6, <1>11, <1>13, QuietOrigin

LEMMA SendOrigin ==
    ASSUME OriginInv, NEW d \in Devices, Send(d)
    PROVE  \A e \in Devices : Origin(e)'
<1> DEFINE w == Top(stack[d])
           c == [w EXCEPT !.pc = "collect"]
<1>1. TopIs(d, WritePC) /\ w.pc = "drain"
  BY DEF Send, TopIs, WritePC
<1>2. /\ w \in WriteRecord /\ WriteIs(d, w, repeated) /\ stack \in [Devices -> Seq(Call)]
      /\ stack[d] # << >> /\ Stored(d) /\ w.m \in Frame /\ TypeOK
  BY <1>1, TopWrite
<1>3. /\ Transmit(d, w.m)
      /\ \/ w.ack /\ stack' = [stack EXCEPT ![d] = SetTop(stack[d], c)] /\ UNCHANGED outcome
         \/ ReturnWrite(d, Pop(stack[d]), TRUE)
      /\ UNCHANGED <<cached, multi, tx, inbox, repeated>>
  BY DEF Send
<1>4. c \in Call /\ c.pc = "collect" /\ c.m = w.m /\ c.ack = w.ack /\ c.tries = w.tries
  <2> HIDE DEF w
  <2> QED
    BY <1>2 DEF WriteRecord, WritePC, Call
<1>5. Own(d, w.m)
  BY <1>2 DEF WriteIs
<1>6. /\ Sound(d, stack'[d], repeated', outcome'[d])
      /\ OthersKept(d) /\ StoreKept(d) /\ Stored(d)'
  <2>1. CASE w.ack /\ stack' = [stack EXCEPT ![d] = SetTop(stack[d], c)] /\ UNCHANGED outcome
    <3>1. c.m.t # "ack" /\ (c.tries > 0 => Pair(c.m) \in repeated)
      BY <1>2, <1>4, <2>1 DEF WriteIs
    <3> HIDE DEF c
    <3>2. Sound(d, SetTop(stack[d], c), repeated, outcome[d])
      BY <1>1, <1>4, <3>1, MovesOrigin
    <3> QED
      BY <1>2, <1>3, <2>1, <3>2 DEF OthersKept, StoreKept, Stored, Others
  <2>2. CASE ReturnWrite(d, Pop(stack[d]), TRUE)
    BY <1>1, <1>3, <2>2, ReturnOrigin
  <2> QED
    BY <1>3, <2>1, <2>2
<1> HIDE DEF w, c
<1>7. ASSUME NEW e \in Devices, NEW p \in 1..Len(rx'[e])
      PROVE  Heard(e, rx'[e][p])
  <2>1. rx[e] \in Seq(Frame) /\ \A q \in 1..Len(rx[e]) : Heard(e, rx[e][q])
    BY DEF OriginInv, TypeOK, Origin
  <2>2. /\ e = d => rx'[e] = rx[e]
        /\ e # d => rx'[e] = rx[e] \/ rx'[e] = Append(rx[e], w.m) \/ rx'[e] = Append(rx[e], Damaged(w.m))
    BY <1>2, <1>3, Carried DEF Others
  <2>3. CASE rx'[e] = rx[e]
    BY <1>7, <2>1, <2>3
  <2>4. ASSUME e # d, NEW g \in Frame, rx'[e] = Append(rx[e], g), g = w.m \/ g = Damaged(w.m)
        PROVE  Heard(e, rx'[e][p])
    <3>1. Heard(e, g)
      BY <1>5, <2>4, DeviceAssumption DEF Heard, Foreigner, Own, Damaged, Frame
    <3>2. /\ Len(Append(rx[e], g)) = Len(rx[e]) + 1 /\ Append(rx[e], g)[Len(rx[e]) + 1] = g
          /\ \A q \in 1..Len(rx[e]) : Append(rx[e], g)[q] = rx[e][q]
          /\ Len(rx[e]) \in Nat
      BY <2>1, AppendProperties, LenProperties
    <3>3. p = Len(rx[e]) + 1 \/ p \in 1..Len(rx[e])
      BY <1>7, <2>4, <3>2
    <3> QED
      BY <2>1, <2>4, <3>1, <3>2, <3>3
  <2> QED
    BY <1>2, <2>2, <2>3, <2>4, DamagedType
<1>8. \A p \in 1..Len(cached'[d]) : cached'[d][p].t # "ack"
  BY <1>3 DEF OriginInv, Origin
<1>9. repeated \subseteq repeated'
  BY <1>3
<1> QED
  BY <1>6, <1>7, <1>8, <1>9, OriginLocal

\* The invariant is inductive.
LEMMA OriginStep ==
    ASSUME OriginInv, [Next]_vars
    PROVE  OriginInv'
<1>1. TypeOK'
  BY TypeStep DEF OriginInv
<1>2. ASSUME NEW d \in Devices, WriteStep(d)
      PROVE  \A e \in Devices : Origin(e)'
  BY <1>2, WriteFragmentOrigin, WriteGroupDoneOrigin, SendOrigin, CollectedOrigin, RepeatOrigin,
     AwaitDoneOrigin DEF WriteStep
<1>3. ASSUME NEW d \in Devices, Read(d) \/ WriteStep(d) \/ Write(d)
      PROVE  \A e \in Devices : Origin(e)'
  BY <1>2, <1>3, ReadOrigin, WriteOrigin
<1>4. ASSUME UNCHANGED vars
      PROVE  \A e \in Devices : Origin(e)'
  BY <1>4 DEF OriginInv, Origin, vars
<1>5. (\E d \in Devices : Read(d) \/ WriteStep(d) \/ Write(d)) \/ UNCHANGED vars
  BY DEF Next, Quiet
<1> QED
  BY <1>1, <1>3, <1>4, <1>5 DEF OriginInv

LEMMA OriginInit ==
    ASSUME Init
    PROVE  OriginInv
<1>1. TypeOK
  BY BoundAssumption DEF Init, TypeOK
<1>2. ASSUME NEW d \in Devices
      PROVE  Origin(d)
  <2>1. /\ stack[d] = << >> /\ rx[d] = << >> /\ tx[d] = {} /\ multi[d] = << >> /\ cached[d] = << >>
        /\ Len(<< >>) = 0
    BY DEF Init
  <2>2. Sound(d, << >>, repeated, outcome[d])
    BY <2>1 DEF Sound
  <2> QED
    BY <2>1, <2>2 DEF Origin
<1> QED
  BY <1>1, <1>2 DEF OriginInv

\* In every behaviour a request to resend is answered with a message that a program wrote,
\* never with a request: a device that itself is sent no split message never asks for one,
\* so that tx_vec holds nothing but messages for it.
THEOREM ResentIsData == Spec => []ResendIsData
<1>1. OriginInv => ResendIsData
  BY DEF OriginInv, Origin, Sound, Made, ResendIsData
<1> QED
  BY <1>1, OriginInit, OriginStep, PTL DEF Spec


-----------------------------------------------------------------------------
(* Counting in sequences.                                                  *)

\* The positions of q that hold a member of S, and how many there are.
Hits(q, S) == {p \in 1..Len(q) : q[p] \in S}
Number(q, S) == Cardinality(Hits(q, S))

LEMMA HitsFinite ==
    ASSUME NEW X, NEW q \in Seq(X), NEW S
    PROVE  IsFiniteSet(Hits(q, S)) /\ Number(q, S) \in Nat
<1>1. IsFiniteSet(1..Len(q))
  <2>1. 1 \in Int /\ Len(q) \in Int
    BY LenProperties
  <2> QED
    BY <2>1, FS_Interval
<1>2. Hits(q, S) \subseteq 1..Len(q)
  BY DEF Hits
<1>3. IsFiniteSet(Hits(q, S))
  BY <1>1, <1>2, FS_Subset
<1> QED
  BY <1>3, FS_CardinalityType DEF Number

LEMMA NumberNone ==
    ASSUME NEW q, NEW S, \A p \in 1..Len(q) : q[p] \notin S
    PROVE  Number(q, S) = 0
<1>1. Hits(q, S) = {}
  BY DEF Hits
<1> QED
  BY <1>1, FS_EmptySet DEF Number

LEMMA NumberSome ==
    ASSUME NEW X, NEW q \in Seq(X), NEW S, NEW p \in 1..Len(q), q[p] \in S
    PROVE  Number(q, S) >= 1
<1>1. IsFiniteSet(Hits(q, S)) /\ Number(q, S) \in Nat
  BY HitsFinite
<1>2. Hits(q, S) # {}
  BY DEF Hits
<1>3. Number(q, S) # 0
  BY <1>1, <1>2, FS_EmptySet DEF Number
<1> QED
  BY <1>1, <1>3

LEMMA NumberAppend ==
    ASSUME NEW X, NEW q \in Seq(X), NEW c \in X, NEW S
    PROVE  Number(Append(q, c), S) = Number(q, S) + IF c \in S THEN 1 ELSE 0
<1> DEFINE n == Len(q)
           t == Append(q, c)
<1>1. /\ n \in Nat /\ Len(t) = n + 1 /\ t[n + 1] = c /\ \A p \in 1..n : t[p] = q[p]
  BY AppendProperties, LenProperties
<1>2. IsFiniteSet(Hits(q, S)) /\ Cardinality(Hits(q, S)) \in Nat
  BY HitsFinite DEF Number
<1>3. CASE c \in S
  <2>1. Hits(t, S) = Hits(q, S) \union {n + 1}
    <3>1. ASSUME NEW p
          PROVE  p \in Hits(t, S) <=> p \in Hits(q, S) \union {n + 1}
      <4> HIDE DEF t, n
      <4>1. p \in 1..n + 1 <=> p \in 1..n \/ p = n + 1
        BY <1>1
      <4> QED
        BY <1>1, <1>3, <4>1 DEF Hits, n
    <3> QED
      BY <3>1
  <2>2. n + 1 \notin Hits(q, S)
    BY <1>1 DEF Hits
  <2>3. Cardinality(Hits(t, S)) = Cardinality(Hits(q, S)) + 1
    BY <1>2, <2>1, <2>2, FS_AddElement
  <2> QED
    BY <1>3, <2>3 DEF Number
<1>4. CASE c \notin S
  <2>1. Hits(t, S) = Hits(q, S)
    <3>1. ASSUME NEW p
          PROVE  p \in Hits(t, S) <=> p \in Hits(q, S)
      <4> HIDE DEF t, n
      <4>1. p \in 1..n + 1 <=> p \in 1..n \/ p = n + 1
        BY <1>1
      <4> QED
        BY <1>1, <1>4, <4>1 DEF Hits, n
    <3> QED
      BY <3>1
  <2> QED
    BY <1>2, <1>4, <2>1 DEF Number
<1> QED
  BY <1>3, <1>4

LEMMA NumberTail ==
    ASSUME NEW X, NEW q \in Seq(X), q # << >>, NEW S
    PROVE  Number(q, S) = Number(Tail(q), S) + IF Head(q) \in S THEN 1 ELSE 0
<1> DEFINE n == Len(q)
           t == Tail(q)
           H == {p + 1 : p \in Hits(t, S)}
<1>1. /\ n \in Nat /\ n > 0 /\ t \in Seq(X) /\ Len(t) = n - 1 /\ \A p \in 1..n - 1 : t[p] = q[p + 1]
      /\ Head(q) = q[1]
  BY HeadTailProperties, LenProperties, EmptySeq
<1>2. IsFiniteSet(Hits(t, S)) /\ Cardinality(Hits(t, S)) \in Nat
  BY <1>1, HitsFinite DEF Number
<1>3. IsFiniteSet(H) /\ Cardinality(H) = Cardinality(Hits(t, S))
  <2> DEFINE g == [p \in Hits(t, S) |-> p + 1]
  <2>1. Hits(t, S) \subseteq Nat
    BY <1>1 DEF Hits
  <2> HIDE DEF t
  <2>2. g \in Bijection(Hits(t, S), H)
    <3>1. g \in [Hits(t, S) -> H]
      OBVIOUS
    <3>2. \A a, b \in Hits(t, S) : g[a] = g[b] => a = b
      BY <2>1
    <3>3. \A y \in H : \E a \in Hits(t, S) : g[a] = y
      OBVIOUS
    <3> QED
      BY <3>1, <3>2, <3>3 DEF Bijection, Injection, Surjection, IsInjective
  <2> QED
    BY <1>2, <2>2, FS_Bijection DEF ExistsBijection
<1>4. ASSUME NEW p
      PROVE  p \in Hits(q, S) <=> p \in H \/ (p = 1 /\ Head(q) \in S)
  <2>1. ASSUME p \in Hits(q, S), p # 1
        PROVE  p \in H
    <3>1. p \in 1..n /\ q[p] \in S /\ p - 1 \in 1..n - 1 /\ p = (p - 1) + 1
      BY <1>1, <2>1 DEF Hits
    <3>2. p - 1 \in Hits(t, S)
      BY <1>1, <3>1 DEF Hits
    <3> QED
      BY <3>1, <3>2
  <2>2. ASSUME p \in H
        PROVE  p \in Hits(q, S)
    <3>1. PICK j \in Hits(t, S) : p = j + 1
      BY <2>2
    <3>2. j \in 1..n - 1 /\ t[j] \in S
      BY <1>1, <3>1 DEF Hits
    <3> QED
      BY <1>1, <3>1, <3>2 DEF Hits
  <2>3. p = 1 => (p \in Hits(q, S) <=> Head(q) \in S)
    BY <1>1 DEF Hits
  <2> QED
    BY <2>1, <2>2, <2>3
<1>5. 1 \notin H
  BY <1>1 DEF Hits
<1>6. CASE Head(q) \in S
  <2>1. Hits(q, S) = H \union {1}
    BY <1>4, <1>6
  <2>2. Cardinality(Hits(q, S)) = Cardinality(H) + 1
    <3> HIDE DEF H
    <3> QED
      BY <1>3, <1>5, <2>1, FS_AddElement
  <2> QED
    BY <1>3, <1>6, <2>2 DEF Number
<1>7. CASE Head(q) \notin S
  <2>1. Hits(q, S) = H
    BY <1>4, <1>7
  <2> QED
    BY <1>2, <1>3, <1>7, <2>1 DEF Number
<1> QED
  BY <1>6, <1>7

\* Counting in a stack.
LEMMA NumberTop ==
    ASSUME NEW X, NEW s \in Seq(X), s # << >>, NEW c \in X, NEW S
    PROVE  /\ Number(s, S) = Number(Pop(s), S) + IF Top(s) \in S THEN 1 ELSE 0
           /\ Number(SetTop(s, c), S) = Number(Pop(s), S) + IF c \in S THEN 1 ELSE 0
           /\ Number(Pop(s), S) \in Nat
<1>1. Pop(s) \in Seq(X) /\ Top(s) \in X /\ s = Append(Pop(s), Top(s)) /\ SetTop(s, c) = Append(Pop(s), c)
  BY PushPop, PopProperties, TopProperties DEF Push
<1>2. Number(Pop(s), S) \in Nat
  BY <1>1, HitsFinite
<1>3. \A x \in X : Number(Append(Pop(s), x), S) = Number(Pop(s), S) + IF x \in S THEN 1 ELSE 0
  BY <1>1, NumberAppend
<1> QED
  BY <1>1, <1>2, <1>3


-----------------------------------------------------------------------------
(* Every acknowledgement is awaited.                                       *)

\* Frames that d must acknowledge to s, the acknowledgements, the calls of d that write
\* them, and the calls of s that wait for one.
Data(s, d) == {f \in Frame : f.s = s /\ f.r = d /\ f.t \notin {"ack", "bad"}}
AcksOf(d, s) == {f \in Frame : f.t = "ack" /\ f.s = d /\ f.r = s}
Answers(d, s) == {c \in Call : c.pc = "drain" /\ c.m \in AcksOf(d, s)}
Waits(s, d) == {c \in Call : c.pc \in {"collect", "await"} /\ ~c.ok /\ c.m.s = s /\ c.m.r = d}

\* Frames from s to d that are not read, and acknowledgements that have not come back.
OnWay(s, d) == Number(rx[d], Data(s, d)) + Number(stack[d], Answers(d, s)) + Number(rx[s], AcksOf(d, s))
Waiting(s, d) == Number(stack[s], Waits(s, d))
Unrepeated(s, d) == <<s, d>> \notin repeated

\* While no frame from s to d was repeated, each of them is awaited by a call of its own.
Credit == \A s \in Devices : \A d \in Others(s) : Unrepeated(s, d) => OnWay(s, d) <= Waiting(s, d)

\* A step that keeps the account of s and d.
Balanced(s, d) == OnWay(s, d)' + Waiting(s, d) <= OnWay(s, d) + Waiting(s, d)'

LEMMA CountTypes ==
    ASSUME TypeOK, NEW s \in Devices, NEW d \in Devices
    PROVE  /\ Number(rx[d], Data(s, d)) \in Nat /\ Number(stack[d], Answers(d, s)) \in Nat
           /\ Number(rx[s], AcksOf(d, s)) \in Nat /\ Waiting(s, d) \in Nat /\ OnWay(s, d) \in Nat
<1>1. /\ rx[d] \in Seq(Frame) /\ rx[s] \in Seq(Frame)
      /\ stack[d] \in Seq(Call) /\ stack[s] \in Seq(Call)
  BY DEF TypeOK
<1>2. \A S : Number(rx[d], S) \in Nat /\ Number(rx[s], S) \in Nat
  BY <1>1, HitsFinite
<1>3. \A S : Number(stack[d], S) \in Nat /\ Number(stack[s], S) \in Nat
  BY <1>1, HitsFinite
<1> QED
  BY <1>2, <1>3 DEF OnWay, Waiting

\* A step of a that puts nothing on the bus keeps all accounts when it keeps its own.
LEMMA BalanceLocal ==
    ASSUME TypeOK, TypeOK', NEW a \in Devices,
           \A e \in Others(a) : rx'[e] = rx[e] /\ stack'[e] = stack[e],
           \A o \in Others(a) :
              Unrepeated(a, o)' => Number(rx'[a], AcksOf(o, a)) + Number(stack[a], Waits(a, o))
                                      <= Number(rx[a], AcksOf(o, a)) + Number(stack'[a], Waits(a, o)),
           \A o \in Others(a) :
              Number(rx'[a], Data(o, a)) + Number(stack'[a], Answers(a, o))
                 <= Number(rx[a], Data(o, a)) + Number(stack[a], Answers(a, o))
    PROVE  \A s \in Devices : \A d \in Others(s) : Unrepeated(s, d)' => Balanced(s, d)
<1> SUFFICES ASSUME NEW s \in Devices, NEW d \in Others(s), Unrepeated(s, d)'
             PROVE  Balanced(s, d)
  OBVIOUS
<1> DEFINE D == Number(rx[d], Data(s, d))
           D1 == Number(rx'[d], Data(s, d))
           A == Number(stack[d], Answers(d, s))
           A1 == Number(stack'[d], Answers(d, s))
           K == Number(rx[s], AcksOf(d, s))
           K1 == Number(rx'[s], AcksOf(d, s))
           W == Number(stack[s], Waits(s, d))
           W1 == Number(stack'[s], Waits(s, d))
<1>1. d \in Devices /\ d # s
  BY DEF Others
<1>2. {D, D1, A, A1, K, K1, W, W1} \subseteq Nat
  <2>1. /\ rx[d] \in Seq(Frame) /\ rx[s] \in Seq(Frame) /\ rx'[d] \in Seq(Frame) /\ rx'[s] \in Seq(Frame)
        /\ stack[d] \in Seq(Call) /\ stack[s] \in Seq(Call)
        /\ stack'[d] \in Seq(Call) /\ stack'[s] \in Seq(Call)
    BY <1>1 DEF TypeOK
  <2>2. \A S : /\ Number(rx[d], S) \in Nat /\ Number(rx[s], S) \in Nat
               /\ Number(rx'[d], S) \in Nat /\ Number(rx'[s], S) \in Nat
    BY <2>1, HitsFinite
  <2>3. \A S : /\ Number(stack[d], S) \in Nat /\ Number(stack[s], S) \in Nat
               /\ Number(stack'[d], S) \in Nat /\ Number(stack'[s], S) \in Nat
    BY <2>1, HitsFinite
  <2> QED
    BY <2>2, <2>3
<1>3. /\ OnWay(s, d) = D + A + K /\ Waiting(s, d) = W
      /\ OnWay(s, d)' = D1 + A1 + K1 /\ Waiting(s, d)' = W1
  BY DEF OnWay, Waiting
<1>4. CASE s = a
  <2>1. D1 = D /\ A1 = A
    BY <1>1, <1>4 DEF Others
  <2>2. K1 + W <= K + W1
    BY <1>4
  <2> HIDE DEF D, D1, A, A1, K, K1, W, W1
  <2> QED
    BY <1>2, <1>3, <2>1, <2>2 DEF Balanced
<1>5. CASE d = a
  <2>1. s \in Others(a) /\ K1 = K /\ W1 = W
    BY <1>1, <1>5 DEF Others
  <2>2. D1 + A1 <= D + A
    BY <1>5, <2>1
  <2> HIDE DEF D, D1, A, A1, K, K1, W, W1
  <2> QED
    BY <1>2, <1>3, <2>1, <2>2 DEF Balanced
<1>6. CASE s # a /\ d # a
  <2>1. D1 = D /\ A1 = A /\ K1 = K /\ W1 = W
    BY <1>1, <1>6 DEF Others
  <2> HIDE DEF D, D1, A, A1, K, K1, W, W1
  <2> QED
    BY <1>2, <1>3, <2>1 DEF Balanced
<1> QED
  BY <1>4, <1>5, <1>6

\* Pushing a call counts it.
LEMMA NumberPush ==
    ASSUME NEW X, NEW q \in Seq(X), NEW c \in X, NEW S
    PROVE  /\ Push(q, c) \in Seq(X)
           /\ Number(Push(q, c), S) = Number(q, S) + IF c \in S THEN 1 ELSE 0
           /\ Number(q, S) \in Nat
BY NumberAppend, HitsFinite, AppendProperties DEF Push

\* The stack to which a read returns counts like the stack of the read.
LEMMA ResumableCounts ==
    ASSUME NEW s \in Seq(Call), NEW b, Resumable(s, b), NEW a, NEW o
    PROVE  /\ Number(b, Waits(a, o)) = Number(s, Waits(a, o))
           /\ Number(b, Answers(a, o)) = Number(s, Answers(a, o))
<1> DEFINE c == Top(s)
<1>1. CASE b = s
  BY <1>1
<1>2. CASE s # << >> /\ c.pc = "drain" /\ b = SetTop(s, [c EXCEPT !.k = 1])
  <2> DEFINE e == [c EXCEPT !.k = 1]
  <2>1. c \in Call
    BY <1>2, TopProperties
  <2>2. e \in Call /\ e.pc = "drain" /\ e.m = c.m
    <3> HIDE DEF c
    <3> QED
      BY <1>2, <2>1, DrainNotes
  <2> HIDE DEF e
  <2>3. c \notin Waits(a, o) /\ e \notin Waits(a, o) /\ (c \in Answers(a, o) <=> e \in Answers(a, o))
    BY <1>2, <2>1, <2>2 DEF Waits, Answers
  <2> QED
    BY <1>2, <2>2, <2>3, NumberTop DEF e
<1>3. CASE s # << >> /\ c.pc \in {"enter", "ack", "loop"} /\ b = Pop(s)
  <2>1. c \in Call
    BY <1>3, TopProperties
  <2>2. c \notin Waits(a, o) /\ c \notin Answers(a, o)
    BY <1>3 DEF Waits, Answers
  <2> QED
    BY <1>3, <2>1, <2>2, NumberTop
<1> QED
  BY <1>1, <1>2, <1>3 DEF Resumable

\* The read that takes a frame owes one acknowledgement more, and has one frame less.
LEMMA TakenCounts ==
    ASSUME OriginInv, NEW a \in Devices, NEW b \in Seq(Call), Taken(a, b), NEW o \in Others(a)
    PROVE  /\ Number(rx'[a], AcksOf(o, a)) = Number(rx[a], AcksOf(o, a))
           /\ Number(stack'[a], Waits(a, o)) = Number(b, Waits(a, o))
           /\ Number(rx'[a], Data(o, a)) + Number(stack'[a], Answers(a, o))
                 = Number(rx[a], Data(o, a)) + Number(b, Answers(a, o))
<1> DEFINE f == Head(rx[a])
           m == Ack(a, f.s)
           w == WriteCall(m, FALSE)
<1>1. /\ rx[a] \in Seq(Frame) /\ rx[a] # << >> /\ rx'[a] = Tail(rx[a])
      /\ f \in Frame /\ f.r = a /\ f.t \notin {"ack", "bad"} /\ stack \in [Devices -> Seq(Call)]
  BY DEF Taken, OriginInv, TypeOK
<1>2. PICK r \in Call : r.pc = "ack" /\ stack'[a] = Push(Push(b, r), w)
  BY <1>1 DEF Taken
<1>3. m \in Frame /\ m.t = "ack" /\ m.s = a /\ m.r = f.s /\ ~(Len(m.d) > 1)
  BY <1>1, ShortType DEF Frame, Addresses, Ack, Short
<1>4. w \in Call /\ w.pc = "drain" /\ w.m = m
  <2> HIDE DEF m
  <2> QED
    BY <1>3, WriteCallType DEF WriteCall
<1> HIDE DEF f, m, w
<1>5. /\ f \notin AcksOf(o, a) /\ (f \in Data(o, a) <=> f.s = o)
      /\ r \notin Waits(a, o) /\ r \notin Answers(a, o) /\ w \notin Waits(a, o)
      /\ (w \in Answers(a, o) <=> f.s = o)
  BY <1>1, <1>2, <1>3, <1>4 DEF AcksOf, Data, Waits, Answers
<1>6. /\ Number(stack'[a], Waits(a, o)) = Number(b, Waits(a, o))
      /\ Number(stack'[a], Answers(a, o)) = Number(b, Answers(a, o)) + IF f.s = o THEN 1 ELSE 0
      /\ Number(b, Answers(a, o)) \in Nat
  <2>1. \A S : /\ Push(b, r) \in Seq(Call) /\ Number(b, S) \in Nat
               /\ Number(Push(b, r), S) = Number(b, S) + IF r \in S THEN 1 ELSE 0
    BY <1>2, NumberPush
  <2>2. \A S : Number(Push(Push(b, r), w), S) = Number(Push(b, r), S) + IF w \in S THEN 1 ELSE 0
    BY <1>4, <2>1, NumberPush
  <2>3. Number(stack'[a], Waits(a, o)) = Number(b, Waits(a, o))
    BY <1>2, <1>5, <2>1, <2>2
  <2>4. Number(stack'[a], Answers(a, o)) = Number(b, Answers(a, o)) + IF f.s = o THEN 1 ELSE 0
    BY <1>2, <1>5, <2>1, <2>2
  <2> QED
    BY <2>1, <2>3, <2>4
<1>7. /\ Number(rx[a], AcksOf(o, a)) = Number(rx'[a], AcksOf(o, a))
      /\ Number(rx[a], Data(o, a)) = Number(rx'[a], Data(o, a)) + IF f.s = o THEN 1 ELSE 0
      /\ Number(rx'[a], Data(o, a)) \in Nat
  <2>1. \A S : /\ Number(rx[a], S) = Number(rx'[a], S) + IF f \in S THEN 1 ELSE 0
               /\ Number(rx'[a], S) \in Nat
    <3>1. \A S : Number(rx[a], S) = Number(Tail(rx[a]), S) + IF f \in S THEN 1 ELSE 0
      BY <1>1, NumberTail DEF f
    <3>2. Tail(rx[a]) \in Seq(Frame)
      BY <1>1, HeadTailProperties
    <3>3. \A S : Number(Tail(rx[a]), S) \in Nat
      BY <3>2, HitsFinite
    <3> QED
      BY <1>1, <3>1, <3>3
  <2> QED
    BY <1>5, <2>1
<1> QED
  BY <1>6, <1>7

\* A read takes no frame but the first of the serial buffer, or empties the buffer.
LEMMA FewerFrames ==
    ASSUME TypeOK, NEW a \in Devices, ReadShape(a), NEW S
    PROVE  Number(rx'[a], S) <= Number(rx[a], S)
<1>1. rx[a] \in Seq(Frame)
  BY DEF TypeOK
<1>2. Number(rx[a], S) \in Nat
  BY <1>1, HitsFinite
<1>3. CASE rx'[a] = rx[a]
  BY <1>2, <1>3
<1>4. CASE rx[a] # << >> /\ rx'[a] = Tail(rx[a])
  <2>1. Tail(rx[a]) \in Seq(Frame)
    BY <1>1, <1>4, HeadTailProperties
  <2>2. Number(Tail(rx[a]), S) \in Nat
    BY <2>1, HitsFinite
  <2>3. Number(rx[a], S) = Number(Tail(rx[a]), S) + IF Head(rx[a]) \in S THEN 1 ELSE 0
    BY <1>1, <1>4, NumberTail
  <2> QED
    BY <1>4, <2>2, <2>3
<1>5. CASE rx'[a] = << >>
  <2>1. Number(<< >>, S) = 0
    <3>1. Len(<< >>) = 0
      OBVIOUS
    <3> QED
      BY <3>1, NumberNone
  <2> QED
    BY <1>2, <1>5, <2>1
<1> QED
  BY <1>3, <1>4, <1>5, ReadBuffers

\* An acknowledgement that a read returns comes straight from the bus.
LEMMA AckFromBus ==
    ASSUME OriginInv, NEW a \in Devices, NEW b, NEW c, NEW x, x.t = "ack",
           FromCache(a, b, c, x) \/ FromBus(a, c, x) \/ FromCall(a, b, c, x) \/ Joined(a, c, x)
    PROVE  FromBus(a, c, x)
<1>1. /\ Origin(a) /\ cached[a] \in Seq(Frame) /\ stack[a] \in Seq(Call)
  BY DEF OriginInv, TypeOK
<1>2. ~FromCache(a, b, c, x)
  <2>1. SUFFICES ASSUME FromCache(a, b, c, x)
                 PROVE  FALSE
    OBVIOUS
  <2>2. cached[a] # << >> /\ x = Head(cached[a])
    BY <2>1 DEF FromCache
  <2>3. x = cached[a][1] /\ 1 \in 1..Len(cached[a])
    BY <1>1, <2>2, HeadTailProperties, EmptySeq, LenProperties
  <2> QED
    BY <1>1, <2>3 DEF Origin
<1>3. ~FromCall(a, b, c, x)
  <2>1. SUFFICES ASSUME FromCall(a, b, c, x)
                 PROVE  FALSE
    OBVIOUS
  <2>2. stack[a] # << >> /\ Top(stack[a]).pc = "ack" /\ x = Top(stack[a]).m
    BY <2>1 DEF FromCall, TopIs
  <2>3. CallIs(a, Top(stack[a]), repeated)
    BY <1>1, <2>2, SoundPop DEF Origin
  <2> QED
    BY <2>2, <2>3 DEF CallIs, ReadIs, ReadPC
<1>4. ~Joined(a, c, x)
  BY DEF Joined
<1> QED
  BY <1>2, <1>3, <1>4

\* The read that returns a message has taken the acknowledgement that its caller waits for,
\* if the caller has got it.
LEMMA ReturnedCounts ==
    ASSUME OriginInv, NEW a \in Devices, ReadShape(a), NEW b \in Seq(Call), Returned(a, b), NEW o \in Others(a)
    PROVE  /\ Number(rx'[a], AcksOf(o, a)) + Number(b, Waits(a, o))
                 <= Number(rx[a], AcksOf(o, a)) + Number(stack'[a], Waits(a, o))
           /\ Number(stack'[a], Answers(a, o)) = Number(b, Answers(a, o))
<1>1. PICK c, x : /\ x \in Frame /\ ReturnMessage(a, b, c, x)
                  /\ FromCache(a, b, c, x) \/ FromBus(a, c, x) \/ FromCall(a, b, c, x) \/ Joined(a, c, x)
  BY DEF Returned
<1>2. /\ TypeOK /\ Origin(a) /\ stack \in [Devices -> Seq(Call)] /\ rx \in [Devices -> Seq(Frame)]
      /\ rx[a] \in Seq(Frame) /\ cached[a] \in Seq(Frame) /\ stack[a] \in Seq(Call)
  BY DEF OriginInv, TypeOK
<1>3. stack'[a] = ResumeStack(b, x)
  BY <1>1, <1>2 DEF ReturnMessage
<1>4. /\ Number(rx'[a], AcksOf(o, a)) <= Number(rx[a], AcksOf(o, a))
      /\ Number(rx'[a], AcksOf(o, a)) \in Nat /\ Number(rx[a], AcksOf(o, a)) \in Nat
  <2>1. rx'[a] \in Seq(Frame)
    <3>1. << >> \in Seq(Frame)
      OBVIOUS
    <3>2. rx[a] # << >> => Tail(rx[a]) \in Seq(Frame)
      BY <1>2, HeadTailProperties
    <3>3. rx'[a] = rx[a] \/ (rx[a] # << >> /\ rx'[a] = Tail(rx[a])) \/ rx'[a] = << >>
      BY <1>2, ReadBuffers
    <3> QED
      BY <1>2, <3>1, <3>2, <3>3
  <2> QED
    BY <1>2, <2>1, FewerFrames, HitsFinite
<1>5. \A S : Number(b, S) \in Nat
  BY HitsFinite
<1>6. CASE ResumeStack(b, x) = b
  BY <1>3, <1>4, <1>5, <1>6
<1>7. ASSUME b # << >>, NEW e \in Call, ResumeStack(b, x) = SetTop(b, e), e.pc = Top(b).pc, e.pc = "loop"
      PROVE  /\ Number(rx'[a], AcksOf(o, a)) + Number(b, Waits(a, o))
                   <= Number(rx[a], AcksOf(o, a)) + Number(stack'[a], Waits(a, o))
             /\ Number(stack'[a], Answers(a, o)) = Number(b, Answers(a, o))
  <2>1. \A S : /\ Number(b, S) = Number(Pop(b), S) + IF Top(b) \in S THEN 1 ELSE 0
               /\ Number(SetTop(b, e), S) = Number(Pop(b), S) + IF e \in S THEN 1 ELSE 0
    BY <1>7, NumberTop
  <2>2. /\ e \notin Waits(a, o) /\ e \notin Answers(a, o)
        /\ Top(b) \notin Waits(a, o) /\ Top(b) \notin Answers(a, o)
    BY <1>7 DEF Waits, Answers
  <2>3. /\ Number(SetTop(b, e), Waits(a, o)) = Number(b, Waits(a, o))
        /\ Number(SetTop(b, e), Answers(a, o)) = Number(b, Answers(a, o))
    BY <2>1, <2>2
  <2> QED
    BY <1>3, <1>4, <1>5, <1>7, <2>3
<1>8. ASSUME b # << >>, NEW e \in Call, ResumeStack(b, x) = SetTop(b, e), e.pc = Top(b).pc,
             e.m = Top(b).m, e.pc \in {"collect", "await"}, IsAckFor(Top(b), x), e.ok
      PROVE  /\ Number(rx'[a], AcksOf(o, a)) + Number(b, Waits(a, o))
                   <= Number(rx[a], AcksOf(o, a)) + Number(stack'[a], Waits(a, o))
             /\ Number(stack'[a], Answers(a, o)) = Number(b, Answers(a, o))
  <2>1. \A S : /\ Number(b, S) = Number(Pop(b), S) + IF Top(b) \in S THEN 1 ELSE 0
               /\ Number(SetTop(b, e), S) = Number(Pop(b), S) + IF e \in S THEN 1 ELSE 0
               /\ Number(Pop(b), S) \in Nat
    BY <1>8, NumberTop
  <2>2. e \notin Waits(a, o) /\ e \notin Answers(a, o) /\ Top(b) \notin Answers(a, o)
    BY <1>8 DEF Waits, Answers
  <2>3. x.t = "ack" /\ x.s = Top(b).m.r /\ x.r = Top(b).m.s
    BY <1>8 DEF IsAckFor
  <2>4. FromBus(a, c, x)
    BY <1>1, <2>3, AckFromBus
  <2>5. rx[a] # << >> /\ x = Head(rx[a]) /\ rx'[a] = Tail(rx[a])
    BY <1>2, <2>4 DEF FromBus
  <2>6. Number(rx[a], AcksOf(o, a)) = Number(rx'[a], AcksOf(o, a)) + IF x \in AcksOf(o, a) THEN 1 ELSE 0
    BY <1>2, <2>5, NumberTail
  <2>7. Top(b) \in Waits(a, o) => x \in AcksOf(o, a)
    BY <1>1, <2>3 DEF Waits, AcksOf
  <2>8. Number(SetTop(b, e), Answers(a, o)) = Number(b, Answers(a, o))
    BY <2>1, <2>2
  <2>9. Number(rx'[a], AcksOf(o, a)) + Number(b, Waits(a, o))
            <= Number(rx[a], AcksOf(o, a)) + Number(SetTop(b, e), Waits(a, o))
    BY <1>4, <2>1, <2>2, <2>6, <2>7
  <2> QED
    BY <1>3, <1>8, <2>8, <2>9
<1> QED
  BY <1>1, <1>6, <1>7, <1>8, ResumeForms

\* A read that returns nothing, or makes further calls, leaves the account of its caller.
LEMMA SkippedCounts ==
    ASSUME OriginInv, NEW a \in Devices, NEW b \in Seq(Call), Skipped(a, b), NEW o \in Others(a)
    PROVE  /\ Number(stack'[a], Waits(a, o)) = Number(b, Waits(a, o))
           /\ Number(stack'[a], Answers(a, o)) = Number(b, Answers(a, o))
<1>1. stack \in [Devices -> Seq(Call)]
  BY DEF OriginInv, TypeOK
<1>2. \A t : stack' = [stack EXCEPT ![a] = t] => stack'[a] = t
  BY <1>1
<1>3. CASE stack' = [stack EXCEPT ![a] = b]
  BY <1>2, <1>3
<1>4. ASSUME NEW c \in Call, c.pc = "loop", stack' = [stack EXCEPT ![a] = Push(b, c)]
      PROVE  /\ Number(stack'[a], Waits(a, o)) = Number(b, Waits(a, o))
             /\ Number(stack'[a], Answers(a, o)) = Number(b, Answers(a, o))
  <2>1. c \notin Waits(a, o) /\ c \notin Answers(a, o)
    BY <1>4 DEF Waits, Answers
  <2>2. \A S : Number(Push(b, c), S) = Number(b, S) + (IF c \in S THEN 1 ELSE 0) /\ Number(b, S) \in Nat
    BY <1>4, NumberPush
  <2>3. stack'[a] = Push(b, c)
    BY <1>2, <1>4
  <2> QED
    BY <2>1, <2>2, <2>3
<1>5. ASSUME NEW r, NEW m, Suspended(a, b, r, m),
             stack' = [stack EXCEPT ![a] = Push(Push(b, r), WriteCall(m, TRUE))]
      PROVE  /\ Number(stack'[a], Waits(a, o)) = Number(b, Waits(a, o))
             /\ Number(stack'[a], Answers(a, o)) = Number(b, Answers(a, o))
  <2> DEFINE w == WriteCall(m, TRUE)
  <2>1. r \in Call /\ r.pc \in {"enter", "nodata"} /\ m \in Frame /\ m.t # "ack"
    BY <1>5 DEF Suspended
  <2>2. w \in Call /\ w.pc \in {"group", "drain"} /\ w.m = m
    BY <2>1, WriteCallType DEF WriteCall
  <2>3. stack'[a] = Push(Push(b, r), w)
    BY <1>2, <1>5
  <2> HIDE DEF w
  <2>4. /\ r \notin Waits(a, o) /\ r \notin Answers(a, o)
        /\ w \notin Waits(a, o) /\ w \notin Answers(a, o)
    BY <2>1, <2>2 DEF Waits, Answers, AcksOf
  <2>5. \A S : /\ Push(b, r) \in Seq(Call) /\ Number(b, S) \in Nat
               /\ Number(Push(b, r), S) = Number(b, S) + IF r \in S THEN 1 ELSE 0
    BY <2>1, NumberPush
  <2>6. \A S : Number(Push(Push(b, r), w), S) = Number(Push(b, r), S) + IF w \in S THEN 1 ELSE 0
    BY <2>2, <2>5, NumberPush
  <2> QED
    BY <2>3, <2>4, <2>5, <2>6
<1> QED
  BY <1>3, <1>4, <1>5 DEF Skipped

LEMMA ReadBalance ==
    ASSUME OriginInv, TypeOK', NEW a \in Devices, Read(a)
    PROVE  \A s \in Devices : \A d \in Others(s) : Unrepeated(s, d)' => Balanced(s, d)
<1>1. TypeOK /\ Origin(a) /\ stack[a] \in Seq(Call) /\ rx[a] \in Seq(Frame)
  BY DEF OriginInv, TypeOK
<1>2. ReadShape(a)
  BY <1>1, ReadHasShape
<1>3. PICK b : Resumable(stack[a], b) /\ (Taken(a, b) \/ Returned(a, b) \/ Skipped(a, b))
  BY <1>2 DEF ReadShape
<1>4. b \in Seq(Call)
  BY <1>1, <1>3, ResumableSound DEF Origin
<1>5. \A e \in Others(a) : rx'[e] = rx[e] /\ stack'[e] = stack[e]
  BY <1>1, <1>2, ReadBuffers DEF OthersKept
<1>6. ASSUME NEW o \in Others(a)
      PROVE  /\ Number(rx'[a], AcksOf(o, a)) + Number(stack[a], Waits(a, o))
                   <= Number(rx[a], AcksOf(o, a)) + Number(stack'[a], Waits(a, o))
             /\ Number(rx'[a], Data(o, a)) + Number(stack'[a], Answers(a, o))
                   <= Number(rx[a], Data(o, a)) + Number(stack[a], Answers(a, o))
  <2>1. /\ Number(b, Waits(a, o)) = Number(stack[a], Waits(a, o))
        /\ Number(b, Answers(a, o)) = Number(stack[a], Answers(a, o))
    BY <1>1, <1>3, ResumableCounts
  <2>2. \A S : Number(rx[a], S) \in Nat
    BY <1>1, HitsFinite
  <2>3. rx'[a] \in Seq(Frame) /\ stack'[a] \in Seq(Call)
    BY DEF TypeOK
  <2>4. \A S : Number(rx'[a], S) \in Nat
    BY <2>3, HitsFinite
  <2>5. \A S : Number(stack'[a], S) \in Nat
    BY <2>3, HitsFinite
  <2>6. \A S : Number(stack[a], S) \in Nat
    BY <1>1, HitsFinite
  <2>7. \A S : Number(rx'[a], S) <= Number(rx[a], S)
    BY <1>1, <1>2, FewerFrames
  <2>8. CASE Taken(a, b)
    <3>1. /\ Number(rx'[a], AcksOf(o, a)) = Number(rx[a], AcksOf(o, a))
          /\ Number(stack'[a], Waits(a, o)) = Number(b, Waits(a, o))
          /\ Number(rx'[a], Data(o, a)) + Number(stack'[a], Answers(a, o))
                = Number(rx[a], Data(o, a)) + Number(b, Answers(a, o))
      BY <1>4, <2>8, TakenCounts
    <3> QED
      BY <2>1, <2>2, <2>4, <2>5, <2>6, <3>1
  <2>9. CASE Returned(a, b)
    <3>1. /\ Number(rx'[a], AcksOf(o, a)) + Number(b, Waits(a, o))
                 <= Number(rx[a], AcksOf(o, a)) + Number(stack'[a], Waits(a, o))
          /\ Number(stack'[a], Answers(a, o)) = Number(b, Answers(a, o))
      BY <1>2, <1>4, <2>9, ReturnedCounts
    <3>2. Number(rx'[a], Data(o, a)) <= Number(rx[a], Data(o, a))
      BY <2>7
    <3> QED
      BY <2>1, <2>2, <2>4, <2>5, <2>6, <3>1, <3>2
  <2>10. CASE Skipped(a, b)
    <3>1. /\ Number(stack'[a], Waits(a, o)) = Number(b, Waits(a, o))
          /\ Number(stack'[a], Answers(a, o)) = Number(b, Answers(a, o))
      BY <1>4, <2>10, SkippedCounts
    <3>2. /\ Number(rx'[a], Data(o, a)) <= Number(rx[a], Data(o, a))
          /\ Number(rx'[a], AcksOf(o, a)) <= Number(rx[a], AcksOf(o, a))
      BY <2>7
    <3> QED
      BY <2>1, <2>2, <2>4, <2>5, <2>6, <3>1, <3>2
  <2> QED
    BY <1>3, <2>8, <2>9, <2>10
<1> QED
  BY <1>1, <1>5, <1>6, BalanceLocal

-----------------------------------------------------------------------------
(* What a step of a write does to the stack and the bus.                   *)

\* A call of writeAIBusToSerial: the program's, or that for a fragment.
Begun(a) ==
    /\ stack[a] # << >> => Top(stack[a]).pc = "group"
    /\ \E c \in Call : /\ c.pc \in {"group", "drain"} /\ c.m.t # "ack"
                       /\ stack'[a] = Push(stack[a], c)
    /\ UNCHANGED <<rx, outcome>>

\* The frame goes out and is waited for, or nothing is left to read after it.
Moved(a) ==
    /\ stack[a] # << >>
    /\ \E c \in Call : /\ c.pc \in {"collect", "await"} /\ c.m = Top(stack[a]).m /\ c.ok = Top(stack[a]).ok
                       /\ stack'[a] = SetTop(stack[a], c)
                       /\ \/ Top(stack[a]).pc = "drain" /\ Top(stack[a]).ack /\ Transmit(a, c.m)
                          \/ Top(stack[a]).pc = "collect" /\ UNCHANGED rx
    /\ UNCHANGED outcome

\* The frame is written again.
Again(a) ==
    /\ stack[a] # << >> /\ Top(stack[a]).pc = "await" /\ Pair(Top(stack[a]).m) \in repeated'
    /\ \E c, w \in Call : /\ c.pc = "await" /\ c.m = Top(stack[a]).m /\ c.ok = Top(stack[a]).ok
                          /\ w.pc = "drain" /\ w.m = c.m /\ w.m.t # "ack"
                          /\ stack'[a] = Push(SetTop(stack[a], c), w)
    /\ UNCHANGED <<rx, outcome>>

\* A write returns: with the last fragment, without an acknowledgement to wait for, or
\* with one, or given up.
Ended(a) ==
    /\ stack[a] # << >>
    /\ LET w == Top(stack[a])
       IN \E ok \in BOOLEAN :
             /\ ReturnWrite(a, Pop(stack[a]), ok)
             /\ \/ w.pc = "group" /\ UNCHANGED rx
                \/ w.pc = "drain" /\ ~w.ack /\ Transmit(a, w.m)
                \/ w.pc = "await" /\ UNCHANGED rx /\ ok = w.ok /\ (w.ok \/ Pair(w.m) \in repeated)

WriteShape(a) ==
    /\ Begun(a) \/ Moved(a) \/ Again(a) \/ Ended(a)
    /\ \A e \in Others(a) : stack'[e] = stack[e] /\ outcome'[e] = outcome[e]
    /\ UNCHANGED <<cached, inbox>> /\ repeated \subseteq repeated'
    /\ losses' = 0 => losses = 0

LEMMA WriteStarts ==
    ASSUME OriginInv, NEW a \in Devices, Write(a)
    PROVE  WriteShape(a)
<1> DEFINE m == Script[a][Len(outcome[a]) + 1]
           w == WriteCall(m, m.r # Broadcast)
<1>1. /\ outcome \in [Devices -> Seq(BOOLEAN)] /\ stack \in [Devices -> Seq(Call)]
  BY DEF OriginInv, TypeOK
<1>2. /\ stack[a] = << >> /\ Len(outcome[a]) < Len(Script[a]) /\ stack' = [stack EXCEPT ![a] = <<w>>]
      /\ UNCHANGED <<rx, cached, inbox, outcome, repeated, losses>>
  BY DEF Write
<1>3. Len(outcome[a]) \in Nat /\ Len(Script[a]) \in Nat /\ Script[a] \in Seq(Frame)
  BY <1>1, ScriptAssumption, LenProperties
<1>4. Len(outcome[a]) + 1 \in 1..Len(Script[a])
  BY <1>2, <1>3
<1>5. m \in Frame /\ m.t = "msg"
  BY <1>3, <1>4, ElementOfSeq, ScriptAssumption
<1>6. w \in Call /\ w.pc \in {"group", "drain"} /\ w.m = m
  <2> HIDE DEF m
  <2>1. (m.r # Broadcast) \in BOOLEAN
    OBVIOUS
  <2> QED
    BY <1>5, <2>1, WriteCallType DEF WriteCall
<1> HIDE DEF m, w
<1>7. Push(stack[a], w) = <<w>>
  BY <1>2 DEF Push
<1>8. stack'[a] = <<w>> /\ \A e \in Others(a) : stack'[e] = stack[e]
  BY <1>1, <1>2 DEF Others
<1> QED
  BY <1>2, <1>5, <1>6, <1>7, <1>8 DEF WriteShape, Begun

LEMMA WriteMoves ==
    ASSUME OriginInv, NEW a \in Devices, WriteStep(a)
    PROVE  WriteShape(a)
<1> DEFINE w == Top(stack[a])
<1>1. TopIs(a, WritePC)
  BY DEF WriteStep, WriteFragment, WriteGroupDone, Send, Collected, Repeat, AwaitDone, TopIs, WritePC
<1>2. /\ TypeOK /\ stack \in [Devices -> Seq(Call)] /\ outcome \in [Devices -> Seq(BOOLEAN)]
      /\ stack[a] \in Seq(Call) /\ stack[a] # << >> /\ Pop(stack[a]) \in Seq(Call)
      /\ w \in WriteRecord /\ w \in Call /\ w.m \in Frame
      /\ w.ok \in BOOLEAN /\ w.ack \in BOOLEAN /\ w.tries \in Nat /\ WriteIs(a, w, repeated)
  BY <1>1, TopWrite
<1>3. \A t : stack' = [stack EXCEPT ![a] = t] =>
                stack'[a] = t /\ \A e \in Others(a) : stack'[e] = stack[e]
  BY <1>2 DEF Others
<1>4. \A ok \in BOOLEAN : ReturnWrite(a, Pop(stack[a]), ok) =>
         \A e \in Others(a) : stack'[e] = stack[e] /\ outcome'[e] = outcome[e]
  BY <1>2, ReturnForms
<1>5. \A pc \in WritePC : [w EXCEPT !.pc = pc] \in Call /\ \A f \in {"m", "ok"} : [w EXCEPT !.pc = pc][f] = w[f]
  <2> HIDE DEF w
  <2> QED
    BY <1>2 DEF WriteRecord, WritePC, Call
<1>12. Transmit(a, w.m) => (losses' = 0 => losses = 0)
  BY <1>2, Carried
<1>6. CASE WriteFragment(a)
  <2> DEFINE f == Fragment(w.m, w.k)
             c == WriteCall(f, w.ack)
  <2>1. /\ w.pc = "group" /\ w.k < Len(w.m.d) /\ stack' = [stack EXCEPT ![a] = Push(stack[a], c)]
        /\ UNCHANGED <<rx, cached, inbox, outcome, repeated, losses>>
    BY <1>6 DEF WriteFragment, TopIs
  <2>2. w.k \in Nat
    BY <1>2 DEF WriteRecord
  <2>3. f \in Frame /\ f.t = "frag"
    BY <1>2, <2>1, <2>2, FragmentType DEF Fragment
  <2>4. c \in Call /\ c.pc \in {"group", "drain"} /\ c.m = f
    <3> HIDE DEF f, w
    <3> QED
      BY <1>2, <2>3, WriteCallType DEF WriteCall
  <2> HIDE DEF c, f
  <2> QED
    BY <1>3, <2>1, <2>3, <2>4 DEF WriteShape, Begun
<1>7. CASE WriteGroupDone(a)
  <2>1. /\ w.pc = "group" /\ ReturnWrite(a, Pop(stack[a]), w.ok)
        /\ UNCHANGED <<rx, cached, inbox, repeated, losses>>
    BY <1>7 DEF WriteGroupDone, TopIs
  <2>2. Ended(a)
    BY <1>2, <2>1 DEF Ended
  <2> QED
    BY <1>2, <1>4, <2>1, <2>2 DEF WriteShape
<1>8. CASE Send(a)
  <2>1. /\ w.pc = "drain" /\ Transmit(a, w.m) /\ UNCHANGED <<cached, inbox, repeated>>
        /\ \/ /\ w.ack /\ UNCHANGED outcome
              /\ stack' = [stack EXCEPT ![a] = SetTop(stack[a], [w EXCEPT !.pc = "collect"])]
           \/ ~w.ack /\ ReturnWrite(a, Pop(stack[a]), TRUE)
    BY <1>8 DEF Send, TopIs
  <2>2. CASE ~w.ack /\ ReturnWrite(a, Pop(stack[a]), TRUE)
    <3>1. Ended(a)
      BY <1>2, <2>1, <2>2 DEF Ended
    <3> QED
      BY <1>4, <1>12, <2>1, <2>2, <3>1 DEF WriteShape
  <2>3. ASSUME w.ack, UNCHANGED outcome, stack' = [stack EXCEPT ![a] = SetTop(stack[a], [w EXCEPT !.pc = "collect"])]
        PROVE  WriteShape(a)
    <3> DEFINE c == [w EXCEPT !.pc = "collect"]
    <3>1. c \in Call /\ c.m = w.m /\ c.ok = w.ok /\ c.pc = "collect"
      <4>1. "collect" \in WritePC
        BY DEF WritePC
      <4>2. c.pc = "collect"
        <5> HIDE DEF w
        <5> QED
          BY <1>2 DEF WriteRecord
      <4> QED
        BY <1>5, <4>1, <4>2
    <3>2. stack'[a] = SetTop(stack[a], c) /\ \A e \in Others(a) : stack'[e] = stack[e]
      BY <1>3, <2>3
    <3>3. Moved(a)
      <4> HIDE DEF c
      <4>1. stack'[a] = SetTop(stack[a], c) /\ Transmit(a, c.m)
        BY <2>1, <3>1, <3>2
      <4> QED
        BY <1>2, <2>1, <2>3, <3>1, <4>1 DEF Moved
    <3> QED
      BY <1>12, <2>1, <2>3, <3>2, <3>3 DEF WriteShape
  <2> QED
    BY <2>1, <2>2, <2>3
<1>9. CASE Collected(a)
  <2> DEFINE c == [w EXCEPT !.pc = "await"]
  <2>1. /\ w.pc = "collect" /\ stack' = [stack EXCEPT ![a] = SetTop(stack[a], c)]
        /\ UNCHANGED <<rx, cached, inbox, outcome, repeated, losses>>
    BY <1>9 DEF Collected, TopIs
  <2>2. c \in Call /\ c.m = w.m /\ c.ok = w.ok /\ c.pc = "await"
    <3>1. "await" \in WritePC
      BY DEF WritePC
    <3>2. c.pc = "await"
      <4> HIDE DEF w
      <4> QED
        BY <1>2 DEF WriteRecord
    <3> QED
      BY <1>5, <3>1, <3>2
  <2>3. stack'[a] = SetTop(stack[a], c) /\ \A e \in Others(a) : stack'[e] = stack[e]
    BY <1>3, <2>1
  <2>4. Moved(a)
    <3> HIDE DEF c
    <3> QED
      BY <1>2, <2>1, <2>2, <2>3 DEF Moved
  <2> QED
    BY <2>1, <2>3, <2>4 DEF WriteShape
<1>10. CASE Repeat(a)
  <2> DEFINE c == [w EXCEPT !.tries = @ + 1]
             again == WriteCall(w.m, FALSE)
  <2>1. /\ w.pc = "await" /\ stack' = [stack EXCEPT ![a] = Push(SetTop(stack[a], c), again)]
        /\ repeated' = repeated \union {<<w.m.s, w.m.r>>}
        /\ UNCHANGED <<rx, cached, inbox, outcome, losses>>
    BY <1>10 DEF Repeat, TopIs
  <2>2. c \in Call /\ c.m = w.m /\ c.ok = w.ok /\ c.pc = "await"
    <3>1. w.pc = "await" /\ w \in WriteRecord
      BY <1>2, <2>1
    <3> HIDE DEF w
    <3>2. c \in WriteRecord
      BY <3>1 DEF WriteRecord
    <3>3. c.m = w.m /\ c.pc = "await"
      BY <3>1 DEF WriteRecord
    <3>4. c.ok = w.ok
      BY <3>1 DEF WriteRecord
    <3> QED
      BY <3>2, <3>3, <3>4 DEF Call
  <2>3. ~(Len(w.m.d) > 1) /\ w.m.t # "ack"
    <3>1. w.m.d \in Seq(Unit)
      BY <1>2 DEF Frame
    <3>2. Len(w.m.d) \in Nat /\ Len(w.m.d) <= 1
      BY <1>2, <2>1, <3>1, LenProperties DEF WriteIs
    <3> QED
      BY <1>2, <2>1, <3>2 DEF WriteIs
  <2>4. again \in Call /\ again.pc = "drain" /\ again.m = w.m
    <3> HIDE DEF w
    <3> QED
      BY <1>2, <2>3, WriteCallType DEF WriteCall
  <2>5. stack'[a] = Push(SetTop(stack[a], c), again) /\ \A e \in Others(a) : stack'[e] = stack[e]
    BY <1>3, <2>1
  <2>6. Pair(w.m) \in repeated'
    BY <2>1 DEF Pair
  <2>7. Again(a)
    <3> HIDE DEF c, again
    <3> QED
      BY <1>2, <2>1, <2>2, <2>3, <2>4, <2>5, <2>6 DEF Again
  <2> QED
    BY <2>1, <2>5, <2>7 DEF WriteShape
<1>11. CASE AwaitDone(a)
  <2>1. /\ w.pc = "await" /\ (w.ok \/ w.tries >= MaxRepeat) /\ ReturnWrite(a, Pop(stack[a]), w.ok)
        /\ UNCHANGED <<rx, cached, inbox, repeated, losses>>
    BY <1>11 DEF AwaitDone, TopIs
  <2>2. w.ok \/ Pair(w.m) \in repeated
    <3>1. w.tries >= MaxRepeat => w.tries > 0
      BY <1>2, BoundAssumption
    <3> QED
      BY <1>2, <2>1, <3>1 DEF WriteIs
  <2>3. Ended(a)
    BY <1>2, <2>1, <2>2 DEF Ended
  <2> QED
    BY <1>2, <1>4, <2>1, <2>3 DEF WriteShape
<1> QED
  BY <1>6, <1>7, <1>8, <1>9, <1>10, <1>11 DEF WriteStep

-----------------------------------------------------------------------------
(* Writing keeps the accounts.                                             *)

\* The call below a write that returns is counted as before.
LEMMA ReturnCounts ==
    ASSUME TypeOK, NEW a \in Devices, NEW s \in Seq(Call), NEW ok \in BOOLEAN, ReturnWrite(a, s, ok), NEW o
    PROVE  /\ Number(stack'[a], Waits(a, o)) = Number(s, Waits(a, o))
           /\ Number(stack'[a], Answers(a, o)) = Number(s, Answers(a, o))
<1>1. CASE s = << >>
  BY <1>1, ReturnForms
<1>2. CASE s # << >> /\ stack'[a] = s
  BY <1>2
<1>3. CASE s # << >> /\ Top(s).pc = "nodata" /\ stack'[a] = Pop(s)
  <2>1. Top(s) \notin Waits(a, o) /\ Top(s) \notin Answers(a, o)
    BY <1>3 DEF Waits, Answers
  <2>2. Top(s) \in Call
    BY <1>3, TopProperties
  <2>3. \A S : /\ Number(s, S) = Number(Pop(s), S) + IF Top(s) \in S THEN 1 ELSE 0
               /\ Number(Pop(s), S) \in Nat
    BY <1>3, <2>2, NumberTop
  <2> QED
    BY <1>3, <2>1, <2>3
<1>4. ASSUME s # << >>, Top(s).pc = "group", NEW c \in Call, stack'[a] = SetTop(s, c), c.pc = "group"
      PROVE  /\ Number(stack'[a], Waits(a, o)) = Number(s, Waits(a, o))
             /\ Number(stack'[a], Answers(a, o)) = Number(s, Answers(a, o))
  <2>1. /\ Top(s) \notin Waits(a, o) /\ Top(s) \notin Answers(a, o)
        /\ c \notin Waits(a, o) /\ c \notin Answers(a, o)
    BY <1>4 DEF Waits, Answers
  <2>2. \A S : /\ Number(s, S) = Number(Pop(s), S) + IF Top(s) \in S THEN 1 ELSE 0
               /\ Number(SetTop(s, c), S) = Number(Pop(s), S) + IF c \in S THEN 1 ELSE 0
    BY <1>4, NumberTop
  <2> QED
    BY <1>4, <2>1, <2>2
<1> QED
  BY <1>1, <1>2, <1>3, <1>4, ReturnForms

\* A frame on the bus reaches each device at most once, and damaged frames do not count.
LEMMA CarriedCounts ==
    ASSUME TypeOK, NEW a \in Devices, NEW f \in Frame, Transmit(a, f), NEW e \in Others(a),
           NEW S, \A g \in S : g.t # "bad"
    PROVE  Number(rx'[e], S) <= Number(rx[e], S) + IF f \in S THEN 1 ELSE 0
<1>1. rx[e] \in Seq(Frame)
  BY DEF TypeOK, Others
<1>2. Number(rx[e], S) \in Nat
  BY <1>1, HitsFinite
<1>3. CASE rx'[e] = rx[e]
  BY <1>2, <1>3
<1>4. CASE rx'[e] = Append(rx[e], f)
  <2>1. Number(Append(rx[e], f), S) = Number(rx[e], S) + IF f \in S THEN 1 ELSE 0
    BY <1>1, NumberAppend
  <2> QED
    BY <1>2, <1>4, <2>1
<1>5. CASE rx'[e] = Append(rx[e], Damaged(f))
  <2>1. Damaged(f) \in Frame /\ Damaged(f).t = "bad"
    BY DamagedType DEF Damaged, Frame
  <2>2. Number(Append(rx[e], Damaged(f)), S) = Number(rx[e], S) + IF Damaged(f) \in S THEN 1 ELSE 0
    BY <1>1, <2>1, NumberAppend
  <2>3. Damaged(f) \notin S
    BY <2>1
  <2> QED
    BY <1>2, <1>5, <2>2, <2>3
<1> QED
  BY <1>3, <1>4, <1>5, Carried

\* A step that transmits nothing.
LEMMA SilentBalance ==
    ASSUME TypeOK, TypeOK', NEW a \in Devices, UNCHANGED rx,
           \A e \in Others(a) : stack'[e] = stack[e],
           \A o \in Others(a) :
              Unrepeated(a, o)' => Number(stack[a], Waits(a, o)) <= Number(stack'[a], Waits(a, o)),
           \A o \in Others(a) : Number(stack'[a], Answers(a, o)) <= Number(stack[a], Answers(a, o))
    PROVE  \A s \in Devices : \A d \in Others(s) : Unrepeated(s, d)' => Balanced(s, d)
<1>1. rx[a] \in Seq(Frame) /\ stack[a] \in Seq(Call) /\ stack'[a] \in Seq(Call)
  BY DEF TypeOK
<1>2. \A S : Number(rx[a], S) \in Nat
  BY <1>1, HitsFinite
<1>3. \A S : Number(stack[a], S) \in Nat /\ Number(stack'[a], S) \in Nat
  BY <1>1, HitsFinite
<1>4. \A e \in Others(a) : rx'[e] = rx[e] /\ stack'[e] = stack[e]
  OBVIOUS
<1>5. ASSUME NEW o \in Others(a), Unrepeated(a, o)'
      PROVE  Number(rx'[a], AcksOf(o, a)) + Number(stack[a], Waits(a, o))
                <= Number(rx[a], AcksOf(o, a)) + Number(stack'[a], Waits(a, o))
  <2>1. Number(stack[a], Waits(a, o)) <= Number(stack'[a], Waits(a, o))
    BY <1>5
  <2> QED
    BY <1>2, <1>3, <2>1
<1>6. ASSUME NEW o \in Others(a)
      PROVE  Number(rx'[a], Data(o, a)) + Number(stack'[a], Answers(a, o))
                <= Number(rx[a], Data(o, a)) + Number(stack[a], Answers(a, o))
  <2>1. Number(stack'[a], Answers(a, o)) <= Number(stack[a], Answers(a, o))
    OBVIOUS
  <2> QED
    BY <1>2, <1>3, <2>1
<1> QED
  BY <1>4, <1>5, <1>6, BalanceLocal

\* A step that transmits f: it is awaited, or it is an acknowledgement that was owed, or
\* it is not counted.
LEMMA SpokenBalance ==
    ASSUME TypeOK, TypeOK', NEW a \in Devices, NEW f \in Frame, Transmit(a, f),
           f.t # "bad", f.s \in {a, Broadcast},
           \A e \in Others(a) : stack'[e] = stack[e],
           \A o \in Others(a) : Unrepeated(a, o)' =>
              Number(stack'[a], Waits(a, o)) = Number(stack[a], Waits(a, o)) + IF f \in Data(a, o) THEN 1 ELSE 0,
           \A o \in Others(a) :
              Number(stack[a], Answers(a, o)) = Number(stack'[a], Answers(a, o)) + IF f \in AcksOf(a, o) THEN 1 ELSE 0
    PROVE  \A s \in Devices : \A d \in Others(s) : Unrepeated(s, d)' => Balanced(s, d)
<1> SUFFICES ASSUME NEW s \in Devices, NEW d \in Others(s), Unrepeated(s, d)'
             PROVE  Balanced(s, d)
  OBVIOUS
<1> DEFINE D == Number(rx[d], Data(s, d))
           D1 == Number(rx'[d], Data(s, d))
           A == Number(stack[d], Answers(d, s))
           A1 == Number(stack'[d], Answers(d, s))
           K == Number(rx[s], AcksOf(d, s))
           K1 == Number(rx'[s], AcksOf(d, s))
           W == Number(stack[s], Waits(s, d))
           W1 == Number(stack'[s], Waits(s, d))
           isData == IF f \in Data(s, d) THEN 1 ELSE 0
           isAck == IF f \in AcksOf(d, s) THEN 1 ELSE 0
<1>1. d \in Devices /\ d # s
  BY DEF Others
<1>2. {D, D1, A, A1, K, K1, W, W1} \subseteq Nat
  <2>1. /\ rx[d] \in Seq(Frame) /\ rx[s] \in Seq(Frame) /\ rx'[d] \in Seq(Frame) /\ rx'[s] \in Seq(Frame)
        /\ stack[d] \in Seq(Call) /\ stack[s] \in Seq(Call)
        /\ stack'[d] \in Seq(Call) /\ stack'[s] \in Seq(Call)
    BY <1>1 DEF TypeOK
  <2>2. \A S : /\ Number(rx[d], S) \in Nat /\ Number(rx[s], S) \in Nat
               /\ Number(rx'[d], S) \in Nat /\ Number(rx'[s], S) \in Nat
    BY <2>1, HitsFinite
  <2>3. \A S : /\ Number(stack[d], S) \in Nat /\ Number(stack[s], S) \in Nat
               /\ Number(stack'[d], S) \in Nat /\ Number(stack'[s], S) \in Nat
    BY <2>1, HitsFinite
  <2> QED
    BY <2>2, <2>3
<1>3. /\ OnWay(s, d) = D + A + K /\ Waiting(s, d) = W
      /\ OnWay(s, d)' = D1 + A1 + K1 /\ Waiting(s, d)' = W1
  BY DEF OnWay, Waiting
<1>4. isData \in {0, 1} /\ isAck \in {0, 1} /\ (s # a => isData = 0) /\ (d # a => isAck = 0)
  BY <1>1, DeviceAssumption DEF Data, AcksOf
<1>5. D1 <= D + isData /\ K1 <= K + isAck
  <2>1. (\A g \in Data(s, d) : g.t # "bad") /\ (\A g \in AcksOf(d, s) : g.t # "bad")
    BY DEF Data, AcksOf
  <2>2. rx'[a] = rx[a]
    BY Carried
  <2>3. D1 <= D + isData
    <3>1. CASE d = a
      BY <1>1, <1>2, <1>4, <2>2, <3>1
    <3>2. CASE d # a
      <4>1. d \in Others(a)
        BY <1>1, <3>2 DEF Others
      <4> QED
        BY <2>1, <4>1, CarriedCounts
    <3> QED
      BY <3>1, <3>2
  <2>4. K1 <= K + isAck
    <3>1. CASE s = a
      BY <1>1, <1>2, <1>4, <2>2, <3>1
    <3>2. CASE s # a
      <4>1. s \in Others(a)
        BY <3>2 DEF Others
      <4> QED
        BY <2>1, <4>1, CarriedCounts
    <3> QED
      BY <3>1, <3>2
  <2> QED
    BY <2>3, <2>4
<1>6. A = A1 + isAck
  <2>1. CASE d = a
    <3>1. s \in Others(a)
      BY <1>1, <2>1 DEF Others
    <3> QED
      BY <2>1, <3>1
  <2>2. CASE d # a
    BY <1>1, <1>2, <1>4, <2>2 DEF Others
  <2> QED
    BY <2>1, <2>2
<1>7. W1 = W + isData
  <2>1. CASE s = a
    <3>1. d \in Others(a) /\ Unrepeated(a, d)'
      BY <2>1
    <3> QED
      BY <2>1, <3>1
  <2>2. CASE s # a
    BY <1>2, <1>4, <2>2 DEF Others
  <2> QED
    BY <2>1, <2>2
<1> HIDE DEF D, D1, A, A1, K, K1, W, W1, isData, isAck
<1> QED
  BY <1>2, <1>3, <1>4, <1>5, <1>6, <1>7 DEF Balanced

LEMMA WriteBalance ==
    ASSUME OriginInv, TypeOK', NEW a \in Devices, WriteShape(a)
    PROVE  \A s \in Devices : \A d \in Others(s) : Unrepeated(s, d)' => Balanced(s, d)
<1> DEFINE w == Top(stack[a])
<1>1. /\ TypeOK /\ stack[a] \in Seq(Call) /\ Sound(a, stack[a], repeated, outcome[a])
  BY DEF OriginInv, Origin, TypeOK
<1>2. (\A e \in Others(a) : stack'[e] = stack[e]) /\ repeated \subseteq repeated'
  BY DEF WriteShape
<1>3. \A S : Number(stack[a], S) \in Nat
  BY <1>1, HitsFinite
<1>4. stack[a] # << >> =>
         /\ w \in Call /\ w.m \in Frame /\ CallIs(a, w, repeated) /\ Pop(stack[a]) \in Seq(Call)
         /\ \A S : /\ Number(stack[a], S) = Number(Pop(stack[a]), S) + IF w \in S THEN 1 ELSE 0
                   /\ Number(Pop(stack[a]), S) \in Nat
         /\ \A c \in Call : \A S :
               /\ SetTop(stack[a], c) \in Seq(Call)
               /\ Number(SetTop(stack[a], c), S) = Number(Pop(stack[a]), S) + IF c \in S THEN 1 ELSE 0
  <2> SUFFICES ASSUME stack[a] # << >>
               PROVE  /\ w \in Call /\ w.m \in Frame /\ CallIs(a, w, repeated) /\ Pop(stack[a]) \in Seq(Call)
                      /\ \A S : /\ Number(stack[a], S) = Number(Pop(stack[a]), S) + IF w \in S THEN 1 ELSE 0
                                /\ Number(Pop(stack[a]), S) \in Nat
                      /\ \A c \in Call : \A S :
                            /\ SetTop(stack[a], c) \in Seq(Call)
                            /\ Number(SetTop(stack[a], c), S) = Number(Pop(stack[a]), S) + IF c \in S THEN 1 ELSE 0
    OBVIOUS
  <2>1. w \in Call /\ Pop(stack[a]) \in Seq(Call)
    BY <1>1, TopProperties, PopProperties
  <2>2. w.m \in Frame
    BY <2>1 DEF Call, WriteRecord, ReadRecord
  <2>3. CallIs(a, w, repeated)
    BY <1>1, SoundPop
  <2>4. \A S : /\ Number(stack[a], S) = Number(Pop(stack[a]), S) + IF w \in S THEN 1 ELSE 0
               /\ Number(Pop(stack[a]), S) \in Nat
    BY <1>1, <2>1, NumberTop
  <2>5. ASSUME NEW c \in Call, NEW S
        PROVE  /\ SetTop(stack[a], c) \in Seq(Call)
               /\ Number(SetTop(stack[a], c), S) = Number(Pop(stack[a]), S) + IF c \in S THEN 1 ELSE 0
    BY <1>1, NumberTop, SetTopProperties
  <2> QED
    BY <2>1, <2>2, <2>3, <2>4, <2>5
<1>5. CASE Begun(a)
  <2>1. PICK c \in Call : c.pc \in {"group", "drain"} /\ c.m.t # "ack" /\ stack'[a] = Push(stack[a], c)
    BY <1>5 DEF Begun
  <2>2. \A o : c \notin Waits(a, o) /\ c \notin Answers(a, o)
    BY <2>1 DEF Waits, Answers, AcksOf
  <2>3. \A S : Number(Push(stack[a], c), S) = Number(stack[a], S) + IF c \in S THEN 1 ELSE 0
    BY <1>1, NumberPush
  <2>4. \A o : /\ Number(stack'[a], Waits(a, o)) = Number(stack[a], Waits(a, o))
               /\ Number(stack'[a], Answers(a, o)) = Number(stack[a], Answers(a, o))
    BY <1>3, <2>1, <2>2, <2>3
  <2>5. UNCHANGED rx
    BY <1>5 DEF Begun
  <2>6. \A o : /\ Number(stack[a], Waits(a, o)) <= Number(stack'[a], Waits(a, o))
               /\ Number(stack'[a], Answers(a, o)) <= Number(stack[a], Answers(a, o))
    BY <1>3, <2>4
  <2> QED
    BY <1>1, <1>2, <2>5, <2>6, SilentBalance
<1>6. CASE Moved(a)
  <2>1. PICK c \in Call : /\ c.pc \in {"collect", "await"} /\ c.m = w.m /\ c.ok = w.ok
                          /\ stack'[a] = SetTop(stack[a], c)
                          /\ \/ w.pc = "drain" /\ w.ack /\ Transmit(a, c.m)
                             \/ w.pc = "collect" /\ UNCHANGED rx
    BY <1>6 DEF Moved
  <2>2. stack[a] # << >>
    BY <1>6 DEF Moved
  <2>3. \A o : c \notin Answers(a, o)
    BY <2>1 DEF Answers
  <2>4. \A S : /\ Number(stack[a], S) = Number(Pop(stack[a]), S) + IF w \in S THEN 1 ELSE 0
               /\ Number(stack'[a], S) = Number(Pop(stack[a]), S) + IF c \in S THEN 1 ELSE 0
               /\ Number(Pop(stack[a]), S) \in Nat
    BY <1>4, <2>1, <2>2
  <2>5. CASE w.pc = "collect" /\ UNCHANGED rx
    <3>1. \A o : w \notin Answers(a, o) /\ (w \in Waits(a, o) => c \in Waits(a, o))
      BY <2>1, <2>5 DEF Answers, Waits
    <3>2. \A o : /\ Number(stack[a], Waits(a, o)) <= Number(stack'[a], Waits(a, o))
                 /\ Number(stack'[a], Answers(a, o)) <= Number(stack[a], Answers(a, o))
      BY <2>3, <2>4, <3>1
    <3> QED
      BY <1>1, <1>2, <2>5, <3>2, SilentBalance
  <2>6. CASE w.pc = "drain" /\ w.ack /\ Transmit(a, c.m)
    <3>1. c.m.t # "ack" /\ c.m.t # "bad" /\ c.m.s \in {a, Broadcast} /\ ~c.ok /\ c.m \in Frame
      BY <1>4, <2>1, <2>2, <2>6 DEF CallIs, WriteIs, WritePC, Own
    <3>2. \A o : /\ w \notin Waits(a, o) /\ w \notin Answers(a, o) /\ c.m \notin AcksOf(a, o)
                 /\ c \in Waits(a, o) <=> c.m \in Data(a, o)
      BY <2>1, <2>6, <3>1 DEF Waits, Answers, AcksOf, Data
    <3>3. \A o : /\ Number(stack'[a], Waits(a, o)) = Number(stack[a], Waits(a, o)) + IF c.m \in Data(a, o) THEN 1 ELSE 0
                 /\ Number(stack[a], Answers(a, o)) = Number(stack'[a], Answers(a, o)) + IF c.m \in AcksOf(a, o) THEN 1 ELSE 0
      BY <2>3, <2>4, <3>2
    <3> QED
      BY <1>1, <1>2, <2>6, <3>1, <3>3, SpokenBalance
  <2> QED
    BY <2>1, <2>5, <2>6
<1>7. CASE Again(a)
  <2>1. PICK c \in Call, x \in Call :
           /\ c.pc = "await" /\ c.m = w.m /\ c.ok = w.ok
           /\ x.pc = "drain" /\ x.m = c.m /\ x.m.t # "ack"
           /\ stack'[a] = Push(SetTop(stack[a], c), x)
    BY <1>7 DEF Again
  <2>2. stack[a] # << >> /\ w.pc = "await" /\ UNCHANGED rx
    BY <1>7 DEF Again
  <2>3. \A o : /\ c \notin Answers(a, o) /\ w \notin Answers(a, o) /\ x \notin Answers(a, o)
               /\ x \notin Waits(a, o) /\ (w \in Waits(a, o) => c \in Waits(a, o))
    BY <2>1, <2>2 DEF Answers, AcksOf, Waits
  <2>4. \A S : /\ Number(stack[a], S) = Number(Pop(stack[a]), S) + IF w \in S THEN 1 ELSE 0
               /\ Number(SetTop(stack[a], c), S) = Number(Pop(stack[a]), S) + IF c \in S THEN 1 ELSE 0
               /\ Number(Pop(stack[a]), S) \in Nat
               /\ SetTop(stack[a], c) \in Seq(Call)
    BY <1>4, <2>1, <2>2
  <2>5. \A S : Number(stack'[a], S) = Number(SetTop(stack[a], c), S) + IF x \in S THEN 1 ELSE 0
    BY <2>1, <2>4, NumberPush
  <2>6. \A o : /\ Number(stack[a], Waits(a, o)) <= Number(stack'[a], Waits(a, o))
               /\ Number(stack'[a], Answers(a, o)) <= Number(stack[a], Answers(a, o))
    BY <2>3, <2>4, <2>5
  <2> QED
    BY <1>1, <1>2, <2>2, <2>6, SilentBalance
<1>8. CASE Ended(a)
  <2>1. PICK ok \in BOOLEAN :
           /\ ReturnWrite(a, Pop(stack[a]), ok)
           /\ \/ w.pc = "group" /\ UNCHANGED rx
              \/ w.pc = "drain" /\ ~w.ack /\ Transmit(a, w.m)
              \/ w.pc = "await" /\ UNCHANGED rx /\ ok = w.ok /\ (w.ok \/ Pair(w.m) \in repeated)
    BY <1>8 DEF Ended
  <2>2. stack[a] # << >>
    BY <1>8 DEF Ended
  <2>3. \A o : /\ Number(stack'[a], Waits(a, o)) = Number(Pop(stack[a]), Waits(a, o))
               /\ Number(stack'[a], Answers(a, o)) = Number(Pop(stack[a]), Answers(a, o))
    BY <1>1, <1>4, <2>1, <2>2, ReturnCounts
  <2>4. \A S : /\ Number(stack[a], S) = Number(Pop(stack[a]), S) + IF w \in S THEN 1 ELSE 0
               /\ Number(Pop(stack[a]), S) \in Nat
    BY <1>4, <2>2
  <2>5. CASE w.pc \in {"group", "await"} /\ UNCHANGED rx /\ (w.pc = "await" => w.ok \/ Pair(w.m) \in repeated)
    <3>1. \A o : Unrepeated(a, o)' => w \notin Waits(a, o)
      BY <1>2, <2>5 DEF Unrepeated, Waits, Pair
    <3>2. \A o : Unrepeated(a, o)' => Number(stack[a], Waits(a, o)) <= Number(stack'[a], Waits(a, o))
      BY <2>3, <2>4, <3>1
    <3>3. \A o : Number(stack'[a], Answers(a, o)) <= Number(stack[a], Answers(a, o))
      BY <2>3, <2>4
    <3> QED
      BY <1>1, <1>2, <2>5, <3>2, <3>3, SilentBalance
  <2>6. CASE w.pc = "drain" /\ ~w.ack /\ Transmit(a, w.m)
    <3>1. /\ w.m.t # "bad" /\ w.m.s \in {a, Broadcast} /\ w.m \in Frame
          /\ w.m.t # "ack" => w.m.r = Broadcast \/ Pair(w.m) \in repeated
      BY <1>4, <2>2, <2>6 DEF CallIs, WriteIs, WritePC, Own
    <3>2. \A o : /\ w \notin Waits(a, o)
                 /\ w \in Answers(a, o) <=> w.m \in AcksOf(a, o)
      BY <1>4, <2>2, <2>6 DEF Waits, Answers
    <3>3. \A o \in Others(a) : Unrepeated(a, o)' => w.m \notin Data(a, o)
      BY <1>2, <3>1, DeviceAssumption DEF Unrepeated, Data, Pair, Others
    <3>4. \A o \in Others(a) : Unrepeated(a, o)' =>
             Number(stack'[a], Waits(a, o)) = Number(stack[a], Waits(a, o)) + IF w.m \in Data(a, o) THEN 1 ELSE 0
      BY <2>3, <2>4, <3>2, <3>3
    <3>5. \A o \in Others(a) :
             Number(stack[a], Answers(a, o)) = Number(stack'[a], Answers(a, o)) + IF w.m \in AcksOf(a, o) THEN 1 ELSE 0
      BY <2>3, <2>4, <3>2
    <3> HIDE DEF w
    <3> QED
      BY <1>1, <1>2, <2>6, <3>1, <3>4, <3>5, SpokenBalance
  <2> QED
    BY <2>1, <2>5, <2>6
<1> QED
  BY <1>5, <1>6, <1>7, <1>8 DEF WriteShape

\* While no frame of a pair is repeated, none is on its way that nobody waits for.
LEMMA CreditStep ==
    ASSUME OriginInv, TypeOK', Credit, [Next]_vars
    PROVE  /\ Credit'
           /\ \A s \in Devices : \A d \in Others(s) : Unrepeated(s, d)' => Unrepeated(s, d) /\ Balanced(s, d)
<1>1. repeated \subseteq repeated'
  <2>1. ASSUME NEW a \in Devices, Read(a)
        PROVE  repeated \subseteq repeated'
    BY <2>1, ReadHasShape DEF OriginInv, ReadShape
  <2>2. ASSUME NEW a \in Devices, Write(a) \/ WriteStep(a)
        PROVE  repeated \subseteq repeated'
    BY <2>2, WriteStarts, WriteMoves DEF WriteShape
  <2>3. CASE UNCHANGED vars
    BY <2>3 DEF vars
  <2> QED
    BY <2>1, <2>2, <2>3 DEF Next, Quiet
<1>2. \A s \in Devices : \A d \in Others(s) : Unrepeated(s, d)' => Balanced(s, d)
  <2>1. ASSUME NEW a \in Devices, Read(a)
        PROVE  \A s \in Devices : \A d \in Others(s) : Unrepeated(s, d)' => Balanced(s, d)
    BY <2>1, ReadBalance
  <2>2. ASSUME NEW a \in Devices, Write(a) \/ WriteStep(a)
        PROVE  \A s \in Devices : \A d \in Others(s) : Unrepeated(s, d)' => Balanced(s, d)
    BY <2>2, WriteStarts, WriteMoves, WriteBalance
  <2>3. ASSUME UNCHANGED vars, NEW s \in Devices, NEW d \in Others(s)
        PROVE  Balanced(s, d)
    <3>1. OnWay(s, d)' = OnWay(s, d) /\ Waiting(s, d)' = Waiting(s, d)
      BY <2>3 DEF vars, OnWay, Waiting
    <3>2. OnWay(s, d) \in Nat /\ Waiting(s, d) \in Nat
      BY CountTypes DEF OriginInv, Others
    <3> QED
      BY <3>1, <3>2 DEF Balanced
  <2> QED
    BY <2>1, <2>2, <2>3 DEF Next, Quiet
<1>3. ASSUME NEW s \in Devices, NEW d \in Others(s), Unrepeated(s, d)'
      PROVE  Unrepeated(s, d) /\ Balanced(s, d) /\ OnWay(s, d)' <= Waiting(s, d)'
  <2>1. Unrepeated(s, d) /\ Balanced(s, d)
    BY <1>1, <1>2, <1>3 DEF Unrepeated
  <2>2. OnWay(s, d) <= Waiting(s, d)
    BY <2>1 DEF Credit
  <2>3. /\ OnWay(s, d) \in Nat /\ Waiting(s, d) \in Nat
        /\ OnWay(s, d)' \in Nat /\ Waiting(s, d)' \in Nat
    <3>1. d \in Devices
      BY DEF Others
    <3>2. OnWay(s, d) \in Nat /\ Waiting(s, d) \in Nat
      BY <3>1, CountTypes DEF OriginInv
    <3>3. OnWay(s, d)' \in Nat /\ Waiting(s, d)' \in Nat
      <4>1. /\ rx'[d] \in Seq(Frame) /\ rx'[s] \in Seq(Frame)
            /\ stack'[d] \in Seq(Call) /\ stack'[s] \in Seq(Call)
        BY <3>1 DEF TypeOK
      <4>2. \A S : Number(rx'[d], S) \in Nat /\ Number(rx'[s], S) \in Nat
        BY <4>1, HitsFinite
      <4>3. \A S : Number(stack'[d], S) \in Nat /\ Number(stack'[s], S) \in Nat
        BY <4>1, HitsFinite
      <4> QED
        BY <4>2, <4>3 DEF OnWay, Waiting
    <3> QED
      BY <3>2, <3>3
  <2> QED
    BY <2>1, <2>2, <2>3 DEF Balanced
<1> QED
  BY <1>3 DEF Credit

LEMMA CreditInit ==
    ASSUME Init
    PROVE  Credit
<1> SUFFICES ASSUME NEW s \in Devices, NEW d \in Others(s)
             PROVE  OnWay(s, d) <= Waiting(s, d)
  BY DEF Credit
<1>1. d \in Devices
  BY DEF Others
<1>2. rx[d] = << >> /\ rx[s] = << >> /\ stack[d] = << >> /\ stack[s] = << >>
  BY <1>1 DEF Init
<1>3. \A S : Number(<< >>, S) = 0
  <2>1. Len(<< >>) = 0
    OBVIOUS
  <2> QED
    BY <2>1, NumberNone
<1> QED
  BY <1>2, <1>3 DEF OnWay, Waiting

-----------------------------------------------------------------------------
(* A message is not lost inside its receiver.                              *)

\* Messages from another device to d.
Mail(d) == {f \in Frame : f.t = "msg" /\ f.s \in Others(d) /\ f.r = d}

\* m is with d's program, or next to be handed on; m is not read, or still being acknowledged.
Through(d, m) ==
    \/ \E p \in 1..Len(inbox[d]) : inbox[d][p] = m
    \/ \E p \in 1..Len(cached[d]) : cached[d][p] = m
    \/ stack[d] # << >> /\ Top(stack[d]).pc = "ack" /\ Top(stack[d]).m = m
Unread(d, m) == \E p \in 1..Len(rx[d]) : rx[d][p] = m
Pending(d, m) ==
    \/ Unread(d, m)
    \/ \E p \in 1..Len(stack[d]) - 1 : stack[d][p].pc = "ack" /\ stack[d][p].m = m

\* cached_vec has room, and no device is in the blocking loop over a message to everyone,
\* which drops what comes for the device itself.
CanKeep ==
    \A d \in Devices : /\ Len(cached[d]) < CacheSize
                       /\ \A p \in 1..Len(stack[d]) : stack[d][p].pc = "loop" => stack[d][p].m.r = d

\* What was in a sequence is still there when it grows.
LEMMA AppendKeeps ==
    ASSUME NEW X, NEW q \in Seq(X), NEW x \in X
    PROVE  /\ Append(q, x) \in Seq(X)
           /\ \A m : (\E p \in 1..Len(q) : q[p] = m) => \E p \in 1..Len(Append(q, x)) : Append(q, x)[p] = m
           /\ Len(Append(q, x)) \in 1..Len(Append(q, x)) /\ Append(q, x)[Len(Append(q, x))] = x
<1> DEFINE n == Len(q)
           t == Append(q, x)
<1>1. n \in Nat /\ t \in Seq(X) /\ Len(t) = n + 1 /\ t[n + 1] = x /\ \A p \in 1..n : t[p] = q[p]
  BY AppendProperties, LenProperties
<1> HIDE DEF n, t
<1>2. n + 1 \in 1..Len(t) /\ \A p \in 1..n : p \in 1..Len(t)
  BY <1>1
<1> QED
  BY <1>1, <1>2 DEF n, t

\* What a read returns leaves what its caller had.
LEMMA Remains ==
    ASSUME TypeOK, NEW d \in Devices, NEW b, NEW c \in Seq(Frame), NEW x \in Frame, ReturnMessage(d, b, c, x)
    PROVE  \A m : /\ (\E p \in 1..Len(inbox[d]) : inbox[d][p] = m)
                        => \E p \in 1..Len(inbox'[d]) : inbox'[d][p] = m
                  /\ (\E p \in 1..Len(c) : c[p] = m)
                        => \E p \in 1..Len(cached'[d]) : cached'[d][p] = m
<1>1. /\ inbox \in [Devices -> Seq(Frame)] /\ cached \in [Devices -> Seq(Frame)] /\ inbox[d] \in Seq(Frame)
  BY DEF TypeOK
<1>2. inbox'[d] = ResumeInbox(d, b, x) /\ cached'[d] = ResumeCached(d, c, b, x)
  BY <1>1 DEF ReturnMessage
<1>3. inbox'[d] = inbox[d] \/ inbox'[d] = Append(inbox[d], x)
  BY <1>2 DEF ResumeInbox
<1>4. cached'[d] = c \/ cached'[d] = Append(c, x)
  BY <1>2 DEF ResumeCached, CacheMessage
<1>5. \A m : /\ (\E p \in 1..Len(inbox[d]) : inbox[d][p] = m)
                   => \E p \in 1..Len(Append(inbox[d], x)) : Append(inbox[d], x)[p] = m
             /\ (\E p \in 1..Len(c) : c[p] = m) => \E p \in 1..Len(Append(c, x)) : Append(c, x)[p] = m
  BY <1>1, AppendKeeps
<1> QED
  BY <1>3, <1>4, <1>5

\* A message for d that a read returns goes to the program or to the cache.
LEMMA Handed ==
    ASSUME TypeOK, NEW d \in Devices, NEW b \in Seq(Call), Reader(b), NEW rep, NEW out, Sound(d, b, rep, out),
           NEW c \in Seq(Frame), Len(c) < CacheSize,
           b # << >> /\ Top(b).pc = "loop" => Top(b).m.r = d,
           NEW m \in Mail(d), ReturnMessage(d, b, c, m)
    PROVE  \/ \E p \in 1..Len(inbox'[d]) : inbox'[d][p] = m
           \/ \E p \in 1..Len(cached'[d]) : cached'[d][p] = m
<1>1. /\ inbox \in [Devices -> Seq(Frame)] /\ cached \in [Devices -> Seq(Frame)] /\ inbox[d] \in Seq(Frame)
      /\ m \in Frame /\ m.t = "msg" /\ m.r = d /\ m.s \in Devices /\ m.s # d
  BY DEF TypeOK, Mail, Others
<1>2. inbox'[d] = ResumeInbox(d, b, m) /\ cached'[d] = ResumeCached(d, c, b, m)
  BY <1>1 DEF ReturnMessage
<1>5. \A q \in Seq(Frame) : Len(Append(q, m)) \in 1..Len(Append(q, m)) /\ Append(q, m)[Len(Append(q, m))] = m
  BY <1>1, AppendKeeps
<1>3. CASE b = << >>
  <2>1. inbox'[d] = Append(inbox[d], m)
    BY <1>1, <1>2, <1>3 DEF ResumeInbox
  <2> QED
    BY <1>1, <1>5, <2>1
<1>4. CASE b # << >>
  <2> DEFINE w == Top(b)
  <2>1. w.pc \in Reading /\ CallIs(d, w, rep)
    BY <1>4, SoundPop DEF Reader
  <2>2. CacheMessage(c, m) = Append(c, m)
    BY <1>1 DEF CacheMessage
  <2>3. CASE w.pc = "loop"
    <3>1. ~Continues(w, m) /\ m.r \in {w.m.r, Broadcast}
      BY <1>1, <1>4, <2>3 DEF Continues
    <3>2. cached'[d] = Append(c, m)
      BY <1>2, <1>4, <2>2, <2>3, <3>1 DEF ResumeCached
    <3> QED
      BY <1>5, <3>2
  <2>4. CASE w.pc \in {"drain", "collect", "await"}
    <3>1. w.m.s \in {d, Broadcast}
      BY <2>1, <2>4 DEF CallIs, WriteIs, WritePC, Own
    <3>2. ~IsAckFor(w, m) /\ Keeps(d, w, m)
      BY <1>1, <3>1, DeviceAssumption DEF IsAckFor, Keeps
    <3>3. cached'[d] = Append(c, m)
      BY <1>2, <1>4, <2>2, <2>4, <3>2 DEF ResumeCached
    <3> QED
      BY <1>5, <3>3
  <2> QED
    BY <2>1, <2>3, <2>4 DEF Reading
<1> QED
  BY <1>3, <1>4

\* The stack to which a read returns has the calls of the stack below its top.
LEMMA ResumableBelow ==
    ASSUME NEW s \in Seq(Call), NEW b, Resumable(s, b)
    PROVE  /\ b \in Seq(Call)
           /\ \A p \in 1..Len(s) - 1 : p \in 1..Len(b) /\ b[p] = s[p]
           /\ \A p \in 1..Len(b) : p \in 1..Len(s) /\ b[p].pc = s[p].pc /\ b[p].m = s[p].m
           /\ s # << >> /\ Top(s).pc = "ack" => b = Pop(s)
<1>1. Len(s) \in Nat
  BY LenProperties
<1>2. CASE b = s /\ Reader(s)
  <2>1. s # << >> => Top(s).pc # "ack"
    BY <1>2 DEF Reader, Reading
  <2> QED
    BY <1>1, <1>2, <2>1
<1>3. CASE s # << >> /\ Top(s).pc = "drain" /\ b = SetTop(s, [Top(s) EXCEPT !.k = 1])
  <2> DEFINE c == [Top(s) EXCEPT !.k = 1]
  <2>1. Top(s) \in Call
    BY <1>3, TopProperties
  <2>2. c \in Call /\ c.pc = Top(s).pc /\ c.m = Top(s).m
    <3> DEFINE w == Top(s)
    <3> HIDE DEF w
    <3>1. w \in Call /\ w.pc = "drain"
      BY <1>3, <2>1 DEF w
    <3>2. [w EXCEPT !.k = 1] \in Call /\ [w EXCEPT !.k = 1].pc = w.pc /\ [w EXCEPT !.k = 1].m = w.m
      BY <3>1, DrainNotes
    <3> QED
      BY <3>2 DEF w
  <2> HIDE DEF c
  <2>3. /\ b \in Seq(Call) /\ Len(b) = Len(s) /\ Top(b) = c
        /\ \A p \in 1..Len(s) - 1 : b[p] = s[p]
    <3> DEFINE u == SetTop(s, c)
    <3>1. /\ u \in Seq(Call) /\ Len(u) = Len(s) /\ Top(u) = c
          /\ \A p \in 1..Len(s) - 1 : u[p] = s[p]
      BY <1>3, <2>2, SetTopProperties
    <3>2. b = u
      BY <1>3 DEF c
    <3> QED
      BY <3>1, <3>2
  <2>4. Len(s) > 0 /\ b[Len(s)] = c /\ s[Len(s)] = Top(s)
    BY <1>1, <1>3, <2>3, EmptySeq DEF Top
  <2>5. \A p \in 1..Len(s) : p \in 1..Len(s) - 1 \/ p = Len(s)
    BY <1>1
  <2>6. \A p \in 1..Len(s) - 1 : p \in 1..Len(s)
    BY <1>1
  <2> QED
    BY <1>3, <2>2, <2>3, <2>4, <2>5, <2>6
<1>4. CASE s # << >> /\ Top(s).pc \in {"enter", "ack", "loop"} /\ b = Pop(s)
  <2>1. b \in Seq(Call) /\ Len(b) = Len(s) - 1 /\ \A p \in 1..Len(s) - 1 : b[p] = s[p]
    BY <1>4, PopProperties
  <2>2. \A p \in 1..Len(s) - 1 : p \in 1..Len(s)
    BY <1>1
  <2> QED
    BY <1>4, <2>1, <2>2
<1> QED
  BY <1>2, <1>3, <1>4 DEF Resumable

\* While a read waits only for its acknowledgement to go out, its step returns its message.
LEMMA ThroughRead ==
    ASSUME OriginInv, CanKeep, NEW d \in Devices, ReadShape(d), NEW m \in Mail(d), Through(d, m)
    PROVE  Through(d, m)'
<1>1. PICK b : Resumable(stack[d], b) /\ (Taken(d, b) \/ Returned(d, b) \/ Skipped(d, b))
  BY DEF ReadShape
<1>2. /\ TypeOK /\ Origin(d) /\ stack[d] \in Seq(Call) /\ cached[d] \in Seq(Frame) /\ inbox[d] \in Seq(Frame)
      /\ Len(cached[d]) < CacheSize /\ Len(cached[d]) \in Nat /\ CacheSize \in Nat
  BY BoundAssumption, LenProperties DEF OriginInv, TypeOK, CanKeep
<1>3. b \in Seq(Call) /\ Reader(b) /\ Sound(d, b, repeated, outcome[d])
  BY <1>1, <1>2, ResumableSound DEF Origin
<1>4. b # << >> /\ Top(b).pc = "loop" => Top(b).m.r = d
  <2>1. SUFFICES ASSUME b # << >>, Top(b).pc = "loop"
                 PROVE  Top(b).m.r = d
    OBVIOUS
  <2>2. Len(b) \in 1..Len(b) /\ Top(b) = b[Len(b)]
    BY <1>3, <2>1, TopProperties DEF Top
  <2>3. Len(b) \in 1..Len(stack[d]) /\ b[Len(b)].pc = stack[d][Len(b)].pc /\ b[Len(b)].m = stack[d][Len(b)].m
    BY <1>1, <1>2, <2>2, ResumableBelow
  <2> QED
    BY <2>1, <2>2, <2>3 DEF CanKeep
<1>5. CASE cached' = cached /\ inbox' = inbox /\ ~(TopIs(d, {"ack"}) /\ Top(stack[d]).m = m)
  BY <1>5 DEF Through, TopIs
<1>6. CASE Taken(d, b)
  BY <1>5, <1>6 DEF Taken
<1>7. CASE Skipped(d, b)
  BY <1>5, <1>7 DEF Skipped, Mail
<1>8. ASSUME NEW c, NEW x \in Frame, ReturnMessage(d, b, c, x), FromCache(d, b, c, x)
      PROVE  Through(d, m)'
  <2>1. cached[d] # << >> /\ x = Head(cached[d]) /\ c = Tail(cached[d]) /\ ~TopIs(d, {"ack"})
    BY <1>8 DEF FromCache
  <2>2. /\ c \in Seq(Frame) /\ Len(c) = Len(cached[d]) - 1 /\ x = cached[d][1]
        /\ \A p \in 1..Len(cached[d]) - 1 : c[p] = cached[d][p + 1]
    BY <1>2, <2>1, HeadTailProperties, EmptySeq
  <2>3. Len(c) < CacheSize
    BY <1>2, <2>2
  <2>4. \A y : /\ (\E p \in 1..Len(inbox[d]) : inbox[d][p] = y) => \E p \in 1..Len(inbox'[d]) : inbox'[d][p] = y
               /\ (\E p \in 1..Len(c) : c[p] = y) => \E p \in 1..Len(cached'[d]) : cached'[d][p] = y
    BY <1>2, <1>8, <2>2, Remains
  <2>5. CASE \E p \in 1..Len(inbox[d]) : inbox[d][p] = m
    BY <2>4, <2>5 DEF Through
  <2>6. ASSUME NEW p \in 1..Len(cached[d]), cached[d][p] = m
        PROVE  Through(d, m)'
    <3>1. CASE p = 1
      <4>1. x = m
        BY <2>2, <2>6, <3>1
      <4>2. \/ \E q \in 1..Len(inbox'[d]) : inbox'[d][q] = m
            \/ \E q \in 1..Len(cached'[d]) : cached'[d][q] = m
        BY <1>2, <1>3, <1>4, <1>8, <2>2, <2>3, <4>1, Handed
      <4> QED
        BY <4>2 DEF Through
    <3>2. CASE p # 1
      <4>1. p - 1 \in 1..Len(cached[d]) - 1 /\ p = (p - 1) + 1
        BY <1>2, <3>2
      <4>2. p - 1 \in 1..Len(c) /\ c[p - 1] = m
        BY <2>2, <2>6, <4>1
      <4> QED
        BY <2>4, <4>2 DEF Through
    <3> QED
      BY <3>1, <3>2
  <2> QED
    BY <2>1, <2>5, <2>6 DEF Through, TopIs
<1>9. ASSUME NEW c, NEW x \in Frame, ReturnMessage(d, b, c, x), c = cached[d],
             TopIs(d, {"ack"}) /\ Top(stack[d]).m = m => x = m
      PROVE  Through(d, m)'
  <2>1. \A y : /\ (\E p \in 1..Len(inbox[d]) : inbox[d][p] = y) => \E p \in 1..Len(inbox'[d]) : inbox'[d][p] = y
               /\ (\E p \in 1..Len(cached[d]) : cached[d][p] = y) => \E p \in 1..Len(cached'[d]) : cached'[d][p] = y
    BY <1>2, <1>9, Remains
  <2>2. CASE TopIs(d, {"ack"}) /\ Top(stack[d]).m = m
    <3>1. x = m
      BY <1>9, <2>2
    <3>2. \/ \E q \in 1..Len(inbox'[d]) : inbox'[d][q] = m
          \/ \E q \in 1..Len(cached'[d]) : cached'[d][q] = m
      BY <1>2, <1>3, <1>4, <1>9, <3>1, Handed
    <3> QED
      BY <3>2 DEF Through
  <2>3. CASE ~(TopIs(d, {"ack"}) /\ Top(stack[d]).m = m)
    BY <2>1, <2>3 DEF Through, TopIs
  <2> QED
    BY <2>2, <2>3
<1>10. CASE Returned(d, b)
  <2>1. PICK c, x : /\ x \in Frame /\ ReturnMessage(d, b, c, x)
                    /\ FromCache(d, b, c, x) \/ FromBus(d, c, x) \/ FromCall(d, b, c, x) \/ Joined(d, c, x)
    BY <1>10 DEF Returned
  <2>2. CASE FromCache(d, b, c, x)
    BY <1>8, <2>1, <2>2
  <2>3. CASE FromBus(d, c, x)
    BY <1>9, <2>1, <2>3 DEF FromBus
  <2>4. CASE FromCall(d, b, c, x)
    BY <1>9, <2>1, <2>4 DEF FromCall
  <2>5. CASE Joined(d, c, x)
    <3>1. ~(TopIs(d, {"ack"}) /\ Top(stack[d]).m = m)
      BY <2>5 DEF Joined, FragmentRead, Mail
    <3>2. c = cached[d]
      BY <2>5 DEF Joined
    <3> QED
      BY <1>9, <2>1, <3>1, <3>2
  <2> QED
    BY <2>1, <2>2, <2>3, <2>4, <2>5
<1> QED
  BY <1>1, <1>6, <1>7, <1>10

\* The steps of the bus: the actors and what they do.
LEMMA StepShapes ==
    ASSUME OriginInv, [Next]_vars
    PROVE  \/ UNCHANGED vars
           \/ \E a \in Devices : OthersKept(a) /\ ((Read(a) /\ ReadShape(a)) \/ WriteShape(a))
<1>1. ASSUME NEW a \in Devices, Read(a)
      PROVE  OthersKept(a) /\ ReadShape(a)
  BY <1>1, ReadHasShape, ReadBuffers DEF OriginInv
<1>2. ASSUME NEW a \in Devices, Write(a) \/ WriteStep(a)
      PROVE  OthersKept(a) /\ WriteShape(a)
  <2>1. WriteShape(a)
    BY <1>2, WriteStarts, WriteMoves
  <2> QED
    BY <2>1 DEF WriteShape, OthersKept
<1> QED
  BY <1>1, <1>2 DEF Next, Quiet

LEMMA ThroughStays ==
    ASSUME OriginInv, CanKeep, [Next]_vars, NEW d \in Devices, NEW m \in Mail(d), Through(d, m)
    PROVE  Through(d, m)'
<1>1. CASE UNCHANGED vars
  BY <1>1 DEF vars, Through
<1>2. ASSUME NEW a \in Devices, OthersKept(a), a # d
      PROVE  Through(d, m)'
  <2>1. stack'[d] = stack[d] /\ cached'[d] = cached[d] /\ inbox'[d] = inbox[d]
    BY <1>2 DEF OthersKept, Others
  <2> QED
    BY <2>1 DEF Through
<1>3. CASE ReadShape(d)
  BY <1>3, ThroughRead
<1>4. CASE WriteShape(d)
  <2>1. cached' = cached /\ inbox' = inbox
    BY <1>4 DEF WriteShape
  <2>2. stack[d] # << >> => Top(stack[d]).pc \in WritePC
    BY <1>4 DEF WriteShape, Begun, Moved, Again, Ended, WritePC
  <2> QED
    BY <2>1, <2>2 DEF Through, WritePC
<1> QED
  BY <1>1, <1>2, <1>3, <1>4, StepShapes

-----------------------------------------------------------------------------
(* A read that waits for its acknowledgement keeps waiting.                *)

\* The ways in which a read step changes the stack b that it returns to.
LEMMA ReadStack ==
    ASSUME OriginInv, NEW d \in Devices, NEW b \in Seq(Call),
           Taken(d, b) \/ Returned(d, b) \/ Skipped(d, b)
    PROVE  \/ stack'[d] = b
           \/ \E c \in Call : c.pc \in {"loop", "ack", "enter", "nodata"} /\ stack'[d] = Push(b, c)
           \/ \E c, w \in Call : c.pc \in {"ack", "enter", "nodata"} /\ stack'[d] = Push(Push(b, c), w)
           \/ /\ b # << >>
              /\ \E c \in Call : /\ stack'[d] = SetTop(b, c) /\ c.pc = Top(b).pc /\ c.m = Top(b).m
                                 /\ c.pc \in {"collect", "await", "loop"}
                                 /\ c.pc # "loop" => /\ c.ok /\ rx[d] # << >>
                                                     /\ Head(rx[d]).t = "ack" /\ IsAckFor(Top(b), Head(rx[d]))
<1>1. stack \in [Devices -> Seq(Call)] /\ rx \in [Devices -> Seq(Frame)] /\ rx[d] \in Seq(Frame)
  BY DEF OriginInv, TypeOK
<1>2. \A t : stack' = [stack EXCEPT ![d] = t] => stack'[d] = t
  BY <1>1
<1>3. CASE Taken(d, b)
  <2> DEFINE f == Head(rx[d])
             w == WriteCall(Ack(d, f.s), FALSE)
  <2>1. PICK r \in Call : r.pc = "ack" /\ stack'[d] = Push(Push(b, r), w)
    BY <1>2, <1>3 DEF Taken
  <2>2. f \in Frame
    BY <1>1, <1>3, HeadTailProperties DEF Taken
  <2>3. w \in Call
    <3> HIDE DEF f
    <3> QED
      BY <2>2, ShortType, WriteCallType DEF Addresses, Frame
  <2> HIDE DEF w
  <2> QED
    BY <2>1, <2>3
<1>4. CASE Skipped(d, b)
  <2>1. CASE stack' = [stack EXCEPT ![d] = b]
    BY <1>2, <2>1
  <2>2. ASSUME NEW c \in Call, c.pc = "loop", stack' = [stack EXCEPT ![d] = Push(b, c)]
        PROVE  \E e \in Call : e.pc \in {"loop", "ack", "enter", "nodata"} /\ stack'[d] = Push(b, e)
    BY <1>2, <2>2
  <2>3. ASSUME NEW r, NEW m, Suspended(d, b, r, m),
               stack' = [stack EXCEPT ![d] = Push(Push(b, r), WriteCall(m, TRUE))]
        PROVE  \E e, w \in Call : e.pc \in {"ack", "enter", "nodata"} /\ stack'[d] = Push(Push(b, e), w)
    <3>1. r \in Call /\ r.pc \in {"enter", "nodata"} /\ m \in Frame
      BY <2>3 DEF Suspended
    <3>2. WriteCall(m, TRUE) \in Call
      BY <3>1, WriteCallType
    <3>3. stack'[d] = Push(Push(b, r), WriteCall(m, TRUE))
      BY <1>2, <2>3
    <3> QED
      BY <3>1, <3>2, <3>3
  <2> QED
    BY <1>4, <2>1, <2>2, <2>3 DEF Skipped
<1>5. CASE Returned(d, b)
  <2>1. PICK c, x : /\ x \in Frame /\ ReturnMessage(d, b, c, x)
                    /\ FromCache(d, b, c, x) \/ FromBus(d, c, x) \/ FromCall(d, b, c, x) \/ Joined(d, c, x)
    BY <1>5 DEF Returned
  <2>2. stack'[d] = ResumeStack(b, x)
    BY <1>2, <2>1 DEF ReturnMessage
  <2>3. CASE ResumeStack(b, x) = b
    BY <2>2, <2>3
  <2>4. ASSUME b # << >>, NEW e \in Call, ResumeStack(b, x) = SetTop(b, e),
               e.pc = Top(b).pc, e.m = Top(b).m,
               \/ e.pc \in {"collect", "await"} /\ IsAckFor(Top(b), x) /\ e.ok
               \/ e.pc = "loop"
        PROVE  /\ stack'[d] = SetTop(b, e) /\ e.pc = Top(b).pc /\ e.m = Top(b).m
               /\ e.pc \in {"collect", "await", "loop"}
               /\ e.pc # "loop" => /\ e.ok /\ rx[d] # << >>
                                   /\ Head(rx[d]).t = "ack" /\ IsAckFor(Top(b), Head(rx[d]))
    <3>1. CASE e.pc = "loop"
      BY <2>2, <2>4, <3>1
    <3>2. CASE e.pc \in {"collect", "await"} /\ IsAckFor(Top(b), x) /\ e.ok
      <4>1. x.t = "ack"
        BY <3>2 DEF IsAckFor
      <4>2. FromBus(d, c, x)
        BY <2>1, <4>1, AckFromBus
      <4>3. rx[d] # << >> /\ x = Head(rx[d])
        BY <4>2 DEF FromBus
      <4> QED
        BY <2>2, <2>4, <3>2, <4>1, <4>3
    <3> QED
      BY <2>4, <3>1, <3>2
  <2> QED
    BY <2>1, <2>3, <2>4, ResumeForms
<1> QED
  BY <1>3, <1>4, <1>5

LEMMA AcksStay ==
    ASSUME OriginInv, [Next]_vars, NEW d \in Devices,
           NEW p \in 1..Len(stack[d]) - 1, stack[d][p].pc = "ack"
    PROVE  p \in 1..Len(stack'[d]) /\ stack'[d][p] = stack[d][p]
<1>1. /\ TypeOK /\ stack[d] \in Seq(Call) /\ Len(stack[d]) \in Nat /\ stack[d] # << >>
      /\ p \in Nat /\ p < Len(stack[d]) /\ p \in 1..Len(stack[d]) /\ Pop(stack[d]) \in Seq(Call)
  <2>1. TypeOK /\ stack[d] \in Seq(Call)
    BY DEF OriginInv, TypeOK
  <2>2. Len(stack[d]) \in Nat
    BY <2>1, LenProperties
  <2>3. p \in Nat /\ p < Len(stack[d]) /\ p \in 1..Len(stack[d])
    BY <2>2
  <2>4. stack[d] # << >>
    <3>1. Len(<< >>) = 0
      OBVIOUS
    <3> QED
      BY <2>2, <2>3, <3>1
  <2> QED
    BY <2>1, <2>2, <2>3, <2>4, PopProperties
<1> DEFINE Has(q) == p \in 1..Len(q) /\ q[p] = stack[d][p]
<1>2. \A q \in Seq(Call), c \in Call : Has(q) => Push(q, c) \in Seq(Call) /\ Has(Push(q, c))
  <2> SUFFICES ASSUME NEW q \in Seq(Call), NEW c \in Call, Has(q)
               PROVE  Push(q, c) \in Seq(Call) /\ Has(Push(q, c))
    OBVIOUS
  <2>1. /\ Push(q, c) \in Seq(Call) /\ Len(Push(q, c)) = Len(q) + 1
        /\ \A j \in 1..Len(q) : Push(q, c)[j] = q[j]
    BY PushProperties
  <2>2. Len(q) \in Nat
    BY LenProperties
  <2> QED
    BY <2>1, <2>2
<1>3. \A q \in Seq(Call) : Has(q) /\ q # << >> /\ Top(q).pc # "ack" =>
         /\ Pop(q) \in Seq(Call) /\ Has(Pop(q))
         /\ \A c \in Call : Has(SetTop(q, c)) /\ SetTop(q, c) \in Seq(Call)
  <2> SUFFICES ASSUME NEW q \in Seq(Call), Has(q), q # << >>, Top(q).pc # "ack"
               PROVE  /\ Pop(q) \in Seq(Call) /\ Has(Pop(q))
                      /\ \A c \in Call : Has(SetTop(q, c)) /\ SetTop(q, c) \in Seq(Call)
    OBVIOUS
  <2>1. Len(q) \in Nat /\ Top(q) = q[Len(q)]
    BY LenProperties DEF Top
  <2>2. p # Len(q)
    BY <2>1
  <2>3. p \in 1..Len(q) - 1
    BY <2>1, <2>2
  <2>4. Pop(q) \in Seq(Call) /\ Len(Pop(q)) = Len(q) - 1 /\ \A j \in 1..Len(q) - 1 : Pop(q)[j] = q[j]
    BY PopProperties
  <2>5. \A c \in Call : /\ SetTop(q, c) \in Seq(Call) /\ Len(SetTop(q, c)) = Len(q)
                        /\ \A j \in 1..Len(q) - 1 : SetTop(q, c)[j] = q[j]
    BY SetTopProperties
  <2> QED
    BY <2>3, <2>4, <2>5
<1>4. Has(stack[d]) /\ Has(Pop(stack[d])) /\ \A c \in Call : Has(SetTop(stack[d], c)) /\ SetTop(stack[d], c) \in Seq(Call)
  <2>1. /\ Len(Pop(stack[d])) = Len(stack[d]) - 1 /\ \A j \in 1..Len(stack[d]) - 1 : Pop(stack[d])[j] = stack[d][j]
    BY <1>1, PopProperties
  <2>2. \A c \in Call : /\ SetTop(stack[d], c) \in Seq(Call) /\ Len(SetTop(stack[d], c)) = Len(stack[d])
                        /\ \A j \in 1..Len(stack[d]) - 1 : SetTop(stack[d], c)[j] = stack[d][j]
    BY <1>1, SetTopProperties
  <2> QED
    BY <1>1, <2>1, <2>2
<1> HIDE DEF Has
<1>5. CASE stack'[d] = stack[d]
  BY <1>4, <1>5 DEF Has
<1>6. CASE ReadShape(d)
  <2>1. PICK b : Resumable(stack[d], b) /\ (Taken(d, b) \/ Returned(d, b) \/ Skipped(d, b))
    BY <1>6 DEF ReadShape
  <2>2. b \in Seq(Call) /\ Has(b)
    BY <1>1, <2>1, ResumableBelow DEF Has
  <2>3. Has(stack'[d])
    <3>1. CASE stack'[d] = b
      BY <2>2, <3>1
    <3>2. ASSUME NEW c \in Call, stack'[d] = Push(b, c)
          PROVE  Has(stack'[d])
      BY <1>2, <2>2, <3>2
    <3>3. ASSUME NEW c \in Call, NEW w \in Call, stack'[d] = Push(Push(b, c), w)
          PROVE  Has(stack'[d])
      <4>1. Push(b, c) \in Seq(Call) /\ Has(Push(b, c))
        BY <1>2, <2>2
      <4> QED
        BY <1>2, <3>3, <4>1
    <3>4. ASSUME b # << >>, NEW c \in Call, stack'[d] = SetTop(b, c), c.pc = Top(b).pc,
                 c.pc \in {"collect", "await", "loop"}
          PROVE  Has(stack'[d])
      <4>1. Top(b).pc # "ack"
        BY <3>4
      <4> QED
        BY <1>3, <2>2, <3>4, <4>1
    <3> QED
      BY <2>1, <2>2, <3>1, <3>2, <3>3, <3>4, ReadStack
  <2> QED
    BY <2>3 DEF Has
<1>7. CASE WriteShape(d)
  <2>1. Has(stack'[d])
    <3>1. CASE Begun(d)
      BY <1>1, <1>2, <1>4, <3>1 DEF Begun
    <3>2. CASE Moved(d)
      BY <1>4, <3>2 DEF Moved
    <3>3. CASE Again(d)
      <4>1. PICK c \in Call, w \in Call : stack'[d] = Push(SetTop(stack[d], c), w)
        BY <3>3 DEF Again
      <4> QED
        BY <1>2, <1>4, <4>1
    <3>4. CASE Ended(d)
      <4>1. PICK ok \in BOOLEAN : ReturnWrite(d, Pop(stack[d]), ok)
        BY <3>4 DEF Ended
      <4> DEFINE q == Pop(stack[d])
      <4>2. q \in Seq(Call) /\ Has(q) /\ q # << >>
        <5>1. q # << >>
          <6>1. Len(<< >>) = 0
            OBVIOUS
          <6> QED
            BY <1>1, <1>4, <6>1 DEF Has
        <5> QED
          BY <1>1, <1>4, <5>1
      <4>3. \/ stack'[d] = q
            \/ Top(q).pc = "nodata" /\ stack'[d] = Pop(q)
            \/ Top(q).pc = "group" /\ \E c \in Call : stack'[d] = SetTop(q, c)
        BY <1>1, <4>1, <4>2, ReturnForms
      <4> HIDE DEF q
      <4> QED
        BY <1>3, <4>2, <4>3
    <3> QED
      BY <1>7, <3>1, <3>2, <3>3, <3>4 DEF WriteShape
  <2> QED
    BY <2>1 DEF Has
<1>8. ASSUME NEW a \in Devices, OthersKept(a), a # d
      PROVE  stack'[d] = stack[d]
  BY <1>8 DEF OthersKept, Others
<1> QED
  BY <1>5, <1>6, <1>7, <1>8, StepShapes DEF vars

\* Pushing two calls.
LEMMA PushTwo ==
    ASSUME NEW q \in Seq(Call), NEW r \in Call, NEW w \in Call
    PROVE  Len(Push(Push(q, r), w)) = Len(q) + 2 /\ Push(Push(q, r), w)[Len(q) + 1] = r
<1>1. /\ Push(q, r) \in Seq(Call) /\ Len(Push(q, r)) = Len(q) + 1 /\ Push(q, r)[Len(q) + 1] = r
      /\ Len(q) \in Nat
  BY PushProperties, LenProperties
<1>2. \A u \in Seq(Call) : Len(Push(u, w)) = Len(u) + 1 /\ \A j \in 1..Len(u) : Push(u, w)[j] = u[j]
  BY PushProperties
<1> DEFINE u == Push(q, r)
<1>3. Len(Push(u, w)) = Len(u) + 1 /\ \A j \in 1..Len(u) : Push(u, w)[j] = u[j]
  BY <1>1, <1>2
<1> HIDE DEF u
<1>4. Len(u) = Len(q) + 1 /\ u[Len(q) + 1] = r
  BY <1>1 DEF u
<1>5. Len(q) + 1 \in 1..Len(u)
  BY <1>1, <1>4
<1>6. Push(u, w)[Len(q) + 1] = r /\ Len(Push(u, w)) = Len(q) + 2
  BY <1>1, <1>3, <1>4, <1>5
<1> QED
  BY <1>6 DEF u

\* A message that is not read stays so, or the read that took it begins to acknowledge it, or a
\* damaged frame before it clears the buffer.
Spoilt(d) == rx[d] # << >> /\ Head(rx[d]).t = "bad" /\ rx'[d] = << >> /\ Read(d)

LEMMA PendingStays ==
    ASSUME OriginInv, [Next]_vars, NEW d \in Devices, NEW m \in Mail(d), Pending(d, m)
    PROVE  Pending(d, m)' \/ Through(d, m)' \/ (Spoilt(d) /\ Unread(d, m))
<1>1. /\ TypeOK /\ stack[d] \in Seq(Call) /\ rx[d] \in Seq(Frame) /\ Len(rx[d]) \in Nat
      /\ m \in Frame /\ m.t = "msg" /\ m.r = d
  BY LenProperties DEF OriginInv, TypeOK, Mail
<1>2. ASSUME NEW p \in 1..Len(stack[d]) - 1, stack[d][p].pc = "ack", stack[d][p].m = m
      PROVE  Pending(d, m)' \/ Through(d, m)'
  <2>1. p \in 1..Len(stack'[d]) /\ stack'[d][p] = stack[d][p]
    BY <1>2, AcksStay
  <2>2. CASE p = Len(stack'[d])
    <3>1. stack'[d] # << >>
      <4>1. Len(<< >>) = 0
        OBVIOUS
      <4> QED
        BY <2>1, <4>1
    <3> QED
      BY <1>2, <2>1, <2>2, <3>1 DEF Through, Top
  <2>3. CASE p # Len(stack'[d])
    <3>1. p \in 1..Len(stack'[d]) - 1
      <4>1. Len(stack[d]) \in Nat
        BY <1>1, LenProperties
      <4>2. p \in Nat /\ p >= 1
        BY <4>1
      <4>3. p \in 1..Len(stack'[d]) => Len(stack'[d]) - 1 >= p \/ p = Len(stack'[d])
        <5>1. stack'[d] \in Seq(Call)
          BY TypeStep DEF OriginInv, TypeOK
        <5>2. Len(stack'[d]) \in Nat
          BY <5>1, LenProperties
        <5> QED
          BY <4>2, <5>2
      <4> QED
        BY <2>1, <2>3, <4>2, <4>3
    <3> QED
      BY <1>2, <2>1, <3>1 DEF Pending
  <2> QED
    BY <2>2, <2>3
<1>3. ASSUME rx'[d] = rx[d], Unread(d, m)
      PROVE  Pending(d, m)'
  BY <1>3 DEF Pending, Unread
<1>4. ASSUME Unread(d, m), NEW x \in Frame, rx'[d] = Append(rx[d], x)
      PROVE  Pending(d, m)'
  <2>1. \E p \in 1..Len(Append(rx[d], x)) : Append(rx[d], x)[p] = m
    BY <1>1, <1>4, AppendKeeps DEF Unread
  <2> QED
    BY <1>4, <2>1 DEF Pending, Unread
<1>5. ASSUME Unread(d, m), rx[d] # << >>, rx'[d] = Tail(rx[d])
      PROVE  Head(rx[d]) = m \/ Pending(d, m)'
  <2>1. /\ Len(Tail(rx[d])) = Len(rx[d]) - 1 /\ Head(rx[d]) = rx[d][1]
        /\ \A j \in 1..Len(rx[d]) - 1 : Tail(rx[d])[j] = rx[d][j + 1]
    BY <1>1, <1>5, HeadTailProperties, EmptySeq
  <2>2. PICK p \in 1..Len(rx[d]) : rx[d][p] = m
    BY <1>5 DEF Unread
  <2>3. CASE p = 1
    BY <2>1, <2>2, <2>3
  <2>4. CASE p # 1
    <3>1. p - 1 \in 1..Len(rx[d]) - 1 /\ (p - 1) + 1 = p
      BY <1>1, <2>4
    <3>2. p - 1 \in 1..Len(Tail(rx[d])) /\ Tail(rx[d])[p - 1] = m
      BY <2>1, <2>2, <3>1
    <3> QED
      BY <1>5, <3>2 DEF Pending, Unread
  <2> QED
    BY <2>3, <2>4
<1>6. ASSUME Read(d), ReadShape(d), Unread(d, m)
      PROVE  Pending(d, m)' \/ Through(d, m)' \/ (Spoilt(d) /\ Unread(d, m))
  <2>1. PICK b : Resumable(stack[d], b) /\ (Taken(d, b) \/ Returned(d, b) \/ Skipped(d, b))
    BY <1>6 DEF ReadShape
  <2>2. b \in Seq(Call)
    BY <1>1, <2>1, ResumableBelow
  <2>3. CASE Taken(d, b)
    <3>1. rx[d] # << >> /\ rx'[d] = Tail(rx[d])
      BY <1>1, <2>3 DEF Taken, TypeOK
    <3>2. CASE Head(rx[d]) = m
      <4> DEFINE w == WriteCall(Ack(d, m.s), FALSE)
      <4>1. PICK r \in Call : r.pc = "ack" /\ r.m = m /\ stack'[d] = Push(Push(b, r), w)
        BY <1>1, <2>3, <3>2 DEF Taken, TypeOK
      <4>2. w \in Call
        BY <1>1, ShortType, WriteCallType DEF Addresses, Frame
      <4> HIDE DEF w
      <4>3. Len(b) \in Nat
        BY <2>2, LenProperties
      <4>4. /\ Len(stack'[d]) = Len(b) + 2 /\ stack'[d][Len(b) + 1] = r
        BY <2>2, <4>1, <4>2, PushTwo
      <4>5. Len(b) + 1 \in 1..Len(stack'[d]) - 1
        BY <4>3, <4>4
      <4> QED
        BY <4>1, <4>4, <4>5 DEF Pending
    <3> QED
      BY <1>5, <1>6, <3>1, <3>2
  <2>4. ASSUME rx' = rx
        PROVE  Pending(d, m)'
    BY <1>3, <1>6, <2>4
  <2>5. ASSUME rx[d] # << >>, Head(rx[d]) # m, rx' = [rx EXCEPT ![d] = Tail(rx[d])]
        PROVE  Pending(d, m)'
    <3>1. rx'[d] = Tail(rx[d])
      BY <1>1, <2>5 DEF TypeOK
    <3> QED
      BY <1>5, <1>6, <2>5, <3>1
  <2>6. CASE FragmentRead(d)
    BY <1>1, <2>4, <2>5, <2>6 DEF FragmentRead
  <2>7. CASE Returned(d, b)
    <3>1. PICK c, x : FromCache(d, b, c, x) \/ FromBus(d, c, x) \/ FromCall(d, b, c, x) \/ Joined(d, c, x)
      BY <2>7 DEF Returned
    <3>2. CASE FromBus(d, c, x)
      <4>1. /\ rx[d] # << >> /\ Head(rx[d]) = x /\ rx' = [rx EXCEPT ![d] = Tail(rx[d])]
            /\ x.t = "ack" \/ x.r # d
        BY <3>2 DEF FromBus
      <4>2. x # m
        BY <1>1, <4>1
      <4> QED
        BY <2>5, <4>1, <4>2
    <3>3. CASE FromCache(d, b, c, x) \/ FromCall(d, b, c, x)
      BY <2>4, <3>3 DEF FromCache, FromCall
    <3>4. CASE Joined(d, c, x)
      BY <2>6, <3>4 DEF Joined
    <3> QED
      BY <3>1, <3>2, <3>3, <3>4
  <2>8. CASE Skipped(d, b)
    <3>1. CASE rx[d] # << >> /\ Head(rx[d]).t = "bad" /\ rx' = [rx EXCEPT ![d] = << >>]
      <4>1. rx'[d] = << >>
        BY <1>1, <3>1 DEF TypeOK
      <4> QED
        BY <1>6, <3>1, <4>1 DEF Spoilt
    <3> QED
      BY <2>6, <2>8, <3>1 DEF Skipped
  <2> QED
    BY <2>1, <2>3, <2>7, <2>8
<1>7. ASSUME WriteShape(d)
      PROVE  rx'[d] = rx[d]
  <2>1. CASE UNCHANGED rx
    BY <2>1
  <2>2. ASSUME NEW f \in Frame, Transmit(d, f)
        PROVE  rx'[d] = rx[d]
    BY <1>1, <2>2, Carried
  <2>3. stack[d] # << >> => Top(stack[d]).m \in Frame
    <3>1. stack[d] # << >> => Top(stack[d]) \in Call
      BY <1>1, TopProperties
    <3> QED
      BY <3>1 DEF Call, WriteRecord, ReadRecord
  <2> QED
    BY <1>7, <2>1, <2>2, <2>3 DEF WriteShape, Begun, Moved, Again, Ended
<1>8. ASSUME NEW a \in Devices, a # d, (Read(a) /\ ReadShape(a)) \/ WriteShape(a)
      PROVE  rx'[d] = rx[d] \/ \E x \in Frame : rx'[d] = Append(rx[d], x)
  <2>0. d \in Others(a)
    BY <1>8 DEF Others
  <2>1. CASE ReadShape(a)
    BY <1>1, <2>0, <2>1, ReadBuffers
  <2>2. CASE UNCHANGED rx
    BY <2>2
  <2>3. ASSUME NEW f \in Frame, Transmit(a, f)
        PROVE  rx'[d] = rx[d] \/ \E x \in Frame : rx'[d] = Append(rx[d], x)
    BY <1>1, <2>0, <2>3, Carried, DamagedType
  <2>4. stack[a] # << >> => Top(stack[a]).m \in Frame
    <3>1. stack[a] \in Seq(Call)
      BY <1>1 DEF TypeOK
    <3>2. stack[a] # << >> => Top(stack[a]) \in Call
      BY <3>1, TopProperties
    <3> QED
      BY <3>2 DEF Call, WriteRecord, ReadRecord
  <2> QED
    BY <1>8, <2>1, <2>2, <2>3, <2>4 DEF WriteShape, Begun, Moved, Again, Ended
<1>9. ASSUME Unread(d, m)
      PROVE  Pending(d, m)' \/ Through(d, m)' \/ (Spoilt(d) /\ Unread(d, m))
  <2>1. CASE UNCHANGED vars
    BY <1>3, <1>9, <2>1 DEF vars
  <2>2. ASSUME NEW a \in Devices, (Read(a) /\ ReadShape(a)) \/ WriteShape(a)
        PROVE  Pending(d, m)' \/ Through(d, m)' \/ (Spoilt(d) /\ Unread(d, m))
    <3>1. CASE a # d
      BY <1>3, <1>4, <1>8, <1>9, <2>2, <3>1
    <3>2. CASE a = d
      BY <1>3, <1>6, <1>7, <1>9, <2>2, <3>2
    <3> QED
      BY <3>1, <3>2
  <2> QED
    BY <2>1, <2>2, StepShapes
<1> QED
  BY <1>2, <1>9 DEF Pending

\* With a message, the account of its pair loses something.
LEMMA SpoiltCounts ==
    ASSUME OriginInv, TypeOK', NEW d \in Devices, Spoilt(d), NEW m \in Mail(d), Unread(d, m)
    PROVE  OnWay(m.s, d)' + Waiting(m.s, d) < OnWay(m.s, d) + Waiting(m.s, d)'
<1> DEFINE s == m.s
           D == Number(rx[d], Data(s, d))
           A == Number(stack[d], Answers(d, s))
           A1 == Number(stack'[d], Answers(d, s))
           K == Number(rx[s], AcksOf(d, s))
           W == Number(stack[s], Waits(s, d))
<1>1. /\ TypeOK /\ Origin(d) /\ s \in Devices /\ s # d /\ m \in Frame /\ s \in Others(d) /\ m.r = d /\ m.t = "msg"
      /\ stack[d] \in Seq(Call) /\ stack[s] \in Seq(Call) /\ rx[d] \in Seq(Frame) /\ rx[s] \in Seq(Frame)
  BY DEF OriginInv, TypeOK, Mail, Others
<1>2. ReadShape(d) /\ rx[d] # << >> /\ Head(rx[d]).t = "bad" /\ rx'[d] = << >>
  BY <1>1, ReadHasShape DEF Spoilt
<1>3. rx'[s] = rx[s] /\ stack'[s] = stack[s]
  BY <1>1, <1>2, ReadBuffers DEF OthersKept
<1>4. PICK b : Resumable(stack[d], b) /\ (Taken(d, b) \/ Returned(d, b) \/ Skipped(d, b))
  BY <1>2 DEF ReadShape
<1>5. b \in Seq(Call) /\ Number(b, Answers(d, s)) = A
  BY <1>1, <1>4, ResumableCounts, ResumableBelow
<1>6. A1 = Number(b, Answers(d, s))
  <2>1. CASE Taken(d, b)
    BY <1>2, <2>1 DEF Taken
  <2>2. CASE Returned(d, b)
    BY <1>1, <1>2, <1>5, <2>2, ReturnedCounts
  <2>3. CASE Skipped(d, b)
    BY <1>1, <1>5, <2>3, SkippedCounts
  <2> QED
    BY <1>4, <2>1, <2>2, <2>3
<1>7. D >= 1
  <2>1. PICK p \in 1..Len(rx[d]) : rx[d][p] = m
    BY DEF Unread
  <2>2. m \in Data(s, d)
    BY <1>1 DEF Data
  <2> QED
    BY <1>1, <2>1, <2>2, NumberSome
<1>8. {D, A, K, W} \subseteq Nat
  <2>1. D \in Nat /\ K \in Nat
    BY <1>1, HitsFinite
  <2>2. A \in Nat /\ W \in Nat
    BY <1>1, HitsFinite
  <2> QED
    BY <2>1, <2>2
<1>9. /\ OnWay(s, d) = D + A + K /\ Waiting(s, d) = W
      /\ OnWay(s, d)' = 0 + A1 + K /\ Waiting(s, d)' = W
  <2>1. Number(<< >>, Data(s, d)) = 0
    <3>1. Len(<< >>) = 0
      OBVIOUS
    <3> QED
      BY <3>1, NumberNone
  <2> QED
    BY <1>2, <1>3, <2>1 DEF OnWay, Waiting
<1> HIDE DEF D, A, A1, K, W
<1> QED
  BY <1>5, <1>6, <1>7, <1>8, <1>9

-----------------------------------------------------------------------------
(* What was acknowledged was read.                                         *)

\* The program's own write, at the bottom of the stack, waits for an acknowledgement.
Awaiting(s) == stack[s] # << >> /\ stack[s][1].pc \in {"collect", "await"}

\* The frame of that write has just been read's caller's acknowledgement: nothing else of s
\* was waiting.
Granted(s) ==
    /\ Len(stack[s]) <= 2
    /\ rx[s] # << >> /\ Head(rx[s]).t = "ack" /\ IsAckFor(stack[s][1], Head(rx[s]))
    /\ \A o : Number(stack[s], Waits(s, o)) <= 1

\* The bottom of a stack whose top is replaced.
LEMMA BottomTop ==
    ASSUME NEW q \in Seq(Call), q # << >>, NEW c \in Call
    PROVE  /\ Len(q) \in Nat /\ Len(q) >= 1
           /\ SetTop(q, c)[1] = IF Len(q) = 1 THEN c ELSE q[1]
           /\ SetTop(q, c) # << >> /\ SetTop(q, c) \in Seq(Call)
           /\ Len(q) = 1 => Top(q) = q[1] /\ Pop(q) = << >>
           /\ Len(q) # 1 => Pop(q) # << >> /\ Pop(q)[1] = q[1]
<1>1. Len(q) \in Nat /\ Len(q) >= 1
  BY LenProperties, EmptySeq
<1> DEFINE u == SetTop(q, c)
           v == Pop(q)
<1>2. /\ u \in Seq(Call) /\ Len(u) = Len(q) /\ Top(u) = c /\ \A j \in 1..Len(q) - 1 : u[j] = q[j]
  BY SetTopProperties
<1>3. v \in Seq(Call) /\ Len(v) = Len(q) - 1 /\ \A j \in 1..Len(q) - 1 : v[j] = q[j]
  BY PopProperties
<1>4. Top(u) = u[Len(u)] /\ Top(q) = q[Len(q)]
  BY DEF Top
<1>5. Len(<< >>) = 0
  OBVIOUS
<1> HIDE DEF u, v
<1>6. u # << >> /\ (Len(q) = 1 => u[1] = c /\ Top(q) = q[1] /\ v = << >>)
  BY <1>1, <1>2, <1>3, <1>4, <1>5, EmptySeq
<1>7. ASSUME Len(q) # 1
      PROVE  u[1] = q[1] /\ v # << >> /\ v[1] = q[1]
  <2>1. 1 \in 1..Len(q) - 1
    <3> DEFINE n == Len(q)
    <3>1. n \in Nat /\ n >= 1 /\ n # 1
      BY <1>1, <1>7
    <3> HIDE DEF n
    <3>2. 1 \in 1..n - 1
      BY <3>1
    <3> QED
      BY <3>2 DEF n
  <2> QED
    BY <1>1, <1>2, <1>3, <1>5, <1>7, <2>1
<1> QED
  BY <1>1, <1>2, <1>6, <1>7 DEF u, v

\* The bottom of a stack on which a call is pushed.
LEMMA BottomPush ==
    ASSUME NEW q \in Seq(Call), NEW c \in Call
    PROVE  Push(q, c) \in Seq(Call) /\ Push(q, c) # << >> /\ Push(q, c)[1] = IF q = << >> THEN c ELSE q[1]
<1> DEFINE u == Push(q, c)
<1>1. /\ u \in Seq(Call) /\ Len(u) = Len(q) + 1 /\ u[Len(q) + 1] = c /\ \A j \in 1..Len(q) : u[j] = q[j]
      /\ Len(q) \in Nat /\ (q # << >> => Len(q) >= 1)
  <2>1. /\ u \in Seq(Call) /\ Len(u) = Len(q) + 1 /\ u[Len(q) + 1] = c /\ \A j \in 1..Len(q) : u[j] = q[j]
    BY PushProperties
  <2>2. Len(q) \in Nat /\ (q # << >> => Len(q) # 0)
    BY LenProperties, EmptySeq
  <2> QED
    BY <2>1, <2>2
<1>2. Len(<< >>) = 0
  OBVIOUS
<1> HIDE DEF u
<1>3. u # << >>
  BY <1>1, <1>2
<1>4. CASE q = << >>
  BY <1>1, <1>2, <1>3, <1>4 DEF u
<1>5. CASE q # << >>
  <2>1. 1 \in 1..Len(q)
    BY <1>1, <1>5
  <2> QED
    BY <1>1, <1>3, <1>5, <2>1 DEF u
<1> QED
  BY <1>4, <1>5

LEMMA BottomRead ==
    ASSUME OriginInv, NEW s \in Devices, ReadShape(s), Awaiting(s)'
    PROVE  /\ Awaiting(s) /\ stack'[s][1].m = stack[s][1].m
           /\ stack'[s][1].ok = stack[s][1].ok \/ Granted(s)
<1>1. TypeOK /\ stack[s] \in Seq(Call) /\ Len(stack[s]) \in Nat
  BY LenProperties DEF OriginInv, TypeOK
<1>2. PICK b : Resumable(stack[s], b) /\ (Taken(s, b) \/ Returned(s, b) \/ Skipped(s, b))
  BY DEF ReadShape
<1>3. /\ b \in Seq(Call) /\ Len(b) \in Nat
      /\ \A p \in 1..Len(stack[s]) - 1 : p \in 1..Len(b) /\ b[p] = stack[s][p]
      /\ \A p \in 1..Len(b) : p \in 1..Len(stack[s]) /\ b[p].pc = stack[s][p].pc /\ b[p].m = stack[s][p].m
  <2>1. b \in Seq(Call)
    BY <1>1, <1>2, ResumableBelow
  <2> QED
    BY <1>1, <1>2, <2>1, ResumableBelow, LenProperties
<1>4. stack'[s] # << >> /\ stack'[s][1].pc \in {"collect", "await"}
  BY DEF Awaiting
<1>5. \A c \in Call : /\ Push(b, c) \in Seq(Call) /\ Push(b, c) # << >>
                      /\ Push(b, c)[1] = IF b = << >> THEN c ELSE b[1]
  BY <1>3, BottomPush
\* The bottom of b is that of the stack.
<1>6. ASSUME b # << >>, b[1].pc \in {"collect", "await"}
      PROVE  Awaiting(s) /\ b[1].m = stack[s][1].m /\ b[1].ok = stack[s][1].ok
  <2>1. 1 \in 1..Len(b)
    BY <1>3, <1>6, EmptySeq
  <2>2. 1 \in 1..Len(stack[s]) /\ b[1].pc = stack[s][1].pc /\ b[1].m = stack[s][1].m
    BY <1>3, <2>1
  <2>3. stack[s] # << >>
    <3>1. Len(<< >>) = 0
      OBVIOUS
    <3> QED
      BY <1>1, <2>2, <3>1
  <2>4. CASE Len(stack[s]) > 1
    <3>1. 1 \in 1..Len(stack[s]) - 1
      BY <1>1, <2>4
    <3> QED
      BY <1>3, <1>6, <2>2, <2>3, <3>1 DEF Awaiting
  <2>5. CASE ~(Len(stack[s]) > 1)
    <3>1. Len(stack[s]) = 1
      <4> DEFINE n == Len(stack[s])
      <4>1. n \in Nat /\ 1 \in 1..n /\ ~(n > 1)
        BY <1>1, <2>2, <2>5
      <4> HIDE DEF n
      <4>2. n = 1
        BY <4>1
      <4> QED
        BY <4>2 DEF n
    <3>2. Top(stack[s]) = stack[s][1]
      BY <3>1 DEF Top
    <3>3. b = stack[s]
      BY <1>2, <1>6, <2>2, <3>2 DEF Resumable
    <3> QED
      BY <1>6, <2>3, <3>3 DEF Awaiting
  <2> QED
    BY <2>4, <2>5
<1>7. CASE stack'[s] = b
  BY <1>4, <1>6, <1>7
<1>8. ASSUME NEW c \in Call, c.pc \in {"loop", "ack", "enter", "nodata"}, stack'[s] = Push(b, c)
      PROVE  Awaiting(s) /\ stack'[s][1].m = stack[s][1].m /\ stack'[s][1].ok = stack[s][1].ok
  <2>1. b # << >> /\ stack'[s][1] = b[1]
    BY <1>4, <1>5, <1>8
  <2> QED
    BY <1>4, <1>6, <2>1
<1>9. ASSUME NEW c \in Call, NEW w \in Call, c.pc \in {"ack", "enter", "nodata"}, stack'[s] = Push(Push(b, c), w)
      PROVE  Awaiting(s) /\ stack'[s][1].m = stack[s][1].m /\ stack'[s][1].ok = stack[s][1].ok
  <2> DEFINE u == Push(b, c)
  <2>1. u \in Seq(Call) /\ u # << >> /\ u[1] = IF b = << >> THEN c ELSE b[1]
    BY <1>5
  <2> HIDE DEF u
  <2>2. Push(u, w)[1] = u[1]
    BY <2>1, BottomPush
  <2>3. stack'[s][1] = u[1]
    BY <1>9, <2>2 DEF u
  <2>4. b # << >> /\ stack'[s][1] = b[1]
    BY <1>4, <1>9, <2>1, <2>3
  <2> QED
    BY <1>4, <1>6, <2>4
<1>10. ASSUME b # << >>, NEW c \in Call, stack'[s] = SetTop(b, c), c.pc = Top(b).pc, c.m = Top(b).m,
              c.pc # "loop" => c.ok /\ rx[s] # << >> /\ Head(rx[s]).t = "ack" /\ IsAckFor(Top(b), Head(rx[s]))
       PROVE  Awaiting(s) /\ stack'[s][1].m = stack[s][1].m
                 /\ (stack'[s][1].ok = stack[s][1].ok \/ Granted(s))
  <2>1. /\ Len(b) >= 1 /\ SetTop(b, c)[1] = IF Len(b) = 1 THEN c ELSE b[1]
        /\ Len(b) = 1 => Top(b) = b[1] /\ Pop(b) = << >>
    BY <1>3, <1>10, BottomTop
  <2>2. CASE Len(b) # 1
    <3>1. stack'[s][1] = b[1]
      BY <1>10, <2>1, <2>2
    <3> QED
      BY <1>4, <1>6, <1>10, <3>1
  <2>3. CASE Len(b) = 1
    <3>1. stack'[s][1] = c /\ Top(b) = b[1] /\ Pop(b) = << >>
      BY <1>10, <2>1, <2>3
    <3>2. b[1].pc \in {"collect", "await"}
      BY <1>4, <1>10, <3>1
    <3>3. Awaiting(s) /\ b[1].m = stack[s][1].m
      BY <1>6, <1>10, <3>2
    <3>4. \A o : Number(stack[s], Waits(s, o)) <= 1
      <4> TAKE o
      <4>1. Number(stack[s], Waits(s, o)) = Number(b, Waits(s, o))
        BY <1>1, <1>2, ResumableCounts
      <4>2. Number(b, Waits(s, o)) = Number(Pop(b), Waits(s, o)) + IF Top(b) \in Waits(s, o) THEN 1 ELSE 0
        BY <1>3, <1>10, NumberTop
      <4>3. Number(<< >>, Waits(s, o)) = 0
        <5>1. Len(<< >>) = 0
          OBVIOUS
        <5> QED
          BY <5>1, NumberNone
      <4> QED
        BY <3>1, <4>1, <4>2, <4>3
    <3>5. Len(stack[s]) <= 2
      <4>1. SUFFICES ASSUME Len(stack[s]) > 2
                     PROVE  FALSE
        BY <1>1
      <4>2. 2 \in 1..Len(stack[s]) - 1
        BY <1>1, <4>1
      <4>3. 2 \in 1..Len(b)
        BY <1>3, <4>2
      <4> QED
        BY <1>3, <2>3, <4>3
    <3>6. IsAckFor(stack[s][1], Head(rx[s])) /\ rx[s] # << >> /\ Head(rx[s]).t = "ack"
      <4>1. c.pc # "loop"
        BY <1>10, <3>1, <3>2
      <4> QED
        BY <1>10, <3>1, <3>3, <4>1 DEF IsAckFor
    <3> QED
      BY <1>10, <3>1, <3>3, <3>4, <3>5, <3>6 DEF Granted
  <2> QED
    BY <2>2, <2>3
<1> QED
  BY <1>2, <1>3, <1>7, <1>8, <1>9, <1>10, ReadStack

LEMMA BottomWrite ==
    ASSUME OriginInv, NEW s \in Devices, WriteShape(s), Awaiting(s)'
    PROVE  /\ stack[s] # << >> /\ stack'[s][1].m = stack[s][1].m /\ stack'[s][1].ok = stack[s][1].ok
           /\ outcome'[s] = outcome[s]
           /\ \/ Awaiting(s)
              \/ /\ Len(stack[s]) = 1 /\ stack[s][1].pc = "drain"
                 /\ Transmit(s, stack[s][1].m)
<1>1. TypeOK /\ stack[s] \in Seq(Call)
  BY DEF OriginInv, TypeOK
<1>2. stack'[s] # << >> /\ stack'[s][1].pc \in {"collect", "await"}
  BY DEF Awaiting
<1>3. CASE Begun(s)
  <2>1. PICK c \in Call : c.pc \in {"group", "drain"} /\ stack'[s] = Push(stack[s], c)
    BY <1>3 DEF Begun
  <2>2. Push(stack[s], c)[1] = IF stack[s] = << >> THEN c ELSE stack[s][1]
    BY <1>1, BottomPush
  <2>3. stack[s] # << >> /\ stack'[s][1] = stack[s][1]
    BY <1>2, <2>1, <2>2
  <2> QED
    BY <1>2, <1>3, <2>3 DEF Begun, Awaiting
<1>4. CASE Moved(s)
  <2>1. PICK c \in Call : /\ c.pc \in {"collect", "await"} /\ c.m = Top(stack[s]).m /\ c.ok = Top(stack[s]).ok
                          /\ stack'[s] = SetTop(stack[s], c)
                          /\ \/ Top(stack[s]).pc = "drain" /\ Top(stack[s]).ack /\ Transmit(s, c.m)
                             \/ Top(stack[s]).pc = "collect" /\ UNCHANGED rx
    BY <1>4 DEF Moved
  <2>2. /\ stack[s] # << >> /\ outcome'[s] = outcome[s]
    BY <1>4 DEF Moved
  <2>3. /\ SetTop(stack[s], c)[1] = IF Len(stack[s]) = 1 THEN c ELSE stack[s][1]
        /\ Len(stack[s]) = 1 => Top(stack[s]) = stack[s][1]
    BY <1>1, <2>2, BottomTop
  <2>4. CASE Len(stack[s]) = 1
    <3>1. stack'[s][1] = c /\ Top(stack[s]) = stack[s][1]
      BY <2>1, <2>3, <2>4
    <3> QED
      BY <2>1, <2>2, <2>4, <3>1 DEF Awaiting
  <2>5. CASE Len(stack[s]) # 1
    BY <1>2, <2>1, <2>2, <2>3, <2>5 DEF Awaiting
  <2> QED
    BY <2>4, <2>5
<1>5. CASE Again(s)
  <2>1. PICK c \in Call, w \in Call : /\ c.pc = "await" /\ c.m = Top(stack[s]).m /\ c.ok = Top(stack[s]).ok
                                      /\ stack'[s] = Push(SetTop(stack[s], c), w)
    BY <1>5 DEF Again
  <2>2. stack[s] # << >> /\ outcome'[s] = outcome[s] /\ Top(stack[s]).pc = "await"
    BY <1>5 DEF Again
  <2> DEFINE u == SetTop(stack[s], c)
  <2>3. /\ u \in Seq(Call) /\ u # << >>
        /\ u[1] = IF Len(stack[s]) = 1 THEN c ELSE stack[s][1]
        /\ Len(stack[s]) = 1 => Top(stack[s]) = stack[s][1]
    BY <1>1, <2>2, BottomTop
  <2> HIDE DEF u
  <2>4. Push(u, w)[1] = u[1]
    BY <2>3, BottomPush
  <2>5. stack'[s][1] = u[1]
    BY <2>1, <2>4 DEF u
  <2> QED
    BY <1>2, <2>1, <2>2, <2>3, <2>5 DEF Awaiting
<1>6. CASE Ended(s)
  <2> DEFINE q == Pop(stack[s])
  <2>1. stack[s] # << >> /\ \E ok \in BOOLEAN : ReturnWrite(s, q, ok)
    BY <1>6 DEF Ended
  <2>2. q \in Seq(Call)
    BY <1>1, <2>1, PopProperties
  <2>3. /\ q = << >> => stack'[s] = << >>
        /\ q # << >> =>
              /\ outcome'[s] = outcome[s]
              /\ \/ stack'[s] = q
                 \/ stack'[s] = Pop(q)
                 \/ \E c \in Call : stack'[s] = SetTop(q, c) /\ c.pc = "group"
    <3> HIDE DEF q
    <3> QED
      BY <1>1, <2>1, <2>2, ReturnForms
  <2>4. q # << >> /\ outcome'[s] = outcome[s]
    BY <1>2, <2>3
  <2>5. q[1] = stack[s][1]
    <3>1. Top(stack[s]) \in Call
      BY <1>1, <2>1, TopProperties
    <3> QED
      BY <1>1, <2>1, <2>4, <3>1, BottomTop
  <2>6. Top(q) \in Call
    BY <2>2, <2>4, TopProperties
  <2> HIDE DEF q
  <2>7. /\ Pop(q) # << >> => Pop(q)[1] = q[1]
        /\ \A c \in Call : SetTop(q, c)[1] = c \/ SetTop(q, c)[1] = q[1]
    <3>1. \A c \in Call : /\ SetTop(q, c)[1] = IF Len(q) = 1 THEN c ELSE q[1]
                          /\ Len(q) = 1 => Pop(q) = << >>
                          /\ Len(q) # 1 => Pop(q)[1] = q[1]
      BY <2>2, <2>4, BottomTop
    <3> QED
      BY <2>6, <3>1
  <2>8. stack'[s][1] = q[1]
    BY <1>2, <2>3, <2>4, <2>7
  <2> QED
    BY <1>2, <2>1, <2>4, <2>5, <2>8 DEF Awaiting
<1> QED
  BY <1>3, <1>4, <1>5, <1>6 DEF WriteShape

\* The bottom of the stack of s in any step.
LEMMA BottomStep ==
    ASSUME OriginInv, [Next]_vars, NEW s \in Devices, Awaiting(s)'
    PROVE  /\ stack[s] # << >> /\ stack'[s][1].m = stack[s][1].m /\ outcome'[s] = outcome[s]
           /\ \/ Awaiting(s) /\ stack'[s][1].ok = stack[s][1].ok
              \/ Awaiting(s) /\ Granted(s)
              \/ /\ Len(stack[s]) = 1 /\ stack[s][1].pc = "drain" /\ stack'[s][1].ok = stack[s][1].ok
                 /\ Transmit(s, stack[s][1].m) /\ WriteShape(s)
<1>1. CASE stack'[s] = stack[s] /\ outcome'[s] = outcome[s]
  BY <1>1 DEF Awaiting
<1>2. CASE ReadShape(s)
  <2>1. outcome'[s] = outcome[s]
    BY <1>2 DEF ReadShape
  <2> QED
    BY <1>2, <2>1, BottomRead DEF Awaiting
<1>3. CASE WriteShape(s)
  BY <1>3, BottomWrite
<1>4. ASSUME NEW a \in Devices, OthersKept(a), a # s
      PROVE  stack'[s] = stack[s] /\ outcome'[s] = outcome[s]
  BY <1>4 DEF OthersKept, Others
<1> QED
  BY <1>1, <1>2, <1>3, <1>4, StepShapes DEF vars

\* The results of the writes of s in any step.
LEMMA OutcomeStep ==
    ASSUME OriginInv, [Next]_vars, NEW s \in Devices
    PROVE  \/ outcome'[s] = outcome[s]
           \/ /\ stack[s] # << >>
              /\ LET c == stack[s][1]
                 IN \E ok \in BOOLEAN :
                       /\ outcome'[s] = Append(outcome[s], ok)
                       /\ \/ c.pc = "group"
                          \/ c.pc = "drain" /\ ~c.ack
                          \/ c.pc = "await" /\ ok = c.ok /\ (c.ok \/ Pair(c.m) \in repeated)
<1>1. TypeOK /\ stack[s] \in Seq(Call)
  BY DEF OriginInv, TypeOK
<1>2. CASE WriteShape(s)
  <2>1. CASE Begun(s) \/ Moved(s) \/ Again(s)
    BY <2>1 DEF Begun, Moved, Again
  <2>2. CASE Ended(s)
    <3> DEFINE w == Top(stack[s])
               q == Pop(stack[s])
    <3>1. PICK ok \in BOOLEAN :
             /\ ReturnWrite(s, q, ok)
             /\ \/ w.pc = "group"
                \/ w.pc = "drain" /\ ~w.ack
                \/ w.pc = "await" /\ ok = w.ok /\ (w.ok \/ Pair(w.m) \in repeated)
      BY <2>2 DEF Ended
    <3>2. stack[s] # << >> /\ w \in Call /\ q \in Seq(Call)
      BY <1>1, <2>2, TopProperties, PopProperties DEF Ended
    <3>3. q = << >> => w = stack[s][1]
      BY <1>1, <3>2, BottomTop
    <3>4. /\ q = << >> => outcome'[s] = Append(outcome[s], ok)
          /\ q # << >> => outcome'[s] = outcome[s]
      <4> HIDE DEF q
      <4> QED
        BY <1>1, <3>1, <3>2, ReturnForms
    <3> HIDE DEF w, q
    <3> QED
      BY <3>1, <3>2, <3>3, <3>4
  <2> QED
    BY <1>2, <2>1, <2>2 DEF WriteShape
<1>3. CASE ReadShape(s)
  BY <1>3 DEF ReadShape
<1>4. ASSUME NEW a \in Devices, OthersKept(a), a # s
      PROVE  outcome'[s] = outcome[s]
  BY <1>4 DEF OthersKept, Others
<1> QED
  BY <1>2, <1>3, <1>4, StepShapes DEF vars

\* The message that the program of s is writing.
LEMMA BottomMail ==
    ASSUME OriginInv, NEW s \in Devices, stack[s] # << >>, stack[s][1].pc \in WritePC
    PROVE  /\ stack[s][1] \in Call /\ stack[s][1].m \in Frame
           /\ WriteIs(s, stack[s][1], repeated)
           /\ Starts(s, stack[s][1], outcome[s])
           /\ Len(outcome[s]) \in Nat /\ Len(outcome[s]) + 1 \in 1..Len(Script[s])
           /\ stack[s][1].m = Script[s][Len(outcome[s]) + 1]
           /\ stack[s][1].m.t = "msg" /\ stack[s][1].m.s = s
           /\ \A d \in Others(s) : stack[s][1].m.r = d => stack[s][1].m \in Mail(d)
<1>1. stack[s] \in Seq(Call) /\ outcome[s] \in Seq(BOOLEAN) /\ Origin(s)
  BY DEF OriginInv, TypeOK
<1>2. 1 \in 1..Len(stack[s])
  BY <1>1, EmptySeq
<1>3. stack[s][1] \in Call
  BY <1>1, <1>2, ElementOfSeq
<1>4. WriteIs(s, stack[s][1], repeated) /\ Starts(s, stack[s][1], outcome[s])
  BY <1>1, <1>2 DEF Origin, Sound, CallIs
<1>5. stack[s][1].m \in Frame
  BY <1>3 DEF Call, WriteRecord, ReadRecord
<1>6. Len(outcome[s]) \in Nat /\ Len(outcome[s]) < Len(Script[s])
         /\ stack[s][1].m = Script[s][Len(outcome[s]) + 1]
  BY <1>1, <1>4 DEF Starts
<1>7. Script[s] \in Seq(Frame)
  BY ScriptAssumption
<1>8. Len(outcome[s]) + 1 \in 1..Len(Script[s])
  BY <1>6, <1>7
<1>9. stack[s][1].m.t = "msg" /\ stack[s][1].m.s = s
  BY <1>6, <1>8, ScriptAssumption
<1>10. \A d \in Others(s) : stack[s][1].m.r = d => stack[s][1].m \in Mail(d)
  BY <1>5, <1>9 DEF Mail, Others
<1> QED
  BY <1>3, <1>4, <1>5, <1>6, <1>8, <1>9, <1>10

\* A message of a script.
LEMMA WrittenMail ==
    ASSUME NEW s \in Devices, NEW d \in Others(s), NEW k \in WholeTo(s, d)
    PROVE  /\ k \in 1..Len(Script[s]) /\ Written(s, k) = Script[s][k]
           /\ Written(s, k) \in Mail(d) /\ Written(s, k).r = d /\ Written(s, k).s = s
           /\ Len(Written(s, k).d) = 1 /\ d # Broadcast
<1>1. k \in 1..Len(Script[s]) /\ Written(s, k) = Script[s][k] /\ Script[s][k].r = d /\ Len(Script[s][k].d) = 1
  BY DEF WholeTo, SentTo, Written
<1>2. Script[s] \in Seq(Frame) /\ Script[s][k].t = "msg" /\ Script[s][k].s = s
  BY <1>1, ScriptAssumption
<1>3. Script[s][k] \in Frame
  BY <1>1, <1>2, ElementOfSeq
<1>4. d \in Devices /\ s \in Others(d)
  BY DEF Others
<1> QED
  BY <1>1, <1>2, <1>3, <1>4, DeviceAssumption DEF Mail

\* A message that is not through is counted on its way.
LEMMA PendingCounts ==
    ASSUME OriginInv, NEW d \in Devices, NEW m \in Mail(d), Pending(d, m)
    PROVE  Number(rx[d], Data(m.s, d)) >= 1 \/ Number(stack[d], Answers(d, m.s)) >= 1
<1>1. stack[d] \in Seq(Call) /\ rx[d] \in Seq(Frame) /\ Origin(d)
  BY DEF OriginInv, TypeOK
<1>2. m \in Data(m.s, d)
  BY DEF Mail, Data
<1>3. ASSUME Unread(d, m)
      PROVE  Number(rx[d], Data(m.s, d)) >= 1
  BY <1>1, <1>2, <1>3, NumberSome DEF Unread
<1>4. ASSUME NEW p \in 1..Len(stack[d]) - 1, stack[d][p].pc = "ack" /\ stack[d][p].m = m
      PROVE  Number(stack[d], Answers(d, m.s)) >= 1
  <2> DEFINE n == p + 1
  <2>1. n \in 2..Len(stack[d]) /\ n \in 1..Len(stack[d]) /\ n - 1 = p
    BY <1>1, <1>4
  <2>2. stack[d][n] \in Call
    BY <1>1, <2>1, ElementOfSeq
  <2>3. Made(d, stack[d][n - 1], stack[d][n], repeated)
    <3>1. \A q \in 2..Len(stack[d]) : Made(d, stack[d][q - 1], stack[d][q], repeated)
      BY <1>1 DEF Origin, Sound
    <3> HIDE DEF n
    <3> QED
      BY <3>1, <2>1
  <2> HIDE DEF n
  <2>4. stack[d][n].pc = "drain" /\ stack[d][n].m = Ack(d, m.s)
    BY <1>4, <2>1, <2>3 DEF Made
  <2>5. Ack(d, m.s) \in AcksOf(d, m.s)
    <3>1. stack[d][n].m \in Frame
      BY <2>2 DEF Call, WriteRecord, ReadRecord
    <3> QED
      BY <2>4, <3>1 DEF AcksOf, Ack, Short
  <2>6. stack[d][n] \in Answers(d, m.s)
    BY <2>2, <2>4, <2>5 DEF Answers
  <2> QED
    BY <1>1, <2>1, <2>6, NumberSome
<1> QED
  BY <1>3, <1>4 DEF Pending

LEMMA NextCountTypes ==
    ASSUME TypeOK', NEW s \in Devices, NEW d \in Devices
    PROVE  OnWay(s, d)' \in Nat /\ Waiting(s, d)' \in Nat
<1>1. rx'[d] \in Seq(Frame) /\ rx'[s] \in Seq(Frame) /\ stack'[d] \in Seq(Call) /\ stack'[s] \in Seq(Call)
  BY DEF TypeOK
<1>2. /\ Number(rx'[d], Data(s, d)) \in Nat /\ Number(stack'[d], Answers(d, s)) \in Nat
      /\ Number(rx'[s], AcksOf(d, s)) \in Nat /\ Number(stack'[s], Waits(s, d)) \in Nat
  BY <1>1, HitsFinite
<1> QED
  BY <1>2 DEF OnWay, Waiting

\* While nothing was repeated from s to d, a message of s that was acknowledged is with d,
\* and one that waits for its acknowledgement is not read, is with d, or was damaged: then
\* s waits in vain.  Every message before it was acknowledged.
Answered(s, d) ==
    /\ Awaiting(s) /\ stack[s][1].m.r = d =>
          \/ Through(d, stack[s][1].m)
          \/ ~stack[s][1].ok /\ (Pending(d, stack[s][1].m) \/ OnWay(s, d) < Waiting(s, d))
    /\ \A k \in WholeTo(s, d) : k <= Len(outcome[s]) => outcome[s][k] /\ Through(d, Written(s, k))

AnsweredInv == \A s \in Devices : \A d \in Others(s) : Unrepeated(s, d) => Answered(s, d)

\* Nothing changes for the write.
LEMMA StillAnswered ==
    ASSUME OriginInv, TypeOK', Credit, CanKeep, [Next]_vars, NEW s \in Devices, NEW d \in Others(s),
           Unrepeated(s, d)', NEW m \in Mail(d), m.s = s,
           Pending(d, m) \/ OnWay(s, d) < Waiting(s, d)
    PROVE  Through(d, m)' \/ Pending(d, m)' \/ OnWay(s, d)' < Waiting(s, d)'
<1>1. d \in Devices /\ TypeOK
  BY DEF Others, OriginInv
<1>2. Unrepeated(s, d) /\ Balanced(s, d)
  BY CreditStep
<1>3. OnWay(s, d) <= Waiting(s, d)
  BY <1>1, <1>2 DEF Credit
<1>4. OnWay(s, d) \in Nat /\ Waiting(s, d) \in Nat
  BY <1>1, CountTypes
<1>5. OnWay(s, d)' \in Nat /\ Waiting(s, d)' \in Nat
  BY <1>1, NextCountTypes
<1>6. CASE Pending(d, m)
  <2>1. Pending(d, m)' \/ Through(d, m)' \/ (Spoilt(d) /\ Unread(d, m))
    BY <1>1, <1>6, PendingStays
  <2>2. ASSUME Spoilt(d), Unread(d, m)
        PROVE  OnWay(s, d)' + Waiting(s, d) < OnWay(s, d) + Waiting(s, d)'
    BY <1>1, <2>2, SpoiltCounts
  <2> QED
    BY <1>3, <1>4, <1>5, <2>1, <2>2
<1>7. CASE OnWay(s, d) < Waiting(s, d)
  BY <1>2, <1>4, <1>5, <1>7 DEF Balanced
<1> QED
  BY <1>6, <1>7

\* The acknowledgement that s gets is that of its message.
LEMMA GrantedThrough ==
    ASSUME OriginInv, Credit, NEW s \in Devices, NEW d \in Others(s), Unrepeated(s, d), Answered(s, d),
           Awaiting(s), stack[s][1].m.r = d, Granted(s)
    PROVE  Through(d, stack[s][1].m)
<1> DEFINE m == stack[s][1].m
<1>1. d \in Devices /\ TypeOK /\ rx[s] \in Seq(Frame)
  BY DEF Others, OriginInv, TypeOK
<1>2. m \in Mail(d) /\ m.s = s /\ m.r = d
  <2>1. stack[s] # << >> /\ stack[s][1].pc \in WritePC
    BY DEF Awaiting, WritePC
  <2> QED
    BY <2>1, BottomMail
<1>3. SUFFICES ASSUME Pending(d, m) \/ OnWay(s, d) < Waiting(s, d)
               PROVE  FALSE
  BY DEF Answered
<1>4. rx[s] # << >> /\ IsAckFor(stack[s][1], Head(rx[s])) /\ Waiting(s, d) <= 1
  BY DEF Granted, Waiting
<1> HIDE DEF m
<1>5. Number(rx[s], AcksOf(d, s)) >= 1
  <2>1. 1 \in 1..Len(rx[s]) /\ Head(rx[s]) = rx[s][1]
    BY <1>1, <1>4, EmptySeq
  <2>2. Head(rx[s]) \in Frame
    BY <1>1, <2>1, ElementOfSeq
  <2>3. Head(rx[s]).t = "ack" /\ Head(rx[s]).s = d /\ Head(rx[s]).r = s
    BY <1>2, <1>4 DEF IsAckFor, m
  <2>4. rx[s][1] \in AcksOf(d, s)
    BY <2>1, <2>2, <2>3 DEF AcksOf
  <2> QED
    BY <1>1, <2>1, <2>4, NumberSome
<1> DEFINE D == Number(rx[d], Data(s, d))
<1> DEFINE A == Number(stack[d], Answers(d, s))
<1> DEFINE K == Number(rx[s], AcksOf(d, s))
<1> DEFINE W == Waiting(s, d)
<1> DEFINE N == OnWay(s, d)
<1>6. D \in Nat /\ A \in Nat /\ K \in Nat /\ W \in Nat /\ N \in Nat /\ N = D + A + K
  BY <1>1, CountTypes DEF OnWay
<1>7. N <= W /\ W <= 1 /\ K >= 1
  BY <1>1, <1>4, <1>5 DEF Credit
<1>8. Pending(d, m) => D >= 1 \/ A >= 1
  BY <1>1, <1>2, PendingCounts
<1>9. Pending(d, m) \/ N < W
  BY <1>3
<1> HIDE DEF D, A, K, W, N
<1> QED
  BY <1>6, <1>7, <1>8, <1>9

\* The message goes out: nothing else from s to d was on its way.
LEMMA SentAnswered ==
    ASSUME OriginInv, TypeOK', Credit, NEW s \in Devices, NEW d \in Others(s), Unrepeated(s, d),
           Len(stack[s]) = 1, stack[s][1].pc = "drain", NEW m, stack[s][1].m = m, m.r = d,
           Awaiting(s)', stack'[s][1].m = m, ~stack'[s][1].ok,
           Transmit(s, m), WriteShape(s)
    PROVE  Pending(d, m)' \/ OnWay(s, d)' < Waiting(s, d)'
<1>1. d \in Devices /\ d # s /\ TypeOK /\ rx[s] \in Seq(Frame) /\ rx[d] \in Seq(Frame) /\ stack[s] \in Seq(Call)
  BY DEF Others, OriginInv, TypeOK
<1>2. m \in Mail(d) /\ m.s = s /\ m.r = d /\ m \in Frame /\ m.t = "msg"
  <2>1. stack[s] # << >>
    <3>1. Len(<< >>) = 0
      OBVIOUS
    <3> QED
      BY <3>1
  <2>2. stack[s][1].pc \in WritePC
    BY DEF WritePC
  <2> QED
    BY <2>1, <2>2, BottomMail
<1>3. Number(stack[s], Waits(s, d)) = 0
  <2>1. \A p \in 1..Len(stack[s]) : stack[s][p] \notin Waits(s, d)
    BY DEF Waits
  <2> QED
    BY <2>1, NumberNone
<1>4. stack'[d] = stack[d]
  BY <1>1 DEF WriteShape
<1>5. rx'[s] = rx[s]
  BY <1>1, <1>2, Carried
<1>6. rx'[d] = rx[d] \/ rx'[d] = Append(rx[d], m) \/ rx'[d] = Append(rx[d], Damaged(m))
  BY <1>1, <1>2, Carried
<1>7. CASE rx'[d] = Append(rx[d], m)
  <2>1. \E p \in 1..Len(rx'[d]) : rx'[d][p] = m
    BY <1>1, <1>2, <1>7, AppendKeeps
  <2> QED
    BY <2>1 DEF Pending, Unread
<1>8. CASE rx'[d] = rx[d] \/ rx'[d] = Append(rx[d], Damaged(m))
  <2>1. Number(rx'[d], Data(s, d)) = Number(rx[d], Data(s, d))
    <3>1. Damaged(m) \in Frame /\ Damaged(m) \notin Data(s, d)
      <4>1. Damaged(m) \in Frame
        BY <1>2, DamagedType
      <4>2. Damaged(m).t = "bad"
        BY <1>2 DEF Damaged, Frame
      <4> QED
        BY <4>1, <4>2 DEF Data
    <3>2. Number(Append(rx[d], Damaged(m)), Data(s, d)) = Number(rx[d], Data(s, d)) + 0
      BY <1>1, <3>1, NumberAppend
    <3>3. Number(rx[d], Data(s, d)) \in Nat
      BY <1>1, CountTypes
    <3>4. Number(Append(rx[d], Damaged(m)), Data(s, d)) = Number(rx[d], Data(s, d))
      BY <3>2, <3>3
    <3> QED
      BY <1>8, <3>4
  <2>2. Waiting(s, d)' >= 1
    <3>1. stack'[s] \in Seq(Call) /\ 1 \in 1..Len(stack'[s])
      <4>1. stack'[s] \in Seq(Call)
        BY DEF TypeOK
      <4>2. stack'[s] # << >>
        BY DEF Awaiting
      <4> QED
        BY <4>1, <4>2, EmptySeq
    <3>2. stack'[s][1] \in Call
      BY <3>1, ElementOfSeq
    <3>3. stack'[s][1].pc \in {"collect", "await"}
      BY DEF Awaiting
    <3>4. stack'[s][1] \in Waits(s, d)
      BY <1>2, <3>2, <3>3 DEF Waits
    <3>5. Number(stack'[s], Waits(s, d)) >= 1
      BY <3>1, <3>4, NumberSome
    <3> QED
      BY <3>5 DEF Waiting
  <2>3. OnWay(s, d) = 0
    <3>1. OnWay(s, d) <= Waiting(s, d) /\ Waiting(s, d) = 0
      BY <1>1, <1>3 DEF Credit, Waiting
    <3>2. OnWay(s, d) \in Nat
      BY <1>1, CountTypes
    <3> QED
      BY <3>1, <3>2
  <2>4. OnWay(s, d)' = OnWay(s, d)
    BY <1>4, <1>5, <2>1 DEF OnWay
  <2>5. Waiting(s, d)' \in Nat
    BY <1>1, NextCountTypes
  <2> QED
    BY <2>2, <2>3, <2>4, <2>5
<1> QED
  BY <1>6, <1>7, <1>8

\* One step of the write that waits.
LEMMA AnsweredWrite ==
    ASSUME OriginInv, TypeOK', Credit, CanKeep, [Next]_vars, NEW s \in Devices, NEW d \in Others(s),
           Unrepeated(s, d)', Answered(s, d), Awaiting(s)', NEW m, stack'[s][1].m = m, m.r = d
    PROVE  \/ Through(d, m)'
           \/ ~stack'[s][1].ok /\ (Pending(d, m)' \/ OnWay(s, d)' < Waiting(s, d)')
<1>1. d \in Devices
  BY DEF Others
<1>2. Unrepeated(s, d)
  BY CreditStep
<1>3. /\ stack[s] # << >> /\ stack[s][1].m = m
      /\ \/ Awaiting(s) /\ stack'[s][1].ok = stack[s][1].ok
         \/ Awaiting(s) /\ Granted(s)
         \/ /\ Len(stack[s]) = 1 /\ stack[s][1].pc = "drain" /\ stack'[s][1].ok = stack[s][1].ok
            /\ Transmit(s, m) /\ WriteShape(s)
  BY BottomStep
<1>4. stack[s][1].pc \in WritePC
  BY <1>3 DEF Awaiting, WritePC
<1>5. m \in Mail(d) /\ m.s = s /\ WriteIs(s, stack[s][1], repeated)
  BY <1>3, <1>4, BottomMail
<1>6. Through(d, m) => Through(d, m)'
  BY <1>1, <1>5, ThroughStays
<1>7. CASE Awaiting(s) /\ stack'[s][1].ok = stack[s][1].ok
  <2>1. Through(d, m) \/ (~stack[s][1].ok /\ (Pending(d, m) \/ OnWay(s, d) < Waiting(s, d)))
    BY <1>3, <1>5, <1>7 DEF Answered
  <2>2. CASE Through(d, m)
    BY <1>3, <1>6, <2>2
  <2>3. CASE ~stack[s][1].ok /\ (Pending(d, m) \/ OnWay(s, d) < Waiting(s, d))
    <3>1. Through(d, m)' \/ Pending(d, m)' \/ OnWay(s, d)' < Waiting(s, d)'
      BY <1>5, <2>3, StillAnswered
    <3> QED
      BY <1>3, <1>7, <2>3, <3>1
  <2> QED
    BY <2>1, <2>2, <2>3
<1>8. CASE Awaiting(s) /\ Granted(s)
  <2>1. Through(d, m)
    BY <1>2, <1>3, <1>5, <1>8, GrantedThrough
  <2> QED
    BY <1>3, <1>6, <2>1
<1>9. CASE /\ Len(stack[s]) = 1 /\ stack[s][1].pc = "drain" /\ stack'[s][1].ok = stack[s][1].ok
           /\ Transmit(s, m) /\ WriteShape(s)
  <2>1. ~stack'[s][1].ok
    <3>1. stack[s][1] \in Call
      BY <1>3, <1>4, BottomMail
    <3> QED
      BY <1>5, <1>9 DEF WriteIs
  <2>2. Pending(d, m)' \/ OnWay(s, d)' < Waiting(s, d)'
    BY <1>2, <1>3, <1>5, <1>9, <2>1, SentAnswered
  <2> QED
    BY <1>3, <2>1, <2>2
<1> QED
  BY <1>3, <1>7, <1>8, <1>9

\* One step of the results.
LEMMA AnsweredResults ==
    ASSUME OriginInv, Credit, CanKeep, [Next]_vars, NEW s \in Devices, NEW d \in Others(s),
           Unrepeated(s, d), Answered(s, d), NEW k \in WholeTo(s, d), k <= Len(outcome'[s])
    PROVE  outcome'[s][k] /\ Through(d, Written(s, k))'
<1> DEFINE c == stack[s][1]
<1>1. d \in Devices /\ outcome[s] \in Seq(BOOLEAN) /\ Len(outcome[s]) \in Nat
  BY DEF Others, OriginInv, TypeOK
<1>2. /\ k \in 1..Len(Script[s]) /\ Written(s, k) = Script[s][k] /\ Written(s, k) \in Mail(d)
      /\ Written(s, k).r = d /\ Written(s, k).s = s /\ Len(Written(s, k).d) = 1 /\ d # Broadcast
  BY WrittenMail
<1>3. k \in Nat /\ k >= 1
  BY <1>2, ScriptAssumption
<1>4. Through(d, Written(s, k)) => Through(d, Written(s, k))'
  BY <1>1, <1>2, ThroughStays
<1>5. k <= Len(outcome[s]) => outcome[s][k] /\ Through(d, Written(s, k))
  BY DEF Answered
<1>6. CASE outcome'[s] = outcome[s]
  BY <1>4, <1>5, <1>6
<1>7. ASSUME NEW ok \in BOOLEAN, stack[s] # << >>, outcome'[s] = Append(outcome[s], ok),
             \/ c.pc = "group"
             \/ c.pc = "drain" /\ ~c.ack
             \/ c.pc = "await" /\ ok = c.ok /\ (c.ok \/ Pair(c.m) \in repeated)
      PROVE  outcome'[s][k] /\ Through(d, Written(s, k))'
  <2>1. Len(outcome'[s]) = Len(outcome[s]) + 1
    BY <1>1, <1>7
  <2>2. CASE k <= Len(outcome[s])
    <3>1. outcome'[s][k] = outcome[s][k]
      BY <1>1, <1>3, <1>7, <2>2
    <3> QED
      BY <1>4, <1>5, <2>2, <3>1
  <2>3. CASE ~(k <= Len(outcome[s]))
    <3>1. k = Len(outcome[s]) + 1
      <4> DEFINE n == Len(outcome[s])
      <4>1. n \in Nat /\ k <= n + 1 /\ ~(k <= n)
        BY <1>1, <2>1, <2>3
      <4> HIDE DEF n
      <4>2. k = n + 1
        BY <1>3, <4>1
      <4> QED
        BY <4>2 DEF n
    <3>2. c.pc \in WritePC
      BY <1>7 DEF WritePC
    <3>3. /\ WriteIs(s, c, repeated) /\ Starts(s, c, outcome[s])
          /\ c.m = Written(s, k) /\ c \in Call
      BY <1>2, <1>7, <3>1, <3>2, BottomMail
    <3>4. c.pc # "group"
      <4> DEFINE n == Len(Written(s, k).d)
      <4>1. c.pc = "group" => n > 1
        BY <3>3 DEF WriteIs
      <4>2. n = 1
        BY <1>2
      <4> HIDE DEF n
      <4> QED
        BY <4>1, <4>2
    <3>5. c.ack
      BY <1>2, <3>2, <3>3 DEF Starts
    <3>6. c.pc = "await" /\ ok = c.ok /\ (c.ok \/ Pair(c.m) \in repeated)
      BY <1>7, <3>4, <3>5
    <3>7. Pair(c.m) \notin repeated
      BY <1>2, <3>3 DEF Pair, Unrepeated
    <3>8. ok = TRUE /\ c.ok
      BY <3>6, <3>7
    <3>9. Awaiting(s)
      BY <1>7, <3>6 DEF Awaiting
    <3>10. Through(d, Written(s, k))
      BY <1>2, <3>3, <3>8, <3>9 DEF Answered
    <3>11. outcome'[s][k] = ok
      BY <1>1, <1>7, <3>1
    <3> QED
      BY <1>4, <3>8, <3>10, <3>11
  <2> QED
    BY <2>2, <2>3
<1> QED
  BY <1>6, <1>7, OutcomeStep

LEMMA AnsweredStep ==
    ASSUME OriginInv, Credit, AnsweredInv, CanKeep, [Next]_vars
    PROVE  AnsweredInv'
<1>1. TypeOK'
  BY OriginStep DEF OriginInv
<1>2. ASSUME NEW s \in Devices, NEW d \in Others(s), Unrepeated(s, d)'
      PROVE  Answered(s, d)'
  <2>1. Unrepeated(s, d)
    BY <1>1, <1>2, CreditStep
  <2>2. Answered(s, d)
    BY <2>1 DEF AnsweredInv
  <2>3. \A m : Awaiting(s)' /\ m = stack'[s][1].m /\ m.r = d =>
          \/ Through(d, m)'
          \/ ~stack'[s][1].ok /\ (Pending(d, m)' \/ OnWay(s, d)' < Waiting(s, d)')
    BY <1>1, <1>2, <2>2, AnsweredWrite
  <2>5. PICK m : m = stack'[s][1].m
    OBVIOUS
  <2>4. \A k \in WholeTo(s, d) : k <= Len(outcome'[s]) => outcome'[s][k] /\ Through(d, Written(s, k))'
    BY <2>1, <2>2, AnsweredResults
  <2> QED
    BY <2>3, <2>4, <2>5 DEF Answered, Through, Pending, Unread
<1> QED
  BY <1>2 DEF AnsweredInv

LEMMA AnsweredInit ==
    ASSUME Init
    PROVE  AnsweredInv
<1>1. ASSUME NEW s \in Devices
      PROVE  stack[s] = << >> /\ outcome[s] = << >>
  BY DEF Init
<1>2. Len(<< >>) = 0
  OBVIOUS
<1>3. ASSUME NEW s \in Devices, NEW d \in Others(s)
      PROVE  Answered(s, d)
  <2>1. ~Awaiting(s)
    BY <1>1 DEF Awaiting
  <2>2. ASSUME NEW k \in WholeTo(s, d)
        PROVE  ~(k <= Len(outcome[s]))
    <3>1. k \in 1..Len(Script[s])
      BY WrittenMail
    <3>2. k \in Nat /\ k >= 1
      BY <3>1, ScriptAssumption
    <3> QED
      BY <1>1, <1>2, <3>2
  <2> QED
    BY <2>1, <2>2 DEF Answered
<1> QED
  BY <1>3 DEF AnsweredInv

\* A message that is through is with the program or in hand.
LEMMA ThroughIsHeld ==
    ASSUME OriginInv, NEW s \in Devices, NEW d \in Others(s), NEW k \in WholeTo(s, d),
           Through(d, Written(s, k))
    PROVE  ArrivedAt(d, s, k) \/ Written(s, k) \in InHand(d)
<1> DEFINE m == Written(s, k)
<1>1. d \in Devices /\ stack[d] \in Seq(Call)
  BY DEF Others, OriginInv, TypeOK
<1>2. CopyOf(m, s, k)
  BY WrittenMail DEF CopyOf, Mail, SamePair
<1> HIDE DEF m
<1>3. ASSUME NEW p \in 1..Len(inbox[d]), inbox[d][p] = m
      PROVE  ArrivedAt(d, s, k)
  BY <1>2, <1>3 DEF ArrivedAt
<1>4. ASSUME NEW p \in 1..Len(cached[d]), cached[d][p] = m
      PROVE  m \in InHand(d)
  BY <1>4 DEF InHand
<1>5. ASSUME stack[d] # << >>, Top(stack[d]).m = m
      PROVE  m \in InHand(d)
  <2>1. Len(stack[d]) \in 1..Len(stack[d])
    BY <1>1, <1>5, EmptySeq
  <2>2. Top(stack[d]) \in {stack[d][p] : p \in 1..Len(stack[d])}
    BY <2>1 DEF Top
  <2> QED
    BY <1>5, <2>2 DEF InHand
<1> QED
  BY <1>3, <1>4, <1>5 DEF Through, m

\* Once more: an acknowledgement is matched only by its sender and its receiver.  While the
\* sender has not repeated a frame to the receiver, a write that returns true was read, as
\* long as cached_vec of the receiver has room and the receiver is not in the blocking loop
\* over a broadcast.
THEOREM AcknowledgedIsRead == Spec /\ []CanKeep => []AckMeansRead
<1> DEFINE IInv == OriginInv /\ Credit /\ AnsweredInv
<1>1. Init => IInv
  BY OriginInit, CreditInit, AnsweredInit
<1>2. IInv /\ CanKeep /\ [Next]_vars => IInv'
  <2> SUFFICES ASSUME OriginInv, Credit, AnsweredInv, CanKeep, [Next]_vars
               PROVE  IInv'
    OBVIOUS
  <2>1. OriginInv'
    BY OriginStep
  <2>2. Credit'
    BY <2>1, CreditStep DEF OriginInv
  <2>3. AnsweredInv'
    BY AnsweredStep
  <2> QED
    BY <2>1, <2>2, <2>3
<1>3. IInv => AckMeansRead
  <2> SUFFICES ASSUME OriginInv, AnsweredInv, NEW s \in Devices, NEW d \in Others(s), <<s, d>> \notin repeated,
                      NEW k \in WholeTo(s, d), k <= Len(outcome[s])
               PROVE  ArrivedAt(d, s, k) \/ Written(s, k) \in InHand(d)
    BY DEF AckMeansRead
  <2>1. Through(d, Written(s, k))
    BY DEF AnsweredInv, Answered, Unrepeated
  <2> QED
    BY <2>1, ThroughIsHeld
<1> QED
  BY <1>1, <1>2, <1>3, PTL DEF Spec

-----------------------------------------------------------------------------
(* On a bus that damages nothing, what was sent is somewhere.              *)

NoBad == losses = 0 => \A d \in Devices : \A p \in 1..Len(rx[d]) : rx[d][p].t # "bad"

\* The k-th message of s has been on the bus.
Sent(s, k) == k <= Len(outcome[s]) \/ (k = Len(outcome[s]) + 1 /\ Awaiting(s))

Tracked ==
    losses = 0 => \A s \in Devices : \A d \in Others(s) : \A k \in WholeTo(s, d) :
        Sent(s, k) => Through(d, Written(s, k)) \/ Pending(d, Written(s, k))

\* What a write step of a puts on the bus.
LEMMA Spoken ==
    ASSUME OriginInv, NEW a \in Devices, WriteShape(a)
    PROVE  \/ UNCHANGED rx
           \/ /\ stack[a] # << >> /\ Top(stack[a]).pc = "drain"
              /\ Top(stack[a]).m \in Frame /\ WriteIs(a, Top(stack[a]), repeated)
              /\ Transmit(a, Top(stack[a]).m)
<1>1. ASSUME stack[a] # << >>, Top(stack[a]).pc = "drain"
      PROVE  Top(stack[a]).m \in Frame /\ WriteIs(a, Top(stack[a]), repeated)
  <2>1. TopIs(a, WritePC)
    BY <1>1 DEF TopIs, WritePC
  <2> QED
    BY <2>1, TopWrite
<1>2. CASE Begun(a) \/ Again(a)
  BY <1>2 DEF Begun, Again
<1>3. CASE Moved(a)
  BY <1>1, <1>3 DEF Moved
<1>4. CASE Ended(a)
  BY <1>1, <1>4 DEF Ended
<1> QED
  BY <1>2, <1>3, <1>4 DEF WriteShape

LEMMA NoBadStep ==
    ASSUME OriginInv, NoBad, [Next]_vars, losses' = 0
    PROVE  losses = 0 /\ \A d \in Devices : \A p \in 1..Len(rx'[d]) : rx'[d][p].t # "bad"
<1>1. TypeOK /\ \A d \in Devices : rx[d] \in Seq(Frame)
  BY DEF OriginInv, TypeOK
<1>2. CASE UNCHANGED vars
  BY <1>2 DEF vars, NoBad
<1>3. ASSUME NEW a \in Devices, ReadShape(a)
      PROVE  losses = 0 /\ \A d \in Devices : \A p \in 1..Len(rx'[d]) : rx'[d][p].t # "bad"
  <2>1. losses = 0
    BY <1>3 DEF ReadShape
  <2>2. \A d \in Devices : \A p \in 1..Len(rx[d]) : rx[d][p].t # "bad"
    BY <2>1 DEF NoBad
  <2>3. \A e \in Others(a) : rx'[e] = rx[e]
    BY <1>1, <1>3, ReadBuffers
  <2>4. \/ rx'[a] = rx[a]
        \/ rx[a] # << >> /\ rx'[a] = Tail(rx[a])
        \/ rx'[a] = << >>
    BY <1>1, <1>3, ReadBuffers
  <2>5. ASSUME NEW p \in 1..Len(rx'[a])
        PROVE  rx'[a][p].t # "bad"
    <3>1. CASE rx'[a] = rx[a]
      BY <2>2, <2>5, <3>1
    <3>2. CASE rx[a] # << >> /\ rx'[a] = Tail(rx[a])
      <4> DEFINE q == rx[a]
      <4>1. q \in Seq(Frame) /\ q # << >> /\ p \in 1..Len(Tail(q))
        BY <1>1, <2>5, <3>2
      <4>2. \A j \in 1..Len(q) : q[j].t # "bad"
        BY <2>2
      <4>3. rx'[a][p] = Tail(q)[p]
        BY <3>2
      <4> HIDE DEF q
      <4>4. Tail(q)[p] = q[p + 1] /\ p + 1 \in 1..Len(q)
        BY <4>1
      <4> QED
        BY <4>2, <4>3, <4>4
    <3>3. CASE rx'[a] = << >>
      <4>1. Len(<< >>) = 0
        OBVIOUS
      <4> QED
        BY <2>5, <3>3, <4>1
    <3> QED
      BY <2>4, <3>1, <3>2, <3>3
  <2> QED
    BY <2>1, <2>2, <2>3, <2>5 DEF Others
<1>4. ASSUME NEW a \in Devices, WriteShape(a)
      PROVE  losses = 0 /\ \A d \in Devices : \A p \in 1..Len(rx'[d]) : rx'[d][p].t # "bad"
  <2>1. losses = 0
    BY <1>4 DEF WriteShape
  <2>2. \A d \in Devices : \A p \in 1..Len(rx[d]) : rx[d][p].t # "bad"
    BY <2>1 DEF NoBad
  <2>3. CASE UNCHANGED rx
    BY <2>1, <2>2, <2>3
  <2>4. ASSUME NEW f \in Frame, f.t # "bad", Transmit(a, f)
        PROVE  \A d \in Devices : \A p \in 1..Len(rx'[d]) : rx'[d][p].t # "bad"
    <3>1. rx'[a] = rx[a] /\ \A e \in Others(a) : rx'[e] = Append(rx[e], f)
      BY <1>1, <2>4, Carried
    <3>2. ASSUME NEW e \in Others(a), NEW p \in 1..Len(rx'[e])
          PROVE  rx'[e][p].t # "bad"
      <4> DEFINE q == rx[e]
      <4>1. q \in Seq(Frame) /\ \A j \in 1..Len(q) : q[j].t # "bad"
        BY <1>1, <2>2 DEF Others
      <4>2. p \in 1..Len(Append(q, f)) /\ rx'[e][p] = Append(q, f)[p]
        BY <3>1, <3>2
      <4> HIDE DEF q
      <4>3. Append(q, f)[p] = f \/ (p \in 1..Len(q) /\ Append(q, f)[p] = q[p])
        BY <4>1, <4>2
      <4> QED
        BY <2>4, <4>1, <4>2, <4>3
    <3> QED
      BY <2>2, <3>1, <3>2 DEF Others
  <2>5. WriteIs(a, Top(stack[a]), repeated) => Top(stack[a]).m.t # "bad"
    BY DEF WriteIs, Own
  <2> QED
    BY <1>4, <2>1, <2>3, <2>4, <2>5, Spoken
<1> QED
  BY <1>2, <1>3, <1>4, StepShapes

\* A message counts as sent when its frame goes out.
LEMMA SentStep ==
    ASSUME OriginInv, [Next]_vars, NEW s \in Devices, NEW d \in Others(s), NEW k \in WholeTo(s, d),
           Sent(s, k)'
    PROVE  Sent(s, k) \/ Transmit(s, Written(s, k))
<1>1. outcome[s] \in Seq(BOOLEAN) /\ Len(outcome[s]) \in Nat
  BY DEF OriginInv, TypeOK
<1>2. /\ k \in 1..Len(Script[s]) /\ Written(s, k) = Script[s][k]
      /\ Written(s, k).r = d /\ Len(Written(s, k).d) = 1 /\ d # Broadcast
  BY WrittenMail
<1>3. k \in Nat
  BY <1>2, ScriptAssumption
<1>4. CASE k = Len(outcome'[s]) + 1 /\ Awaiting(s)'
  <2>1. /\ stack[s] # << >> /\ outcome'[s] = outcome[s]
        /\ Awaiting(s) \/ (stack[s][1].pc = "drain" /\ Transmit(s, stack[s][1].m))
    BY <1>4, BottomStep
  <2>2. CASE Awaiting(s)
    BY <1>4, <2>1, <2>2 DEF Sent
  <2>3. CASE stack[s][1].pc = "drain" /\ Transmit(s, stack[s][1].m)
    <3>1. stack[s][1].pc \in WritePC
      BY <2>3 DEF WritePC
    <3>2. stack[s][1].m = Written(s, k)
      BY <1>2, <1>4, <2>1, <3>1, BottomMail
    <3> QED
      BY <2>3, <3>2
  <2> QED
    BY <2>1, <2>2, <2>3
<1>5. CASE k <= Len(outcome'[s])
  <2>1. CASE outcome'[s] = outcome[s]
    BY <1>5, <2>1 DEF Sent
  <2>2. ASSUME NEW ok \in BOOLEAN, stack[s] # << >>, outcome'[s] = Append(outcome[s], ok),
               stack[s][1].pc \in {"group", "await"} \/ (stack[s][1].pc = "drain" /\ ~stack[s][1].ack),
               ~(k <= Len(outcome[s]))
        PROVE  Sent(s, k)
    <3>1. k = Len(outcome[s]) + 1
      <4> DEFINE n == Len(outcome[s])
      <4>1. n \in Nat /\ k <= n + 1 /\ ~(k <= n)
        BY <1>1, <1>5, <2>2
      <4> HIDE DEF n
      <4>2. k = n + 1
        BY <1>3, <4>1
      <4> QED
        BY <4>2 DEF n
    <3>2. stack[s][1].pc \in WritePC
      BY <2>2 DEF WritePC
    <3>3. /\ WriteIs(s, stack[s][1], repeated) /\ Starts(s, stack[s][1], outcome[s])
          /\ stack[s][1].m = Written(s, k)
      BY <1>2, <2>2, <3>1, <3>2, BottomMail
    <3>4. stack[s][1].pc # "group"
      <4> DEFINE n == Len(Written(s, k).d)
      <4>1. stack[s][1].pc = "group" => n > 1
        BY <3>3 DEF WriteIs
      <4>2. n = 1
        BY <1>2
      <4> HIDE DEF n
      <4> QED
        BY <4>1, <4>2
    <3>5. stack[s][1].ack
      BY <1>2, <3>2, <3>3 DEF Starts
    <3>6. Awaiting(s)
      BY <2>2, <3>4, <3>5 DEF Awaiting
    <3> QED
      BY <3>1, <3>6 DEF Sent
  <2> QED
    BY <2>1, <2>2, OutcomeStep DEF Sent
<1> QED
  BY <1>4, <1>5 DEF Sent

LEMMA TrackedStep ==
    ASSUME OriginInv, NoBad, Tracked, CanKeep, [Next]_vars
    PROVE  NoBad' /\ Tracked'
<1>1. NoBad'
  BY NoBadStep DEF NoBad
<1>2. ASSUME losses' = 0, NEW s \in Devices, NEW d \in Others(s), NEW k \in WholeTo(s, d), Sent(s, k)'
      PROVE  Through(d, Written(s, k))' \/ Pending(d, Written(s, k))'
  <2>1. d \in Devices /\ TypeOK /\ rx[d] \in Seq(Frame)
    BY DEF Others, OriginInv, TypeOK
  <2>2. losses = 0
    BY <1>2, NoBadStep
  <2>3. Written(s, k) \in Mail(d)
    BY WrittenMail
  <2>4. CASE Sent(s, k)
    <3>1. Through(d, Written(s, k)) \/ Pending(d, Written(s, k))
      BY <2>2, <2>4 DEF Tracked
    <3>2. Through(d, Written(s, k)) => Through(d, Written(s, k))'
      BY <2>1, <2>3, ThroughStays
    <3>3. Pending(d, Written(s, k)) => Pending(d, Written(s, k))' \/ Through(d, Written(s, k))' \/ Spoilt(d)
      BY <2>1, <2>3, PendingStays
    <3>4. ~Spoilt(d)
      <4>1. rx[d] # << >> => 1 \in 1..Len(rx[d]) /\ Head(rx[d]) = rx[d][1]
        BY <2>1, EmptySeq
      <4> QED
        BY <2>1, <2>2, <4>1 DEF Spoilt, NoBad
    <3> QED
      BY <3>1, <3>2, <3>3, <3>4
  <2>5. CASE Transmit(s, Written(s, k))
    <3>1. Written(s, k) \in Frame
      BY <2>3 DEF Mail
    <3>2. rx'[d] = Append(rx[d], Written(s, k))
      BY <1>2, <2>1, <2>5, <3>1, Carried
    <3>3. \E p \in 1..Len(rx'[d]) : rx'[d][p] = Written(s, k)
      BY <2>1, <3>1, <3>2, AppendKeeps
    <3> QED
      BY <3>3 DEF Pending, Unread
  <2> QED
    BY <1>2, <2>4, <2>5, SentStep
<1>3. Tracked'
  BY <1>2 DEF Tracked
<1> QED
  BY <1>1, <1>3

LEMMA TrackedInit ==
    ASSUME Init
    PROVE  NoBad /\ Tracked
<1>1. \A s \in Devices : rx[s] = << >> /\ stack[s] = << >> /\ outcome[s] = << >>
  BY DEF Init
<1>2. Len(<< >>) = 0
  OBVIOUS
<1>3. NoBad
  BY <1>1, <1>2 DEF NoBad
<1>4. ASSUME NEW s \in Devices, NEW d \in Others(s), NEW k \in WholeTo(s, d)
      PROVE  ~Sent(s, k)
  <2>1. k \in 1..Len(Script[s])
    BY WrittenMail
  <2>2. k \in Nat /\ k >= 1
    BY <2>1, ScriptAssumption
  <2> QED
    BY <1>1, <1>2, <2>2 DEF Sent, Awaiting
<1> QED
  BY <1>3, <1>4 DEF Tracked

\* On a bus that damages nothing, a message that was acknowledged is never lost in the nested
\* reads of its receiver, as long as cached_vec of the receiver has room and the receiver is
\* not in the blocking loop over a broadcast.
THEOREM AcknowledgedStays == Spec /\ []CanKeep => []AckedNotLost
<1> DEFINE IInv == OriginInv /\ NoBad /\ Tracked
<1>1. Init => IInv
  BY OriginInit, TrackedInit
<1>2. IInv /\ CanKeep /\ [Next]_vars => IInv'
  BY OriginStep, TrackedStep
<1>3. IInv => AckedNotLost
  <2> SUFFICES ASSUME OriginInv, Tracked, losses = 0, NEW s \in Devices, NEW d \in Others(s),
                      NEW k \in WholeTo(s, d), k <= Len(outcome[s])
               PROVE  \/ ArrivedAt(d, s, k)
                      \/ Written(s, k) \in InHand(d) \union {rx[d][p] : p \in 1..Len(rx[d])}
    BY DEF AckedNotLost
  <2>1. Through(d, Written(s, k)) \/ Pending(d, Written(s, k))
    BY DEF Tracked, Sent
  <2>2. CASE Through(d, Written(s, k))
    BY <2>2, ThroughIsHeld
  <2>3. CASE Pending(d, Written(s, k))
    <3>1. d \in Devices /\ Len(stack[d]) \in Nat
      BY DEF Others, OriginInv, TypeOK
    <3>2. CASE Unread(d, Written(s, k))
      BY <3>2 DEF Unread
    <3>3. ASSUME NEW p \in 1..Len(stack[d]) - 1, stack[d][p].m = Written(s, k)
          PROVE  Written(s, k) \in InHand(d)
      <4>1. p \in 1..Len(stack[d])
        BY <3>1, <3>3
      <4> QED
        BY <3>3, <4>1 DEF InHand
    <3> QED
      BY <2>3, <3>2, <3>3 DEF Pending
  <2> QED
    BY <2>1, <2>2, <2>3
<1> QED
  BY <1>1, <1>2, <1>3, PTL DEF Spec

-----------------------------------------------------------------------------
(* Messages that were not repeated arrive in their order.                  *)

\* The first n messages of cached_vec have the i-th message of s.
Kept(d, s, i, n) == \E p \in 1..n : CopyOf(cached[d][p], s, i)

\* The first of two messages is ahead of the second wherever this is: with the program, in
\* cached_vec, in a read that acknowledges it or not yet read.
InboxOrder(s, d, i, j) ==
    \A q \in 1..Len(inbox[d]) : CopyOf(inbox[d][q], s, j) => \E p \in 1..q : CopyOf(inbox[d][p], s, i)
CacheOrder(s, d, i, j) ==
    \A q \in 1..Len(cached[d]) : CopyOf(cached[d][q], s, j) => ArrivedAt(d, s, i) \/ Kept(d, s, i, q)
ReadOrder(s, d, i, j) ==
    \A p \in 1..Len(stack[d]) : stack[d][p].pc = "ack" /\ CopyOf(stack[d][p].m, s, j) =>
        ArrivedAt(d, s, i) \/ (p > 1 /\ Kept(d, s, i, Len(cached[d])))
BusOrder(s, d, i, j) ==
    \A p \in 1..Len(rx[d]) : CopyOf(rx[d][p], s, j) => Through(d, Written(s, i))

Ordered(s, d, i, j) ==
    InboxOrder(s, d, i, j) /\ CacheOrder(s, d, i, j) /\ ReadOrder(s, d, i, j) /\ BusOrder(s, d, i, j)

OrderInv ==
    \A s \in Devices : \A d \in Others(s) : Unrepeated(s, d) /\ Unsplit(d) =>
        \A i, j \in WholeTo(s, d) : i < j => Ordered(s, d, i, j)

\* A device that is sent no split message is never in the blocking loop over its fragments.
LEMMA NoLoop ==
    ASSUME NEW d \in Devices, Unsplit(d), NEW c \in Call, ReadIs(d, c)
    PROVE  c.pc # "loop"
<1> SUFFICES ASSUME c.pc = "loop"
             PROVE  FALSE
  OBVIOUS
<1>1. c.m.t = "frag"
  BY DEF Call, WriteRecord, ReadRecord, WritePC
<1>2. c.m.r \in {d, Broadcast} /\ c.m.s # d /\ Real(c.m)
  BY DEF ReadIs, Foreigner
<1>3. c.m.s \in Others(d) /\ Splits(c.m.s, c.m.r)
  BY <1>1, <1>2 DEF Real, Others
<1> QED
  BY <1>2, <1>3 DEF Unsplit

LEMMA NoLoops ==
    ASSUME OriginInv, NEW d \in Devices, Unsplit(d), NEW p \in 1..Len(stack[d])
    PROVE  stack[d][p].pc # "loop"
<1>1. stack[d] \in Seq(Call) /\ Origin(d)
  BY DEF OriginInv, TypeOK
<1>2. stack[d][p] \in Call
  BY <1>1, ElementOfSeq
<1>3. stack[d][p].pc = "loop" => ReadIs(d, stack[d][p])
  BY <1>1 DEF Origin, Sound, CallIs, ReadPC
<1> QED
  BY <1>2, <1>3, NoLoop

\* A frame is a copy of one message at most, and of none if it is no message to d, or a split one.
LEMMA OneCopy ==
    ASSUME NEW s \in Devices, NEW d \in Others(s), NEW i \in WholeTo(s, d), NEW x, CopyOf(x, s, i)
    PROVE  /\ x.t = "msg" /\ x.s = s /\ x.r = d /\ ~(Len(x.d) > 1)
           /\ \A j \in 1..Len(Script[s]) : x.d = Script[s][j].d => i = j
<1>1. /\ i \in 1..Len(Script[s]) /\ Written(s, i) = Script[s][i] /\ Written(s, i).r = d /\ Written(s, i).s = s
      /\ Len(Written(s, i).d) = 1
  BY WrittenMail
<1>2. x.t = "msg" /\ x.s = s /\ x.r = d /\ x.d = Written(s, i).d
  BY <1>1 DEF CopyOf, SamePair
<1>3. ~(Len(x.d) > 1)
  <2> DEFINE n == Len(x.d)
  <2>1. n = 1
    BY <1>1, <1>2
  <2> HIDE DEF n
  <2> QED
    BY <2>1 DEF n
<1>4. \A j \in 1..Len(Script[s]) : x.d = Script[s][j].d => i = j
  <2>1. \A j, k \in 1..Len(Script[s]) : Script[s][j].d = Script[s][k].d => j = k
    BY ScriptAssumption
  <2> QED
    BY <1>1, <1>2, <2>1
<1> QED
  BY <1>2, <1>3, <1>4

\* A message that is through but not being returned is ahead.
LEMMA ThroughAhead ==
    ASSUME NEW s \in Devices, NEW d \in Others(s), NEW i \in WholeTo(s, d), Through(d, Written(s, i)),
           ~TopIs(d, {"ack"})
    PROVE  ArrivedAt(d, s, i) \/ Kept(d, s, i, Len(cached[d]))
<1> DEFINE m == Written(s, i)
<1>1. CopyOf(m, s, i)
  BY WrittenMail DEF CopyOf, Mail, SamePair
<1> HIDE DEF m
<1>2. (\E p \in 1..Len(inbox[d]) : inbox[d][p] = m) \/ (\E p \in 1..Len(cached[d]) : cached[d][p] = m)
  BY DEF Through, TopIs, m
<1> QED
  BY <1>1, <1>2 DEF ArrivedAt, Kept

-----------------------------------------------------------------------------
(* The reads that acknowledge.                                             *)

\* Every read in t that acknowledges is in s, at the same place.
OldAcks(t, s) == \A p \in 1..Len(t) : t[p].pc = "ack" => p \in 1..Len(s) /\ s[p].pc = "ack" /\ s[p].m = t[p].m

LEMMA OldAcksPush ==
    ASSUME NEW t \in Seq(Call), NEW s, OldAcks(t, s), NEW c \in Call, c.pc # "ack"
    PROVE  Push(t, c) \in Seq(Call) /\ OldAcks(Push(t, c), s)
<1> USE DEF Push, OldAcks
<1>1. Append(t, c) \in Seq(Call)
  OBVIOUS
<1>2. \A p \in 1..Len(Append(t, c)) : Append(t, c)[p] = c \/ (p \in 1..Len(t) /\ Append(t, c)[p] = t[p])
  OBVIOUS
<1> HIDE DEF Push
<1> QED
  BY <1>1, <1>2 DEF Push

LEMMA OldAcksPop ==
    ASSUME NEW t \in Seq(Call), t # << >>, NEW s, OldAcks(t, s)
    PROVE  Pop(t) \in Seq(Call) /\ OldAcks(Pop(t), s)
<1>1. Pop(t) \in Seq(Call) /\ \A p \in 1..Len(Pop(t)) : p \in 1..Len(t) /\ Pop(t)[p] = t[p]
  BY DEF Pop
<1> QED
  BY <1>1 DEF OldAcks

LEMMA OldAcksTop ==
    ASSUME NEW t \in Seq(Call), t # << >>, NEW s, OldAcks(t, s), NEW c \in Call, c.pc # "ack"
    PROVE  SetTop(t, c) \in Seq(Call) /\ OldAcks(SetTop(t, c), s)
<1>1. SetTop(t, c) = Push(Pop(t), c)
  BY PushPop
<1> QED
  BY <1>1, OldAcksPop, OldAcksPush

LEMMA OldAcksBack ==
    ASSUME NEW s \in Seq(Call), NEW b, Resumable(s, b)
    PROVE  b \in Seq(Call) /\ OldAcks(b, s)
<1>1. b \in Seq(Call) /\ \A p \in 1..Len(b) : p \in 1..Len(s) /\ b[p].pc = s[p].pc /\ b[p].m = s[p].m
  BY ResumableBelow
<1> QED
  BY <1>1 DEF OldAcks

\* A write makes no read that acknowledges, nor does the caller of a read that returns.
LEMMA WriteOldAcks ==
    ASSUME OriginInv, NEW d \in Devices, WriteShape(d)
    PROVE  OldAcks(stack'[d], stack[d])
<1>1. stack[d] \in Seq(Call) /\ TypeOK
  BY DEF OriginInv, TypeOK
<1>2. OldAcks(stack[d], stack[d])
  BY DEF OldAcks
<1>3. CASE Begun(d)
  BY <1>1, <1>2, <1>3, OldAcksPush DEF Begun
<1>4. CASE Moved(d)
  BY <1>1, <1>2, <1>4, OldAcksTop DEF Moved
<1>5. CASE Again(d)
  <2>1. PICK c \in Call, w \in Call : c.pc = "await" /\ w.pc = "drain" /\ stack'[d] = Push(SetTop(stack[d], c), w)
    BY <1>5 DEF Again
  <2>2. SetTop(stack[d], c) \in Seq(Call) /\ OldAcks(SetTop(stack[d], c), stack[d])
    BY <1>1, <1>2, <1>5, <2>1, OldAcksTop DEF Again
  <2> DEFINE q == SetTop(stack[d], c)
  <2> HIDE DEF q
  <2>3. OldAcks(Push(q, w), stack[d])
    BY <2>1, <2>2, OldAcksPush DEF q
  <2> QED
    BY <2>1, <2>3 DEF q
<1>6. CASE Ended(d)
  <2>1. PICK ok \in BOOLEAN : stack[d] # << >> /\ ReturnWrite(d, Pop(stack[d]), ok)
    BY <1>6 DEF Ended
  <2> DEFINE q == Pop(stack[d])
  <2>2. q \in Seq(Call) /\ OldAcks(q, stack[d])
    BY <1>1, <1>2, <2>1, OldAcksPop
  <2> HIDE DEF q
  <2>3. \/ stack'[d] = q
        \/ q # << >> /\ stack'[d] = Pop(q)
        \/ q # << >> /\ \E c \in Call : stack'[d] = SetTop(q, c) /\ c.pc = "group"
    BY <1>1, <2>1, <2>2, ReturnForms DEF q
  <2> QED
    BY <2>2, <2>3, OldAcksPop, OldAcksTop
<1> QED
  BY <1>3, <1>4, <1>5, <1>6 DEF WriteShape

LEMMA ResumeOldAcks ==
    ASSUME NEW b \in Seq(Call), NEW s, OldAcks(b, s), NEW x \in Frame
    PROVE  OldAcks(ResumeStack(b, x), s)
<1>1. \/ ResumeStack(b, x) = b
      \/ b # << >> /\ \E c \in Call : ResumeStack(b, x) = SetTop(b, c) /\ c.pc \in {"collect", "await", "loop"}
  BY ResumeForms
<1> QED
  BY <1>1, OldAcksTop

-----------------------------------------------------------------------------
(* The order in what a device has read.                                    *)

\* A message that is handed to the program comes after those that must be ahead of it.
LEMMA GrowInbox ==
    ASSUME NEW s, NEW d, NEW i, NEW j, NEW x \in Frame, inbox[d] \in Seq(Frame), InboxOrder(s, d, i, j),
           \/ inbox'[d] = inbox[d]
           \/ inbox'[d] = Append(inbox[d], x) /\ (CopyOf(x, s, j) => ArrivedAt(d, s, i))
    PROVE  /\ InboxOrder(s, d, i, j)'
           /\ ArrivedAt(d, s, i) => ArrivedAt(d, s, i)'
<1>1. CASE inbox'[d] = inbox[d]
  BY <1>1 DEF InboxOrder, ArrivedAt
<1>2. CASE inbox'[d] = Append(inbox[d], x) /\ (CopyOf(x, s, j) => ArrivedAt(d, s, i))
  <2> DEFINE q == inbox[d]
             n == Len(q)
             w == Append(q, x)
  <2>1. /\ q \in Seq(Frame) /\ n \in Nat
        /\ n + 1 \in Nat /\ Len(w) = n + 1 /\ w[n + 1] = x /\ \A p \in 1..n : w[p] = q[p]
    BY <1>2
  <2>2. /\ inbox'[d] = w
        /\ CopyOf(x, s, j) => \E p \in 1..n : CopyOf(q[p], s, i)
        /\ \A r \in 1..n : CopyOf(q[r], s, j) => \E p \in 1..r : CopyOf(q[p], s, i)
    BY <1>2 DEF ArrivedAt, InboxOrder
  <2>3. (\E p \in 1..n : CopyOf(q[p], s, i)) => \E p \in 1..Len(w) : CopyOf(w[p], s, i)
    <3> HIDE DEF q, w, n
    <3>1. \A p \in 1..n : p \in 1..n + 1
      BY <2>1
    <3> QED
      BY <2>1, <3>1
  <2>4. ASSUME NEW r \in 1..Len(w), CopyOf(w[r], s, j)
        PROVE  \E p \in 1..r : CopyOf(w[p], s, i)
    <3> HIDE DEF q, w, n
    <3>1. r \in 1..n \/ r = n + 1
      BY <2>1, <2>4
    <3>2. CASE r \in 1..n
      <4>1. PICK p \in 1..r : CopyOf(q[p], s, i)
        BY <2>1, <2>2, <2>4, <3>2
      <4>2. p \in 1..n
        BY <2>1, <3>2, <4>1
      <4> QED
        BY <2>1, <4>1, <4>2
    <3>3. CASE r = n + 1
      <4>1. PICK p \in 1..n : CopyOf(q[p], s, i)
        BY <2>1, <2>2, <2>4, <3>3
      <4>2. p \in 1..r
        BY <2>1, <3>3, <4>1
      <4> QED
        BY <2>1, <4>1, <4>2
    <3> QED
      BY <3>1, <3>2, <3>3
  <2>5. ArrivedAt(d, s, i) => ArrivedAt(d, s, i)'
    BY <2>2, <2>3 DEF ArrivedAt
  <2>6. InboxOrder(s, d, i, j)'
    BY <2>2, <2>4 DEF InboxOrder
  <2> QED
    BY <2>5, <2>6
<1> QED
  BY <1>1, <1>2

\* The same for cached_vec.
LEMMA GrowCache ==
    ASSUME NEW s, NEW d, NEW i, NEW j, NEW x \in Frame, cached[d] \in Seq(Frame), CacheOrder(s, d, i, j),
           \/ cached'[d] = cached[d]
           \/ /\ cached'[d] = Append(cached[d], x)
              /\ CopyOf(x, s, j) => ArrivedAt(d, s, i) \/ Kept(d, s, i, Len(cached[d])),
           ArrivedAt(d, s, i) => ArrivedAt(d, s, i)'
    PROVE  /\ CacheOrder(s, d, i, j)'
           /\ Kept(d, s, i, Len(cached[d])) => Kept(d, s, i, Len(cached[d]))'
<1>1. CASE cached'[d] = cached[d]
  BY <1>1 DEF CacheOrder, Kept
<1>2. CASE /\ cached'[d] = Append(cached[d], x)
           /\ CopyOf(x, s, j) => ArrivedAt(d, s, i) \/ Kept(d, s, i, Len(cached[d]))
  <2> DEFINE q == cached[d]
             n == Len(q)
             w == Append(q, x)
  <2>1. /\ q \in Seq(Frame) /\ n \in Nat
        /\ n + 1 \in Nat /\ Len(w) = n + 1 /\ w[n + 1] = x /\ \A p \in 1..n : w[p] = q[p]
    BY <1>2
  <2>2. /\ cached'[d] = w
        /\ CopyOf(x, s, j) => ArrivedAt(d, s, i) \/ \E p \in 1..n : CopyOf(q[p], s, i)
        /\ \A r \in 1..n : CopyOf(q[r], s, j) => ArrivedAt(d, s, i) \/ \E p \in 1..r : CopyOf(q[p], s, i)
    BY <1>2 DEF Kept, CacheOrder
  <2>3. (\E p \in 1..n : CopyOf(q[p], s, i)) => \E p \in 1..Len(w) : CopyOf(w[p], s, i)
    <3> HIDE DEF q, w, n
    <3>1. \A p \in 1..n : p \in 1..n + 1
      BY <2>1
    <3> QED
      BY <2>1, <3>1
  <2>4. ASSUME NEW r \in 1..Len(w), CopyOf(w[r], s, j), ~ArrivedAt(d, s, i)
        PROVE  \E p \in 1..r : CopyOf(w[p], s, i)
    <3> HIDE DEF q, w, n
    <3>1. r \in 1..n \/ r = n + 1
      BY <2>1, <2>4
    <3>2. CASE r \in 1..n
      <4>1. PICK p \in 1..r : CopyOf(q[p], s, i)
        BY <2>1, <2>2, <2>4, <3>2
      <4>2. p \in 1..n
        BY <2>1, <3>2, <4>1
      <4> QED
        BY <2>1, <4>1, <4>2
    <3>3. CASE r = n + 1
      <4>1. PICK p \in 1..n : CopyOf(q[p], s, i)
        BY <2>1, <2>2, <2>4, <3>3
      <4>2. p \in 1..r
        BY <2>1, <3>3, <4>1
      <4> QED
        BY <2>1, <4>1, <4>2
    <3> QED
      BY <3>1, <3>2, <3>3
  <2>5. Kept(d, s, i, Len(cached[d])) => Kept(d, s, i, Len(cached[d]))'
    BY <2>2, <2>3 DEF Kept
  <2>6. CacheOrder(s, d, i, j)'
    BY <2>2, <2>4 DEF CacheOrder, Kept
  <2> QED
    BY <2>5, <2>6
<1> QED
  BY <1>1, <1>2

\* Reads that go on have the same messages ahead of theirs.
LEMMA OldReads ==
    ASSUME NEW s, NEW d, NEW i, NEW j, ReadOrder(s, d, i, j), OldAcks(stack'[d], stack[d]),
           ArrivedAt(d, s, i) => ArrivedAt(d, s, i)',
           Kept(d, s, i, Len(cached[d])) => Kept(d, s, i, Len(cached[d]))'
    PROVE  ReadOrder(s, d, i, j)'
<1>1. ASSUME NEW p \in 1..Len(stack'[d]), stack'[d][p].pc = "ack", CopyOf(stack'[d][p].m, s, j)
      PROVE  ArrivedAt(d, s, i)' \/ (p > 1 /\ Kept(d, s, i, Len(cached[d]))')
  <2>1. p \in 1..Len(stack[d]) /\ stack[d][p].pc = "ack" /\ CopyOf(stack[d][p].m, s, j)
    BY <1>1 DEF OldAcks
  <2> QED
    BY <2>1 DEF ReadOrder
<1> QED
  BY <1>1 DEF ReadOrder

\* The program reads the oldest message of cached_vec.
LEMMA CacheReadOrder ==
    ASSUME OriginInv, NEW s \in Devices, NEW d \in Others(s), NEW i \in WholeTo(s, d), NEW j \in WholeTo(s, d),
           i < j, InboxOrder(s, d, i, j), CacheOrder(s, d, i, j), cached[d] # << >>,
           ReturnMessage(d, << >>, Tail(cached[d]), Head(cached[d]))
    PROVE  InboxOrder(s, d, i, j)' /\ CacheOrder(s, d, i, j)' /\ stack'[d] = << >>
<1> DEFINE q == cached[d]
           x == Head(q)
           w == Tail(q)
<1>1. /\ d \in Devices /\ stack \in [Devices -> Seq(Call)] /\ cached \in [Devices -> Seq(Frame)]
      /\ inbox \in [Devices -> Seq(Frame)]
  BY DEF Others, OriginInv, TypeOK
<1>2. /\ q \in Seq(Frame) /\ q # << >> /\ x = q[1] /\ x \in Frame /\ w \in Seq(Frame)
      /\ Len(q) >= 1 /\ 1 \in 1..Len(q) /\ Len(q) \in Nat
      /\ \A p \in 1..Len(w) : p + 1 \in 1..Len(q) /\ w[p] = q[p + 1] /\ p \in Nat
  BY <1>1
<1>3. /\ stack'[d] = << >> /\ cached'[d] = w
      /\ inbox'[d] = IF x.r \in {d, Broadcast} /\ x.t # "ack" THEN Append(inbox[d], x) ELSE inbox[d]
  BY <1>1 DEF ReturnMessage, ResumeStack, ResumeCached, ResumeInbox
<1> HIDE DEF q, x, w
<1>4. \A k \in WholeTo(s, d) : CopyOf(x, s, k) => x.r = d /\ x.t = "msg"
  BY OneCopy
<1>5. i # j /\ i \in 1..Len(Script[s]) /\ Written(s, i) = Script[s][i]
  <2>1. i \in 1..Len(Script[s]) /\ j \in 1..Len(Script[s]) /\ Written(s, i) = Script[s][i]
    BY WrittenMail
  <2>2. i \in Int /\ j \in Int
    BY <2>1, ScriptAssumption
  <2> QED
    BY <2>1, <2>2
<1>6. ~(CopyOf(x, s, i) /\ CopyOf(x, s, j))
  <2>1. CopyOf(x, s, i) => x.d = Script[s][i].d
    BY <1>5 DEF CopyOf
  <2>2. CopyOf(x, s, j) /\ x.d = Script[s][i].d => j = i
    BY <1>5, OneCopy
  <2> QED
    BY <1>5, <2>1, <2>2
<1>7. CopyOf(x, s, j) => ArrivedAt(d, s, i)
  <2>1. SUFFICES ASSUME CopyOf(q[1], s, j), ~ArrivedAt(d, s, i)
                 PROVE  FALSE
    BY <1>2
  <2>2. \E p \in 1..1 : CopyOf(q[p], s, i)
    BY <1>2, <2>1 DEF CacheOrder, Kept, q
  <2>3. CopyOf(q[1], s, i)
    BY <2>2
  <2> QED
    BY <1>2, <1>6, <2>1, <2>3
<1>8. InboxOrder(s, d, i, j)' /\ (ArrivedAt(d, s, i) => ArrivedAt(d, s, i)')
  <2>1. inbox[d] \in Seq(Frame)
    BY <1>1
  <2>2. inbox'[d] = inbox[d] \/ inbox'[d] = Append(inbox[d], x)
    BY <1>3
  <2> QED
    BY <1>2, <1>7, <2>1, <2>2, GrowInbox
<1>9. CopyOf(x, s, i) => ArrivedAt(d, s, i)'
  <2>1. SUFFICES ASSUME CopyOf(x, s, i)
                 PROVE  ArrivedAt(d, s, i)'
    OBVIOUS
  <2>2. inbox'[d] = Append(inbox[d], x)
    BY <1>3, <1>4, <2>1
  <2>3. Len(inbox'[d]) \in 1..Len(inbox'[d]) /\ inbox'[d][Len(inbox'[d])] = x
    BY <1>1, <1>2, <2>2, AppendKeeps
  <2> QED
    BY <2>1, <2>3 DEF ArrivedAt
<1>10. ASSUME NEW r \in 1..Len(w), CopyOf(w[r], s, j), ~ArrivedAt(d, s, i)'
       PROVE  \E p \in 1..r : CopyOf(w[p], s, i)
  <2>1. r + 1 \in 1..Len(q) /\ CopyOf(q[r + 1], s, j) /\ r \in Nat
    BY <1>2, <1>10
  <2>2. PICK p \in 1..r + 1 : CopyOf(q[p], s, i)
    BY <1>8, <1>10, <2>1 DEF CacheOrder, Kept, q
  <2>3. p # 1
    BY <1>2, <1>9, <1>10, <2>2
  <2>4. p - 1 \in 1..r /\ (p - 1) + 1 = p
    BY <2>1, <2>2, <2>3
  <2>5. p - 1 \in 1..Len(w)
    <3> DEFINE n == Len(w)
    <3>1. n \in Nat /\ r \in 1..n
      BY <1>2, <1>10
    <3> HIDE DEF n
    <3>2. p - 1 \in 1..n
      BY <2>4, <3>1
    <3> QED
      BY <3>2 DEF n
  <2>6. w[p - 1] = q[p]
    BY <1>2, <2>4, <2>5
  <2> QED
    BY <2>2, <2>4, <2>6
<1>11. CacheOrder(s, d, i, j)'
  BY <1>3, <1>10 DEF CacheOrder, Kept
<1> QED
  BY <1>3, <1>8, <1>11

\* A read that takes a message: the messages ahead of it are through, so that they are with
\* the program or in cached_vec, and with the program if this is its own read.
LEMMA TakenOrder ==
    ASSUME OriginInv, NEW s \in Devices, NEW d \in Others(s), NEW i \in WholeTo(s, d), NEW j \in WholeTo(s, d),
           InboxOrder(s, d, i, j), CacheOrder(s, d, i, j), ReadOrder(s, d, i, j), BusOrder(s, d, i, j),
           NEW b, Resumable(stack[d], b), Taken(d, b)
    PROVE  InboxOrder(s, d, i, j)' /\ CacheOrder(s, d, i, j)' /\ ReadOrder(s, d, i, j)'
<1>1. /\ d \in Devices /\ stack[d] \in Seq(Call) /\ stack \in [Devices -> Seq(Call)]
      /\ rx[d] \in Seq(Frame) /\ TypeOK
  BY DEF Others, OriginInv, TypeOK
<1>2. UNCHANGED <<cached, inbox>>
  BY DEF Taken
<1>3. InboxOrder(s, d, i, j)' /\ CacheOrder(s, d, i, j)'
  BY <1>2 DEF InboxOrder, CacheOrder, ArrivedAt, Kept
<1>4. b \in Seq(Call) /\ OldAcks(b, stack[d])
  BY <1>1, OldAcksBack
<1> DEFINE x == Head(rx[d])
           w == WriteCall(Ack(d, x.s), FALSE)
<1>5. rx[d] # << >> /\ x = rx[d][1] /\ 1 \in 1..Len(rx[d])
  BY <1>1 DEF Taken
<1>6. w.pc # "ack"
  BY DEF WriteCall
<1>7. PICK r \in Call : r.pc = "ack" /\ r.m = x /\ stack' = [stack EXCEPT ![d] = Push(Push(b, r), w)]
  BY DEF Taken
<1>8. stack'[d] = Push(Push(b, r), w)
  BY <1>1, <1>7
<1>9. CopyOf(x, s, j) => ArrivedAt(d, s, i) \/ (b # << >> /\ Kept(d, s, i, Len(cached[d])))
  <2>1. SUFFICES ASSUME CopyOf(x, s, j)
                 PROVE  ArrivedAt(d, s, i) \/ (b # << >> /\ Kept(d, s, i, Len(cached[d])))
    OBVIOUS
  <2>2. Through(d, Written(s, i))
    BY <1>5, <2>1 DEF BusOrder
  <2>3. ArrivedAt(d, s, i) \/ Kept(d, s, i, Len(cached[d]))
    BY <2>2, ThroughAhead DEF Taken
  <2>4. ~Kept(d, s, i, Len(<< >>))
    <3>1. Len(<< >>) = 0
      OBVIOUS
    <3> QED
      BY <3>1 DEF Kept
  <2>5. b = << >> => cached[d] = << >>
    BY DEF Taken
  <2> QED
    BY <2>3, <2>4, <2>5
<1> HIDE DEF x, w
<1>10. ASSUME NEW p \in 1..Len(stack'[d]), stack'[d][p].pc = "ack", CopyOf(stack'[d][p].m, s, j)
       PROVE  ArrivedAt(d, s, i) \/ (p > 1 /\ Kept(d, s, i, Len(cached[d])))
  <2> DEFINE n == Len(b)
             z == Push(Push(b, r), w)
  <2>1. /\ n \in Nat /\ Len(z) = n + 2 /\ z[n + 1] = r /\ z[n + 2] = w
        /\ \A e \in 1..n : z[e] = b[e]
        /\ b # << >> => n > 0
    BY <1>4, <1>7 DEF Push
  <2>2. p \in 1..Len(z) /\ z[p].pc = "ack" /\ CopyOf(z[p].m, s, j)
    BY <1>8, <1>10
  <2>3. p \in 1..n \/ p = n + 1 \/ p = n + 2
    <3> HIDE DEF n, z
    <3> QED
      BY <2>1, <2>2
  <2>4. CASE p \in 1..n
    <3>1. b[p].pc = "ack" /\ CopyOf(b[p].m, s, j)
      BY <2>1, <2>2, <2>4
    <3>2. p \in 1..Len(stack[d]) /\ stack[d][p].pc = "ack" /\ CopyOf(stack[d][p].m, s, j)
      BY <1>4, <2>4, <3>1 DEF OldAcks
    <3> QED
      BY <3>2 DEF ReadOrder
  <2>5. CASE p = n + 1
    <3>1. CopyOf(x, s, j)
      BY <1>7, <2>1, <2>2, <2>5
    <3>2. b # << >> => p > 1
      <4> HIDE DEF n, z
      <4> QED
        BY <2>1, <2>5
    <3> QED
      BY <1>9, <3>1, <3>2
  <2>6. CASE p = n + 2
    BY <1>6, <2>1, <2>2, <2>6
  <2> QED
    BY <2>3, <2>4, <2>5, <2>6
<1>11. ReadOrder(s, d, i, j)'
  BY <1>2, <1>10 DEF ReadOrder, ArrivedAt, Kept
<1> QED
  BY <1>3, <1>11

\* A read that returns nothing.
LEMMA SkippedOrder ==
    ASSUME OriginInv, NEW s \in Devices, NEW d \in Others(s), NEW i \in WholeTo(s, d), NEW j \in WholeTo(s, d),
           InboxOrder(s, d, i, j), CacheOrder(s, d, i, j), ReadOrder(s, d, i, j),
           NEW b, Resumable(stack[d], b), Skipped(d, b)
    PROVE  InboxOrder(s, d, i, j)' /\ CacheOrder(s, d, i, j)' /\ ReadOrder(s, d, i, j)'
<1>1. d \in Devices /\ stack[d] \in Seq(Call) /\ stack \in [Devices -> Seq(Call)]
  BY DEF Others, OriginInv, TypeOK
<1>2. UNCHANGED <<cached, inbox>>
  BY DEF Skipped
<1>3. InboxOrder(s, d, i, j)' /\ CacheOrder(s, d, i, j)'
  BY <1>2 DEF InboxOrder, CacheOrder, ArrivedAt, Kept
<1>4. b \in Seq(Call) /\ OldAcks(b, stack[d])
  BY <1>1, OldAcksBack
<1>5. \A t : stack' = [stack EXCEPT ![d] = t] => stack'[d] = t
  BY <1>1
<1>6. OldAcks(stack'[d], stack[d])
  <2>1. CASE stack' = [stack EXCEPT ![d] = b]
    BY <1>4, <1>5, <2>1
  <2>2. CASE \E c \in Call : c.pc = "loop" /\ ReadIs(d, c) /\ stack' = [stack EXCEPT ![d] = Push(b, c)]
    BY <1>4, <1>5, <2>2, OldAcksPush
  <2>3. ASSUME NEW r, NEW m, Suspended(d, b, r, m), stack' = [stack EXCEPT ![d] = Push(Push(b, r), WriteCall(m, TRUE))]
        PROVE  OldAcks(stack'[d], stack[d])
    <3> DEFINE w == WriteCall(m, TRUE)
               t == Push(b, r)
    <3>1. r \in Call /\ r.pc # "ack" /\ m \in Frame
      BY <2>3 DEF Suspended
    <3>2. w \in Call
      BY <3>1, WriteCallType DEF Call
    <3>3. w.pc # "ack"
      BY DEF WriteCall
    <3>4. t \in Seq(Call) /\ OldAcks(t, stack[d])
      BY <1>4, <3>1, OldAcksPush
    <3>5. stack'[d] = Push(t, w)
      BY <1>5, <2>3
    <3> HIDE DEF w, t
    <3> QED
      BY <3>2, <3>3, <3>4, <3>5, OldAcksPush
  <2> QED
    BY <2>1, <2>2, <2>3 DEF Skipped
<1>7. ReadOrder(s, d, i, j)'
  BY <1>2, <1>6, OldReads DEF ArrivedAt, Kept
<1> QED
  BY <1>3, <1>7

\* A read that returns a message.
LEMMA ReturnedOrder ==
    ASSUME OriginInv, NEW s \in Devices, NEW d \in Others(s), NEW i \in WholeTo(s, d), NEW j \in WholeTo(s, d),
           i < j, Unsplit(d),
           InboxOrder(s, d, i, j), CacheOrder(s, d, i, j), ReadOrder(s, d, i, j),
           NEW b, Resumable(stack[d], b), Returned(d, b)
    PROVE  InboxOrder(s, d, i, j)' /\ CacheOrder(s, d, i, j)' /\ ReadOrder(s, d, i, j)'
<1>1. /\ d \in Devices /\ stack[d] \in Seq(Call) /\ stack \in [Devices -> Seq(Call)]
      /\ cached \in [Devices -> Seq(Frame)] /\ inbox \in [Devices -> Seq(Frame)]
      /\ cached[d] \in Seq(Frame) /\ inbox[d] \in Seq(Frame)
  BY DEF Others, OriginInv, TypeOK
<1>2. b \in Seq(Call) /\ OldAcks(b, stack[d])
  BY <1>1, OldAcksBack
<1>3. PICK c, x : /\ x \in Frame /\ ReturnMessage(d, b, c, x)
                  /\ FromCache(d, b, c, x) \/ FromBus(d, c, x) \/ FromCall(d, b, c, x) \/ Joined(d, c, x)
  BY DEF Returned
<1>4. /\ stack'[d] = ResumeStack(b, x)
      /\ cached'[d] = ResumeCached(d, c, b, x)
      /\ inbox'[d] = ResumeInbox(d, b, x)
  BY <1>1, <1>3 DEF ReturnMessage
<1>5. \A p \in 1..Len(stack[d]) : stack[d][p].pc # "loop"
  BY <1>1, NoLoops
<1>6. \A p \in 1..Len(b) : b[p].pc # "loop"
  <2>1. \A p \in 1..Len(b) : p \in 1..Len(stack[d]) /\ b[p].pc = stack[d][p].pc
    BY <1>1, ResumableBelow
  <2> QED
    BY <1>5, <2>1
<1>7. ~TopIs(d, {"loop"}) /\ (b # << >> => Top(b).pc # "loop")
  <2>1. stack[d] # << >> => Len(stack[d]) \in 1..Len(stack[d])
    BY <1>1, EmptySeq
  <2>2. b # << >> => Len(b) \in 1..Len(b)
    BY <1>2, EmptySeq
  <2> QED
    BY <1>5, <1>6, <2>1, <2>2 DEF TopIs, Top
<1>8. CASE FromCache(d, b, c, x)
  <2>1. b = << >> /\ cached[d] # << >> /\ c = Tail(cached[d]) /\ x = Head(cached[d])
    BY <1>7, <1>8 DEF FromCache
  <2>2. ReturnMessage(d, << >>, Tail(cached[d]), Head(cached[d]))
    BY <1>3, <2>1
  <2>3. InboxOrder(s, d, i, j)' /\ CacheOrder(s, d, i, j)' /\ stack'[d] = << >>
    BY <2>1, <2>2, CacheReadOrder
  <2>4. ReadOrder(s, d, i, j)'
    <3>1. Len(<< >>) = 0
      OBVIOUS
    <3> QED
      BY <2>3, <3>1 DEF ReadOrder
  <2> QED
    BY <2>3, <2>4
<1>9. ASSUME c = cached[d],
             CopyOf(x, s, j) => ArrivedAt(d, s, i) \/ (b # << >> /\ Kept(d, s, i, Len(cached[d])))
      PROVE  InboxOrder(s, d, i, j)' /\ CacheOrder(s, d, i, j)' /\ ReadOrder(s, d, i, j)'
  <2>1. inbox'[d] = inbox[d] \/ (b = << >> /\ inbox'[d] = Append(inbox[d], x))
    BY <1>4 DEF ResumeInbox
  <2>2. cached'[d] = cached[d] \/ cached'[d] = Append(cached[d], x)
    BY <1>4, <1>9 DEF ResumeCached, CacheMessage
  <2>3. InboxOrder(s, d, i, j)' /\ (ArrivedAt(d, s, i) => ArrivedAt(d, s, i)')
    BY <1>1, <1>3, <1>9, <2>1, GrowInbox
  <2>4. CacheOrder(s, d, i, j)' /\ (Kept(d, s, i, Len(cached[d])) => Kept(d, s, i, Len(cached[d]))')
    BY <1>1, <1>3, <1>9, <2>2, <2>3, GrowCache
  <2>5. OldAcks(stack'[d], stack[d])
    BY <1>2, <1>3, <1>4, ResumeOldAcks
  <2> QED
    BY <2>3, <2>4, <2>5, OldReads
<1>10. CASE FromBus(d, c, x)
  <2>1. c = cached[d] /\ ~CopyOf(x, s, j)
    BY <1>10, OneCopy DEF FromBus
  <2> QED
    BY <1>9, <2>1
<1>11. CASE Joined(d, c, x)
  <2>1. c = cached[d] /\ ~CopyOf(x, s, j)
    BY <1>7, <1>11, OneCopy DEF Joined
  <2> QED
    BY <1>9, <2>1
<1>12. CASE FromCall(d, b, c, x)
  <2>1. c = cached[d] /\ stack[d] # << >> /\ Top(stack[d]).pc = "ack" /\ x = Top(stack[d]).m /\ b = Pop(stack[d])
    BY <1>12 DEF FromCall, TopIs
  <2>2. Len(stack[d]) \in 1..Len(stack[d])
    BY <1>1, <2>1, EmptySeq
  <2>3. CopyOf(x, s, j) => ArrivedAt(d, s, i) \/ (Len(stack[d]) > 1 /\ Kept(d, s, i, Len(cached[d])))
    BY <2>1, <2>2 DEF ReadOrder, Top
  <2>4. Len(stack[d]) > 1 => b # << >>
    <3> DEFINE n == Len(stack[d])
    <3>1. n \in Nat
      BY <1>1
    <3>2. n # 1 => Pop(stack[d]) # << >>
      <4>1. Top(stack[d]) \in Call
        BY <1>1, <2>2, ElementOfSeq DEF Top
      <4> QED
        BY <1>1, <2>1, <4>1, BottomTop
    <3> HIDE DEF n
    <3>3. n > 1 => n # 1
      BY <3>1
    <3> QED
      BY <2>1, <3>2, <3>3 DEF n
  <2> QED
    BY <1>9, <2>1, <2>3, <2>4
<1> QED
  BY <1>3, <1>8, <1>10, <1>11, <1>12

-----------------------------------------------------------------------------
(* The order on the bus.                                                   *)

\* A device sends a message when it knows that those before it were read.
LEMMA SendOrder ==
    ASSUME OriginInv, NEW s \in Devices, NEW d \in Others(s), Unrepeated(s, d), Answered(s, d),
           NEW i \in WholeTo(s, d), NEW j \in WholeTo(s, d), i < j, BusOrder(s, d, i, j),
           NEW a \in Devices, WriteShape(a), NEW p \in 1..Len(rx'[d]), CopyOf(rx'[d][p], s, j)
    PROVE  Through(d, Written(s, i))
<1> DEFINE q == rx[d]
           w == Top(stack[a])
           f == w.m
<1>1. /\ TypeOK /\ d \in Devices /\ q \in Seq(Frame) /\ stack[a] \in Seq(Call) /\ Origin(a)
      /\ Sound(a, stack[a], repeated, outcome[a]) /\ outcome[a] \in Seq(BOOLEAN) /\ Len(outcome[a]) \in Nat
  <2>1. TypeOK /\ d \in Devices /\ Origin(a)
    BY DEF Others, OriginInv
  <2>2. q \in Seq(Frame) /\ stack[a] \in Seq(Call) /\ outcome[a] \in Seq(BOOLEAN)
    BY <2>1 DEF TypeOK
  <2>3. Sound(a, stack[a], repeated, outcome[a])
    BY <2>1, OriginParts
  <2>4. Len(outcome[a]) \in Nat
    BY <2>2
  <2> QED
    BY <2>1, <2>2, <2>3, <2>4
<1>2. CASE rx'[d] = q
  BY <1>2 DEF BusOrder
<1>3. ASSUME stack[a] # << >>, w.pc = "drain", f \in Frame, WriteIs(a, w, repeated), Transmit(a, f), rx'[d] # q
      PROVE  Through(d, Written(s, i))
  <2>1. d \in Others(a) /\ (rx'[d] = Append(q, f) \/ rx'[d] = Append(q, Damaged(f)))
    BY <1>1, <1>3, Carried DEF Others
  <2>2. Damaged(f).t = "bad"
    BY <1>3 DEF Damaged, Frame
  <2>3. (p \in 1..Len(q) /\ rx'[d][p] = q[p]) \/ rx'[d][p] \in {f, Damaged(f)}
    <3> HIDE DEF q, f
    <3>1. \A x : p \in 1..Len(Append(q, x)) => (p \in 1..Len(q) /\ Append(q, x)[p] = q[p]) \/ Append(q, x)[p] = x
      BY <1>1
    <3> QED
      BY <2>1, <3>1
  <2>4. CASE p \in 1..Len(q) /\ rx'[d][p] = q[p]
    BY <2>4 DEF BusOrder
  <2>5. CASE rx'[d][p] \in {f, Damaged(f)}
    <3>1. CopyOf(f, s, j)
      BY <2>2, <2>5, OneCopy
    <3>2. f.t = "msg" /\ f.s = s /\ f.r = d /\ \A k \in 1..Len(Script[s]) : f.d = Script[s][k].d => j = k
      BY <3>1, OneCopy
    <3>3. a = s
      BY <1>3, <3>2, DeviceAssumption DEF WriteIs, Own
    <3>4. w.pc \in WritePC
      BY <1>3 DEF WritePC
    <3>5. Pop(stack[a]) = << >>
      <4>1. Pop(stack[a]) # << >> => Made(a, Top(Pop(stack[a])), w, repeated)
        BY <1>1, <1>3, SoundPop
      <4>2. Pair(f) \notin repeated
        BY <3>2 DEF Pair, Unrepeated
      <4> QED
        BY <3>2, <3>4, <4>1, <4>2 DEF Made
    <3>6. Starts(a, w, outcome[a])
      BY <1>1, <1>3, <3>5, SoundPop
    <3>7. Len(outcome[s]) < Len(Script[s]) /\ f = Script[s][Len(outcome[s]) + 1]
      BY <3>3, <3>4, <3>6 DEF Starts
    <3>8. j = Len(outcome[s]) + 1
      <4>1. Len(outcome[s]) + 1 \in 1..Len(Script[s])
        <5>1. Script[s] \in Seq(Frame)
          BY ScriptAssumption
        <5> QED
          BY <1>1, <3>3, <3>7, <5>1
      <4> QED
        BY <3>2, <3>7, <4>1
    <3>9. i <= Len(outcome[s])
      <4>1. i \in 1..Len(Script[s]) /\ i \in Int
        BY WrittenMail, ScriptAssumption
      <4> DEFINE n == Len(outcome[s])
      <4>2. n \in Nat /\ j = n + 1
        BY <1>1, <3>3, <3>8
      <4> HIDE DEF n
      <4>3. i <= n
        BY <4>1, <4>2
      <4> QED
        BY <4>3 DEF n
    <3> QED
      BY <3>9 DEF Answered
  <2> QED
    BY <2>3, <2>4, <2>5
<1>4. UNCHANGED rx => rx'[d] = q
  OBVIOUS
<1> QED
  BY <1>2, <1>3, <1>4, Spoken

\* A read brings nothing new.
LEMMA ReadBus ==
    ASSUME OriginInv, NEW d \in Devices, ReadShape(d), NEW p \in 1..Len(rx'[d])
    PROVE  \E q \in 1..Len(rx[d]) : rx'[d][p] = rx[d][q]
<1>1. TypeOK /\ rx[d] \in Seq(Frame)
  BY DEF OriginInv, TypeOK
<1>2. CASE rx'[d] = rx[d]
  BY <1>2
<1>3. CASE rx[d] # << >> /\ rx'[d] = Tail(rx[d])
  <2> DEFINE q == rx[d]
  <2>1. q \in Seq(Frame) /\ q # << >> /\ p \in 1..Len(Tail(q)) /\ rx'[d][p] = Tail(q)[p]
    BY <1>1, <1>3
  <2> HIDE DEF q
  <2>2. Tail(q)[p] = q[p + 1] /\ p + 1 \in 1..Len(q)
    BY <2>1
  <2> QED
    BY <2>1, <2>2 DEF q
<1>4. CASE rx'[d] = << >>
  <2>1. Len(<< >>) = 0
    OBVIOUS
  <2> QED
    BY <1>4, <2>1
<1> QED
  BY <1>1, <1>2, <1>3, <1>4, ReadBuffers

LEMMA OrderStep ==
    ASSUME OriginInv, Credit, AnsweredInv, OrderInv, CanKeep, [Next]_vars
    PROVE  OrderInv'
<1>1. TypeOK'
  BY OriginStep DEF OriginInv
<1>2. ASSUME NEW s \in Devices, NEW d \in Others(s), Unrepeated(s, d)', Unsplit(d),
             NEW i \in WholeTo(s, d), NEW j \in WholeTo(s, d), i < j
      PROVE  Ordered(s, d, i, j)'
  <2>1. d \in Devices
    BY DEF Others
  <2>2. Unrepeated(s, d) /\ Answered(s, d)
    BY <1>1, <1>2, CreditStep DEF AnsweredInv
  <2>3. InboxOrder(s, d, i, j) /\ CacheOrder(s, d, i, j) /\ ReadOrder(s, d, i, j) /\ BusOrder(s, d, i, j)
    BY <1>2, <2>2 DEF OrderInv, Ordered
  <2>4. Through(d, Written(s, i)) => Through(d, Written(s, i))'
    BY <2>1, WrittenMail, ThroughStays
  <2>5. CASE UNCHANGED vars
    BY <2>3, <2>5
       DEF vars, Ordered, InboxOrder, CacheOrder, ReadOrder, BusOrder, ArrivedAt, Kept, Through
  <2>6. ASSUME NEW a \in Devices, OthersKept(a), a # d
        PROVE  InboxOrder(s, d, i, j)' /\ CacheOrder(s, d, i, j)' /\ ReadOrder(s, d, i, j)'
    <3>1. inbox'[d] = inbox[d] /\ cached'[d] = cached[d] /\ stack'[d] = stack[d]
      BY <2>1, <2>6 DEF OthersKept, Others
    <3> QED
      BY <2>3, <3>1 DEF InboxOrder, CacheOrder, ReadOrder, ArrivedAt, Kept
  <2>7. ASSUME NEW a \in Devices, OthersKept(a), ReadShape(a)
        PROVE  Ordered(s, d, i, j)'
    <3>1. InboxOrder(s, d, i, j)' /\ CacheOrder(s, d, i, j)' /\ ReadOrder(s, d, i, j)'
      <4>1. CASE a # d
        BY <2>6, <2>7, <4>1
      <4>2. CASE a = d
        <5>1. PICK b : Resumable(stack[d], b) /\ (Taken(d, b) \/ Returned(d, b) \/ Skipped(d, b))
          BY <2>7, <4>2 DEF ReadShape
        <5> QED
          BY <1>2, <2>3, <5>1, TakenOrder, ReturnedOrder, SkippedOrder
      <4> QED
        BY <4>1, <4>2
    <3>2. BusOrder(s, d, i, j)'
      <4>1. ASSUME NEW p \in 1..Len(rx'[d]), CopyOf(rx'[d][p], s, j)
            PROVE  Through(d, Written(s, i))'
        <5>1. \E q \in 1..Len(rx[d]) : rx'[d][p] = rx[d][q]
          <6>1. CASE a = d
            BY <2>7, <4>1, <6>1, ReadBus
          <6>2. CASE a # d
            <7>1. rx'[d] = rx[d]
              BY <2>1, <2>7, <6>2, ReadBuffers DEF OriginInv, Others
            <7> QED
              BY <4>1, <7>1
          <6> QED
            BY <6>1, <6>2
        <5> QED
          BY <2>3, <2>4, <4>1, <5>1 DEF BusOrder
      <4> QED
        BY <4>1 DEF BusOrder
    <3> QED
      BY <3>1, <3>2 DEF Ordered
  <2>8. ASSUME NEW a \in Devices, OthersKept(a), WriteShape(a)
        PROVE  Ordered(s, d, i, j)'
    <3>1. InboxOrder(s, d, i, j)' /\ CacheOrder(s, d, i, j)' /\ ReadOrder(s, d, i, j)'
      <4>1. CASE a # d
        BY <2>6, <2>8, <4>1
      <4>2. CASE a = d
        <5>1. UNCHANGED <<cached, inbox>>
          BY <2>8 DEF WriteShape
        <5>2. OldAcks(stack'[d], stack[d])
          BY <2>1, <2>8, <4>2, WriteOldAcks
        <5>3. InboxOrder(s, d, i, j)' /\ CacheOrder(s, d, i, j)'
          BY <2>3, <5>1 DEF InboxOrder, CacheOrder, ArrivedAt, Kept
        <5>4. ReadOrder(s, d, i, j)'
          BY <2>3, <5>1, <5>2, OldReads DEF ArrivedAt, Kept
        <5> QED
          BY <5>3, <5>4
      <4> QED
        BY <4>1, <4>2
    <3>2. BusOrder(s, d, i, j)'
      <4>1. ASSUME NEW p \in 1..Len(rx'[d]), CopyOf(rx'[d][p], s, j)
            PROVE  Through(d, Written(s, i))'
        <5>1. Through(d, Written(s, i))
          BY <1>2, <2>2, <2>3, <2>8, <4>1, SendOrder
        <5> QED
          BY <2>4, <5>1
      <4> QED
        BY <4>1 DEF BusOrder
    <3> QED
      BY <3>1, <3>2 DEF Ordered
  <2> QED
    BY <2>5, <2>7, <2>8, StepShapes
<1> QED
  BY <1>2 DEF OrderInv

LEMMA OrderInit ==
    ASSUME Init
    PROVE  OrderInv
<1>1. \A d \in Devices : inbox[d] = << >> /\ cached[d] = << >> /\ stack[d] = << >> /\ rx[d] = << >>
  BY DEF Init
<1>2. Len(<< >>) = 0
  OBVIOUS
<1> QED
  BY <1>1, <1>2 DEF OrderInv, Ordered, InboxOrder, CacheOrder, ReadOrder, BusOrder, Others

\* Nested reads never invert two messages of one sender that repeated nothing, however the
\* devices write to each other, as long as cached_vec has room: a device sends its next
\* message when the last one was read, and what was read is in the order in which the
\* program gets it.
THEOREM OrderKept == Spec /\ []CanKeep => []UnrepeatedInOrder
<1> DEFINE IInv == OriginInv /\ Credit /\ AnsweredInv /\ OrderInv
<1>1. Init => IInv
  BY OriginInit, CreditInit, AnsweredInit, OrderInit
<1>2. IInv /\ CanKeep /\ [Next]_vars => IInv'
  <2> SUFFICES ASSUME OriginInv, Credit, AnsweredInv, OrderInv, CanKeep, [Next]_vars
               PROVE  IInv'
    OBVIOUS
  <2>1. OriginInv'
    BY OriginStep
  <2>2. Credit'
    BY <2>1, CreditStep DEF OriginInv
  <2>3. AnsweredInv' /\ OrderInv'
    BY AnsweredStep, OrderStep
  <2> QED
    BY <2>1, <2>2, <2>3
<1>3. IInv => UnrepeatedInOrder
  BY DEF OrderInv, Ordered, InboxOrder, Unrepeated, UnrepeatedInOrder
<1> QED
  BY <1>1, <1>2, <1>3, PTL DEF Spec

=============================================================================
