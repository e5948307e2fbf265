------------------------- MODULE AIBusSplit_proofs -------------------------
(***************************************************************************)
(* Proofs about AIBusHandler for any number of devices, any scripts and    *)
(* any bounds: a split message arrives whole.                              *)
(*                                                                         *)
(* A device that gets fragments keeps them in multi_cache or in a blocking *)
(* loop of its call stack; it drops some that it has acknowledged.  The    *)
(* argument follows the fragment that is due: while nothing was repeated,  *)
(* the sender writes the next fragment only when the last one was          *)
(* acknowledged, and the receiver then either has all fragments up to that *)
(* one, in order, or it is caught in a loop over fragments that ends only  *)
(* with a timer, and hands nothing to its program.                         *)
(*                                                                         *)
(* The first sections say what the calls of a device look like while no    *)
(* timer ran out (Shape, WriterShape) and that every step keeps it.  Then  *)
(* come the places in which the due fragment can be (Idle, OnBus, Got),    *)
(* how a step of the receiver, of the sender or of another device moves it *)
(* from one to the next, and that what a read returns from there is whole. *)
(* The last section puts them together: SplitInv.                          *)
(***************************************************************************)
EXTENDS AIBusDelivery_proofs

-----------------------------------------------------------------------------
(* Stacks that differ in what writes know only.                            *)

\* What has a first element is not empty.
LEMMA LenOne ==
    \A u : Len(u) = 1 => u # << >>
BY Len(<< >>) = 0

\* A call that is pushed, and one that replaces the top.
LEMMA PushedCall ==
    \A q \in Seq(Call) : \A c \in Call :
        /\ Push(q, c) \in Seq(Call) /\ Len(Push(q, c)) = Len(q) + 1 /\ Push(q, c)[Len(q) + 1] = c
        /\ \A j \in 1..Len(q) : Push(q, c)[j] = q[j]
BY PushProperties

LEMMA TopCall ==
    \A q \in Seq(Call) : \A c \in Call : q # << >> =>
        /\ SetTop(q, c) \in Seq(Call) /\ Len(SetTop(q, c)) = Len(q) /\ Top(SetTop(q, c)) = c
        /\ \A j \in 1..Len(q) - 1 : SetTop(q, c)[j] = q[j]
BY SetTopProperties

Like(q, r) ==
    /\ Len(r) = Len(q)
    /\ \A p \in 1..Len(q) : /\ r[p].m = q[p].m
                            /\ q[p].pc \in ReadPC \/ r[p].pc \in ReadPC => r[p] = q[p]

LEMMA LikeSame ==
    ASSUME NEW q
    PROVE  Like(q, q)
BY DEF Like

\* The top of a stack is changed by what a write knows.
LEMMA LikeSetTop ==
    ASSUME NEW q \in Seq(Call), q # << >>, NEW c \in Call, c.m = Top(q).m,
           Top(q).pc \notin ReadPC, c.pc \notin ReadPC
    PROVE  SetTop(q, c) \in Seq(Call) /\ Like(q, SetTop(q, c))
<1> DEFINE r == SetTop(q, c)
<1>1. r \in Seq(Call) /\ Len(r) = Len(q) /\ \A j \in 1..Len(q) - 1 : r[j] = q[j]
  BY SetTopProperties
<1>2. Top(r) = c
  BY SetTopProperties
<1>3. r[Len(q)] = c /\ Top(q) = q[Len(q)]
  BY <1>1, <1>2 DEF Top
<1>4. Len(q) \in Nat
  BY LenProperties
<1> HIDE DEF r
<1>5. ASSUME NEW p \in 1..Len(q)
      PROVE  r[p].m = q[p].m /\ (q[p].pc \in ReadPC \/ r[p].pc \in ReadPC => r[p] = q[p])
  <2>1. CASE p = Len(q)
    BY <1>3, <2>1
  <2>2. CASE p # Len(q)
    <3>1. p \in 1..Len(q) - 1
      BY <1>4, <2>2
    <3> QED
      BY <1>1, <3>1
  <2> QED
    BY <2>1, <2>2
<1>6. Like(q, r)
  BY <1>1, <1>5 DEF Like
<1> QED
  BY <1>1, <1>6 DEF r

LEMMA LikeTop ==
    ASSUME NEW q \in Seq(Call), NEW r \in Seq(Call), Like(q, r)
    PROVE  /\ q = << >> <=> r = << >>
           /\ q # << >> => /\ Top(r).m = Top(q).m
                           /\ Top(q).pc \in ReadPC \/ Top(r).pc \in ReadPC => Top(r) = Top(q)
<1>1. q = << >> <=> r = << >>
  BY EmptySeq DEF Like
<1>2. ASSUME q # << >>
      PROVE  Top(r).m = Top(q).m /\ (Top(q).pc \in ReadPC \/ Top(r).pc \in ReadPC => Top(r) = Top(q))
  <2>1. Len(q) \in 1..Len(q) /\ Len(r) = Len(q)
    BY <1>2, TopProperties DEF Like
  <2> QED
    BY <2>1 DEF Like, Top
<1> QED
  BY <1>1, <1>2

-----------------------------------------------------------------------------
(* The calls of a device while no timer of a split message ran out.        *)

\* The p-th call of s is made by the blocking loop over fragments.
Under(s, p) == p > 1 /\ s[p - 1].pc = "loop"

\* A call of d's stack s, frags being its multi_cache.
CallShape(d, s, p, frags) ==
    /\ s[p].pc \notin {"enter", "nodata"} /\ s[p].m.t # "resend"
    /\ s[p].pc = "loop" => s[p].m.r = d /\ frags = << >>
    /\ Under(s, p) => s[p].pc = "ack" /\ s[p - 1].k < s[p - 1].m.n
    /\ s[p].pc = "ack" => /\ s[p].m.t \in {"msg", "frag"}
                          /\ s[p].multi => ~Under(s, p)
                          /\ ~s[p].multi => Under(s, p)

StackShape(d, s, frags) == \A p \in 1..Len(s) : CallShape(d, s, p, frags)

LEMMA ShapeClosed ==
    ASSUME NEW d, NEW s, NEW frags, StackShape(d, s, frags)
    PROVE  StackShape(d, s, << >>)
BY DEF StackShape, CallShape

LEMMA ShapeLike ==
    ASSUME NEW d, NEW q \in Seq(Call), NEW r \in Seq(Call), Like(q, r), NEW frags, StackShape(d, q, frags)
    PROVE  StackShape(d, r, frags)
<1>1. SUFFICES ASSUME NEW p \in 1..Len(r) PROVE CallShape(d, r, p, frags)
  BY DEF StackShape
<1>2. p \in 1..Len(q) /\ Len(q) \in Nat
  BY LenProperties DEF Like
<1>3. CallShape(d, q, p, frags) /\ r[p].m = q[p].m /\ (q[p].pc \in ReadPC \/ r[p].pc \in ReadPC => r[p] = q[p])
  BY <1>2 DEF StackShape, Like
<1>4. (Under(r, p) <=> Under(q, p)) /\ (Under(q, p) => r[p - 1] = q[p - 1])
  <2>1. CASE p > 1
    <3>1. p - 1 \in 1..Len(q)
      BY <1>2, <2>1
    <3>2. q[p - 1].pc \in ReadPC \/ r[p - 1].pc \in ReadPC => r[p - 1] = q[p - 1]
      BY <3>1 DEF Like
    <3> QED
      BY <3>2 DEF Under, ReadPC
  <2> QED
    BY <2>1 DEF Under
<1>5. CASE q[p].pc \in ReadPC \/ r[p].pc \in ReadPC
  BY <1>3, <1>4, <1>5 DEF CallShape
<1>6. CASE ~(q[p].pc \in ReadPC \/ r[p].pc \in ReadPC)
  BY <1>3, <1>4, <1>6 DEF CallShape, ReadPC
<1> QED
  BY <1>5, <1>6

LEMMA ShapePop ==
    ASSUME NEW d, NEW s \in Seq(Call), s # << >>, NEW frags, StackShape(d, s, frags)
    PROVE  Pop(s) \in Seq(Call) /\ StackShape(d, Pop(s), frags)
<1> DEFINE r == Pop(s)
<1>1. r \in Seq(Call) /\ Len(r) = Len(s) - 1 /\ \A j \in 1..Len(s) - 1 : r[j] = s[j]
  BY PopProperties
<1>2. Len(s) \in Nat
  BY LenProperties
<1> HIDE DEF r
<1>3. ASSUME NEW p \in 1..Len(r) PROVE CallShape(d, r, p, frags)
  <2>1. p \in 1..Len(s) /\ r[p] = s[p]
    BY <1>1, <1>2
  <2>2. p > 1 => r[p - 1] = s[p - 1]
    BY <1>1, <1>2
  <2>3. CallShape(d, s, p, frags)
    BY <2>1 DEF StackShape
  <2> QED
    BY <2>1, <2>2, <2>3 DEF CallShape, Under
<1>4. StackShape(d, r, frags)
  BY <1>3 DEF StackShape
<1> QED
  BY <1>1, <1>4 DEF r

LEMMA ShapePush ==
    ASSUME NEW d, NEW s \in Seq(Call), NEW frags, StackShape(d, s, frags), NEW c \in Call,
           c.pc \notin {"enter", "nodata"}, c.m.t # "resend",
           c.pc = "loop" => c.m.r = d /\ frags = << >>,
           s # << >> /\ Top(s).pc = "loop" => c.pc = "ack" /\ Top(s).k < Top(s).m.n,
           c.pc = "ack" => /\ c.m.t \in {"msg", "frag"}
                           /\ c.multi => ~(s # << >> /\ Top(s).pc = "loop")
                           /\ ~c.multi => s # << >> /\ Top(s).pc = "loop"
    PROVE  Push(s, c) \in Seq(Call) /\ StackShape(d, Push(s, c), frags)
<1> DEFINE r == Push(s, c)
<1>1. r \in Seq(Call) /\ Len(r) = Len(s) + 1 /\ r[Len(s) + 1] = c /\ \A j \in 1..Len(s) : r[j] = s[j]
  BY PushProperties
<1>2. Len(s) \in Nat /\ (s # << >> <=> Len(s) > 0) /\ Top(s) = s[Len(s)]
  BY LenProperties, EmptySeq DEF Top
<1> HIDE DEF r
<1>3. ASSUME NEW p \in 1..Len(r) PROVE CallShape(d, r, p, frags)
  <2>1. CASE p = Len(s) + 1
    <3>1. r[p] = c /\ (p > 1 <=> s # << >>) /\ (p > 1 => r[p - 1] = Top(s))
      BY <1>1, <1>2, <2>1
    <3> QED
      BY <3>1 DEF CallShape, Under
  <2>2. CASE p # Len(s) + 1
    <3>1. p \in 1..Len(s) /\ r[p] = s[p]
      BY <1>1, <1>2, <2>2
    <3>2. p > 1 => r[p - 1] = s[p - 1]
      BY <1>1, <1>2, <3>1
    <3>3. CallShape(d, s, p, frags)
      BY <3>1 DEF StackShape
    <3> QED
      BY <3>1, <3>2, <3>3 DEF CallShape, Under
  <2> QED
    BY <2>1, <2>2
<1>4. StackShape(d, r, frags)
  BY <1>3 DEF StackShape
<1> QED
  BY <1>1, <1>4 DEF r

-----------------------------------------------------------------------------
(* What a step of a read does while no timer of a split message ran out.   *)

\* No device writes a message to everyone that must be split.
NoSplitCast == \A s \in Devices : ~Splits(s, Broadcast)

\* No resend requests; cached_vec holds messages and fragments for d.
CacheShape(d, c) == \A p \in 1..Len(c) : c[p].t \in {"msg", "frag"} /\ c[p].r \in {d, Broadcast}
BufferShape(d) ==
    /\ \A p \in 1..Len(rx[d]) : rx[d][p].t # "resend"
    /\ \A m \in tx[d] : m.t # "resend"
    /\ CacheShape(d, cached[d])

Shape(d) == StackShape(d, stack[d], multi[d]) /\ BufferShape(d)

\* The stack b to which a read of the serial buffer returns.
InLoop(s) == s # << >> /\ Top(s).pc = "loop"
BaseOf(d, b) ==
    \/ /\ b = stack[d]
       /\ \/ b = << >>
          \/ Top(b).pc \in {"drain", "collect", "await"}
          \/ Top(b).pc = "loop" /\ Top(b).k < Top(b).m.n
    \/ stack[d] # << >> /\ Top(stack[d]).pc = "drain" /\ b = SetTop(stack[d], [Top(stack[d]) EXCEPT !.k = 1])

\* The oldest message of cached_vec.
Recached(d) ==
    /\ cached[d] # << >>
    /\ stack[d] = << >> \/ (InLoop(stack[d]) /\ Top(stack[d]).k < Top(stack[d]).m.n)
    /\ ReturnMessage(d, stack[d], Tail(cached[d]), Head(cached[d]))
    /\ UNCHANGED <<rx, multi>>
\* A damaged frame, or a fragment of another conversation than that of multi_cache.
Dropped(d, b) ==
    /\ rx[d] # << >>
    /\ \/ Head(rx[d]).t = "bad" /\ rx' = [rx EXCEPT ![d] = << >>]
       \/ Head(rx[d]).t # "bad" /\ rx' = [rx EXCEPT ![d] = Tail(rx[d])]
    /\ stack' = [stack EXCEPT ![d] = b]
    /\ UNCHANGED <<cached, inbox, multi>>
\* A frame that must be acknowledged.
Took(d, b) ==
    /\ rx[d] # << >>
    /\ rx' = [rx EXCEPT ![d] = Tail(rx[d])]
    /\ Head(rx[d]).r = d /\ Head(rx[d]).t \in {"msg", "frag"}
    /\ b = << >> \/ InLoop(b) => cached[d] = << >>
    /\ \E c \in Call : /\ c.pc = "ack" /\ c.m = Head(rx[d])
                       /\ c.multi => ~InLoop(b)
                       /\ ~c.multi => InLoop(b)
                       /\ stack' = [stack EXCEPT ![d] = Push(Push(b, c), WriteCall(Ack(d, c.m.s), FALSE))]
    /\ UNCHANGED <<cached, inbox, multi>>
\* A frame that need not be acknowledged.
Overheard(d, b) ==
    /\ rx[d] # << >>
    /\ rx' = [rx EXCEPT ![d] = Tail(rx[d])]
    /\ Head(rx[d]).t = "ack" \/ (Head(rx[d]).t \in {"msg", "frag"} /\ Head(rx[d]).r # d)
    /\ b = << >> \/ InLoop(b) => cached[d] = << >>
    /\ ReturnMessage(d, b, cached[d], Head(rx[d]))
    /\ UNCHANGED multi

\* A frame that was acknowledged: a message, or a fragment for the blocking loop.
Gave(d) ==
    /\ Top(stack[d]).m.t = "msg" \/ ~Top(stack[d]).multi
    /\ ReturnMessage(d, Pop(stack[d]), cached[d], Top(stack[d]).m)
    /\ UNCHANGED multi
\* The blocking loop that a first fragment starts.
LoopStart(c) ==
    [ReadCall("loop", c.m, [cache |-> c.cache, multi |-> c.multi]) EXCEPT
        !.k = 1, !.got = [p \in 1..c.m.n |-> IF p = 1 THEN c.m.d[1] ELSE Junk]]
\* A fragment: it is not the first one, it starts the loop, it is stored, or it is the last.
Passed(d) ==
    /\ multi[d] = << >> /\ Top(stack[d]).m.i # 0
    /\ stack' = [stack EXCEPT ![d] = Pop(stack[d])]
    /\ UNCHANGED <<cached, inbox, multi>>
Entered(d) ==
    /\ multi[d] = << >> /\ Top(stack[d]).m.i = 0
    /\ stack' = [stack EXCEPT ![d] = Push(Pop(stack[d]), LoopStart(Top(stack[d])))]
    /\ UNCHANGED <<cached, inbox, multi>>
Grown(d) == Append(multi[d], Top(stack[d]).m)
Stacked(d) ==
    /\ multi[d] = << >> => Top(stack[d]).cache
    /\ Len(Grown(d)) < Grown(d)[1].n
    /\ multi' = [multi EXCEPT ![d] = Grown(d)]
    /\ stack' = [stack EXCEPT ![d] = Pop(stack[d])]
    /\ UNCHANGED <<cached, inbox>>
Joint(d) ==
    LET f == Top(stack[d]).m
    IN WholeMessage(f, [p \in 1..Grown(d)[1].n |-> AssembledSlot(Grown(d), f, p - 1)])
Assembled(d) ==
    /\ ~(Len(Grown(d)) < Grown(d)[1].n)
    /\ multi' = [multi EXCEPT ![d] = << >>]
    /\ ReturnMessage(d, Pop(stack[d]), cached[d], Joint(d))
\* The read of the frame on top of the stack goes on.
Resumed(d) ==
    /\ stack[d] # << >> /\ Top(stack[d]).pc = "ack"
    /\ \/ Gave(d)
       \/ /\ Top(stack[d]).m.t = "frag" /\ Top(stack[d]).multi
          /\ Passed(d) \/ Entered(d) \/ Stacked(d) \/ Assembled(d)
    /\ UNCHANGED rx
\* The loop has all fragments.
Finished(d) ==
    /\ InLoop(stack[d]) /\ Top(stack[d]).k >= Top(stack[d]).m.n
    /\ ReturnMessage(d, Pop(stack[d]), cached[d], LoopMessage(Top(stack[d])))
    /\ UNCHANGED <<rx, multi>>

ReadKind(d) ==
    \/ Recached(d) \/ Resumed(d) \/ Finished(d)
    \/ \E b : BaseOf(d, b) /\ (Dropped(d, b) \/ Took(d, b) \/ Overheard(d, b))

LEMMA FragmentHome ==
    ASSUME NoSplitCast, NEW d, NEW f, Foreigner(d, f), f.t = "frag"
    PROVE  f.s \in Devices /\ f.r # Broadcast /\ f.s # d
BY DEF NoSplitCast, Foreigner, Real

\* The calls of d.
LEMMA TopShape ==
    ASSUME OriginInv, NEW d \in Devices, Shape(d), stack[d] # << >>
    PROVE  /\ TypeOK /\ stack[d] \in Seq(Call) /\ Top(stack[d]) \in Call
           /\ CallShape(d, stack[d], Len(stack[d]), multi[d])
           /\ CallIs(d, Top(stack[d]), repeated)
           /\ Top(stack[d]) = stack[d][Len(stack[d])] /\ Len(stack[d]) \in 1..Len(stack[d])
<1>1. TypeOK /\ stack[d] \in Seq(Call) /\ Sound(d, stack[d], repeated, outcome[d])
  BY OriginParts DEF OriginInv, TypeOK
<1>2. Len(stack[d]) \in 1..Len(stack[d]) /\ Top(stack[d]) \in Call /\ Top(stack[d]) = stack[d][Len(stack[d])]
  BY <1>1, TopProperties DEF Top
<1> QED
  BY <1>1, <1>2 DEF Shape, StackShape, Sound

LEMMA HeadHeard ==
    ASSUME OriginInv, NEW d \in Devices, rx[d] # << >>
    PROVE  /\ rx \in [Devices -> Seq(Frame)] /\ rx[d] \in Seq(Frame) /\ Head(rx[d]) \in Frame
           /\ Heard(d, Head(rx[d]))
           /\ 1 \in 1..Len(rx[d]) /\ Head(rx[d]) = rx[d][1]
<1>1. rx \in [Devices -> Seq(Frame)] /\ rx[d] \in Seq(Frame)
  BY DEF OriginInv, TypeOK
<1>2. 1 \in 1..Len(rx[d]) /\ Head(rx[d]) = rx[d][1]
  BY <1>1, EmptySeq, LenProperties
<1>3. Heard(d, rx[d][1])
  BY <1>2 DEF OriginInv, Origin
<1> QED
  BY <1>1, <1>2, <1>3

\* What a read of the bus is given, and where it returns to.
LEMMA ReadBase ==
    ASSUME OriginInv, NEW d \in Devices, Shape(d), Reads(d)
    PROVE  /\ BaseOf(d, Base(d))
           /\ Flags(d) \in [cache : BOOLEAN, multi : BOOLEAN]
           /\ Base(d) = << >> \/ InLoop(Base(d)) => Flags(d).cache
           /\ Flags(d).cache => /\ Base(d) = stack[d]
                                /\ stack[d] = << >> \/ (InLoop(stack[d]) /\ Top(stack[d]).k < Top(stack[d]).m.n)
           /\ Flags(d).multi <=> ~InLoop(Base(d))
<1>1. stack[d] # << >> => Top(stack[d]).pc # "enter" /\ stack[d] \in Seq(Call) /\ Top(stack[d]) \in Call
  BY TopShape DEF CallShape
<1>2. CASE stack[d] = << >>
  BY <1>2 DEF Base, Flags, TopIs, BaseOf, InLoop
<1>3. CASE stack[d] # << >> /\ Top(stack[d]).pc = "drain"
  <2> DEFINE c == [Top(stack[d]) EXCEPT !.k = 1]
             b == SetTop(stack[d], c)
  <2>1. c \in Call /\ c.pc = "drain"
    BY <1>1, <1>3, DrainNotes
  <2>2. b # << >> /\ Top(b) = c
    <3> HIDE DEF c
    <3>1. b \in Seq(Call) /\ Len(b) = Len(stack[d]) /\ Top(b) = c
      BY <1>1, <1>3, <2>1, SetTopProperties
    <3>2. Len(stack[d]) # 0 /\ Len(<< >>) = 0
      BY <1>1, <1>3, EmptySeq
    <3> QED
      BY <3>1, <3>2
  <2>3. Base(d) = b
    BY <1>1, <1>3 DEF Base, TopIs
  <2>4. Flags(d) = [cache |-> FALSE, multi |-> TRUE]
    BY <1>1, <1>3 DEF Flags, TopIs
  <2>5. BaseOf(d, Base(d))
    BY <1>3, <2>3 DEF BaseOf
  <2> HIDE DEF b, c
  <2> QED
    BY <2>1, <2>2, <2>3, <2>4, <2>5 DEF InLoop
<1>4. CASE stack[d] # << >> /\ Top(stack[d]).pc # "drain"
  BY <1>1, <1>4 DEF Reads, Base, Flags, TopIs, BaseOf, InLoop
<1> QED
  BY <1>2, <1>3, <1>4

LEMMA RecachedKind ==
    ASSUME OriginInv, NEW d \in Devices, Shape(d), ReadCached(d)
    PROVE  Recached(d) /\ UNCHANGED <<tx, outcome, repeated, losses>>
BY ReadBase DEF ReadCached, Recached

LEMMA FrameKind ==
    ASSUME OriginInv, NoSplitCast, NEW d \in Devices, Shape(d), ReadFrame(d)
    PROVE  /\ \E b : BaseOf(d, b) /\ (Dropped(d, b) \/ Took(d, b) \/ Overheard(d, b))
           /\ UNCHANGED <<tx, outcome, repeated, losses>>
<1> DEFINE f == Head(rx[d])
           b == Base(d)
<1>1. Reads(d) /\ rx[d] # << >> /\ ~(Flags(d).cache /\ cached[d] # << >>) /\ UNCHANGED <<outcome, losses>>
  BY DEF ReadFrame
<1>2. rx \in [Devices -> Seq(Frame)] /\ f \in Frame /\ Heard(d, f) /\ f.t # "resend"
  BY <1>1, HeadHeard DEF Shape, BufferShape
<1>3. /\ BaseOf(d, b) /\ Flags(d) \in [cache : BOOLEAN, multi : BOOLEAN]
      /\ b = << >> \/ InLoop(b) => cached[d] = << >>
      /\ Flags(d).multi <=> ~InLoop(b)
  BY <1>1, ReadBase
<1>4. CASE f.t = "bad" \/ Foreign(d, f)
  <2>1. ReturnNoData(d, b) /\ UNCHANGED <<multi, tx, repeated>>
    BY <1>4 DEF ReadFrame
  <2>2. Dropped(d, b)
    BY <1>1, <1>4, <2>1 DEF ReadFrame, Dropped, ReturnNoData
  <2> QED
    BY <1>1, <1>3, <2>1, <2>2
<1>5. CASE ~(f.t = "bad" \/ Foreign(d, f)) /\ f.r = d /\ f.t # "ack"
  <2>1. /\ ReturnNoData(d, Push(Push(b, ReadCall("ack", f, Flags(d))), WriteCall(Ack(d, f.s), FALSE)))
        /\ UNCHANGED <<multi, tx, repeated>> /\ rx' = [rx EXCEPT ![d] = Tail(rx[d])]
    BY <1>5 DEF ReadFrame
  <2>2. f.t \in {"msg", "frag"}
    BY <1>2, <1>5 DEF Frame
  <2>3. PICK c \in Call : c = ReadCall("ack", f, Flags(d))
    BY <1>2, <1>3, ReadCallType
  <2>4. c.pc = "ack" /\ c.m = f /\ c.multi = Flags(d).multi
    BY <2>3 DEF ReadCall
  <2> HIDE DEF b, f
  <2>5. stack' = [stack EXCEPT ![d] = Push(Push(b, c), WriteCall(Ack(d, c.m.s), FALSE))]
    BY <2>1, <2>3, <2>4 DEF ReturnNoData
  <2>6. Took(d, b)
    BY <1>1, <1>3, <1>5, <2>1, <2>2, <2>4, <2>5 DEF Took, ReturnNoData, f
  <2> QED
    BY <1>1, <1>3, <2>1, <2>6
<1>6. CASE ~(f.t = "bad" \/ Foreign(d, f)) /\ ~(f.r = d /\ f.t # "ack")
  <2>1. Accept(d, b, f, Flags(d)) /\ rx' = [rx EXCEPT ![d] = Tail(rx[d])]
    BY <1>6 DEF ReadFrame
  <2>2. f.t = "ack" \/ (f.t \in {"msg", "frag"} /\ f.r # d)
    BY <1>2, <1>6 DEF Frame
  <2>3. ~(f.t = "frag" /\ f.r \in {d, Broadcast})
    BY <1>2, <1>6, FragmentHome DEF Heard
  <2> HIDE DEF b, f
  <2>4. ReturnMessage(d, b, cached[d], f) /\ UNCHANGED <<multi, tx, repeated>>
    BY <1>2, <2>1, <2>3 DEF Accept
  <2>5. Overheard(d, b)
    BY <1>1, <1>3, <2>1, <2>2, <2>4 DEF Overheard, f
  <2> QED
    BY <1>1, <1>3, <2>4, <2>5
<1> QED
  BY <1>4, <1>5, <1>6

LEMMA ResumedKind ==
    ASSUME OriginInv, NEW d \in Devices, Shape(d), Acknowledged(d)
    PROVE  Resumed(d) /\ UNCHANGED <<tx, outcome, repeated, losses>>
<1> DEFINE c == Top(stack[d])
           b == Pop(stack[d])
           flags == [cache |-> c.cache, multi |-> c.multi]
<1>1. stack[d] # << >> /\ c.pc = "ack" /\ UNCHANGED <<rx, outcome, losses>> /\ Accept(d, b, c.m, flags)
  BY DEF Acknowledged, TopIs
<1>2. c \in Call /\ c.m.t \in {"msg", "frag"} /\ c.m.r = d /\ c.multi \in BOOLEAN /\ c.cache \in BOOLEAN
  BY <1>1, TopShape, CallKinds DEF CallShape, CallIs, ReadIs, ReadPC, ReadRecord
<1>3. flags.cache = c.cache /\ flags.multi = c.multi
  OBVIOUS
<1>4. UNCHANGED <<tx, repeated>>
  BY <1>1, <1>2 DEF Accept
<1>5. CASE ~(c.m.t = "frag" /\ c.multi)
  <2>1. ReturnMessage(d, b, cached[d], c.m) /\ UNCHANGED multi
    BY <1>1, <1>2, <1>3, <1>5 DEF Accept
  <2>2. Gave(d)
    BY <1>2, <1>5, <2>1 DEF Gave
  <2> QED
    BY <1>1, <1>4, <2>2 DEF Resumed
<1>6. CASE c.m.t = "frag" /\ c.multi
  <2>1. ReadFragment(d, b, c.m, flags)
    BY <1>1, <1>2, <1>3, <1>6 DEF Accept
  <2>2. CASE \E many \in BOOLEAN :
               /\ multi[d] = << >>
               /\ many => Len(rx[d]) >= 2
               /\ Blocks(c.m, flags, many)
               /\ ReturnNoData(d, IF c.m.i # 0 THEN b
                             ELSE Push(b, [ReadCall("loop", c.m, flags) EXCEPT
                                             !.k = 1,
                                             !.got = [p \in 1..c.m.n |-> IF p = 1 THEN c.m.d[1] ELSE Junk]]))
               /\ UNCHANGED multi
    <3>1. Passed(d) \/ Entered(d)
      BY <2>2 DEF Passed, Entered, ReturnNoData, LoopStart
    <3> QED
      BY <1>1, <1>4, <1>6, <3>1 DEF Resumed
  <2>3. CASE /\ multi[d] = << >> => ~Blocks(c.m, flags, FALSE)
             /\ IF Len(Grown(d)) < Grown(d)[1].n
                THEN /\ multi' = [multi EXCEPT ![d] = Grown(d)]
                     /\ ReturnNoData(d, b)
                ELSE /\ multi' = [multi EXCEPT ![d] = << >>]
                     /\ ReturnMessage(d, b, cached[d], Joint(d))
    <3>1. multi[d] = << >> => c.cache
      BY <1>3, <2>3 DEF Blocks
    <3>2. Stacked(d) \/ Assembled(d)
      BY <2>3, <3>1 DEF Stacked, Assembled, ReturnNoData
    <3> QED
      BY <1>1, <1>4, <1>6, <3>2 DEF Resumed
  <2> QED
    BY <2>1, <2>2, <2>3 DEF ReadFragment, Grown, Joint
<1> QED
  BY <1>5, <1>6

LEMMA ReadKinds ==
    ASSUME OriginInv, NoSplitCast, NEW d \in Devices, Shape(d), Read(d), expiries = 0, expiries' = 0
    PROVE  ReadKind(d) /\ UNCHANGED <<tx, outcome, repeated, losses>>
<1>1. CASE ReadCached(d)
  BY <1>1, RecachedKind DEF ReadKind
<1>2. CASE ReadFrame(d)
  BY <1>2, FrameKind DEF ReadKind
<1>3. CASE Acknowledged(d)
  BY <1>3, ResumedKind DEF ReadKind
<1>4. CASE LoopDone(d)
  BY <1>4 DEF LoopDone, TopIs, Finished, InLoop, ReadKind
<1>5. CASE ReadNothing(d)
  BY <1>5, TopShape DEF ReadNothing, TopIs, CallShape
<1>6. CASE ExpireMulti(d)
  BY <1>6 DEF ExpireMulti
<1>7. CASE LoopTimeout(d)
  <2>1. MaxExpiry \in Nat
    BY BoundAssumption
  <2> QED
    BY <1>7, <2>1 DEF LoopTimeout
<1> QED
  BY <1>1, <1>2, <1>3, <1>4, <1>5, <1>6, <1>7 DEF Read

-----------------------------------------------------------------------------
(* A read keeps the shape.                                                 *)

\* The call below the top.
LEMMA BelowTop ==
    ASSUME NEW s \in Seq(Call), s # << >>
    PROVE  /\ Pop(s) \in Seq(Call) /\ (Under(s, Len(s)) <=> InLoop(Pop(s)))
           /\ Pop(s) # << >> => Len(s) - 1 \in 1..Len(s) - 1 /\ Top(Pop(s)) = s[Len(s) - 1]
           /\ Len(s) \in 1..Len(s) /\ Top(s) = s[Len(s)] /\ Top(s) \in Call
<1>1. /\ Pop(s) \in Seq(Call) /\ Len(Pop(s)) = Len(s) - 1
      /\ \A j \in 1..Len(s) - 1 : Pop(s)[j] = s[j]
  BY PopProperties
<1>2. Len(s) \in 1..Len(s) /\ Top(s) \in Call /\ Top(s) = s[Len(s)] /\ Len(s) \in Nat
  BY TopProperties, LenProperties DEF Top
<1>3. Pop(s) # << >> <=> Len(s) > 1
  BY <1>1, <1>2, EmptySeq
<1>4. Pop(s) # << >> => Len(s) - 1 \in 1..Len(s) - 1 /\ Top(Pop(s)) = s[Len(s) - 1]
  BY <1>1, <1>2, <1>3 DEF Top
<1> QED
  BY <1>1, <1>2, <1>3, <1>4 DEF Under, InLoop

\* The caller of a read that returns.
LEMMA ShapeResume ==
    ASSUME NEW d, NEW s \in Seq(Call), NEW frags, StackShape(d, s, frags), NEW x \in Frame
    PROVE  ResumeStack(s, x) \in Seq(Call) /\ StackShape(d, ResumeStack(s, x), frags)
<1>1. CASE ResumeStack(s, x) = s
  BY <1>1
<1>2. ASSUME s # << >>, NEW c \in Call, ResumeStack(s, x) = SetTop(s, c), c.pc = Top(s).pc, c.m = Top(s).m,
             c.pc \in {"collect", "await", "loop"}
      PROVE  ResumeStack(s, x) \in Seq(Call) /\ StackShape(d, ResumeStack(s, x), frags)
  <2>1. CallShape(d, s, Len(s), frags)
    BY <1>2, BelowTop DEF StackShape
  <2>2. ~InLoop(Pop(s))
    BY <1>2, <2>1, BelowTop DEF CallShape
  <2>3. Pop(s) \in Seq(Call) /\ StackShape(d, Pop(s), frags)
    BY <1>2, ShapePop
  <2>4. Push(Pop(s), c) \in Seq(Call) /\ StackShape(d, Push(Pop(s), c), frags)
    <3>1. c.m.t # "resend" /\ (c.pc = "loop" => c.m.r = d /\ frags = << >>)
      BY <1>2, <2>1, BelowTop DEF CallShape
    <3> QED
      BY <1>2, <2>2, <2>3, <3>1, ShapePush DEF InLoop
  <2> QED
    BY <1>2, <2>4, PushPop
<1> QED
  BY <1>1, <1>2, ResumeForms

LEMMA CacheShapeAppend ==
    ASSUME NEW d, NEW c \in Seq(Frame), CacheShape(d, c), NEW x \in Frame,
           x.t \in {"msg", "frag"}, x.r \in {d, Broadcast}
    PROVE  CacheShape(d, Append(c, x))
<1>1. SUFFICES ASSUME NEW p \in 1..Len(Append(c, x))
               PROVE  Append(c, x)[p].t \in {"msg", "frag"} /\ Append(c, x)[p].r \in {d, Broadcast}
  BY DEF CacheShape
<1>2. CASE p = Len(c) + 1
  <2>1. Append(c, x)[p] = x
    BY <1>2, AppendProperties
  <2> QED
    BY <2>1
<1>3. CASE p # Len(c) + 1
  <2>1. p \in 1..Len(c) /\ Append(c, x)[p] = c[p]
    BY <1>1, <1>3, AppendProperties, LenProperties
  <2> QED
    BY <2>1 DEF CacheShape
<1> QED
  BY <1>2, <1>3

LEMMA CacheShapeResume ==
    ASSUME NEW d, NEW s \in Seq(Call), NEW rep, NEW out, Sound(d, s, rep, out),
           NEW frags, StackShape(d, s, frags),
           NEW c \in Seq(Frame), CacheShape(d, c), NEW x \in Frame, x.t \in {"msg", "frag", "ack"}
    PROVE  CacheShape(d, ResumeCached(d, c, s, x))
<1>1. CASE ResumeCached(d, c, s, x) = c
  BY <1>1
<1>2. CASE ResumeCached(d, c, s, x) # c
  <2>1. s # << >> /\ x.t # "ack" /\ ResumeCached(d, c, s, x) = Append(c, x)
    BY <1>2 DEF ResumeCached, CacheMessage
  <2>2. CallShape(d, s, Len(s), frags) /\ CallIs(d, Top(s), rep) /\ Top(s) = s[Len(s)]
    BY <2>1, BelowTop, SoundPop DEF StackShape
  <2>3. \/ Top(s).pc \in {"drain", "collect", "await"} /\ Keeps(d, Top(s), x)
        \/ Top(s).pc = "loop" /\ x.r \in {Top(s).m.r, Broadcast}
    BY <1>2, <2>1 DEF ResumeCached
  <2>4. x.r \in {d, Broadcast}
    <3>1. CASE Top(s).pc \in {"drain", "collect", "await"}
      <4>1. Top(s).m.s \in {d, Broadcast}
        BY <2>2, <3>1 DEF CallIs, WritePC, WriteIs, Own
      <4> QED
        BY <2>3, <3>1, <4>1 DEF Keeps
    <3>2. CASE Top(s).pc = "loop"
      BY <2>2, <2>3, <3>2 DEF CallShape
    <3> QED
      BY <2>3, <3>1, <3>2
  <2> QED
    BY <2>1, <2>4, CacheShapeAppend
<1> QED
  BY <1>1, <1>2

LEMMA ReturnShape ==
    ASSUME TypeOK, NEW d \in Devices, NEW s \in Seq(Call), NEW rep, NEW out, Sound(d, s, rep, out),
           NEW frags, StackShape(d, s, frags),
           NEW c \in Seq(Frame), CacheShape(d, c), NEW x \in Frame, x.t \in {"msg", "frag", "ack"},
           ReturnMessage(d, s, c, x)
    PROVE  stack'[d] \in Seq(Call) /\ StackShape(d, stack'[d], frags) /\ CacheShape(d, cached'[d])
<1>1. stack'[d] = ResumeStack(s, x) /\ cached'[d] = ResumeCached(d, c, s, x)
  BY DEF ReturnMessage, TypeOK
<1> QED
  BY <1>1, ShapeResume, CacheShapeResume

LEMMA BaseLike ==
    ASSUME OriginInv, NEW d \in Devices, Shape(d), NEW b, BaseOf(d, b)
    PROVE  /\ b \in Seq(Call) /\ stack[d] \in Seq(Call) /\ Like(stack[d], b)
           /\ Sound(d, b, repeated, outcome[d])
           /\ StackShape(d, b, multi[d]) /\ Resumable(stack[d], b) /\ Reader(b)
           /\ ~InLoop(stack[d]) <=> ~InLoop(b)
<1>1. stack[d] \in Seq(Call) /\ Sound(d, stack[d], repeated, outcome[d]) /\ StackShape(d, stack[d], multi[d])
  BY OriginParts DEF OriginInv, TypeOK, Shape
<1>2. Resumable(stack[d], b)
  BY DEF BaseOf, Resumable, Reader, Reading
<1>3. b \in Seq(Call) /\ Sound(d, b, repeated, outcome[d]) /\ Reader(b)
  BY <1>1, <1>2, ResumableSound
<1>4. Like(stack[d], b)
  <2>1. CASE b = stack[d]
    BY <2>1, LikeSame
  <2>2. CASE stack[d] # << >> /\ Top(stack[d]).pc = "drain" /\ b = SetTop(stack[d], [Top(stack[d]) EXCEPT !.k = 1])
    <3>1. Top(stack[d]) \in Call
      BY <1>1, <2>2, BelowTop
    <3>2. PICK c \in Call : c = [Top(stack[d]) EXCEPT !.k = 1] /\ c.pc = "drain" /\ c.m = Top(stack[d]).m
      BY <2>2, <3>1, DrainNotes
    <3> QED
      BY <1>1, <2>2, <3>2, LikeSetTop DEF ReadPC
  <2> QED
    BY <2>1, <2>2 DEF BaseOf
<1>5. StackShape(d, b, multi[d])
  BY <1>1, <1>3, <1>4, ShapeLike
<1>6. ~InLoop(stack[d]) <=> ~InLoop(b)
  BY <1>1, <1>3, <1>4, LikeTop DEF InLoop, ReadPC
<1> QED
  BY <1>1, <1>2, <1>3, <1>4, <1>5, <1>6

\* The blocking loop that reads lacks fragments.
LEMMA BaseLoop ==
    ASSUME OriginInv, NEW d \in Devices, Shape(d), NEW b, BaseOf(d, b), InLoop(b)
    PROVE  b = stack[d] /\ Top(b).k < Top(b).m.n
<1>1. InLoop(stack[d])
  BY BaseLike
<1> QED
  BY <1>1 DEF BaseOf, InLoop

\* What a device keeps of the frames of its serial buffer.
LEMMA FewerShape ==
    ASSUME TypeOK, NEW d \in Devices, \A p \in 1..Len(rx[d]) : rx[d][p].t # "resend",
           \/ rx'[d] = rx[d]
           \/ rx[d] # << >> /\ rx'[d] = Tail(rx[d])
           \/ rx'[d] = << >>
    PROVE  \A p \in 1..Len(rx'[d]) : rx'[d][p].t # "resend"
<1>1. rx[d] \in Seq(Frame) /\ Len(rx[d]) \in Nat
  BY LenProperties DEF TypeOK
<1>2. CASE rx[d] # << >> /\ rx'[d] = Tail(rx[d])
  <2> TAKE p \in 1..Len(rx'[d])
  <2>1. p + 1 \in 1..Len(rx[d]) /\ rx'[d][p] = rx[d][p + 1]
    BY <1>1, <1>2, HeadTailProperties
  <2> QED
    BY <2>1
<1>3. CASE rx'[d] = << >>
  <2>1. Len(<< >>) = 0
    OBVIOUS
  <2> QED
    BY <1>3, <2>1
<1> QED
  BY <1>2, <1>3

LEMMA ShapeOpen ==
    ASSUME NEW d, NEW s, NEW frags, StackShape(d, s, frags), frags # << >>, NEW more
    PROVE  StackShape(d, s, more)
BY DEF StackShape, CallShape

\* A read that waits for its acknowledgement to go out.
LEMMA AckTop ==
    ASSUME OriginInv, NEW d \in Devices, Shape(d), stack[d] # << >>, Top(stack[d]).pc = "ack"
    PROVE  LET c == Top(stack[d])
               b == Pop(stack[d])
           IN /\ stack[d] \in Seq(Call) /\ c \in Call /\ c.m \in Frame /\ c.multi \in BOOLEAN /\ c.cache \in BOOLEAN
              /\ c.m.r = d /\ c.m.t \in {"msg", "frag"} /\ Foreigner(d, c.m) /\ c.m.s \in Others(d)
              /\ c.m.t = "frag" => c.m \in Fragments
              /\ c.multi => ~InLoop(b)
              /\ ~c.multi => InLoop(b)
              /\ b \in Seq(Call) /\ Sound(d, b, repeated, outcome[d]) /\ Reader(b)
              /\ StackShape(d, b, multi[d])
              /\ InLoop(b) => Top(b).k < Top(b).m.n
<1> DEFINE c == Top(stack[d])
           b == Pop(stack[d])
<1>1. /\ TypeOK /\ stack[d] \in Seq(Call) /\ c \in Call /\ CallIs(d, c, repeated)
      /\ CallShape(d, stack[d], Len(stack[d]), multi[d]) /\ c = stack[d][Len(stack[d])]
  BY TopShape
<1>2. c \in ReadRecord /\ c.pc \in ReadPC
  BY <1>1, CallKinds DEF ReadPC
<1>3. c.m \in Frame /\ c.multi \in BOOLEAN /\ c.cache \in BOOLEAN
  BY <1>2 DEF ReadRecord
<1>4. c.m.r = d /\ Foreigner(d, c.m) /\ c.m.t \in {"msg", "frag"}
  BY <1>1, <1>2 DEF CallIs, ReadIs, CallShape
<1>5. c.m.s \in Others(d)
  BY <1>4 DEF Foreigner, Real, Others
<1>6. c.m.t = "frag" => c.m \in Fragments
  BY <1>3 DEF Fragments
<1>7. (c.multi => ~InLoop(b)) /\ (~c.multi => InLoop(b))
  BY <1>1, BelowTop DEF CallShape
<1>8. Sound(d, stack[d], repeated, outcome[d]) /\ StackShape(d, stack[d], multi[d])
  BY OriginParts DEF OriginInv, Shape
<1>9. b \in Seq(Call) /\ StackShape(d, b, multi[d])
  BY <1>1, <1>8, ShapePop
<1>10. Resumable(stack[d], b)
  BY DEF Resumable
<1>11. Sound(d, b, repeated, outcome[d]) /\ Reader(b)
  BY <1>1, <1>8, <1>10, ResumableSound
<1>13. InLoop(b) => Top(b).k < Top(b).m.n
  BY <1>1, BelowTop DEF CallShape, InLoop
<1> HIDE DEF c, b
<1>12. /\ stack[d] \in Seq(Call) /\ c \in Call /\ c.m \in Frame /\ c.multi \in BOOLEAN /\ c.cache \in BOOLEAN
       /\ c.m.r = d /\ c.m.t \in {"msg", "frag"} /\ Foreigner(d, c.m) /\ c.m.s \in Others(d)
       /\ c.m.t = "frag" => c.m \in Fragments
       /\ c.multi => ~InLoop(b)
       /\ ~c.multi => InLoop(b)
       /\ b \in Seq(Call) /\ Sound(d, b, repeated, outcome[d]) /\ Reader(b)
       /\ StackShape(d, b, multi[d])
       /\ InLoop(b) => Top(b).k < Top(b).m.n
  BY <1>1, <1>3, <1>4, <1>5, <1>6, <1>7, <1>9, <1>11, <1>13
<1> QED
  BY <1>12 DEF c, b

\* The loop that a first fragment starts.
LEMMA LoopStarts ==
    ASSUME NEW c \in Call, c.pc = "ack", c.m \in Fragments
    PROVE  /\ LoopStart(c) \in Call /\ LoopStart(c).pc = "loop" /\ LoopStart(c).m = c.m /\ LoopStart(c).k = 1
           /\ LoopStart(c).got = [p \in 1..c.m.n |-> IF p = 1 THEN c.m.d[1] ELSE Junk]
<1>1. c \in ReadRecord
  BY CallKinds DEF ReadPC
<1>2. [cache |-> c.cache, multi |-> c.multi] \in [cache : BOOLEAN, multi : BOOLEAN]
  BY <1>1 DEF ReadRecord
<1>3. LoopStart(c) \in Call
  BY <1>2, LoopStartType DEF LoopStart
<1> QED
  BY <1>3 DEF LoopStart, ReadCall

\* The blocking loop has ended.
LEMMA LoopTop ==
    ASSUME OriginInv, NEW d \in Devices, Shape(d), InLoop(stack[d])
    PROVE  LET c == Top(stack[d])
               b == Pop(stack[d])
           IN /\ stack[d] \in Seq(Call) /\ c \in ReadRecord /\ c.m \in Fragments /\ c.k \in Nat /\ c.k <= c.m.n
              /\ Len(c.got) = c.m.n /\ c.got \in Seq(Unit)
              /\ c.m.r = d /\ c.m.s \in Others(d) /\ Foreigner(d, c.m) /\ multi[d] = << >>
              /\ b \in Seq(Call) /\ Sound(d, b, repeated, outcome[d]) /\ Reader(b) /\ ~InLoop(b)
              /\ StackShape(d, b, multi[d])
              /\ LoopMessage(c) \in Frame
<1> DEFINE c == Top(stack[d])
           b == Pop(stack[d])
<1>1. /\ stack[d] # << >> /\ c.pc = "loop" /\ stack[d] \in Seq(Call) /\ c \in Call /\ CallIs(d, c, repeated)
      /\ CallShape(d, stack[d], Len(stack[d]), multi[d]) /\ c = stack[d][Len(stack[d])]
  BY TopShape DEF InLoop
<1>2. c \in ReadRecord /\ c.pc \in ReadPC
  BY <1>1, CallKinds DEF ReadPC
<1>3. /\ c.m \in Frame /\ c.m.t = "frag" /\ c.k \in Nat /\ c.k <= c.m.n /\ c.got \in Seq(Unit)
      /\ Len(c.got) = c.m.n
  BY <1>1, <1>2 DEF ReadRecord
<1>4. c.m.r = d /\ multi[d] = << >> /\ ~Under(stack[d], Len(stack[d]))
  BY <1>1 DEF CallShape
<1>5. Foreigner(d, c.m)
  BY <1>1, <1>2 DEF CallIs, ReadIs
<1>6. c.m.s \in Others(d) /\ c.m \in Fragments
  BY <1>3, <1>5 DEF Foreigner, Real, Others, Fragments
<1>7. Sound(d, stack[d], repeated, outcome[d]) /\ StackShape(d, stack[d], multi[d])
  BY OriginParts DEF OriginInv, Shape
<1>8. b \in Seq(Call) /\ StackShape(d, b, multi[d])
  BY <1>1, <1>7, ShapePop
<1>9. Sound(d, b, repeated, outcome[d]) /\ Reader(b)
  <2>1. Resumable(stack[d], b)
    BY <1>1 DEF Resumable
  <2> QED
    BY <1>1, <1>7, <2>1, ResumableSound
<1>10. ~InLoop(b)
  BY <1>1, <1>4, BelowTop
<1>11. LoopMessage(c) \in Frame
  BY <1>1, LoopMessageType
<1> HIDE DEF c, b
<1>12. /\ stack[d] \in Seq(Call) /\ c \in ReadRecord /\ c.m \in Fragments /\ c.k \in Nat /\ c.k <= c.m.n
       /\ Len(c.got) = c.m.n /\ c.got \in Seq(Unit)
       /\ c.m.r = d /\ c.m.s \in Others(d) /\ Foreigner(d, c.m) /\ multi[d] = << >>
       /\ b \in Seq(Call) /\ Sound(d, b, repeated, outcome[d]) /\ Reader(b) /\ ~InLoop(b)
       /\ StackShape(d, b, multi[d])
       /\ LoopMessage(c) \in Frame
  BY <1>1, <1>2, <1>3, <1>4, <1>5, <1>6, <1>8, <1>9, <1>10, <1>11
<1> QED
  BY <1>12 DEF c, b

\* A message put together from multi_cache.
LEMMA JointType ==
    ASSUME OriginInv, NEW d \in Devices, Shape(d), stack[d] # << >>, Top(stack[d]).pc = "ack",
           Top(stack[d]).m.t = "frag"
    PROVE  Joint(d) \in Frame /\ Joint(d).t = "msg" /\ Joint(d).s = Top(stack[d]).m.s /\ Joint(d).r = d
<1>1. Top(stack[d]).m \in Fragments /\ Top(stack[d]).m.r = d /\ multi[d] \in Seq(Fragments)
  BY AckTop DEF OriginInv, TypeOK
<1>2. Joint(d) \in Frame
  BY <1>1, AssembledType DEF Joint, Grown
<1> QED
  BY <1>1, <1>2 DEF Joint, WholeMessage

LEMMA ResumedShape ==
    ASSUME OriginInv, ReadsGuarded, NEW d \in Devices, Shape(d), Resumed(d)
    PROVE  StackShape(d, stack'[d], multi'[d]) /\ CacheShape(d, cached'[d])
<1> DEFINE c == Top(stack[d])
           b == Pop(stack[d])
<1>1. stack[d] # << >> /\ c.pc = "ack"
  BY DEF Resumed
<1>2. /\ TypeOK /\ stack[d] \in Seq(Call) /\ c \in Call /\ c.m \in Frame /\ c.multi \in BOOLEAN
      /\ c.cache \in BOOLEAN
      /\ c.m.r = d /\ c.m.t \in {"msg", "frag"}
      /\ c.m.t = "frag" => c.m \in Fragments
      /\ c.multi => ~InLoop(b)
      /\ b \in Seq(Call) /\ Sound(d, b, repeated, outcome[d])
      /\ StackShape(d, b, multi[d])
  BY <1>1, AckTop DEF OriginInv
<1>3. /\ stack \in [Devices -> Seq(Call)] /\ multi \in [Devices -> Seq(Fragments)]
      /\ cached[d] \in Seq(Frame) /\ CacheShape(d, cached[d])
  BY <1>2 DEF TypeOK, Shape, BufferShape
<1>4. CASE Gave(d)
  <2>1. ReturnMessage(d, b, cached[d], c.m) /\ multi' = multi
    BY <1>4 DEF Gave
  <2> HIDE DEF c, b
  <2> QED
    BY <1>2, <1>3, <2>1, ReturnShape
<1>5. CASE Passed(d)
  BY <1>2, <1>3, <1>5 DEF Passed
<1>6. CASE c.m.t = "frag" /\ c.multi /\ Entered(d)
  <2>1. /\ LoopStart(c) \in Call /\ LoopStart(c).pc = "loop" /\ LoopStart(c).m = c.m
    BY <1>1, <1>2, <1>6, LoopStarts
  <2>2. stack'[d] = Push(b, LoopStart(c)) /\ multi[d] = << >> /\ UNCHANGED <<multi, cached>>
    BY <1>3, <1>6 DEF Entered
  <2>3. c.m.t # "resend"
    BY <1>2
  <2> HIDE DEF c, b
  <2>4. StackShape(d, Push(b, LoopStart(c)), multi[d])
    BY <1>2, <1>6, <2>1, <2>2, <2>3, ShapePush DEF InLoop
  <2> QED
    BY <1>3, <2>2, <2>4
<1>7. CASE c.multi /\ Stacked(d)
  <2>1. stack'[d] = b /\ multi'[d] = Grown(d) /\ UNCHANGED cached /\ (multi[d] = << >> => c.cache)
    BY <1>3, <1>7 DEF Stacked
  <2>2. CASE multi[d] # << >>
    BY <1>2, <1>3, <2>1, <2>2, ShapeOpen
  <2>3. CASE multi[d] = << >>
    <3>1. Len(stack[d]) \in 1..Len(stack[d]) /\ c = stack[d][Len(stack[d])]
      BY <1>1, <1>2, BelowTop
    <3>2. Len(stack[d]) = 1
      BY <1>1, <1>7, <2>1, <2>3, <3>1 DEF ReadsGuarded, Guarded
    <3>3. Len(b) = 0
      BY <1>1, <1>2, <3>2, PopProperties
    <3> QED
      BY <1>3, <2>1, <3>3 DEF StackShape
  <2> QED
    BY <2>2, <2>3
<1>8. CASE c.m.t = "frag" /\ Assembled(d)
  <2>1. Joint(d) \in Frame /\ Joint(d).t = "msg"
    BY <1>1, <1>8, JointType
  <2>2. ReturnMessage(d, b, cached[d], Joint(d)) /\ multi'[d] = << >>
    BY <1>3, <1>8 DEF Assembled
  <2> HIDE DEF b
  <2>3. StackShape(d, stack'[d], multi[d]) /\ CacheShape(d, cached'[d])
    BY <1>2, <1>3, <2>1, <2>2, ReturnShape
  <2> QED
    BY <2>2, <2>3, ShapeClosed
<1> QED
  BY <1>4, <1>5, <1>6, <1>7, <1>8 DEF Resumed

LEMMA FrameShape ==
    ASSUME OriginInv, NEW d \in Devices, Shape(d), NEW b, BaseOf(d, b),
           Dropped(d, b) \/ Took(d, b) \/ Overheard(d, b)
    PROVE  StackShape(d, stack'[d], multi'[d]) /\ CacheShape(d, cached'[d])
<1>1. /\ TypeOK /\ b \in Seq(Call) /\ Sound(d, b, repeated, outcome[d]) /\ StackShape(d, b, multi[d])
      /\ stack \in [Devices -> Seq(Call)] /\ cached[d] \in Seq(Frame) /\ CacheShape(d, cached[d])
  BY BaseLike DEF OriginInv, TypeOK, Shape, BufferShape
<1>2. CASE Dropped(d, b)
  BY <1>1, <1>2 DEF Dropped
<1>3. CASE Took(d, b)
  <2>1. PICK c \in Call : /\ c.pc = "ack" /\ c.m = Head(rx[d])
                          /\ c.multi => ~InLoop(b)
                          /\ ~c.multi => InLoop(b)
                          /\ stack' = [stack EXCEPT ![d] = Push(Push(b, c), WriteCall(Ack(d, c.m.s), FALSE))]
    BY <1>3 DEF Took
  <2>2. c.m.t \in {"msg", "frag"} /\ UNCHANGED <<multi, cached>> /\ rx[d] # << >> /\ c.m \in Frame
    BY <1>3, <2>1, HeadHeard DEF Took
  <2>3. PICK w \in Call : w = WriteCall(Ack(d, c.m.s), FALSE)
    <3>1. Ack(d, c.m.s) \in Frame
      BY <2>2, ShortType DEF Frame, Addresses
    <3> QED
      BY <3>1, WriteCallType
  <2>4. w.pc = "drain" /\ w.m.t = "ack"
    BY <2>3 DEF WriteCall, Ack, Short
  <2>5. stack'[d] = Push(Push(b, c), w)
    BY <1>1, <2>1, <2>3
  <2>6. PICK u \in Seq(Call) : u = Push(b, c) /\ StackShape(d, u, multi[d]) /\ Top(u) = c
    <3>1. c.pc \notin {"enter", "nodata", "loop"} /\ c.m.t # "resend"
      BY <2>1, <2>2
    <3>2. InLoop(b) => Top(b).k < Top(b).m.n
      BY BaseLoop
    <3>3. c.pc = "ack" /\ c.m.t \in {"msg", "frag"} /\ (c.multi => ~InLoop(b)) /\ (~c.multi => InLoop(b))
      BY <2>1, <2>2
    <3>4. Push(b, c) \in Seq(Call) /\ StackShape(d, Push(b, c), multi[d])
      BY <1>1, <3>1, <3>2, <3>3, ShapePush DEF InLoop
    <3>5. Top(Push(b, c)) = c
      BY <1>1, <2>1, PushProperties
    <3> QED
      BY <3>4, <3>5
  <2>7. StackShape(d, Push(u, w), multi[d])
    BY <2>1, <2>4, <2>6, ShapePush
  <2> QED
    BY <1>1, <2>2, <2>5, <2>6, <2>7
<1>4. CASE Overheard(d, b)
  <2>1. /\ ReturnMessage(d, b, cached[d], Head(rx[d])) /\ Head(rx[d]).t \in {"msg", "frag", "ack"}
        /\ Head(rx[d]) \in Frame /\ UNCHANGED multi
    BY <1>4, HeadHeard DEF Overheard
  <2> QED
    BY <1>1, <2>1, ReturnShape
<1> QED
  BY <1>2, <1>3, <1>4

LEMMA ReadKeepsShape ==
    ASSUME OriginInv, ReadsGuarded, NEW d \in Devices, Shape(d), ReadKind(d), UNCHANGED tx
    PROVE  Shape(d)'
<1>1. /\ TypeOK /\ rx \in [Devices -> Seq(Frame)] /\ stack[d] \in Seq(Call) /\ cached[d] \in Seq(Frame)
      /\ CacheShape(d, cached[d]) /\ StackShape(d, stack[d], multi[d])
      /\ Sound(d, stack[d], repeated, outcome[d])
  BY OriginParts DEF OriginInv, TypeOK, Shape, BufferShape
<1>2. StackShape(d, stack'[d], multi'[d]) /\ CacheShape(d, cached'[d])
  <2>1. CASE Recached(d)
    <3>1. Head(cached[d]) \in Frame /\ Tail(cached[d]) \in Seq(Frame) /\ Len(cached[d]) \in Nat
          /\ Head(cached[d]) = cached[d][1] /\ 1 \in 1..Len(cached[d])
          /\ Len(Tail(cached[d])) = Len(cached[d]) - 1
          /\ \A p \in 1..Len(Tail(cached[d])) : Tail(cached[d])[p] = cached[d][p + 1]
      BY <1>1, <2>1, EmptySeq, LenProperties, HeadTailProperties DEF Recached
    <3>2. Head(cached[d]).t \in {"msg", "frag", "ack"} /\ CacheShape(d, Tail(cached[d]))
      BY <1>1, <3>1 DEF CacheShape
    <3>3. ReturnMessage(d, stack[d], Tail(cached[d]), Head(cached[d])) /\ UNCHANGED multi
      BY <2>1 DEF Recached
    <3> QED
      BY <1>1, <3>1, <3>2, <3>3, ReturnShape
  <2>2. CASE Resumed(d)
    BY <2>2, ResumedShape
  <2>3. CASE Finished(d)
    <3>1. /\ Pop(stack[d]) \in Seq(Call) /\ Sound(d, Pop(stack[d]), repeated, outcome[d])
          /\ StackShape(d, Pop(stack[d]), multi[d]) /\ LoopMessage(Top(stack[d])) \in Frame
      BY <2>3, LoopTop DEF Finished
    <3>2. LoopMessage(Top(stack[d])).t = "msg"
      BY DEF LoopMessage, WholeMessage
    <3>3. ReturnMessage(d, Pop(stack[d]), cached[d], LoopMessage(Top(stack[d]))) /\ UNCHANGED multi
      BY <2>3 DEF Finished
    <3> QED
      BY <1>1, <3>1, <3>2, <3>3, ReturnShape
  <2>4. CASE \E b : BaseOf(d, b) /\ (Dropped(d, b) \/ Took(d, b) \/ Overheard(d, b))
    BY <2>4, FrameShape
  <2> QED
    BY <2>1, <2>2, <2>3, <2>4 DEF ReadKind
<1>3. \/ rx'[d] = rx[d]
      \/ rx[d] # << >> /\ rx'[d] = Tail(rx[d])
      \/ rx'[d] = << >>
  BY <1>1 DEF ReadKind, Recached, Resumed, Finished, Dropped, Took, Overheard
<1>4. \A p \in 1..Len(rx'[d]) : rx'[d][p].t # "resend"
  BY <1>1, <1>3, FewerShape DEF Shape, BufferShape
<1> QED
  BY <1>2, <1>4 DEF Shape, BufferShape

-----------------------------------------------------------------------------
(* What a step of a write does while no timer of a split message ran out.  *)

\* The stack q of a writer, rep being the pairs for which frames were repeated: only the
\* program itself writes a split message, and it waits for the acknowledgement of every
\* fragment; other fragments are written for a repetition.
WriterShape(q, rep) ==
    /\ \A p \in 1..Len(q) :
          /\ q[p].pc = "group" => p = 1
          /\ q[p].pc \in WritePC /\ q[p].m.t = "frag" => Pair(q[p].m) \in rep \/ (p = 2 /\ q[1].pc = "group")
    /\ q # << >> /\ q[1].pc = "group" =>
          /\ q[1].ack /\ q[1].k <= Len(q[1].m.d)
          /\ Pair(q[1].m) \notin rep => q[1].ok
          /\ Len(q) >= 2 => /\ q[1].k < Len(q[1].m.d)
                            /\ q[2].pc \in {"drain", "collect", "await"}
                            /\ q[2].m = Fragment(q[1].m, q[1].k) /\ q[2].ack

\* What a write that moves on keeps.
Onward(w, c) == c.m = w.m /\ c.ack = w.ack /\ c.ok = w.ok

\* The program begins to write a message.
WStart(a) ==
    /\ stack[a] = << >>
    /\ \E c \in Call : /\ c.pc \in {"group", "drain"} /\ c.m.t = "msg"
                       /\ c.pc = "group" => c.k = 0 /\ c.ok /\ c.ack
                       /\ stack'[a] = Push(stack[a], c)
    /\ UNCHANGED <<rx, repeated>>
\* A fragment of it.
WFragment(a) ==
    /\ Len(stack[a]) = 1 /\ stack[a][1].pc = "group" /\ stack[a][1].k < Len(stack[a][1].m.d)
    /\ \E c \in Call : /\ c.pc = "drain" /\ c.m = Fragment(stack[a][1].m, stack[a][1].k) /\ c.ack
                       /\ stack'[a] = Push(stack[a], c)
    /\ UNCHANGED <<rx, repeated>>
\* All fragments are written, or one was not acknowledged.
WGroup(a) ==
    /\ Len(stack[a]) = 1 /\ stack[a][1].pc = "group"
    /\ stack[a][1].k >= Len(stack[a][1].m.d) \/ ~stack[a][1].ok
    /\ stack'[a] = << >>
    /\ UNCHANGED <<rx, repeated>>
\* A frame goes out and is waited for.
WSend(a) ==
    /\ stack[a] # << >> /\ Top(stack[a]).pc = "drain" /\ Top(stack[a]).m.t # "ack"
    /\ \E c \in Call : /\ c.pc = "collect" /\ Onward(Top(stack[a]), c)
                       /\ stack'[a] = SetTop(stack[a], c)
    /\ Transmit(a, Top(stack[a]).m)
    /\ UNCHANGED repeated
\* A frame goes out that is not waited for.
WSaid(a) ==
    /\ stack[a] # << >> /\ Top(stack[a]).pc = "drain"
    /\ ~(Len(stack[a]) = 2 /\ stack[a][1].pc = "group")
    /\ stack'[a] = Pop(stack[a])
    /\ Transmit(a, Top(stack[a]).m)
    /\ UNCHANGED repeated
\* The buffer is empty, or the frame is to be written again.
WCollected(a) ==
    /\ stack[a] # << >> /\ Top(stack[a]).pc = "collect"
    /\ \E c \in Call : /\ c.pc = "await" /\ Onward(Top(stack[a]), c)
                       /\ stack'[a] = SetTop(stack[a], c)
    /\ UNCHANGED <<rx, repeated>>
WRepeat(a) ==
    /\ stack[a] # << >> /\ Top(stack[a]).pc = "await"
    /\ \E c, w \in Call : /\ c.pc = "await" /\ Onward(Top(stack[a]), c)
                          /\ w.pc = "drain" /\ w.m = c.m /\ w.m.t # "ack"
                          /\ stack'[a] = Push(SetTop(stack[a], c), w)
    /\ repeated' = repeated \union {Pair(Top(stack[a]).m)}
    /\ UNCHANGED rx
\* The write returns: to the write of a split message, or to another caller.
WNext(a) ==
    /\ Len(stack[a]) = 2 /\ stack[a][1].pc = "group"
    /\ stack[a][2].pc = "await" /\ (stack[a][2].ok \/ Pair(stack[a][2].m) \in repeated)
    /\ \E c \in Call : /\ c.pc = "group" /\ c.m = stack[a][1].m /\ c.ack = stack[a][1].ack
                       /\ c.k = stack[a][1].k + 1 /\ c.ok = (stack[a][1].ok /\ stack[a][2].ok)
                       /\ stack'[a] = SetTop(Pop(stack[a]), c)
    /\ UNCHANGED <<rx, repeated>>
WDone(a) ==
    /\ stack[a] # << >> /\ Top(stack[a]).pc = "await"
    /\ ~(Len(stack[a]) = 2 /\ stack[a][1].pc = "group")
    /\ stack'[a] = Pop(stack[a])
    /\ UNCHANGED <<rx, repeated>>

WriteKind(a) ==
    \/ WStart(a) \/ WFragment(a) \/ WGroup(a) \/ WSend(a) \/ WSaid(a) \/ WCollected(a) \/ WRepeat(a)
    \/ WNext(a) \/ WDone(a)
WriteRest(a) ==
    /\ UNCHANGED <<cached, inbox, multi>>
    /\ \A e \in Others(a) : stack'[e] = stack[e] /\ tx'[e] = tx[e]
    /\ \A m \in tx'[a] : m.t # "resend"

\* What tx_vec keeps.
LEMMA RememberShape ==
    ASSUME NEW d \in Devices, NEW m
    PROVE  \A x \in Remember(d, m) : x \in tx[d] \/ x = m
<1> TAKE x \in Remember(d, m)
<1> QED
  BY DEF Remember

\* The caller of a write.
LEMMA ReturnKinds ==
    ASSUME OriginInv, NEW a \in Devices, Shape(a), WriterShape(stack[a], repeated), TopIs(a, WritePC),
           NEW ok \in BOOLEAN, ReturnWrite(a, Pop(stack[a]), ok)
    PROVE  /\ \A e \in Others(a) : stack'[e] = stack[e]
           /\ \/ /\ stack'[a] = Pop(stack[a])
                 /\ ~(Len(stack[a]) = 2 /\ stack[a][1].pc = "group")
              \/ /\ Len(stack[a]) = 2 /\ stack[a][1].pc = "group"
                 /\ stack'[a] = SetTop(Pop(stack[a]), [stack[a][1] EXCEPT !.k = @ + 1, !.ok = @ /\ ok])
<1> DEFINE q == stack[a]
           b == Pop(q)
<1>1. /\ TypeOK /\ q \in Seq(Call) /\ q # << >> /\ stack \in [Devices -> Seq(Call)]
      /\ StackShape(a, q, multi[a])
  BY OriginParts DEF OriginInv, TypeOK, TopIs, Shape
<1>2. /\ b \in Seq(Call) /\ Len(b) = Len(q) - 1 /\ Len(q) \in Nat /\ Len(q) # 0
      /\ \A j \in 1..Len(q) - 1 : b[j] = q[j]
  BY <1>1, PopProperties, LenProperties, EmptySeq
<1>3. \A e \in Others(a) : stack'[e] = stack[e]
  BY <1>1 DEF ReturnWrite, Others
<1>4. CASE b = << >>
  <2>1. stack'[a] = b
    BY <1>1, <1>4 DEF ReturnWrite
  <2>2. Len(q) = 1
    BY <1>2, <1>4, EmptySeq
  <2> QED
    BY <1>3, <2>1, <2>2
<1>5. CASE b # << >>
  <2>1. /\ Len(q) - 1 \in 1..Len(q) /\ Top(b) = q[Len(q) - 1]
    BY <1>1, <1>5, BelowTop
  <2>2. Top(b).pc # "nodata" /\ (Top(b).pc = "group" => Len(q) = 2)
    <3>1. CallShape(a, q, Len(q) - 1, multi[a]) /\ (q[Len(q) - 1].pc = "group" => Len(q) - 1 = 1)
      BY <1>1, <2>1 DEF StackShape, WriterShape
    <3> QED
      BY <1>2, <2>1, <3>1 DEF CallShape
  <2>5. Len(q) = 2 => Top(b) = q[1]
    <3>1. Len(q) = 2 => Len(q) - 1 = 1
      BY <1>2
    <3> QED
      BY <2>1, <3>1
  <2>3. CASE Top(b).pc = "group"
    <3>1. stack'[a] = SetTop(b, [Top(b) EXCEPT !.k = @ + 1, !.ok = @ /\ ok])
      BY <1>1, <1>5, <2>3 DEF ReturnWrite
    <3>2. Len(q) = 2 /\ Top(b) = q[1] /\ q[1].pc = "group"
      BY <2>2, <2>3, <2>5
    <3> QED
      BY <1>3, <3>1, <3>2
  <2>4. CASE Top(b).pc # "group"
    <3>1. stack'[a] = b
      BY <1>1, <1>5, <2>2, <2>4 DEF ReturnWrite
    <3>2. ~(Len(q) = 2 /\ q[1].pc = "group")
      BY <2>4, <2>5
    <3> QED
      BY <1>3, <3>1, <3>2
  <2> QED
    BY <2>3, <2>4
<1> QED
  BY <1>4, <1>5

\* What a write step leaves alone.
LEMMA WriteRests ==
    ASSUME OriginInv, NEW a \in Devices, Shape(a), Write(a) \/ WriteStep(a)
    PROVE  WriteRest(a)
<1>1. /\ TypeOK /\ stack \in [Devices -> Seq(Call)] /\ tx \in [Devices -> SUBSET Frame]
      /\ \A m \in tx[a] : m.t # "resend"
  BY DEF OriginInv, TypeOK, Shape, BufferShape
<1>2. \A e \in Others(a) : e \in Devices /\ e # a
  BY DEF Others
<1>3. ASSUME NEW s, NEW ok, ReturnWrite(a, s, ok)
      PROVE  \A e \in Others(a) : stack'[e] = stack[e]
  BY <1>1, <1>2, <1>3 DEF ReturnWrite
<1>4. ASSUME UNCHANGED tx, UNCHANGED <<cached, inbox, multi>>, \A e \in Others(a) : stack'[e] = stack[e]
      PROVE  WriteRest(a)
  BY <1>1, <1>4 DEF WriteRest
<1>5. ASSUME NEW m, m.t # "resend", tx' = [tx EXCEPT ![a] = Remember(a, m)], UNCHANGED <<cached, inbox, multi>>,
             \A e \in Others(a) : stack'[e] = stack[e]
      PROVE  WriteRest(a)
  <2>1. tx'[a] = Remember(a, m) /\ \A e \in Others(a) : tx'[e] = tx[e]
    BY <1>1, <1>2, <1>5
  <2>2. \A x \in tx'[a] : x.t # "resend"
    BY <1>1, <1>5, <2>1, RememberShape
  <2> QED
    BY <1>5, <2>1, <2>2 DEF WriteRest
<1>6. CASE Write(a)
  <2> DEFINE m == Script[a][Len(outcome[a]) + 1]
  <2>1. m.t = "msg"
    <3>1. Len(outcome[a]) \in Nat /\ Len(Script[a]) \in Nat
      BY <1>1, ScriptAssumption, LenProperties DEF TypeOK
    <3>2. Len(outcome[a]) + 1 \in 1..Len(Script[a])
      BY <1>6, <3>1 DEF Write
    <3> QED
      BY <3>2, ScriptAssumption
  <2>2. /\ tx' = [tx EXCEPT ![a] = Remember(a, m)] /\ UNCHANGED <<cached, inbox, multi>>
        /\ \A e \in Others(a) : stack'[e] = stack[e]
    BY <1>1, <1>2, <1>6 DEF Write
  <2> HIDE DEF m
  <2> QED
    BY <1>5, <2>1, <2>2
<1>7. CASE Repeat(a)
  <2>1. TopIs(a, WritePC) /\ stack[a] # << >>
    BY <1>7 DEF Repeat, TopIs, WritePC
  <2> DEFINE m == Top(stack[a]).m
  <2>2. m.t # "resend"
    BY <2>1, TopShape DEF CallShape
  <2>3. /\ tx' = [tx EXCEPT ![a] = Remember(a, m)] /\ UNCHANGED <<cached, inbox, multi>>
        /\ \A e \in Others(a) : stack'[e] = stack[e]
    BY <1>1, <1>2, <1>7 DEF Repeat
  <2> HIDE DEF m
  <2> QED
    BY <1>5, <2>2, <2>3
<1>8. CASE WriteFragment(a)
  BY <1>1, <1>2, <1>4, <1>8 DEF WriteFragment
<1>9. CASE WriteGroupDone(a)
  BY <1>3, <1>4, <1>9 DEF WriteGroupDone
<1>10. CASE Send(a)
  <2>1. \A e \in Others(a) : stack'[e] = stack[e]
    BY <1>1, <1>2, <1>3, <1>10 DEF Send
  <2> QED
    BY <1>4, <1>10, <2>1 DEF Send
<1>11. CASE Collected(a)
  BY <1>1, <1>2, <1>4, <1>11 DEF Collected
<1>12. CASE AwaitDone(a)
  BY <1>3, <1>4, <1>12 DEF AwaitDone
<1> QED
  BY <1>6, <1>7, <1>8, <1>9, <1>10, <1>11, <1>12 DEF WriteStep

LEMMA StartKind ==
    ASSUME OriginInv, NoSplitCast, NEW a \in Devices, Write(a)
    PROVE  WStart(a)
<1> DEFINE k == Len(outcome[a]) + 1
           m == Script[a][k]
           c == WriteCall(m, m.r # Broadcast)
<1>1. /\ TypeOK /\ stack \in [Devices -> Seq(Call)] /\ Len(outcome[a]) \in Nat /\ Len(Script[a]) \in Nat
  BY ScriptAssumption, LenProperties DEF OriginInv, TypeOK
<1>2. k \in 1..Len(Script[a])
  BY <1>1 DEF Write
<1>3. m \in Frame /\ m.t = "msg"
  BY <1>2, ScriptAssumption, ElementOfSeq
<1>4. Len(m.d) > 1 => m.r # Broadcast
  BY <1>2 DEF NoSplitCast, Splits, SentTo, Written
<1>5. stack[a] = << >> /\ stack' = [stack EXCEPT ![a] = <<c>>] /\ UNCHANGED <<rx, repeated>>
  BY DEF Write
<1>6. c \in Call /\ c.pc \in {"group", "drain"} /\ c.m = m /\ (c.pc = "group" => Len(m.d) > 1)
      /\ c.k = 0 /\ (Len(m.d) > 1 => c.ok) /\ c.ack = (m.r # Broadcast)
  <2> HIDE DEF m
  <2>1. (m.r # Broadcast) \in BOOLEAN
    OBVIOUS
  <2>2. c \in Call
    BY <1>3, <2>1, WriteCallType
  <2> QED
    BY <2>2 DEF WriteCall
<1> HIDE DEF c, m
<1>7. stack'[a] = Push(stack[a], c)
  BY <1>1, <1>5 DEF Push
<1> QED
  BY <1>3, <1>4, <1>5, <1>6, <1>7 DEF WStart

LEMMA FragmentKind ==
    ASSUME OriginInv, NEW a \in Devices, Shape(a), WriterShape(stack[a], repeated), WriteFragment(a)
    PROVE  WFragment(a)
<1> DEFINE q == stack[a]
           g == Top(q)
           c == WriteCall(Fragment(g.m, g.k), g.ack)
<1>1. TopIs(a, WritePC) /\ g.pc = "group" /\ g.k < Len(g.m.d) /\ stack' = [stack EXCEPT ![a] = Push(@, c)]
      /\ UNCHANGED <<rx, repeated>>
  BY DEF WriteFragment, TopIs, WritePC
<1>2. /\ stack \in [Devices -> Seq(Call)] /\ q \in Seq(Call) /\ q # << >>
      /\ g \in WriteRecord /\ g.m \in Frame /\ g.ack \in BOOLEAN
  BY <1>1, TopWrite
<1>3. Len(q) \in 1..Len(q) /\ g = q[Len(q)]
  BY <1>2, BelowTop
<1>4. Len(q) = 1 /\ g = q[1]
  BY <1>1, <1>3 DEF WriterShape
<1>5. g.ack
  BY <1>1, <1>2, <1>4 DEF WriterShape
<1>6. g.k \in Nat /\ Fragment(g.m, g.k) \in Frame
  BY <1>1, <1>2, FragmentType DEF WriteRecord
<1>7. c \in Call /\ c.pc = "drain" /\ c.m = Fragment(g.m, g.k) /\ c.ack
  <2>1. c \in Call
    BY <1>2, <1>6, WriteCallType
  <2>2. Len(Fragment(g.m, g.k).d) = 1
    BY DEF Fragment
  <2> QED
    BY <1>5, <2>1, <2>2 DEF WriteCall
<1>8. stack'[a] = Push(q, c)
  BY <1>1, <1>2
<1> HIDE DEF c
<1> QED
  BY <1>1, <1>4, <1>7, <1>8 DEF WFragment

LEMMA GroupKind ==
    ASSUME OriginInv, NEW a \in Devices, Shape(a), WriterShape(stack[a], repeated), WriteGroupDone(a)
    PROVE  WGroup(a)
<1> DEFINE q == stack[a]
           g == Top(q)
<1>1. TopIs(a, WritePC) /\ g.pc = "group" /\ (g.k >= Len(g.m.d) \/ ~g.ok) /\ ReturnWrite(a, Pop(q), g.ok)
      /\ UNCHANGED <<rx, repeated>>
  BY DEF WriteGroupDone, TopIs, WritePC
<1>2. /\ stack \in [Devices -> Seq(Call)] /\ q \in Seq(Call) /\ q # << >> /\ g \in WriteRecord
  BY <1>1, TopWrite
<1>3. Len(q) \in 1..Len(q) /\ g = q[Len(q)]
  BY <1>2, BelowTop
<1>4. Len(q) = 1 /\ g = q[1]
  BY <1>1, <1>3 DEF WriterShape
<1>5. Pop(q) = << >>
  BY <1>2, <1>4, BottomTop
<1>6. stack'[a] = << >>
  BY <1>1, <1>2, <1>5 DEF ReturnWrite
<1> QED
  BY <1>1, <1>4, <1>6 DEF WGroup

LEMMA SendKind ==
    ASSUME OriginInv, NEW a \in Devices, Shape(a), WriterShape(stack[a], repeated), Send(a)
    PROVE  WSend(a) \/ WSaid(a)
<1> DEFINE q == stack[a]
           w == Top(q)
<1>1. TopIs(a, WritePC) /\ w.pc = "drain" /\ Transmit(a, w.m) /\ UNCHANGED repeated
  BY DEF Send, TopIs, WritePC
<1>2. /\ stack \in [Devices -> Seq(Call)] /\ q \in Seq(Call) /\ q # << >>
      /\ w \in WriteRecord /\ WriteIs(a, w, repeated)
  BY <1>1, TopWrite
<1>3. CASE w.ack
  <2> DEFINE c == [w EXCEPT !.pc = "collect"]
  <2>1. c \in Call /\ c.pc = "collect" /\ Onward(w, c)
    BY <1>2 DEF WriteRecord, Call, WritePC, Onward
  <2>2. w.m.t # "ack"
    BY <1>2, <1>3 DEF WriteIs
  <2>3. stack'[a] = SetTop(q, c)
    BY <1>2, <1>3 DEF Send
  <2> HIDE DEF c
  <2> QED
    BY <1>1, <1>2, <2>1, <2>2, <2>3 DEF WSend
<1>4. CASE ~w.ack
  <2>1. ReturnWrite(a, Pop(q), TRUE)
    BY <1>4 DEF Send
  <2>2. ASSUME Len(q) = 2, q[1].pc = "group"
        PROVE  FALSE
    <3>1. q[2] = w
      BY <2>2 DEF Top
    <3>2. Len(q) >= 2
      BY <2>2
    <3> QED
      BY <1>2, <1>4, <2>2, <3>1, <3>2 DEF WriterShape
  <2>3. stack'[a] = Pop(q)
    BY <1>1, <2>1, <2>2, ReturnKinds
  <2> QED
    BY <1>1, <1>2, <2>2, <2>3 DEF WSaid
<1> QED
  BY <1>3, <1>4

LEMMA CollectedKind ==
    ASSUME OriginInv, NEW a \in Devices, Collected(a)
    PROVE  WCollected(a)
<1> DEFINE q == stack[a]
           w == Top(q)
           c == [w EXCEPT !.pc = "await"]
<1>1. TopIs(a, WritePC) /\ w.pc = "collect" /\ UNCHANGED <<rx, repeated>>
  BY DEF Collected, TopIs, WritePC
<1>2. stack \in [Devices -> Seq(Call)] /\ q \in Seq(Call) /\ q # << >> /\ w \in WriteRecord
  BY <1>1, TopWrite
<1>3. c \in Call /\ c.pc = "await" /\ Onward(w, c)
  BY <1>2 DEF WriteRecord, Call, WritePC, Onward
<1>4. stack'[a] = SetTop(q, c)
  BY <1>2 DEF Collected
<1> HIDE DEF c
<1> QED
  BY <1>1, <1>2, <1>3, <1>4 DEF WCollected

LEMMA RepeatKind ==
    ASSUME OriginInv, NEW a \in Devices, Repeat(a)
    PROVE  WRepeat(a)
<1> DEFINE q == stack[a]
           w == Top(q)
           c == [w EXCEPT !.tries = @ + 1]
           v == WriteCall(w.m, FALSE)
<1>1. TopIs(a, WritePC) /\ w.pc = "await" /\ UNCHANGED rx
  BY DEF Repeat, TopIs, WritePC
<1>2. /\ stack \in [Devices -> Seq(Call)] /\ q \in Seq(Call) /\ q # << >> /\ w \in WriteRecord
      /\ w.m \in Frame /\ WriteIs(a, w, repeated)
  BY <1>1, TopWrite
<1>3. c \in Call /\ c.pc = "await" /\ c.m = w.m /\ Onward(w, c)
  BY <1>1, <1>2 DEF WriteRecord, Call, Onward
<1>4. v \in Call /\ v.m = w.m /\ v.pc = "drain" /\ w.m.t # "ack"
  <2>1. v \in Call
    BY <1>2, WriteCallType
  <2>2. ~(Len(w.m.d) > 1)
    <3>1. Len(w.m.d) \in Nat
      BY <1>2, LenProperties DEF Frame
    <3> QED
      BY <1>1, <1>2, <3>1 DEF WriteIs
  <2> QED
    BY <1>1, <1>2, <2>1, <2>2 DEF WriteCall, WriteIs
<1>5. stack'[a] = Push(SetTop(q, c), v)
  BY <1>2 DEF Repeat
<1>6. repeated' = repeated \union {Pair(w.m)}
  BY DEF Repeat, Pair
<1> HIDE DEF c, v
<1> QED
  BY <1>1, <1>2, <1>3, <1>4, <1>5, <1>6 DEF WRepeat

LEMMA AwaitKind ==
    ASSUME OriginInv, NEW a \in Devices, Shape(a), WriterShape(stack[a], repeated), AwaitDone(a)
    PROVE  WNext(a) \/ WDone(a)
<1> DEFINE q == stack[a]
           w == Top(q)
           g == q[1]
<1>1. TopIs(a, WritePC) /\ w.pc = "await" /\ ReturnWrite(a, Pop(q), w.ok) /\ UNCHANGED <<rx, repeated>>
      /\ (w.ok \/ w.tries >= MaxRepeat)
  BY DEF AwaitDone, TopIs, WritePC
<1>2. /\ q \in Seq(Call) /\ q # << >> /\ w \in WriteRecord /\ w.ok \in BOOLEAN /\ w.tries \in Nat
      /\ WriteIs(a, w, repeated)
  BY <1>1, TopWrite
<1>3. w.ok \/ Pair(w.m) \in repeated
  <2>1. MaxRepeat \in Nat /\ MaxRepeat > 0
    BY BoundAssumption
  <2>2. w.tries >= MaxRepeat => w.tries > 0
    BY <1>2, <2>1
  <2> QED
    BY <1>1, <1>2, <2>2 DEF WriteIs
<1>4. CASE stack'[a] = Pop(q) /\ ~(Len(q) = 2 /\ g.pc = "group")
  BY <1>1, <1>2, <1>4 DEF WDone
<1>5. CASE /\ Len(q) = 2 /\ g.pc = "group"
           /\ stack'[a] = SetTop(Pop(q), [g EXCEPT !.k = @ + 1, !.ok = @ /\ w.ok])
  <2> DEFINE c == [g EXCEPT !.k = @ + 1, !.ok = @ /\ w.ok]
  <2>1. q[2] = w /\ 1 \in 1..Len(q)
    BY <1>5 DEF Top
  <2>2. g \in WriteRecord
    <3>1. g \in Call
      BY <1>2, <2>1, ElementOfSeq
    <3> QED
      BY <1>5, <3>1, CallKinds DEF WritePC
  <2>3. c \in Call /\ c.pc = "group" /\ c.m = g.m /\ c.ack = g.ack /\ c.k = g.k + 1 /\ c.ok = (g.ok /\ w.ok)
    <3>1. PICK x \in BOOLEAN : x = (g.ok /\ w.ok)
      OBVIOUS
    <3>2. c = [g EXCEPT !.k = @ + 1, !.ok = x]
      BY <3>1
    <3>3. c \in Call /\ c.pc = "group" /\ c.m = g.m /\ c.ack = g.ack /\ c.k = g.k + 1 /\ c.ok = x
      <4> HIDE DEF c, g
      <4>1. c \in WriteRecord
        <5>1. PICK n \in Nat : n = g.k + 1
          BY <2>2 DEF WriteRecord
        <5>2. [g EXCEPT !.k = n, !.ok = x] \in WriteRecord
          BY <2>2, <3>1 DEF WriteRecord
        <5> QED
          BY <3>2, <5>1, <5>2
      <4>2. c.pc = "group" /\ c.m = g.m /\ c.ack = g.ack /\ c.k = g.k + 1
        BY <1>5, <2>2, <3>2 DEF WriteRecord, g
      <4>3. c.ok = x
        BY <2>2, <3>2 DEF WriteRecord
      <4> QED
        BY <4>1, <4>2, <4>3 DEF Call
    <3> QED
      BY <3>1, <3>3
  <2>4. stack'[a] = SetTop(Pop(q), c)
    BY <1>5
  <2> HIDE DEF c
  <2> QED
    BY <1>1, <1>3, <1>5, <2>1, <2>3, <2>4 DEF WNext
<1> QED
  BY <1>1, <1>2, <1>4, <1>5, ReturnKinds

LEMMA WriteKinds ==
    ASSUME OriginInv, NoSplitCast, NEW a \in Devices, Shape(a), WriterShape(stack[a], repeated),
           Write(a) \/ WriteStep(a)
    PROVE  WriteKind(a) /\ WriteRest(a)
BY WriteRests, StartKind, FragmentKind, GroupKind, SendKind, CollectedKind, RepeatKind, AwaitKind
   DEF WriteStep, WriteKind

\* What a step of a write does to the stack.
Pushed(q, r) ==
    /\ q # << >> => Top(q).pc = "group"
    /\ \E c \in Call : c.pc \in {"group", "drain"} /\ c.m.t \notin {"ack", "resend"} /\ r = Push(q, c)
Stepped(q, r) ==
    /\ q # << >> /\ Top(q).pc \in WritePC
    /\ \E c \in Call : c.pc \in WritePC /\ c.m = Top(q).m /\ r = SetTop(q, c)
Doubled(q, r) ==
    /\ q # << >> /\ Top(q).pc = "await"
    /\ \E c, w \in Call : /\ c.pc = "await" /\ c.m = Top(q).m /\ w.pc = "drain" /\ w.m = c.m /\ w.m.t # "ack"
                          /\ r = Push(SetTop(q, c), w)
Popped(q, r) == q # << >> /\ Top(q).pc \in WritePC /\ r = Pop(q)
Counted(q, r) ==
    /\ q # << >> /\ Top(q).pc \in WritePC
    /\ Pop(q) # << >> /\ Top(Pop(q)).pc = "group"
    /\ \E c \in Call : c.pc = "group" /\ c.m = Top(Pop(q)).m /\ r = SetTop(Pop(q), c)

LEMMA FrameOf ==
    ASSUME NEW c \in Call
    PROVE  c.m \in Frame
BY DEF Call, WriteRecord, ReadRecord

LEMMA WriteStacks ==
    ASSUME OriginInv, NEW a \in Devices, Shape(a), WriterShape(stack[a], repeated), WriteKind(a)
    PROVE  LET q == stack[a]
               r == stack'[a]
           IN /\ q \in Seq(Call)
              /\ Pushed(q, r) \/ Stepped(q, r) \/ Doubled(q, r) \/ Popped(q, r) \/ Counted(q, r)
<1> DEFINE q == stack[a]
           r == stack'[a]
<1>1. q \in Seq(Call) /\ Len(q) \in Nat
  BY LenProperties DEF OriginInv, TypeOK
<1>2. Len(q) = 1 => q # << >> /\ Top(q) = q[1] /\ Pop(q) = << >>
  <2>1. q # << >> <=> Len(q) # 0
    BY <1>1, EmptySeq
  <2> QED
    BY <1>1, <2>1, BottomTop
<1>3. CASE WStart(a)
  BY <1>1, <1>3 DEF WStart, Pushed
<1>4. CASE WFragment(a)
  <2>1. \A m, k : Fragment(m, k).t \notin {"ack", "resend"}
    BY DEF Fragment
  <2> QED
    BY <1>1, <1>2, <1>4, <2>1 DEF WFragment, Pushed
<1>5. CASE WGroup(a)
  BY <1>1, <1>2, <1>5 DEF WGroup, Popped, WritePC
<1>6. CASE WSend(a) \/ WCollected(a)
  BY <1>1, <1>6 DEF WSend, WCollected, Stepped, Onward, WritePC
<1>7. CASE WSaid(a) \/ WDone(a)
  BY <1>1, <1>7 DEF WSaid, WDone, Popped, WritePC
<1>8. CASE WRepeat(a)
  BY <1>1, <1>8 DEF WRepeat, Doubled, Onward
<1>9. CASE WNext(a)
  <2>1. q # << >> /\ Top(q) = q[2]
    <3>1. q # << >>
      BY <1>1, <1>9, EmptySeq DEF WNext
    <3> QED
      BY <1>9, <3>1 DEF WNext, Top
  <2>2. Pop(q) # << >>
    BY <1>1, <1>9, <2>1, BottomTop DEF WNext
  <2>3. Top(Pop(q)) = q[1]
    <3>1. Len(q) - 1 = 1
      BY <1>9 DEF WNext
    <3> QED
      BY <1>1, <2>1, <2>2, <3>1, BelowTop
  <2> QED
    BY <1>1, <1>9, <2>1, <2>2, <2>3 DEF WNext, Counted, WritePC
<1> QED
  BY <1>1, <1>3, <1>4, <1>5, <1>6, <1>7, <1>8, <1>9 DEF WriteKind

\* The shape of a stack after a step of a write.
LEMMA WriteStackShape ==
    ASSUME NEW d, NEW frags, NEW q \in Seq(Call), NEW r, StackShape(d, q, frags),
           Pushed(q, r) \/ Stepped(q, r) \/ Doubled(q, r) \/ Popped(q, r) \/ Counted(q, r)
    PROVE  r \in Seq(Call) /\ StackShape(d, r, frags)
<1>1. q # << >> => CallShape(d, q, Len(q), frags) /\ Top(q) = q[Len(q)]
  BY BelowTop DEF StackShape
<1>2. ASSUME NEW c \in Call, q # << >>, Top(q).pc \in WritePC, c.pc \in WritePC, c.m = Top(q).m
      PROVE  SetTop(q, c) \in Seq(Call) /\ StackShape(d, SetTop(q, c), frags) /\ Top(SetTop(q, c)) = c
  <2>1. SetTop(q, c) \in Seq(Call) /\ Like(q, SetTop(q, c))
    BY <1>2, LikeSetTop DEF WritePC, ReadPC
  <2>2. StackShape(d, SetTop(q, c), frags)
    BY <2>1, ShapeLike
  <2> QED
    BY <1>2, <2>1, <2>2, SetTopProperties
<1>3. CASE Pushed(q, r)
  <2>1. PICK c \in Call : c.pc \in {"group", "drain"} /\ c.m.t \notin {"ack", "resend"} /\ r = Push(q, c)
    BY <1>3 DEF Pushed
  <2> QED
    BY <1>3, <2>1, ShapePush DEF Pushed
<1>4. CASE Stepped(q, r)
  BY <1>2, <1>4 DEF Stepped
<1>5. CASE Doubled(q, r)
  <2>1. PICK c \in Call, w \in Call : /\ c.pc = "await" /\ c.m = Top(q).m /\ w.pc = "drain" /\ w.m = c.m
                                      /\ w.m.t # "ack" /\ r = Push(SetTop(q, c), w)
    BY <1>5 DEF Doubled
  <2>2. PICK u \in Seq(Call) : u = SetTop(q, c) /\ StackShape(d, u, frags) /\ Top(u) = c
    BY <1>2, <1>5, <2>1 DEF Doubled, WritePC
  <2>3. w.m.t # "resend"
    BY <1>1, <1>5, <2>1 DEF Doubled, CallShape
  <2> QED
    BY <2>1, <2>2, <2>3, ShapePush
<1>6. CASE Popped(q, r)
  BY <1>6, ShapePop DEF Popped
<1>7. CASE Counted(q, r)
  <2>1. PICK u \in Seq(Call) : u = Pop(q) /\ StackShape(d, u, frags)
    BY <1>7, ShapePop DEF Counted
  <2>2. PICK c \in Call : c.pc = "group" /\ c.m = Top(u).m /\ r = SetTop(u, c)
    BY <1>7, <2>1 DEF Counted
  <2>3. r \in Seq(Call) /\ Like(u, r)
    BY <1>7, <2>1, <2>2, LikeSetTop DEF Counted, ReadPC
  <2> QED
    BY <2>1, <2>3, ShapeLike
<1> QED
  BY <1>3, <1>4, <1>5, <1>6, <1>7

\* A write changes no serial buffer but by what it transmits.
LEMMA WriteBuses ==
    ASSUME NEW a \in Devices, WriteKind(a)
    PROVE  \/ UNCHANGED rx
           \/ /\ stack[a] # << >> /\ Top(stack[a]).pc = "drain" /\ Transmit(a, Top(stack[a]).m)
              /\ WSend(a) \/ WSaid(a)
BY DEF WriteKind, WStart, WFragment, WGroup, WSend, WSaid, WCollected, WRepeat, WNext, WDone

LEMMA WriteKeepsShape ==
    ASSUME OriginInv, NEW a \in Devices, Shape(a), WriterShape(stack[a], repeated), WriteKind(a), WriteRest(a)
    PROVE  Shape(a)'
<1>1. StackShape(a, stack'[a], multi[a])
  <2>1. StackShape(a, stack[a], multi[a])
    BY DEF Shape
  <2> QED
    BY <2>1, WriteStacks, WriteStackShape
<1>2. rx'[a] = rx[a]
  <2>1. CASE stack[a] # << >> /\ Transmit(a, Top(stack[a]).m)
    <3>1. Top(stack[a]).m \in Frame /\ TypeOK
      BY <2>1, TopShape, FrameOf
    <3> QED
      BY <2>1, <3>1, Carried
  <2> QED
    BY <2>1, WriteBuses
<1> QED
  BY <1>1, <1>2 DEF WriteRest, Shape, BufferShape

\* The other devices get no resend requests.
LEMMA OthersShape ==
    ASSUME OriginInv, NEW a \in Devices, Shape(a), WriteKind(a), WriteRest(a), NEW e \in Others(a), Shape(e)
    PROVE  Shape(e)'
<1>1. e \in Devices /\ TypeOK /\ rx[e] \in Seq(Frame)
  BY DEF OriginInv, TypeOK, Others
<1>2. StackShape(e, stack'[e], multi'[e]) /\ CacheShape(e, cached'[e]) /\ \A m \in tx'[e] : m.t # "resend"
  BY DEF WriteRest, Shape, BufferShape
<1>3. \A p \in 1..Len(rx[e]) : rx[e][p].t # "resend"
  BY DEF Shape, BufferShape
<1>4. CASE rx'[e] = rx[e]
  BY <1>2, <1>3, <1>4 DEF Shape, BufferShape
<1>5. ASSUME stack[a] # << >>, Transmit(a, Top(stack[a]).m)
      PROVE  \A p \in 1..Len(rx'[e]) : rx'[e][p].t # "resend"
  <2>1. Top(stack[a]).m \in Frame /\ Top(stack[a]).m.t # "resend"
    BY <1>5, TopShape, FrameOf DEF CallShape
  <2>2. PICK f \in Frame : f = Top(stack[a]).m
    BY <2>1
  <2>3. Damaged(f) \in Frame /\ Damaged(f).t = "bad"
    BY DamagedType DEF Damaged, Frame
  <2>4. ASSUME NEW g \in Frame, g.t # "resend", rx'[e] = Append(rx[e], g), NEW p \in 1..Len(rx'[e])
        PROVE  rx'[e][p].t # "resend"
    <3>1. /\ Len(rx'[e]) = Len(rx[e]) + 1 /\ \A i \in 1..Len(rx[e]) : rx'[e][i] = rx[e][i]
          /\ rx'[e][Len(rx[e]) + 1] = g /\ Len(rx[e]) \in Nat
      BY <1>1, <2>4, AppendProperties, LenProperties
    <3>2. p \in 1..Len(rx[e]) \/ p = Len(rx[e]) + 1
      BY <2>4, <3>1
    <3> QED
      BY <1>3, <2>4, <3>1, <3>2
  <2>5. rx'[e] = rx[e] \/ rx'[e] = Append(rx[e], f) \/ rx'[e] = Append(rx[e], Damaged(f))
    BY <1>1, <1>5, <2>2, Carried
  <2> QED
    BY <1>3, <2>1, <2>2, <2>3, <2>4, <2>5
<1> QED
  BY <1>2, <1>4, <1>5, WriteBuses DEF Shape, BufferShape

-----------------------------------------------------------------------------
(* What a step of a read does to the stack.                                *)

\* The stack b to which the read returns becomes r.
ReadForm(d, b, r) ==
    \/ r = b
    \/ /\ b # << >>
       /\ \E c \in Call : /\ r = SetTop(b, c) /\ c.pc = Top(b).pc /\ c.m = Top(b).m
                          /\ \/ c.pc = "loop"
                             \/ /\ c.pc \in {"collect", "await"} /\ c.ack = Top(b).ack /\ c.ok
                                /\ rx[d] # << >> /\ IsAckFor(Top(b), Head(rx[d]))
    \/ \E c \in Call : c.pc = "loop" /\ r = Push(b, c)
    \/ /\ BaseOf(d, b) /\ Took(d, b)
       /\ \E c, w \in Call : c.pc = "ack" /\ w.pc = "drain" /\ w.m.t = "ack" /\ r = Push(Push(b, c), w)

LEMMA ResumeForm ==
    ASSUME NEW d, NEW b \in Seq(Call), NEW x \in Frame, x.t = "ack" => rx[d] # << >> /\ x = Head(rx[d])
    PROVE  ReadForm(d, b, ResumeStack(b, x))
<1>1. CASE ResumeStack(b, x) = b
  BY <1>1 DEF ReadForm
<1>2. ASSUME b # << >>, NEW c \in Call, ResumeStack(b, x) = SetTop(b, c), c.pc = Top(b).pc, c.m = Top(b).m,
             \/ /\ c.pc \in {"collect", "await"} /\ IsAckFor(Top(b), x)
                /\ c.ack = Top(b).ack /\ c.tries = Top(b).tries /\ c.ok
             \/ c.pc = "loop"
      PROVE  ReadForm(d, b, ResumeStack(b, x))
  BY <1>2 DEF ReadForm, IsAckFor
<1> QED
  BY <1>1, <1>2, ResumeForms

LEMMA KindForms ==
    ASSUME OriginInv, NEW d \in Devices, Shape(d), ReadKind(d)
    PROVE  \E b \in Seq(Call) : Resumable(stack[d], b) /\ ReadForm(d, b, stack'[d])
<1>1. /\ TypeOK /\ stack \in [Devices -> Seq(Call)] /\ stack[d] \in Seq(Call) /\ cached[d] \in Seq(Frame)
      /\ CacheShape(d, cached[d])
  BY DEF OriginInv, TypeOK, Shape, BufferShape
<1>2. ASSUME NEW b, NEW c, NEW x, ReturnMessage(d, b, c, x)
      PROVE  stack'[d] = ResumeStack(b, x)
  BY <1>1, <1>2 DEF ReturnMessage
<1>3. CASE Recached(d)
  <2>1. /\ Head(cached[d]) \in Frame /\ Head(cached[d]) = cached[d][1] /\ 1 \in 1..Len(cached[d])
    BY <1>1, <1>3, HeadTailProperties, EmptySeq DEF Recached
  <2>2. Head(cached[d]).t # "ack"
    BY <1>1, <2>1 DEF CacheShape
  <2>3. stack'[d] = ResumeStack(stack[d], Head(cached[d])) /\ Resumable(stack[d], stack[d])
    BY <1>2, <1>3 DEF Recached, Resumable, Reader, Reading, InLoop
  <2> QED
    BY <1>1, <2>1, <2>2, <2>3, ResumeForm
<1>4. CASE Resumed(d)
  <2> DEFINE c == Top(stack[d])
             b == Pop(stack[d])
  <2>1. /\ c \in Call /\ c.m \in Frame /\ c.m.t \in {"msg", "frag"} /\ b \in Seq(Call)
        /\ c.m.t = "frag" => c.m \in Fragments
    BY <1>4, AckTop DEF Resumed
  <2>2. Resumable(stack[d], b) /\ c.pc = "ack"
    BY <1>4 DEF Resumed, Resumable
  <2>3. CASE Gave(d)
    <3>1. stack'[d] = ResumeStack(b, c.m)
      BY <1>2, <2>3 DEF Gave
    <3> QED
      BY <2>1, <2>2, <3>1, ResumeForm
  <2>4. CASE Passed(d) \/ Stacked(d)
    <3>1. stack'[d] = b
      BY <1>1, <2>4 DEF Passed, Stacked
    <3> QED
      BY <2>1, <2>2, <3>1 DEF ReadForm
  <2>5. CASE c.m.t = "frag" /\ Entered(d)
    <3>1. stack'[d] = Push(b, LoopStart(c))
      BY <1>1, <2>5 DEF Entered
    <3>2. LoopStart(c) \in Call /\ LoopStart(c).pc = "loop"
      BY <2>1, <2>2, <2>5, LoopStarts
    <3> QED
      BY <2>1, <2>2, <3>1, <3>2 DEF ReadForm
  <2>6. CASE c.m.t = "frag" /\ Assembled(d)
    <3>1. stack'[d] = ResumeStack(b, Joint(d))
      BY <1>2, <2>6 DEF Assembled
    <3>2. Joint(d) \in Frame /\ Joint(d).t = "msg"
      BY <1>4, <2>2, <2>6, JointType DEF Resumed
    <3> QED
      BY <2>1, <2>2, <3>1, <3>2, ResumeForm
  <2> QED
    BY <1>4, <2>3, <2>4, <2>5, <2>6 DEF Resumed
<1>5. CASE Finished(d)
  <2> DEFINE c == Top(stack[d])
             b == Pop(stack[d])
  <2>1. LoopMessage(c) \in Frame /\ b \in Seq(Call)
    BY <1>5, LoopTop DEF Finished
  <2>2. LoopMessage(c).t = "msg"
    BY DEF LoopMessage, WholeMessage
  <2>3. stack'[d] = ResumeStack(b, LoopMessage(c)) /\ Resumable(stack[d], b)
    BY <1>2, <1>5 DEF Finished, Resumable, InLoop
  <2> QED
    BY <2>1, <2>2, <2>3, ResumeForm
<1>6. ASSUME NEW b, BaseOf(d, b), Dropped(d, b) \/ Took(d, b) \/ Overheard(d, b)
      PROVE  b \in Seq(Call) /\ Resumable(stack[d], b) /\ ReadForm(d, b, stack'[d])
  <2>1. b \in Seq(Call) /\ Resumable(stack[d], b)
    BY <1>6, BaseLike
  <2>2. CASE Dropped(d, b)
    BY <1>1, <2>1, <2>2 DEF Dropped, ReadForm
  <2>3. CASE Took(d, b)
    <3>1. PICK c \in Call : /\ c.pc = "ack" /\ c.m = Head(rx[d])
                            /\ stack' = [stack EXCEPT ![d] = Push(Push(b, c), WriteCall(Ack(d, c.m.s), FALSE))]
      BY <2>3 DEF Took
    <3>2. c.m \in Frame
      BY FrameOf
    <3>3. PICK w \in Call : w = WriteCall(Ack(d, c.m.s), FALSE)
      <4>1. Ack(d, c.m.s) \in Frame
        BY <3>2, ShortType DEF Frame, Addresses
      <4> QED
        BY <4>1, WriteCallType
    <3>4. w.pc = "drain" /\ w.m.t = "ack"
      BY <3>3 DEF WriteCall, Ack, Short
    <3>5. stack'[d] = Push(Push(b, c), w)
      BY <1>1, <3>1, <3>3
    <3> QED
      BY <1>6, <2>1, <2>3, <3>1, <3>4, <3>5 DEF ReadForm
  <2>4. CASE Overheard(d, b)
    <3>1. Head(rx[d]) \in Frame /\ rx[d] # << >>
      BY <2>4, HeadHeard DEF Overheard
    <3>2. stack'[d] = ResumeStack(b, Head(rx[d]))
      BY <1>2, <2>4 DEF Overheard
    <3> QED
      BY <2>1, <3>1, <3>2, ResumeForm
  <2> QED
    BY <1>6, <2>2, <2>3, <2>4
<1> QED
  BY <1>3, <1>4, <1>5, <1>6 DEF ReadKind

-----------------------------------------------------------------------------
(* The stack of a writer.                                                  *)

LEMMA WriterMono ==
    ASSUME NEW q, NEW rep, NEW more, rep \subseteq more, WriterShape(q, rep)
    PROVE  WriterShape(q, more)
BY DEF WriterShape

\* The message that is split, and the write of its fragment, stay where they are when the
\* stack below the top does.
LEMMA WriterPop ==
    ASSUME NEW q \in Seq(Call), q # << >>, NEW rep, WriterShape(q, rep)
    PROVE  Pop(q) \in Seq(Call) /\ WriterShape(Pop(q), rep)
<1> DEFINE r == Pop(q)
<1>1. r \in Seq(Call) /\ Len(r) = Len(q) - 1 /\ \A j \in 1..Len(q) - 1 : r[j] = q[j]
  BY PopProperties
<1>2. Len(q) \in Nat /\ (r # << >> => Len(r) \in Nat /\ Len(r) # 0)
  BY <1>1, LenProperties, EmptySeq
<1> HIDE DEF r
<1>3. ASSUME NEW p \in 1..Len(r)
      PROVE  /\ r[p].pc = "group" => p = 1
             /\ r[p].pc \in WritePC /\ r[p].m.t = "frag" => Pair(r[p].m) \in rep \/ (p = 2 /\ r[1].pc = "group")
  <2>1. p \in 1..Len(q) /\ r[p] = q[p] /\ r[1] = q[1]
    BY <1>1, <1>2
  <2> QED
    BY <2>1 DEF WriterShape
<1>4. ASSUME r # << >>, r[1].pc = "group"
      PROVE  /\ r[1].ack /\ r[1].k <= Len(r[1].m.d)
             /\ Pair(r[1].m) \notin rep => r[1].ok
             /\ Len(r) >= 2 => /\ r[1].k < Len(r[1].m.d)
                               /\ r[2].pc \in {"drain", "collect", "await"}
                               /\ r[2].m = Fragment(r[1].m, r[1].k) /\ r[2].ack
  <2>1. r[1] = q[1] /\ (Len(r) >= 2 => r[2] = q[2] /\ Len(q) >= 2)
    BY <1>1, <1>2, <1>4
  <2> QED
    BY <1>4, <2>1 DEF WriterShape
<1>5. WriterShape(r, rep)
  BY <1>3, <1>4 DEF WriterShape
<1> QED
  BY <1>1, <1>5 DEF r

LEMMA WriterPush ==
    ASSUME NEW q \in Seq(Call), NEW rep, WriterShape(q, rep), NEW c \in Call,
           c.pc = "group" => q = << >> /\ c.k = 0 /\ c.ok /\ c.ack,
           c.pc \in WritePC /\ c.m.t = "frag" => Pair(c.m) \in rep \/ (Len(q) = 1 /\ q[1].pc = "group"),
           Len(q) = 1 /\ q[1].pc = "group" =>
              q[1].k < Len(q[1].m.d) /\ c.pc \in {"drain", "collect", "await"} /\ c.m = Fragment(q[1].m, q[1].k) /\ c.ack
    PROVE  Push(q, c) \in Seq(Call) /\ WriterShape(Push(q, c), rep)
<1> DEFINE r == Push(q, c)
<1>1. r \in Seq(Call) /\ Len(r) = Len(q) + 1 /\ r[Len(q) + 1] = c /\ \A j \in 1..Len(q) : r[j] = q[j]
  BY PushProperties
<1>2. Len(q) \in Nat /\ (q = << >> <=> Len(q) = 0)
  BY LenProperties, EmptySeq
<1>3. c.m.d \in Seq(Unit) /\ Len(c.m.d) \in Nat
  BY FrameOf, LenProperties DEF Frame
<1> HIDE DEF r
<1>4. q # << >> => r[1] = q[1]
  BY <1>1, <1>2
<1>5. q = << >> => r[1] = c /\ Len(r) = 1
  BY <1>1, <1>2
<1>6. ASSUME NEW p \in 1..Len(r)
      PROVE  /\ r[p].pc = "group" => p = 1
             /\ r[p].pc \in WritePC /\ r[p].m.t = "frag" => Pair(r[p].m) \in rep \/ (p = 2 /\ r[1].pc = "group")
  <2>1. CASE p \in 1..Len(q)
    <3>1. r[p] = q[p] /\ q # << >>
      BY <1>1, <1>2, <2>1
    <3> QED
      BY <1>4, <2>1, <3>1 DEF WriterShape
  <2>2. CASE p = Len(q) + 1
    <3>1. r[p] = c
      BY <1>1, <2>2
    <3>2. c.pc = "group" => p = 1
      BY <1>2, <2>2
    <3>3. Len(q) = 1 => p = 2 /\ q # << >>
      BY <1>2, <2>2
    <3> QED
      BY <1>4, <3>1, <3>2, <3>3
  <2> QED
    BY <1>1, <1>2, <2>1, <2>2
<1>7. ASSUME r # << >>, r[1].pc = "group"
      PROVE  /\ r[1].ack /\ r[1].k <= Len(r[1].m.d)
             /\ Pair(r[1].m) \notin rep => r[1].ok
             /\ Len(r) >= 2 => /\ r[1].k < Len(r[1].m.d)
                               /\ r[2].pc \in {"drain", "collect", "await"}
                               /\ r[2].m = Fragment(r[1].m, r[1].k) /\ r[2].ack
  <2>1. CASE q = << >>
    <3>1. r[1] = c /\ Len(r) = 1 /\ c.k = 0 /\ c.ok /\ c.ack
      BY <1>5, <1>7, <2>1
    <3>2. c.k <= Len(c.m.d)
      BY <1>3, <3>1
    <3>3. ~(Len(r) >= 2)
      BY <3>1
    <3> QED
      BY <3>1, <3>2, <3>3
  <2>2. CASE Len(q) = 1
    <3>1. q # << >> /\ r[1] = q[1] /\ r[2] = c /\ Len(r) = 2
      BY <1>1, <1>2, <1>4, <2>2
    <3> QED
      BY <1>7, <2>2, <3>1 DEF WriterShape
  <2>3. CASE q # << >> /\ Len(q) # 1
    <3>1. Len(q) >= 2
      BY <1>2, <2>3
    <3>2. 2 \in 1..Len(q)
      BY <1>2, <3>1
    <3>3. r[1] = q[1] /\ r[2] = q[2]
      BY <1>1, <1>4, <2>3, <3>2
    <3> QED
      BY <1>7, <2>3, <3>1, <3>3 DEF WriterShape
  <2> QED
    BY <2>1, <2>2, <2>3
<1>8. WriterShape(r, rep)
  BY <1>6, <1>7 DEF WriterShape
<1> QED
  BY <1>1, <1>8 DEF r

\* The top moves on.
LEMMA WriterSetTop ==
    ASSUME NEW q \in Seq(Call), q # << >>, NEW rep, WriterShape(q, rep), NEW c \in Call,
           c.m = Top(q).m, c.pc # "group", Top(q).pc # "group",
           c.pc \in WritePC => Top(q).pc \in WritePC /\ c.ack = Top(q).ack,
           c.pc \in ReadPC => Top(q).pc \in ReadPC
    PROVE  SetTop(q, c) \in Seq(Call) /\ WriterShape(SetTop(q, c), rep)
<1>1. /\ Pop(q) \in Seq(Call) /\ Len(Pop(q)) = Len(q) - 1 /\ \A j \in 1..Len(q) - 1 : Pop(q)[j] = q[j]
      /\ Len(q) \in Nat /\ Len(q) \in 1..Len(q) /\ Top(q) = q[Len(q)]
  BY PopProperties, LenProperties, BelowTop
<1>2. WriterShape(Pop(q), rep) /\ SetTop(q, c) = Push(Pop(q), c)
  BY WriterPop, PushPop
<1>3. Len(Pop(q)) = 1 => Len(q) = 2 /\ Pop(q)[1] = q[1] /\ Top(q) = q[2] /\ Len(q) >= 2
  <2>1. SUFFICES ASSUME Len(Pop(q)) = 1
                 PROVE  Len(q) = 2 /\ Pop(q)[1] = q[1] /\ Top(q) = q[2] /\ Len(q) >= 2
    OBVIOUS
  <2>2. Len(q) = 2
    <3> DEFINE n == Len(q)
    <3>1. n \in Nat /\ n - 1 = 1
      BY <1>1, <2>1
    <3> HIDE DEF n
    <3>2. n = 2
      BY <3>1
    <3> QED
      BY <3>2 DEF n
  <2>3. 1 \in 1..Len(q) - 1
    BY <2>2
  <2> QED
    BY <1>1, <2>2, <2>3
<1>4. Len(Pop(q)) = 1 /\ Pop(q)[1].pc = "group" =>
         /\ Pop(q)[1].k < Len(Pop(q)[1].m.d) /\ c.pc \in {"drain", "collect", "await"}
         /\ c.m = Fragment(Pop(q)[1].m, Pop(q)[1].k) /\ c.ack
  <2>1. SUFFICES ASSUME Len(Pop(q)) = 1, Pop(q)[1].pc = "group"
                 PROVE  /\ Pop(q)[1].k < Len(Pop(q)[1].m.d) /\ c.pc \in {"drain", "collect", "await"}
                        /\ c.m = Fragment(Pop(q)[1].m, Pop(q)[1].k) /\ c.ack
    OBVIOUS
  <2>2. /\ q[1].k < Len(q[1].m.d) /\ Top(q).pc \in {"drain", "collect", "await"}
        /\ Top(q).m = Fragment(q[1].m, q[1].k) /\ Top(q).ack
    BY <1>3, <2>1 DEF WriterShape
  <2>3. c.pc \in WritePC
    BY <2>2, CallKinds DEF ReadPC
  <2>4. c.pc \in {"drain", "collect", "await"}
    BY <2>3 DEF WritePC
  <2> QED
    BY <1>3, <2>1, <2>2, <2>3, <2>4
<1>5. c.pc \in WritePC /\ c.m.t = "frag" => Pair(c.m) \in rep \/ (Len(Pop(q)) = 1 /\ Pop(q)[1].pc = "group")
  <2>1. SUFFICES ASSUME c.pc \in WritePC, c.m.t = "frag"
                 PROVE  Pair(c.m) \in rep \/ (Len(Pop(q)) = 1 /\ Pop(q)[1].pc = "group")
    OBVIOUS
  <2>2. Pair(q[Len(q)].m) \in rep \/ (Len(q) = 2 /\ q[1].pc = "group")
    BY <1>1, <2>1 DEF WriterShape
  <2>3. Len(q) = 2 => Len(Pop(q)) = 1 /\ Pop(q)[1] = q[1]
    BY <1>1
  <2> QED
    BY <1>1, <2>2, <2>3
<1>6. Push(Pop(q), c) \in Seq(Call) /\ WriterShape(Push(Pop(q), c), rep)
  BY <1>1, <1>2, <1>4, <1>5, WriterPush
<1> QED
  BY <1>2, <1>6

\* A read makes no writes but acknowledgements.
LEMMA ReadKeepsWriter ==
    ASSUME OriginInv, NEW d \in Devices, Shape(d), ReadKind(d), UNCHANGED repeated,
           WriterShape(stack[d], repeated)
    PROVE  WriterShape(stack'[d], repeated')
<1> DEFINE q == stack[d]
<1>1. q \in Seq(Call)
  BY DEF OriginInv, TypeOK
<1>2. PICK b \in Seq(Call) : Resumable(q, b) /\ ReadForm(d, b, stack'[d])
  BY KindForms
<1>3. WriterShape(b, repeated) /\ (b # << >> => Top(b).pc # "group")
  <2>1. CASE b = q /\ Reader(q)
    BY <2>1 DEF Reader, Reading
  <2>2. CASE q # << >> /\ Top(q).pc = "drain" /\ b = SetTop(q, [Top(q) EXCEPT !.k = 1])
    <3> DEFINE c == [Top(q) EXCEPT !.k = 1]
    <3>1. Top(q) \in Call
      BY <1>1, <2>2, BelowTop
    <3>2. c \in Call /\ \A f \in {"pc", "m", "ack", "tries", "ok"} : c[f] = Top(q)[f]
      BY <2>2, <3>1, DrainNotes
    <3>3. c.pc = "drain" /\ c.m = Top(q).m /\ c.ack = Top(q).ack
      <4>1. "pc" \in {"pc", "m", "ack", "tries", "ok"} /\ "m" \in {"pc", "m", "ack", "tries", "ok"}
            /\ "ack" \in {"pc", "m", "ack", "tries", "ok"}
        OBVIOUS
      <4> QED
        BY <2>2, <3>2, <4>1
    <3> HIDE DEF c
    <3>4. WriterShape(SetTop(q, c), repeated)
      BY <1>1, <2>2, <3>2, <3>3, WriterSetTop DEF WritePC, ReadPC
    <3>5. Top(SetTop(q, c)) = c
      BY <1>1, <2>2, <3>2, SetTopProperties
    <3> QED
      BY <2>2, <3>3, <3>4, <3>5 DEF c
  <2>3. CASE q # << >> /\ Top(q).pc \in {"enter", "ack", "loop"} /\ b = Pop(q)
    <3>1. WriterShape(b, repeated)
      BY <1>1, <2>3, WriterPop
    <3>2. Reader(b)
      <4>1. Sound(d, q, repeated, outcome[d])
        BY OriginParts DEF OriginInv
      <4> QED
        BY <1>1, <1>2, <4>1, ResumableSound
    <3> QED
      BY <3>1, <3>2 DEF Reader, Reading
  <2> QED
    BY <1>2, <2>1, <2>2, <2>3 DEF Resumable
<1>4. Len(b) = 1 => b # << >> /\ Top(b) = b[1]
  BY <1>2, EmptySeq, BottomTop
<1>5. ASSUME NEW c \in Call, c.pc \in ReadPC
      PROVE  Push(b, c) \in Seq(Call) /\ WriterShape(Push(b, c), repeated)
  <2>1. c.pc \notin WritePC /\ c.pc # "group"
    BY <1>5 DEF WritePC, ReadPC
  <2>2. ~(Len(b) = 1 /\ b[1].pc = "group")
    BY <1>3, <1>4
  <2> QED
    BY <1>3, <2>1, <2>2, WriterPush
<1>6. ASSUME b # << >>, NEW c \in Call, c.pc = Top(b).pc, c.m = Top(b).m,
             c.pc = "loop" \/ (c.pc \in {"collect", "await"} /\ c.ack = Top(b).ack)
      PROVE  WriterShape(SetTop(b, c), repeated)
  <2>1. /\ c.pc # "group" /\ (c.pc \in WritePC => Top(b).pc \in WritePC /\ c.ack = Top(b).ack)
        /\ c.pc \in ReadPC => Top(b).pc \in ReadPC
    BY <1>6 DEF WritePC, ReadPC
  <2> QED
    BY <1>3, <1>6, <2>1, WriterSetTop
<1>7. ASSUME NEW c \in Call, NEW w \in Call, c.pc = "ack", w.pc = "drain", w.m.t = "ack"
      PROVE  WriterShape(Push(Push(b, c), w), repeated)
  <2>1. PICK u \in Seq(Call) : u = Push(b, c)
    BY <1>5, <1>7 DEF ReadPC
  <2>2. WriterShape(u, repeated)
    BY <1>5, <1>7, <2>1 DEF ReadPC
  <2>3. ~(Len(u) = 1 /\ u[1].pc = "group")
    <3>1. Len(Push(b, c)) = Len(b) + 1 /\ Push(b, c)[Len(b) + 1] = c
      BY <1>7, PushProperties
    <3>2. Len(u) = Len(b) + 1 /\ u[Len(b) + 1] = c
      BY <2>1, <3>1
    <3>3. Len(u) = 1 => u[1] = c
      BY <3>2
    <3> QED
      BY <1>7, <3>3
  <2> QED
    BY <1>7, <2>1, <2>2, <2>3, WriterPush
<1> QED
  BY <1>2, <1>3, <1>5, <1>6, <1>7 DEF ReadForm, ReadPC

LEMMA WriteKeepsWriter ==
    ASSUME OriginInv, NEW a \in Devices, Shape(a), WriterShape(stack[a], repeated), WriteKind(a)
    PROVE  WriterShape(stack'[a], repeated')
<1> DEFINE q == stack[a]
<1>1. q \in Seq(Call) /\ Sound(a, q, repeated, outcome[a])
  BY OriginParts DEF OriginInv, TypeOK
<1>2. Len(<< >>) = 0
  OBVIOUS
<1> HIDE DEF q
<1>3. CASE WStart(a)
  <2>1. q = << >> /\ UNCHANGED repeated
    BY <1>3 DEF WStart, q
  <2>2. PICK c \in Call : /\ c.m.t = "msg" /\ (c.pc = "group" => c.k = 0 /\ c.ok /\ c.ack)
                          /\ stack'[a] = Push(q, c)
    BY <1>3 DEF WStart, q
  <2>3. WriterShape(q, repeated) /\ ~(Len(q) = 1) /\ c.m.t # "frag"
    BY <1>2, <2>1, <2>2 DEF q
  <2>4. WriterShape(Push(q, c), repeated)
    BY <1>1, <2>1, <2>2, <2>3, WriterPush
  <2> QED
    BY <2>1, <2>2, <2>4
<1>4. CASE WFragment(a)
  <2>1. Len(q) = 1 /\ q[1].pc = "group" /\ q[1].k < Len(q[1].m.d) /\ UNCHANGED repeated
    BY <1>4 DEF WFragment, q
  <2>2. PICK c \in Call : /\ c.pc = "drain" /\ c.m = Fragment(q[1].m, q[1].k) /\ c.ack
                          /\ stack'[a] = Push(q, c)
    BY <1>4 DEF WFragment, q
  <2>3. WriterShape(q, repeated)
    BY DEF q
  <2> QED
    BY <1>1, <2>1, <2>2, <2>3, WriterPush
<1>5. CASE WGroup(a)
  <2>1. stack'[a] = << >>
    BY <1>5 DEF WGroup
  <2> QED
    BY <1>2, <2>1 DEF WriterShape
<1>6. ASSUME q # << >>, Top(q).pc \in {"drain", "collect"}, NEW c \in Call, c.pc \in {"collect", "await"},
             Onward(Top(q), c), stack'[a] = SetTop(q, c), UNCHANGED repeated
      PROVE  WriterShape(stack'[a], repeated')
  <2>1. WriterShape(q, repeated)
    BY DEF q
  <2> QED
    BY <1>1, <1>6, <2>1, WriterSetTop DEF Onward, WritePC, ReadPC
<1>7. CASE WSend(a)
  BY <1>6, <1>7 DEF WSend, q
<1>8. CASE WCollected(a)
  BY <1>6, <1>8 DEF WCollected, q
<1>9. CASE WSaid(a) \/ WDone(a)
  <2>1. q # << >> /\ stack'[a] = Pop(q) /\ UNCHANGED repeated
    BY <1>9 DEF WSaid, WDone, q
  <2>2. WriterShape(q, repeated)
    BY DEF q
  <2> QED
    BY <1>1, <2>1, <2>2, WriterPop
<1>10. CASE WRepeat(a)
  <2>1. q # << >> /\ Top(q).pc = "await" /\ repeated' = repeated \union {Pair(Top(q).m)}
    BY <1>10 DEF WRepeat, q
  <2>2. PICK c \in Call, w \in Call : /\ c.pc = "await" /\ Onward(Top(q), c) /\ w.pc = "drain" /\ w.m = c.m
                                      /\ stack'[a] = Push(SetTop(q, c), w)
    BY <1>10 DEF WRepeat, q
  <2>3. WriterShape(q, repeated')
    BY <2>1, WriterMono DEF q
  <2>4. PICK u \in Seq(Call) : u = SetTop(q, c) /\ WriterShape(u, repeated')
    BY <1>1, <2>1, <2>2, <2>3, WriterSetTop DEF Onward, WritePC, ReadPC
  <2>5. Len(u) = 1 => u[1] = c
    <3>1. Top(SetTop(q, c)) = c
      BY <1>1, <2>1, <2>2, SetTopProperties
    <3>2. u[Len(u)] = c
      BY <2>4, <3>1 DEF Top
    <3> QED
      BY <3>2
  <2>6. Pair(w.m) \in repeated'
    BY <2>1, <2>2 DEF Onward
  <2> QED
    BY <2>2, <2>4, <2>5, <2>6, WriterPush
<1>11. CASE WNext(a)
  <2>1. /\ Len(q) = 2 /\ q[1].pc = "group" /\ q[2].pc = "await" /\ (q[2].ok \/ Pair(q[2].m) \in repeated)
        /\ UNCHANGED repeated
    BY <1>11 DEF WNext, q
  <2>2. PICK c \in Call : /\ c.pc = "group" /\ c.m = q[1].m /\ c.ack = q[1].ack
                          /\ c.k = q[1].k + 1 /\ c.ok = (q[1].ok /\ q[2].ok)
                          /\ stack'[a] = SetTop(Pop(q), c)
    BY <1>11 DEF WNext, q
  <2>3. WriterShape(q, repeated) /\ q # << >>
    BY <1>2, <2>1 DEF q
  <2>4. /\ q[1].ack /\ q[1].k < Len(q[1].m.d) /\ q[2].m = Fragment(q[1].m, q[1].k)
        /\ Pair(q[1].m) \notin repeated => q[1].ok
    <3>1. Len(q) >= 2
      BY <2>1
    <3> QED
      BY <2>1, <2>3, <3>1 DEF WriterShape
  <2>5. Pair(q[2].m) = Pair(q[1].m)
    BY <2>4 DEF Fragment, Pair
  <2>6. PICK r \in Seq(Call) : r = SetTop(Pop(q), c) /\ Len(r) = 1 /\ r[1] = c
    <3>1. Pop(q) \in Seq(Call) /\ Len(Pop(q)) = 1
      <4>1. Len(Pop(q)) = Len(q) - 1 /\ Pop(q) \in Seq(Call)
        BY <1>1, <2>3, PopProperties
      <4>2. Len(q) - 1 = 1
        BY <2>1
      <4> QED
        BY <4>1, <4>2
    <3>2. Pop(q) # << >>
      BY <3>1, LenOne
    <3>3. SetTop(Pop(q), c) \in Seq(Call) /\ Len(SetTop(Pop(q), c)) = 1 /\ Top(SetTop(Pop(q), c)) = c
      BY <3>1, <3>2, SetTopProperties
    <3> QED
      BY <3>3 DEF Top
  <2>7. q[1] \in Call /\ q[1].m \in Frame /\ q[1].k \in Nat /\ q[1].m.t # "frag" /\ Len(q[1].m.d) \in Nat
    <3>1. 1 \in 1..Len(q)
      BY <2>1
    <3>2. q[1] \in Call /\ WriteIs(a, q[1], repeated)
      BY <1>1, <2>1, <3>1, ElementOfSeq DEF Sound, CallIs, WritePC
    <3>3. q[1] \in WriteRecord
      BY <2>1, <3>2, CallKinds DEF WritePC
    <3>4. q[1].m \in Frame /\ q[1].k \in Nat /\ q[1].m.t # "frag"
      BY <2>1, <3>2, <3>3 DEF WriteRecord, WriteIs
    <3>5. q[1].m.d \in Seq(Unit)
      BY <3>4 DEF Frame
    <3> QED
      BY <3>2, <3>4, <3>5, LenProperties
  <2>8. c.k <= Len(c.m.d)
    BY <2>2, <2>4, <2>7
  <2>9. Pair(c.m) \notin repeated => c.ok
    BY <2>1, <2>2, <2>4, <2>5
  <2>10. ~(Len(r) >= 2)
    BY <2>6
  <2>11. \A p \in 1..Len(r) : p = 1
    BY <2>6
  <2>12. \A p \in 1..Len(r) : /\ r[p].pc = "group" => p = 1
                              /\ r[p].pc \in WritePC /\ r[p].m.t = "frag" => Pair(r[p].m) \in repeated
    BY <2>2, <2>6, <2>7, <2>11
  <2>13. r[1].ack /\ r[1].k <= Len(r[1].m.d) /\ (Pair(r[1].m) \notin repeated => r[1].ok)
    BY <2>2, <2>4, <2>6, <2>8, <2>9
  <2>14. WriterShape(r, repeated)
    BY <2>10, <2>12, <2>13 DEF WriterShape
  <2> QED
    BY <2>1, <2>2, <2>6, <2>14
<1> QED
  BY <1>3, <1>4, <1>5, <1>7, <1>8, <1>9, <1>10, <1>11 DEF WriteKind

\* Two calls that are counted are the same call.
LEMMA NumberOne ==
    ASSUME NEW q, NEW S,
           \A i, j \in 1..Len(q) : q[i] \in S /\ q[j] \in S => i = j
    PROVE  Number(q, S) <= 1
<1>1. CASE Hits(q, S) = {}
  <2>1. Number(q, S) = 0
    BY <1>1, FS_EmptySet DEF Number
  <2> QED
    BY <2>1
<1>2. CASE Hits(q, S) # {}
  <2>1. PICK p \in Hits(q, S) : TRUE
    BY <1>2
  <2>2. Hits(q, S) = {p}
    BY <2>1 DEF Hits
  <2>3. Number(q, S) = 1
    BY <2>2, FS_Singleton DEF Number
  <2> QED
    BY <2>3
<1> QED
  BY <1>1, <1>2

\* While nothing is repeated to d, one call of s at most waits for d: the write of a message in
\* one frame, at the bottom of the stack, or that of a fragment, called by it.
LEMMA OneWaits ==
    ASSUME OriginInv, NEW s \in Devices, Shape(s), WriterShape(stack[s], repeated),
           NEW d \in Others(s), Unrepeated(s, d)
    PROVE  Waiting(s, d) <= 1
<1> DEFINE q == stack[s]
<1>1. q \in Seq(Call) /\ Sound(s, q, repeated, outcome[s]) /\ StackShape(s, q, multi[s]) /\ WriterShape(q, repeated)
  BY OriginParts DEF OriginInv, TypeOK, Shape
<1> HIDE DEF q
<1>2. ASSUME NEW p \in 1..Len(q), q[p] \in Waits(s, d)
      PROVE  p = IF q[1].pc = "group" THEN 2 ELSE 1
  <2>1. /\ q[p] \in Call /\ q[p].pc \in {"collect", "await"} /\ Pair(q[p].m) = <<s, d>>
        /\ WriteIs(s, q[p], repeated) /\ q[p].m.t # "resend"
    BY <1>1, <1>2, ElementOfSeq DEF Waits, Sound, CallIs, WritePC, StackShape, CallShape, Pair
  <2>2. q[p].m \in Frame
    BY <2>1, FrameOf
  <2>3. q[p].m.t \in {"msg", "frag"}
    BY <2>1, <2>2 DEF WriteIs, Own, Frame
  <2>4. CASE q[p].m.t = "frag"
    BY <1>1, <2>1, <2>4 DEF WriterShape, Unrepeated, WritePC
  <2>5. CASE q[p].m.t = "msg"
    <3>1. ASSUME p \in 2..Len(q)
          PROVE  FALSE
      BY <1>1, <2>1, <2>5, <3>1 DEF Sound, Made, Unrepeated, WritePC
    <3>2. p = 1
      BY <1>1, <3>1, LenProperties
    <3> QED
      BY <2>1, <3>2
  <2> QED
    BY <2>3, <2>4, <2>5
<1>3. Number(q, Waits(s, d)) <= 1
  <2>1. \A i, j \in 1..Len(q) : q[i] \in Waits(s, d) /\ q[j] \in Waits(s, d) => i = j
    BY <1>2
  <2> QED
    BY <2>1, NumberOne
<1> QED
  BY <1>3 DEF Waiting, q

-----------------------------------------------------------------------------
(* What stays in a stack.                                                  *)

\* The calls of S are the same ones, at the same places.
Same(q, r, S) ==
    /\ \A p \in 1..Len(q) : q[p] \in S => p \in 1..Len(r) /\ r[p] = q[p]
    /\ \A p \in 1..Len(r) : r[p] \in S => p \in 1..Len(q) /\ q[p] = r[p]

ReadCalls == {c \in Call : c.pc \in ReadPC}
\* The blocking loops over fragments from s.
LoopsOf(s) == {c \in Call : c.pc = "loop" /\ c.m.s = s}

LEMMA SameSelf ==
    ASSUME NEW q, NEW S
    PROVE  Same(q, q, S)
BY DEF Same

LEMMA SameTrans ==
    ASSUME NEW q, NEW r, NEW t, NEW S, Same(q, r, S), Same(r, t, S)
    PROVE  Same(q, t, S)
<1>1. ASSUME NEW p \in 1..Len(q), q[p] \in S
      PROVE  p \in 1..Len(t) /\ t[p] = q[p]
  <2>1. p \in 1..Len(r) /\ r[p] = q[p]
    BY <1>1 DEF Same
  <2> QED
    BY <1>1, <2>1 DEF Same
<1>2. ASSUME NEW p \in 1..Len(t), t[p] \in S
      PROVE  p \in 1..Len(q) /\ q[p] = t[p]
  <2>1. p \in 1..Len(r) /\ r[p] = t[p]
    BY <1>2 DEF Same
  <2> QED
    BY <1>2, <2>1 DEF Same
<1> QED
  BY <1>1, <1>2 DEF Same

LEMMA SameLess ==
    ASSUME NEW q, NEW r, NEW S, NEW T, S \subseteq T, Same(q, r, T)
    PROVE  Same(q, r, S)
BY DEF Same

LEMMA SamePush ==
    ASSUME NEW q \in Seq(Call), NEW c \in Call, NEW S, c \notin S
    PROVE  Same(q, Push(q, c), S)
<1> DEFINE r == Push(q, c)
<1>1. r \in Seq(Call) /\ Len(r) = Len(q) + 1 /\ r[Len(q) + 1] = c /\ \A j \in 1..Len(q) : r[j] = q[j]
  BY PushProperties
<1>2. Len(q) \in Nat
  BY LenProperties
<1> HIDE DEF r
<1>3. \A p \in 1..Len(q) : p \in 1..Len(r)
  BY <1>1, <1>2
<1>4. \A p \in 1..Len(r) : p \in 1..Len(q) \/ r[p] = c
  BY <1>1, <1>2
<1>5. Same(q, r, S)
  BY <1>1, <1>3, <1>4 DEF Same
<1> QED
  BY <1>5 DEF r

LEMMA SamePop ==
    ASSUME NEW q \in Seq(Call), q # << >>, NEW S, Top(q) \notin S
    PROVE  Same(q, Pop(q), S)
<1> DEFINE r == Pop(q)
<1>1. Len(r) = Len(q) - 1 /\ \A j \in 1..Len(q) - 1 : r[j] = q[j]
  BY PopProperties
<1>2. Len(q) \in Nat /\ Top(q) = q[Len(q)]
  BY LenProperties DEF Top
<1> HIDE DEF r
<1>3. \A p \in 1..Len(q) : p \in 1..Len(q) - 1 \/ q[p] = Top(q)
  BY <1>2
<1>4. \A p \in 1..Len(r) : p \in 1..Len(q) - 1 /\ p \in 1..Len(q)
  BY <1>1, <1>2
<1>5. Same(q, r, S)
  BY <1>1, <1>3, <1>4 DEF Same
<1> QED
  BY <1>5 DEF r

LEMMA SameSetTop ==
    ASSUME NEW q \in Seq(Call), q # << >>, NEW c \in Call, NEW S, Top(q) \notin S, c \notin S
    PROVE  Same(q, SetTop(q, c), S)
<1>1. Pop(q) \in Seq(Call) /\ SetTop(q, c) = Push(Pop(q), c)
  BY PopProperties, PushPop
<1>2. Same(q, Pop(q), S) /\ Same(Pop(q), Push(Pop(q), c), S)
  BY <1>1, SamePop, SamePush
<1> QED
  BY <1>1, <1>2, SameTrans

LEMMA SameLike ==
    ASSUME NEW q, NEW r, Like(q, r)
    PROVE  Same(q, r, ReadCalls)
BY DEF Like, Same, ReadCalls

LEMMA LoopReads ==
    ASSUME NEW s
    PROVE  LoopsOf(s) \subseteq ReadCalls
BY DEF LoopsOf, ReadCalls, ReadPC

\* A step of a write changes no read.
LEMMA WriteSame ==
    ASSUME NEW q \in Seq(Call), NEW r,
           Pushed(q, r) \/ Stepped(q, r) \/ Doubled(q, r) \/ Popped(q, r) \/ Counted(q, r)
    PROVE  Same(q, r, ReadCalls)
<1>1. \A c \in Call : c.pc \in WritePC \union {"group", "drain", "await"} => c \notin ReadCalls
  BY DEF WritePC, ReadPC, ReadCalls
<1>2. CASE Pushed(q, r)
  <2>1. PICK c \in Call : c.pc \in {"group", "drain"} /\ r = Push(q, c)
    BY <1>2 DEF Pushed
  <2> QED
    BY <1>1, <2>1, SamePush
<1>3. CASE Stepped(q, r)
  <2>1. PICK c \in Call : q # << >> /\ Top(q).pc \in WritePC /\ c.pc \in WritePC /\ r = SetTop(q, c)
    BY <1>3 DEF Stepped
  <2>2. Top(q) \in Call
    BY <2>1, TopProperties
  <2> QED
    BY <1>1, <2>1, <2>2, SameSetTop
<1>4. CASE Doubled(q, r)
  <2>1. PICK c \in Call, w \in Call : /\ q # << >> /\ Top(q).pc = "await" /\ c.pc = "await" /\ w.pc = "drain"
                                      /\ r = Push(SetTop(q, c), w)
    BY <1>4 DEF Doubled
  <2>2. Top(q) \in Call
    BY <2>1, TopProperties
  <2>3. Same(q, SetTop(q, c), ReadCalls) /\ SetTop(q, c) \in Seq(Call)
    BY <1>1, <2>1, <2>2, SameSetTop, SetTopProperties
  <2>4. Same(SetTop(q, c), r, ReadCalls)
    BY <1>1, <2>1, <2>3, SamePush
  <2> QED
    BY <2>3, <2>4, SameTrans
<1>5. CASE Popped(q, r)
  <2>1. q # << >> /\ Top(q).pc \in WritePC /\ r = Pop(q)
    BY <1>5 DEF Popped
  <2>2. Top(q) \in Call
    BY <2>1, TopProperties
  <2> QED
    BY <1>1, <2>1, <2>2, SamePop
<1>6. CASE Counted(q, r)
  <2>1. PICK c \in Call : /\ q # << >> /\ Top(q).pc \in WritePC
                          /\ Pop(q) # << >> /\ Top(Pop(q)).pc = "group"
                          /\ c.pc = "group" /\ r = SetTop(Pop(q), c)
    BY <1>6 DEF Counted
  <2>2. Top(q) \in Call /\ Pop(q) \in Seq(Call)
    BY <2>1, TopProperties, PopProperties
  <2>3. Top(Pop(q)) \in Call
    BY <2>1, <2>2, TopProperties
  <2>4. Same(q, Pop(q), ReadCalls) /\ Same(Pop(q), r, ReadCalls)
    BY <1>1, <2>1, <2>2, <2>3, SamePop, SameSetTop
  <2> QED
    BY <2>4, SameTrans
<1> QED
  BY <1>2, <1>3, <1>4, <1>5, <1>6

\* A read changes no read below the top but the loop that it returns to.
LEMMA DeepReads ==
    ASSUME OriginInv, NEW d \in Devices, Shape(d), ReadKind(d),
           NEW p \in 1..Len(stack[d]) - 1, p + 1 \in 1..Len(stack[d]) - 1, stack[d][p + 1].pc = "ack"
    PROVE  /\ p \in 1..Len(stack'[d]) /\ p + 1 \in 1..Len(stack'[d])
           /\ stack'[d][p] = stack[d][p] /\ stack'[d][p + 1] = stack[d][p + 1]
<1> DEFINE q == stack[d]
           r == stack'[d]
<1>1. q \in Seq(Call)
  BY DEF OriginInv, TypeOK
<1>2. PICK b \in Seq(Call) : Resumable(q, b) /\ ReadForm(d, b, r)
  BY KindForms
<1>3. p \in 1..Len(b) /\ p + 1 \in 1..Len(b) /\ b[p] = q[p] /\ b[p + 1] = q[p + 1] /\ Len(b) \in Nat
  BY <1>1, <1>2, ResumableBelow, LenProperties
<1> HIDE DEF q, r
<1>4. CASE r = b
  BY <1>3, <1>4 DEF q, r
<1>5. ASSUME NEW c \in Call, b # << >>, r = SetTop(b, c), c.pc = Top(b).pc, c.pc \in {"loop", "collect", "await"}
      PROVE  p \in 1..Len(r) /\ p + 1 \in 1..Len(r) /\ r[p] = q[p] /\ r[p + 1] = q[p + 1]
  <2>1. Len(r) = Len(b) /\ \A j \in 1..Len(b) - 1 : r[j] = b[j]
    BY <1>2, <1>5, TopCall
  <2>2. p + 1 # Len(b)
    BY <1>3, <1>5 DEF Top, q
  <2>3. p \in 1..Len(b) - 1 /\ p + 1 \in 1..Len(b) - 1
    BY <1>3, <2>2
  <2> QED
    BY <1>3, <2>1, <2>3
<1>6. ASSUME NEW u \in Seq(Call), p \in 1..Len(u), p + 1 \in 1..Len(u), u[p] = q[p], u[p + 1] = q[p + 1],
             NEW c \in Call
      PROVE  /\ p \in 1..Len(Push(u, c)) /\ p + 1 \in 1..Len(Push(u, c))
             /\ Push(u, c)[p] = q[p] /\ Push(u, c)[p + 1] = q[p + 1] /\ Push(u, c) \in Seq(Call)
  <2>1. Len(Push(u, c)) = Len(u) + 1 /\ Push(u, c) \in Seq(Call) /\ \A j \in 1..Len(u) : Push(u, c)[j] = u[j]
    BY <1>6, PushProperties
  <2>2. Len(u) \in Nat
    BY <1>6, LenProperties
  <2> QED
    BY <1>6, <2>1, <2>2
<1>7. ASSUME NEW c \in Call, NEW w \in Call, r = Push(Push(b, c), w)
      PROVE  p \in 1..Len(r) /\ p + 1 \in 1..Len(r) /\ r[p] = q[p] /\ r[p + 1] = q[p + 1]
  <2>1. PICK u \in Seq(Call) : u = Push(b, c)
    BY <1>3, <1>6
  <2>2. p \in 1..Len(u) /\ p + 1 \in 1..Len(u) /\ u[p] = q[p] /\ u[p + 1] = q[p + 1]
    BY <1>3, <1>6, <2>1
  <2> QED
    BY <1>6, <1>7, <2>1, <2>2
<1>8. ASSUME NEW c \in Call, r = Push(b, c)
      PROVE  p \in 1..Len(r) /\ p + 1 \in 1..Len(r) /\ r[p] = q[p] /\ r[p + 1] = q[p + 1]
  BY <1>3, <1>6, <1>8
<1>9. \/ r = b
      \/ \E c \in Call : b # << >> /\ r = SetTop(b, c) /\ c.pc = Top(b).pc /\ c.pc \in {"loop", "collect", "await"}
      \/ \E c \in Call : r = Push(b, c)
      \/ \E c, w \in Call : r = Push(Push(b, c), w)
  BY <1>2 DEF ReadForm
<1>10. p \in 1..Len(r) /\ p + 1 \in 1..Len(r) /\ r[p] = q[p] /\ r[p + 1] = q[p + 1]
  BY <1>4, <1>5, <1>7, <1>8, <1>9, <1>3
<1> QED
  BY <1>10 DEF q, r

-----------------------------------------------------------------------------
(* Where the fragments of a split message are.                             *)

\* The split messages from s to d.
SplitTo(s, d) == {Written(s, k) : k \in {j \in SentTo(s, d) : Len(Written(s, j).d) > 1}}

LEMMA SplitMessage ==
    ASSUME NEW s \in Devices, NEW d, NEW m \in SplitTo(s, d)
    PROVE  /\ m \in Frame /\ m.t = "msg" /\ m.s = s /\ m.r = d /\ m.d \in Seq(Unit)
           /\ Len(m.d) \in Nat /\ Len(m.d) > 1
           /\ \E k \in SentTo(s, d) : m = Written(s, k)
<1>1. PICK k \in SentTo(s, d) : m = Written(s, k) /\ Len(m.d) > 1
  BY DEF SplitTo
<1>2. k \in 1..Len(Script[s]) /\ m = Script[s][k] /\ m.r = d
  BY <1>1 DEF SentTo, Written
<1>3. m \in Frame /\ m.t = "msg" /\ m.s = s
  BY <1>2, ScriptAssumption, ElementOfSeq
<1>4. m.d \in Seq(Unit)
  BY <1>3 DEF Frame
<1> QED
  BY <1>1, <1>2, <1>3, <1>4, LenProperties

LEMMA FragmentFields ==
    ASSUME NEW s \in Devices, NEW d, NEW m \in SplitTo(s, d), NEW i \in Nat, i < Len(m.d)
    PROVE  LET f == Fragment(m, i)
           IN /\ f \in Frame /\ f.t = "frag" /\ f.s = s /\ f.r = d /\ f.n = Len(m.d) /\ f.i = i
              /\ f.d[1] = m.d[i + 1] /\ Pair(f) = <<s, d>>
BY SplitMessage, FragmentType DEF Fragment, Pair

\* The blocking loop c has the first j fragments of m.
LoopHas(c, m, j) == c.m = Fragment(m, 0) /\ c.k = j /\ \A i \in 1..j : c.got[i] = m.d[i]

\* The loop at p is the only one in q over fragments from s.
OnlyLoop(q, p, s) ==
    /\ p \in 1..Len(q) /\ q[p] \in LoopsOf(s)
    /\ \A o \in 1..Len(q) : q[o] \in LoopsOf(s) => o = p
NoLoopOf(q, s) == \A p \in 1..Len(q) : q[p] \notin LoopsOf(s)

\* The first j fragments of m are in a loop of q, or in multi_cache, frags; nothing of s is
\* in either; a loop has a whole message and is about to return it.
HasLoop(q, s, m, j) == \E p \in 1..Len(q) : OnlyLoop(q, p, s) /\ LoopHas(q[p], m, j)
HasMulti(q, frags, s, m, j) ==
    NoLoopOf(q, s) /\ Len(frags) = j /\ \A p \in 1..j : frags[p] = Fragment(m, p - 1)
NoPart(q, frags, s) == NoLoopOf(q, s) /\ (frags # << >> => frags[1].s # s)
Complete(q, s, d) == \E m \in SplitTo(s, d) : OnlyLoop(q, Len(q), s) /\ LoopHas(q[Len(q)], m, Len(m.d))

\* d, with stack q, has the first j fragments of the message m of s, and no others of s.
Has(q, frags, s, d, m, j) ==
    \/ j = 0 /\ (NoPart(q, frags, s) \/ Complete(q, s, d))
    \/ /\ m \in SplitTo(s, d) /\ j \in 1..Len(m.d) - 1
       /\ HasMulti(q, frags, s, m, j) \/ HasLoop(q, s, m, j)

\* A fragment of s is about to be handed on.
TopAck(q, s) == q # << >> /\ Top(q).pc = "ack" /\ Top(q).m.t = "frag" /\ Top(q).m.s = s

\* The fragment that follows the one of index i: the first one of another message, if it
\* was the last.
Succ(m, i) == IF i + 1 < Len(m.d) THEN i + 1 ELSE 0

\* The fragment of m that d lacks next is that of index j.
Handing(q, frags, s, d, n, i) ==
    n \in SplitTo(s, d) /\ i \in 0..Len(n.d) - 1 /\ Top(q).m = Fragment(n, i) /\ Has(q, frags, s, d, n, i)
Due(q, frags, s, d, m, j) ==
    IF TopAck(q, s)
    THEN \E n \in SplitTo(s, d) : \E i \in 0..Len(n.d) - 1 :
            Handing(q, frags, s, d, n, i) /\ j = Succ(n, i) /\ (j > 0 => m = n)
    ELSE Has(q, frags, s, d, m, j)

LEMMA OnlySame ==
    ASSUME NEW q, NEW r, NEW s, Same(q, r, LoopsOf(s)), NEW p, OnlyLoop(q, p, s)
    PROVE  OnlyLoop(r, p, s) /\ r[p] = q[p]
BY DEF Same, OnlyLoop
LEMMA NoLoopSame ==
    ASSUME NEW q, NEW r, NEW s, Same(q, r, LoopsOf(s)), NoLoopOf(q, s)
    PROVE  NoLoopOf(r, s)
BY DEF Same, NoLoopOf

\* Fragments from s stay where they are when the loops do and multi_cache does; a loop that
\* has all fragments returns them and does nothing else.
LEMMA HasSame ==
    ASSUME NEW q, NEW r, NEW s, Same(q, r, LoopsOf(s)), NEW d, NEW frags, NEW m, NEW j,
           Has(q, frags, s, d, m, j), ~Complete(q, s, d)
    PROVE  Has(r, frags, s, d, m, j)
<1>1. NoPart(q, frags, s) => NoPart(r, frags, s)
  BY NoLoopSame DEF NoPart
<1>2. HasMulti(q, frags, s, m, j) => HasMulti(r, frags, s, m, j)
  BY NoLoopSame DEF HasMulti
<1>3. HasLoop(q, s, m, j) => HasLoop(r, s, m, j)
  BY OnlySame DEF HasLoop, OnlyLoop
<1> QED
  BY <1>1, <1>2, <1>3 DEF Has

\* A loop that still reads is not complete, nor is one that has called.
LEMMA NotComplete ==
    ASSUME NEW s \in Devices, NEW d, NEW q, InLoop(q) => Top(q).k < Top(q).m.n
    PROVE  ~Complete(q, s, d)
<1>1. SUFFICES ASSUME Complete(q, s, d) PROVE FALSE
  OBVIOUS
<1>2. PICK m \in SplitTo(s, d) : OnlyLoop(q, Len(q), s) /\ LoopHas(q[Len(q)], m, Len(m.d))
  BY <1>1 DEF Complete
<1>3. Len(q) \in 1..Len(q) /\ q[Len(q)].pc = "loop" /\ q[Len(q)].m = Fragment(m, 0) /\ q[Len(q)].k = Len(m.d)
  BY <1>2 DEF OnlyLoop, LoopHas, LoopsOf
<1>4. q # << >>
  <2>1. Len(<< >>) = 0
    OBVIOUS
  <2> QED
    BY <1>3, <2>1
<1>5. InLoop(q) /\ Top(q).k = Top(q).m.n
  BY <1>3, <1>4 DEF InLoop, Top, Fragment
<1>6. Top(q).k \in Nat
  BY <1>3, SplitMessage DEF Top
<1> QED
  BY <1>5, <1>6

-----------------------------------------------------------------------------
(* What a read returns.                                                    *)

\* A message leaves the stack of its reader as it is; so does a fragment that the blocking
\* loop does not wait for.
LEMMA ResumeFixed ==
    ASSUME NEW b, NEW x, x.t # "ack", ~(InLoop(b) /\ Continues(Top(b), x))
    PROVE  ResumeStack(b, x) = b
BY DEF ResumeStack, InLoop, IsAckFor

\* x is returned to b; what it leaves in cached_vec is c.
Gives(d, b, c, x) ==
    /\ stack'[d] = ResumeStack(b, x)
    /\ cached'[d] = ResumeCached(d, c, b, x)
    /\ inbox'[d] = ResumeInbox(d, b, x)
    /\ Len(stack[d]) <= Len(b) + 1
    /\ \/ Recached(d) /\ b = stack[d] /\ c = Tail(cached[d]) /\ x = Head(cached[d])
       \/ c = cached[d] /\ Foreigner(d, x) /\ (x.t = "ack" \/ (x.t \in {"msg", "frag"} /\ x.r # d))
       \/ c = cached[d] /\ Resumed(d) /\ Gave(d) /\ b = Pop(stack[d]) /\ x = Top(stack[d]).m
       \/ /\ c = cached[d] /\ Resumed(d) /\ Assembled(d) /\ b = Pop(stack[d]) /\ x = Joint(d)
          /\ Top(stack[d]).m.t = "frag" /\ Top(stack[d]).multi
       \/ c = cached[d] /\ Finished(d) /\ b = Pop(stack[d]) /\ x = LoopMessage(Top(stack[d]))

LEMMA Returns ==
    ASSUME TypeOK, NEW d \in Devices, NEW b, NEW c, NEW x, ReturnMessage(d, b, c, x)
    PROVE  /\ stack'[d] = ResumeStack(b, x) /\ cached'[d] = ResumeCached(d, c, b, x)
           /\ inbox'[d] = ResumeInbox(d, b, x)
BY DEF ReturnMessage, TypeOK

LEMMA ReadGives ==
    ASSUME OriginInv, NEW d \in Devices, Shape(d), ReadKind(d)
    PROVE  \/ cached'[d] = cached[d] /\ inbox'[d] = inbox[d]
           \/ \E b \in Seq(Call), c \in Seq(Frame), x \in Frame : Gives(d, b, c, x)
<1>1. TypeOK /\ stack[d] \in Seq(Call) /\ cached[d] \in Seq(Frame) /\ Len(stack[d]) \in Nat
  <2>1. TypeOK /\ stack[d] \in Seq(Call) /\ cached[d] \in Seq(Frame)
    BY DEF OriginInv, TypeOK
  <2> QED
    BY <2>1, LenProperties
<1>2. CASE Recached(d)
  <2>1. cached[d] # << >> /\ ReturnMessage(d, stack[d], Tail(cached[d]), Head(cached[d]))
    BY <1>2 DEF Recached
  <2>2. Tail(cached[d]) \in Seq(Frame) /\ Head(cached[d]) \in Frame
    BY <1>1, <2>1, HeadTailProperties
  <2>3. Gives(d, stack[d], Tail(cached[d]), Head(cached[d]))
    BY <1>1, <1>2, <2>1, Returns DEF Gives
  <2> QED
    BY <1>1, <2>2, <2>3
<1>3. stack[d] # << >> => /\ Pop(stack[d]) \in Seq(Call) /\ Len(stack[d]) <= Len(Pop(stack[d])) + 1
                          /\ Top(stack[d]) \in Call
  BY <1>1, PopProperties, TopProperties
<1>4. CASE Resumed(d)
  <2>1. stack[d] # << >> /\ Top(stack[d]).pc = "ack"
    BY <1>4 DEF Resumed
  <2>2. CASE Gave(d)
    <3>1. ReturnMessage(d, Pop(stack[d]), cached[d], Top(stack[d]).m)
      BY <2>2 DEF Gave
    <3>2. Gives(d, Pop(stack[d]), cached[d], Top(stack[d]).m)
      BY <1>1, <1>3, <1>4, <2>1, <2>2, <3>1, Returns DEF Gives
    <3>3. Top(stack[d]).m \in Frame
      BY <1>3, <2>1, FrameOf
    <3> QED
      BY <1>1, <1>3, <2>1, <3>2, <3>3
  <2>3. CASE Assembled(d) /\ Top(stack[d]).m.t = "frag" /\ Top(stack[d]).multi
    <3>1. ReturnMessage(d, Pop(stack[d]), cached[d], Joint(d))
      BY <2>3 DEF Assembled
    <3>2. Gives(d, Pop(stack[d]), cached[d], Joint(d))
      BY <1>1, <1>3, <1>4, <2>1, <2>3, <3>1, Returns DEF Gives
    <3>3. Joint(d) \in Frame
      BY <2>1, <2>3, JointType
    <3> QED
      BY <1>1, <1>3, <2>1, <3>2, <3>3
  <2>4. CASE Passed(d) \/ Entered(d) \/ Stacked(d)
    BY <2>4 DEF Passed, Entered, Stacked
  <2> QED
    BY <1>4, <2>2, <2>3, <2>4 DEF Resumed
<1>5. CASE Finished(d)
  <2>1. InLoop(stack[d]) /\ ReturnMessage(d, Pop(stack[d]), cached[d], LoopMessage(Top(stack[d])))
    BY <1>5 DEF Finished
  <2>2. LoopMessage(Top(stack[d])) \in Frame
    BY <2>1, LoopTop
  <2>3. Gives(d, Pop(stack[d]), cached[d], LoopMessage(Top(stack[d])))
    BY <1>1, <1>3, <1>5, <2>1, Returns DEF Gives, InLoop
  <2> QED
    BY <1>1, <1>3, <2>1, <2>2, <2>3 DEF InLoop
<1>6. ASSUME NEW b, BaseOf(d, b), Dropped(d, b) \/ Took(d, b) \/ Overheard(d, b)
      PROVE  \/ cached'[d] = cached[d] /\ inbox'[d] = inbox[d]
             \/ \E c \in Seq(Frame), x \in Frame : b \in Seq(Call) /\ Gives(d, b, c, x)
  <2>1. CASE Dropped(d, b) \/ Took(d, b)
    BY <2>1 DEF Dropped, Took
  <2>2. CASE Overheard(d, b)
    <3>1. /\ rx[d] # << >> /\ ReturnMessage(d, b, cached[d], Head(rx[d]))
          /\ Head(rx[d]).t = "ack" \/ (Head(rx[d]).t \in {"msg", "frag"} /\ Head(rx[d]).r # d)
      BY <2>2 DEF Overheard
    <3>2. Head(rx[d]) \in Frame /\ Foreigner(d, Head(rx[d]))
      BY <3>1, HeadHeard DEF Heard
    <3>3. b \in Seq(Call) /\ Len(b) = Len(stack[d])
      BY <1>6, BaseLike DEF Like
    <3>4. Gives(d, b, cached[d], Head(rx[d]))
      BY <1>1, <3>1, <3>2, <3>3, Returns DEF Gives
    <3> QED
      BY <1>1, <3>2, <3>3, <3>4
  <2> QED
    BY <1>6, <2>1, <2>2
<1> QED
  BY <1>2, <1>4, <1>5, <1>6 DEF ReadKind

-----------------------------------------------------------------------------
(* A receiver that waits for a timer.                                      *)

\* The blocking loop on top of q reads cached_vec, c, again and again: nothing in it goes on
\* with its message.
Stuck(q, c) ==
    /\ InLoop(q) /\ Top(q).k < Top(q).m.n
    /\ c # << >> /\ \A p \in 1..Len(c) : ~Continues(Top(q), c[p])
\* A loop of q has read a frame that does not go on with its message: it will keep the frame
\* in cached_vec.
Aside(q) == \E p \in 1..Len(q) - 1 : q[p].pc = "loop" /\ ~Continues(q[p], q[p + 1].m)
Frozen(d) == Stuck(stack[d], cached[d]) \/ Aside(stack[d])

\* A fragment gets into cached_vec only in this way.
NoFrags(d) == (\E p \in 1..Len(cached[d]) : cached[d][p].t = "frag") => Stuck(stack[d], cached[d])

\* A loop with a message in cached_vec that is none of its fragments.
LEMMA StuckRead ==
    ASSUME OriginInv, NEW d \in Devices, Shape(d), ReadKind(d), Stuck(stack[d], cached[d])
    PROVE  Stuck(stack'[d], cached'[d]) /\ inbox'[d] = inbox[d]
<1> DEFINE q == stack[d]
           c == cached[d]
<1>1. InLoop(q) /\ Top(q).k < Top(q).m.n /\ c # << >> /\ \A p \in 1..Len(c) : ~Continues(Top(q), c[p])
  BY DEF Stuck
<1>2. TypeOK /\ c \in Seq(Frame) /\ Len(c) <= CacheSize /\ CacheShape(d, c)
  BY DEF OriginInv, TypeOK, Shape, BufferShape
<1>3. Top(q).k \in Nat /\ Top(q).m \in Fragments /\ Top(q).m.r = d
  BY <1>1, LoopTop
<1>4. Top(q).m.n \in Nat
  BY <1>3 DEF Fragments, Frame
<1>5. CASE Recached(d)
  <2> DEFINE x == Head(c)
  <2>1. x = c[1] /\ 1 \in 1..Len(c) /\ Len(c) \in Nat
    BY <1>1, <1>2, EmptySeq, LenProperties
  <2>2. ~Continues(Top(q), x) /\ x.t \in {"msg", "frag"} /\ x.r \in {d, Broadcast} /\ x \in Frame
    BY <1>1, <1>2, <2>1, ElementOfSeq DEF CacheShape
  <2>3. /\ stack'[d] = ResumeStack(q, x) /\ cached'[d] = ResumeCached(d, Tail(c), q, x)
        /\ inbox'[d] = ResumeInbox(d, q, x)
    BY <1>2, <1>5, Returns DEF Recached
  <2>4. stack'[d] = q
    BY <2>2, <2>3, ResumeFixed
  <2>5. Tail(c) \in Seq(Frame) /\ Len(Tail(c)) = Len(c) - 1 /\ \A i \in 1..Len(c) - 1 : Tail(c)[i] = c[i + 1]
    BY <1>1, <1>2, HeadTailProperties
  <2>6. Len(Tail(c)) < CacheSize /\ CacheSize \in Nat
    BY <1>2, <2>1, <2>5, BoundAssumption
  <2> HIDE DEF x, q, c
  <2>7. cached'[d] = Append(Tail(c), x)
    <3>1. cached'[d] = CacheMessage(Tail(c), x)
      BY <1>1, <1>3, <2>2, <2>3 DEF ResumeCached, InLoop
    <3> QED
      BY <2>2, <2>6, <3>1 DEF CacheMessage
  <2>8. inbox'[d] = inbox[d]
    BY <1>1, <2>3 DEF ResumeInbox, InLoop
  <2>9. PICK e \in Seq(Frame) : e = Append(Tail(c), x)
    BY <2>2, <2>5, AppendProperties
  <2>10. Len(e) = Len(c) /\ e[Len(c)] = x /\ \A i \in 1..Len(c) - 1 : e[i] = c[i + 1]
    <3>1. Len(e) = Len(Tail(c)) + 1 /\ e[Len(Tail(c)) + 1] = x /\ \A i \in 1..Len(Tail(c)) : e[i] = Tail(c)[i]
      BY <2>2, <2>5, <2>9, AppendProperties
    <3> QED
      BY <2>1, <2>5, <3>1
  <2>11. \A p \in 1..Len(e) : ~Continues(Top(q), e[p])
    <3> TAKE p \in 1..Len(e)
    <3>1. CASE p = Len(c)
      BY <2>2, <2>10, <3>1
    <3>2. CASE p # Len(c)
      <4>1. p \in 1..Len(c) - 1 /\ p + 1 \in 1..Len(c)
        BY <2>1, <2>10, <3>2
      <4> QED
        BY <1>1, <2>10, <4>1
    <3> QED
      BY <3>1, <3>2
  <2>12. e # << >>
    <3>1. Len(e) # 0
      BY <2>1, <2>10
    <3> QED
      BY <3>1
  <2> QED
    BY <1>1, <2>4, <2>7, <2>8, <2>9, <2>11, <2>12 DEF Stuck
<1>6. ~Resumed(d)
  BY <1>1 DEF Resumed, InLoop
<1>7. ~Finished(d)
  BY <1>1, <1>3, <1>4 DEF Finished
<1>8. ASSUME NEW b, BaseOf(d, b), Dropped(d, b) \/ Took(d, b) \/ Overheard(d, b)
      PROVE  Stuck(stack'[d], cached'[d]) /\ inbox'[d] = inbox[d]
  <2>1. InLoop(b)
    BY <1>1, <1>8, BaseLike
  <2>2. b = stack[d]
    BY <1>8, <2>1, BaseLoop
  <2>3. Dropped(d, b)
    BY <1>1, <1>8, <2>1 DEF Took, Overheard
  <2>4. stack'[d] = b /\ cached'[d] = cached[d] /\ inbox'[d] = inbox[d]
    BY <1>2, <2>3 DEF Dropped, TypeOK
  <2> QED
    BY <2>2, <2>4
<1> QED
  BY <1>5, <1>6, <1>7, <1>8 DEF ReadKind

\* The loop gets a frame that does not go on with its message.
LEMMA GaveAside ==
    ASSUME OriginInv, NEW d \in Devices, Shape(d), NoFrags(d), Resumed(d), Gave(d),
           InLoop(Pop(stack[d])), ~Continues(Top(Pop(stack[d])), Top(stack[d]).m)
    PROVE  Stuck(stack'[d], cached'[d])
<1> DEFINE q == stack[d]
           b == Pop(q)
           c == cached[d]
           x == Top(q).m
<1>1. q # << >> /\ Top(q).pc = "ack"
  BY DEF Resumed
<1>2. /\ x \in Frame /\ x.r = d /\ x.t \in {"msg", "frag"} /\ b \in Seq(Call) /\ Sound(d, b, repeated, outcome[d])
      /\ Top(b).k < Top(b).m.n /\ StackShape(d, b, multi[d])
  BY <1>1, AckTop
<1>3. TypeOK /\ c \in Seq(Frame) /\ Len(c) <= CacheSize /\ Len(c) \in Nat
  <2>1. TypeOK /\ c \in Seq(Frame) /\ Len(c) <= CacheSize
    BY DEF OriginInv, TypeOK
  <2> QED
    BY <2>1, LenProperties
<1>4. Top(b).m.r = d
  <2>1. Len(b) \in 1..Len(b) /\ Top(b) = b[Len(b)]
    BY <1>2, TopProperties DEF InLoop, Top
  <2>2. CallShape(d, b, Len(b), multi[d])
    BY <1>2, <2>1 DEF StackShape
  <2> QED
    BY <2>1, <2>2 DEF CallShape, InLoop
<1>5. ReturnMessage(d, b, c, x)
  BY DEF Gave
<1>6. stack'[d] = ResumeStack(b, x) /\ cached'[d] = ResumeCached(d, c, b, x)
  BY <1>3, <1>5, Returns
<1>7. stack'[d] = b
  BY <1>2, <1>6, ResumeFixed
<1>8. \A p \in 1..Len(c) : c[p].t # "frag"
  BY <1>1 DEF NoFrags, Stuck, InLoop
<1> HIDE DEF q, b, c, x
<1>9. cached'[d] = CacheMessage(c, x)
  BY <1>2, <1>4, <1>6 DEF ResumeCached, InLoop, b, q, x
<1>10. \A p \in 1..Len(cached'[d]) : ~Continues(Top(b), cached'[d][p])
  <2>1. \A p \in 1..Len(c) : ~Continues(Top(b), c[p])
    BY <1>8 DEF Continues
  <2>2. ~Continues(Top(b), x)
    BY DEF b, q, x
  <2>3. CASE cached'[d] = c
    BY <2>1, <2>3
  <2>4. CASE cached'[d] = Append(c, x)
    <3>1. /\ Len(Append(c, x)) = Len(c) + 1 /\ Append(c, x)[Len(c) + 1] = x
          /\ \A i \in 1..Len(c) : Append(c, x)[i] = c[i]
      BY <1>2, <1>3, AppendProperties
    <3> QED
      BY <1>3, <2>1, <2>2, <2>4, <3>1
  <2> QED
    BY <1>9, <2>3, <2>4 DEF CacheMessage
<1>11. cached'[d] # << >>
  <2>1. CASE Len(c) < CacheSize
    <3>1. cached'[d] = Append(c, x)
      BY <1>2, <1>9, <2>1 DEF CacheMessage
    <3>2. Len(Append(c, x)) = Len(c) + 1
      BY <1>2, <1>3, AppendProperties
    <3>3. Len(c) + 1 # 0
      BY <1>3
    <3>4. \A e : Len(e) # 0 => e # << >>
      OBVIOUS
    <3> QED
      BY <3>1, <3>2, <3>3, <3>4
  <2>2. CASE ~(Len(c) < CacheSize)
    <3>1. cached'[d] = c
      BY <1>9, <2>2 DEF CacheMessage
    <3>2. Len(c) # 0
      BY <1>3, <2>2, BoundAssumption
    <3>3. \A e : Len(e) # 0 => e # << >>
      OBVIOUS
    <3> QED
      BY <3>1, <3>2, <3>3
  <2> QED
    BY <2>1, <2>2
<1>12. InLoop(b)
  BY DEF b, q
<1> QED
  BY <1>2, <1>7, <1>10, <1>11, <1>12 DEF Stuck

\* The call of a loop.
LEMMA CalledByLoop ==
    ASSUME NEW d, NEW q \in Seq(Call), NEW frags, StackShape(d, q, frags),
           NEW p \in 1..Len(q) - 1, q[p].pc = "loop"
    PROVE  /\ p + 1 \in 1..Len(q) /\ p \in 1..Len(q) /\ q[p + 1].pc = "ack" /\ ~q[p + 1].multi
           /\ q[p + 1].m.t \in {"msg", "frag"}
<1>1. p + 1 \in 1..Len(q) /\ p \in 1..Len(q) /\ p + 1 > 1 /\ (p + 1) - 1 = p
  BY LenProperties
<1>2. CallShape(d, q, p + 1, frags) /\ Under(q, p + 1)
  BY <1>1 DEF StackShape, Under
<1> QED
  BY <1>1, <1>2 DEF CallShape

LEMMA ReadFormType ==
    ASSUME NEW d, NEW b \in Seq(Call), NEW r, ReadForm(d, b, r)
    PROVE  r \in Seq(Call)
<1>1. ASSUME NEW u \in Seq(Call), NEW c \in Call
      PROVE  Push(u, c) \in Seq(Call) /\ (u # << >> => SetTop(u, c) \in Seq(Call))
  BY <1>1, PushProperties, SetTopProperties
<1>2. ASSUME NEW c \in Call, NEW w \in Call, r = Push(Push(b, c), w)
      PROVE  r \in Seq(Call)
  <2>1. PICK u \in Seq(Call) : u = Push(b, c)
    BY <1>1
  <2> QED
    BY <1>1, <1>2, <2>1
<1> QED
  BY <1>1, <1>2 DEF ReadForm

LEMMA AsideRead ==
    ASSUME OriginInv, NEW d \in Devices, Shape(d), NoFrags(d), ReadKind(d), Aside(stack[d])
    PROVE  Stuck(stack'[d], cached'[d]) \/ Aside(stack'[d])
<1> DEFINE q == stack[d]
           r == stack'[d]
<1>1. q \in Seq(Call) /\ Len(q) \in Nat
  <2>1. q \in Seq(Call)
    BY DEF OriginInv, TypeOK
  <2> QED
    BY <2>1, LenProperties
<1>2. PICK p \in 1..Len(q) - 1 : q[p].pc = "loop" /\ ~Continues(q[p], q[p + 1].m)
  BY DEF Aside
<1>3. p + 1 \in 1..Len(q) /\ q[p + 1].pc = "ack" /\ ~q[p + 1].multi
  BY <1>1, <1>2, CalledByLoop DEF Shape
<1>4. CASE p + 1 \in 1..Len(q) - 1
  <2>1. p \in 1..Len(r) /\ p + 1 \in 1..Len(r) /\ r[p] = q[p] /\ r[p + 1] = q[p + 1]
    BY <1>2, <1>3, <1>4, DeepReads
  <2>2. r \in Seq(Call)
    BY ReadFormType, KindForms
  <2>3. p \in 1..Len(r) - 1
    BY <2>1, <2>2, LenProperties
  <2> QED
    BY <1>2, <2>1, <2>3 DEF Aside
<1>5. CASE p + 1 = Len(q)
  <2>1. q # << >> /\ Top(q) = q[p + 1] /\ Top(q).pc = "ack" /\ ~Top(q).multi
    <3>1. Len(q) # 0
      BY <1>1, <1>2
    <3>2. \A e : Len(e) # 0 => e # << >>
      OBVIOUS
    <3> QED
      BY <1>3, <1>5, <3>1, <3>2 DEF Top
  <2>2. Pop(q) # << >> /\ Top(Pop(q)) = q[p]
    <3>1. Pop(q) \in Seq(Call) /\ Len(Pop(q)) = Len(q) - 1 /\ \A j \in 1..Len(q) - 1 : Pop(q)[j] = q[j]
      BY <1>1, <2>1, PopProperties
    <3>2. Len(q) - 1 = p /\ p # 0
      BY <1>1, <1>2, <1>5
    <3>3. Pop(q)[p] = q[p] /\ Len(Pop(q)) = p
      BY <1>2, <3>1, <3>2
    <3>4. \A e : Len(e) # 0 => e # << >>
      OBVIOUS
    <3> QED
      BY <3>2, <3>3, <3>4 DEF Top
  <2>3. InLoop(Pop(q)) /\ ~Continues(Top(Pop(q)), Top(q).m)
    BY <1>2, <2>1, <2>2 DEF InLoop
  <2>4. Resumed(d)
    BY <2>1 DEF ReadKind, Recached, Finished, InLoop, BaseOf
  <2>5. Gave(d)
    BY <2>1, <2>4 DEF Resumed
  <2> QED
    BY <2>3, <2>4, <2>5, GaveAside
<1> QED
  BY <1>1, <1>2, <1>3, <1>4, <1>5

\* Such a receiver hands nothing to its program.
LEMMA FrozenRead ==
    ASSUME OriginInv, NEW d \in Devices, Shape(d), NoFrags(d), ReadKind(d), Frozen(d)
    PROVE  Frozen(d)' /\ inbox'[d] = inbox[d]
<1>1. CASE Stuck(stack[d], cached[d])
  BY <1>1, StuckRead DEF Frozen
<1>2. CASE Aside(stack[d])
  <2>1. Frozen(d)'
    BY <1>2, AsideRead DEF Frozen
  <2>2. ASSUME NEW b \in Seq(Call), NEW c, NEW x, Gives(d, b, c, x)
        PROVE  inbox'[d] = inbox[d]
    <3>1. Len(stack[d]) <= Len(b) + 1 /\ Len(b) \in Nat /\ Len(stack[d]) \in Nat
      <4>1. stack[d] \in Seq(Call)
        BY DEF OriginInv, TypeOK
      <4> QED
        BY <2>2, <4>1, LenProperties DEF Gives
    <3>2. Len(stack[d]) >= 2
      BY <1>2, <3>1 DEF Aside
    <3>3. Len(b) # 0
      BY <3>1, <3>2
    <3>4. b # << >>
      BY <3>3
    <3> QED
      BY <2>2, <3>4 DEF Gives, ResumeInbox
  <2> QED
    BY <2>1, <2>2, ReadGives
<1> QED
  BY <1>1, <1>2 DEF Frozen

LEMMA NoFragsRead ==
    ASSUME OriginInv, ReadsGuarded, NEW d \in Devices, NoSplitCast, Shape(d), NoFrags(d), ReadKind(d), UNCHANGED tx
    PROVE  NoFrags(d)'
<1>1. CASE Stuck(stack[d], cached[d])
  BY <1>1, StuckRead DEF NoFrags
<1>2. CASE ~Stuck(stack[d], cached[d])
  <2>1. \A p \in 1..Len(cached[d]) : cached[d][p].t # "frag"
    BY <1>2 DEF NoFrags
  <2>2. cached[d] \in Seq(Frame)
    BY DEF OriginInv, TypeOK
  <2>3. CacheShape(d, cached'[d])
    BY ReadKeepsShape DEF Shape, BufferShape
  <2>4. ASSUME NEW b \in Seq(Call), NEW c \in Seq(Frame), NEW x \in Frame, Gives(d, b, c, x),
               NEW o \in 1..Len(cached'[d]), cached'[d][o].t = "frag"
        PROVE  Stuck(stack'[d], cached'[d])
    <3>1. c = cached[d] \/ (cached[d] # << >> /\ c = Tail(cached[d]) /\ x = Head(cached[d]))
      BY <2>4 DEF Gives, Recached
    <3>2. \A p \in 1..Len(c) : c[p].t # "frag"
      <4>1. CASE c = cached[d]
        BY <2>1, <4>1
      <4>2. CASE cached[d] # << >> /\ c = Tail(cached[d])
        <5>1. /\ Len(Tail(cached[d])) = Len(cached[d]) - 1 /\ Len(cached[d]) \in Nat
              /\ \A i \in 1..Len(cached[d]) - 1 : Tail(cached[d])[i] = cached[d][i + 1]
          BY <2>2, <4>2, HeadTailProperties, LenProperties
        <5>2. \A i \in 1..Len(cached[d]) - 1 : i + 1 \in 1..Len(cached[d])
          BY <5>1
        <5> QED
          BY <2>1, <4>2, <5>1, <5>2
      <4> QED
        BY <3>1, <4>1, <4>2
    <3>3. cached'[d] = ResumeCached(d, c, b, x) /\ cached'[d] # c
      BY <2>4, <3>2 DEF Gives
    <3>4. cached'[d] = Append(c, x) /\ b # << >> /\ (Top(b).pc = "loop" => ~Continues(Top(b), x))
      BY <3>3 DEF ResumeCached, CacheMessage
    <3>5. Len(c) \in Nat /\ Len(Append(c, x)) = Len(c) + 1 /\ Append(c, x)[Len(c) + 1] = x
          /\ \A i \in 1..Len(c) : Append(c, x)[i] = c[i]
      BY AppendProperties, LenProperties
    <3>6. x.t = "frag" /\ x.r \in {d, Broadcast}
      <4>1. o = Len(c) + 1
        BY <2>4, <3>2, <3>4, <3>5
      <4>2. cached'[d][o] = x
        BY <3>4, <3>5, <4>1
      <4> QED
        BY <2>3, <2>4, <4>2 DEF CacheShape
    <3>7. CASE x = Head(cached[d]) /\ cached[d] # << >>
      <4>1. x = cached[d][1] /\ 1 \in 1..Len(cached[d])
        BY <2>2, <3>7, EmptySeq, LenProperties
      <4> QED
        BY <2>1, <3>6, <4>1
    <3>8. CASE Foreigner(d, x) /\ (x.t = "ack" \/ x.r # d)
      BY <3>6, <3>8, FragmentHome
    <3>9. CASE Resumed(d) /\ Gave(d) /\ b = Pop(stack[d]) /\ x = Top(stack[d]).m
      <4>1. stack[d] # << >> /\ Top(stack[d]).pc = "ack"
        BY <3>9 DEF Resumed
      <4>2. ~Top(stack[d]).multi
        BY <3>6, <3>9 DEF Gave
      <4>3. InLoop(b)
        BY <3>9, <4>1, <4>2, AckTop
      <4> QED
        BY <3>4, <3>9, <4>3, GaveAside DEF InLoop
    <3>10. CASE Finished(d) /\ x = LoopMessage(Top(stack[d]))
      BY <3>6, <3>10 DEF LoopMessage, WholeMessage
    <3>11. CASE Resumed(d) /\ Assembled(d) /\ x = Joint(d) /\ Top(stack[d]).m.t = "frag"
      BY <3>6, <3>11, JointType DEF Resumed
    <3> QED
      BY <2>4, <3>7, <3>8, <3>9, <3>10, <3>11 DEF Gives, Recached
  <2>5. ASSUME cached'[d] = cached[d]
        PROVE  NoFrags(d)'
    BY <2>1, <2>5 DEF NoFrags
  <2>6. ASSUME NEW b \in Seq(Call), NEW c \in Seq(Frame), NEW x \in Frame, Gives(d, b, c, x)
        PROVE  NoFrags(d)'
    BY <2>4, <2>6 DEF NoFrags
  <2> QED
    BY <2>5, <2>6, ReadGives
<1> QED
  BY <1>1, <1>2

\* A write leaves such a receiver as it is.
LEMMA FrozenWrite ==
    ASSUME OriginInv, NEW d \in Devices, Shape(d), WriterShape(stack[d], repeated), NoFrags(d),
           WriteKind(d), WriteRest(d)
    PROVE  (Frozen(d) => Frozen(d)') /\ NoFrags(d)'
<1> DEFINE q == stack[d]
           r == stack'[d]
<1>1. /\ q \in Seq(Call) /\ cached'[d] = cached[d]
      /\ Pushed(q, r) \/ Stepped(q, r) \/ Doubled(q, r) \/ Popped(q, r) \/ Counted(q, r)
  BY WriteStacks DEF WriteRest
<1>2. Same(q, r, ReadCalls)
  BY <1>1, WriteSame
<1>3. ~InLoop(q)
  BY <1>1 DEF Pushed, Stepped, Doubled, Popped, Counted, InLoop, WritePC
<1>4. ASSUME Aside(q)
      PROVE  Aside(r)
  <2>1. PICK p \in 1..Len(q) - 1 : q[p].pc = "loop" /\ ~Continues(q[p], q[p + 1].m)
    BY <1>4 DEF Aside
  <2>2. p \in 1..Len(q) /\ p + 1 \in 1..Len(q) /\ q[p + 1].pc = "ack"
    BY <1>1, <2>1, CalledByLoop DEF Shape
  <2>3. q[p] \in ReadCalls /\ q[p + 1] \in ReadCalls
    BY <1>1, <2>1, <2>2, ElementOfSeq DEF ReadCalls, ReadPC
  <2>4. p \in 1..Len(r) /\ p + 1 \in 1..Len(r) /\ r[p] = q[p] /\ r[p + 1] = q[p + 1]
    BY <1>2, <2>2, <2>3 DEF Same
  <2>5. r \in Seq(Call)
    BY <1>1, WriteStackShape DEF Shape
  <2>6. p \in 1..Len(r) - 1
    BY <2>4, <2>5, LenProperties
  <2> QED
    BY <2>1, <2>4, <2>6 DEF Aside
<1> QED
  BY <1>1, <1>3, <1>4 DEF Frozen, NoFrags, Stuck

\* So do steps of other devices.
LEMMA FrozenOther ==
    ASSUME NEW d, stack'[d] = stack[d], cached'[d] = cached[d]
    PROVE  (Frozen(d)' <=> Frozen(d)) /\ (NoFrags(d) => NoFrags(d)')
BY DEF Frozen, NoFrags

-----------------------------------------------------------------------------
(* A receiver acknowledges one fragment of a sender at a time.             *)

OneAck(q, s) ==
    \A i, j \in 1..Len(q) :
        (/\ q[i].pc = "ack" /\ q[i].m.t = "frag" /\ q[i].m.s = s
         /\ q[j].pc = "ack" /\ q[j].m.t = "frag" /\ q[j].m.s = s) => i = j

LEMMA OneAckOld ==
    ASSUME NEW q, NEW r, NEW s, OldAcks(r, q), OneAck(q, s)
    PROVE  OneAck(r, s)
BY DEF OldAcks, OneAck

LEMMA OneAckSame ==
    ASSUME NEW q, NEW r \in Seq(Call), NEW s, Same(q, r, ReadCalls), OneAck(q, s)
    PROVE  OneAck(r, s)
<1>1. \A p \in 1..Len(r) : r[p].pc = "ack" => r[p] \in ReadCalls
  BY ElementOfSeq DEF ReadCalls, ReadPC
<1>2. OldAcks(r, q)
  BY <1>1 DEF OldAcks, Same
<1> QED
  BY <1>2, OneAckOld

\* A step of a read begins to acknowledge a frame only if it takes it from the bus.
LEMMA ReadOldAcks ==
    ASSUME OriginInv, NEW d \in Devices, Shape(d), ReadKind(d)
    PROVE  OldAcks(stack'[d], stack[d]) \/ \E b : BaseOf(d, b) /\ Took(d, b)
<1>1. stack[d] \in Seq(Call)
  BY DEF OriginInv, TypeOK
<1>2. PICK b \in Seq(Call) : Resumable(stack[d], b) /\ ReadForm(d, b, stack'[d])
  BY KindForms
<1>3. OldAcks(b, stack[d])
  BY <1>1, <1>2, OldAcksBack
<1>4. ASSUME NEW c \in Call, b # << >>, stack'[d] = SetTop(b, c), c.pc = "loop" \/ c.pc \in {"collect", "await"}
      PROVE  OldAcks(stack'[d], stack[d])
  BY <1>3, <1>4, OldAcksTop
<1>5. ASSUME NEW c \in Call, c.pc = "loop", stack'[d] = Push(b, c)
      PROVE  OldAcks(stack'[d], stack[d])
  BY <1>3, <1>5, OldAcksPush
<1>6. CASE stack'[d] = b
  BY <1>3, <1>6
<1>7. CASE BaseOf(d, b) /\ Took(d, b)
  BY <1>7
<1> QED
  BY <1>2, <1>4, <1>5, <1>6, <1>7 DEF ReadForm

\* A frame from s that d acknowledges below the top of its stack is counted, as is one that
\* is not read.
LEMMA AckCounts ==
    ASSUME OriginInv, NEW d \in Devices, NEW s, NEW p \in 1..Len(stack[d]) - 1,
           stack[d][p].pc = "ack", stack[d][p].m.s = s
    PROVE  Number(stack[d], Answers(d, s)) >= 1
<1> DEFINE q == stack[d]
<1>1. q \in Seq(Call) /\ Len(q) \in Nat /\ Sound(d, q, repeated, outcome[d])
  <2>1. q \in Seq(Call) /\ Sound(d, q, repeated, outcome[d])
    BY OriginParts DEF OriginInv, TypeOK
  <2> QED
    BY <2>1, LenProperties
<1>2. p + 1 \in 2..Len(q) /\ (p + 1) - 1 = p /\ p + 1 \in 1..Len(q)
  BY <1>1
<1>3. Made(d, q[p], q[p + 1], repeated)
  BY <1>1, <1>2 DEF Sound
<1>4. q[p + 1].pc = "drain" /\ q[p + 1].m = Ack(d, s) /\ q[p + 1] \in Call
  BY <1>1, <1>2, <1>3, ElementOfSeq DEF Made
<1>5. q[p + 1].m \in Frame
  BY <1>4, FrameOf
<1>6. q[p + 1] \in Answers(d, s)
  BY <1>4, <1>5 DEF Answers, AcksOf, Ack, Short
<1> QED
  BY <1>1, <1>2, <1>6, NumberSome

LEMMA UnreadCounts ==
    ASSUME OriginInv, NEW d \in Devices, NEW s, NEW p \in 1..Len(rx[d]),
           rx[d][p].t = "frag", rx[d][p].s = s, rx[d][p].r = d
    PROVE  Number(rx[d], Data(s, d)) >= 1
<1>1. rx[d] \in Seq(Frame)
  BY DEF OriginInv, TypeOK
<1>2. rx[d][p] \in Data(s, d)
  BY <1>1, ElementOfSeq DEF Data
<1> QED
  BY <1>1, <1>2, NumberSome

\* One frame on its way, at most.
LEMMA OneOnWay ==
    ASSUME OriginInv, Credit, NEW d \in Devices, NEW s \in Others(d), Unrepeated(s, d), Waiting(s, d) <= 1,
           Number(stack[d], Answers(d, s)) >= 1
    PROVE  Number(rx[d], Data(s, d)) = 0 /\ Number(rx[s], AcksOf(d, s)) = 0
<1>1. s \in Devices /\ d \in Others(s) /\ TypeOK
  BY DEF Others, OriginInv
<1>2. OnWay(s, d) <= Waiting(s, d)
  BY <1>1 DEF Credit
<1> DEFINE x == Number(rx[d], Data(s, d))
           y == Number(stack[d], Answers(d, s))
           z == Number(rx[s], AcksOf(d, s))
           w == Waiting(s, d)
<1>3. x \in Nat /\ y \in Nat /\ z \in Nat /\ w \in Nat
  BY <1>1, CountTypes
<1>4. x + y + z <= w
  BY <1>2 DEF OnWay
<1>5. y >= 1 /\ w <= 1
  OBVIOUS
<1> HIDE DEF x, y, z, w
<1>6. x = 0 /\ z = 0
  BY <1>3, <1>4, <1>5
<1> QED
  BY <1>6 DEF x, z

LEMMA OneAckRead ==
    ASSUME OriginInv, Credit, NEW d \in Devices, Shape(d), ReadKind(d),
           NEW s \in Others(d), Unrepeated(s, d), Waiting(s, d) <= 1, OneAck(stack[d], s)
    PROVE  OneAck(stack'[d], s)
<1>1. CASE OldAcks(stack'[d], stack[d])
  BY <1>1, OneAckOld
<1>2. ASSUME NEW b, BaseOf(d, b), Took(d, b)
      PROVE  OneAck(stack'[d], s)
  <2> DEFINE q == stack[d]
             f == Head(rx[d])
  <2>1. q \in Seq(Call) /\ b \in Seq(Call) /\ Like(q, b) /\ Len(b) \in Nat /\ Len(b) = Len(q) /\ Reader(b)
        /\ stack \in [Devices -> Seq(Call)]
    <3>1. q \in Seq(Call) /\ b \in Seq(Call) /\ Like(q, b) /\ Reader(b) /\ stack \in [Devices -> Seq(Call)]
      BY <1>2, BaseLike DEF OriginInv, TypeOK
    <3> QED
      BY <3>1, LenProperties DEF Like
  <2>2. PICK c \in Call : /\ c.pc = "ack" /\ c.m = f
                          /\ stack' = [stack EXCEPT ![d] = Push(Push(b, c), WriteCall(Ack(d, c.m.s), FALSE))]
    BY <1>2 DEF Took
  <2>3. c.m \in Frame /\ c.m.s \in Addresses /\ d \in Addresses
    BY FrameOf DEF Frame, Addresses
  <2>4. PICK w \in Call : w = WriteCall(Ack(d, c.m.s), FALSE) /\ w.pc = "drain"
    <3>1. Ack(d, c.m.s) \in Frame
      BY <2>3, ShortType
    <3>2. WriteCall(Ack(d, c.m.s), FALSE) \in Call
      BY <3>1, WriteCallType
    <3>3. WriteCall(Ack(d, c.m.s), FALSE).pc = "drain"
      <4>1. Len(<< >>) = 0
        OBVIOUS
      <4> QED
        BY <4>1 DEF WriteCall, Ack, Short
    <3> QED
      BY <3>2, <3>3
  <2>5. PICK r \in Seq(Call) : r = stack'[d] /\ r = Push(Push(b, c), w)
    <3>1. Push(b, c) \in Seq(Call)
      BY <2>1, PushProperties
    <3>2. Push(Push(b, c), w) \in Seq(Call)
      BY <3>1, PushProperties
    <3> QED
      BY <2>1, <2>2, <2>4, <3>2
  <2>6. /\ Len(r) = Len(b) + 2 /\ r[Len(b) + 1] = c /\ r[Len(b) + 2] = w /\ \A j \in 1..Len(b) : r[j] = b[j]
    <3>0. Push(b, c) \in Seq(Call) /\ Len(Push(b, c)) = Len(b) + 1 /\ Push(b, c)[Len(b) + 1] = c
          /\ \A j \in 1..Len(b) : Push(b, c)[j] = b[j]
      <4>1. b \in Seq(Call)
        BY <2>1
      <4> HIDE DEF q, f
      <4> QED
        BY <4>1, PushedCall
    <3>1. PICK u \in Seq(Call) : /\ u = Push(b, c) /\ Len(u) = Len(b) + 1 /\ u[Len(b) + 1] = c
                                 /\ \A j \in 1..Len(b) : u[j] = b[j]
      BY <3>0
    <3>2. /\ Len(Push(u, w)) = Len(u) + 1 /\ Push(u, w)[Len(u) + 1] = w
          /\ \A j \in 1..Len(u) : Push(u, w)[j] = u[j]
      BY PushProperties
    <3>3. r = Push(u, w)
      BY <2>5, <3>1
    <3>4. \A j \in 1..Len(b) : j \in 1..Len(u)
      BY <2>1, <3>1
    <3>5. Len(b) + 1 \in 1..Len(u) /\ Len(u) + 1 = Len(b) + 2
      BY <2>1, <3>1
    <3> QED
      BY <3>1, <3>2, <3>3, <3>4, <3>5
  \* An earlier acknowledgement would be on its way with this frame.
  <2>7. ASSUME NEW p \in 1..Len(b), b[p].pc = "ack", b[p].m.t = "frag", b[p].m.s = s, f.t = "frag", f.s = s
        PROVE  FALSE
    <3>1. q[p].pc = "ack" /\ q[p].m.s = s /\ p \in 1..Len(q)
      BY <2>1, <2>7 DEF Like, ReadPC
    <3>2. p # Len(q)
      <4>1. p = Len(b) => b # << >> /\ Top(b) = b[p]
        <5>1. Len(<< >>) = 0
          OBVIOUS
        <5> QED
          BY <5>1 DEF Top
      <4> QED
        BY <2>1, <2>7, <4>1 DEF Reader, Reading
    <3>3. p \in 1..Len(q) - 1
      BY <2>1, <3>1, <3>2
    <3>4. Number(stack[d], Answers(d, s)) >= 1
      BY <3>1, <3>3, AckCounts
    <3>5. rx[d] # << >> /\ f.r = d
      BY <1>2 DEF Took
    <3>6. 1 \in 1..Len(rx[d]) /\ f = rx[d][1]
      BY <3>5, HeadHeard
    <3>7. Number(rx[d], Data(s, d)) >= 1
      BY <2>7, <3>5, <3>6, UnreadCounts
    <3> QED
      BY <3>4, <3>7, OneOnWay
  <2>8. ASSUME NEW i \in 1..Len(r), r[i].pc = "ack", r[i].m.t = "frag", r[i].m.s = s
        PROVE  (i \in 1..Len(b) /\ b[i] = r[i]) \/ (i = Len(b) + 1 /\ f.t = "frag" /\ f.s = s)
    <3>1. i \in 1..Len(b) \/ i = Len(b) + 1 \/ i = Len(b) + 2
      BY <2>1, <2>6
    <3> QED
      BY <2>2, <2>4, <2>6, <2>8, <3>1
  <2>9. ASSUME NEW i \in 1..Len(b), NEW j \in 1..Len(b), b[i].pc = "ack", b[i].m.t = "frag", b[i].m.s = s,
               b[j].pc = "ack", b[j].m.t = "frag", b[j].m.s = s
        PROVE  i = j
    <3>1. q[i] = b[i] /\ q[j] = b[j] /\ i \in 1..Len(q) /\ j \in 1..Len(q)
      BY <2>1, <2>9 DEF Like, ReadPC
    <3> QED
      BY <2>9, <3>1 DEF OneAck
  <2>10. OneAck(r, s)
    <3>1. SUFFICES ASSUME NEW i \in 1..Len(r), NEW j \in 1..Len(r), r[i].pc = "ack", r[i].m.t = "frag", r[i].m.s = s,
                          r[j].pc = "ack", r[j].m.t = "frag", r[j].m.s = s
                   PROVE  i = j
      BY DEF OneAck
    <3>2. (i \in 1..Len(b) /\ b[i] = r[i]) \/ (i = Len(b) + 1 /\ f.t = "frag" /\ f.s = s)
      BY <2>8, <3>1
    <3>3. (j \in 1..Len(b) /\ b[j] = r[j]) \/ (j = Len(b) + 1 /\ f.t = "frag" /\ f.s = s)
      BY <2>8, <3>1
    <3> QED
      BY <2>7, <2>9, <3>1, <3>2, <3>3
  <2> QED
    BY <2>5, <2>10
<1> QED
  BY <1>1, <1>2, ReadOldAcks

-----------------------------------------------------------------------------
(* A read keeps track of the fragment that is due.                         *)

\* A message that is returned changes no loop over fragments of other senders.
LEMMA ResumeSame ==
    ASSUME NEW b \in Seq(Call), NEW x \in Frame, NEW s, InLoop(b) /\ Continues(Top(b), x) => x.s # s
    PROVE  Same(b, ResumeStack(b, x), LoopsOf(s))
<1>1. CASE ResumeStack(b, x) = b
  BY <1>1, SameSelf
<1>2. ASSUME b # << >>, NEW c \in Call, ResumeStack(b, x) = SetTop(b, c), c.pc = Top(b).pc, c.m = Top(b).m,
             ResumeStack(b, x) # b
      PROVE  Same(b, ResumeStack(b, x), LoopsOf(s))
  <2>1. Top(b) \notin LoopsOf(s)
    <3>1. SUFFICES ASSUME Top(b).pc = "loop", Top(b).m.s = s
                   PROVE  FALSE
      BY DEF LoopsOf
    <3>2. Continues(Top(b), x)
      BY <1>2, <3>1 DEF ResumeStack
    <3> QED
      BY <1>2, <3>1, <3>2 DEF InLoop, Continues, SamePair
  <2>2. Top(b) \in Call
    BY <1>2, TopProperties
  <2>3. c \notin LoopsOf(s)
    BY <1>2, <2>1, <2>2 DEF LoopsOf
  <2> QED
    BY <1>2, <2>1, <2>3, SameSetTop
<1> QED
  BY <1>1, <1>2, ResumeForms

\* Then no fragment waits for its acknowledgement.
LEMMA ResumeTop ==
    ASSUME NEW b \in Seq(Call), Reader(b), NEW x \in Frame, NEW s
    PROVE  ~TopAck(ResumeStack(b, x), s) /\ (b # << >> => ResumeStack(b, x) # << >>)
<1>1. CASE ResumeStack(b, x) = b
  BY <1>1 DEF TopAck, Reader, Reading
<1>2. ASSUME b # << >>, NEW c \in Call, ResumeStack(b, x) = SetTop(b, c), c.pc = Top(b).pc
      PROVE  ~TopAck(ResumeStack(b, x), s) /\ ResumeStack(b, x) # << >>
  <2>1. Top(SetTop(b, c)) = c /\ SetTop(b, c) # << >>
    BY <1>2, SetTopProperties, BottomTop
  <2> QED
    BY <1>2, <2>1 DEF TopAck, Reader, Reading
<1> QED
  BY <1>1, <1>2, ResumeForms

\* A stack without the call on top has no other loops.
LEMMA NoLoopPop ==
    ASSUME NEW q \in Seq(Call), q # << >>, NEW s, NoLoopOf(q, s)
    PROVE  NoLoopOf(Pop(q), s)
<1>1. Len(Pop(q)) = Len(q) - 1 /\ Len(q) \in Nat /\ \A p \in 1..Len(q) - 1 : Pop(q)[p] = q[p]
  BY PopProperties, LenProperties
<1> QED
  BY <1>1 DEF NoLoopOf

\* While a fragment of s is acknowledged by a read that assembles, no blocking loop is over
\* fragments of s: it would be acknowledging one, too, or be caught.
LEMMA MultiNoLoop ==
    ASSUME NEW d, NEW q \in Seq(Call), NEW frags, StackShape(d, q, frags), ~Aside(q),
           NEW s, OneAck(q, s), TopAck(q, s), Top(q).multi
    PROVE  NoLoopOf(q, s)
<1>1. SUFFICES ASSUME NEW p \in 1..Len(q), q[p].pc = "loop", q[p].m.s = s
               PROVE  FALSE
  BY DEF NoLoopOf, LoopsOf
<1>2. q # << >> /\ Len(q) \in 1..Len(q) /\ Len(q) \in Nat /\ Top(q) = q[Len(q)]
      /\ q[Len(q)].pc = "ack" /\ q[Len(q)].m.t = "frag" /\ q[Len(q)].m.s = s /\ q[Len(q)].multi
  BY TopProperties, LenProperties DEF TopAck, Top
<1>3. p \in 1..Len(q) - 1
  BY <1>1, <1>2
<1>4. p + 1 \in 1..Len(q) /\ q[p + 1].pc = "ack" /\ ~q[p + 1].multi
  BY <1>1, <1>3, CalledByLoop
<1>5. Continues(q[p], q[p + 1].m)
  BY <1>1, <1>3 DEF Aside
<1>6. q[p + 1].m.t = "frag" /\ q[p + 1].m.s = s
  BY <1>1, <1>5 DEF Continues, SamePair
<1>7. p + 1 = Len(q)
  BY <1>2, <1>4, <1>6 DEF OneAck
<1> QED
  BY <1>2, <1>4, <1>7

\* What is handed on when the fragment is due that waits on top of the stack.
LEMMA HandFacts ==
    ASSUME NEW s \in Devices, NEW d, NEW n \in SplitTo(s, d), NEW i \in 0..Len(n.d) - 1
    PROVE  /\ i \in Nat /\ i < Len(n.d) /\ Len(n.d) \in Nat /\ Len(n.d) > 1
           /\ Fragment(n, i) \in Frame /\ Fragment(n, i).t = "frag" /\ Fragment(n, i).s = s /\ Fragment(n, i).r = d
           /\ Fragment(n, i).n = Len(n.d) /\ Fragment(n, i).i = i /\ Fragment(n, i).d[1] = n.d[i + 1]
           /\ Fragment(n, 0).s = s /\ Fragment(n, 0).n = Len(n.d) /\ Fragment(n, 0).i = 0
           /\ Fragment(n, 0).d[1] = n.d[1] /\ Fragment(n, 0).r = d
           /\ n.d \in Seq(Unit)
<1>1. n.d \in Seq(Unit) /\ Len(n.d) \in Nat /\ Len(n.d) > 1
  BY SplitMessage
<1>2. i \in Nat /\ i < Len(n.d) /\ 0 < Len(n.d)
  BY <1>1
<1>3. LET f == Fragment(n, i)
      IN f \in Frame /\ f.t = "frag" /\ f.s = s /\ f.r = d /\ f.n = Len(n.d) /\ f.i = i /\ f.d[1] = n.d[i + 1]
  BY <1>2, FragmentFields
<1>4. LET f == Fragment(n, 0)
      IN f.s = s /\ f.r = d /\ f.n = Len(n.d) /\ f.i = 0 /\ f.d[1] = n.d[0 + 1]
  BY <1>2, FragmentFields
<1> QED
  BY <1>1, <1>2, <1>3, <1>4

\* The blocking loop gets the fragment that is due.
LEMMA HandLoop ==
    ASSUME NEW s \in Devices, NEW d, NEW n, NEW i, NEW q \in Seq(Call), TopAck(q, s), NEW frags,
           Handing(q, frags, s, d, n, i), InLoop(Pop(q)), Continues(Top(Pop(q)), Top(q).m), NEW more
    PROVE  Has(ResumeStack(Pop(q), Top(q).m), more, s, d, n, Succ(n, i))
<1> DEFINE b == Pop(q)
           c == Top(b)
           f == Top(q).m
           r == ResumeStack(b, f)
<1>1. n \in SplitTo(s, d) /\ i \in 0..Len(n.d) - 1 /\ f = Fragment(n, i) /\ Has(q, frags, s, d, n, i)
  BY DEF Handing
<1>2. /\ i \in Nat /\ i < Len(n.d) /\ Len(n.d) \in Nat /\ f.t = "frag" /\ f.s = s /\ f.n = Len(n.d) /\ f.i = i
      /\ f.d[1] = n.d[i + 1] /\ Fragment(n, 0).n = Len(n.d) /\ n.d \in Seq(Unit)
  BY <1>1, HandFacts
<1>3. q # << >> /\ Top(q).pc = "ack"
  BY DEF TopAck
<1>4. /\ b \in Seq(Call) /\ b # << >> /\ Len(b) \in 1..Len(b) /\ Len(b) \in Nat /\ c = b[Len(b)] /\ c \in Call
      /\ Len(b) = Len(q) - 1 /\ Len(q) \in Nat /\ \A j \in 1..Len(b) : b[j] = q[j]
  <2>1. b \in Seq(Call) /\ b # << >> /\ Len(q) \in Nat
    BY <1>3, PopProperties, LenProperties DEF InLoop
  <2>2. Len(b) = Len(q) - 1 /\ \A j \in 1..Len(q) - 1 : b[j] = q[j]
    BY <1>3, PopProperties
  <2>3. c \in Call /\ Len(b) \in 1..Len(b) /\ Len(b) \in Nat
    BY <2>1, TopProperties, LenProperties
  <2> QED
    BY <2>1, <2>2, <2>3 DEF Top
<1>5. c.pc = "loop" /\ c.m.s = s
  BY <1>2 DEF InLoop, Continues, SamePair
<1>6. q[Len(b)] = c /\ c \in LoopsOf(s) /\ Len(b) \in 1..Len(q)
  BY <1>4, <1>5 DEF LoopsOf
<1>7. ~NoLoopOf(q, s)
  BY <1>6 DEF NoLoopOf
<1>8. ~Complete(q, s, d)
  BY <1>3, NotComplete DEF InLoop
<1>9. HasLoop(q, s, n, i) /\ i \in 1..Len(n.d) - 1
  BY <1>1, <1>7, <1>8 DEF Has, NoPart, HasMulti
<1>10. OnlyLoop(q, Len(b), s) /\ LoopHas(c, n, i)
  BY <1>6, <1>9 DEF HasLoop, OnlyLoop
<1>11. c.m = Fragment(n, 0) /\ c.k = i /\ c.m.n = Len(n.d) /\ \A j \in 1..i : c.got[j] = n.d[j]
  BY <1>2, <1>10 DEF LoopHas
<1>12. c \in ReadRecord /\ c.got \in Seq(Unit) /\ Len(c.got) = Len(n.d)
  <2>1. c \in ReadRecord
    BY <1>4, <1>5, CallKinds DEF ReadPC
  <2> QED
    BY <1>5, <1>11, <2>1 DEF ReadRecord
<1> DEFINE g == [c.got EXCEPT ![i + 1] = f.d[1]]
           e == [c EXCEPT !.got = g, !.k = i + 1]
<1>13. i + 1 \in 1..Len(n.d) /\ f.d[1] \in Unit /\ i + 1 \in Nat /\ i + 1 <= Len(n.d)
  <2>1. i + 1 \in 1..Len(n.d)
    BY <1>2
  <2> QED
    BY <1>2, <2>1, ElementOfSeq
<1>14. g \in Seq(Unit) /\ Len(g) = Len(n.d) /\ g[i + 1] = n.d[i + 1] /\ \A j \in 1..i : g[j] = n.d[j]
  <2>1. g \in Seq(Unit) /\ Len(g) = Len(c.got)
    BY <1>12, <1>13, ExceptSeq
  <2>2. i + 1 \in DOMAIN c.got /\ \A j \in 1..i : j \in DOMAIN c.got /\ j # i + 1
    <3>1. DOMAIN c.got = 1..Len(n.d)
      BY <1>12, LenProperties
    <3> QED
      BY <1>2, <1>13, <3>1
  <2> QED
    BY <1>2, <1>11, <1>12, <2>1, <2>2
<1>15. e \in Call /\ e.pc = "loop" /\ e.m = c.m /\ e.k = i + 1 /\ e.got = g
  <2>1. e \in ReadRecord
    BY <1>11, <1>12, <1>13, <1>14, LoopRecordType
  <2> QED
    BY <1>5, <1>12, <2>1 DEF Call, ReadRecord
<1>16. r = SetTop(b, e)
  <2>1. Continues(c, f) /\ f.i >= c.k /\ f.i = i /\ c.k = i
    BY <1>2, <1>11
  <2>2. c = Top(b)
    OBVIOUS
  <2> HIDE DEF b, c, f
  <2>3. ResumeStack(b, f) = SetTop(b, [c EXCEPT !.got[f.i + 1] = f.d[1], !.k = c.k + 1])
    BY <1>4, <1>5, <2>1, <2>2 DEF ResumeStack
  <2> QED
    BY <2>1, <2>3
<1> HIDE DEF g, e, b, c, f, r
<1>17. r \in Seq(Call) /\ Len(r) = Len(b) /\ r[Len(b)] = e /\ \A j \in 1..Len(b) - 1 : r[j] = b[j]
  <2>1. /\ SetTop(b, e) \in Seq(Call) /\ Len(SetTop(b, e)) = Len(b) /\ Top(SetTop(b, e)) = e
        /\ \A j \in 1..Len(b) - 1 : SetTop(b, e)[j] = b[j]
    BY <1>4, <1>15, SetTopProperties
  <2> QED
    BY <1>16, <2>1 DEF Top
<1>18. OnlyLoop(r, Len(b), s)
  <2>1. e \in LoopsOf(s)
    BY <1>5, <1>15 DEF LoopsOf
  <2>2. ASSUME NEW o \in 1..Len(r), r[o] \in LoopsOf(s), o # Len(b)
        PROVE  FALSE
    <3>1. o \in 1..Len(b) - 1 /\ o \in 1..Len(b) /\ o \in 1..Len(q)
      BY <1>4, <1>17, <2>2
    <3>2. q[o] \in LoopsOf(s)
      BY <1>4, <1>17, <2>2, <3>1
    <3> QED
      BY <1>10, <2>2, <3>1, <3>2 DEF OnlyLoop
  <2> QED
    BY <1>4, <1>17, <2>1, <2>2 DEF OnlyLoop
<1>19. LoopHas(e, n, i + 1)
  <2>1. \A j \in 1..(i + 1) : j \in 1..i \/ j = i + 1
    BY <1>2
  <2> QED
    BY <1>11, <1>14, <1>15, <2>1 DEF LoopHas
<1>20. CASE i + 1 < Len(n.d)
  <2>1. Succ(n, i) = i + 1 /\ i + 1 \in 1..Len(n.d) - 1
    BY <1>2, <1>20 DEF Succ
  <2>2. HasLoop(r, s, n, i + 1)
    BY <1>4, <1>17, <1>18, <1>19 DEF HasLoop
  <2> QED
    BY <1>1, <2>1, <2>2 DEF Has, r, b, f
<1>21. CASE ~(i + 1 < Len(n.d))
  <2>1. Succ(n, i) = 0 /\ i + 1 = Len(n.d)
    BY <1>2, <1>21 DEF Succ
  <2>2. Complete(r, s, d)
    BY <1>1, <1>17, <1>18, <1>19, <2>1 DEF Complete
  <2> QED
    BY <2>1, <2>2 DEF Has, r, b, f
<1> QED
  BY <1>20, <1>21

\* Nothing of s is in multi_cache and the first fragment of a message starts the loop.
LEMMA HandStart ==
    ASSUME NEW s \in Devices, NEW d, NEW n, NEW q \in Seq(Call), TopAck(q, s), NEW frags,
           Handing(q, frags, s, d, n, 0), NoLoopOf(q, s), NEW more
    PROVE  /\ Has(Push(Pop(q), LoopStart(Top(q))), more, s, d, n, Succ(n, 0))
           /\ ~TopAck(Push(Pop(q), LoopStart(Top(q))), s)
<1> DEFINE b == Pop(q)
           f == Top(q).m
           e == LoopStart(Top(q))
           r == Push(b, e)
<1>1. n \in SplitTo(s, d) /\ 0 \in 0..Len(n.d) - 1 /\ f = Fragment(n, 0)
  BY DEF Handing
<1>2. /\ Len(n.d) \in Nat /\ Len(n.d) > 1 /\ f.t = "frag" /\ f.s = s /\ f.n = Len(n.d) /\ f.d[1] = n.d[1]
      /\ f \in Frame
  BY <1>1, HandFacts
<1>3. q # << >> /\ Top(q).pc = "ack" /\ Top(q) \in Call /\ f \in Fragments
  BY <1>2, TopProperties DEF TopAck, Fragments
<1>4. e \in Call /\ e.pc = "loop" /\ e.m = f /\ e.k = 1 /\ e.got = [p \in 1..f.n |-> IF p = 1 THEN f.d[1] ELSE Junk]
  BY <1>3, LoopStarts
<1>5. b \in Seq(Call) /\ NoLoopOf(b, s) /\ Len(b) \in Nat
  BY <1>3, NoLoopPop, PopProperties, LenProperties
<1> HIDE DEF b, e, f, r
<1>6. r \in Seq(Call) /\ Len(r) = Len(b) + 1 /\ r[Len(b) + 1] = e /\ Top(r) = e /\ \A j \in 1..Len(b) : r[j] = b[j]
  BY <1>4, <1>5, PushProperties DEF r
<1>7. e.got[1] = n.d[1]
  <2>1. 1 \in 1..f.n
    BY <1>2
  <2> QED
    BY <1>2, <1>4, <2>1
<1>8. OnlyLoop(r, Len(b) + 1, s)
  <2>1. e \in LoopsOf(s) /\ Len(b) + 1 \in 1..Len(r)
    BY <1>2, <1>4, <1>5, <1>6 DEF LoopsOf
  <2>2. ASSUME NEW o \in 1..Len(r), r[o] \in LoopsOf(s), o # Len(b) + 1
        PROVE  FALSE
    <3>1. o \in 1..Len(b)
      BY <1>5, <1>6, <2>2
    <3> QED
      BY <1>5, <1>6, <2>2, <3>1 DEF NoLoopOf
  <2> QED
    BY <1>6, <2>1, <2>2 DEF OnlyLoop
<1>9. LoopHas(e, n, 1)
  <2>1. \A j \in 1..1 : j = 1
    OBVIOUS
  <2> QED
    BY <1>1, <1>4, <1>7, <2>1 DEF LoopHas
<1>10. HasLoop(r, s, n, 1)
  BY <1>6, <1>8, <1>9 DEF HasLoop, OnlyLoop
<1>11. Succ(n, 0) = 1 /\ 1 \in 1..Len(n.d) - 1
  BY <1>2 DEF Succ
<1>12. Has(r, more, s, d, n, Succ(n, 0))
  BY <1>1, <1>10, <1>11 DEF Has
<1>13. ~TopAck(r, s)
  BY <1>4, <1>6 DEF TopAck
<1> QED
  BY <1>12, <1>13 DEF r, b, e

\* A fragment that is due is stored in multi_cache, or completes the message there.
LEMMA HandStored ==
    ASSUME NEW s \in Devices, NEW d, NEW n, NEW i, NEW q \in Seq(Call), TopAck(q, s), NEW frags \in Seq(Fragments),
           Handing(q, frags, s, d, n, i), NoLoopOf(q, s), frags # << >> => SamePair(Top(q).m, frags[1])
    PROVE  LET more == Append(frags, Top(q).m)
           IN /\ Len(more) < more[1].n => Has(Pop(q), more, s, d, n, Succ(n, i))
              /\ ~(Len(more) < more[1].n) => Has(Pop(q), << >>, s, d, n, Succ(n, i))
<1> DEFINE f == Top(q).m
           more == Append(frags, f)
           b == Pop(q)
<1>1. n \in SplitTo(s, d) /\ i \in 0..Len(n.d) - 1 /\ f = Fragment(n, i) /\ Has(q, frags, s, d, n, i)
  BY DEF Handing
<1>2. /\ i \in Nat /\ i < Len(n.d) /\ Len(n.d) \in Nat /\ Len(n.d) > 1 /\ f.t = "frag" /\ f.s = s /\ f.n = Len(n.d)
      /\ Fragment(n, 0).n = Len(n.d) /\ f \in Frame
  BY <1>1, HandFacts
<1>3. q # << >> /\ Top(q).pc = "ack" /\ ~InLoop(q)
  BY DEF TopAck, InLoop
<1>4. NoLoopOf(b, s)
  BY <1>3, NoLoopPop
<1>5. ~Complete(q, s, d) /\ ~HasLoop(q, s, n, i)
  BY <1>3, NotComplete DEF HasLoop, OnlyLoop, NoLoopOf
<1>6. (i = 0 /\ NoPart(q, frags, s)) \/ (i \in 1..Len(n.d) - 1 /\ HasMulti(q, frags, s, n, i))
  BY <1>1, <1>5 DEF Has
<1>7. Len(frags) = i /\ \A p \in 1..i : frags[p] = Fragment(n, p - 1)
  <2>1. CASE i = 0
    <3>1. frags = << >>
      BY <1>2, <1>6, <2>1 DEF NoPart, SamePair
    <3>2. Len(<< >>) = 0
      OBVIOUS
    <3> QED
      BY <2>1, <3>1, <3>2
  <2>2. CASE i # 0
    BY <1>6, <2>2 DEF HasMulti
  <2> QED
    BY <2>1, <2>2
<1> HIDE DEF f, b
<1>8. /\ Len(more) = i + 1 /\ more[i + 1] = f /\ \A p \in 1..i : more[p] = frags[p]
      /\ more \in Seq(Frame)
  <2>1. frags \in Seq(Frame)
    BY DEF Fragments
  <2> QED
    BY <1>2, <1>7, <2>1, AppendProperties
<1> HIDE DEF more
<1>9. \A p \in 1..(i + 1) : more[p] = Fragment(n, p - 1)
  <2>1. \A p \in 1..(i + 1) : p \in 1..i \/ (p = i + 1 /\ p - 1 = i)
    BY <1>2
  <2> QED
    BY <1>1, <1>7, <1>8, <2>1
<1>10. more[1] = Fragment(n, 0) /\ more[1].n = Len(n.d)
  <2>1. 1 \in 1..(i + 1) /\ 1 - 1 = 0
    BY <1>2
  <2> QED
    BY <1>2, <1>9, <2>1
<1>11. ASSUME Len(more) < more[1].n
       PROVE  Has(b, more, s, d, n, Succ(n, i))
  <2>1. Succ(n, i) = i + 1 /\ i + 1 \in 1..Len(n.d) - 1
    BY <1>2, <1>8, <1>10, <1>11 DEF Succ
  <2>2. HasMulti(b, more, s, n, i + 1)
    BY <1>4, <1>8, <1>9 DEF HasMulti
  <2> QED
    BY <1>1, <2>1, <2>2 DEF Has
<1>12. ASSUME ~(Len(more) < more[1].n)
       PROVE  Has(b, << >>, s, d, n, Succ(n, i))
  <2>1. Succ(n, i) = 0
    BY <1>2, <1>8, <1>10, <1>12 DEF Succ
  <2>2. NoPart(b, << >>, s)
    BY <1>4 DEF NoPart
  <2> QED
    BY <2>1, <2>2 DEF Has
<1> QED
  BY <1>11, <1>12 DEF more, f, b

\* The frame that waits on top of the stack is guarded by multi_cache.
LEMMA TopGuarded ==
    ASSUME OriginInv, ReadsGuarded, NEW d \in Devices, stack[d] # << >>, Top(stack[d]).pc = "ack",
           Top(stack[d]).m.t = "frag", Top(stack[d]).multi, multi[d] # << >>
    PROVE  SamePair(Top(stack[d]).m, multi[d][1])
<1>1. Top(stack[d]) = stack[d][Len(stack[d])] /\ Len(stack[d]) \in 1..Len(stack[d])
  <2>1. stack[d] \in Seq(Call)
    BY DEF OriginInv, TypeOK
  <2> QED
    BY <2>1, TopProperties DEF Top
<1>2. Guarded(stack[d], multi[d])
  BY DEF ReadsGuarded
<1> QED
  BY <1>1, <1>2 DEF Guarded

LEMMA HandRead ==
    ASSUME OriginInv, ReadsGuarded, NEW d \in Devices, Shape(d), NoFrags(d), Resumed(d), ~Frozen(d), ~Frozen(d)',
           NEW s \in Others(d), OneAck(stack[d], s), TopAck(stack[d], s),
           NEW n, NEW i, Handing(stack[d], multi[d], s, d, n, i)
    PROVE  Has(stack'[d], multi'[d], s, d, n, Succ(n, i)) /\ ~TopAck(stack'[d], s)
<1> DEFINE q == stack[d]
           c == Top(q)
           b == Pop(q)
           f == c.m
           frags == multi[d]
<1>1. q # << >> /\ c.pc = "ack" /\ f.t = "frag" /\ f.s = s
  BY DEF TopAck
<1>2. /\ q \in Seq(Call) /\ c \in Call /\ f \in Frame /\ b \in Seq(Call) /\ Reader(b) /\ c.multi \in BOOLEAN
      /\ ~c.multi => InLoop(b)
  BY <1>1, AckTop
<1>3. TypeOK /\ frags \in Seq(Fragments) /\ multi \in [Devices -> Seq(Fragments)] /\ stack \in [Devices -> Seq(Call)]
      /\ s \in Devices
  BY DEF OriginInv, TypeOK, Others
<1>4. n \in SplitTo(s, d) /\ i \in 0..Len(n.d) - 1 /\ f = Fragment(n, i) /\ Has(q, frags, s, d, n, i)
  BY DEF Handing
<1>5. f.i = i /\ i \in Nat
  BY <1>3, <1>4, HandFacts
<1>6. c.multi => NoLoopOf(q, s)
  <2>1. StackShape(d, q, frags) /\ ~Aside(q)
    BY DEF Shape, Frozen
  <2> QED
    BY <1>2, <2>1, MultiNoLoop
<1>7. c.multi /\ frags # << >> => SamePair(f, frags[1])
  BY <1>1, TopGuarded
<1>8. CASE Gave(d)
  <2>1. ~c.multi /\ InLoop(b)
    BY <1>1, <1>2, <1>8 DEF Gave
  <2>2. Continues(Top(b), f)
    <3>1. SUFFICES ASSUME ~Continues(Top(b), f) PROVE FALSE
      OBVIOUS
    <3>2. Stuck(stack'[d], cached'[d])
      BY <1>8, <2>1, <3>1, GaveAside
    <3> QED
      BY <3>2 DEF Frozen
  <2>3. stack'[d] = ResumeStack(b, f)
    BY <1>3, <1>8, Returns DEF Gave
  <2>4. Has(ResumeStack(b, f), multi'[d], s, d, n, Succ(n, i))
    BY <1>2, <1>3, <2>1, <2>2, HandLoop
  <2>5. ~TopAck(ResumeStack(b, f), s)
    BY <1>2, ResumeTop
  <2> QED
    BY <2>3, <2>4, <2>5
<1>9. ASSUME Passed(d), c.multi
      PROVE  FALSE
  <2>1. frags = << >> /\ i # 0
    BY <1>5, <1>9 DEF Passed
  <2>2. HasMulti(q, frags, s, n, i)
    BY <1>4, <1>6, <1>9, <2>1 DEF Has, HasLoop, OnlyLoop, NoLoopOf
  <2>3. Len(<< >>) = 0
    OBVIOUS
  <2> QED
    BY <2>1, <2>2, <2>3 DEF HasMulti
<1>10. ASSUME Entered(d), c.multi
       PROVE  Has(stack'[d], multi'[d], s, d, n, Succ(n, i)) /\ ~TopAck(stack'[d], s)
  <2>1. i = 0 /\ stack'[d] = Push(b, LoopStart(c))
    BY <1>3, <1>5, <1>10 DEF Entered
  <2>2. Handing(q, frags, s, d, n, 0)
    BY <2>1
  <2>3. /\ Has(Push(b, LoopStart(c)), multi'[d], s, d, n, Succ(n, 0))
        /\ ~TopAck(Push(b, LoopStart(c)), s)
    BY <1>2, <1>3, <1>6, <1>10, <2>2, HandStart
  <2> QED
    BY <2>1, <2>3
<1>11. c.multi => LET more == Append(frags, f)
                  IN /\ Len(more) < more[1].n => Has(b, more, s, d, n, Succ(n, i))
                     /\ ~(Len(more) < more[1].n) => Has(b, << >>, s, d, n, Succ(n, i))
  BY <1>2, <1>3, <1>6, <1>7, HandStored
<1>12. ~TopAck(b, s)
  BY <1>2 DEF Reader, Reading, TopAck
<1>13. ASSUME Stacked(d), c.multi
       PROVE  Has(stack'[d], multi'[d], s, d, n, Succ(n, i)) /\ ~TopAck(stack'[d], s)
  <2>1. stack'[d] = b /\ multi'[d] = Append(frags, f) /\ Len(Append(frags, f)) < Append(frags, f)[1].n
    BY <1>3, <1>13 DEF Stacked, Grown
  <2> QED
    BY <1>11, <1>12, <1>13, <2>1
<1>14. ASSUME Assembled(d), c.multi
       PROVE  Has(stack'[d], multi'[d], s, d, n, Succ(n, i)) /\ ~TopAck(stack'[d], s)
  <2>1. multi'[d] = << >> /\ ~(Len(Append(frags, f)) < Append(frags, f)[1].n)
        /\ ReturnMessage(d, b, cached[d], Joint(d))
    BY <1>3, <1>14 DEF Assembled, Grown
  <2>2. Joint(d) \in Frame /\ Joint(d).t = "msg"
    BY <1>1, JointType
  <2>3. stack'[d] = ResumeStack(b, Joint(d))
    BY <1>3, <2>1, Returns
  <2>4. stack'[d] = b
    BY <2>2, <2>3, ResumeFixed DEF Continues
  <2> QED
    BY <1>11, <1>12, <1>14, <2>1, <2>4
<1> QED
  BY <1>8, <1>9, <1>10, <1>13, <1>14 DEF Resumed

\* What is due does not change while no fragment of s is handed on and nothing of s moves.
LEMMA DueQuiet ==
    ASSUME NEW q, NEW r, NEW frags, NEW s, NEW d, NEW m, NEW j, Due(q, frags, s, d, m, j),
           ~TopAck(q, s), ~TopAck(r, s), Same(q, r, LoopsOf(s)), ~Complete(q, s, d)
    PROVE  Due(r, frags, s, d, m, j)
BY HasSame DEF Due

\* Frames of other senders, and messages, change nothing for s.
LEMMA OtherRead ==
    ASSUME OriginInv, ReadsGuarded, NEW d \in Devices, Shape(d), Resumed(d),
           NEW s \in Others(d), ~TopAck(stack[d], s), NEW m, NEW j, Due(stack[d], multi[d], s, d, m, j)
    PROVE  Due(stack'[d], multi'[d], s, d, m, j)
<1> DEFINE q == stack[d]
           c == Top(q)
           b == Pop(q)
           f == c.m
           frags == multi[d]
<1>1. q # << >> /\ c.pc = "ack" /\ (f.t = "frag" => f.s # s)
  BY DEF TopAck, Resumed
<1>2. /\ q \in Seq(Call) /\ c \in Call /\ f \in Frame /\ b \in Seq(Call) /\ Reader(b) /\ c.multi \in BOOLEAN
      /\ ~c.multi => InLoop(b)
      /\ f.t = "frag" => f \in Fragments
  BY <1>1, AckTop
<1>3. TypeOK /\ frags \in Seq(Fragments) /\ multi \in [Devices -> Seq(Fragments)] /\ stack \in [Devices -> Seq(Call)]
      /\ s \in Devices
  BY DEF OriginInv, TypeOK, Others
<1>4. Has(q, frags, s, d, m, j) /\ ~Complete(q, s, d)
  BY <1>1, <1>3, NotComplete DEF Due, InLoop
<1>5. Same(q, b, LoopsOf(s)) /\ ~TopAck(b, s)
  <2>1. c \notin LoopsOf(s)
    BY <1>1 DEF LoopsOf
  <2> QED
    BY <1>1, <1>2, <2>1, SamePop DEF Reader, Reading, TopAck
<1>6. Has(b, frags, s, d, m, j)
  BY <1>4, <1>5, HasSame
<1>7. ASSUME NEW x \in Frame, x.t = "frag" => x.s # s
      PROVE  Same(q, ResumeStack(b, x), LoopsOf(s)) /\ ~TopAck(ResumeStack(b, x), s)
  <2>1. Same(b, ResumeStack(b, x), LoopsOf(s))
    BY <1>2, <1>7, ResumeSame DEF Continues
  <2> QED
    BY <1>2, <1>5, <2>1, SameTrans, ResumeTop
<1>8. CASE Gave(d)
  <2>1. stack'[d] = ResumeStack(b, f) /\ multi'[d] = frags
    BY <1>3, <1>8, Returns DEF Gave
  <2>2. Same(q, ResumeStack(b, f), LoopsOf(s)) /\ ~TopAck(ResumeStack(b, f), s)
    BY <1>1, <1>2, <1>7
  <2> QED
    BY <1>4, <2>1, <2>2, DueQuiet
<1>9. CASE Passed(d)
  <2>1. stack'[d] = b /\ multi'[d] = frags
    BY <1>3, <1>9 DEF Passed
  <2> QED
    BY <1>4, <1>5, <2>1, DueQuiet
<1>10. ASSUME Entered(d), f.t = "frag"
       PROVE  Due(stack'[d], multi'[d], s, d, m, j)
  <2>1. stack'[d] = Push(b, LoopStart(c)) /\ multi'[d] = frags
    BY <1>3, <1>10 DEF Entered
  <2>2. LoopStart(c) \in Call /\ LoopStart(c).pc = "loop" /\ LoopStart(c).m = f
    BY <1>1, <1>2, <1>10, LoopStarts
  <2>3. LoopStart(c) \notin LoopsOf(s)
    BY <1>1, <1>10, <2>2 DEF LoopsOf
  <2>4. Same(b, Push(b, LoopStart(c)), LoopsOf(s)) /\ Top(Push(b, LoopStart(c))) = LoopStart(c)
    BY <1>2, <2>2, <2>3, SamePush, PushProperties
  <2>5. Same(q, Push(b, LoopStart(c)), LoopsOf(s)) /\ ~TopAck(Push(b, LoopStart(c)), s)
    BY <1>5, <2>2, <2>4, SameTrans DEF TopAck
  <2> QED
    BY <1>4, <2>1, <2>5, DueQuiet
\* multi_cache is closed, or it gets a fragment of its conversation.
<1>11. ASSUME f.t = "frag", c.multi
       PROVE  ~HasMulti(q, frags, s, m, j) \/ ~(m \in SplitTo(s, d) /\ j \in 1..Len(m.d) - 1)
  <2>1. SUFFICES ASSUME HasMulti(q, frags, s, m, j), m \in SplitTo(s, d), j \in 1..Len(m.d) - 1
                 PROVE  FALSE
    OBVIOUS
  <2>2. Len(m.d) \in Nat /\ Len(m.d) > 1
    BY <1>3, <2>1, SplitMessage
  <2>3. 1 \in 1..j /\ 0 \in 0..Len(m.d) - 1 /\ 1 - 1 = 0
    BY <2>1, <2>2
  <2>4. frags[1] = Fragment(m, 0) /\ Len(frags) # 0
    BY <2>1, <2>3 DEF HasMulti
  <2>5. frags[1].s = s
    BY <1>3, <2>1, <2>3, <2>4, HandFacts
  <2>6. frags # << >>
    <3>1. Len(<< >>) = 0
      OBVIOUS
    <3> QED
      BY <2>4, <3>1
  <2>7. SamePair(f, frags[1])
    BY <1>1, <1>11, <2>6, TopGuarded
  <2> QED
    BY <1>1, <1>11, <2>5, <2>7 DEF SamePair
<1>12. ASSUME f.t = "frag", c.multi, NEW more, more # << >> => more[1].s # s \/ (frags # << >> /\ more[1].s = frags[1].s)
       PROVE  Has(b, more, s, d, m, j)
  <2>1. ~Complete(b, s, d)
    <3>1. SUFFICES ASSUME Complete(b, s, d) PROVE FALSE
      OBVIOUS
    <3>2. Len(b) \in 1..Len(b) /\ b[Len(b)] \in LoopsOf(s) /\ q[Len(b)] = b[Len(b)] /\ Len(b) \in 1..Len(q)
      BY <1>5, <3>1 DEF Complete, OnlyLoop, Same
    <3>3. b # << >> /\ InLoop(b)
      <4>1. Len(<< >>) = 0
        OBVIOUS
      <4> QED
        BY <3>2, <4>1 DEF InLoop, Top, LoopsOf
    <3> QED
      BY <1>1, <1>2, <1>12, <3>3, AckTop
  <2>2. \/ j = 0 /\ NoPart(b, frags, s)
        \/ m \in SplitTo(s, d) /\ j \in 1..Len(m.d) - 1 /\ HasLoop(b, s, m, j)
    BY <1>5, <1>6, <1>11, <1>12, <2>1, NoLoopSame DEF Has, HasMulti, NoPart, Same, NoLoopOf
  <2> QED
    BY <1>12, <2>2 DEF Has, NoPart
<1>13. ASSUME Stacked(d), f.t = "frag", c.multi
       PROVE  Due(stack'[d], multi'[d], s, d, m, j)
  <2>1. stack'[d] = b /\ multi'[d] = Append(frags, f)
    BY <1>3, <1>13 DEF Stacked, Grown
  <2>2. Append(frags, f)[1] = IF frags = << >> THEN f ELSE frags[1]
    <3>1. frags \in Seq(Frame) /\ Len(frags) \in Nat
      BY <1>3, LenProperties DEF Fragments
    <3>2. Append(frags, f)[Len(frags) + 1] = f /\ \A p \in 1..Len(frags) : Append(frags, f)[p] = frags[p]
      BY <1>2, <3>1, AppendProperties
    <3>3. frags # << >> => 1 \in 1..Len(frags)
      BY <3>1, EmptySeq
    <3>4. Len(<< >>) = 0
      OBVIOUS
    <3> QED
      BY <3>2, <3>3, <3>4
  <2>3. Has(b, Append(frags, f), s, d, m, j)
    BY <1>1, <1>12, <1>13, <2>2
  <2> QED
    BY <1>5, <2>1, <2>3 DEF Due
<1>14. ASSUME Assembled(d), f.t = "frag", c.multi
       PROVE  Due(stack'[d], multi'[d], s, d, m, j)
  <2>1. multi'[d] = << >> /\ ReturnMessage(d, b, cached[d], Joint(d))
    BY <1>3, <1>14 DEF Assembled
  <2>2. Joint(d) \in Frame /\ Joint(d).t = "msg"
    BY <1>1, <1>14, JointType
  <2>3. stack'[d] = ResumeStack(b, Joint(d))
    BY <1>3, <2>1, Returns
  <2>4. stack'[d] = b
    BY <2>2, <2>3, ResumeFixed DEF Continues
  <2>5. Has(b, << >>, s, d, m, j)
    BY <1>12, <1>14
  <2> QED
    BY <1>5, <2>1, <2>4, <2>5 DEF Due
<1> QED
  BY <1>8, <1>9, <1>10, <1>13, <1>14 DEF Resumed

\* The loop that has all fragments returns them.
LEMMA FinishedRead ==
    ASSUME OriginInv, NEW d \in Devices, Shape(d), Finished(d),
           NEW s \in Others(d), NEW m, NEW j, Due(stack[d], multi[d], s, d, m, j)
    PROVE  Due(stack'[d], multi'[d], s, d, m, j)
<1> DEFINE q == stack[d]
           c == Top(q)
           b == Pop(q)
<1>1. InLoop(q) /\ c.k >= c.m.n
  BY DEF Finished
<1>2. /\ q \in Seq(Call) /\ c \in ReadRecord /\ c.k \in Nat /\ multi[d] = << >> /\ b \in Seq(Call) /\ Reader(b)
      /\ ~InLoop(b) /\ LoopMessage(c) \in Frame /\ LoopMessage(c).t = "msg" /\ c.pc = "loop" /\ q # << >>
  BY <1>1, LoopTop DEF LoopMessage, WholeMessage, InLoop
<1>3. TypeOK /\ s \in Devices /\ multi'[d] = multi[d]
  BY DEF OriginInv, Others, Finished
<1>4. stack'[d] = b
  <2>1. stack'[d] = ResumeStack(b, LoopMessage(c))
    BY <1>3, Returns DEF Finished
  <2> QED
    BY <1>2, <2>1, ResumeFixed DEF Continues
<1>5. ~TopAck(q, s) /\ ~TopAck(b, s)
  BY <1>2 DEF TopAck, Reader, Reading
<1>6. Has(q, multi[d], s, d, m, j)
  BY <1>5 DEF Due
<1>7. Len(q) \in 1..Len(q) /\ c = q[Len(q)] /\ c \in Call
  BY <1>2, TopProperties DEF Top
<1>8. CASE c.m.s # s
  <2>1. c \notin LoopsOf(s)
    BY <1>8 DEF LoopsOf
  <2>2. Same(q, b, LoopsOf(s))
    BY <1>2, <2>1, SamePop
  <2>3. ~Complete(q, s, d)
    BY <1>7, <2>1 DEF Complete, OnlyLoop
  <2> QED
    BY <1>3, <1>4, <1>5, <2>2, <2>3, DueQuiet
<1>9. CASE c.m.s = s
  <2>1. c \in LoopsOf(s) /\ ~NoLoopOf(q, s)
    BY <1>2, <1>7, <1>9 DEF LoopsOf, NoLoopOf
  <2>2. ASSUME m \in SplitTo(s, d), j \in 1..Len(m.d) - 1, HasLoop(q, s, m, j)
        PROVE  FALSE
    <3>1. LoopHas(c, m, j)
      BY <1>7, <2>1, <2>2 DEF HasLoop, OnlyLoop
    <3>2. c.k = j /\ c.m.n = Len(m.d)
      BY <3>1 DEF LoopHas, Fragment
    <3>3. Len(m.d) \in Nat
      BY <1>3, <2>2, SplitMessage
    <3> QED
      BY <1>1, <2>2, <3>2, <3>3
  <2>3. j = 0 /\ Complete(q, s, d)
    BY <1>6, <2>1, <2>2 DEF Has, NoPart, HasMulti
  <2>4. OnlyLoop(q, Len(q), s)
    BY <2>3 DEF Complete
  <2>5. NoLoopOf(b, s)
    <3>1. Len(b) = Len(q) - 1 /\ Len(q) \in Nat /\ \A p \in 1..Len(q) - 1 : b[p] = q[p]
      BY <1>2, PopProperties, LenProperties
    <3>2. \A p \in 1..Len(b) : p \in 1..Len(q) - 1 /\ p \in 1..Len(q) /\ p # Len(q)
      BY <3>1
    <3> QED
      BY <2>4, <3>1, <3>2 DEF NoLoopOf, OnlyLoop
  <2>6. Has(b, multi[d], s, d, m, j)
    BY <1>2, <2>3, <2>5 DEF Has, NoPart
  <2> QED
    BY <1>3, <1>4, <1>5, <2>6 DEF Due
<1> QED
  BY <1>8, <1>9

\* A read keeps track of the fragment of s that is due, unless the receiver is caught.
LEMMA DueRead ==
    ASSUME OriginInv, ReadsGuarded, NEW d \in Devices, Shape(d), NoFrags(d), ReadKind(d), ~Frozen(d), ~Frozen(d)',
           NEW s \in Others(d), OneAck(stack[d], s), NEW m, NEW j, Due(stack[d], multi[d], s, d, m, j)
    PROVE  Due(stack'[d], multi'[d], s, d, m, j)
<1> DEFINE q == stack[d]
           frags == multi[d]
<1>1. TypeOK /\ q \in Seq(Call) /\ stack \in [Devices -> Seq(Call)] /\ s \in Devices
  BY DEF OriginInv, TypeOK, Others
<1>2. CASE Recached(d)
  <2>1. q = << >>
    <3>1. SUFFICES ASSUME InLoop(q), Top(q).k < Top(q).m.n
                   PROVE  FALSE
      BY <1>2 DEF Recached
    <3>2. ~Stuck(q, cached[d])
      BY DEF Frozen
    <3>3. \A p \in 1..Len(cached[d]) : ~Continues(Top(q), cached[d][p])
      BY <3>2 DEF NoFrags, Continues
    <3> QED
      BY <1>2, <3>1, <3>2, <3>3 DEF Recached, Stuck
  <2>2. stack'[d] = ResumeStack(q, Head(cached[d])) /\ multi'[d] = frags
    BY <1>1, <1>2, Returns DEF Recached
  <2>3. stack'[d] = q
    BY <2>1, <2>2 DEF ResumeStack
  <2> QED
    BY <2>2, <2>3
<1>3. CASE Resumed(d)
  <2>1. CASE TopAck(q, s)
    <3>1. PICK n \in SplitTo(s, d) : \E i \in 0..Len(n.d) - 1 :
             Handing(q, frags, s, d, n, i) /\ j = Succ(n, i) /\ (j > 0 => m = n)
      BY <2>1 DEF Due
    <3>2. PICK i \in 0..Len(n.d) - 1 : Handing(q, frags, s, d, n, i) /\ j = Succ(n, i) /\ (j > 0 => m = n)
      BY <3>1
    <3>3. Has(stack'[d], multi'[d], s, d, n, j) /\ ~TopAck(stack'[d], s)
      BY <1>3, <2>1, <3>2, HandRead
    <3>4. j \in Nat
      <4>1. Len(n.d) \in Nat
        BY <1>1, SplitMessage
      <4> QED
        BY <3>2, <4>1 DEF Succ
    <3>5. CASE j = 0
      BY <3>3, <3>5 DEF Due, Has
    <3>6. CASE j # 0
      BY <3>2, <3>3, <3>4, <3>6 DEF Due
    <3> QED
      BY <3>5, <3>6
  <2>2. CASE ~TopAck(q, s)
    BY <1>3, <2>2, OtherRead
  <2> QED
    BY <2>1, <2>2
<1>4. CASE Finished(d)
  BY <1>4, FinishedRead
<1>5. ASSUME NEW b, BaseOf(d, b), Dropped(d, b) \/ Took(d, b) \/ Overheard(d, b)
      PROVE  Due(stack'[d], multi'[d], s, d, m, j)
  <2>1. b \in Seq(Call) /\ Like(q, b) /\ Reader(b) /\ (~InLoop(q) <=> ~InLoop(b))
    BY <1>5, BaseLike
  <2>2. Same(q, b, LoopsOf(s)) /\ ~TopAck(b, s) /\ ~TopAck(q, s)
    <3>1. Same(q, b, LoopsOf(s))
      BY <2>1, SameLike, SameLess, LoopReads
    <3>2. ~TopAck(b, s)
      BY <2>1 DEF Reader, Reading, TopAck
    <3>3. ~TopAck(q, s)
      BY <1>1, <2>1, <3>2, LikeTop DEF TopAck, ReadPC
    <3> QED
      BY <3>1, <3>2, <3>3
  <2>3. ~Complete(q, s, d)
    <3>1. InLoop(q) => Top(q).k < Top(q).m.n
      BY <1>5, <2>1, BaseLoop
    <3> QED
      BY <1>1, <3>1, NotComplete
  <2>4. multi'[d] = frags
    BY <1>5 DEF Dropped, Took, Overheard
  <2>5. CASE Dropped(d, b)
    <3>1. stack'[d] = b
      BY <1>1, <2>5 DEF Dropped
    <3> QED
      BY <2>2, <2>3, <2>4, <3>1, DueQuiet
  <2>6. CASE Overheard(d, b)
    <3> DEFINE x == Head(rx[d])
    <3>1. x \in Frame /\ stack'[d] = ResumeStack(b, x)
      BY <1>1, <2>6, HeadHeard, Returns DEF Overheard
    <3>2. ~(InLoop(b) /\ Continues(Top(b), x))
      <4>1. SUFFICES ASSUME InLoop(b), Continues(Top(b), x) PROVE FALSE
        OBVIOUS
      <4>2. StackShape(d, b, frags)
        BY <1>5, BaseLike
      <4>3. Len(b) \in 1..Len(b) /\ Top(b) = b[Len(b)]
        BY <2>1, <4>1, TopProperties DEF InLoop, Top
      <4>4. Top(b).m.r = d
        BY <4>1, <4>2, <4>3 DEF StackShape, CallShape, InLoop
      <4> QED
        BY <2>6, <4>1, <4>4 DEF Overheard, Continues, SamePair
    <3>3. Same(b, ResumeStack(b, x), LoopsOf(s)) /\ ~TopAck(ResumeStack(b, x), s)
      BY <2>1, <3>1, <3>2, ResumeSame, ResumeTop
    <3>4. Same(q, ResumeStack(b, x), LoopsOf(s))
      BY <2>2, <3>3, SameTrans
    <3> QED
      BY <2>2, <2>3, <2>4, <3>1, <3>3, <3>4, DueQuiet
  <2>7. CASE Took(d, b)
    <3>1. PICK c \in Call : /\ c.pc = "ack" /\ c.m = Head(rx[d])
                            /\ stack' = [stack EXCEPT ![d] = Push(Push(b, c), WriteCall(Ack(d, c.m.s), FALSE))]
      BY <2>7 DEF Took
    <3>2. c.m.s \in Addresses /\ d \in Addresses
      BY FrameOf DEF Frame, Addresses
    <3>3. WriteCall(Ack(d, c.m.s), FALSE) \in Call /\ WriteCall(Ack(d, c.m.s), FALSE).pc = "drain"
      <4>1. Ack(d, c.m.s) \in Frame
        BY <3>2, ShortType
      <4>2. WriteCall(Ack(d, c.m.s), FALSE) \in Call
        BY <4>1, WriteCallType
      <4>3. Len(<< >>) = 0
        OBVIOUS
      <4> QED
        BY <4>2, <4>3 DEF WriteCall, Ack, Short
    <3>4. PICK w \in Call : w = WriteCall(Ack(d, c.m.s), FALSE) /\ w.pc = "drain"
      BY <3>3
    <3>5. c \notin LoopsOf(s) /\ w \notin LoopsOf(s)
      BY <3>1, <3>4 DEF LoopsOf
    <3>6. PICK u \in Seq(Call) : u = Push(b, c) /\ Same(b, u, LoopsOf(s))
      <4>1. Push(b, c) \in Seq(Call)
        BY <2>1, PushProperties
      <4>2. Same(b, Push(b, c), LoopsOf(s))
        BY <2>1, <3>5, SamePush
      <4> QED
        BY <4>1, <4>2
    <3>7. Same(u, Push(u, w), LoopsOf(s)) /\ Top(Push(u, w)) = w
      BY <3>5, SamePush, PushProperties
    <3>8. stack'[d] = Push(u, w)
      BY <1>1, <3>1, <3>4, <3>6
    <3>9. Same(q, Push(u, w), LoopsOf(s))
      BY <2>2, <3>6, <3>7, SameTrans
    <3>10. ~TopAck(Push(u, w), s)
      BY <3>4, <3>7 DEF TopAck
    <3> QED
      BY <2>2, <2>3, <2>4, <3>8, <3>9, <3>10, DueQuiet
  <2> QED
    BY <1>5, <2>5, <2>6, <2>7
<1> QED
  BY <1>2, <1>3, <1>4, <1>5 DEF ReadKind

-----------------------------------------------------------------------------
(* Fragments that are not yet acknowledged.                                *)

PartsTo(s, d) == {f \in Frame : f.t = "frag" /\ f.s = s /\ f.r = d}
NonePending(s, d) == \A f \in PartsTo(s, d) : ~Pending(d, f)

\* The stack of a read that takes a frame.
LEMMA TookStack ==
    ASSUME OriginInv, NEW d \in Devices, Shape(d), NEW b, BaseOf(d, b), Took(d, b)
    PROVE  /\ b \in Seq(Call) /\ Len(b) \in Nat
           /\ \E c, w \in Call : /\ c.pc = "ack" /\ c.m = Head(rx[d]) /\ w.pc = "drain"
                                 /\ Len(stack'[d]) = Len(b) + 2
                                 /\ stack'[d][Len(b) + 1] = c /\ stack'[d][Len(b) + 2] = w
                                 /\ \A j \in 1..Len(b) : stack'[d][j] = b[j]
<1>1. b \in Seq(Call) /\ Len(b) \in Nat /\ stack \in [Devices -> Seq(Call)]
  BY BaseLike, LenProperties DEF OriginInv, TypeOK
<1>2. PICK c \in Call : /\ c.pc = "ack" /\ c.m = Head(rx[d])
                        /\ stack' = [stack EXCEPT ![d] = Push(Push(b, c), WriteCall(Ack(d, c.m.s), FALSE))]
  BY DEF Took
<1>3. c.m.s \in Addresses /\ d \in Addresses
  BY FrameOf DEF Frame, Addresses
<1>4. WriteCall(Ack(d, c.m.s), FALSE) \in Call /\ WriteCall(Ack(d, c.m.s), FALSE).pc = "drain"
  <2>1. Ack(d, c.m.s) \in Frame
    BY <1>3, ShortType
  <2>2. WriteCall(Ack(d, c.m.s), FALSE) \in Call
    BY <2>1, WriteCallType
  <2>3. Len(<< >>) = 0
    OBVIOUS
  <2> QED
    BY <2>2, <2>3 DEF WriteCall, Ack, Short
<1>5. PICK w \in Call : w = WriteCall(Ack(d, c.m.s), FALSE) /\ w.pc = "drain"
  BY <1>4
<1>6. Push(b, c) \in Seq(Call) /\ Len(Push(b, c)) = Len(b) + 1 /\ Push(b, c)[Len(b) + 1] = c
      /\ \A j \in 1..Len(b) : Push(b, c)[j] = b[j]
  BY <1>1, PushProperties
<1>7. PICK u \in Seq(Call) : /\ u = Push(b, c) /\ Len(u) = Len(b) + 1 /\ u[Len(b) + 1] = c
                             /\ \A j \in 1..Len(b) : u[j] = b[j]
  BY <1>6
<1>8. Len(Push(u, w)) = Len(u) + 1 /\ Push(u, w)[Len(u) + 1] = w /\ \A j \in 1..Len(u) : Push(u, w)[j] = u[j]
  BY PushProperties
<1>9. stack'[d] = Push(u, w)
  BY <1>1, <1>2, <1>5, <1>7
<1>10. /\ Len(u) + 1 = Len(b) + 2 /\ Len(b) + 1 \in 1..Len(u)
       /\ \A j \in 1..Len(b) : j \in 1..Len(u)
  BY <1>1, <1>7
<1> QED
  BY <1>1, <1>2, <1>5, <1>7, <1>8, <1>9, <1>10

\* A read makes no frame pending that was not.
LEMMA ReadPending ==
    ASSUME OriginInv, NEW d \in Devices, Shape(d), ReadKind(d), ReadShape(d), NEW f, Pending(d, f)'
    PROVE  Pending(d, f)
<1> DEFINE q == stack[d]
           r == stack'[d]
<1>1. ASSUME Unread(d, f)' PROVE Pending(d, f)
  <2>1. PICK p \in 1..Len(rx'[d]) : rx'[d][p] = f
    BY <1>1 DEF Unread
  <2>2. \E o \in 1..Len(rx[d]) : rx'[d][p] = rx[d][o]
    BY ReadBus
  <2> QED
    BY <2>1, <2>2 DEF Pending, Unread
<1>2. ASSUME NEW p \in 1..Len(r) - 1, r[p].pc = "ack", r[p].m = f
      PROVE  Pending(d, f)
  <2>1. q \in Seq(Call) /\ Len(q) \in Nat
    BY LenProperties DEF OriginInv, TypeOK
  <2>2. PICK b \in Seq(Call) : Resumable(q, b) /\ ReadForm(d, b, r)
    BY KindForms
  <2>3. /\ \A i \in 1..Len(b) : i \in 1..Len(q) /\ b[i].pc = q[i].pc /\ b[i].m = q[i].m
        /\ q # << >> /\ Top(q).pc = "ack" => b = Pop(q)
        /\ Len(b) \in Nat
    BY <2>1, <2>2, ResumableBelow, LenProperties
  <2>4. ASSUME p \in 1..Len(b), b[p].pc = "ack", b[p].m = f
        PROVE  Pending(d, f)
    <3>1. p \in 1..Len(q) /\ q[p].pc = "ack" /\ q[p].m = f
      BY <2>3, <2>4
    <3>2. p # Len(q)
      <4>1. SUFFICES ASSUME p = Len(q) PROVE FALSE
        OBVIOUS
      <4>2. q # << >> /\ Top(q).pc = "ack"
        <5>1. Len(<< >>) = 0
          OBVIOUS
        <5> QED
          BY <3>1, <4>1, <5>1 DEF Top
      <4>3. Len(b) = Len(q) - 1
        BY <2>1, <2>3, <4>2, PopProperties
      <4> QED
        BY <2>1, <2>4, <4>1, <4>3
    <3>3. p \in 1..Len(q) - 1
      BY <2>1, <3>1, <3>2
    <3> QED
      BY <3>1, <3>3 DEF Pending
  <2>5. CASE r = b
    <3>1. p \in 1..Len(b)
      BY <1>2, <2>3, <2>5
    <3> QED
      BY <1>2, <2>4, <2>5, <3>1
  <2>6. ASSUME b # << >>, NEW c \in Call, r = SetTop(b, c)
        PROVE  Pending(d, f)
    <3>1. Len(SetTop(b, c)) = Len(b) /\ \A j \in 1..Len(b) - 1 : SetTop(b, c)[j] = b[j]
      BY <2>6, SetTopProperties
    <3>2. p \in 1..Len(b) - 1 /\ p \in 1..Len(b)
      BY <2>3, <2>6, <3>1
    <3> QED
      BY <1>2, <2>4, <2>6, <3>1, <3>2
  <2>7. ASSUME NEW c \in Call, r = Push(b, c)
        PROVE  Pending(d, f)
    <3>1. Len(Push(b, c)) = Len(b) + 1 /\ \A j \in 1..Len(b) : Push(b, c)[j] = b[j]
      BY PushProperties
    <3>2. p \in 1..Len(b)
      BY <2>3, <2>7, <3>1
    <3> QED
      BY <1>2, <2>4, <2>7, <3>1, <3>2
  <2>8. ASSUME BaseOf(d, b), Took(d, b)
        PROVE  Pending(d, f)
    <3>1. PICK c, w \in Call : /\ c.m = Head(rx[d]) /\ Len(r) = Len(b) + 2 /\ r[Len(b) + 1] = c
                               /\ \A j \in 1..Len(b) : r[j] = b[j]
      BY <2>8, TookStack
    <3>2. p \in 1..Len(b) \/ p = Len(b) + 1
      BY <2>3, <3>1
    <3>3. CASE p \in 1..Len(b)
      BY <1>2, <2>4, <3>1, <3>3
    <3>4. CASE p = Len(b) + 1
      <4>1. f = Head(rx[d]) /\ rx[d] # << >>
        BY <1>2, <2>8, <3>1, <3>4 DEF Took
      <4>2. 1 \in 1..Len(rx[d]) /\ f = rx[d][1]
        BY <4>1, HeadHeard
      <4> QED
        BY <4>2 DEF Pending, Unread
    <3> QED
      BY <3>2, <3>3, <3>4
  <2> QED
    BY <2>2, <2>5, <2>6, <2>7, <2>8 DEF ReadForm
<1> QED
  BY <1>1, <1>2 DEF Pending

\* A pending frame in a read that acknowledges it stays there.
LEMMA AckPending ==
    ASSUME OriginInv, [Next]_vars, NEW d \in Devices, Shape(d), ReadKind(d),
           NEW p \in 1..Len(stack[d]) - 1, stack[d][p].pc = "ack", NEW m, stack[d][p].m = m
    PROVE  Pending(d, m)'
<1> DEFINE q == stack[d]
           r == stack'[d]
<1>1. q \in Seq(Call) /\ Len(q) \in Nat /\ Sound(d, q, repeated, outcome[d])
  BY OriginParts, LenProperties DEF OriginInv, TypeOK
<1>2. p \in 1..Len(r) /\ r[p] = q[p]
  BY AcksStay
<1>3. p + 1 \in 2..Len(q) /\ (p + 1) - 1 = p /\ p + 1 \in 1..Len(q)
  BY <1>1
<1>4. q[p + 1].pc = "drain"
  <2>1. Made(d, q[(p + 1) - 1], q[p + 1], repeated)
    BY <1>1, <1>3 DEF Sound
  <2> QED
    BY <1>3, <2>1 DEF Made
<1>5. PICK b \in Seq(Call) : Resumable(q, b) /\ ReadForm(d, b, r)
  BY KindForms
<1>6. Len(b) \in Nat /\ r \in Seq(Call) /\ Len(r) \in Nat
  BY <1>5, ReadFormType, LenProperties
<1>7. p + 1 <= Len(b)
  <2>1. CASE q # << >> /\ Top(q).pc \in {"enter", "ack", "loop"} /\ b = Pop(q)
    <3>1. p + 1 # Len(q)
      BY <1>4, <2>1 DEF Top
    <3>2. Len(b) = Len(q) - 1
      BY <1>1, <2>1, PopProperties
    <3> QED
      BY <1>1, <1>3, <3>1, <3>2
  <2>2. CASE b = q
    BY <1>1, <2>2
  <2>3. CASE q # << >> /\ Top(q).pc = "drain" /\ b = SetTop(q, [Top(q) EXCEPT !.k = 1])
    <3>1. Top(q) \in Call
      BY <1>1, <2>3, TopProperties
    <3>2. PICK t \in Call : t = [Top(q) EXCEPT !.k = 1]
      BY <2>3, <3>1, DrainNotes
    <3>3. Len(SetTop(q, t)) = Len(q)
      BY <1>1, <2>3, SetTopProperties
    <3> QED
      BY <1>1, <2>3, <3>2, <3>3
  <2> QED
    BY <1>5, <2>1, <2>2, <2>3 DEF Resumable
<1>8. Len(r) >= Len(b)
  <2>1. CASE r = b
    BY <1>6, <2>1
  <2>2. ASSUME b # << >>, NEW c \in Call, r = SetTop(b, c)
        PROVE  Len(r) >= Len(b)
    BY <1>6, <2>2, SetTopProperties
  <2>3. ASSUME NEW c \in Call, r = Push(b, c)
        PROVE  Len(r) >= Len(b)
    BY <1>6, <2>3, PushProperties
  <2>4. ASSUME BaseOf(d, b), Took(d, b)
        PROVE  Len(r) >= Len(b)
    BY <1>6, <2>4, TookStack
  <2> QED
    BY <1>5, <2>1, <2>2, <2>3, <2>4 DEF ReadForm
<1>9. p \in 1..Len(r) - 1
  BY <1>1, <1>6, <1>7, <1>8
<1> QED
  BY <1>2, <1>9 DEF Pending

\* A frame that is dropped is missing in the account of its pair.
LEMMA DropCounts ==
    ASSUME OriginInv, TypeOK', NEW s \in Devices, NEW d \in Others(s), ReadShape(d),
           Number(rx'[d], Data(s, d)) < Number(rx[d], Data(s, d)),
           Number(stack'[d], Answers(d, s)) = Number(stack[d], Answers(d, s))
    PROVE  OnWay(s, d)' + Waiting(s, d) < OnWay(s, d) + Waiting(s, d)'
<1> DEFINE x == Number(rx[d], Data(s, d))
           y == Number(stack[d], Answers(d, s))
           z == Number(rx[s], AcksOf(d, s))
           w == Waiting(s, d)
           x1 == Number(rx'[d], Data(s, d))
<1>1. TypeOK /\ d \in Devices /\ s \in Others(d)
  BY DEF OriginInv, Others
<1>2. rx'[s] = rx[s] /\ stack'[s] = stack[s]
  BY <1>1, ReadBuffers DEF OthersKept
<1>3. x \in Nat /\ y \in Nat /\ z \in Nat /\ w \in Nat
  BY <1>1, CountTypes
<1>4. x1 \in Nat
  <2>1. rx'[d] \in Seq(Frame)
    BY <1>1 DEF TypeOK
  <2> QED
    BY <2>1, HitsFinite
<1>5. OnWay(s, d) = x + y + z /\ OnWay(s, d)' = x1 + y + z /\ Waiting(s, d)' = w
  BY <1>2 DEF OnWay, Waiting
<1>6. x1 < x
  OBVIOUS
<1> HIDE DEF x, y, z, w, x1
<1>7. (x1 + y + z) + w < (x + y + z) + w
  BY <1>3, <1>4, <1>6
<1> QED
  BY <1>5, <1>7 DEF w

\* A pending fragment stays so, unless it is dropped.
LEMMA PartStays ==
    ASSUME OriginInv, TypeOK', [Next]_vars, NEW s \in Devices, NEW d \in Others(s), Shape(d), ReadKind(d), ReadShape(d),
           NEW f \in PartsTo(s, d), Pending(d, f)
    PROVE  Pending(d, f)' \/ OnWay(s, d)' + Waiting(s, d) < OnWay(s, d) + Waiting(s, d)'
<1>1. /\ TypeOK /\ d \in Devices /\ s \in Others(d) /\ rx \in [Devices -> Seq(Frame)] /\ rx[d] \in Seq(Frame)
      /\ stack[d] \in Seq(Call) /\ stack \in [Devices -> Seq(Call)]
      /\ f \in Frame /\ f.t = "frag" /\ f.s = s /\ f.r = d /\ f \in Data(s, d)
  BY DEF OriginInv, TypeOK, Others, PartsTo, Data
<1>2. ASSUME NEW p \in 1..Len(stack[d]) - 1, stack[d][p].pc = "ack", stack[d][p].m = f
      PROVE  Pending(d, f)'
  BY <1>1, <1>2, AckPending
<1>3. ASSUME Unread(d, f), UNCHANGED rx
      PROVE  Pending(d, f)'
  BY <1>3 DEF Pending, Unread
<1>4. ASSUME NEW p \in 1..Len(rx[d]), rx[d][p] = f, rx[d] # << >>, rx'[d] = Tail(rx[d]), f # Head(rx[d])
      PROVE  Pending(d, f)'
  <2>1. Len(Tail(rx[d])) = Len(rx[d]) - 1 /\ \A i \in 1..Len(Tail(rx[d])) : Tail(rx[d])[i] = rx[d][i + 1]
    BY <1>1, <1>4, HeadTailProperties
  <2>2. p # 1
    BY <1>1, <1>4, HeadHeard
  <2>3. Len(rx[d]) \in Nat
    BY <1>1, LenProperties
  <2>4. PICK o : o = p - 1 /\ o \in 1..Len(Tail(rx[d])) /\ o + 1 = p
    BY <1>4, <2>1, <2>2, <2>3
  <2>5. Tail(rx[d])[o] = f
    BY <1>4, <2>1, <2>4
  <2> QED
    BY <1>4, <2>4, <2>5 DEF Pending, Unread
<1>5. ASSUME NEW b, BaseOf(d, b), Dropped(d, b), NEW p \in 1..Len(rx[d]), rx[d][p] = f
      PROVE  Pending(d, f)' \/ OnWay(s, d)' + Waiting(s, d) < OnWay(s, d) + Waiting(s, d)'
  <2>1. rx[d] # << >> /\ stack'[d] = b
    BY <1>1, <1>5 DEF Dropped
  <2>2. Number(stack'[d], Answers(d, s)) = Number(stack[d], Answers(d, s))
    <3>1. Resumable(stack[d], b)
      BY <1>1, <1>5, BaseLike
    <3> QED
      BY <1>1, <2>1, <3>1, ResumableCounts
  <2>3. Number(rx[d], Data(s, d)) \in Nat /\ Number(rx[d], Data(s, d)) >= 1
    BY <1>1, <1>5, CountTypes, NumberSome
  <2>4. CASE rx'[d] = << >>
    <3>1. Len(<< >>) = 0
      OBVIOUS
    <3>2. Number(<< >>, Data(s, d)) = 0
      BY <3>1, NumberNone
    <3>3. Number(rx'[d], Data(s, d)) < Number(rx[d], Data(s, d))
      BY <2>3, <2>4, <3>2
    <3> QED
      BY <2>2, <3>3, DropCounts
  <2>5. CASE rx'[d] = Tail(rx[d]) /\ f = Head(rx[d])
    <3>1. Number(rx[d], Data(s, d)) = Number(Tail(rx[d]), Data(s, d)) + 1
      BY <1>1, <2>1, <2>5, NumberTail
    <3>2. Tail(rx[d]) \in Seq(Frame)
      BY <1>1, <2>1, HeadTailProperties
    <3>3. Number(Tail(rx[d]), Data(s, d)) \in Nat
      BY <3>2, HitsFinite
    <3>4. Number(rx'[d], Data(s, d)) < Number(rx[d], Data(s, d))
      BY <2>5, <3>1, <3>3
    <3> QED
      BY <2>2, <3>4, DropCounts
  <2>6. CASE rx'[d] = Tail(rx[d]) /\ f # Head(rx[d])
    BY <1>4, <1>5, <2>1, <2>6
  <2>7. rx'[d] = << >> \/ rx'[d] = Tail(rx[d])
    BY <1>1, <1>5 DEF Dropped
  <2> QED
    BY <2>4, <2>5, <2>6, <2>7
<1>6. ASSUME NEW b, BaseOf(d, b), Took(d, b), NEW p \in 1..Len(rx[d]), rx[d][p] = f
      PROVE  Pending(d, f)'
  <2>1. rx[d] # << >> /\ rx'[d] = Tail(rx[d])
    BY <1>1, <1>6 DEF Took
  <2>2. CASE f = Head(rx[d])
    <3>1. Len(b) \in Nat /\ \E c, w \in Call : /\ c.pc = "ack" /\ c.m = Head(rx[d])
                                               /\ Len(stack'[d]) = Len(b) + 2 /\ stack'[d][Len(b) + 1] = c
      BY <1>1, <1>6, TookStack
    <3>2. Len(b) + 1 \in 1..Len(stack'[d]) - 1 /\ stack'[d][Len(b) + 1].pc = "ack" /\ stack'[d][Len(b) + 1].m = f
      BY <2>2, <3>1
    <3> QED
      BY <3>2 DEF Pending
  <2>3. CASE f # Head(rx[d])
    BY <1>4, <1>6, <2>1, <2>3
  <2> QED
    BY <2>2, <2>3
<1>7. ASSUME NEW b, BaseOf(d, b), Overheard(d, b), NEW p \in 1..Len(rx[d]), rx[d][p] = f
      PROVE  Pending(d, f)'
  <2>1. rx[d] # << >> /\ rx'[d] = Tail(rx[d])
    BY <1>1, <1>7 DEF Overheard
  <2>2. f # Head(rx[d])
    BY <1>1, <1>7 DEF Overheard
  <2> QED
    BY <1>4, <1>7, <2>1, <2>2
<1>8. ASSUME Unread(d, f)
      PROVE  Pending(d, f)' \/ OnWay(s, d)' + Waiting(s, d) < OnWay(s, d) + Waiting(s, d)'
  <2>1. PICK p \in 1..Len(rx[d]) : rx[d][p] = f
    BY <1>8 DEF Unread
  <2>2. CASE Recached(d) \/ Resumed(d) \/ Finished(d)
    BY <1>3, <1>8, <2>2 DEF Recached, Resumed, Finished
  <2>3. CASE \E b : BaseOf(d, b) /\ (Dropped(d, b) \/ Took(d, b) \/ Overheard(d, b))
    BY <1>5, <1>6, <1>7, <2>1, <2>3
  <2> QED
    BY <2>2, <2>3 DEF ReadKind
<1> QED
  BY <1>2, <1>8 DEF Pending

\* What a step of a write leaves of the reads of its device.
LEMMA WriteReads ==
    ASSUME OriginInv, NEW d \in Devices, Shape(d), WriterShape(stack[d], repeated), WriteKind(d)
    PROVE  /\ rx'[d] = rx[d] /\ stack[d] \in Seq(Call) /\ stack'[d] \in Seq(Call)
           /\ Same(stack[d], stack'[d], ReadCalls)
           /\ stack[d] # << >> => Top(stack[d]).pc \in WritePC
           /\ \A p \in 1..Len(stack'[d]) : stack'[d][p].pc = "ack" =>
                 p \in 1..Len(stack[d]) - 1 /\ stack[d][p] = stack'[d][p]
           /\ \A p \in 1..Len(stack[d]) : stack[d][p].pc = "ack" =>
                 p \in 1..Len(stack'[d]) /\ stack'[d][p] = stack[d][p]
<1> DEFINE q == stack[d]
           r == stack'[d]
<1>1. q \in Seq(Call) /\ (Pushed(q, r) \/ Stepped(q, r) \/ Doubled(q, r) \/ Popped(q, r) \/ Counted(q, r))
  BY WriteStacks
<1>2. Same(q, r, ReadCalls) /\ r \in Seq(Call)
  BY <1>1, WriteSame, WriteStackShape DEF Shape
<1>3. q # << >> => Top(q).pc \in WritePC
  BY <1>1 DEF Pushed, Stepped, Doubled, Popped, Counted, WritePC
<1>4. rx'[d] = rx[d]
  <2>1. CASE UNCHANGED rx
    BY <2>1
  <2>2. ASSUME stack[d] # << >>, Transmit(d, Top(stack[d]).m)
        PROVE  rx'[d] = rx[d]
    <3>1. Top(stack[d]).m \in Frame
      BY <1>1, <2>2, TopProperties, FrameOf
    <3> QED
      BY <2>2, <3>1, Carried DEF OriginInv
  <2> QED
    BY <2>1, <2>2, WriteBuses
<1>5. ASSUME NEW p \in 1..Len(r), r[p].pc = "ack"
      PROVE  p \in 1..Len(q) - 1 /\ q[p] = r[p]
  <2>1. r[p] \in ReadCalls
    BY <1>2, <1>5, ElementOfSeq DEF ReadCalls, ReadPC
  <2>2. p \in 1..Len(q) /\ q[p] = r[p]
    BY <1>2, <2>1 DEF Same
  <2>3. p # Len(q)
    <3>1. SUFFICES ASSUME p = Len(q) PROVE FALSE
      OBVIOUS
    <3>2. Len(<< >>) = 0
      OBVIOUS
    <3>3. q # << >>
      BY <2>2, <3>2
    <3> QED
      BY <1>3, <1>5, <2>2, <3>1, <3>3 DEF Top, WritePC
  <2>4. Len(q) \in Nat
    BY <1>1, LenProperties
  <2> QED
    BY <2>2, <2>3, <2>4
<1>6. ASSUME NEW p \in 1..Len(q), q[p].pc = "ack"
      PROVE  p \in 1..Len(r) /\ r[p] = q[p]
  <2>1. q[p] \in ReadCalls
    BY <1>1, <1>6, ElementOfSeq DEF ReadCalls, ReadPC
  <2> QED
    BY <1>2, <2>1 DEF Same
<1> QED
  BY <1>1, <1>2, <1>3, <1>4, <1>5, <1>6

\* A write makes no frame of its device pending, and lets one go only to hand it on.
LEMMA WritePending ==
    ASSUME OriginInv, NEW d \in Devices, Shape(d), WriterShape(stack[d], repeated), WriteKind(d), NEW f
    PROVE  /\ Pending(d, f)' => Pending(d, f)
           /\ Pending(d, f) => \/ Pending(d, f)'
                               \/ stack'[d] # << >> /\ Top(stack'[d]).pc = "ack" /\ Top(stack'[d]).m = f
<1> DEFINE q == stack[d]
           r == stack'[d]
<1>1. /\ rx'[d] = rx[d] /\ q \in Seq(Call) /\ r \in Seq(Call) /\ Len(q) \in Nat /\ Len(r) \in Nat
      /\ \A p \in 1..Len(r) : r[p].pc = "ack" => p \in 1..Len(q) - 1 /\ q[p] = r[p]
      /\ \A p \in 1..Len(q) : q[p].pc = "ack" => p \in 1..Len(r) /\ r[p] = q[p]
  BY WriteReads, LenProperties
<1>2. Unread(d, f)' <=> Unread(d, f)
  BY <1>1 DEF Unread
<1>3. ASSUME NEW p \in 1..Len(r) - 1, r[p].pc = "ack", r[p].m = f
      PROVE  Pending(d, f)
  <2>1. p \in 1..Len(r)
    BY <1>1
  <2>2. p \in 1..Len(q) - 1 /\ q[p] = r[p]
    BY <1>1, <1>3, <2>1
  <2> QED
    BY <1>3, <2>2 DEF Pending
<1>4. ASSUME NEW p \in 1..Len(q) - 1, q[p].pc = "ack", q[p].m = f
      PROVE  Pending(d, f)' \/ (r # << >> /\ Top(r).pc = "ack" /\ Top(r).m = f)
  <2>1. p \in 1..Len(q)
    BY <1>1
  <2>2. p \in 1..Len(r) /\ r[p] = q[p]
    BY <1>1, <1>4, <2>1
  <2>3. CASE p = Len(r)
    <3>1. Len(<< >>) = 0
      OBVIOUS
    <3>2. r # << >>
      BY <2>2, <3>1
    <3> QED
      BY <1>4, <2>2, <2>3, <3>2 DEF Top
  <2>4. CASE p # Len(r)
    <3>1. p \in 1..Len(r) - 1
      BY <1>1, <2>2, <2>4
    <3> QED
      BY <1>4, <2>2, <3>1 DEF Pending
  <2> QED
    BY <2>3, <2>4
<1> QED
  BY <1>2, <1>3, <1>4 DEF Pending

\* The fragment that a write begins to hand on was pending, and nothing else of its sender is.
LEMMA WriteHands ==
    ASSUME OriginInv, Credit, NEW d \in Devices, Shape(d), WriterShape(stack[d], repeated), WriteKind(d),
           NEW s \in Others(d), Unrepeated(s, d), Waiting(s, d) <= 1, OneAck(stack[d], s),
           TopAck(stack'[d], s)
    PROVE  /\ NonePending(s, d)'
           /\ \E f \in PartsTo(s, d) : Top(stack'[d]).m = f /\ Pending(d, f)
<1> DEFINE q == stack[d]
           r == stack'[d]
           n == Len(r)
<1>1. /\ rx'[d] = rx[d] /\ q \in Seq(Call) /\ r \in Seq(Call) /\ Len(q) \in Nat /\ n \in Nat
      /\ \A p \in 1..Len(r) : r[p].pc = "ack" => p \in 1..Len(q) - 1 /\ q[p] = r[p]
  BY WriteReads, LenProperties
<1>2. n \in 1..n /\ r[n].pc = "ack" /\ r[n].m.t = "frag" /\ r[n].m.s = s /\ Top(r) = r[n]
  BY <1>1, TopProperties DEF TopAck, Top
<1>3. n \in 1..Len(q) - 1 /\ n \in 1..Len(q) /\ q[n] = r[n] /\ q[n] \in Call
  <2>1. n \in 1..Len(q) - 1 /\ q[n] = r[n]
    BY <1>1, <1>2
  <2>2. n \in 1..Len(q)
    BY <1>1, <2>1
  <2> QED
    BY <1>1, <2>1, <2>2, ElementOfSeq
<1> HIDE DEF n
<1>4. q[n].m \in PartsTo(s, d)
  <2>1. q[n].m \in Frame
    BY <1>3, FrameOf
  <2>2. Sound(d, q, repeated, outcome[d])
    BY OriginParts DEF OriginInv
  <2>3. q[n].m.r = d
    BY <1>2, <1>3, <2>2 DEF Sound, CallIs, ReadIs, ReadPC
  <2> QED
    BY <1>2, <1>3, <2>1, <2>3 DEF PartsTo
<1>5. Number(q, Answers(d, s)) >= 1
  BY <1>2, <1>3, AckCounts
<1>6. Number(rx[d], Data(s, d)) = 0
  BY <1>5, OneOnWay
<1>7. ASSUME NEW g \in PartsTo(s, d), Pending(d, g)'
      PROVE  FALSE
  <2>1. g.t = "frag" /\ g.s = s /\ g.r = d
    BY DEF PartsTo
  <2>2. ASSUME Unread(d, g)' PROVE FALSE
    <3>1. PICK p \in 1..Len(rx[d]) : rx[d][p] = g
      BY <1>1, <2>2 DEF Unread
    <3>2. Number(rx[d], Data(s, d)) >= 1
      BY <2>1, <3>1, UnreadCounts
    <3> QED
      BY <1>6, <3>2
  <2>3. ASSUME NEW p \in 1..Len(r) - 1, r[p].pc = "ack", r[p].m = g
        PROVE  FALSE
    <3>1. p \in 1..Len(r) /\ p # n
      BY <1>1, <2>3 DEF n
    <3>2. p \in 1..Len(q) - 1 /\ q[p] = r[p]
      BY <1>1, <2>3, <3>1
    <3>3. p \in 1..Len(q)
      BY <1>1, <3>2
    <3> QED
      BY <1>2, <1>3, <2>1, <2>3, <3>1, <3>2, <3>3 DEF OneAck
  <2> QED
    BY <1>7, <2>2, <2>3 DEF Pending
<1>8. NonePending(s, d)'
  BY <1>7 DEF NonePending
<1>9. Pending(d, q[n].m)
  BY <1>2, <1>3 DEF Pending
<1> QED
  BY <1>2, <1>3, <1>4, <1>8, <1>9

\* A write leaves what is due, and hands on a fragment only when the stack was read for it.
LEMMA WriteDue ==
    ASSUME OriginInv, NEW d \in Devices, Shape(d), WriterShape(stack[d], repeated), WriteKind(d), WriteRest(d),
           NEW s \in Others(d), NEW m, NEW j, Due(stack[d], multi[d], s, d, m, j)
    PROVE  /\ ~TopAck(stack'[d], s) => Due(stack'[d], multi'[d], s, d, m, j)
           /\ Has(stack'[d], multi'[d], s, d, m, j)
<1> DEFINE q == stack[d]
           r == stack'[d]
<1>1. Same(q, r, ReadCalls) /\ (q # << >> => Top(q).pc \in WritePC)
  BY WriteReads
<1>2. Same(q, r, LoopsOf(s))
  BY <1>1, SameLess, LoopReads
<1>3. ~TopAck(q, s) /\ ~InLoop(q)
  BY <1>1 DEF TopAck, InLoop, WritePC
<1>4. ~Complete(q, s, d)
  BY <1>3, NotComplete DEF Others
<1>5. multi'[d] = multi[d]
  BY DEF WriteRest
<1>6. Has(q, multi[d], s, d, m, j)
  BY <1>3 DEF Due
<1>7. Has(r, multi[d], s, d, m, j)
  BY <1>2, <1>4, <1>6, HasSame
<1> QED
  BY <1>5, <1>7 DEF Due

-----------------------------------------------------------------------------
(* A fragment at a time from its sender to its receiver.                   *)

\* The writer with stack q is writing a split message to d; it has put a fragment of it on
\* the bus and waits for the acknowledgement; the index of the fragment that d gets next,
\* as long as none is on its way.
Writing(q, d) == q # << >> /\ q[1].pc = "group" /\ q[1].m.r = d
Out(q, d) == Writing(q, d) /\ Len(q) >= 2 /\ q[2].pc \in {"collect", "await"}
At(q, d) == IF Writing(q, d) /\ q[1].k < Len(q[1].m.d) THEN q[1].k ELSE 0

\* No fragment from s to d is between them; one is, or it was damaged and s waits in vain; d
\* has got it.
Idle(s, d) ==
    /\ ~Out(stack[s], d) /\ NonePending(s, d)
    /\ Due(stack[d], multi[d], s, d, stack[s][1].m, At(stack[s], d))
OnBus(s, d) ==
    /\ Out(stack[s], d) /\ ~stack[s][2].ok
    /\ \A g \in PartsTo(s, d) : Pending(d, g) => g = stack[s][2].m
    /\ NonePending(s, d) => OnWay(s, d) < Waiting(s, d)
    /\ Due(stack[d], multi[d], s, d, stack[s][1].m, stack[s][1].k)
Got(s, d) ==
    /\ Out(stack[s], d) /\ NonePending(s, d)
    /\ Due(stack[d], multi[d], s, d, stack[s][1].m, Succ(stack[s][1].m, stack[s][1].k))
Flow(s, d) == Idle(s, d) \/ OnBus(s, d) \/ Got(s, d)

\* What q and r know of the split message to d is the same.
SameWriter(q, r, d) ==
    /\ Writing(r, d) <=> Writing(q, d)
    /\ Writing(q, d) => r[1].m = q[1].m /\ r[1].k = q[1].k
    /\ Out(r, d) <=> Out(q, d)
    /\ Out(q, d) => r[2].m = q[2].m /\ r[2].ok = q[2].ok

\* Before the first fragment it does not matter of which message this is.
LEMMA DueZero ==
    ASSUME NEW q, NEW frags, NEW s, NEW d, NEW m, Due(q, frags, s, d, m, 0), NEW n
    PROVE  Due(q, frags, s, d, n, 0)
<1>1. CASE TopAck(q, s)
  <2>1. PICK o \in SplitTo(s, d) : \E i \in 0..Len(o.d) - 1 :
            Handing(q, frags, s, d, o, i) /\ 0 = Succ(o, i) /\ (0 > 0 => m = o)
    BY <1>1 DEF Due
  <2>2. PICK i \in 0..Len(o.d) - 1 : Handing(q, frags, s, d, o, i) /\ 0 = Succ(o, i)
    BY <2>1
  <2>3. ~(0 > 0)
    OBVIOUS
  <2> QED
    BY <1>1, <2>2, <2>3 DEF Due
<1>2. CASE ~TopAck(q, s)
  <2>1. Has(q, frags, s, d, m, 0)
    BY <1>2 DEF Due
  <2>2. \A k : 0 \notin 1..k
    OBVIOUS
  <2>3. Has(q, frags, s, d, n, 0)
    BY <2>1, <2>2 DEF Has
  <2> QED
    BY <1>2, <2>3 DEF Due
<1> QED
  BY <1>1, <1>2

LEMMA SameWriterTrans ==
    ASSUME NEW q, NEW r, NEW t, NEW d, SameWriter(q, r, d), SameWriter(r, t, d)
    PROVE  SameWriter(q, t, d)
BY DEF SameWriter

LEMMA SameWriterNot ==
    ASSUME NEW q, NEW r, NEW d, ~Writing(q, d), ~Writing(r, d)
    PROVE  SameWriter(q, r, d)
BY DEF SameWriter, Out

\* The top of the stack is no part of the split message, or nothing of it changes.
LEMMA WriterTop ==
    ASSUME NEW q \in Seq(Call), q # << >>, NEW c \in Call, NEW d, Top(q).pc # "group", c.pc # "group",
           Len(q) = 2 =>
              \/ Top(q).pc \notin {"collect", "await"} /\ c.pc \notin {"collect", "await"}
              \/ Top(q).pc \in {"collect", "await"} /\ c.pc \in {"collect", "await"} /\ c.m = Top(q).m /\ c.ok = Top(q).ok
    PROVE  SameWriter(q, SetTop(q, c), d)
<1> DEFINE r == SetTop(q, c)
<1>1. r \in Seq(Call) /\ Len(r) = Len(q) /\ Top(r) = c /\ \A j \in 1..Len(q) - 1 : r[j] = q[j]
  BY SetTopProperties
<1>2. Len(q) \in Nat /\ Len(q) # 0 /\ Len(r) # 0
  BY <1>1, EmptySeq, LenProperties
<1>3. r # << >>
  BY <1>2, Len(<< >>) = 0
<1>4. Top(q) = q[Len(q)] /\ c = r[Len(q)]
  BY <1>1 DEF Top
<1> HIDE DEF r
<1>5. CASE Len(q) = 1
  <2>1. ~Writing(q, d) /\ ~Writing(r, d)
    BY <1>4, <1>5 DEF Writing
  <2> QED
    BY <2>1, SameWriterNot DEF r
<1>6. CASE Len(q) = 2
  <2>1. r[1] = q[1] /\ Top(q) = q[2] /\ c = r[2] /\ Len(r) = 2
    BY <1>1, <1>4, <1>6
  <2> QED
    BY <1>3, <1>6, <2>1 DEF SameWriter, Writing, Out, r
<1>7. CASE Len(q) > 2
  <2>1. r[1] = q[1] /\ r[2] = q[2] /\ Len(q) >= 2 /\ Len(r) >= 2
    BY <1>1, <1>2, <1>7
  <2>2. Writing(r, d) <=> Writing(q, d)
    BY <1>3, <2>1 DEF Writing
  <2>3. Out(r, d) <=> Out(q, d)
    BY <2>1, <2>2 DEF Out
  <2>4. SameWriter(q, r, d)
    BY <2>1, <2>2, <2>3 DEF SameWriter
  <2> QED
    BY <2>4 DEF r
<1>8. Len(q) = 1 \/ Len(q) = 2 \/ Len(q) > 2
  <2> DEFINE n == Len(q)
  <2>1. n \in Nat /\ n # 0
    BY <1>2
  <2> HIDE DEF n
  <2>2. n = 1 \/ n = 2 \/ n > 2
    BY <2>1
  <2> QED
    BY <2>2 DEF n
<1> QED
  BY <1>5, <1>6, <1>7, <1>8

LEMMA WriterOn ==
    ASSUME NEW q \in Seq(Call), NEW c \in Call, NEW d, c.pc # "group",
           Len(q) = 1 => c.pc \notin {"collect", "await"}
    PROVE  SameWriter(q, Push(q, c), d)
<1> DEFINE r == Push(q, c)
<1>1. r \in Seq(Call) /\ Len(r) = Len(q) + 1 /\ \A j \in 1..Len(q) : r[j] = q[j]
  BY PushedCall
<1>2. r[Len(q) + 1] = c
  BY PushedCall
<1>3. Len(q) \in Nat /\ (q = << >> <=> Len(q) = 0)
  BY EmptySeq, LenProperties
<1>4. r # << >>
  BY <1>1, <1>3, Len(<< >>) = 0
<1> HIDE DEF r
<1>5. CASE Len(q) = 0
  <2>1. r[1] = c /\ q = << >>
    BY <1>2, <1>3, <1>5
  <2> QED
    BY <2>1, SameWriterNot DEF Writing, r
<1>6. CASE Len(q) = 1
  <2>1. r[1] = q[1] /\ c = r[2] /\ q # << >>
    BY <1>1, <1>2, <1>3, <1>6
  <2> QED
    BY <1>4, <1>6, <2>1 DEF SameWriter, Writing, Out, r
<1>7. CASE Len(q) > 1
  <2>1. r[1] = q[1] /\ r[2] = q[2] /\ q # << >> /\ Len(q) >= 2 /\ Len(r) >= 2
    BY <1>1, <1>3, <1>7
  <2>2. Writing(r, d) <=> Writing(q, d)
    BY <1>4, <2>1 DEF Writing
  <2>3. Out(r, d) <=> Out(q, d)
    BY <2>1, <2>2 DEF Out
  <2>4. SameWriter(q, r, d)
    BY <2>1, <2>2, <2>3 DEF SameWriter
  <2> QED
    BY <2>4 DEF r
<1>8. Len(q) = 0 \/ Len(q) = 1 \/ Len(q) > 1
  <2> DEFINE n == Len(q)
  <2>1. n \in Nat
    BY <1>3
  <2> HIDE DEF n
  <2>2. n = 0 \/ n = 1 \/ n > 1
    BY <2>1
  <2> QED
    BY <2>2 DEF n
<1> QED
  BY <1>5, <1>6, <1>7, <1>8

LEMMA WriterOff ==
    ASSUME NEW q \in Seq(Call), q # << >>, NEW d, Top(q).pc # "group",
           Len(q) = 2 => Top(q).pc \notin {"collect", "await"} \/ q[1].pc # "group"
    PROVE  SameWriter(q, Pop(q), d)
<1> DEFINE r == Pop(q)
<1>1. r \in Seq(Call) /\ Len(r) = Len(q) - 1 /\ \A j \in 1..Len(q) - 1 : r[j] = q[j]
  BY PopProperties
<1>2. Len(q) \in Nat /\ Len(q) # 0 /\ Len(r) \in Nat /\ (r = << >> <=> Len(r) = 0)
  BY <1>1, EmptySeq, LenProperties
<1>3. Top(q) = q[Len(q)]
  BY DEF Top
<1> HIDE DEF r
<1>5. CASE Len(q) = 1
  <2>1. r = << >> /\ Top(q) = q[1]
    BY <1>1, <1>2, <1>3, <1>5
  <2> QED
    BY <2>1, SameWriterNot DEF Writing, r
<1>6. CASE Len(q) = 2
  <2>1. r[1] = q[1] /\ Top(q) = q[2] /\ Len(r) = 1 /\ r # << >>
    BY <1>1, <1>2, <1>3, <1>6
  <2> QED
    BY <1>6, <2>1 DEF SameWriter, Writing, Out, r
<1>7. CASE Len(q) > 2
  <2>1. r[1] = q[1] /\ r[2] = q[2] /\ Len(r) >= 2 /\ r # << >> /\ Len(q) >= 2
    BY <1>1, <1>2, <1>7
  <2>2. Writing(r, d) <=> Writing(q, d)
    BY <2>1 DEF Writing
  <2>3. Out(r, d) <=> Out(q, d)
    BY <2>1, <2>2 DEF Out
  <2>4. SameWriter(q, r, d)
    BY <2>1, <2>2, <2>3 DEF SameWriter
  <2> QED
    BY <2>4 DEF r
<1>8. Len(q) = 1 \/ Len(q) = 2 \/ Len(q) > 2
  <2> DEFINE n == Len(q)
  <2>1. n \in Nat /\ n # 0
    BY <1>2
  <2> HIDE DEF n
  <2>2. n = 1 \/ n = 2 \/ n > 2
    BY <2>1
  <2> QED
    BY <2>2 DEF n
<1> QED
  BY <1>5, <1>6, <1>7, <1>8

\* Nothing changes but the place of what is on its way.
LEMMA FlowKept ==
    ASSUME TypeOK, TypeOK', NEW s \in Devices, NEW d \in Others(s), Flow(s, d), SameWriter(stack[s], stack'[s], d),
           \A g \in PartsTo(s, d) : Pending(d, g)' => Pending(d, g),
           \/ \A g \in PartsTo(s, d) : Pending(d, g) => Pending(d, g)'
           \/ OnWay(s, d)' + Waiting(s, d) < OnWay(s, d) + Waiting(s, d)',
           Balanced(s, d), OnWay(s, d) <= Waiting(s, d),
           \A m, j : Due(stack[d], multi[d], s, d, m, j) => Due(stack'[d], multi'[d], s, d, m, j)
    PROVE  Flow(s, d)'
<1>1. d \in Devices
  BY DEF Others
<1>2. NonePending(s, d) => NonePending(s, d)'
  BY DEF NonePending
<1>3. CASE Idle(s, d)
  <2>1. ~Out(stack'[s], d) /\ NonePending(s, d)'
    BY <1>2, <1>3 DEF Idle, SameWriter
  <2>2. Due(stack'[d], multi'[d], s, d, stack[s][1].m, At(stack[s], d))
    BY <1>3 DEF Idle
  <2>3. CASE Writing(stack[s], d)
    <3>1. stack'[s][1].m = stack[s][1].m /\ At(stack'[s], d) = At(stack[s], d)
      BY <2>3 DEF SameWriter, At
    <3> QED
      BY <2>1, <2>2, <3>1 DEF Flow, Idle
  <2>4. CASE ~Writing(stack[s], d)
    <3>1. At(stack'[s], d) = 0 /\ At(stack[s], d) = 0
      BY <2>4 DEF SameWriter, At
    <3>2. Due(stack'[d], multi'[d], s, d, stack'[s][1].m, 0)
      BY <2>2, <3>1, DueZero
    <3> QED
      BY <2>1, <3>1, <3>2 DEF Flow, Idle
  <2> QED
    BY <2>3, <2>4
<1>4. CASE OnBus(s, d)
  <2>1. /\ Out(stack'[s], d) /\ ~stack'[s][2].ok /\ stack'[s][2].m = stack[s][2].m
        /\ stack'[s][1].m = stack[s][1].m /\ stack'[s][1].k = stack[s][1].k
    BY <1>4 DEF OnBus, SameWriter, Out
  <2>2. \A g \in PartsTo(s, d) : Pending(d, g)' => g = stack'[s][2].m
    BY <1>4, <2>1 DEF OnBus
  <2>3. NonePending(s, d)' => OnWay(s, d)' < Waiting(s, d)'
    <3>1. SUFFICES ASSUME NonePending(s, d)'
                   PROVE  OnWay(s, d)' < Waiting(s, d)'
      OBVIOUS
    <3>2. OnWay(s, d) < Waiting(s, d) \/ OnWay(s, d)' + Waiting(s, d) < OnWay(s, d) + Waiting(s, d)'
      BY <1>4, <3>1 DEF OnBus, NonePending
    <3>3. OnWay(s, d) \in Nat /\ Waiting(s, d) \in Nat
      BY <1>1, CountTypes
    <3>4. OnWay(s, d)' \in Nat /\ Waiting(s, d)' \in Nat
      BY <1>1, NextCountTypes
    <3>5. OnWay(s, d)' + Waiting(s, d) <= OnWay(s, d) + Waiting(s, d)'
      BY DEF Balanced
    <3> DEFINE a == OnWay(s, d)
               b == Waiting(s, d)
               x == OnWay(s, d)'
               y == Waiting(s, d)'
    <3>6. /\ a \in Nat /\ b \in Nat /\ x \in Nat /\ y \in Nat /\ x + b <= a + y /\ a <= b
          /\ (a < b \/ x + b < a + y)
      BY <3>2, <3>3, <3>4, <3>5
    <3> HIDE DEF a, b, x, y
    <3>7. x < y
      BY <3>6
    <3> QED
      BY <3>7 DEF x, y
  <2>4. Due(stack'[d], multi'[d], s, d, stack'[s][1].m, stack'[s][1].k)
    BY <1>4, <2>1 DEF OnBus
  <2> QED
    BY <2>1, <2>2, <2>3, <2>4 DEF Flow, OnBus
<1>5. CASE Got(s, d)
  <2>1. /\ Out(stack'[s], d) /\ stack'[s][1].m = stack[s][1].m /\ stack'[s][1].k = stack[s][1].k
    BY <1>5 DEF Got, SameWriter, Out
  <2>2. Due(stack'[d], multi'[d], s, d, stack'[s][1].m, Succ(stack'[s][1].m, stack'[s][1].k))
    BY <1>5, <2>1 DEF Got
  <2> QED
    BY <1>2, <1>5, <2>1, <2>2 DEF Flow, Got
<1> QED
  BY <1>3, <1>4, <1>5 DEF Flow

\* The split message that s is writing to d.
LEMMA WriterMail ==
    ASSUME OriginInv, NEW s \in Devices, NEW d \in Others(s), Writing(stack[s], d)
    PROVE  stack[s][1].m \in SplitTo(s, d) /\ stack[s][1] \in Call
<1> DEFINE m == stack[s][1].m
<1>1. stack[s] # << >> /\ stack[s][1].pc = "group" /\ m.r = d
  BY DEF Writing
<1>2. /\ WriteIs(s, stack[s][1], repeated) /\ Len(outcome[s]) + 1 \in 1..Len(Script[s])
      /\ m = Script[s][Len(outcome[s]) + 1] /\ stack[s][1] \in Call
  BY <1>1, BottomMail DEF WritePC
<1>3. Len(m.d) > 1
  BY <1>1, <1>2 DEF WriteIs
<1> DEFINE k == Len(outcome[s]) + 1
<1>4. k \in 1..Len(Script[s]) /\ Written(s, k) = m
  BY <1>2 DEF Written
<1> HIDE DEF k, m
<1>5. k \in SentTo(s, d)
  BY <1>1, <1>4 DEF SentTo
<1>6. m \in SplitTo(s, d)
  BY <1>3, <1>4, <1>5 DEF SplitTo
<1> QED
  BY <1>2, <1>6 DEF m

\* The fragment that s has put on the bus.
LEMMA WriterPart ==
    ASSUME OriginInv, NEW s \in Devices, WriterShape(stack[s], repeated), NEW d \in Others(s),
           Writing(stack[s], d), Len(stack[s]) >= 2, Unrepeated(s, d)
    PROVE  /\ stack[s][1].m \in SplitTo(s, d)
           /\ stack[s][1].k \in 0..Len(stack[s][1].m.d) - 1
           /\ stack[s][2].m = Fragment(stack[s][1].m, stack[s][1].k)
           /\ stack[s][2].m \in PartsTo(s, d)
           /\ At(stack[s], d) = stack[s][1].k
<1> DEFINE c == stack[s][1]
           m == c.m
           k == c.k
<1>1. m \in SplitTo(s, d) /\ c \in Call /\ c.pc = "group" /\ stack[s] # << >>
  BY WriterMail DEF Writing
<1>2. k \in Nat
  <2>1. c \in WriteRecord
    BY <1>1, CallKinds DEF WritePC
  <2> QED
    BY <2>1 DEF WriteRecord
<1>3. k < Len(m.d) /\ stack[s][2].m = Fragment(m, k)
  BY <1>1 DEF WriterShape
<1>4. Len(m.d) \in Nat
  BY <1>1, SplitMessage
<1>5. At(stack[s], d) = k
  BY <1>3 DEF At
<1> HIDE DEF c, m, k
<1>6. k \in 0..Len(m.d) - 1
  BY <1>2, <1>3, <1>4
<1>7. Fragment(m, k) \in PartsTo(s, d)
  BY <1>1, <1>2, <1>3, FragmentFields DEF PartsTo
<1> QED
  BY <1>1, <1>3, <1>5, <1>6, <1>7 DEF c, m, k

\* A step of a read of the receiver.
LEMMA FlowTaken ==
    ASSUME OriginInv, TypeOK', ReadsGuarded, Credit, [Next]_vars, NEW s \in Devices, NEW d \in Others(s),
           Unrepeated(s, d), Balanced(s, d), Shape(d), NoFrags(d), ReadKind(d), ReadShape(d),
           ~Frozen(d), ~Frozen(d)', OneAck(stack[d], s), Flow(s, d), stack'[s] = stack[s]
    PROVE  Flow(s, d)'
<1>1. TypeOK /\ d \in Devices /\ s \in Others(d) /\ OnWay(s, d) <= Waiting(s, d)
  BY DEF OriginInv, Others, Credit
<1>2. SameWriter(stack[s], stack'[s], d)
  BY DEF SameWriter
<1>3. \A g \in PartsTo(s, d) : Pending(d, g)' => Pending(d, g)
  BY <1>1, ReadPending
<1>4. \A g \in PartsTo(s, d) : Pending(d, g) =>
          Pending(d, g)' \/ OnWay(s, d)' + Waiting(s, d) < OnWay(s, d) + Waiting(s, d)'
  BY <1>1, PartStays
<1>5. \A m, j : Due(stack[d], multi[d], s, d, m, j) => Due(stack'[d], multi'[d], s, d, m, j)
  BY <1>1, DueRead
<1> QED
  BY <1>1, <1>2, <1>3, <1>4, <1>5, FlowKept

\* A step of a write of the receiver.
LEMMA FlowHanded ==
    ASSUME OriginInv, TypeOK', Credit, NEW s \in Devices, NEW d \in Others(s),
           Unrepeated(s, d), Balanced(s, d), WriterShape(stack[s], repeated), Waiting(s, d) <= 1,
           Shape(d), WriterShape(stack[d], repeated), WriteKind(d), WriteRest(d),
           OneAck(stack[d], s), Flow(s, d), stack'[s] = stack[s]
    PROVE  Flow(s, d)'
<1>1. TypeOK /\ d \in Devices /\ s \in Others(d) /\ OnWay(s, d) <= Waiting(s, d)
  BY DEF OriginInv, Others, Credit
<1>2. SameWriter(stack[s], stack'[s], d)
  BY DEF SameWriter
<1>3. \A g \in PartsTo(s, d) : Pending(d, g)' => Pending(d, g)
  BY <1>1, WritePending
<1>4. CASE ~TopAck(stack'[d], s)
  <2>1. \A g \in PartsTo(s, d) : Pending(d, g) => Pending(d, g)'
    <3>1. SUFFICES ASSUME NEW g \in PartsTo(s, d), Pending(d, g), ~Pending(d, g)'
                   PROVE  FALSE
      OBVIOUS
    <3>2. stack'[d] # << >> /\ Top(stack'[d]).pc = "ack" /\ Top(stack'[d]).m = g
      BY <1>1, <3>1, WritePending
    <3> QED
      BY <1>4, <3>2 DEF TopAck, PartsTo
  <2>2. \A m, j : Due(stack[d], multi[d], s, d, m, j) => Due(stack'[d], multi'[d], s, d, m, j)
    BY <1>1, <1>4, WriteDue
  <2> QED
    BY <1>1, <1>2, <1>3, <2>1, <2>2, FlowKept
<1>5. CASE TopAck(stack'[d], s)
  <2>1. NonePending(s, d)' /\ \E f \in PartsTo(s, d) : Top(stack'[d]).m = f /\ Pending(d, f)
    BY <1>1, <1>5, WriteHands
  <2>2. PICK f \in PartsTo(s, d) : Top(stack'[d]).m = f /\ Pending(d, f)
    BY <2>1
  <2>3. OnBus(s, d)
    BY <2>2 DEF Flow, Idle, Got, NonePending
  <2>4. Out(stack[s], d) /\ f = stack[s][2].m /\ Due(stack[d], multi[d], s, d, stack[s][1].m, stack[s][1].k)
    BY <2>2, <2>3 DEF OnBus
  <2>5. Writing(stack[s], d) /\ Len(stack[s]) >= 2
    BY <2>4 DEF Out
  <2> DEFINE n == stack[s][1].m
             i == stack[s][1].k
  <2>6. n \in SplitTo(s, d) /\ i \in 0..Len(n.d) - 1 /\ f = Fragment(n, i)
    BY <2>4, <2>5, WriterPart
  <2>7. Due(stack[d], multi[d], s, d, n, i)
    BY <2>4
  <2>8. stack'[s][1].m = n /\ stack'[s][1].k = i
    OBVIOUS
  <2> HIDE DEF n, i
  <2>9. Has(stack'[d], multi'[d], s, d, n, i)
    BY <1>1, <2>7, WriteDue
  <2>10. Handing(stack'[d], multi'[d], s, d, n, i)
    BY <2>2, <2>6, <2>9 DEF Handing
  <2>11. Due(stack'[d], multi'[d], s, d, n, Succ(n, i))
    BY <1>5, <2>6, <2>10 DEF Due
  <2>12. Out(stack'[s], d)
    BY <2>4
  <2> QED
    BY <2>1, <2>8, <2>11, <2>12 DEF Flow, Got
<1> QED
  BY <1>4, <1>5

\* The caller of a read.
LEMMA WriterBack ==
    ASSUME NEW q \in Seq(Call), NEW b, Resumable(q, b), NEW d
    PROVE  b \in Seq(Call) /\ SameWriter(q, b, d)
<1>1. b \in Seq(Call)
  BY ResumableBelow
<1>2. CASE b = q
  BY <1>1, <1>2 DEF SameWriter
<1>3. CASE q # << >> /\ Top(q).pc = "drain" /\ b = SetTop(q, [Top(q) EXCEPT !.k = 1])
  <2>1. Top(q) \in Call
    BY <1>3, TopProperties
  <2> DEFINE c == [Top(q) EXCEPT !.k = 1]
  <2>2. c \in Call /\ c.pc = "drain"
    <3>1. [Top(q) EXCEPT !.k = 1]["pc"] = Top(q)["pc"]
      BY <1>3, <2>1, DrainNotes
    <3> QED
      BY <1>3, <2>1, <3>1, DrainNotes
  <2> HIDE DEF c
  <2>3. SameWriter(q, SetTop(q, c), d)
    BY <1>3, <2>2, WriterTop
  <2> QED
    BY <1>1, <1>3, <2>3 DEF c
<1>4. CASE q # << >> /\ Top(q).pc \in {"enter", "ack", "loop"} /\ b = Pop(q)
  <2>1. SameWriter(q, Pop(q), d)
    BY <1>4, WriterOff
  <2> QED
    BY <1>1, <1>4, <2>1
<1> QED
  BY <1>2, <1>3, <1>4 DEF Resumable

\* The writer of the fragment that is on the bus gets an acknowledgement.
Learnt(s, q, r, d) ==
    /\ Out(q, d) /\ Out(r, d) /\ r[1].m = q[1].m /\ r[1].k = q[1].k
    /\ ~q[2].ok /\ rx[s] # << >> /\ IsAckFor(q[2], Head(rx[s]))

LEMMA WriterLearns ==
    ASSUME NEW s, NEW b \in Seq(Call), b # << >>, NEW d, NEW c \in Call, c.pc = Top(b).pc, c.m = Top(b).m,
           c.pc \in {"collect", "await"}, c.ok, rx[s] # << >>, IsAckFor(Top(b), Head(rx[s]))
    PROVE  SameWriter(b, SetTop(b, c), d) \/ Learnt(s, b, SetTop(b, c), d)
<1> DEFINE r == SetTop(b, c)
<1>1. CASE Len(b) # 2
  BY <1>1, WriterTop
<1>2. CASE Len(b) = 2
  <2>1. r \in Seq(Call) /\ Len(r) = Len(b) /\ Top(r) = c /\ \A j \in 1..Len(b) - 1 : r[j] = b[j]
    BY TopCall
  <2> HIDE DEF r
  <2>2. r[1] = b[1] /\ r[2] = c /\ b[2] = Top(b) /\ Len(r) = 2
    <3>1. 1 \in 1..Len(b) - 1 /\ Len(r) = 2
      BY <1>2, <2>1
    <3>2. Top(r) = r[2] /\ Top(b) = b[2]
      BY <1>2, <3>1 DEF Top
    <3> QED
      BY <2>1, <3>1, <3>2
  <2>3. r # << >>
    <3>1. \A e : Len(e) # 0 => e # << >>
      OBVIOUS
    <3>2. Len(r) = 2
      BY <2>2
    <3>3. Len(r) # 0
      BY <3>2
    <3> QED
      BY <3>1, <3>3
  <2>4. CASE ~Out(b, d)
    <3>1. SameWriter(b, r, d)
      BY <1>2, <2>2, <2>3, <2>4 DEF SameWriter, Writing, Out
    <3> QED
      BY <3>1 DEF r
  <2>5. CASE Out(b, d) /\ ~b[2].ok
    <3>1. Out(r, d)
      BY <1>2, <2>2, <2>3, <2>5 DEF Writing, Out
    <3>2. Learnt(s, b, r, d)
      BY <2>2, <2>5, <3>1 DEF Learnt
    <3> QED
      BY <3>2 DEF r
  <2>6. CASE Out(b, d) /\ b[2].ok
    <3>1. b[2] \in Call
      BY <2>2, TopProperties
    <3>2. b[2].ok \in BOOLEAN /\ c.ok \in BOOLEAN
      <4>1. b[2] \in WriteRecord /\ c \in WriteRecord
        BY <2>2, <3>1, CallKinds DEF WritePC
      <4> QED
        BY <4>1 DEF WriteRecord
    <3>3. b[2].ok = c.ok
      BY <2>6, <3>2
    <3>4. SameWriter(b, SetTop(b, c), d)
      BY <2>2, <3>3, WriterTop
    <3> QED
      BY <3>4
  <2> QED
    BY <2>4, <2>5, <2>6
<1> QED
  BY <1>1, <1>2

LEMMA WriterReads ==
    ASSUME OriginInv, NEW s \in Devices, Shape(s), ReadKind(s), NEW d
    PROVE  SameWriter(stack[s], stack'[s], d) \/ Learnt(s, stack[s], stack'[s], d)
<1> DEFINE q == stack[s]
           r == stack'[s]
<1>1. q \in Seq(Call)
  BY DEF OriginInv, TypeOK
<1>2. PICK b \in Seq(Call) : Resumable(q, b) /\ ReadForm(s, b, r)
  BY KindForms
<1> HIDE DEF q, r
<1>3. SameWriter(q, b, d)
  BY <1>1, <1>2, WriterBack
<1>4. SUFFICES SameWriter(b, r, d) \/ Learnt(s, b, r, d)
  <2>1. ASSUME Learnt(s, b, r, d) PROVE Learnt(s, q, r, d)
    BY <1>3, <2>1 DEF SameWriter, Learnt, IsAckFor, Out
  <2>2. SameWriter(q, r, d) \/ Learnt(s, q, r, d)
    BY <1>3, <1>4, <2>1, SameWriterTrans
  <2> QED
    BY <2>2 DEF q, r
<1>5. CASE r = b
  BY <1>5 DEF SameWriter
<1>6. ASSUME b # << >>, NEW c \in Call, r = SetTop(b, c), c.pc = Top(b).pc, c.m = Top(b).m, c.pc = "loop"
      PROVE  SameWriter(b, r, d)
  BY <1>6, WriterTop
<1>7. ASSUME b # << >>, NEW c \in Call, r = SetTop(b, c), c.pc = Top(b).pc, c.m = Top(b).m,
             c.pc \in {"collect", "await"}, c.ok, rx[s] # << >>, IsAckFor(Top(b), Head(rx[s]))
      PROVE  SameWriter(b, r, d) \/ Learnt(s, b, r, d)
  BY <1>7, WriterLearns
<1>8. ASSUME NEW c \in Call, c.pc = "loop", r = Push(b, c)
      PROVE  SameWriter(b, r, d)
  BY <1>8, WriterOn
<1>9. ASSUME NEW c \in Call, NEW w \in Call, c.pc = "ack", w.pc = "drain", r = Push(Push(b, c), w)
      PROVE  SameWriter(b, r, d)
  <2>1. Push(b, c) \in Seq(Call) /\ SameWriter(b, Push(b, c), d)
    BY <1>9, WriterOn, PushProperties
  <2>2. SameWriter(Push(b, c), Push(Push(b, c), w), d)
    BY <1>9, <2>1, WriterOn
  <2> QED
    BY <1>9, <2>1, <2>2, SameWriterTrans
<1> QED
  BY <1>2, <1>5, <1>6, <1>7, <1>8, <1>9 DEF ReadForm

\* Something of the fragments from s to d is counted on its way.
LEMMA PartCounts ==
    ASSUME OriginInv, NEW s \in Devices, NEW d \in Others(s), NEW f \in PartsTo(s, d), Pending(d, f)
    PROVE  Number(rx[d], Data(s, d)) + Number(stack[d], Answers(d, s)) >= 1
<1>1. d \in Devices /\ TypeOK
  BY DEF Others, OriginInv
<1>2. Number(rx[d], Data(s, d)) \in Nat /\ Number(stack[d], Answers(d, s)) \in Nat
  BY <1>1, CountTypes
<1>3. CASE Unread(d, f)
  <2>1. PICK p \in 1..Len(rx[d]) : rx[d][p] = f
    BY <1>3 DEF Unread
  <2>2. Number(rx[d], Data(s, d)) >= 1
    BY <1>1, <2>1, UnreadCounts DEF PartsTo
  <2> QED
    BY <1>2, <2>2
<1>4. CASE \E p \in 1..Len(stack[d]) - 1 : stack[d][p].pc = "ack" /\ stack[d][p].m = f
  <2>1. PICK p \in 1..Len(stack[d]) - 1 : stack[d][p].pc = "ack" /\ stack[d][p].m = f
    BY <1>4
  <2>2. Number(stack[d], Answers(d, s)) >= 1
    BY <1>1, <2>1, AckCounts DEF PartsTo
  <2> QED
    BY <1>2, <2>2
<1> QED
  BY <1>3, <1>4 DEF Pending

\* When the acknowledgement comes back, the fragment is with its receiver.
LEMMA LearntGot ==
    ASSUME OriginInv, Credit, NEW s \in Devices, NEW d \in Others(s), Unrepeated(s, d), Waiting(s, d) <= 1,
           WriterShape(stack[s], repeated), Flow(s, d), NEW r, Learnt(s, stack[s], r, d)
    PROVE  Got(s, d)
<1>1. d \in Devices /\ TypeOK /\ OnWay(s, d) <= Waiting(s, d)
  BY DEF Others, OriginInv, Credit
<1>2. Out(stack[s], d) /\ rx[s] # << >> /\ IsAckFor(stack[s][2], Head(rx[s]))
  BY DEF Learnt
<1>3. stack[s][2].m \in PartsTo(s, d)
  BY <1>2, WriterPart DEF Out
<1>4. rx[s] \in Seq(Frame) /\ Head(rx[s]) \in Frame /\ 1 \in 1..Len(rx[s]) /\ Head(rx[s]) = rx[s][1]
  BY <1>2, HeadHeard
<1>5. rx[s][1] \in AcksOf(d, s)
  BY <1>2, <1>3, <1>4 DEF IsAckFor, AcksOf, PartsTo
<1>6. Number(rx[s], AcksOf(d, s)) >= 1
  BY <1>4, <1>5, NumberSome
<1>7. SUFFICES ASSUME OnBus(s, d) PROVE FALSE
  BY <1>2 DEF Flow, Idle
<1> DEFINE a == Number(rx[d], Data(s, d))
           b == Number(stack[d], Answers(d, s))
           c == Number(rx[s], AcksOf(d, s))
           w == Waiting(s, d)
<1>8. a \in Nat /\ b \in Nat /\ c \in Nat /\ w \in Nat
  BY <1>1, CountTypes
<1>9. a + b + c <= w /\ w <= 1 /\ c >= 1
  BY <1>1, <1>6 DEF OnWay
<1>10. NonePending(s, d) => a + b + c < w
  BY <1>7 DEF OnBus, OnWay
<1>11. ~NonePending(s, d) => a + b >= 1
  <2>1. SUFFICES ASSUME NEW f \in PartsTo(s, d), Pending(d, f)
                 PROVE  a + b >= 1
    BY DEF NonePending
  <2> QED
    BY <2>1, PartCounts
<1> HIDE DEF a, b, c, w
<1> QED
  BY <1>8, <1>9, <1>10, <1>11

\* A step of a read of the sender.
LEMMA FlowHeard ==
    ASSUME OriginInv, TypeOK', Credit, NEW s \in Devices, NEW d \in Others(s),
           Unrepeated(s, d), Balanced(s, d), WriterShape(stack[s], repeated), Waiting(s, d) <= 1,
           Shape(s), ReadKind(s), Flow(s, d),
           stack'[d] = stack[d], rx'[d] = rx[d], multi'[d] = multi[d]
    PROVE  Flow(s, d)'
<1>1. TypeOK /\ OnWay(s, d) <= Waiting(s, d)
  BY DEF OriginInv, Credit
<1>2. \A g : Pending(d, g)' <=> Pending(d, g)
  BY DEF Pending, Unread
<1>3. \A m, j : Due(stack[d], multi[d], s, d, m, j) => Due(stack'[d], multi'[d], s, d, m, j)
  OBVIOUS
<1>4. CASE SameWriter(stack[s], stack'[s], d)
  BY <1>1, <1>2, <1>3, <1>4, FlowKept
<1>5. CASE Learnt(s, stack[s], stack'[s], d)
  <2>1. Got(s, d)
    BY <1>5, LearntGot
  <2>2. /\ Out(stack'[s], d) /\ stack'[s][1].m = stack[s][1].m /\ stack'[s][1].k = stack[s][1].k
    BY <1>5 DEF Learnt
  <2>3. Due(stack'[d], multi'[d], s, d, stack'[s][1].m, Succ(stack'[s][1].m, stack'[s][1].k))
    BY <2>1, <2>2 DEF Got
  <2>4. NonePending(s, d)'
    BY <1>2, <2>1 DEF Got, NonePending
  <2> QED
    BY <2>2, <2>3, <2>4 DEF Flow, Got
<1> QED
  BY <1>4, <1>5, WriterReads

-----------------------------------------------------------------------------
(* A step of the sender.                                                   *)

\* Another frame than a fragment from s to d.
LEMMA PartsCarried ==
    ASSUME TypeOK, NEW a \in Devices, NEW d \in Others(a), NEW s, NEW f \in Frame, f \notin PartsTo(s, d),
           Transmit(a, f), stack'[d] = stack[d]
    PROVE  \A g \in PartsTo(s, d) : Pending(d, g)' <=> Pending(d, g)
<1> DEFINE q == rx[d]
           r == rx'[d]
<1>1. q \in Seq(Frame)
  BY DEF TypeOK, Others
<1>2. \E h \in Frame : h \notin PartsTo(s, d) /\ (r = q \/ r = Append(q, h))
  <2>1. Damaged(f) \in Frame /\ Damaged(f).t = "bad"
    BY DamagedType DEF Damaged, Frame
  <2>2. Damaged(f) \notin PartsTo(s, d)
    BY <2>1 DEF PartsTo
  <2>3. r = q \/ r = Append(q, f) \/ r = Append(q, Damaged(f))
    BY Carried
  <2> QED
    BY <2>1, <2>2, <2>3
<1>3. PICK h \in Frame : h \notin PartsTo(s, d) /\ (r = q \/ r = Append(q, h))
  BY <1>2
<1>4. \A g \in PartsTo(s, d) : Unread(d, g)' <=> Unread(d, g)
  <2>1. CASE r = q
    BY <2>1 DEF Unread
  <2>2. CASE r = Append(q, h)
    <3> HIDE DEF q, r
    <3>1. /\ Len(r) = Len(q) + 1 /\ \A p \in 1..Len(q) : r[p] = q[p]
          /\ r[Len(q) + 1] = h
      BY <1>1, <2>2, AppendProperties
    <3>2. Len(q) \in Nat
      BY <1>1, LenProperties
    <3>3. \A g : (\E p \in 1..Len(q) : q[p] = g) => \E p \in 1..Len(r) : r[p] = g
      BY <3>1, <3>2
    <3>4. \A p \in 1..Len(r) : p \in 1..Len(q) \/ p = Len(q) + 1
      BY <3>1, <3>2
    <3>5. \A g \in PartsTo(s, d) : (\E p \in 1..Len(r) : r[p] = g) => \E p \in 1..Len(q) : q[p] = g
      BY <1>3, <3>1, <3>4
    <3>6. \A g \in PartsTo(s, d) : (\E p \in 1..Len(r) : r[p] = g) <=> \E p \in 1..Len(q) : q[p] = g
      BY <3>3, <3>5
    <3> QED
      BY <3>6 DEF Unread, q, r
  <2> QED
    BY <1>3, <2>1, <2>2
<1> QED
  BY <1>4 DEF Pending

\* No split message to d is begun, or one has ended.
LEMMA FlowTurned ==
    ASSUME NEW s, NEW d, Flow(s, d), ~Out(stack[s], d), ~Out(stack'[s], d),
           At(stack[s], d) = 0, At(stack'[s], d) = 0,
           stack'[d] = stack[d], rx'[d] = rx[d], multi'[d] = multi[d]
    PROVE  Flow(s, d)'
<1>1. Idle(s, d)
  BY DEF Flow, OnBus, Got
<1>2. NonePending(s, d)'
  BY <1>1 DEF Idle, NonePending, Pending, Unread
<1>3. Due(stack[d], multi[d], s, d, stack[s][1].m, 0)
  BY <1>1 DEF Idle
<1>4. Due(stack'[d], multi'[d], s, d, stack'[s][1].m, 0)
  BY <1>3, DueZero
<1> QED
  BY <1>2, <1>4 DEF Flow, Idle

\* The next fragment is that after the one that was acknowledged.
LEMMA FlowNext ==
    ASSUME NEW s, NEW d, Flow(s, d), Out(stack[s], d), stack[s][2].ok, ~Out(stack'[s], d), Writing(stack'[s], d),
           stack'[s][1].m = stack[s][1].m, stack'[s][1].k = stack[s][1].k + 1,
           stack'[d] = stack[d], rx'[d] = rx[d], multi'[d] = multi[d]
    PROVE  Flow(s, d)'
<1>1. Got(s, d)
  BY DEF Flow, OnBus, Idle
<1>2. NonePending(s, d)'
  BY <1>1 DEF Got, NonePending, Pending, Unread
<1>3. At(stack'[s], d) = Succ(stack[s][1].m, stack[s][1].k)
  BY DEF At, Succ
<1>4. Due(stack'[d], multi'[d], s, d, stack'[s][1].m, At(stack'[s], d))
  BY <1>1, <1>3 DEF Got
<1> QED
  BY <1>2, <1>4 DEF Flow, Idle

\* The fragment goes out: it reaches d, or the bus damages it.
LEMMA FlowSent ==
    ASSUME OriginInv, TypeOK', Credit, NEW s \in Devices, NEW d \in Others(s), Unrepeated(s, d), Flow(s, d),
           WriterShape(stack[s], repeated), Writing(stack[s], d), Len(stack[s]) = 2, Top(stack[s]).pc = "drain",
           NEW c \in Call, c.pc = "collect", Onward(Top(stack[s]), c), stack'[s] = SetTop(stack[s], c),
           Transmit(s, Top(stack[s]).m),
           stack'[d] = stack[d], multi'[d] = multi[d]
    PROVE  Flow(s, d)'
<1> DEFINE q == stack[s]
           r == stack'[s]
<1>1. TypeOK /\ d \in Devices /\ s \in Devices /\ OnWay(s, d) <= Waiting(s, d)
  BY DEF OriginInv, Others, Credit
<1>2. q \in Seq(Call) /\ q # << >> /\ Top(q) = q[2] /\ q[1].pc = "group"
  BY <1>1 DEF TypeOK, Writing, Top
<1>0. PICK f : f = Top(q).m
  OBVIOUS
<1>3. q[1].m \in SplitTo(s, d) /\ f \in PartsTo(s, d) /\ At(q, d) = q[1].k
  BY <1>0, <1>2, WriterPart
<1>4. ~Top(q).ok
  <2>1. WriteIs(s, Top(q), repeated)
    BY <1>2, TopWrite DEF TopIs, WritePC
  <2> QED
    BY <2>1 DEF WriteIs
<1>5. Len(r) = 2 /\ r[1] = q[1] /\ r[2] = c /\ r # << >>
  <2>1. r \in Seq(Call) /\ Len(r) = Len(q) /\ Top(r) = c /\ \A j \in 1..Len(q) - 1 : r[j] = q[j]
    <3>1. r = SetTop(q, c)
      OBVIOUS
    <3> HIDE DEF q, r
    <3> QED
      BY <1>2, <3>1, TopCall
  <2>2. Len(r) = 2 /\ 1 \in 1..Len(q) - 1
    BY <2>1
  <2>3. r[2] = c
    BY <2>1, <2>2 DEF Top
  <2>4. r[1] = q[1]
    BY <2>1, <2>2
  <2>5. r # << >>
    BY <2>2, Len(<< >>) = 0
  <2> QED
    BY <2>2, <2>3, <2>4, <2>5
<1>6. c.m = f /\ ~c.ok /\ c.ok = Top(q).ok
  BY <1>0, <1>4 DEF Onward
<1>7. Out(r, d) /\ ~Out(q, d)
  BY <1>2, <1>5 DEF Writing, Out
<1>8. Idle(s, d)
  BY <1>7 DEF Flow, OnBus, Got
<1>9. f \in Frame /\ rx[d] \in Seq(Frame) /\ rx'[s] = rx[s] /\ Damaged(f) \in Frame
  BY <1>0, <1>1, <1>3, Carried, DamagedType DEF PartsTo, TypeOK
<1>10. rx'[d] = rx[d] \/ rx'[d] = Append(rx[d], f) \/ rx'[d] = Append(rx[d], Damaged(f))
  BY <1>0, <1>1, <1>9, Carried
<1> HIDE DEF q, r
<1>11. CASE rx'[d] = Append(rx[d], f)
  <2>1. Unread(d, f)'
    BY <1>9, <1>11, AppendKeeps DEF Unread
  <2>2. ~NonePending(s, d)'
    BY <1>3, <2>1 DEF NonePending, Pending
  <2>3. \A g \in PartsTo(s, d) : Unread(d, g)' => Unread(d, g) \/ g = f
    <3>1. \A p \in 1..Len(rx'[d]) : rx'[d][p] = f \/ (p \in 1..Len(rx[d]) /\ rx'[d][p] = rx[d][p])
      <4>1. /\ Len(rx'[d]) = Len(rx[d]) + 1 /\ \A p \in 1..Len(rx[d]) : rx'[d][p] = rx[d][p]
            /\ rx'[d][Len(rx[d]) + 1] = f
        BY <1>9, <1>11, AppendProperties
      <4>2. Len(rx[d]) \in Nat
        BY <1>9, LenProperties
      <4> QED
        BY <4>1, <4>2
    <3> QED
      BY <3>1 DEF Unread
  <2>4. \A g \in PartsTo(s, d) : Pending(d, g)' => g = f
    BY <1>8, <2>3 DEF Idle, NonePending, Pending
  <2> QED
    BY <1>3, <1>5, <1>6, <1>7, <1>8, <2>2, <2>4 DEF Flow, OnBus, Idle, q, r
<1>12. CASE rx'[d] # Append(rx[d], f)
  <2>1. \A g \in PartsTo(s, d) : Unread(d, g)' => Unread(d, g)
    <3>1. CASE rx'[d] = rx[d]
      BY <3>1 DEF Unread
    <3>2. CASE rx'[d] = Append(rx[d], Damaged(f))
      <4>1. \A p \in 1..Len(rx'[d]) : rx'[d][p] = Damaged(f) \/ (p \in 1..Len(rx[d]) /\ rx'[d][p] = rx[d][p])
        <5>1. /\ Len(rx'[d]) = Len(rx[d]) + 1 /\ \A p \in 1..Len(rx[d]) : rx'[d][p] = rx[d][p]
              /\ rx'[d][Len(rx[d]) + 1] = Damaged(f)
          BY <1>9, <3>2, AppendProperties
        <5>2. Len(rx[d]) \in Nat
          BY <1>9, LenProperties
        <5> QED
          BY <5>1, <5>2
      <4>2. Damaged(f) \notin PartsTo(s, d)
        BY <1>9 DEF PartsTo, Damaged, Frame
      <4> QED
        BY <4>1, <4>2 DEF Unread
    <3> QED
      BY <1>10, <1>12, <3>1, <3>2
  <2>2. \A g \in PartsTo(s, d) : ~Pending(d, g)'
    BY <1>8, <2>1 DEF Idle, NonePending, Pending
  <2>3. Number(rx'[d], Data(s, d)) = Number(rx[d], Data(s, d))
    <3>1. Damaged(f) \notin Data(s, d)
      BY <1>9 DEF Data, Damaged, Frame
    <3>2. Number(Append(rx[d], Damaged(f)), Data(s, d)) = Number(rx[d], Data(s, d)) + 0
      BY <1>9, <3>1, NumberAppend
    <3>3. Number(rx[d], Data(s, d)) \in Nat
      BY <1>1, CountTypes
    <3>4. Number(Append(rx[d], Damaged(f)), Data(s, d)) = Number(rx[d], Data(s, d))
      BY <3>2, <3>3
    <3> QED
      BY <1>10, <1>12, <3>4
  <2>4. OnWay(s, d)' = OnWay(s, d)
    BY <1>9, <2>3 DEF OnWay
  <2>5. Waiting(s, d)' = Waiting(s, d) + 1
    <3>1. Number(q, Waits(s, d)) = Number(Pop(q), Waits(s, d)) + 0 /\ Number(Pop(q), Waits(s, d)) \in Nat
      <4>1. Top(q) \notin Waits(s, d)
        BY DEF Waits, q
      <4> QED
        BY <1>2, <1>6, <4>1, NumberTop
    <3>2. Number(r, Waits(s, d)) = Number(Pop(q), Waits(s, d)) + 1
      <4>1. c \in Waits(s, d)
        BY <1>3, <1>6 DEF Waits, PartsTo
      <4>2. r = SetTop(q, c)
        BY DEF q, r
      <4> QED
        BY <1>2, <4>1, <4>2, NumberTop
    <3>3. Number(r, Waits(s, d)) = Number(q, Waits(s, d)) + 1
      BY <3>1, <3>2
    <3> QED
      BY <3>3 DEF Waiting, q, r
  <2>6. OnWay(s, d)' < Waiting(s, d)'
    <3>1. OnWay(s, d) \in Nat /\ Waiting(s, d) \in Nat
      BY <1>1, CountTypes
    <3> QED
      BY <1>1, <2>4, <2>5, <3>1
  <2> QED
    BY <1>3, <1>5, <1>6, <1>7, <1>8, <2>2, <2>6 DEF Flow, OnBus, Idle, q, r
<1> QED
  BY <1>11, <1>12

\* A frame that goes out for another reason than the split message to d.
LEMMA OtherFrame ==
    ASSUME OriginInv, NEW s \in Devices, WriterShape(stack[s], repeated), NEW d \in Others(s), Unrepeated(s, d),
           stack[s] # << >>, Top(stack[s]).pc = "drain", ~(Len(stack[s]) = 2 /\ Writing(stack[s], d))
    PROVE  Top(stack[s]).m \in Frame /\ Top(stack[s]).m \notin PartsTo(s, d)
<1> DEFINE q == stack[s]
           f == Top(q).m
<1>1. q \in Seq(Call) /\ Top(q) \in Call /\ f \in Frame /\ Top(q) = q[Len(q)] /\ Len(q) \in 1..Len(q)
  <2>1. q \in Seq(Call)
    BY DEF OriginInv, TypeOK
  <2> HIDE DEF q
  <2>2. q # << >>
    BY DEF q
  <2> QED
    BY <2>1, <2>2, TopProperties, FrameOf DEF Top
<1>2. SUFFICES ASSUME f \in PartsTo(s, d)
               PROVE  FALSE
  BY <1>1
<1>3. f.t = "frag" /\ f.s = s /\ f.r = d /\ Pair(f) \notin repeated
  BY <1>2 DEF PartsTo, Pair, Unrepeated
<1>4. Len(q) = 2 /\ q[1].pc = "group"
  BY <1>1, <1>3 DEF WriterShape, WritePC
<1>5. f = Fragment(q[1].m, q[1].k)
  BY <1>1, <1>4 DEF WriterShape
<1>6. q[1].m.r = d
  BY <1>3, <1>5 DEF Fragment
<1> QED
  BY <1>4, <1>6 DEF Writing

LEMMA FlowWritten ==
    ASSUME OriginInv, TypeOK', Credit, NEW s \in Devices, NEW d \in Others(s), Unrepeated(s, d), Balanced(s, d),
           Shape(s), WriterShape(stack[s], repeated), WriteKind(s), Flow(s, d),
           stack'[d] = stack[d], multi'[d] = multi[d]
    PROVE  Flow(s, d)'
<1> DEFINE q == stack[s]
           r == stack'[s]
<1>1. TypeOK /\ d \in Devices /\ q \in Seq(Call) /\ OnWay(s, d) <= Waiting(s, d)
  BY DEF OriginInv, TypeOK, Others, Credit
<1>2. \A m, j : Due(stack[d], multi[d], s, d, m, j) => Due(stack'[d], multi'[d], s, d, m, j)
  OBVIOUS
<1>3. ASSUME SameWriter(q, r, d), UNCHANGED rx PROVE Flow(s, d)'
  <2>1. \A g : Pending(d, g)' <=> Pending(d, g)
    BY <1>3 DEF Pending, Unread
  <2> QED
    BY <1>1, <1>2, <1>3, <2>1, FlowKept
<1>4. ASSUME SameWriter(q, r, d), NEW f \in Frame, f \notin PartsTo(s, d), Transmit(s, f) PROVE Flow(s, d)'
  <2>1. \A g \in PartsTo(s, d) : Pending(d, g)' <=> Pending(d, g)
    BY <1>1, <1>4, PartsCarried
  <2> QED
    BY <1>1, <1>2, <1>4, <2>1, FlowKept
<1>5. ASSUME q # << >> PROVE Top(q) = q[Len(q)] /\ Len(q) \in 1..Len(q) /\ Top(q) \in Call
  BY <1>1, <1>5, TopProperties DEF Top
<1>6. Len(<< >>) = 0 /\ \A e : Len(e) # 0 => e # << >>
  OBVIOUS
<1>7. ASSUME Writing(q, d)
      PROVE  q[1].m.s = s /\ q[1].k \in Nat /\ Len(q[1].m.d) \in Nat /\ Pair(q[1].m) \notin repeated
  <2>1. q[1].m \in SplitTo(s, d) /\ q[1] \in Call /\ q[1].pc = "group"
    BY <1>7, WriterMail DEF Writing
  <2>2. q[1].m.s = s /\ q[1].m.r = d /\ Len(q[1].m.d) \in Nat
    BY <2>1, SplitMessage
  <2>3. q[1] \in WriteRecord
    BY <2>1, CallKinds DEF WritePC
  <2> QED
    BY <2>2, <2>3 DEF WriteRecord, Pair, Unrepeated
<1> HIDE DEF q, r
<1>8. CASE WStart(s)
  <2>1. PICK c \in Call : /\ c.pc \in {"group", "drain"} /\ r = Push(q, c)
                          /\ c.pc = "group" => c.k = 0
    BY <1>8 DEF WStart, q, r
  <2>2. q = << >> /\ UNCHANGED rx
    BY <1>8 DEF WStart, q
  <2>3. CASE c.pc = "drain"
    <3>1. SameWriter(q, r, d)
      BY <1>1, <2>1, <2>2, <2>3, <1>6, WriterOn
    <3> QED
      BY <1>3, <2>2, <3>1
  <2>4. CASE c.pc = "group"
    <3>1. r[1] = c /\ Len(r) = 1
      <4>1. Len(q) = 0
        BY <1>6, <2>2
      <4>2. Len(r) = Len(q) + 1
        BY <1>1, <2>1, PushProperties
      <4>3. r[1] = c
        BY <1>1, <2>1, <2>2, BottomPush
      <4> QED
        BY <4>1, <4>2, <4>3
    <3>2. ~Out(q, d) /\ ~Out(r, d) /\ At(q, d) = 0
      BY <2>2, <3>1 DEF Out, Writing, At
    <3>3. At(r, d) = 0
      BY <2>1, <2>4, <3>1 DEF At
    <3> QED
      BY <2>2, <3>2, <3>3, FlowTurned DEF q, r
  <2> QED
    BY <2>1, <2>3, <2>4
<1>9. CASE WFragment(s)
  <2>1. PICK c \in Call : c.pc = "drain" /\ r = Push(q, c)
    BY <1>9 DEF WFragment, q, r
  <2>2. SameWriter(q, r, d)
    BY <1>1, <2>1, WriterOn
  <2> QED
    BY <1>3, <1>9, <2>2 DEF WFragment
<1>10. CASE WGroup(s)
  <2>1. /\ Len(q) = 1 /\ r = << >> /\ UNCHANGED rx
        /\ q[1].k >= Len(q[1].m.d) \/ ~q[1].ok
    BY <1>10 DEF WGroup, q, r
  <2>2. ~Out(q, d) /\ ~Out(r, d) /\ At(r, d) = 0
    BY <2>1 DEF Out, Writing, At
  <2>3. At(q, d) = 0
    <3>1. CASE ~Writing(q, d)
      BY <3>1 DEF At
    <3>2. CASE Writing(q, d)
      <4>1. q[1].ok
        BY <1>7, <3>2 DEF Writing, WriterShape, q
      <4>2. ~(q[1].k < Len(q[1].m.d))
        BY <1>7, <2>1, <3>2, <4>1
      <4> QED
        BY <4>2 DEF At
    <3> QED
      BY <3>1, <3>2
  <2> QED
    BY <2>1, <2>2, <2>3, FlowTurned DEF q, r
<1>11. CASE WSend(s)
  <2>1. q # << >> /\ Top(q).pc = "drain" /\ Transmit(s, Top(q).m)
    BY <1>11 DEF WSend, q
  <2>2. PICK c \in Call : c.pc = "collect" /\ Onward(Top(q), c) /\ r = SetTop(q, c)
    BY <1>11 DEF WSend, q, r
  <2>3. CASE Len(q) = 2 /\ Writing(q, d)
    BY <2>1, <2>2, <2>3, FlowSent DEF q, r
  <2>4. CASE ~(Len(q) = 2 /\ Writing(q, d))
    <3>1. Top(q).m \in Frame /\ Top(q).m \notin PartsTo(s, d)
      BY <2>1, <2>4, OtherFrame DEF q
    <3>2. SameWriter(q, r, d)
      <4>1. CASE Len(q) = 2
        <5>1. r[1] = q[1]
          <6>1. SetTop(q, c)[1] = IF Len(q) = 1 THEN c ELSE q[1]
            BY <1>1, <2>1, BottomTop
          <6> QED
            BY <2>2, <4>1, <6>1
        <5>2. ~Writing(q, d) /\ ~Writing(r, d)
          BY <2>1, <2>4, <4>1, <5>1 DEF Writing
        <5> QED
          BY <5>2, SameWriterNot
      <4>2. CASE Len(q) # 2
        BY <1>1, <2>1, <2>2, <4>2, WriterTop
      <4> QED
        BY <4>1, <4>2
    <3> QED
      BY <1>4, <2>1, <3>1, <3>2
  <2> QED
    BY <2>3, <2>4
<1>12. CASE WSaid(s)
  <2>1. q # << >> /\ Top(q).pc = "drain" /\ Transmit(s, Top(q).m) /\ r = Pop(q) /\ ~(Len(q) = 2 /\ q[1].pc = "group")
    BY <1>12 DEF WSaid, q, r
  <2>2. Top(q).m \in Frame /\ Top(q).m \notin PartsTo(s, d)
    BY <2>1, OtherFrame DEF q, Writing
  <2>3. SameWriter(q, r, d)
    BY <1>1, <2>1, WriterOff
  <2> QED
    BY <1>4, <2>1, <2>2, <2>3
<1>13. CASE WCollected(s)
  <2>1. q # << >> /\ Top(q).pc = "collect" /\ UNCHANGED rx
    BY <1>13 DEF WCollected, q
  <2>2. PICK c \in Call : c.pc = "await" /\ Onward(Top(q), c) /\ r = SetTop(q, c)
    BY <1>13 DEF WCollected, q, r
  <2>3. SameWriter(q, r, d)
    BY <1>1, <2>1, <2>2, WriterTop DEF Onward
  <2> QED
    BY <1>3, <2>1, <2>3
<1>14. CASE WRepeat(s)
  <2>1. q # << >> /\ Top(q).pc = "await" /\ UNCHANGED rx
    BY <1>14 DEF WRepeat, q
  <2>2. PICK c \in Call, w \in Call : /\ c.pc = "await" /\ Onward(Top(q), c) /\ w.pc = "drain"
                                      /\ r = Push(SetTop(q, c), w)
    BY <1>14 DEF WRepeat, q, r
  <2>3. SameWriter(q, SetTop(q, c), d)
    BY <1>1, <2>1, <2>2, WriterTop DEF Onward
  <2>4. SetTop(q, c) \in Seq(Call)
    BY <1>1, <2>1, SetTopProperties
  <2>5. SameWriter(SetTop(q, c), r, d)
    BY <2>2, <2>4, WriterOn
  <2> QED
    BY <1>3, <2>1, <2>3, <2>5, SameWriterTrans
<1>15. CASE WNext(s)
  <2>1. /\ Len(q) = 2 /\ q[1].pc = "group" /\ q[2].pc = "await" /\ UNCHANGED rx
        /\ q[2].ok \/ Pair(q[2].m) \in repeated
    BY <1>15 DEF WNext, q
  <2>2. PICK c \in Call : c.pc = "group" /\ c.m = q[1].m /\ c.k = q[1].k + 1 /\ r = SetTop(Pop(q), c)
    BY <1>15 DEF WNext, q, r
  <2>3. q # << >>
    <3>1. Len(q) = 2
      BY <2>1
    <3>2. Len(q) # 0
      BY <3>1
    <3> QED
      BY <1>6, <3>2
  <2>4. Pop(q) \in Seq(Call) /\ Len(Pop(q)) = 1
    <3>1. Pop(q) \in Seq(Call) /\ Len(Pop(q)) = Len(q) - 1
      BY <1>1, <2>3, PopProperties
    <3>2. Len(q) = 2
      BY <2>1
    <3> QED
      BY <3>1, <3>2
  <2>5. Pop(q) # << >>
    <3>1. Len(Pop(q)) = 1
      BY <2>4
    <3>2. Len(Pop(q)) # 0
      BY <3>1
    <3> QED
      BY <1>6, <3>2
  <2>6. r[1] = c /\ Len(r) = 1 /\ r # << >>
    BY <2>2, <2>4, <2>5, BottomTop, SetTopProperties
  <2>7. CASE ~Writing(q, d)
    <3>1. ~Writing(r, d)
      BY <2>1, <2>2, <2>3, <2>6, <2>7 DEF Writing
    <3> QED
      BY <1>3, <2>1, <2>7, <3>1, SameWriterNot
  <2>8. CASE Writing(q, d)
    <3>1. q[2].m = Fragment(q[1].m, q[1].k)
      BY <2>1, <2>3 DEF WriterShape, q
    <3>2. Pair(q[2].m) = Pair(q[1].m)
      BY <3>1 DEF Pair, Fragment
    <3>3. q[2].ok
      BY <1>7, <2>1, <2>8, <3>2
    <3>4. Out(q, d) /\ ~Out(r, d) /\ Writing(r, d)
      BY <2>1, <2>2, <2>6, <2>8 DEF Out, Writing
    <3> QED
      BY <2>1, <2>2, <2>6, <3>3, <3>4, FlowNext DEF q, r
  <2> QED
    BY <2>7, <2>8
<1>16. CASE WDone(s)
  <2>1. q # << >> /\ Top(q).pc = "await" /\ r = Pop(q) /\ ~(Len(q) = 2 /\ q[1].pc = "group") /\ UNCHANGED rx
    BY <1>16 DEF WDone, q, r
  <2>2. SameWriter(q, r, d)
    BY <1>1, <2>1, WriterOff
  <2> QED
    BY <1>3, <2>1, <2>2
<1> QED
  BY <1>8, <1>9, <1>10, <1>11, <1>12, <1>13, <1>14, <1>15, <1>16 DEF WriteKind

\* A step of another device.
LEMMA FlowBystander ==
    ASSUME OriginInv, TypeOK', Credit, NEW s \in Devices, NEW d \in Others(s), Unrepeated(s, d), Balanced(s, d),
           NEW a \in Devices, a # s, a # d, ReadShape(a) \/ WriteShape(a), Flow(s, d),
           stack'[s] = stack[s], stack'[d] = stack[d], multi'[d] = multi[d]
    PROVE  Flow(s, d)'
<1>1. TypeOK /\ d \in Devices /\ d \in Others(a) /\ OnWay(s, d) <= Waiting(s, d)
  BY DEF OriginInv, Others, Credit
<1>2. SameWriter(stack[s], stack'[s], d)
  BY DEF SameWriter
<1>3. \A m, j : Due(stack[d], multi[d], s, d, m, j) => Due(stack'[d], multi'[d], s, d, m, j)
  OBVIOUS
<1>4. \A g \in PartsTo(s, d) : Pending(d, g)' <=> Pending(d, g)
  <2>1. CASE rx'[d] = rx[d]
    BY <2>1 DEF Pending, Unread
  <2>2. ASSUME NEW f \in Frame, WriteIs(a, Top(stack[a]), repeated), f = Top(stack[a]).m, Transmit(a, f)
        PROVE  \A g \in PartsTo(s, d) : Pending(d, g)' <=> Pending(d, g)
    <3>1. f.s \in {a, Broadcast} /\ s # Broadcast
      BY <2>2, DeviceAssumption DEF WriteIs, Own
    <3>2. f \notin PartsTo(s, d)
      BY <3>1 DEF PartsTo
    <3> QED
      BY <1>1, <2>2, <3>2, PartsCarried
  <2>3. CASE ReadShape(a)
    <3>1. rx'[d] = rx[d]
      BY <1>1, <2>3, ReadBuffers
    <3> QED
      BY <2>1, <3>1
  <2>4. CASE WriteShape(a)
    BY <1>1, <2>1, <2>2, <2>4, Spoken
  <2> QED
    BY <2>3, <2>4
<1> QED
  BY <1>1, <1>2, <1>3, <1>4, FlowKept

-----------------------------------------------------------------------------
(* What a read returns is whole.                                           *)

\* The messages of q whose pair repeated nothing are whole.
AllWhole(q, rep) == \A p \in 1..Len(q) : Pair(q[p]) \notin rep => IsWhole(q[p])

\* A message as it was written.
LEMMA RealWhole ==
    ASSUME NEW x \in Frame, Real(x)
    PROVE  IsWhole(x)
<1>1. SUFFICES ASSUME x.t = "msg"
               PROVE  \E k \in SentTo(x.s, x.r) : CopyOf(x, x.s, k)
  BY DEF IsWhole
<1>2. PICK k \in 1..Len(Script[x.s]) : x = Script[x.s][k]
  BY <1>1 DEF Real, Messages
<1>3. k \in SentTo(x.s, x.r) /\ CopyOf(x, x.s, k)
  BY <1>1, <1>2 DEF SentTo, Written, CopyOf, SamePair
<1> QED
  BY <1>3

\* A message that is put together from all its units.
LEMMA JoinedWhole ==
    ASSUME NEW s \in Devices, NEW d, NEW n \in SplitTo(s, d), NEW x, x.t = "msg", x.s = s, x.r = d, x.d = n.d
    PROVE  IsWhole(x)
<1>1. n.s = s /\ n.r = d /\ \E k \in SentTo(s, d) : n = Written(s, k)
  BY SplitMessage
<1>2. PICK k \in SentTo(s, d) : n = Written(s, k)
  BY <1>1
<1>3. CopyOf(x, s, k)
  BY <1>1, <1>2 DEF CopyOf, SamePair
<1> QED
  BY <1>3 DEF IsWhole

\* Something of s is due as long as the receiver is not caught.
LEMMA FlowDue ==
    ASSUME NEW s, NEW d, Flow(s, d)
    PROVE  \E m, j : Due(stack[d], multi[d], s, d, m, j)
BY DEF Flow, Idle, OnBus, Got

\* The slots of a message of which all fragments are there, in their order.
LEMMA SlotsWhole ==
    ASSUME NEW s \in Devices, NEW d, NEW n \in SplitTo(s, d), NEW frags, Len(frags) = Len(n.d),
           \A p \in 1..Len(n.d) : frags[p] = Fragment(n, p - 1),
           NEW f, f.s = s, f.r = d
    PROVE  \A p \in 1..Len(n.d) : AssembledSlot(frags, f, p - 1) = n.d[p]
<1> TAKE p \in 1..Len(n.d)
<1> DEFINE len == Len(n.d)
<1>1. len \in Nat
  BY SplitMessage
<1>2. \A j \in 1..len : /\ j - 1 \in 0..len - 1
  BY <1>1
<1>3. \A j \in 1..len : /\ frags[j].i = j - 1 /\ frags[j].s = s /\ frags[j].r = d
                        /\ frags[j].d[1] = n.d[(j - 1) + 1]
  BY <1>2, HandFacts
<1>4. \A j \in 1..len : frags[j].i = p - 1 /\ SamePair(frags[j], f) <=> j = p
  <2>1. \A j \in 1..len : SamePair(frags[j], f)
    BY <1>3 DEF SamePair
  <2>2. \A j \in 1..len : frags[j].i = j - 1
    BY <1>3
  <2>3. \A j \in 1..len : j - 1 = p - 1 <=> j = p
    BY <1>1
  <2> QED
    BY <2>1, <2>2, <2>3
<1>5. {j \in 1..Len(frags) : frags[j].i = p - 1 /\ SamePair(frags[j], f)} = {p}
  BY <1>4
<1>6. (CHOOSE j \in {p} : \A h \in {p} : h <= j) = p
  <2>1. p \in {p} /\ \A h \in {p} : h <= p
    BY <1>1
  <2> QED
    BY <2>1
<1>7. AssembledSlot(frags, f, p - 1) = frags[p].d[1]
  BY <1>5, <1>6 DEF AssembledSlot
<1>8. (p - 1) + 1 = p
  BY <1>1
<1>9. frags[p].d[1] = n.d[(p - 1) + 1]
  BY <1>3
<1> QED
  BY <1>7, <1>8, <1>9

LEMMA SlotsOf ==
    \A t \in Devices : \A e : \A k \in SplitTo(t, e) : \A y, h :
       (/\ Len(y) = Len(k.d) /\ h.s = t /\ h.r = e
        /\ \A p \in 1..Len(k.d) : y[p] = Fragment(k, p - 1))
       => \A p \in 1..Len(k.d) : AssembledSlot(y, h, p - 1) = k.d[p]
BY SlotsWhole

\* The message assembled from multi_cache.
LEMMA JointWhole ==
    ASSUME OriginInv, ReadsGuarded, NEW d \in Devices, Shape(d), Resumed(d), Assembled(d), ~Frozen(d),
           Top(stack[d]).m.t = "frag", Top(stack[d]).multi,
           NEW s \in Others(d), s = Top(stack[d]).m.s, OneAck(stack[d], s), Flow(s, d)
    PROVE  IsWhole(Joint(d))
<1> DEFINE q == stack[d]
           frags == multi[d]
           f == Top(q).m
           more == Append(frags, f)
<1>1. s \in Devices /\ q \in Seq(Call) /\ frags \in Seq(Fragments) /\ q # << >> /\ Top(q).pc = "ack"
  BY DEF Others, OriginInv, TypeOK, Resumed
<1>2. TopAck(q, s)
  BY <1>1 DEF TopAck
<1>3. PICK m, j : Due(q, frags, s, d, m, j)
  BY FlowDue
<1>4. PICK n \in SplitTo(s, d) : \E i \in 0..Len(n.d) - 1 : Handing(q, frags, s, d, n, i)
  BY <1>2, <1>3 DEF Due
<1>5. PICK i : i \in 0..Len(n.d) - 1 /\ Handing(q, frags, s, d, n, i)
  BY <1>4
<1>6. f = Fragment(n, i) /\ Has(q, frags, s, d, n, i)
  BY <1>5 DEF Handing
<1>7. NoLoopOf(q, s)
  BY <1>1, <1>2, MultiNoLoop DEF Shape, Frozen
<1>8. Joint(d).t = "msg" /\ Joint(d).s = s /\ Joint(d).r = d
  BY <1>1, JointType
<1>9. /\ i \in Nat /\ i < Len(n.d) /\ Len(n.d) \in Nat /\ Len(n.d) > 1
      /\ f \in Frame /\ f.s = s /\ f.r = d /\ f.n = Len(n.d) /\ n.d \in Seq(Unit) /\ Fragment(n, 0).n = Len(n.d)
  BY <1>1, <1>5, <1>6, HandFacts
<1>10. ~(Len(more) < more[1].n) /\ Joint(d) = WholeMessage(f, [p \in 1..more[1].n |-> AssembledSlot(more, f, p - 1)])
  BY DEF Assembled, Grown, Joint
<1>11. frags # << >> => frags[1].s = s
  BY <1>1, TopGuarded DEF SamePair
<1> HIDE DEF q, frags
<1>12. /\ Len(more) = Len(frags) + 1 /\ \A p \in 1..Len(frags) : more[p] = frags[p]
       /\ more[Len(frags) + 1] = f
  <2>1. frags \in Seq(Frame)
    BY <1>1 DEF Fragments
  <2> HIDE DEF f
  <2> QED
    BY <1>9, <2>1, AppendProperties
<1>13. Len(frags) = i /\ i # 0 /\ \A p \in 1..i : frags[p] = Fragment(n, p - 1)
  <2>1. ~Complete(q, s, d)
    BY <1>7 DEF Complete, OnlyLoop, NoLoopOf
  <2>2. ~HasLoop(q, s, n, i)
    BY <1>7 DEF HasLoop, OnlyLoop, NoLoopOf
  <2>3. CASE i = 0
    <3>1. frags = << >>
      BY <1>6, <1>11, <2>1, <2>3 DEF Has, NoPart
    <3>2. Len(frags) = 0
      BY <3>1, Len(<< >>) = 0
    <3>3. Len(more) = 1 /\ more[1] = f
      BY <1>12, <3>2
    <3> QED
      BY <1>9, <1>10, <3>3
  <2>4. CASE i # 0
    BY <1>6, <2>2, <2>4 DEF Has, HasMulti
  <2> QED
    BY <2>3, <2>4
<1> HIDE DEF more
<1>14. more[1] = Fragment(n, 0)
  <2>1. 1 \in 1..i /\ 1 - 1 = 0
    BY <1>9, <1>13
  <2> QED
    BY <1>12, <1>13, <2>1
<1>15. i + 1 = Len(n.d) /\ Len(more) = Len(n.d) /\ more[1].n = Len(n.d)
  <2>1. more[1].n = Len(n.d) /\ Len(more) = i + 1 /\ ~(Len(more) < more[1].n)
    BY <1>9, <1>10, <1>12, <1>13, <1>14
  <2> DEFINE a == Len(n.d)
  <2>2. a \in Nat /\ i \in Nat /\ i < a /\ ~(i + 1 < a)
    BY <1>9, <2>1
  <2> HIDE DEF a
  <2>3. i + 1 = a
    BY <2>2
  <2> QED
    BY <2>1, <2>3 DEF a
<1>16. \A p \in 1..Len(n.d) : more[p] = Fragment(n, p - 1)
  <2> TAKE p \in 1..Len(n.d)
  <2>1. p \in 1..i \/ (p = i + 1 /\ p - 1 = i)
    BY <1>9, <1>15
  <2> QED
    BY <1>6, <1>12, <1>13, <2>1
<1>17. \A p \in 1..Len(n.d) : AssembledSlot(more, f, p - 1) = n.d[p]
  <2> HIDE DEF f
  <2>1. PICK z : z = more
    OBVIOUS
  <2>2. PICK g : g = f
    OBVIOUS
  <2>3. Len(z) = Len(n.d) /\ g.s = s /\ g.r = d /\ s \in Devices
    BY <1>1, <1>9, <1>15, <2>1, <2>2
  <2>4. \A p \in 1..Len(n.d) : z[p] = Fragment(n, p - 1)
    BY <1>16, <2>1
  <2>5. PICK k \in SplitTo(s, d) : k = n
    OBVIOUS
  <2>6. /\ Len(z) = Len(k.d) /\ g.s = s /\ g.r = d /\ s \in Devices
        /\ \A p \in 1..Len(k.d) : z[p] = Fragment(k, p - 1)
    BY <2>3, <2>4, <2>5
  <2>7. \A p \in 1..Len(k.d) : AssembledSlot(z, g, p - 1) = k.d[p]
    BY <2>6, SlotsOf
  <2> QED
    BY <2>1, <2>2, <2>5, <2>7
<1>18. [p \in 1..Len(n.d) |-> AssembledSlot(more, f, p - 1)] = n.d
  <2>1. n.d = [p \in 1..Len(n.d) |-> n.d[p]]
    BY <1>9
  <2> QED
    BY <1>17, <2>1
<1>19. Joint(d).d = n.d
  BY <1>10, <1>15, <1>18 DEF WholeMessage
<1> QED
  BY <1>1, <1>8, <1>19, JoinedWhole

\* The message that the loop over fragments returns.
LEMMA LoopWhole ==
    ASSUME OriginInv, NEW d \in Devices, Shape(d), Finished(d),
           NEW s \in Others(d), s = Top(stack[d]).m.s, Flow(s, d)
    PROVE  IsWhole(LoopMessage(Top(stack[d])))
<1> DEFINE q == stack[d]
           frags == multi[d]
           c == Top(q)
<1>1. s \in Devices /\ q \in Seq(Call) /\ q # << >> /\ c.pc = "loop" /\ c.k >= c.m.n /\ c \in Call
  BY TopShape DEF Others, OriginInv, TypeOK, Finished, InLoop
<1>2. c \in ReadRecord /\ c.k \in Nat /\ c.k <= c.m.n /\ Len(c.got) = c.m.n /\ c.got \in Seq(Unit) /\ c.m.r = d
  BY LoopTop DEF Finished
<1>3. PICK m, j : Due(q, frags, s, d, m, j)
  BY FlowDue
<1>4. Has(q, frags, s, d, m, j)
  BY <1>1, <1>3 DEF Due, TopAck
<1>5. Len(q) \in 1..Len(q) /\ c = q[Len(q)] /\ c \in LoopsOf(s)
  BY <1>1, TopShape DEF LoopsOf
<1>6. ~NoLoopOf(q, s)
  BY <1>5 DEF NoLoopOf
<1> HIDE DEF q, frags, c
<1>7. \E n \in SplitTo(s, d) : LoopHas(c, n, Len(n.d))
  <2>1. CASE Complete(q, s, d)
    BY <1>5, <2>1 DEF Complete
  <2>2. CASE m \in SplitTo(s, d) /\ j \in 1..Len(m.d) - 1 /\ HasLoop(q, s, m, j)
    <3>1. PICK p \in 1..Len(q) : OnlyLoop(q, p, s) /\ LoopHas(q[p], m, j)
      BY <2>2 DEF HasLoop
    <3>2. p = Len(q)
      BY <1>5, <3>1 DEF OnlyLoop
    <3>3. c.m = Fragment(m, 0) /\ c.k = j
      BY <1>5, <3>1, <3>2 DEF LoopHas
    <3>4. Len(m.d) \in Nat /\ Fragment(m, 0).n = Len(m.d)
      <4>1. Len(m.d) \in Nat /\ Len(m.d) > 1
        BY <1>1, <2>2, SplitMessage
      <4>2. 0 \in 0..Len(m.d) - 1
        BY <4>1
      <4> QED
        BY <1>1, <2>2, <4>1, <4>2, HandFacts
    <3> QED
      BY <1>1, <2>2, <3>3, <3>4
  <2> QED
    BY <1>4, <1>6, <2>1, <2>2 DEF Has, NoPart, HasMulti
<1>8. PICK n \in SplitTo(s, d) : LoopHas(c, n, Len(n.d))
  BY <1>7
<1>9. c.m = Fragment(n, 0) /\ c.k = Len(n.d) /\ \A i \in 1..Len(n.d) : c.got[i] = n.d[i]
  BY <1>8 DEF LoopHas
<1>10. n.d \in Seq(Unit) /\ Len(n.d) \in Nat /\ Len(n.d) > 1
  BY <1>1, SplitMessage
<1>11. c.m.n = Len(n.d) /\ c.m.s = s /\ c.m.r = d
  <2>1. 0 \in 0..Len(n.d) - 1
    BY <1>10
  <2> QED
    BY <1>1, <1>9, <2>1, HandFacts
<1>12. SubSeq(c.got, 1, c.k) = n.d
  <2>1. SubSeq(c.got, 1, c.k) = [i \in 1..Len(n.d) |-> c.got[i]]
    <3> DEFINE g == c.got
               l == Len(n.d)
    <3>1. g \in Seq(Unit) /\ Len(g) = l /\ c.k = l /\ l \in Nat
      BY <1>2, <1>9, <1>10, <1>11
    <3> HIDE DEF g, l
    <3>2. SubSeq(g, 1, l) = [i \in 1..l |-> g[i]]
      BY <3>1
    <3> QED
      BY <3>1, <3>2 DEF g, l
  <2>2. n.d = [i \in 1..Len(n.d) |-> n.d[i]]
    BY <1>10
  <2> QED
    BY <1>9, <2>1, <2>2
<1>13. LoopMessage(c).t = "msg" /\ LoopMessage(c).s = s /\ LoopMessage(c).r = d /\ LoopMessage(c).d = n.d
  BY <1>11, <1>12 DEF LoopMessage, WholeMessage
<1>14. IsWhole(LoopMessage(c))
  BY <1>1, <1>13, JoinedWhole
<1> QED
  BY <1>14 DEF c, q

\* A sequence of whole messages that grows by one, or loses the oldest.
LEMMA WholeAppend ==
    ASSUME NEW q \in Seq(Frame), NEW x \in Frame, NEW rep, AllWhole(q, rep), Pair(x) \notin rep => IsWhole(x)
    PROVE  AllWhole(Append(q, x), rep)
<1>1. /\ Len(Append(q, x)) = Len(q) + 1 /\ \A p \in 1..Len(q) : Append(q, x)[p] = q[p]
      /\ Append(q, x)[Len(q) + 1] = x /\ Len(q) \in Nat
  BY AppendProperties, LenProperties
<1>2. ASSUME NEW p \in 1..Len(Append(q, x)), Pair(Append(q, x)[p]) \notin rep
      PROVE  IsWhole(Append(q, x)[p])
  <2>1. p \in 1..Len(q) \/ p = Len(q) + 1
    BY <1>1
  <2>2. CASE p \in 1..Len(q)
    BY <1>1, <1>2, <2>2 DEF AllWhole
  <2>3. CASE p = Len(q) + 1
    BY <1>1, <1>2, <2>3
  <2> QED
    BY <2>1, <2>2, <2>3
<1> QED
  BY <1>2 DEF AllWhole

LEMMA WholeTail ==
    ASSUME NEW q \in Seq(Frame), q # << >>, NEW rep, AllWhole(q, rep)
    PROVE  AllWhole(Tail(q), rep) /\ (Pair(Head(q)) \notin rep => IsWhole(Head(q)))
<1>1. /\ Tail(q) \in Seq(Frame) /\ Len(Tail(q)) = Len(q) - 1 /\ Head(q) = q[1]
      /\ \A p \in 1..Len(Tail(q)) : Tail(q)[p] = q[p + 1]
      /\ Len(q) \in Nat /\ 1 \in 1..Len(q)
  BY HeadTailProperties, LenProperties, EmptySeq
<1>2. ASSUME NEW p \in 1..Len(Tail(q)), Pair(Tail(q)[p]) \notin rep
      PROVE  IsWhole(Tail(q)[p])
  <2>1. p + 1 \in 1..Len(q)
    BY <1>1
  <2> QED
    BY <1>1, <1>2, <2>1 DEF AllWhole
<1> QED
  BY <1>1, <1>2 DEF AllWhole

\* What a read returns is whole, if its pair repeated nothing.
LEMMA GivenWhole ==
    ASSUME OriginInv, ReadsGuarded, NEW d \in Devices, Shape(d), ~Frozen(d), AllWhole(cached[d], repeated),
           \A s \in Others(d) : Unrepeated(s, d) => OneAck(stack[d], s) /\ Flow(s, d),
           NEW b \in Seq(Call), NEW c \in Seq(Frame), NEW x \in Frame, Gives(d, b, c, x),
           Pair(x) \notin repeated
    PROVE  IsWhole(x)
<1>1. CASE Recached(d) /\ x = Head(cached[d])
  <2>1. cached[d] \in Seq(Frame) /\ cached[d] # << >>
    BY <1>1 DEF OriginInv, TypeOK, Recached
  <2> QED
    BY <1>1, <2>1, WholeTail
<1>2. CASE Foreigner(d, x)
  BY <1>2, RealWhole DEF Foreigner
<1>3. CASE Resumed(d) /\ Gave(d) /\ x = Top(stack[d]).m
  <2>1. stack[d] # << >> /\ Top(stack[d]).pc = "ack"
    BY <1>3 DEF Resumed
  <2>2. Foreigner(d, Top(stack[d]).m)
    BY <2>1, AckTop
  <2> QED
    BY <1>3, <2>2, RealWhole DEF Foreigner
<1>4. CASE Resumed(d) /\ Assembled(d) /\ x = Joint(d) /\ Top(stack[d]).m.t = "frag" /\ Top(stack[d]).multi
  <2>1. stack[d] # << >> /\ Top(stack[d]).pc = "ack"
    BY <1>4 DEF Resumed
  <2>2. PICK s : s = Top(stack[d]).m.s
    OBVIOUS
  <2>3. s \in Others(d) /\ x.s = s /\ x.r = d
    BY <1>4, <2>1, <2>2, AckTop, JointType
  <2>4. OneAck(stack[d], s) /\ Flow(s, d)
    BY <2>3 DEF Unrepeated, Pair
  <2>5. IsWhole(Joint(d))
    BY <1>4, <2>2, <2>3, <2>4, JointWhole
  <2> QED
    BY <1>4, <2>5
<1>5. CASE Finished(d) /\ x = LoopMessage(Top(stack[d]))
  <2>1. InLoop(stack[d])
    BY <1>5 DEF Finished
  <2>2. PICK s : s = Top(stack[d]).m.s
    OBVIOUS
  <2>3. s \in Others(d) /\ x.s = s /\ x.r = d
    BY <1>5, <2>1, <2>2, LoopTop DEF LoopMessage, WholeMessage
  <2>4. Flow(s, d)
    BY <2>3 DEF Unrepeated, Pair
  <2>5. IsWhole(LoopMessage(Top(stack[d])))
    BY <1>5, <2>2, <2>3, <2>4, LoopWhole
  <2> QED
    BY <1>5, <2>5
<1> QED
  BY <1>1, <1>2, <1>3, <1>4, <1>5 DEF Gives

\* So is what the program and cached_vec get.
LEMMA WholeRead ==
    ASSUME OriginInv, ReadsGuarded, NEW d \in Devices, Shape(d), ReadKind(d), UNCHANGED repeated, ~Frozen(d),
           AllWhole(inbox[d], repeated), AllWhole(cached[d], repeated),
           \A s \in Others(d) : Unrepeated(s, d) => OneAck(stack[d], s) /\ Flow(s, d)
    PROVE  AllWhole(inbox'[d], repeated') /\ AllWhole(cached'[d], repeated')
<1>1. cached[d] \in Seq(Frame) /\ inbox[d] \in Seq(Frame)
  BY DEF OriginInv, TypeOK
<1>2. CASE cached'[d] = cached[d] /\ inbox'[d] = inbox[d]
  BY <1>2
<1>3. ASSUME NEW b \in Seq(Call), NEW c \in Seq(Frame), NEW x \in Frame, Gives(d, b, c, x)
      PROVE  AllWhole(inbox'[d], repeated') /\ AllWhole(cached'[d], repeated')
  <2>1. Pair(x) \notin repeated => IsWhole(x)
    BY <1>3, GivenWhole
  <2>2. c = cached[d] \/ (Recached(d) /\ c = Tail(cached[d]))
    BY <1>3 DEF Gives
  <2>3. AllWhole(c, repeated)
    <3>1. CASE Recached(d) /\ c = Tail(cached[d])
      <4>1. cached[d] # << >>
        BY <3>1 DEF Recached
      <4> QED
        BY <1>1, <3>1, <4>1, WholeTail
    <3> QED
      BY <2>2, <3>1
  <2>4. cached'[d] = c \/ cached'[d] = Append(c, x)
    BY <1>3 DEF Gives, ResumeCached, CacheMessage
  <2>5. inbox'[d] = inbox[d] \/ inbox'[d] = Append(inbox[d], x)
    BY <1>3 DEF Gives, ResumeInbox
  <2>6. AllWhole(cached'[d], repeated)
    BY <2>1, <2>3, <2>4, WholeAppend
  <2>7. AllWhole(inbox'[d], repeated)
    BY <1>1, <2>1, <2>5, WholeAppend
  <2> QED
    BY <2>6, <2>7
<1> QED
  BY <1>2, <1>3, ReadGives

-----------------------------------------------------------------------------
(* The invariant.                                                          *)

Calm(d) == Shape(d) /\ WriterShape(stack[d], repeated) /\ NoFrags(d)
Clean(d) == AllWhole(inbox[d], repeated) /\ (~Frozen(d) => AllWhole(cached[d], repeated))
Steady(s, d) == ~Frozen(d) /\ Unrepeated(s, d) => OneAck(stack[d], s) /\ Flow(s, d)

\* While no timer of a split message ran out and no message to everyone is split, every
\* fragment is where it is due, and what a program has got is whole.
SplitInv ==
    expiries = 0 /\ NoSplitCast =>
        \A d \in Devices : Calm(d) /\ Clean(d) /\ \A s \in Others(d) : Steady(s, d)

\* A step of a read, and of a write.
ReadTurn(a) ==
    /\ ReadKind(a) /\ ReadShape(a) /\ OthersKept(a) /\ UNCHANGED <<tx, repeated>>
    /\ \A e \in Others(a) : rx'[e] = rx[e] /\ multi'[e] = multi[e]
WriteTurn(a) == WriteKind(a) /\ WriteRest(a) /\ WriteShape(a)

\* Timers that ran out are counted.
LEMMA TimersCounted ==
    ASSUME TypeOK, [Next]_vars, expiries' = 0
    PROVE  expiries = 0
<1>1. expiries \in Nat /\ MaxExpiry \in Nat
  BY BoundAssumption DEF TypeOK
<1>2. CASE UNCHANGED vars
  BY <1>2 DEF vars
<1>3. ASSUME NEW a \in Devices, Read(a)
      PROVE  expiries = 0
  <2>1. CASE ExpireMulti(a)
    <3>1. expiries' = expiries + 1
      BY <2>1 DEF ExpireMulti
    <3> QED
      BY <1>1, <3>1
  <2>2. CASE LoopTimeout(a)
    <3>1. expiries' = expiries + 1 \/ (expiries' = expiries /\ expiries > MaxExpiry)
      BY <2>2 DEF LoopTimeout
    <3> QED
      BY <1>1, <3>1
  <2>3. CASE ReadCached(a) \/ ReadFrame(a) \/ Acknowledged(a) \/ ReadNothing(a) \/ LoopDone(a)
    BY <2>3 DEF ReadCached, ReadFrame, Acknowledged, ReadNothing, LoopDone
  <2> QED
    BY <1>3, <2>1, <2>2, <2>3 DEF Read
<1>4. ASSUME NEW a \in Devices, Write(a) \/ WriteStep(a)
      PROVE  expiries = 0
  BY <1>4 DEF Write, WriteStep, WriteFragment, WriteGroupDone, Send, Collected, Repeat, AwaitDone
<1> QED
  BY <1>2, <1>3, <1>4 DEF Next, Quiet

\* The steps, while all is calm.
LEMMA Turns ==
    ASSUME OriginInv, NoSplitCast, [Next]_vars, expiries = 0, expiries' = 0, \A d \in Devices : Calm(d)
    PROVE  UNCHANGED vars \/ \E a \in Devices : ReadTurn(a) \/ WriteTurn(a)
<1>1. ASSUME NEW a \in Devices, Read(a)
      PROVE  ReadTurn(a)
  <2>1. TypeOK /\ Origin(a) /\ Shape(a)
    BY DEF OriginInv, Calm
  <2>2. ReadShape(a) /\ StoreKept(a)
    BY <1>1, <2>1, ReadHasShape
  <2>3. ReadKind(a) /\ UNCHANGED <<tx, repeated>>
    BY <1>1, <2>1, ReadKinds
  <2>4. OthersKept(a) /\ \A e \in Others(a) : rx'[e] = rx[e]
    BY <2>1, <2>2, ReadBuffers
  <2> QED
    BY <2>2, <2>3, <2>4 DEF ReadTurn, StoreKept
<1>2. ASSUME NEW a \in Devices, Write(a) \/ WriteStep(a)
      PROVE  WriteTurn(a)
  <2>1. Shape(a) /\ WriterShape(stack[a], repeated)
    BY DEF Calm
  <2> QED
    BY <1>2, <2>1, WriteKinds, WriteStarts, WriteMoves DEF WriteTurn
<1> QED
  BY <1>1, <1>2 DEF Next, Quiet

\* Each of them keeps it so.
LEMMA CalmRead ==
    ASSUME OriginInv, ReadsGuarded, NoSplitCast, NEW a \in Devices, ReadTurn(a), NEW d \in Devices, Calm(a), Calm(d)
    PROVE  Calm(d)' /\ (~Frozen(d)' => ~Frozen(d))
<1>1. CASE d = a
  BY <1>1, ReadKeepsShape, ReadKeepsWriter, NoFragsRead, FrozenRead DEF Calm, ReadTurn
<1>2. CASE d # a
  <2>1. /\ stack'[d] = stack[d] /\ cached'[d] = cached[d] /\ rx'[d] = rx[d] /\ multi'[d] = multi[d]
        /\ tx' = tx /\ repeated' = repeated
    BY <1>2 DEF ReadTurn, OthersKept, Others
  <2>2. Shape(d)'
    BY <2>1 DEF Calm, Shape, BufferShape
  <2> QED
    BY <2>1, <2>2, FrozenOther DEF Calm
<1> QED
  BY <1>1, <1>2

LEMMA CalmWrite ==
    ASSUME OriginInv, NEW a \in Devices, WriteTurn(a), NEW d \in Devices, Calm(a), Calm(d)
    PROVE  Calm(d)' /\ (~Frozen(d)' => ~Frozen(d))
<1>1. CASE d = a
  BY <1>1, WriteKeepsShape, WriteKeepsWriter, FrozenWrite DEF Calm, WriteTurn
<1>2. CASE d # a
  <2>1. d \in Others(a) /\ stack'[d] = stack[d] /\ cached'[d] = cached[d] /\ repeated \subseteq repeated'
    BY <1>2 DEF WriteTurn, WriteShape, Others
  <2>2. Shape(d)'
    BY <2>1, OthersShape DEF Calm, WriteTurn
  <2>3. WriterShape(stack[d], repeated')
    BY <2>1, WriterMono DEF Calm
  <2> QED
    BY <2>1, <2>2, <2>3, FrozenOther DEF Calm
<1> QED
  BY <1>1, <1>2

\* What was whole stays so.
LEMMA CleanRead ==
    ASSUME OriginInv, ReadsGuarded, NEW a \in Devices, ReadTurn(a), NEW d \in Devices, Calm(a), Clean(d),
           \A s \in Others(d) : Steady(s, d), ~Frozen(d)' => ~Frozen(d)
    PROVE  Clean(d)'
<1>1. CASE d = a /\ Frozen(d)
  <2>1. Frozen(d)' /\ inbox'[d] = inbox[d] /\ repeated' = repeated
    BY <1>1, FrozenRead DEF Calm, ReadTurn
  <2> QED
    BY <2>1 DEF Clean
<1>2. CASE d = a /\ ~Frozen(d)
  BY <1>2, WholeRead DEF Calm, ReadTurn, Clean, Steady
<1>3. CASE d # a
  <2>1. inbox'[d] = inbox[d] /\ cached'[d] = cached[d] /\ repeated' = repeated
    BY <1>3 DEF ReadTurn, OthersKept, Others
  <2> QED
    BY <2>1 DEF Clean
<1> QED
  BY <1>1, <1>2, <1>3

LEMMA CleanWrite ==
    ASSUME NEW a \in Devices, WriteTurn(a), NEW d \in Devices, Clean(d), ~Frozen(d)' => ~Frozen(d)
    PROVE  Clean(d)'
<1>1. inbox' = inbox /\ cached' = cached /\ repeated \subseteq repeated'
  BY DEF WriteTurn, WriteShape
<1> QED
  BY <1>1 DEF Clean, AllWhole

\* Each fragment stays where it is due.
LEMMA SteadyRead ==
    ASSUME OriginInv, TypeOK', ReadsGuarded, Credit, [Next]_vars, NEW a \in Devices, ReadTurn(a),
           NEW d \in Devices, NEW s \in Others(d), Calm(a), Calm(d), Calm(s), Steady(s, d),
           ~Frozen(d)' => ~Frozen(d), Unrepeated(s, d) => Balanced(s, d)
    PROVE  Steady(s, d)'
<1> SUFFICES ASSUME ~Frozen(d)', Unrepeated(s, d)
             PROVE  OneAck(stack'[d], s) /\ Flow(s, d)'
  BY DEF Steady, ReadTurn, Unrepeated
<1>1. s \in Devices /\ d \in Others(s) /\ s # d
  BY DEF Others
<1>2. ~Frozen(d) /\ OneAck(stack[d], s) /\ Flow(s, d) /\ Balanced(s, d)
  BY DEF Steady
<1>3. Shape(s) /\ WriterShape(stack[s], repeated) /\ Shape(d) /\ NoFrags(d)
  BY DEF Calm
<1>4. Waiting(s, d) <= 1
  BY <1>1, <1>3, OneWaits
<1>5. ReadKind(a) /\ ReadShape(a)
  BY DEF ReadTurn
<1>6. \A e \in Others(a) : stack'[e] = stack[e] /\ rx'[e] = rx[e] /\ multi'[e] = multi[e]
  BY DEF ReadTurn, OthersKept
<1>7. CASE a = d
  <2>1. stack'[s] = stack[s]
    BY <1>6, <1>7
  <2>2. OneAck(stack'[d], s)
    BY <1>2, <1>3, <1>4, <1>5, <1>7, OneAckRead
  <2>3. Flow(s, d)'
    BY <1>1, <1>2, <1>3, <1>5, <1>7, <2>1, FlowTaken
  <2> QED
    BY <2>2, <2>3
<1>8. CASE a = s
  <2>1. stack'[d] = stack[d] /\ rx'[d] = rx[d] /\ multi'[d] = multi[d]
    BY <1>1, <1>6, <1>8
  <2>2. Flow(s, d)'
    BY <1>1, <1>2, <1>3, <1>4, <1>5, <1>8, <2>1, FlowHeard
  <2> QED
    BY <1>2, <2>1, <2>2
<1>9. CASE a # s /\ a # d
  <2>1. stack'[d] = stack[d] /\ multi'[d] = multi[d] /\ stack'[s] = stack[s]
    BY <1>1, <1>6, <1>9 DEF Others
  <2>2. Flow(s, d)'
    BY <1>1, <1>2, <1>5, <1>9, <2>1, FlowBystander
  <2> QED
    BY <1>2, <2>1, <2>2
<1> QED
  BY <1>7, <1>8, <1>9

LEMMA SteadyWrite ==
    ASSUME OriginInv, TypeOK', Credit, NEW a \in Devices, WriteTurn(a),
           NEW d \in Devices, NEW s \in Others(d), Calm(a), Calm(d), Calm(s), Steady(s, d),
           ~Frozen(d)' => ~Frozen(d), Unrepeated(s, d)' => Unrepeated(s, d) /\ Balanced(s, d)
    PROVE  Steady(s, d)'
<1> SUFFICES ASSUME ~Frozen(d)', Unrepeated(s, d)'
             PROVE  OneAck(stack'[d], s) /\ Flow(s, d)'
  BY DEF Steady
<1>1. s \in Devices /\ d \in Others(s) /\ s # d
  BY DEF Others
<1>2. ~Frozen(d) /\ Unrepeated(s, d) /\ OneAck(stack[d], s) /\ Flow(s, d) /\ Balanced(s, d)
  BY DEF Steady
<1>3. /\ Shape(s) /\ WriterShape(stack[s], repeated)
      /\ Shape(d) /\ WriterShape(stack[d], repeated)
  BY DEF Calm
<1>4. Waiting(s, d) <= 1
  BY <1>1, <1>2, <1>3, OneWaits
<1>5. WriteKind(a) /\ WriteRest(a) /\ WriteShape(a)
  BY DEF WriteTurn
<1>6. \A e \in Others(a) : stack'[e] = stack[e]
  BY <1>5 DEF WriteShape
<1>7. multi' = multi
  BY <1>5 DEF WriteRest
<1>8. CASE a = d
  <2>1. stack'[s] = stack[s]
    BY <1>6, <1>8
  <2>2. stack'[d] \in Seq(Call) /\ Same(stack[d], stack'[d], ReadCalls)
    BY <1>3, <1>5, <1>8, WriteReads
  <2>3. OneAck(stack'[d], s)
    BY <1>2, <2>2, OneAckSame
  <2>4. Flow(s, d)'
    BY <1>1, <1>2, <1>3, <1>4, <1>5, <1>8, <2>1, FlowHanded
  <2> QED
    BY <2>3, <2>4
<1>9. CASE a = s
  <2>1. stack'[d] = stack[d] /\ multi'[d] = multi[d]
    BY <1>1, <1>6, <1>7, <1>9
  <2>2. Flow(s, d)'
    BY <1>1, <1>2, <1>3, <1>5, <1>9, <2>1, FlowWritten
  <2> QED
    BY <1>2, <2>1, <2>2
<1>10. CASE a # s /\ a # d
  <2>1. stack'[d] = stack[d] /\ multi'[d] = multi[d] /\ stack'[s] = stack[s]
    BY <1>1, <1>6, <1>7, <1>10 DEF Others
  <2>2. Flow(s, d)'
    BY <1>1, <1>2, <1>5, <1>10, <2>1, FlowBystander
  <2> QED
    BY <1>2, <2>1, <2>2
<1> QED
  BY <1>8, <1>9, <1>10

\* When nothing changes.
LEMMA SplitStutter ==
    ASSUME SplitInv, UNCHANGED vars
    PROVE  SplitInv'
<1>1. /\ rx' = rx /\ cached' = cached /\ stack' = stack /\ multi' = multi /\ tx' = tx /\ inbox' = inbox
      /\ repeated' = repeated /\ expiries' = expiries
  BY DEF vars
<1>2. ASSUME NEW d \in Devices, Calm(d), Clean(d), NEW s \in Others(d), Steady(s, d)
      PROVE  Steady(s, d)'
  <2>1. Frozen(d)' <=> Frozen(d)
    BY <1>1, FrozenOther
  <2>2. Flow(s, d) => Flow(s, d)'
    BY <1>1 DEF Flow, Idle, OnBus, Got, NonePending, Pending, Unread, OnWay, Waiting
  <2> QED
    BY <1>1, <1>2, <2>1, <2>2 DEF Steady, Unrepeated
<1>3. ASSUME NEW d \in Devices, Calm(d), Clean(d)
      PROVE  Calm(d)' /\ Clean(d)'
  <2>1. (Frozen(d)' <=> Frozen(d)) /\ NoFrags(d)'
    BY <1>1, <1>3, FrozenOther DEF Calm
  <2>2. Shape(d)'
    BY <1>1, <1>3 DEF Calm, Shape, BufferShape
  <2> QED
    BY <1>1, <1>3, <2>1, <2>2 DEF Calm, Clean
<1> QED
  BY <1>1, <1>2, <1>3 DEF SplitInv

LEMMA SplitStep ==
    ASSUME OriginInv, TypeOK', ReadsGuarded, Credit, SplitInv, [Next]_vars
    PROVE  SplitInv'
<1> SUFFICES ASSUME expiries' = 0, NoSplitCast, NEW d \in Devices, ~(UNCHANGED vars)
             PROVE  Calm(d)' /\ Clean(d)' /\ \A s \in Others(d) : Steady(s, d)'
  BY SplitStutter DEF SplitInv
<1>1. TypeOK
  BY DEF OriginInv
<1>2. expiries = 0
  BY <1>1, TimersCounted
<1>3. \A e \in Devices : Calm(e) /\ Clean(e) /\ \A s \in Others(e) : Steady(s, e)
  BY <1>2 DEF SplitInv
<1>4. PICK a \in Devices : ReadTurn(a) \/ WriteTurn(a)
  BY <1>2, <1>3, Turns
<1>5. \A s \in Others(d) : s \in Devices /\ (Unrepeated(s, d)' => Unrepeated(s, d) /\ Balanced(s, d))
  BY CreditStep DEF Others
<1>6. CASE ReadTurn(a)
  <2>1. Calm(d)' /\ (~Frozen(d)' => ~Frozen(d))
    BY <1>3, <1>6, CalmRead
  <2>2. Clean(d)'
    BY <1>3, <1>6, <2>1, CleanRead
  <2>3. ASSUME NEW s \in Others(d)
        PROVE  Steady(s, d)'
    <3>1. s \in Devices /\ (Unrepeated(s, d) => Balanced(s, d))
      BY <1>5, <1>6 DEF ReadTurn, Unrepeated
    <3> QED
      BY <1>3, <1>6, <2>1, <3>1, SteadyRead
  <2> QED
    BY <2>1, <2>2, <2>3
<1>7. CASE WriteTurn(a)
  <2>1. Calm(d)' /\ (~Frozen(d)' => ~Frozen(d))
    BY <1>3, <1>7, CalmWrite
  <2>2. Clean(d)'
    BY <1>3, <1>7, <2>1, CleanWrite
  <2>3. ASSUME NEW s \in Others(d)
        PROVE  Steady(s, d)'
    BY <1>3, <1>5, <1>7, <2>1, SteadyWrite
  <2> QED
    BY <2>1, <2>2, <2>3
<1> QED
  BY <1>4, <1>6, <1>7

LEMMA SplitInit ==
    ASSUME Init
    PROVE  SplitInv
<1>1. Len(<< >>) = 0
  OBVIOUS
<1>2. ASSUME NEW d \in Devices
      PROVE  /\ stack[d] = << >> /\ rx[d] = << >> /\ cached[d] = << >> /\ multi[d] = << >>
             /\ inbox[d] = << >> /\ tx[d] = {}
  BY <1>2 DEF Init
<1>3. ASSUME NEW d \in Devices
      PROVE  Calm(d) /\ Clean(d)
  <2>1. Shape(d) /\ NoFrags(d)
    BY <1>1, <1>2 DEF Shape, StackShape, BufferShape, CacheShape, NoFrags
  <2>2. WriterShape(stack[d], repeated)
    BY <1>1, <1>2 DEF WriterShape
  <2>3. Clean(d)
    BY <1>1, <1>2 DEF Clean, AllWhole
  <2> QED
    BY <2>1, <2>2, <2>3 DEF Calm
<1>4. ASSUME NEW d \in Devices, NEW s \in Others(d)
      PROVE  Steady(s, d)
  <2>1. s \in Devices
    BY DEF Others
  <2>2. OneAck(stack[d], s)
    BY <1>1, <1>2 DEF OneAck
  <2>3. ~Writing(stack[s], d)
    BY <1>2, <2>1 DEF Writing
  <2>4. NonePending(s, d)
    <3>1. 1..Len(<< >>) = {} /\ 1..Len(<< >>) - 1 = {}
      BY <1>1
    <3> QED
      BY <1>2, <3>1 DEF NonePending, Pending, Unread
  <2>5. Due(stack[d], multi[d], s, d, stack[s][1].m, 0)
    BY <1>1, <1>2 DEF Due, TopAck, Has, NoPart, NoLoopOf
  <2>6. Idle(s, d)
    BY <2>3, <2>4, <2>5 DEF Idle, Out, At
  <2> QED
    BY <2>2, <2>6 DEF Steady, Flow
<1> QED
  BY <1>3, <1>4 DEF SplitInv

\* A split message arrives whole whatever other conversations do at the same time, as long as
\* nothing was repeated between its own two ends, no timer of a split message ran out and no
\* message to everyone is split: the acknowledgement of each fragment is that of the fragment,
\* and the fragments of one message are never joined with those of another, nor in another
\* order, nor is one of them missing or there twice.
THEOREM SplitsAreWhole == Spec => []WholeUnlessRepeated
<1> DEFINE Inv == OriginInv /\ SafeInv /\ Credit /\ SplitInv
<1>1. Init => Inv
  <2>1. ASSUME Init
        PROVE  SafeInv
    <3>1. OriginInv
      BY <2>1, OriginInit
    <3>2. \A d \in Devices : stack[d] = << >> /\ multi[d] = << >>
      BY <2>1 DEF Init
    <3>3. Len(<< >>) = 0
      OBVIOUS
    <3> QED
      BY <3>1, <3>2, <3>3 DEF SafeInv, OriginInv, ReadsGuarded, Guarded, MultiOnePair
  <2> QED
    BY <2>1, OriginInit, CreditInit, SplitInit
<1>2. Inv /\ [Next]_vars => Inv'
  <2> SUFFICES ASSUME Inv, [Next]_vars
               PROVE  Inv'
    OBVIOUS
  <2>1. OriginInv'
    BY OriginStep
  <2>2. SafeInv'
    BY SafeStep
  <2>3. TypeOK'
    BY <2>2 DEF SafeInv
  <2>4. Credit'
    BY <2>3, CreditStep
  <2>5. SplitInv'
    BY <2>3, SplitStep DEF SafeInv
  <2> QED
    BY <2>1, <2>2, <2>4, <2>5
<1>3. Inv => WholeUnlessRepeated
  <2> SUFFICES ASSUME Inv, expiries = 0, \A s \in Devices : ~Splits(s, Broadcast),
                      NEW d \in Devices, NEW p \in 1..Len(inbox[d]),
                      <<inbox[d][p].s, inbox[d][p].r>> \notin repeated
               PROVE  IsWhole(inbox[d][p])
    BY DEF WholeUnlessRepeated
  <2>1. Clean(d)
    BY DEF SplitInv, NoSplitCast
  <2> QED
    BY <2>1 DEF Clean, AllWhole, Pair
<1> QED
  BY <1>1, <1>2, <1>3, PTL DEF Spec

=============================================================================
