------------------------ MODULE AIBusHandler_proofs ------------------------
(***************************************************************************)
(* Proofs about AIBusHandler for any number of devices, any scripts and    *)
(* any bounds: type correctness, and that multi_cache never mixes the      *)
(* fragments of two conversations.                                         *)
(***************************************************************************)
EXTENDS AIBusHandler, SequenceTheorems, FiniteSetTheorems, WellFoundedInduction, TLAPS

-----------------------------------------------------------------------------
(* The call stack.                                                         *)

\* Pushing a call: the stack grows by it and keeps what it held.
LEMMA PushProperties ==
    ASSUME NEW S, NEW s \in Seq(S), NEW c \in S
    PROVE  /\ Push(s, c) \in Seq(S)
           /\ Len(Push(s, c)) = Len(s) + 1
           /\ Top(Push(s, c)) = c
           /\ \A j \in 1..Len(s) : Push(s, c)[j] = s[j]
           /\ Push(s, c)[Len(s) + 1] = c
BY DEF Push, Top

\* Popping a call: the stack shrinks to its earlier elements.
LEMMA PopProperties ==
    ASSUME NEW S, NEW s \in Seq(S), s # << >>
    PROVE  /\ Pop(s) \in Seq(S)
           /\ Len(Pop(s)) = Len(s) - 1
           /\ \A j \in 1..Len(s) - 1 : Pop(s)[j] = s[j]
<1> DEFINE n == Len(s)
           t == SubSeq(s, 1, n - 1)
<1>1. n \in Nat /\ n > 0
  BY EmptySeq, LenProperties
<1>2. \A j \in 1..n - 1 : s[j] \in S
  BY <1>1, ElementOfSeq
<1>3. n - 1 \in Int /\ 1 \in Int
  BY <1>1
<1>4. /\ t \in Seq(S)
      /\ Len(t) = IF 1 <= n - 1 THEN (n - 1) - 1 + 1 ELSE 0
      /\ \A j \in 1..((n - 1) - 1 + 1) : t[j] = s[1 + j - 1]
  BY <1>2, <1>3, SubSeqProperties
<1>5. Pop(s) = t
  BY DEF Pop
<1> HIDE DEF t, n
<1>6. Len(t) = n - 1
  BY <1>1, <1>4
<1>7. \A j \in 1..n - 1 : t[j] = s[j]
  BY <1>1, <1>4
<1> QED
  BY <1>4, <1>5, <1>6, <1>7 DEF n

\* The top of a stack is one of its calls.
LEMMA TopProperties ==
    ASSUME NEW S, NEW s \in Seq(S), s # << >>
    PROVE  Top(s) \in S /\ Len(s) \in 1..Len(s)
BY DEF Top

\* Replacing the top leaves the rest of the stack.
LEMMA SetTopProperties ==
    ASSUME NEW S, NEW s \in Seq(S), s # << >>, NEW c \in S
    PROVE  /\ SetTop(s, c) \in Seq(S)
           /\ Len(SetTop(s, c)) = Len(s)
           /\ Top(SetTop(s, c)) = c
           /\ \A j \in 1..Len(s) - 1 : SetTop(s, c)[j] = s[j]
BY DEF SetTop, Top

\* The program counter tells a write from a read.
LEMMA CallKinds ==
    ASSUME NEW c \in Call
    PROVE  /\ c.pc \in WritePC => c \in WriteRecord
           /\ c.pc \in ReadPC => c \in ReadRecord
           /\ c.pc \in WritePC \union ReadPC
BY DEF Call, WriteRecord, ReadRecord, WritePC, ReadPC

\* A new write is a call.
LEMMA WriteCallType ==
    ASSUME NEW m \in Frame, NEW ack \in BOOLEAN
    PROVE  WriteCall(m, ack) \in WriteRecord /\ WriteCall(m, ack) \in Call
BY DEF WriteCall, WriteRecord, Call, WritePC, Frame

\* A read suspended for its acknowledgement or a resend is a call.
LEMMA ReadCallType ==
    ASSUME NEW m \in Frame, NEW pc \in {"enter", "ack", "nodata"},
           NEW flags \in [cache : BOOLEAN, multi : BOOLEAN]
    PROVE  ReadCall(pc, m, flags) \in ReadRecord /\ ReadCall(pc, m, flags) \in Call
BY DEF ReadCall, ReadRecord, Call, ReadPC

\* Filling a slot of the blocking loop leaves a call.
LEMMA LoopRecordType ==
    ASSUME NEW c \in ReadRecord, NEW g \in Seq(Unit), NEW k \in Nat,
           Len(g) = c.m.n, k <= c.m.n
    PROVE  [c EXCEPT !.got = g, !.k = k] \in ReadRecord
<1> DEFINE e == [c EXCEPT !.got = g, !.k = k]
<1>1. e \in [pc : ReadPC, m : Frame, cache : BOOLEAN, multi : BOOLEAN, k : Nat, got : Seq(Unit)]
  BY DEF ReadRecord
<1>2. e.pc = c.pc /\ e.m = c.m /\ e.got = g /\ e.k = k
  BY DEF ReadRecord
<1> HIDE DEF e
<1>3. e \in ReadRecord
  BY <1>1, <1>2 DEF ReadRecord
<1> QED
  BY <1>3 DEF e

-----------------------------------------------------------------------------
(* Frames.                                                                 *)

\* Acknowledgements and resend requests are frames.
LEMMA ShortType ==
    ASSUME NEW s \in Addresses, NEW r \in Addresses
    PROVE  Ack(s, r) \in Frame /\ ResendMsg(s, r) \in Frame
BY DEF Ack, ResendMsg, Short, Frame

\* A fragment of a message is a frame of one unit with an index below its count.
LEMMA FragmentType ==
    ASSUME NEW m \in Frame, NEW i \in Nat, i < Len(m.d)
    PROVE  Fragment(m, i) \in Frame
<1>1. m.d \in Seq(Unit) /\ m.s \in Addresses /\ m.r \in Addresses
  BY DEF Frame
<1>2. m.d[i + 1] \in Unit /\ Len(m.d) \in Nat
  BY <1>1, ElementOfSeq, LenProperties
<1>3. <<m.d[i + 1]>> \in Seq(Unit) /\ Len(<<m.d[i + 1]>>) = 1
  BY <1>2
<1> QED
  BY <1>1, <1>2, <1>3 DEF Fragment, Frame

\* An assembled message is a frame.
LEMMA WholeMessageType ==
    ASSUME NEW f \in Frame, NEW data \in Seq(Unit)
    PROVE  WholeMessage(f, data) \in Frame
BY DEF WholeMessage, Frame

\* A damaged frame is a frame.
LEMMA DamagedType ==
    ASSUME NEW f \in Frame
    PROVE  Damaged(f) \in Frame
BY DEF Damaged, Frame

-----------------------------------------------------------------------------
(* Operators that handlers use to change the state.                        *)

\* tx_vec keeps frames.
LEMMA RememberType ==
    ASSUME TypeOK, NEW d \in Devices, NEW m \in Frame
    PROVE  Remember(d, m) \in SUBSET Frame
BY DEF TypeOK, Remember

\* cached_vec keeps frames and never outgrows its storage.
LEMMA CacheMessageType ==
    ASSUME NEW c \in Seq(Frame), Len(c) <= CacheSize, NEW x \in Frame
    PROVE  CacheMessage(c, x) \in Seq(Frame) /\ Len(CacheMessage(c, x)) <= CacheSize
<1>1. CacheSize \in Nat /\ Len(c) \in Nat
  BY BoundAssumption, LenProperties
<1>2. Append(c, x) \in Seq(Frame) /\ Len(Append(c, x)) = Len(c) + 1
  BY AppendProperties
<1> QED
  BY <1>1, <1>2 DEF CacheMessage

\* Resuming the caller of a read leaves a stack of calls.
LEMMA ResumeStackType ==
    ASSUME NEW s \in Seq(Call), NEW x \in Frame
    PROVE  ResumeStack(s, x) \in Seq(Call)
<1>1. CASE s = << >>
  BY <1>1 DEF ResumeStack
<1>2. CASE s # << >>
  <2> DEFINE c == Top(s)
  <2>1. c \in Call
    BY <1>2, TopProperties
  <2>2. ASSUME c.pc \in {"collect", "await"}
        PROVE  SetTop(s, [c EXCEPT !.ok = TRUE]) \in Seq(Call)
    <3>1. [c EXCEPT !.ok = TRUE] \in Call
      BY <2>1, <2>2, CallKinds DEF WritePC, WriteRecord, Call
    <3> QED
      BY <1>2, <3>1, SetTopProperties
  <2>3. ASSUME c.pc = "loop", Continues(c, x), x.i >= c.k
        PROVE  SetTop(s, [c EXCEPT !.got[x.i + 1] = x.d[1], !.k = c.k + 1]) \in Seq(Call)
    <3>1. c \in ReadRecord
      BY <2>1, <2>3, CallKinds DEF ReadPC
    <3>2. c.got \in Seq(Unit) /\ c.m \in Frame /\ c.m.t = "frag" /\ Len(c.got) = c.m.n /\ c.k \in Nat
      BY <2>3, <3>1 DEF ReadRecord
    <3>3. x.t = "frag" /\ x.i \in Nat /\ x.i < c.m.n /\ x.d \in Seq(Unit) /\ Len(x.d) = 1 /\ c.m.n \in Nat
      BY <2>3, <3>2 DEF Continues, Frame
    <3>4. x.d[1] \in Unit
      BY <3>3, ElementOfSeq
    <3> DEFINE g == [c.got EXCEPT ![x.i + 1] = x.d[1]]
    <3>5. g \in Seq(Unit) /\ Len(g) = Len(c.got)
      BY <3>2, <3>3, <3>4, ExceptSeq
    <3>6. c.k + 1 <= c.m.n
      BY <2>3, <3>2, <3>3
    <3> DEFINE k == c.k + 1
    <3>7. [c EXCEPT !.got = g, !.k = k] \in ReadRecord
      <4>1. k \in Nat /\ k <= c.m.n /\ Len(g) = c.m.n
        BY <3>2, <3>5, <3>6
      <4> HIDE DEF g, k, c
      <4> QED
        BY <4>1, <3>1, <3>5, LoopRecordType
    <3>8. [c EXCEPT !.got[x.i + 1] = x.d[1], !.k = c.k + 1] = [c EXCEPT !.got = g, !.k = c.k + 1]
      OBVIOUS
    <3> QED
      BY <1>2, <3>7, <3>8, SetTopProperties DEF Call
  <2> QED
    BY <1>2, <2>2, <2>3 DEF ResumeStack
<1> QED
  BY <1>1, <1>2

\* Resuming the caller of a read keeps cached_vec within its storage.
LEMMA ResumeCachedType ==
    ASSUME NEW d \in Devices, NEW c \in Seq(Frame), Len(c) <= CacheSize,
           NEW s \in Seq(Call), NEW x \in Frame
    PROVE  ResumeCached(d, c, s, x) \in Seq(Frame) /\ Len(ResumeCached(d, c, s, x)) <= CacheSize
BY CacheMessageType DEF ResumeCached

\* The part of the state that a returning read changes.
ReadTypeOK ==
    /\ cached \in [Devices -> Seq(Frame)]
    /\ stack \in [Devices -> Seq(Call)]
    /\ inbox \in [Devices -> Seq(Frame)]
    /\ \A d \in Devices : Len(cached[d]) <= CacheSize

\* A read that returns a message leaves cache, stack and inbox well typed.
LEMMA ReturnMessageType ==
    ASSUME ReadTypeOK, NEW d \in Devices, NEW s \in Seq(Call),
           NEW c \in Seq(Frame), Len(c) <= CacheSize, NEW x \in Frame,
           ReturnMessage(d, s, c, x)
    PROVE  ReadTypeOK'
<1>1. stack' \in [Devices -> Seq(Call)]
  BY ResumeStackType DEF ReadTypeOK, ReturnMessage
<1>2. ResumeInbox(d, s, x) \in Seq(Frame)
  BY AppendProperties DEF ReadTypeOK, ResumeInbox
<1>3. inbox' \in [Devices -> Seq(Frame)]
  BY <1>2 DEF ReadTypeOK, ReturnMessage
<1>4. cached' \in [Devices -> Seq(Frame)] /\ \A e \in Devices : Len(cached'[e]) <= CacheSize
  BY ResumeCachedType DEF ReadTypeOK, ReturnMessage
<1> QED
  BY <1>1, <1>3, <1>4 DEF ReadTypeOK

\* A read that returns nothing leaves cache, stack and inbox well typed.
LEMMA ReturnNoDataType ==
    ASSUME ReadTypeOK, NEW d \in Devices, NEW s \in Seq(Call), ReturnNoData(d, s)
    PROVE  ReadTypeOK'
BY DEF ReadTypeOK, ReturnNoData

-----------------------------------------------------------------------------
(* Assembling split messages.                                              *)

\* A nonempty set of positions has a largest one.
LEMMA LargestOf ==
    ASSUME NEW n \in Nat, NEW S \in SUBSET (1..n), S # {}
    PROVE  \E j \in S : \A h \in S : h <= j
<1>1. IsFiniteSet(1..n)
  <2>1. 1 \in Int /\ n \in Int
    OBVIOUS
  <2> QED
    BY <2>1, FS_Interval
<1>2. IsFiniteSet(S)
  BY <1>1, FS_Subset
<1> DEFINE Above(j) == {h \in S : h > j}
           F == {Above(j) : j \in S}
<1>3. F \subseteq SUBSET S /\ F # {}
  OBVIOUS
<1>4. IsWellFoundedOn(StrictSubsetOrdering(S), SUBSET S)
  BY <1>2, FS_StrictSubsetOrderingWellFounded, FS_FiniteSubsetsOfFinite
<1>5. \E X \in F : \A Y \in F : <<Y, X>> \notin StrictSubsetOrdering(S)
  <2> HIDE DEF F
  <2> QED
    BY <1>3, <1>4, WFMin
<1>6. PICK j \in S : \A h \in S : <<Above(h), Above(j)>> \notin StrictSubsetOrdering(S)
  BY <1>5
<1>7. ASSUME NEW h \in S, ~(h <= j)
      PROVE  FALSE
  <2>1. \A x \in S : x \in Int
    OBVIOUS
  <2>2. h > j /\ ~(h > h)
    BY <1>7, <2>1
  <2>3. \A x \in S : x > h => x > j
    BY <2>1, <2>2
  <2>4. h \in Above(j) /\ h \notin Above(h) /\ Above(h) \subseteq Above(j)
    BY <2>2, <2>3
  <2>5. Above(h) \in SUBSET S /\ Above(j) \in SUBSET S /\ Above(h) # Above(j)
    BY <2>4
  <2> HIDE DEF Above
  <2> QED
    BY <1>6, <2>4, <2>5 DEF StrictSubsetOrdering
<1> QED
  BY <1>7

\* Every slot of an assembled message holds a unit.
LEMMA AssembledSlotType ==
    ASSUME NEW frags \in Seq(Fragments), NEW f \in Frame, NEW p \in Nat
    PROVE  AssembledSlot(frags, f, p) \in Unit
<1> DEFINE hits == {j \in 1..Len(frags) : frags[j].i = p /\ SamePair(frags[j], f)}
           last == CHOOSE j \in hits : \A h \in hits : h <= j
<1>1. CASE hits = {}
  BY <1>1 DEF AssembledSlot, Missing, Unit
<1>2. CASE hits # {}
  <2>1. Len(frags) \in Nat /\ hits \in SUBSET (1..Len(frags))
    BY LenProperties
  <2>2. \E j \in hits : \A h \in hits : h <= j
    <3> HIDE DEF hits
    <3> QED
      BY <1>2, <2>1, LargestOf
  <2>3. last \in 1..Len(frags)
    <3>1. last \in hits
      <4> HIDE DEF hits
      <4> QED
        BY <2>2
    <3> QED
      BY <3>1, <2>1
  <2>4. frags[last] \in Frame /\ frags[last].t = "frag"
    <3> HIDE DEF last
    <3> QED
      BY <2>3, ElementOfSeq DEF Fragments
  <2>5. frags[last].d[1] \in Unit
    <3> HIDE DEF last
    <3>1. frags[last].d \in Seq(Unit) /\ Len(frags[last].d) = 1
      BY <2>4 DEF Frame
    <3> QED
      BY <3>1, ElementOfSeq
  <2>6. AssembledSlot(frags, f, p) = frags[last].d[1]
    BY <1>2 DEF AssembledSlot
  <2> QED
    BY <2>5, <2>6
<1> QED
  BY <1>1, <1>2

\* The blocking loop's record is a call.
LEMMA LoopStartType ==
    ASSUME NEW f \in Fragments, NEW flags \in [cache : BOOLEAN, multi : BOOLEAN]
    PROVE  [ReadCall("loop", f, flags) EXCEPT
              !.k = 1, !.got = [p \in 1..f.n |-> IF p = 1 THEN f.d[1] ELSE Junk]] \in Call
<1> DEFINE g == [p \in 1..f.n |-> IF p = 1 THEN f.d[1] ELSE Junk]
           e == [ReadCall("loop", f, flags) EXCEPT !.k = 1, !.got = g]
<1>1. f \in Frame /\ f.t = "frag" /\ f.n \in Nat /\ 1 <= f.n /\ f.d \in Seq(Unit) /\ Len(f.d) = 1
  BY DEF Fragments, Frame
<1>2. f.d[1] \in Unit /\ Junk \in Unit
  BY <1>1, ElementOfSeq DEF Junk, Unit
<1>3. g \in Seq(Unit) /\ Len(g) = f.n
  <2> DEFINE el(p) == IF p = 1 THEN f.d[1] ELSE Junk
  <2>1. \A p \in 1..f.n : el(p) \in Unit
    BY <1>2
  <2>2. g \in [1..f.n -> Unit]
    BY <2>1
  <2> HIDE DEF g
  <2> QED
    BY <2>2, <1>1
<1> HIDE DEF g
<1>4. e \in [pc : ReadPC, m : Frame, cache : BOOLEAN, multi : BOOLEAN, k : Nat, got : Seq(Unit)]
  BY <1>1, <1>3 DEF ReadCall, ReadPC
<1>5. e.m = f /\ e.got = g /\ e.k = 1
  BY DEF ReadCall
<1> HIDE DEF e
<1>6. e \in ReadRecord
  BY <1>1, <1>3, <1>4, <1>5 DEF ReadRecord
<1>7. e \in Call
  BY <1>6 DEF Call
<1> QED
  BY <1>7 DEF e, g

\* What the blocking loop returns is a frame.
LEMMA LoopMessageType ==
    ASSUME NEW c \in Call, c.pc = "loop"
    PROVE  LoopMessage(c) \in Frame
<1>1. c \in ReadRecord
  BY CallKinds DEF ReadPC
<1>2. c.m \in Frame /\ c.got \in Seq(Unit) /\ c.k \in Nat /\ c.k <= Len(c.got)
  BY <1>1 DEF ReadRecord
<1>3. \A j \in 1..c.k : c.got[j] \in Unit
  <2> TAKE j \in 1..c.k
  <2>1. j \in 1..Len(c.got)
    BY <1>2, LenProperties
  <2> QED
    BY <1>2, <2>1, ElementOfSeq
<1>4. SubSeq(c.got, 1, c.k) \in Seq(Unit)
  BY <1>2, <1>3, SubSeqProperties
<1> QED
  BY <1>2, <1>4, WholeMessageType DEF LoopMessage

\* A message assembled from multi_cache is a frame.
LEMMA AssembledType ==
    ASSUME NEW stored \in Seq(Fragments), NEW f \in Fragments
    PROVE  LET frags == Append(stored, f)
           IN WholeMessage(f, [p \in 1..frags[1].n |-> AssembledSlot(frags, f, p - 1)]) \in Frame
<1> DEFINE frags == Append(stored, f)
           n == frags[1].n
           data == [p \in 1..n |-> AssembledSlot(frags, f, p - 1)]
<1>1. frags \in Seq(Fragments) /\ Len(frags) > 0
  BY AppendProperties, LenProperties
<1>2. frags[1] \in Fragments
  <2> HIDE DEF frags
  <2> QED
    BY <1>1, ElementOfSeq, LenProperties
<1>3. n \in Nat
  <2> HIDE DEF frags
  <2> QED
    BY <1>2 DEF Fragments, Frame
<1>4. f \in Frame
  BY DEF Fragments
<1>5. \A p \in 1..n : AssembledSlot(frags, f, p - 1) \in Unit
  <2> TAKE p \in 1..n
  <2>1. p - 1 \in Nat
    BY <1>3
  <2> HIDE DEF frags
  <2> QED
    BY <2>1, <1>1, <1>4, AssembledSlotType
<1>6. data \in Seq(Unit)
  <2>1. n \in Nat /\ data \in [1..n -> Unit]
    BY <1>3, <1>5
  <2> HIDE DEF n, data
  <2> QED
    BY <2>1
<1>7. WholeMessage(f, data) \in Frame
  <2> HIDE DEF data
  <2> QED
    BY <1>4, <1>6, WholeMessageType
<1> QED
  BY <1>7

\* A fragment that is stored, assembled or starts the loop leaves the state well
\* typed.
LEMMA ReadFragmentType ==
    ASSUME ReadTypeOK, multi \in [Devices -> Seq(Fragments)], NEW d \in Devices,
           NEW s \in Seq(Call), NEW f \in Fragments,
           NEW flags \in [cache : BOOLEAN, multi : BOOLEAN],
           ReadFragment(d, s, f, flags)
    PROVE  ReadTypeOK' /\ multi' \in [Devices -> Seq(Fragments)]
<1> DEFINE frags == Append(multi[d], f)
           loop == [ReadCall("loop", f, flags) EXCEPT
                      !.k = 1, !.got = [p \in 1..f.n |-> IF p = 1 THEN f.d[1] ELSE Junk]]
           whole == WholeMessage(f, [p \in 1..frags[1].n |-> AssembledSlot(frags, f, p - 1)])
<1>1. frags \in Seq(Fragments) /\ Len(frags) > 0
  BY AppendProperties, LenProperties
<1>2. Push(s, loop) \in Seq(Call)
  <2>1. loop \in Call
    BY LoopStartType
  <2> HIDE DEF loop
  <2> QED
    BY <2>1, PushProperties
<1>3. whole \in Frame
  BY AssembledType
<1>4. CASE /\ multi' = multi
           /\ ReturnNoData(d, s) \/ ReturnNoData(d, Push(s, loop))
  <2> HIDE DEF loop
  <2> QED
    BY <1>2, <1>4, ReturnNoDataType
<1>5. CASE multi' = [multi EXCEPT ![d] = frags] /\ ReturnNoData(d, s)
  <2> HIDE DEF frags
  <2> QED
    BY <1>1, <1>5, ReturnNoDataType
<1>6. CASE multi' = [multi EXCEPT ![d] = << >>] /\ ReturnMessage(d, s, cached[d], whole)
  <2>1. cached[d] \in Seq(Frame) /\ Len(cached[d]) <= CacheSize /\ << >> \in Seq(Fragments)
    BY DEF ReadTypeOK
  <2>2. multi' \in [Devices -> Seq(Fragments)]
    BY <1>6, <2>1
  <2> HIDE DEF whole
  <2> QED
    BY <1>3, <1>6, <2>1, <2>2, ReturnMessageType
<1> QED
  BY <1>4, <1>5, <1>6 DEF ReadFragment

-----------------------------------------------------------------------------
(* Type correctness, action by action.                                     *)

\* The conjuncts of TypeOK that reading a frame may change.
LEMMA TypeParts ==
    TypeOK <=> /\ ReadTypeOK
               /\ rx \in [Devices -> Seq(Frame)]
               /\ multi \in [Devices -> Seq(Fragments)]
               /\ tx \in [Devices -> SUBSET Frame]
               /\ outcome \in [Devices -> Seq(BOOLEAN)]
               /\ repeated \in SUBSET (Addresses \X Addresses)
               /\ losses \in 0..MaxLoss
               /\ expiries \in 0..MaxExpiry + 1
BY DEF TypeOK, ReadTypeOK

\* The arguments and the caller of a read.
LEMMA ReadContextType ==
    ASSUME TypeOK, NEW d \in Devices, Reads(d)
    PROVE  Flags(d) \in [cache : BOOLEAN, multi : BOOLEAN] /\ Base(d) \in Seq(Call)
<1>1. stack[d] \in Seq(Call)
  BY DEF TypeOK
<1>2. CASE TopIs(d, {"enter"})
  <2>1. Top(stack[d]) \in ReadRecord
    BY <1>1, <1>2, TopProperties, CallKinds DEF TopIs, ReadPC
  <2>2. Flags(d) = [cache |-> Top(stack[d]).cache, multi |-> Top(stack[d]).multi]
    BY <1>2 DEF Flags, TopIs
  <2>3. Base(d) = Pop(stack[d])
    BY <1>2 DEF Base, TopIs
  <2> QED
    BY <1>1, <1>2, <2>1, <2>2, <2>3, PopProperties DEF ReadRecord, TopIs
<1>3. CASE TopIs(d, {"drain"})
  <2>1. Top(stack[d]) \in WriteRecord
    BY <1>1, <1>3, TopProperties, CallKinds DEF TopIs, WritePC
  <2>2. [Top(stack[d]) EXCEPT !.k = 1] \in Call
    BY <2>1 DEF WriteRecord, Call
  <2>3. Base(d) = SetTop(stack[d], [Top(stack[d]) EXCEPT !.k = 1])
    BY <1>3 DEF Base, TopIs
  <2>4. Flags(d) = [cache |-> FALSE, multi |-> TRUE]
    BY <1>3 DEF Flags, TopIs
  <2> QED
    BY <1>1, <1>3, <2>2, <2>3, <2>4, SetTopProperties DEF TopIs
<1>4. CASE ~TopIs(d, {"enter"}) /\ ~TopIs(d, {"drain"})
  BY <1>1, <1>4 DEF Flags, Base
<1> QED
  BY <1>2, <1>3, <1>4

\* The rest of a read, once the frame is acknowledged.
LEMMA AcceptType ==
    ASSUME TypeOK, NEW d \in Devices, NEW s \in Seq(Call), NEW f \in Frame,
           NEW flags \in [cache : BOOLEAN, multi : BOOLEAN], Accept(d, s, f, flags)
    PROVE  /\ ReadTypeOK'
           /\ multi' \in [Devices -> Seq(Fragments)]
           /\ tx' \in [Devices -> SUBSET Frame]
           /\ repeated' \in SUBSET (Addresses \X Addresses)
<1>1. /\ ReadTypeOK /\ cached[d] \in Seq(Frame) /\ Len(cached[d]) <= CacheSize
      /\ multi \in [Devices -> Seq(Fragments)]
      /\ tx \in [Devices -> SUBSET Frame]
      /\ repeated \in SUBSET (Addresses \X Addresses)
  BY TypeParts DEF ReadTypeOK
<1>2. CASE f.t = "resend" /\ f.r = d
  <2> DEFINE last == {m \in tx[d] : m.r = f.s /\ m.s = f.r}
  <2>1. repeated' \in SUBSET (Addresses \X Addresses) /\ UNCHANGED multi
    <3>1. /\ repeated' = IF last = {} THEN repeated ELSE repeated \union {<<f.r, f.s>>}
          /\ UNCHANGED multi
      BY <1>2 DEF Accept
    <3>2. f.r \in Addresses /\ f.s \in Addresses
      BY DEF Frame
    <3> HIDE DEF last
    <3> QED
      BY <1>1, <3>1, <3>2
  <2>2. CASE last = {}
    <3>1. ReturnNoData(d, s) /\ UNCHANGED tx
      BY <1>2, <2>2 DEF Accept
    <3> QED
      BY <1>1, <2>1, <3>1, ReturnNoDataType
  <2>3. CASE last # {}
    <3> DEFINE m == CHOOSE m \in last : TRUE
               call == ReadCall("nodata", f, flags)
    <3>1. m \in Frame
      BY <1>1, <2>3
    <3>2. call \in Call /\ WriteCall(m, TRUE) \in Call
      <4> HIDE DEF m
      <4> QED
        BY <3>1, ReadCallType, WriteCallType
    <3>3. Push(Push(s, call), WriteCall(m, TRUE)) \in Seq(Call)
      <4> HIDE DEF m, call
      <4> QED
        BY <3>2, PushProperties
    <3>4. /\ ReturnNoData(d, Push(Push(s, call), WriteCall(m, TRUE)))
          /\ tx' = [tx EXCEPT ![d] = Remember(d, m)]
      BY <1>2, <2>3 DEF Accept
    <3> HIDE DEF m, call
    <3> QED
      BY <1>1, <2>1, <3>1, <3>3, <3>4, ReturnNoDataType, RememberType
  <2> QED
    BY <2>2, <2>3
<1>3. CASE ~(f.t = "resend" /\ f.r = d)
  <2>1. UNCHANGED <<tx, repeated>>
    BY <1>3 DEF Accept
  <2>2. CASE f.t = "frag" /\ flags.multi /\ f.r \in {d, Broadcast}
    <3>1. ReadFragment(d, s, f, flags) /\ f \in Fragments
      BY <1>3, <2>2 DEF Accept, Fragments
    <3> QED
      BY <1>1, <2>1, <3>1, ReadFragmentType
  <2>3. CASE ~(f.t = "frag" /\ flags.multi /\ f.r \in {d, Broadcast})
    <3>1. ReturnMessage(d, s, cached[d], f) /\ UNCHANGED multi
      BY <1>3, <2>3 DEF Accept
    <3> QED
      BY <1>1, <2>1, <3>1, ReturnMessageType
  <2> QED
    BY <2>2, <2>3
<1> QED
  BY <1>2, <1>3

\* Returning from a write.
LEMMA ReturnWriteType ==
    ASSUME TypeOK, NEW d \in Devices, NEW s \in Seq(Call), NEW ok \in BOOLEAN,
           ReturnWrite(d, s, ok)
    PROVE  stack' \in [Devices -> Seq(Call)] /\ outcome' \in [Devices -> Seq(BOOLEAN)]
<1>1. outcome' \in [Devices -> Seq(BOOLEAN)]
  <2>1. Append(outcome[d], ok) \in Seq(BOOLEAN)
    BY AppendProperties DEF TypeOK
  <2> QED
    BY <2>1 DEF TypeOK, ReturnWrite
<1>2. CASE s = << >>
  BY <1>1, <1>2 DEF TypeOK, ReturnWrite
<1>3. CASE s # << >>
  <2> DEFINE c == Top(s)
             group == [c EXCEPT !.k = @ + 1, !.ok = @ /\ ok]
  <2>1. c \in Call /\ Pop(s) \in Seq(Call)
    BY <1>3, TopProperties, PopProperties
  <2>2. c.pc = "group" => SetTop(s, group) \in Seq(Call)
    <3> SUFFICES ASSUME c.pc = "group" PROVE SetTop(s, group) \in Seq(Call)
      OBVIOUS
    <3>1. c \in WriteRecord
      BY <2>1, CallKinds DEF WritePC
    <3> DEFINE k == c.k + 1
               b == c.ok /\ ok
    <3>2. group \in Call
      <4>1. k \in Nat /\ b \in BOOLEAN
        BY <3>1 DEF WriteRecord
      <4>2. [c EXCEPT !.k = k, !.ok = b] \in WriteRecord
        <5> HIDE DEF c, k, b
        <5> QED
          BY <3>1, <4>1 DEF WriteRecord
      <4> QED
        BY <4>2 DEF Call
    <3> HIDE DEF group
    <3> QED
      BY <1>3, <3>2, SetTopProperties
  <2>3. stack' = [stack EXCEPT ![d] = CASE c.pc = "nodata" -> Pop(s)
                                        [] c.pc = "group" -> SetTop(s, group)
                                        [] OTHER -> s]
    BY <1>3 DEF ReturnWrite
  <2> HIDE DEF c, group
  <2> QED
    BY <1>1, <2>1, <2>2, <2>3 DEF TypeOK
<1> QED
  BY <1>2, <1>3

\* One lemma per action of a read.
LEMMA ExpireMultiType ==
    ASSUME TypeOK, NEW d \in Devices, ExpireMulti(d)
    PROVE  TypeOK'
<1> DEFINE f == multi[d][1]
           m == ResendMsg(d, f.s)
           call == ReadCall("enter", m, Flags(d))
<1>1. Reads(d) /\ Base(d) \in Seq(Call) /\ Flags(d) \in [cache : BOOLEAN, multi : BOOLEAN]
  BY ReadContextType DEF ExpireMulti
<1>2. multi[d] \in Seq(Fragments) /\ multi[d] # << >>
  BY DEF ExpireMulti, TypeOK
<1>3. f \in Frame
  BY <1>2, ElementOfSeq, EmptySeq DEF Fragments
<1>4. m \in Frame
  <2>1. f.s \in Addresses /\ d \in Addresses
    BY <1>3 DEF Frame, Addresses
  <2> HIDE DEF f
  <2> QED
    BY <2>1, ShortType
<1>5. Push(Push(Base(d), call), WriteCall(m, TRUE)) \in Seq(Call)
  <2>1. call \in Call /\ WriteCall(m, TRUE) \in Call
    <3> HIDE DEF m
    <3> QED
      BY <1>1, <1>4, ReadCallType, WriteCallType
  <2> HIDE DEF call, m
  <2> QED
    BY <1>1, <2>1, PushProperties
<1>6. /\ multi' = [multi EXCEPT ![d] = << >>]
      /\ expiries' = expiries + 1 /\ expiries < MaxExpiry
      /\ \/ /\ stack' = [stack EXCEPT ![d] = Push(Push(Base(d), call), WriteCall(m, TRUE))]
            /\ tx' = [tx EXCEPT ![d] = Remember(d, m)]
         \/ UNCHANGED <<stack, tx>>
      /\ UNCHANGED <<rx, cached, inbox, outcome, repeated, losses>>
  BY DEF ExpireMulti
<1>7. Remember(d, m) \in SUBSET Frame
  <2> HIDE DEF m
  <2> QED
    BY <1>4, RememberType
<1>8. stack' \in [Devices -> Seq(Call)] /\ tx' \in [Devices -> SUBSET Frame]
  <2> HIDE DEF m, call
  <2> QED
    BY <1>5, <1>6, <1>7 DEF TypeOK
<1>9. multi' \in [Devices -> Seq(Fragments)] /\ expiries' \in 0..MaxExpiry + 1
  BY <1>6, BoundAssumption DEF TypeOK
<1> QED
  BY <1>6, <1>8, <1>9 DEF TypeOK

LEMMA ReadCachedType ==
    ASSUME TypeOK, NEW d \in Devices, ReadCached(d)
    PROVE  TypeOK'
<1>1. Reads(d) /\ Base(d) \in Seq(Call)
  BY ReadContextType DEF ReadCached
<1>2. cached[d] \in Seq(Frame) /\ Len(cached[d]) <= CacheSize /\ cached[d] # << >>
  BY DEF ReadCached, TypeOK
<1>3. /\ Tail(cached[d]) \in Seq(Frame) /\ Head(cached[d]) \in Frame
      /\ Len(Tail(cached[d])) <= CacheSize
  BY <1>2, HeadTailProperties, LenProperties, BoundAssumption
<1>4. ReadTypeOK'
  BY <1>1, <1>3, TypeParts, ReturnMessageType DEF ReadCached
<1> QED
  BY <1>4 DEF ReadCached, TypeOK, ReadTypeOK

LEMMA ReadFrameType ==
    ASSUME TypeOK, NEW d \in Devices, ReadFrame(d)
    PROVE  TypeOK'
<1> DEFINE f == Head(rx[d])
           call == ReadCall("ack", f, Flags(d))
           acked == Push(Push(Base(d), call), WriteCall(Ack(d, f.s), FALSE))
<1>1. Reads(d) /\ Base(d) \in Seq(Call) /\ Flags(d) \in [cache : BOOLEAN, multi : BOOLEAN]
  BY ReadContextType DEF ReadFrame
<1>2. f \in Frame /\ Tail(rx[d]) \in Seq(Frame)
  BY HeadTailProperties DEF ReadFrame, TypeOK
<1>3. rx' \in [Devices -> Seq(Frame)]
  BY <1>2 DEF ReadFrame, TypeOK
<1>4. UNCHANGED <<outcome, losses, expiries>>
  BY DEF ReadFrame
<1>5. acked \in Seq(Call)
  <2>1. Ack(d, f.s) \in Frame
    <3>1. d \in Addresses /\ f.s \in Addresses
      BY <1>2 DEF Addresses, Frame
    <3> HIDE DEF f
    <3> QED
      BY <3>1, ShortType
  <2>2. call \in Call /\ WriteCall(Ack(d, f.s), FALSE) \in Call
    <3> HIDE DEF f
    <3> QED
      BY <1>1, <1>2, <2>1, ReadCallType, WriteCallType
  <2> HIDE DEF call, f
  <2> QED
    BY <1>1, <2>2, PushProperties
<1>6. \/ /\ ReturnNoData(d, Base(d)) \/ ReturnNoData(d, acked)
         /\ UNCHANGED <<multi, tx, repeated>>
      \/ Accept(d, Base(d), f, Flags(d))
  BY DEF ReadFrame
<1> HIDE DEF f, acked
<1>7. /\ ReadTypeOK'
      /\ multi' \in [Devices -> Seq(Fragments)]
      /\ tx' \in [Devices -> SUBSET Frame]
      /\ repeated' \in SUBSET (Addresses \X Addresses)
  <2>1. CASE /\ ReturnNoData(d, Base(d)) \/ ReturnNoData(d, acked)
             /\ UNCHANGED <<multi, tx, repeated>>
    BY <1>1, <1>5, <2>1, TypeParts, ReturnNoDataType
  <2>2. CASE Accept(d, Base(d), f, Flags(d))
    BY <1>1, <1>2, <2>2, AcceptType
  <2> QED
    BY <1>6, <2>1, <2>2
<1> QED
  BY <1>3, <1>4, <1>7 DEF TypeOK, ReadTypeOK

LEMMA AcknowledgedType ==
    ASSUME TypeOK, NEW d \in Devices, Acknowledged(d)
    PROVE  TypeOK'
<1> DEFINE c == Top(stack[d])
           flags == [cache |-> c.cache, multi |-> c.multi]
<1>1. stack[d] \in Seq(Call) /\ stack[d] # << >> /\ c.pc = "ack"
  BY DEF Acknowledged, TopIs, TypeOK
<1>2. c \in ReadRecord /\ Pop(stack[d]) \in Seq(Call)
  BY <1>1, TopProperties, PopProperties, CallKinds DEF ReadPC
<1>3. c.m \in Frame /\ flags \in [cache : BOOLEAN, multi : BOOLEAN]
  <2> HIDE DEF c
  <2> QED
    BY <1>2 DEF ReadRecord
<1>4. Accept(d, Pop(stack[d]), c.m, flags) /\ UNCHANGED <<rx, outcome, losses, expiries>>
  BY DEF Acknowledged
<1>5. /\ ReadTypeOK'
      /\ multi' \in [Devices -> Seq(Fragments)]
      /\ tx' \in [Devices -> SUBSET Frame]
      /\ repeated' \in SUBSET (Addresses \X Addresses)
  <2> HIDE DEF flags, c
  <2> QED
    BY <1>2, <1>3, <1>4, AcceptType
<1> QED
  BY <1>4, <1>5 DEF TypeOK, ReadTypeOK

LEMMA ReadNothingType ==
    ASSUME TypeOK, NEW d \in Devices, ReadNothing(d)
    PROVE  TypeOK'
<1>1. Reads(d) /\ Base(d) \in Seq(Call)
  BY ReadContextType DEF ReadNothing, Reads
<1>2. ReadTypeOK'
  BY <1>1, TypeParts, ReturnNoDataType DEF ReadNothing
<1> QED
  BY <1>2 DEF ReadNothing, TypeOK, ReadTypeOK

LEMMA LoopDoneType ==
    ASSUME TypeOK, NEW d \in Devices, LoopDone(d)
    PROVE  TypeOK'
<1>1. stack[d] \in Seq(Call) /\ stack[d] # << >> /\ Top(stack[d]).pc = "loop"
  BY DEF LoopDone, TopIs, TypeOK
<1>2. LoopMessage(Top(stack[d])) \in Frame /\ Pop(stack[d]) \in Seq(Call)
  BY <1>1, TopProperties, PopProperties, LoopMessageType
<1>3. cached[d] \in Seq(Frame) /\ Len(cached[d]) <= CacheSize
  BY DEF TypeOK
<1>4. ReadTypeOK'
  BY <1>2, <1>3, TypeParts, ReturnMessageType DEF LoopDone
<1> QED
  BY <1>4 DEF LoopDone, TypeOK, ReadTypeOK

LEMMA LoopTimeoutType ==
    ASSUME TypeOK, NEW d \in Devices, LoopTimeout(d)
    PROVE  TypeOK'
<1> DEFINE c == Top(stack[d])
           m == ResendMsg(c.m.r, c.m.s)
           e == [c EXCEPT !.pc = "nodata"]
           asked == Push(Push(Pop(stack[d]), e), WriteCall(m, TRUE))
<1>1. stack[d] \in Seq(Call) /\ stack[d] # << >> /\ c.pc = "loop"
  BY DEF LoopTimeout, TopIs, TypeOK
<1>2. c \in ReadRecord /\ Pop(stack[d]) \in Seq(Call) /\ LoopMessage(c) \in Frame
  BY <1>1, TopProperties, PopProperties, CallKinds, LoopMessageType DEF ReadPC
<1>3. cached[d] \in Seq(Frame) /\ Len(cached[d]) <= CacheSize
  BY DEF TypeOK
<1>4. m \in Frame
  <2>1. c.m.r \in Addresses /\ c.m.s \in Addresses
    <3> HIDE DEF c
    <3> QED
      BY <1>2 DEF ReadRecord, Frame
  <2> HIDE DEF c
  <2> QED
    BY <2>1, ShortType
<1>5. asked \in Seq(Call)
  <2>1. e \in Call
    <3> HIDE DEF c
    <3> QED
      BY <1>2 DEF ReadRecord, ReadPC, Call
  <2>2. WriteCall(m, TRUE) \in Call
    <3> HIDE DEF m
    <3> QED
      BY <1>4, WriteCallType
  <2> HIDE DEF e, m
  <2> QED
    BY <1>2, <2>1, <2>2, PushProperties
<1>6. UNCHANGED <<rx, multi, outcome, repeated, losses>>
  BY DEF LoopTimeout
<1>7. \/ /\ ReturnMessage(d, Pop(stack[d]), cached[d], LoopMessage(c))
         /\ expiries' = IF expiries > MaxExpiry THEN expiries ELSE expiries + 1
         /\ UNCHANGED tx
      \/ /\ expiries < MaxExpiry
         /\ expiries' = expiries + 1
         /\ ReturnNoData(d, asked)
         /\ tx' = [tx EXCEPT ![d] = Remember(d, m)]
  BY DEF LoopTimeout
<1> HIDE DEF c, m, asked
<1>8. ReadTypeOK'
  BY <1>2, <1>3, <1>5, <1>7, TypeParts, ReturnMessageType, ReturnNoDataType
<1>9. tx' \in [Devices -> SUBSET Frame]
  <2>1. Remember(d, m) \in SUBSET Frame
    BY <1>4, RememberType
  <2> QED
    BY <1>7, <2>1 DEF TypeOK
<1>10. expiries' \in 0..MaxExpiry + 1
  BY <1>7, BoundAssumption DEF TypeOK
<1> QED
  BY <1>6, <1>8, <1>9, <1>10 DEF TypeOK, ReadTypeOK

\* One lemma per action of a write.
LEMMA WriteType ==
    ASSUME TypeOK, NEW d \in Devices, Write(d)
    PROVE  TypeOK'
<1> DEFINE m == Script[d][Len(outcome[d]) + 1]
           ack == m.r # Broadcast
<1>1. m \in Frame
  <2>1. Len(outcome[d]) \in Nat /\ Len(outcome[d]) < Len(Script[d])
    BY LenProperties DEF Write, TypeOK
  <2>2. Script[d] \in Seq(Frame)
    BY ScriptAssumption
  <2>3. Len(outcome[d]) + 1 \in 1..Len(Script[d])
    BY <2>1, <2>2, LenProperties
  <2> QED
    BY <2>2, <2>3, ElementOfSeq
<1>2. /\ stack' = [stack EXCEPT ![d] = <<WriteCall(m, ack)>>]
      /\ tx' = [tx EXCEPT ![d] = Remember(d, m)]
      /\ UNCHANGED <<rx, cached, multi, inbox, outcome, repeated, losses, expiries>>
  BY DEF Write
<1>3. ack \in BOOLEAN
  OBVIOUS
<1> HIDE DEF m, ack
<1>4. WriteCall(m, ack) \in Call /\ Remember(d, m) \in SUBSET Frame
  BY <1>1, <1>3, WriteCallType, RememberType
<1> QED
  BY <1>2, <1>4 DEF TypeOK

LEMMA WriteFragmentType ==
    ASSUME TypeOK, NEW d \in Devices, WriteFragment(d)
    PROVE  TypeOK'
<1> DEFINE c == Top(stack[d])
<1>1. stack[d] \in Seq(Call) /\ stack[d] # << >> /\ c.pc = "group"
  BY DEF WriteFragment, TopIs, TypeOK
<1>2. c \in WriteRecord
  BY <1>1, TopProperties, CallKinds DEF WritePC
<1>3. /\ c.k < Len(c.m.d)
      /\ stack' = [stack EXCEPT ![d] = Push(@, WriteCall(Fragment(c.m, c.k), c.ack))]
      /\ UNCHANGED <<rx, cached, multi, tx, inbox, outcome, repeated, losses, expiries>>
  BY DEF WriteFragment
<1>4. WriteCall(Fragment(c.m, c.k), c.ack) \in Call
  <2>1. c.m \in Frame /\ c.k \in Nat /\ c.ack \in BOOLEAN
    <3> HIDE DEF c
    <3> QED
      BY <1>2 DEF WriteRecord
  <2> HIDE DEF c
  <2> QED
    BY <1>3, <2>1, FragmentType, WriteCallType
<1> HIDE DEF c
<1>5. Push(stack[d], WriteCall(Fragment(c.m, c.k), c.ack)) \in Seq(Call)
  BY <1>1, <1>4, PushProperties
<1> QED
  BY <1>3, <1>5 DEF TypeOK

\* What a record of a write holds.
LEMMA TopWriteType ==
    ASSUME TypeOK, NEW d \in Devices, TopIs(d, WritePC)
    PROVE  /\ stack[d] \in Seq(Call) /\ stack[d] # << >> /\ Pop(stack[d]) \in Seq(Call)
           /\ Top(stack[d]) \in WriteRecord /\ Top(stack[d]).m \in Frame
           /\ Top(stack[d]).ok \in BOOLEAN /\ Top(stack[d]).ack \in BOOLEAN
           /\ Top(stack[d]).tries \in Nat
<1>1. stack[d] \in Seq(Call) /\ stack[d] # << >> /\ Top(stack[d]).pc \in WritePC
  BY DEF TopIs, TypeOK
<1>2. Top(stack[d]) \in WriteRecord /\ Pop(stack[d]) \in Seq(Call)
  BY <1>1, TopProperties, PopProperties, CallKinds
<1> QED
  BY <1>1, <1>2 DEF WriteRecord

LEMMA WriteGroupDoneType ==
    ASSUME TypeOK, NEW d \in Devices, WriteGroupDone(d)
    PROVE  TypeOK'
<1>1. TopIs(d, WritePC)
  BY DEF WriteGroupDone, TopIs, WritePC
<1>2. ReturnWrite(d, Pop(stack[d]), Top(stack[d]).ok)
  BY DEF WriteGroupDone
<1>3. stack' \in [Devices -> Seq(Call)] /\ outcome' \in [Devices -> Seq(BOOLEAN)]
  BY <1>1, <1>2, TopWriteType, ReturnWriteType
<1> QED
  BY <1>3 DEF WriteGroupDone, TypeOK

\* Whatever the bus does, the receive buffers hold frames.
LEMMA TransmitType ==
    ASSUME TypeOK, NEW d \in Devices, NEW f \in Frame, Transmit(d, f)
    PROVE  rx' \in [Devices -> Seq(Frame)] /\ losses' \in 0..MaxLoss
<1>1. \A e \in Devices : /\ rx[e] \in Seq(Frame)
                         /\ Append(rx[e], f) \in Seq(Frame)
                         /\ Append(rx[e], Damaged(f)) \in Seq(Frame)
  BY DamagedType, AppendProperties DEF TypeOK
<1>2. CASE /\ rx' = [e \in Devices |-> IF e = d THEN rx[e] ELSE Append(rx[e], f)]
           /\ UNCHANGED losses
  BY <1>1, <1>2 DEF TypeOK
<1>3. CASE \E victims \in SUBSET Others(d) \ {{}}, lost \in BOOLEAN :
              /\ losses < MaxLoss
              /\ losses' = losses + 1
              /\ rx' = [e \in Devices |->
                          IF e = d \/ (e \in victims /\ lost) THEN rx[e]
                          ELSE Append(rx[e], IF e \in victims THEN Damaged(f) ELSE f)]
  <2>1. PICK victims \in SUBSET Others(d) \ {{}}, lost \in BOOLEAN :
              /\ losses < MaxLoss
              /\ losses' = losses + 1
              /\ rx' = [e \in Devices |->
                          IF e = d \/ (e \in victims /\ lost) THEN rx[e]
                          ELSE Append(rx[e], IF e \in victims THEN Damaged(f) ELSE f)]
    BY <1>3
  <2>2. losses' \in 0..MaxLoss
    BY <2>1, BoundAssumption DEF TypeOK
  <2>3. \A e \in Devices : rx'[e] \in Seq(Frame)
    <3> TAKE e \in Devices
    <3>1. rx'[e] = rx[e] \/ rx'[e] = Append(rx[e], f) \/ rx'[e] = Append(rx[e], Damaged(f))
      BY <2>1
    <3> QED
      BY <1>1, <3>1
  <2> QED
    BY <2>1, <2>2, <2>3
<1> QED
  BY <1>2, <1>3 DEF Transmit

LEMMA SendType ==
    ASSUME TypeOK, NEW d \in Devices, Send(d)
    PROVE  TypeOK'
<1> DEFINE w == Top(stack[d])
           sent == SetTop(stack[d], [w EXCEPT !.pc = "collect"])
<1>1. TopIs(d, WritePC)
  BY DEF Send, TopIs, WritePC
<1>2. /\ w \in WriteRecord /\ w.m \in Frame
      /\ stack[d] \in Seq(Call) /\ stack[d] # << >> /\ Pop(stack[d]) \in Seq(Call)
  BY <1>1, TopWriteType
<1>3. /\ Transmit(d, w.m)
      /\ \/ stack' = [stack EXCEPT ![d] = sent] /\ UNCHANGED outcome
         \/ ReturnWrite(d, Pop(stack[d]), TRUE)
      /\ UNCHANGED <<cached, multi, tx, inbox, repeated, expiries>>
  BY DEF Send
<1>4. sent \in Seq(Call)
  <2>1. [w EXCEPT !.pc = "collect"] \in Call
    <3> HIDE DEF w
    <3> QED
      BY <1>2 DEF WriteRecord, WritePC, Call
  <2> QED
    BY <1>2, <2>1, SetTopProperties
<1> HIDE DEF w, sent
<1>5. rx' \in [Devices -> Seq(Frame)] /\ losses' \in 0..MaxLoss
  BY <1>2, <1>3, TransmitType
<1>6. stack' \in [Devices -> Seq(Call)] /\ outcome' \in [Devices -> Seq(BOOLEAN)]
  <2>1. CASE stack' = [stack EXCEPT ![d] = sent] /\ UNCHANGED outcome
    BY <1>4, <2>1 DEF TypeOK
  <2>2. CASE ReturnWrite(d, Pop(stack[d]), TRUE)
    BY <1>2, <2>2, ReturnWriteType
  <2> QED
    BY <1>3, <2>1, <2>2
<1> QED
  BY <1>3, <1>5, <1>6 DEF TypeOK

LEMMA CollectedType ==
    ASSUME TypeOK, NEW d \in Devices, Collected(d)
    PROVE  TypeOK'
<1> DEFINE w == Top(stack[d])
           waiting == SetTop(stack[d], [w EXCEPT !.pc = "await"])
<1>1. TopIs(d, WritePC)
  BY DEF Collected, TopIs, WritePC
<1>2. w \in WriteRecord /\ stack[d] \in Seq(Call) /\ stack[d] # << >>
  BY <1>1, TopWriteType
<1>3. waiting \in Seq(Call)
  <2>1. [w EXCEPT !.pc = "await"] \in Call
    <3> HIDE DEF w
    <3> QED
      BY <1>2 DEF WriteRecord, WritePC, Call
  <2> QED
    BY <1>2, <2>1, SetTopProperties
<1>4. stack' = [stack EXCEPT ![d] = waiting]
  BY DEF Collected
<1> HIDE DEF waiting
<1> QED
  BY <1>3, <1>4 DEF Collected, TypeOK

LEMMA RepeatType ==
    ASSUME TypeOK, NEW d \in Devices, Repeat(d)
    PROVE  TypeOK'
<1> DEFINE w == Top(stack[d])
           e == [w EXCEPT !.tries = @ + 1]
           repeating == Push(SetTop(stack[d], e), WriteCall(w.m, FALSE))
<1>1. TopIs(d, WritePC)
  BY DEF Repeat, TopIs, WritePC
<1>2. /\ w \in WriteRecord /\ w.m \in Frame
      /\ stack[d] \in Seq(Call) /\ stack[d] # << >>
  BY <1>1, TopWriteType
<1>3. /\ stack' = [stack EXCEPT ![d] = repeating]
      /\ tx' = [tx EXCEPT ![d] = Remember(d, w.m)]
      /\ repeated' = repeated \union {<<w.m.s, w.m.r>>}
      /\ UNCHANGED <<rx, cached, multi, inbox, outcome, losses, expiries>>
  BY DEF Repeat
<1>4. repeating \in Seq(Call)
  <2>1. e \in Call
    <3> HIDE DEF w
    <3> QED
      BY <1>2 DEF WriteRecord, Call
  <2>2. WriteCall(w.m, FALSE) \in Call
    <3> HIDE DEF w
    <3> QED
      BY <1>2, WriteCallType
  <2>3. SetTop(stack[d], e) \in Seq(Call)
    <3> HIDE DEF e
    <3> QED
      BY <1>2, <2>1, SetTopProperties
  <2> HIDE DEF e, w
  <2> QED
    BY <2>2, <2>3, PushProperties
<1> HIDE DEF w, repeating
<1>5. tx' \in [Devices -> SUBSET Frame]
  <2>1. Remember(d, w.m) \in SUBSET Frame
    BY <1>2, RememberType
  <2> QED
    BY <1>3, <2>1 DEF TypeOK
<1>6. repeated' \in SUBSET (Addresses \X Addresses)
  <2>1. w.m.s \in Addresses /\ w.m.r \in Addresses
    BY <1>2 DEF Frame
  <2> QED
    BY <1>3, <2>1 DEF TypeOK
<1> QED
  BY <1>3, <1>4, <1>5, <1>6 DEF TypeOK

LEMMA AwaitDoneType ==
    ASSUME TypeOK, NEW d \in Devices, AwaitDone(d)
    PROVE  TypeOK'
<1>1. TopIs(d, WritePC)
  BY DEF AwaitDone, TopIs, WritePC
<1>2. ReturnWrite(d, Pop(stack[d]), Top(stack[d]).ok)
  BY DEF AwaitDone
<1>3. stack' \in [Devices -> Seq(Call)] /\ outcome' \in [Devices -> Seq(BOOLEAN)]
  BY <1>1, <1>2, TopWriteType, ReturnWriteType
<1> QED
  BY <1>3 DEF AwaitDone, TypeOK

\* Every step keeps the state well typed.
LEMMA TypeStep ==
    ASSUME TypeOK, [Next]_vars
    PROVE  TypeOK'
<1>1. ASSUME NEW d \in Devices, Read(d)
      PROVE  TypeOK'
  BY <1>1, ExpireMultiType, ReadCachedType, ReadFrameType, AcknowledgedType,
     ReadNothingType, LoopDoneType, LoopTimeoutType DEF Read
<1>2. ASSUME NEW d \in Devices, WriteStep(d)
      PROVE  TypeOK'
  BY <1>2, WriteFragmentType, WriteGroupDoneType, SendType, CollectedType, RepeatType,
     AwaitDoneType DEF WriteStep
<1>3. ASSUME NEW d \in Devices, Write(d)
      PROVE  TypeOK'
  BY <1>3, WriteType
<1>4. CASE UNCHANGED vars
  BY <1>4 DEF TypeOK, vars
<1> QED
  BY <1>1, <1>2, <1>3, <1>4 DEF Next, Quiet

\* The state of the link layer stays well typed and cached_vec within its
\* storage, in every behaviour with any number of devices.
THEOREM TypeCorrect == Spec => []TypeOK
<1>1. Init => TypeOK
  BY BoundAssumption DEF Init, TypeOK
<1>2. TypeOK /\ [Next]_vars => TypeOK'
  BY TypeStep
<1> QED
  BY <1>1, <1>2, PTL DEF Spec

-----------------------------------------------------------------------------
(* multi_cache holds the fragments of one conversation.  The inductive     *)
(* invariant adds ReadsGuarded; the lemmas say what each change of a stack *)
(* does to Guarded.                                                        *)

OnePair(frags) == \A j \in 1..Len(frags) : SamePair(frags[j], frags[1])

SafeInv == TypeOK /\ ReadsGuarded /\ MultiOnePair

\* A guarded stack stays guarded when the split message is closed.
LEMMA GuardedClosed ==
    ASSUME NEW s \in Seq(Call), NEW frags, Guarded(s, frags)
    PROVE  Guarded(s, << >>)
BY DEF Guarded

\* Popping a call.
LEMMA GuardedPop ==
    ASSUME NEW s \in Seq(Call), s # << >>, NEW frags, Guarded(s, frags)
    PROVE  Guarded(Pop(s), frags)
<1>1. Len(s) \in Nat
  BY LenProperties
<1>2. /\ Len(Pop(s)) = Len(s) - 1
      /\ \A j \in 1..Len(s) - 1 : Pop(s)[j] = s[j]
  BY PopProperties
<1> QED
  BY <1>1, <1>2 DEF Guarded

\* Pushing a call that is not a suspended read, or one that is in its place.
LEMMA GuardedPush ==
    ASSUME NEW s \in Seq(Call), NEW frags, Guarded(s, frags), NEW c \in Call,
           (c.pc \in {"ack", "enter"} /\ c.cache /\ c.multi) => s = << >>,
           (c.pc = "ack" /\ c.m.t = "frag" /\ c.multi /\ frags # << >>) => SamePair(c.m, frags[1])
    PROVE  Guarded(Push(s, c), frags)
<1> DEFINE t == Push(s, c)
<1>1. Len(s) \in Nat /\ Len(t) = Len(s) + 1 /\ (s = << >> => Len(s) = 0)
  BY LenProperties, PushProperties
<1>2. (\A j \in 1..Len(s) : t[j] = s[j]) /\ t[Len(s) + 1] = c
  BY PushProperties
<1> HIDE DEF t
<1>3. ASSUME NEW p \in 1..Len(t)
      PROVE  /\ (t[p].pc \in {"ack", "enter"} /\ t[p].cache /\ t[p].multi) => p = 1
             /\ (t[p].pc = "ack" /\ t[p].m.t = "frag" /\ t[p].multi /\ frags # << >>)
                   => SamePair(t[p].m, frags[1])
  <2>1. CASE p \in 1..Len(s)
    BY <1>2, <2>1 DEF Guarded
  <2>2. CASE p = Len(s) + 1
    BY <1>1, <1>2, <2>2
  <2> QED
    BY <1>1, <2>1, <2>2
<1> QED
  BY <1>3 DEF Guarded, t

\* Replacing the top by a call that is not a suspended read.
LEMMA GuardedSetTop ==
    ASSUME NEW s \in Seq(Call), s # << >>, NEW frags, Guarded(s, frags), NEW c \in Call,
           c.pc \notin {"ack", "enter"}
    PROVE  Guarded(SetTop(s, c), frags)
<1> DEFINE t == SetTop(s, c)
<1>1. Len(s) \in Nat /\ Len(t) = Len(s) /\ Top(t) = c /\ \A j \in 1..Len(s) - 1 : t[j] = s[j]
  BY LenProperties, SetTopProperties
<1>2. t[Len(s)] = c
  BY <1>1 DEF Top
<1> HIDE DEF t
<1>3. ASSUME NEW p \in 1..Len(t)
      PROVE  /\ (t[p].pc \in {"ack", "enter"} /\ t[p].cache /\ t[p].multi) => p = 1
             /\ (t[p].pc = "ack" /\ t[p].m.t = "frag" /\ t[p].multi /\ frags # << >>)
                   => SamePair(t[p].m, frags[1])
  <2>1. CASE p \in 1..Len(s) - 1
    BY <1>1, <2>1 DEF Guarded
  <2>2. CASE p = Len(s)
    BY <1>1, <1>2, <2>2
  <2> QED
    BY <1>1, <2>1, <2>2
<1> QED
  BY <1>3 DEF Guarded, t

\* Resuming the caller of a read.
LEMMA GuardedResume ==
    ASSUME NEW s \in Seq(Call), NEW frags, Guarded(s, frags), NEW x \in Frame
    PROVE  Guarded(ResumeStack(s, x), frags)
<1>1. CASE s = << >>
  BY <1>1 DEF ResumeStack
<1>2. CASE s # << >>
  <2> DEFINE c == Top(s)
             acked == [c EXCEPT !.ok = TRUE]
             filled == [c EXCEPT !.got[x.i + 1] = x.d[1], !.k = c.k + 1]
  <2>1. c \in Call
    BY <1>2, TopProperties
  <2>2. \A e : Len(SetTop(s, e)) = Len(s) /\ DOMAIN SetTop(s, e) = DOMAIN s
    BY <1>2 DEF SetTop
  <2>3. CASE c.pc \in {"collect", "await"} /\ IsAckFor(c, x)
    <3>1. acked \in Call /\ acked.pc = c.pc
      BY <2>1, <2>3, CallKinds DEF WritePC, WriteRecord, Call
    <3>2. ResumeStack(s, x) = SetTop(s, acked)
      BY <1>2, <2>3 DEF ResumeStack
    <3> HIDE DEF acked
    <3> QED
      BY <1>2, <2>3, <3>1, <3>2, GuardedSetTop
  <2>4. CASE c.pc = "loop" /\ Continues(c, x) /\ x.i >= c.k
    <3>1. c \in ReadRecord
      BY <2>1, <2>4, CallKinds DEF ReadPC
    <3>2. filled.pc = "loop"
      <4> HIDE DEF c
      <4> QED
        BY <2>4, <3>1 DEF ReadRecord
    <3>3. ResumeStack(s, x) = SetTop(s, filled) /\ ResumeStack(s, x) \in Seq(Call)
      BY <1>2, <2>4, ResumeStackType DEF ResumeStack
    <3> HIDE DEF filled
    <3>4. filled \in Call
      <4>1. Len(s) \in 1..Len(s) /\ Top(SetTop(s, filled)) = filled
        BY <1>2, TopProperties, LenProperties DEF SetTop, Top
      <4>2. Len(SetTop(s, filled)) = Len(s)
        BY <2>2
      <4> QED
        BY <3>3, <4>1, <4>2, ElementOfSeq DEF Top
    <3> QED
      BY <1>2, <3>2, <3>3, <3>4, GuardedSetTop
  <2>5. CASE ~(c.pc \in {"collect", "await"} /\ IsAckFor(c, x))
             /\ ~(c.pc = "loop" /\ Continues(c, x) /\ x.i >= c.k)
    <3>1. ResumeStack(s, x) = s
      BY <1>2, <2>5 DEF ResumeStack
    <3> QED
      BY <3>1
  <2> QED
    BY <2>3, <2>4, <2>5
<1> QED
  BY <1>1, <1>2

\* The part of the invariant that concerns one device, and what a step of one
\* device leaves alone.
DeviceSafe(e) == Guarded(stack[e], multi[e]) /\ OnePair(multi[e])
OthersSame(d) == \A e \in Others(d) : stack'[e] = stack[e] /\ multi'[e] = multi[e]

\* ReadsGuarded and MultiOnePair, device by device.
LEMMA SafeByDevice ==
    (ReadsGuarded /\ MultiOnePair) <=> \A e \in Devices : DeviceSafe(e)
BY DEF ReadsGuarded, MultiOnePair, DeviceSafe, OnePair

\* A step of d that keeps d safe and leaves the other devices alone keeps all
\* devices safe.
LEMMA SafeLocal ==
    ASSUME SafeInv, NEW d \in Devices, OthersSame(d), DeviceSafe(d)'
    PROVE  ReadsGuarded' /\ MultiOnePair'
<1>1. \A e \in Devices : DeviceSafe(e)
  BY SafeByDevice DEF SafeInv
<1>2. ASSUME NEW e \in Devices
      PROVE  DeviceSafe(e)'
  BY <1>1 DEF OthersSame, Others, DeviceSafe
<1>3. \A e \in Devices : DeviceSafe(e)'
  BY <1>2
<1> QED
  BY <1>3 DEF ReadsGuarded, MultiOnePair, DeviceSafe, OnePair

\* The caller of a read is guarded; it is the program if the read may store a
\* fragment in an empty multi_cache.
LEMMA ReadContextSafe ==
    ASSUME TypeOK, NEW d \in Devices, Reads(d), Guarded(stack[d], multi[d])
    PROVE  /\ Guarded(Base(d), multi[d])
           /\ (Flags(d).cache /\ Flags(d).multi) => Base(d) = << >>
<1> DEFINE s == stack[d]
           c == Top(s)
<1>1. s \in Seq(Call) /\ Len(s) \in Nat
  BY LenProperties DEF TypeOK
<1>2. CASE TopIs(d, {"enter"})
  <2>1. s # << >> /\ c.pc = "enter" /\ Base(d) = Pop(s)
    BY <1>2 DEF TopIs, Base
  <2>2. Flags(d) = [cache |-> c.cache, multi |-> c.multi]
    BY <2>1, <1>2 DEF Flags, TopIs
  <2>3. (c.cache /\ c.multi) => Len(s) = 1
    BY <1>1, <2>1, TopProperties DEF Guarded, Top
  <2>4. Guarded(Pop(s), multi[d])
    BY <1>1, <2>1, GuardedPop
  <2>5. Len(s) = 1 => Pop(s) = << >>
    BY <1>1, <2>1, PopProperties, EmptySeq
  <2> QED
    BY <2>1, <2>2, <2>3, <2>4, <2>5
<1>3. CASE TopIs(d, {"drain"})
  <2>1. s # << >> /\ c.pc = "drain" /\ Base(d) = SetTop(s, [c EXCEPT !.k = 1])
    BY <1>3 DEF TopIs, Base
  <2>2. c \in WriteRecord
    BY <1>1, <2>1, TopProperties, CallKinds DEF WritePC
  <2> DEFINE e == [c EXCEPT !.k = 1]
  <2>3. e \in Call /\ e.pc = "drain"
    <3> HIDE DEF c
    <3> QED
      BY <2>1, <2>2 DEF WriteRecord, Call
  <2>4. Guarded(SetTop(s, e), multi[d])
    <3> HIDE DEF e
    <3> QED
      BY <1>1, <2>1, <2>3, GuardedSetTop
  <2>5. ~Flags(d).cache
    BY <1>3 DEF Flags, TopIs
  <2> QED
    BY <2>1, <2>4, <2>5
<1>4. CASE ~TopIs(d, {"enter"}) /\ ~TopIs(d, {"drain"})
  <2>1. Base(d) = s
    BY <1>4 DEF Base
  <2>2. (Flags(d).cache /\ Flags(d).multi) => s = << >>
    BY <1>4 DEF Flags
  <2> QED
    BY <2>1, <2>2
<1> QED
  BY <1>2, <1>3, <1>4

\* What a new fragment does to multi_cache.
LEMMA OnePairAppend ==
    ASSUME NEW frags \in Seq(Fragments), OnePair(frags), NEW f \in Fragments,
           frags # << >> => SamePair(f, frags[1])
    PROVE  /\ OnePair(Append(frags, f))
           /\ \A s : (Guarded(s, frags) /\ (frags = << >> => s = << >>)) => Guarded(s, Append(frags, f))
<1> DEFINE g == Append(frags, f)
           n == Len(frags)
<1>1. n \in Nat /\ Len(g) = n + 1 /\ g[n + 1] = f /\ \A j \in 1..n : g[j] = frags[j]
  BY LenProperties, AppendProperties
<1>2. CASE frags = << >>
  <2>1. n = 0
    BY <1>2
  <2>2. OnePair(g)
    BY <1>1, <2>1 DEF OnePair, SamePair
  <2>3. Guarded(<< >>, g)
    BY DEF Guarded
  <2> QED
    BY <1>2, <2>2, <2>3
<1>3. CASE frags # << >>
  <2>1. n > 0
    BY <1>1, <1>3, EmptySeq
  <2>2. g[1] = frags[1]
    BY <1>1, <2>1
  <2>3. OnePair(g)
    BY <1>1, <1>3, <2>1, <2>2 DEF OnePair
  <2>4. ASSUME NEW s, Guarded(s, frags)
        PROVE  Guarded(s, g)
    BY <1>3, <2>2, <2>4 DEF Guarded
  <2> QED
    BY <1>3, <2>3, <2>4
<1> QED
  BY <1>2, <1>3

\* A read that returns keeps its device safe, if it returns to a guarded caller.
LEMMA ReturnSafe ==
    ASSUME TypeOK, NEW d \in Devices, NEW s \in Seq(Call), NEW frags, Guarded(s, frags),
           \/ ReturnNoData(d, s)
           \/ \E c, x : x \in Frame /\ ReturnMessage(d, s, c, x)
    PROVE  Guarded(stack'[d], frags) /\ \A e \in Others(d) : stack'[e] = stack[e]
<1>1. stack' = [stack EXCEPT ![d] = s] \/ \E x \in Frame : stack' = [stack EXCEPT ![d] = ResumeStack(s, x)]
  BY DEF ReturnNoData, ReturnMessage
<1>2. stack'[d] = s \/ \E x \in Frame : stack'[d] = ResumeStack(s, x)
  BY <1>1 DEF TypeOK
<1>3. \A e \in Others(d) : stack'[e] = stack[e]
  BY <1>1 DEF TypeOK, Others
<1> QED
  BY <1>2, <1>3, GuardedResume

\* A fragment that is stored, assembled or starts the loop keeps its device safe.
LEMMA ReadFragmentSafe ==
    ASSUME TypeOK, NEW d \in Devices, DeviceSafe(d), NEW s \in Seq(Call), NEW f \in Fragments,
           NEW flags \in [cache : BOOLEAN, multi : BOOLEAN],
           Guarded(s, multi[d]), flags.multi, flags.cache => s = << >>,
           multi[d] # << >> => SamePair(f, multi[d][1]),
           ReadFragment(d, s, f, flags)
    PROVE  DeviceSafe(d)' /\ OthersSame(d)
<1> DEFINE frags == Append(multi[d], f)
           loop == [ReadCall("loop", f, flags) EXCEPT
                      !.k = 1, !.got = [p \in 1..f.n |-> IF p = 1 THEN f.d[1] ELSE Junk]]
           whole == WholeMessage(f, [p \in 1..frags[1].n |-> AssembledSlot(frags, f, p - 1)])
<1>1. multi \in [Devices -> Seq(Fragments)] /\ OnePair(multi[d])
  BY DEF TypeOK, DeviceSafe
<1>2. CASE multi' = multi /\ ReturnNoData(d, s)
  BY <1>1, <1>2, ReturnSafe DEF DeviceSafe, OthersSame
<1>3. CASE multi' = multi /\ ReturnNoData(d, Push(s, loop))
  <2>1. loop \in Call /\ loop.pc = "loop"
    BY LoopStartType DEF ReadCall
  <2>2. Push(s, loop) \in Seq(Call) /\ Guarded(Push(s, loop), multi[d])
    <3> HIDE DEF loop
    <3> QED
      BY <2>1, PushProperties, GuardedPush
  <2> HIDE DEF loop
  <2> QED
    BY <1>1, <1>3, <2>2, ReturnSafe DEF DeviceSafe, OthersSame
<1>4. CASE /\ multi[d] = << >> => ~Blocks(f, flags, FALSE)
           /\ multi' = [multi EXCEPT ![d] = frags] /\ ReturnNoData(d, s)
  <2>1. multi[d] = << >> => s = << >>
    BY <1>4 DEF Blocks
  <2>2. OnePair(frags) /\ Guarded(s, frags)
    BY <1>1, <2>1, OnePairAppend
  <2>3. multi'[d] = frags /\ \A e \in Others(d) : multi'[e] = multi[e]
    <3> HIDE DEF frags
    <3> QED
      BY <1>1, <1>4 DEF Others
  <2> HIDE DEF frags
  <2>4. Guarded(stack'[d], frags) /\ \A e \in Others(d) : stack'[e] = stack[e]
    BY <1>4, <2>2, ReturnSafe
  <2> QED
    BY <2>2, <2>3, <2>4 DEF DeviceSafe, OthersSame
<1>5. CASE multi' = [multi EXCEPT ![d] = << >>] /\ ReturnMessage(d, s, cached[d], whole)
  <2>1. whole \in Frame
    BY <1>1, AssembledType
  <2> HIDE DEF whole
  <2>2. Guarded(s, << >>)
    BY GuardedClosed
  <2>3. Guarded(stack'[d], << >>) /\ \A e \in Others(d) : stack'[e] = stack[e]
    BY <1>5, <2>1, <2>2, ReturnSafe
  <2>4. multi'[d] = << >> /\ \A e \in Others(d) : multi'[e] = multi[e]
    BY <1>1, <1>5 DEF Others
  <2> QED
    BY <2>3, <2>4 DEF DeviceSafe, OthersSame, OnePair
<1> QED
  BY <1>2, <1>3, <1>4, <1>5 DEF ReadFragment

\* The rest of a read, once the frame is acknowledged, keeps its device safe.
LEMMA AcceptSafe ==
    ASSUME TypeOK, NEW d \in Devices, DeviceSafe(d), NEW s \in Seq(Call), NEW f \in Frame,
           NEW flags \in [cache : BOOLEAN, multi : BOOLEAN],
           Guarded(s, multi[d]), (flags.cache /\ flags.multi) => s = << >>,
           (f.t = "frag" /\ flags.multi /\ multi[d] # << >>) => SamePair(f, multi[d][1]),
           Accept(d, s, f, flags)
    PROVE  DeviceSafe(d)' /\ OthersSame(d)
<1>1. CASE f.t = "frag" /\ flags.multi /\ f.r \in {d, Broadcast}
  <2>1. f \in Fragments /\ ReadFragment(d, s, f, flags)
    BY <1>1 DEF Accept, Fragments
  <2> QED
    BY <1>1, <2>1, ReadFragmentSafe
<1>2. CASE ~(f.t = "frag" /\ flags.multi /\ f.r \in {d, Broadcast}) /\ ~(f.t = "resend" /\ f.r = d)
  <2>1. ReturnMessage(d, s, cached[d], f) /\ UNCHANGED multi
    BY <1>2 DEF Accept
  <2> QED
    BY <2>1, ReturnSafe DEF DeviceSafe, OthersSame
<1>3. CASE f.t = "resend" /\ f.r = d
  <2> DEFINE last == {m \in tx[d] : m.r = f.s /\ m.s = f.r}
             m == CHOOSE m \in last : TRUE
             call == ReadCall("nodata", f, flags)
             w == WriteCall(m, TRUE)
  <2>1. UNCHANGED multi
    BY <1>3 DEF Accept
  <2>2. CASE last = {}
    <3>1. ReturnNoData(d, s)
      BY <1>3, <2>2 DEF Accept
    <3> QED
      BY <2>1, <3>1, ReturnSafe DEF DeviceSafe, OthersSame
  <2>3. CASE last # {}
    <3>1. m \in Frame
      BY <2>3 DEF TypeOK
    <3>2. call \in Call /\ call.pc = "nodata"
      BY ReadCallType DEF ReadCall
    <3>3. w \in Call /\ w.pc \in {"group", "drain"}
      <4> HIDE DEF m
      <4> QED
        BY <3>1, WriteCallType DEF WriteCall
    <3>4. ReturnNoData(d, Push(Push(s, call), w))
      BY <1>3, <2>3 DEF Accept
    <3> HIDE DEF m, call, w
    <3>5. Push(s, call) \in Seq(Call) /\ Guarded(Push(s, call), multi[d])
      BY <3>2, PushProperties, GuardedPush
    <3>6. Push(Push(s, call), w) \in Seq(Call) /\ Guarded(Push(Push(s, call), w), multi[d])
      BY <3>3, <3>5, PushProperties, GuardedPush
    <3> QED
      BY <2>1, <3>4, <3>6, ReturnSafe DEF DeviceSafe, OthersSame
  <2> QED
    BY <2>2, <2>3
<1> QED
  BY <1>1, <1>2, <1>3

\* A write that returns keeps its device safe.
LEMMA ReturnWriteSafe ==
    ASSUME TypeOK, NEW d \in Devices, DeviceSafe(d), stack[d] # << >>, UNCHANGED multi,
           NEW ok \in BOOLEAN, ReturnWrite(d, Pop(stack[d]), ok)
    PROVE  DeviceSafe(d)' /\ OthersSame(d)
<1> DEFINE s == Pop(stack[d])
           c == Top(s)
           e == [c EXCEPT !.k = @ + 1, !.ok = @ /\ ok]
           t == IF s = << >> THEN s
                ELSE CASE c.pc = "nodata" -> Pop(s)
                       [] c.pc = "group" -> SetTop(s, e)
                       [] OTHER -> s
<1>1. s \in Seq(Call) /\ Guarded(s, multi[d])
  BY PopProperties, GuardedPop DEF TypeOK, DeviceSafe
<1>2. stack' = [stack EXCEPT ![d] = t]
  BY DEF ReturnWrite
<1>3. Guarded(t, multi[d])
  <2>1. CASE s = << >>
    BY <1>1, <2>1
  <2>2. CASE s # << >> /\ c.pc = "nodata"
    <3>1. t = Pop(s)
      BY <2>2
    <3> HIDE DEF s, t
    <3> QED
      BY <1>1, <2>2, <3>1, GuardedPop
  <2>3. CASE s # << >> /\ c.pc = "group"
    <3>1. t = SetTop(s, e)
      BY <2>3
    <3>2. c \in WriteRecord
      <4> HIDE DEF s
      <4> QED
        BY <1>1, <2>3, TopProperties, CallKinds DEF WritePC
    <3>3. e \in Call /\ e.pc = "group"
      <4> DEFINE b == c.ok /\ ok
                 k == c.k + 1
                 x == [c EXCEPT !.k = k]
      <4> HIDE DEF c
      <4>1. b \in BOOLEAN /\ k \in Nat
        BY <3>2 DEF WriteRecord
      <4>2. x \in WriteRecord /\ x.pc = c.pc /\ e = [x EXCEPT !.ok = b]
        <5>1. x \in WriteRecord /\ x.pc = c.pc
          <6> HIDE DEF k
          <6> QED
            BY <3>2, <4>1 DEF WriteRecord
        <5>2. e = [x EXCEPT !.ok = b]
          BY <3>2 DEF WriteRecord
        <5> QED
          BY <5>1, <5>2
      <4> HIDE DEF x, b
      <4>3. [x EXCEPT !.ok = b] \in Call /\ [x EXCEPT !.ok = b].pc = x.pc
        BY <4>1, <4>2 DEF WriteRecord, Call
      <4> QED
        BY <2>3, <4>2, <4>3
    <3> HIDE DEF s, t, e, c
    <3> QED
      BY <1>1, <2>3, <3>1, <3>3, GuardedSetTop
  <2>4. CASE s # << >> /\ c.pc # "nodata" /\ c.pc # "group"
    <3>1. t = s
      BY <2>4
    <3> QED
      BY <1>1, <3>1
  <2> QED
    BY <2>1, <2>2, <2>3, <2>4
<1> HIDE DEF t
<1> QED
  BY <1>2, <1>3 DEF DeviceSafe, OthersSame, Others, TypeOK

-----------------------------------------------------------------------------
(* The actions keep every device safe.                                     *)

LEMMA ExpireMultiSafe ==
    ASSUME SafeInv, NEW d \in Devices, ExpireMulti(d)
    PROVE  DeviceSafe(d)' /\ OthersSame(d)
<1> DEFINE f == multi[d][1]
           m == ResendMsg(d, f.s)
           call == ReadCall("enter", m, Flags(d))
           w == WriteCall(m, TRUE)
<1>1. /\ TypeOK /\ DeviceSafe(d)
      /\ stack \in [Devices -> Seq(Call)] /\ multi \in [Devices -> Seq(Fragments)]
  BY SafeByDevice DEF SafeInv, TypeOK
<1>2. Reads(d) /\ multi[d] # << >>
  BY DEF ExpireMulti
<1>3. Base(d) \in Seq(Call) /\ Guarded(Base(d), << >>)
      /\ Flags(d) \in [cache : BOOLEAN, multi : BOOLEAN]
      /\ ((Flags(d).cache /\ Flags(d).multi) => Base(d) = << >>)
  BY <1>1, <1>2, ReadContextType, ReadContextSafe, GuardedClosed DEF DeviceSafe
<1>4. m \in Frame
  <2>1. multi[d] \in Seq(Fragments)
    BY <1>1
  <2>2. f \in Fragments
    BY <1>2, <2>1, ElementOfSeq, EmptySeq, LenProperties
  <2>3. f.s \in Addresses /\ d \in Addresses
    BY <2>2 DEF Fragments, Frame, Addresses
  <2> QED
    BY <2>3, ShortType
<1>5. /\ multi' = [multi EXCEPT ![d] = << >>]
      /\ UNCHANGED stack \/ stack' = [stack EXCEPT ![d] = Push(Push(Base(d), call), w)]
  BY DEF ExpireMulti
<1>6. call \in Call /\ call.pc = "enter" /\ call.cache = Flags(d).cache /\ call.multi = Flags(d).multi
  <2> HIDE DEF m
  <2> QED
    BY <1>3, <1>4, ReadCallType DEF ReadCall
<1>7. w \in Call /\ w.pc \in {"group", "drain"}
  <2> HIDE DEF m
  <2> QED
    BY <1>4, WriteCallType DEF WriteCall
<1> HIDE DEF call, w, m, f
<1>8. Push(Base(d), call) \in Seq(Call) /\ Guarded(Push(Base(d), call), << >>)
  BY <1>3, <1>6, PushProperties, GuardedPush
<1>9. Guarded(Push(Push(Base(d), call), w), << >>)
  BY <1>7, <1>8, GuardedPush
<1>10. Guarded(stack[d], << >>)
  BY <1>1, GuardedClosed DEF DeviceSafe
<1>11. Guarded(stack'[d], << >>) /\ multi'[d] = << >>
  BY <1>1, <1>5, <1>9, <1>10
<1> QED
  BY <1>1, <1>5, <1>11 DEF DeviceSafe, OnePair, OthersSame, Others

LEMMA ReadCachedSafe ==
    ASSUME SafeInv, NEW d \in Devices, ReadCached(d)
    PROVE  DeviceSafe(d)' /\ OthersSame(d)
<1>1. TypeOK /\ DeviceSafe(d) /\ Reads(d) /\ cached[d] # << >> /\ cached[d] \in Seq(Frame)
  BY SafeByDevice DEF SafeInv, ReadCached, TypeOK
<1>2. Base(d) \in Seq(Call) /\ Guarded(Base(d), multi[d])
  BY <1>1, ReadContextType, ReadContextSafe DEF DeviceSafe
<1>3. Head(cached[d]) \in Frame
  BY <1>1
<1>4. ReturnMessage(d, Base(d), Tail(cached[d]), Head(cached[d])) /\ UNCHANGED multi
  BY DEF ReadCached
<1> QED
  BY <1>1, <1>2, <1>3, <1>4, ReturnSafe DEF DeviceSafe, OthersSame

LEMMA ReadFrameSafe ==
    ASSUME SafeInv, NEW d \in Devices, ReadFrame(d)
    PROVE  DeviceSafe(d)' /\ OthersSame(d)
<1> DEFINE f == Head(rx[d])
           call == ReadCall("ack", f, Flags(d))
           w == WriteCall(Ack(d, f.s), FALSE)
<1>1. TypeOK /\ DeviceSafe(d) /\ Reads(d) /\ rx[d] # << >> /\ rx[d] \in Seq(Frame)
  BY SafeByDevice DEF SafeInv, ReadFrame, TypeOK
<1>2. /\ Base(d) \in Seq(Call) /\ Guarded(Base(d), multi[d])
      /\ Flags(d) \in [cache : BOOLEAN, multi : BOOLEAN]
      /\ (Flags(d).cache /\ Flags(d).multi) => Base(d) = << >>
  BY <1>1, ReadContextType, ReadContextSafe DEF DeviceSafe
<1>3. f \in Frame
  BY <1>1
<1>4. CASE f.t = "bad" \/ Foreign(d, f)
  <2>1. ReturnNoData(d, Base(d)) /\ UNCHANGED multi
    BY <1>4 DEF ReadFrame
  <2> QED
    BY <1>1, <1>2, <2>1, ReturnSafe DEF DeviceSafe, OthersSame
<1>5. CASE ~(f.t = "bad" \/ Foreign(d, f)) /\ f.r = d /\ f.t # "ack"
  <2>1. ReturnNoData(d, Push(Push(Base(d), call), w)) /\ UNCHANGED multi
    BY <1>5 DEF ReadFrame
  <2>2. (f.t = "frag" /\ multi[d] # << >>) => SamePair(f, multi[d][1])
    BY <1>5 DEF Foreign
  <2>3. /\ call \in Call /\ call.pc = "ack" /\ call.m = f
        /\ call.cache = Flags(d).cache /\ call.multi = Flags(d).multi
    <3> HIDE DEF f
    <3> QED
      BY <1>2, <1>3, ReadCallType DEF ReadCall
  <2>4. Ack(d, f.s) \in Frame
    BY <1>3, ShortType DEF Frame, Addresses
  <2>5. w \in Call /\ w.pc \in {"group", "drain"}
    <3>1. \A m \in Frame : WriteCall(m, FALSE) \in Call /\ WriteCall(m, FALSE).pc \in {"group", "drain"}
      BY WriteCallType DEF WriteCall
    <3> HIDE DEF f
    <3> QED
      BY <2>4, <3>1
  <2> HIDE DEF call, w, f
  <2>6. Push(Base(d), call) \in Seq(Call) /\ Guarded(Push(Base(d), call), multi[d])
    BY <1>2, <2>2, <2>3, PushProperties, GuardedPush
  <2>7. /\ Push(Push(Base(d), call), w) \in Seq(Call)
        /\ Guarded(Push(Push(Base(d), call), w), multi[d])
    BY <2>5, <2>6, PushProperties, GuardedPush
  <2> QED
    BY <1>1, <2>1, <2>7, ReturnSafe DEF DeviceSafe, OthersSame
<1>6. CASE ~(f.t = "bad" \/ Foreign(d, f)) /\ ~(f.r = d /\ f.t # "ack")
  <2>1. Accept(d, Base(d), f, Flags(d))
    BY <1>6 DEF ReadFrame
  <2>2. (f.t = "frag" /\ multi[d] # << >>) => SamePair(f, multi[d][1])
    BY <1>6 DEF Foreign
  <2> HIDE DEF f
  <2> QED
    BY <1>1, <1>2, <1>3, <2>1, <2>2, AcceptSafe
<1> QED
  BY <1>4, <1>5, <1>6

LEMMA AcknowledgedSafe ==
    ASSUME SafeInv, NEW d \in Devices, Acknowledged(d)
    PROVE  DeviceSafe(d)' /\ OthersSame(d)
<1> DEFINE s == stack[d]
           c == Top(s)
           flags == [cache |-> c.cache, multi |-> c.multi]
<1>1. TypeOK /\ DeviceSafe(d) /\ s \in Seq(Call) /\ s # << >> /\ c.pc = "ack"
  BY SafeByDevice DEF SafeInv, Acknowledged, TopIs, TypeOK
<1>2. Accept(d, Pop(s), c.m, flags)
  BY DEF Acknowledged
<1>3. c.m \in Frame /\ flags \in [cache : BOOLEAN, multi : BOOLEAN]
  <2>1. c \in ReadRecord
    BY <1>1, TopProperties, CallKinds DEF ReadPC
  <2> HIDE DEF c
  <2> QED
    BY <2>1 DEF ReadRecord
<1>4. Pop(s) \in Seq(Call) /\ Guarded(Pop(s), multi[d]) /\ Len(Pop(s)) = Len(s) - 1
  BY <1>1, PopProperties, GuardedPop DEF DeviceSafe
<1>5. /\ (c.cache /\ c.multi) => Len(s) = 1
      /\ (c.m.t = "frag" /\ c.multi /\ multi[d] # << >>) => SamePair(c.m, multi[d][1])
  BY <1>1, TopProperties DEF Guarded, Top, DeviceSafe
<1>6. (flags.cache /\ flags.multi) => Pop(s) = << >>
  <2>1. Len(s) = 1 => Pop(s) = << >>
    <3> HIDE DEF s
    <3> QED
      BY <1>4, EmptySeq
  <2>2. flags.cache = c.cache /\ flags.multi = c.multi
    OBVIOUS
  <2> HIDE DEF flags, c, s
  <2> QED
    BY <1>5, <2>1, <2>2
<1>7. (c.m.t = "frag" /\ flags.multi /\ multi[d] # << >>) => SamePair(c.m, multi[d][1])
  BY <1>5
<1> HIDE DEF s, c, flags
<1> QED
  BY <1>1, <1>2, <1>3, <1>4, <1>6, <1>7, AcceptSafe

LEMMA ReadNothingSafe ==
    ASSUME SafeInv, NEW d \in Devices, ReadNothing(d)
    PROVE  DeviceSafe(d)' /\ OthersSame(d)
<1>1. TypeOK /\ DeviceSafe(d) /\ Reads(d)
  BY SafeByDevice DEF SafeInv, ReadNothing, Reads
<1>2. Base(d) \in Seq(Call) /\ Guarded(Base(d), multi[d])
  BY <1>1, ReadContextType, ReadContextSafe DEF DeviceSafe
<1>3. ReturnNoData(d, Base(d)) /\ UNCHANGED multi
  BY DEF ReadNothing
<1> QED
  BY <1>1, <1>2, <1>3, ReturnSafe DEF DeviceSafe, OthersSame

LEMMA LoopDoneSafe ==
    ASSUME SafeInv, NEW d \in Devices, LoopDone(d)
    PROVE  DeviceSafe(d)' /\ OthersSame(d)
<1> DEFINE c == Top(stack[d])
<1>1. TypeOK /\ DeviceSafe(d) /\ stack[d] \in Seq(Call) /\ stack[d] # << >> /\ c.pc = "loop"
  BY SafeByDevice DEF SafeInv, LoopDone, TopIs, TypeOK
<1>2. Pop(stack[d]) \in Seq(Call) /\ Guarded(Pop(stack[d]), multi[d]) /\ LoopMessage(c) \in Frame
  BY <1>1, PopProperties, GuardedPop, TopProperties, LoopMessageType DEF DeviceSafe
<1>3. ReturnMessage(d, Pop(stack[d]), cached[d], LoopMessage(c)) /\ UNCHANGED multi
  BY DEF LoopDone
<1> HIDE DEF c
<1> QED
  BY <1>1, <1>2, <1>3, ReturnSafe DEF DeviceSafe, OthersSame

LEMMA LoopTimeoutSafe ==
    ASSUME SafeInv, NEW d \in Devices, LoopTimeout(d)
    PROVE  DeviceSafe(d)' /\ OthersSame(d)
<1> DEFINE c == Top(stack[d])
           m == ResendMsg(c.m.r, c.m.s)
           call == [c EXCEPT !.pc = "nodata"]
           w == WriteCall(m, TRUE)
<1>1. TypeOK /\ DeviceSafe(d) /\ stack[d] \in Seq(Call) /\ stack[d] # << >> /\ c.pc = "loop"
  BY SafeByDevice DEF SafeInv, LoopTimeout, TopIs, TypeOK
<1>2. c \in ReadRecord
  BY <1>1, TopProperties, CallKinds DEF ReadPC
<1>3. Pop(stack[d]) \in Seq(Call) /\ Guarded(Pop(stack[d]), multi[d]) /\ LoopMessage(c) \in Frame
  BY <1>1, PopProperties, GuardedPop, TopProperties, LoopMessageType DEF DeviceSafe
<1>4. call \in Call /\ call.pc = "nodata"
  <2> HIDE DEF c
  <2> QED
    BY <1>2 DEF ReadRecord, ReadPC, Call
<1>5. w \in Call /\ w.pc \in {"group", "drain"}
  <2>1. c.m \in Frame
    <3> HIDE DEF c
    <3> QED
      BY <1>2 DEF ReadRecord
  <2>2. m \in Frame
    BY <2>1, ShortType DEF Frame
  <2> HIDE DEF m
  <2> QED
    BY <2>2, WriteCallType DEF WriteCall
<1>6. /\ \/ ReturnMessage(d, Pop(stack[d]), cached[d], LoopMessage(c))
         \/ ReturnNoData(d, Push(Push(Pop(stack[d]), call), w))
      /\ UNCHANGED multi
  BY DEF LoopTimeout
<1> HIDE DEF call, w, m, c
<1>7. Push(Pop(stack[d]), call) \in Seq(Call) /\ Guarded(Push(Pop(stack[d]), call), multi[d])
  BY <1>3, <1>4, PushProperties, GuardedPush
<1>8. /\ Push(Push(Pop(stack[d]), call), w) \in Seq(Call)
      /\ Guarded(Push(Push(Pop(stack[d]), call), w), multi[d])
  BY <1>5, <1>7, PushProperties, GuardedPush
<1> QED
  BY <1>1, <1>3, <1>6, <1>8, ReturnSafe DEF DeviceSafe, OthersSame

LEMMA WriteSafe ==
    ASSUME SafeInv, NEW d \in Devices, Write(d)
    PROVE  DeviceSafe(d)' /\ OthersSame(d)
<1> DEFINE m == Script[d][Len(outcome[d]) + 1]
           w == WriteCall(m, m.r # Broadcast)
<1>1. TypeOK /\ DeviceSafe(d) /\ stack \in [Devices -> Seq(Call)]
  BY SafeByDevice DEF SafeInv, TypeOK
<1>2. stack' = [stack EXCEPT ![d] = <<w>>] /\ UNCHANGED multi
  BY DEF Write
<1>3. w.pc \in {"group", "drain"}
  BY DEF WriteCall
<1> HIDE DEF w
<1>4. Guarded(<<w>>, multi[d])
  BY <1>3 DEF Guarded
<1> QED
  BY <1>1, <1>2, <1>4 DEF DeviceSafe, OthersSame, Others

LEMMA WriteFragmentSafe ==
    ASSUME SafeInv, NEW d \in Devices, WriteFragment(d)
    PROVE  DeviceSafe(d)' /\ OthersSame(d)
<1> DEFINE c == Top(stack[d])
           w == WriteCall(Fragment(c.m, c.k), c.ack)
<1>1. TypeOK /\ TypeOK' /\ DeviceSafe(d) /\ stack \in [Devices -> Seq(Call)]
  BY SafeByDevice, WriteFragmentType DEF SafeInv, TypeOK
<1>2. stack' = [stack EXCEPT ![d] = Push(stack[d], w)] /\ UNCHANGED multi
  BY DEF WriteFragment
<1>3. w.pc \in {"group", "drain"}
  BY DEF WriteCall
<1>4. w \in Call
  <2>1. Push(stack[d], w) \in Seq(Call)
    <3> HIDE DEF w
    <3> QED
      BY <1>1, <1>2 DEF TypeOK
  <2>2. Len(stack[d]) \in Nat /\ Len(Push(stack[d], w)) = Len(stack[d]) + 1
        /\ Push(stack[d], w)[Len(stack[d]) + 1] = w
    BY <1>1, LenProperties DEF Push
  <2> HIDE DEF w
  <2> QED
    BY <2>1, <2>2, ElementOfSeq
<1> HIDE DEF w
<1>5. Guarded(Push(stack[d], w), multi[d])
  BY <1>1, <1>3, <1>4, GuardedPush DEF DeviceSafe
<1> QED
  BY <1>1, <1>2, <1>5 DEF DeviceSafe, OthersSame, Others

LEMMA WriteGroupDoneSafe ==
    ASSUME SafeInv, NEW d \in Devices, WriteGroupDone(d)
    PROVE  DeviceSafe(d)' /\ OthersSame(d)
<1>1. TypeOK /\ DeviceSafe(d) /\ TopIs(d, WritePC)
  BY SafeByDevice DEF SafeInv, WriteGroupDone, TopIs, WritePC
<1>2. stack[d] # << >> /\ Top(stack[d]).ok \in BOOLEAN
  BY <1>1, TopWriteType
<1>3. ReturnWrite(d, Pop(stack[d]), Top(stack[d]).ok) /\ UNCHANGED multi
  BY DEF WriteGroupDone
<1> QED
  BY <1>1, <1>2, <1>3, ReturnWriteSafe

\* The top of a write moves on to another program counter of a write.
LEMMA TopMovesSafe ==
    ASSUME SafeInv, NEW d \in Devices, stack[d] # << >>, NEW c \in Call, c.pc \in WritePC,
           stack' = [stack EXCEPT ![d] = SetTop(stack[d], c)], UNCHANGED multi
    PROVE  DeviceSafe(d)' /\ OthersSame(d)
<1>1. DeviceSafe(d) /\ stack \in [Devices -> Seq(Call)]
  BY SafeByDevice DEF SafeInv, TypeOK
<1>2. Guarded(SetTop(stack[d], c), multi[d])
  BY <1>1, GuardedSetTop DEF DeviceSafe, WritePC
<1> QED
  BY <1>1, <1>2 DEF DeviceSafe, OthersSame, Others

LEMMA SendSafe ==
    ASSUME SafeInv, NEW d \in Devices, Send(d)
    PROVE  DeviceSafe(d)' /\ OthersSame(d)
<1> DEFINE w == Top(stack[d])
           sent == [w EXCEPT !.pc = "collect"]
<1>1. TypeOK /\ DeviceSafe(d) /\ TopIs(d, WritePC)
  BY SafeByDevice DEF SafeInv, Send, TopIs, WritePC
<1>2. w \in WriteRecord /\ stack[d] # << >>
  BY <1>1, TopWriteType
<1>3. UNCHANGED multi /\ (\/ stack' = [stack EXCEPT ![d] = SetTop(stack[d], sent)]
                         \/ ReturnWrite(d, Pop(stack[d]), TRUE))
  BY DEF Send
<1>4. sent \in Call /\ sent.pc \in WritePC
  <2> HIDE DEF w
  <2> QED
    BY <1>2 DEF WriteRecord, WritePC, Call
<1> HIDE DEF sent, w
<1> QED
  BY <1>1, <1>2, <1>3, <1>4, TopMovesSafe, ReturnWriteSafe

LEMMA CollectedSafe ==
    ASSUME SafeInv, NEW d \in Devices, Collected(d)
    PROVE  DeviceSafe(d)' /\ OthersSame(d)
<1> DEFINE w == Top(stack[d])
           waiting == [w EXCEPT !.pc = "await"]
<1>1. TypeOK /\ TopIs(d, WritePC)
  BY DEF SafeInv, Collected, TopIs, WritePC
<1>2. w \in WriteRecord /\ stack[d] # << >>
  BY <1>1, TopWriteType
<1>3. UNCHANGED multi /\ stack' = [stack EXCEPT ![d] = SetTop(stack[d], waiting)]
  BY DEF Collected
<1>4. waiting \in Call /\ waiting.pc \in WritePC
  <2> HIDE DEF w
  <2> QED
    BY <1>2 DEF WriteRecord, WritePC, Call
<1> HIDE DEF waiting, w
<1> QED
  BY <1>2, <1>3, <1>4, TopMovesSafe

LEMMA RepeatSafe ==
    ASSUME SafeInv, NEW d \in Devices, Repeat(d)
    PROVE  DeviceSafe(d)' /\ OthersSame(d)
<1> DEFINE w == Top(stack[d])
           e == [w EXCEPT !.tries = @ + 1]
           again == WriteCall(w.m, FALSE)
<1>1. TypeOK /\ DeviceSafe(d) /\ TopIs(d, WritePC)
  BY SafeByDevice DEF SafeInv, Repeat, TopIs, WritePC
<1>2. w \in WriteRecord /\ w.m \in Frame /\ stack[d] \in Seq(Call) /\ stack[d] # << >> /\ w.pc = "await"
  BY <1>1, TopWriteType DEF Repeat, TopIs
<1>3. UNCHANGED multi /\ stack' = [stack EXCEPT ![d] = Push(SetTop(stack[d], e), again)]
  BY DEF Repeat
<1>4. e \in Call /\ e.pc = "await"
  <2> HIDE DEF w
  <2> QED
    BY <1>2 DEF WriteRecord, Call
<1>5. again \in Call /\ again.pc \in {"group", "drain"}
  <2> HIDE DEF w
  <2> QED
    BY <1>2, WriteCallType DEF WriteCall
<1> HIDE DEF e, again, w
<1>6. SetTop(stack[d], e) \in Seq(Call) /\ Guarded(SetTop(stack[d], e), multi[d])
  BY <1>1, <1>2, <1>4, SetTopProperties, GuardedSetTop DEF DeviceSafe
<1>7. Guarded(Push(SetTop(stack[d], e), again), multi[d])
  BY <1>5, <1>6, GuardedPush
<1> QED
  BY <1>1, <1>3, <1>7 DEF DeviceSafe, OthersSame, Others, TypeOK

LEMMA AwaitDoneSafe ==
    ASSUME SafeInv, NEW d \in Devices, AwaitDone(d)
    PROVE  DeviceSafe(d)' /\ OthersSame(d)
<1>1. TypeOK /\ DeviceSafe(d) /\ TopIs(d, WritePC)
  BY SafeByDevice DEF SafeInv, AwaitDone, TopIs, WritePC
<1>2. stack[d] # << >> /\ Top(stack[d]).ok \in BOOLEAN
  BY <1>1, TopWriteType
<1>3. ReturnWrite(d, Pop(stack[d]), Top(stack[d]).ok) /\ UNCHANGED multi
  BY DEF AwaitDone
<1> QED
  BY <1>1, <1>2, <1>3, ReturnWriteSafe

\* The invariant is inductive.
LEMMA SafeStep ==
    ASSUME SafeInv, [Next]_vars
    PROVE  SafeInv'
<1>1. TypeOK'
  BY TypeStep DEF SafeInv
<1>2. ASSUME NEW d \in Devices, Read(d)
      PROVE  DeviceSafe(d)' /\ OthersSame(d)
  BY <1>2, ExpireMultiSafe, ReadCachedSafe, ReadFrameSafe, AcknowledgedSafe, ReadNothingSafe,
     LoopDoneSafe, LoopTimeoutSafe DEF Read
<1>3. ASSUME NEW d \in Devices, WriteStep(d)
      PROVE  DeviceSafe(d)' /\ OthersSame(d)
  BY <1>3, WriteFragmentSafe, WriteGroupDoneSafe, SendSafe, CollectedSafe, RepeatSafe,
     AwaitDoneSafe DEF WriteStep
<1>4. ASSUME NEW d \in Devices, Read(d) \/ WriteStep(d) \/ Write(d)
      PROVE  ReadsGuarded' /\ MultiOnePair'
  BY <1>2, <1>3, <1>4, WriteSafe, SafeLocal
<1>5. ASSUME UNCHANGED vars
      PROVE  ReadsGuarded' /\ MultiOnePair'
  BY <1>5 DEF SafeInv, ReadsGuarded, MultiOnePair, vars
<1>6. (\E d \in Devices : Read(d) \/ WriteStep(d) \/ Write(d)) \/ UNCHANGED vars
  BY DEF Next, Quiet
<1> QED
  BY <1>1, <1>4, <1>5, <1>6 DEF SafeInv

\* In every behaviour, with any number of devices and whatever the bus loses,
\* multi_cache of a device holds fragments of one conversation only.
THEOREM OneConversation == Spec => []MultiOnePair
<1>1. Init => SafeInv
  <2>1. Init => TypeOK
    BY BoundAssumption DEF Init, TypeOK
  <2>2. Init => ReadsGuarded /\ MultiOnePair
    BY DEF Init, ReadsGuarded, MultiOnePair, Guarded
  <2> QED
    BY <2>1, <2>2 DEF SafeInv
<1>2. SafeInv /\ [Next]_vars => SafeInv'
  BY SafeStep
<1>3. SafeInv => MultiOnePair
  BY DEF SafeInv
<1> QED
  BY <1>1, <1>2, <1>3, PTL DEF Spec

=============================================================================
