---------------------- MODULE SerialAIBusHandler_proofs ----------------------
(***************************************************************************)
(* Proofs about the transmit queue of the Linux-side link layer, for any   *)
(* number of threads, any queue of messages and any bounds.                *)
(***************************************************************************)
EXTENDS SerialAIBusHandler, Integers, TLAPS

(***************************************************************************)
(* Where the threads are.  Two facts make OneFlusher and PingAlone         *)
(* inductive: while cache_thread_enabled is reset no thread exists, and    *)
(* between the test of that flag and what the main thread does on the      *)
(* strength of it (a ping, a new thread) none comes into being.            *)
(***************************************************************************)
PlacesOK ==
    /\ pc \in [Actors -> MainPlaces \union ThreadPlaces]
    /\ pc[Main] \in MainPlaces
    /\ \A t \in Threads : pc[t] \in ThreadPlaces

NoThread == \A t \in Threads : pc[t] = "none"

FlusherInv ==
    /\ PlacesOK
    /\ ~cache_thread_enabled => NoThread
    /\ pc[Main] \in {"ping", "create"} => NoThread
    /\ pc[Main] = "create" => cache_thread_enabled
    /\ OneFlusher

LEMMA FlusherInit == Init => FlusherInv
BY ActorAssumption
   DEF Init, FlusherInv, PlacesOK, NoThread, OneFlusher, Actors, MainPlaces, ThreadPlaces

\* Steps of the main thread that leave the threads and the flag alone.
LEMMA FlusherMain ==
    ASSUME FlusherInv, NEW from \in MainPlaces, NEW to \in MainPlaces \ {"create"},
           Move(Main, from, to), cache_thread_enabled' = cache_thread_enabled,
           to = "ping" => NoThread
    PROVE  FlusherInv'
BY ActorAssumption DEF FlusherInv, PlacesOK, NoThread, OneFlusher, Actors, Move, Goto

\* Steps of a thread that exists before and after.
LEMMA FlusherThread ==
    ASSUME FlusherInv, NEW t \in Threads, NEW from \in ThreadPlaces \ {"none"}, NEW to \in ThreadPlaces,
           Move(t, from, to), cache_thread_enabled' \in {TRUE, cache_thread_enabled}
    PROVE  FlusherInv'
BY ActorAssumption DEF FlusherInv, PlacesOK, NoThread, OneFlusher, Actors, Move, Goto

LEMMA FlusherRead ==
    ASSUME FlusherInv, NEW p \in Actors, SaveFlag(p) \/ SetFlag(p) \/ RestoreFlag(p) \/ LeakFlag(p)
    PROVE  FlusherInv'
<1>1. CASE UNCHANGED <<pc, cache_thread_enabled>>
  BY <1>1 DEF FlusherInv, PlacesOK, NoThread, OneFlusher
<1>2. CASE pc[p] = "poll" /\ Goto(p, "idle") /\ UNCHANGED cache_thread_enabled
  <2>1. p = Main
    BY <1>2 DEF FlusherInv, PlacesOK, Actors, ThreadPlaces
  <2>2. QED
    BY <1>2, <2>1, FlusherMain DEF MainPlaces, Move
<1>3. QED
  BY <1>1, <1>2 DEF SaveFlag, SetFlag, RestoreFlag, LeakFlag, Return, flags

LEMMA FlusherStep == FlusherInv /\ [Next]_vars => FlusherInv'
<1>1. SUFFICES ASSUME FlusherInv, [Next]_vars
               PROVE  FlusherInv'
  OBVIOUS
<1>2. CASE UNCHANGED vars
  BY <1>1, <1>2 DEF vars, flags, FlusherInv, PlacesOK, NoThread, OneFlusher
<1>3. CASE PollRead \/ CachePending \/ DirectWrite
  BY <1>1, <1>3, FlusherMain DEF PollRead, CachePending, DirectWrite, flags, MainPlaces
<1>4. CASE Ping
  BY <1>1, <1>4, FlusherMain DEF Ping, flags, MainPlaces, FlusherInv
<1>5. CASE WriteToCache \/ Unblocked \/ Lock \/ Unlock
  BY <1>1, <1>5, FlusherMain DEF WriteToCache, Unblocked, Lock, Unlock, flags, MainPlaces
<1>6. CASE WriteDone
  BY <1>1, <1>6, FlusherMain DEF WriteDone, Move, flags, MainPlaces
<1>7. CASE PushTx \/ PushAck
  BY <1>1, <1>7, FlusherMain DEF PushTx, PushAck, flags, MainPlaces
<1>8. CASE Enable
  <2>1. CASE cache_thread_enabled
    BY <1>1, <1>8, <2>1, FlusherMain DEF Enable, Move, MainPlaces
  <2>2. CASE ~cache_thread_enabled
    BY <1>1, <1>8, <2>2, ActorAssumption
       DEF Enable, Goto, FlusherInv, PlacesOK, NoThread, OneFlusher, Actors, MainPlaces
  <2>3. QED
    BY <2>1, <2>2
<1>9. ASSUME NEW t \in Threads, CreateThread(t)
      PROVE  FlusherInv'
  <2>1. PlacesOK' /\ pc'[Main] = "idle" /\ OneFlusher'
    BY <1>1, <1>9, ActorAssumption
       DEF CreateThread, FlusherInv, PlacesOK, NoThread, OneFlusher, Actors, MainPlaces, ThreadPlaces
  <2>2. cache_thread_enabled
    BY <1>1, <1>9 DEF CreateThread, FlusherInv
  <2>3. QED
    BY <2>1, <2>2, <1>9 DEF CreateThread, FlusherInv, flags
<1>10. ASSUME NEW t \in Threads, ClashTx(t) \/ ClashAck(t)
       PROVE  FlusherInv'
  BY <1>1, <1>10, ActorAssumption
     DEF ClashTx, ClashAck, FlusherInv, PlacesOK, NoThread, OneFlusher, Actors, MainPlaces, ThreadPlaces, flags
<1>11. ASSUME NEW p \in Actors, SaveFlag(p) \/ SetFlag(p) \/ RestoreFlag(p) \/ LeakFlag(p)
       PROVE  FlusherInv'
  BY <1>1, <1>11, FlusherRead
<1>12. ASSUME NEW t \in Threads, ThreadStep(t)
       PROVE  FlusherInv'
  <2>1. CASE Start(t) \/ Settle(t) \/ MainFree(t) \/ Claim(t)
    BY <1>1, <2>1, FlusherThread DEF Start, Settle, MainFree, Claim, flags, ThreadPlaces
  <2>2. CASE SendFirst(t) \/ SendDone(t) \/ EraseTx(t) \/ EraseAck(t) \/ Release(t)
    BY <1>1, <2>2, FlusherThread
       DEF SendFirst, SendDone, EraseTx, EraseAck, Release, flags, ThreadPlaces
  <2>3. CASE Finish(t)
    BY <1>1, <2>3, ActorAssumption
       DEF Finish, Move, Goto, FlusherInv, PlacesOK, NoThread, OneFlusher, Actors, ThreadPlaces
  <2>4. QED
    BY <1>12, <2>1, <2>2, <2>3 DEF ThreadStep
<1>13. QED
  BY <1>1, <1>2, <1>3, <1>4, <1>5, <1>6, <1>7, <1>8, <1>9, <1>10, <1>11, <1>12 DEF Next, MainStep

LEMMA FlusherAlways == Spec => []FlusherInv
BY FlusherInit, FlusherStep, PTL DEF Spec

\* At most one thread flushes the queue.
THEOREM SingleFlusher == Spec => []OneFlusher
<1>1. FlusherInv => OneFlusher
  BY DEF FlusherInv
<1>2. QED
  BY <1>1, FlusherAlways, PTL

\* A ping is never on the port together with the flushing thread.
THEOREM PingsAlone == Spec => []PingAlone
<1>1. FlusherInv => PingAlone
  BY DEF FlusherInv, PingAlone, NoThread
<1>2. QED
  BY <1>1, FlusherAlways, PTL

-----------------------------------------------------------------------------
(***************************************************************************)
(* The queue.  As long as the threads have not used the vectors at once,   *)
(* each vector holds what has been pushed to it and not yet erased.  While *)
(* a message is in flight the vectors still hold it; between the two       *)
(* erasures only cached_ack does; between the two pushes only cached_tx    *)
(* holds the newest message.                                               *)
(***************************************************************************)
InFlight == \E t \in Threads : pc[t] \in {"sending", "erase_tx"}
HalfErased == \E t \in Threads : pc[t] = "erase_ack"

Erased(kept) == IF kept THEN Len(sent) - 1 ELSE Len(sent)
Flagged == IF pc[Main] = "push_ack" THEN written - 1 ELSE written

HoldsTx(off) ==
    /\ Len(cached_tx) = written - off
    /\ \A k \in 1..Len(cached_tx) : cached_tx[k] = off + k
HoldsAck(off) ==
    /\ Len(cached_ack) = Flagged - off
    /\ \A k \in 1..Len(cached_ack) : cached_ack[k] = AckFlags[off + k]

WrittenOK ==
    /\ written \in 0..Len(AckFlags)
    /\ pc[Main] \in {"spin", "lock", "push_tx"} => written < Len(AckFlags)
    /\ pc[Main] = "push_ack" => written > 0

QueueOK ==
    /\ cached_tx \in Seq(Nat) /\ cached_ack \in Seq(BOOLEAN) /\ sent \in Seq(Nat \X BOOLEAN)
    /\ \A k \in 1..Len(sent) : sent[k] = <<k, AckFlags[k]>>
    /\ InFlight => cached_tx # << >>
    /\ InFlight \/ HalfErased => cached_ack # << >> /\ sent # << >>
    /\ HoldsTx(Erased(InFlight))
    /\ HoldsAck(Erased(InFlight \/ HalfErased))

QueueInv == WrittenOK /\ (~overlapped => QueueOK)

LEMMA QueueInit == Init => QueueInv
<1>1. SUFFICES ASSUME Init PROVE QueueInv
  OBVIOUS
<1>2. pc[Main] = "idle" /\ written = 0 /\ cached_tx = << >> /\ cached_ack = << >> /\ sent = << >>
  BY <1>1 DEF Init, Actors
<1>3. ~InFlight /\ ~HalfErased
  BY <1>1, ActorAssumption DEF Init, InFlight, HalfErased, Actors
<1>4. WrittenOK
  BY <1>2, FlagAssumption DEF WrittenOK
<1>5. Erased(InFlight) = 0 /\ Erased(InFlight \/ HalfErased) = 0 /\ Flagged = 0
  BY <1>2, <1>3 DEF Erased, Flagged
<1>6. HoldsTx(0) /\ HoldsAck(0)
  BY <1>2, <1>5 DEF HoldsTx, HoldsAck
<1>7. QED
  BY <1>2, <1>3, <1>4, <1>5, <1>6 DEF QueueInv, QueueOK

\* Steps that leave the queue alone.
LEMMA QueueFrame ==
    ASSUME QueueInv, UNCHANGED queue, InFlight' = InFlight, HalfErased' = HalfErased,
           pc'[Main] = "push_ack" <=> pc[Main] = "push_ack",
           pc'[Main] \in {"spin", "lock", "push_tx"} => written < Len(AckFlags)
    PROVE  QueueInv'
BY DEF QueueInv, WrittenOK, QueueOK, HoldsTx, HoldsAck, Erased, Flagged, queue

LEMMA QueueMain ==
    ASSUME FlusherInv, QueueInv, UNCHANGED queue, NEW from, NEW to, Move(Main, from, to),
           from # "push_ack", to # "push_ack",
           to \in {"spin", "lock", "push_tx"} =>
               from \in {"spin", "lock", "push_tx"} \/ written < Len(AckFlags)
    PROVE  QueueInv'
<1>1. InFlight' = InFlight /\ HalfErased' = HalfErased /\ pc'[Main] = to /\ pc[Main] = from
  BY ActorAssumption DEF FlusherInv, PlacesOK, InFlight, HalfErased, Move, Goto, Actors
<1>2. QED
  BY <1>1, QueueFrame DEF QueueInv, WrittenOK

LEMMA QueueThread ==
    ASSUME FlusherInv, QueueInv, UNCHANGED queue, NEW t \in Threads, NEW from, NEW to, Move(t, from, to),
           \/ {from, to} \intersect {"sending", "erase_tx", "erase_ack"} = {}
           \/ from = "sending" /\ to = "erase_tx"
    PROVE  QueueInv'
<1>1. \A u \in Threads : u # t => pc'[u] = pc[u]
  BY DEF FlusherInv, PlacesOK, Move, Goto, Actors
<1>2. pc[t] = from /\ pc'[t] = to /\ pc'[Main] = pc[Main]
  BY ActorAssumption DEF FlusherInv, PlacesOK, Move, Goto, Actors
<1>3. InFlight' = InFlight /\ HalfErased' = HalfErased
  BY <1>1, <1>2 DEF InFlight, HalfErased
<1>4. QED
  BY <1>2, <1>3, QueueFrame DEF QueueInv, WrittenOK

LEMMA QueueRead ==
    ASSUME FlusherInv, QueueInv, NEW p \in Actors, SaveFlag(p) \/ SetFlag(p) \/ RestoreFlag(p) \/ LeakFlag(p)
    PROVE  QueueInv'
<1>1. UNCHANGED queue /\ (UNCHANGED pc \/ (pc[p] = "poll" /\ Goto(p, "idle")))
  BY DEF SaveFlag, SetFlag, RestoreFlag, LeakFlag, Return
<1>2. CASE UNCHANGED pc
  BY <1>1, <1>2, QueueFrame DEF InFlight, HalfErased, QueueInv, WrittenOK
<1>3. CASE pc[p] = "poll" /\ Goto(p, "idle")
  <2>1. p = Main
    BY <1>3 DEF FlusherInv, PlacesOK, Actors, ThreadPlaces
  <2>2. QED
    BY <1>1, <1>3, <2>1, QueueMain DEF Move
<1>4. QED
  BY <1>1, <1>2, <1>3

LEMMA QueuePushTx == FlusherInv /\ QueueInv /\ PushTx => QueueInv'
<1>1. SUFFICES ASSUME FlusherInv, QueueInv, PushTx PROVE QueueInv'
  OBVIOUS
<1>2. pc[Main] = "push_tx" /\ pc'[Main] = "push_ack" /\ \A t \in Threads : pc'[t] = pc[t]
  BY <1>1, ActorAssumption DEF PushTx, Move, Goto, FlusherInv, PlacesOK, Actors
<1>3. WrittenOK'
  BY <1>1, <1>2, FlagAssumption DEF PushTx, QueueInv, WrittenOK
<1>4. ASSUME ~overlapped' PROVE QueueOK'
  <2>1. ~overlapped /\ QueueOK
    BY <1>1, <1>4 DEF PushTx, QueueInv
  <2>2. ~InFlight /\ ~InFlight' /\ HalfErased' = HalfErased
    BY <1>1, <1>2, <1>4 DEF PushTx, UsersOfTx, InFlight, HalfErased
  <2>3. written \in Nat /\ written' = written + 1 /\ sent' = sent /\ cached_ack' = cached_ack
        /\ cached_tx' = Append(cached_tx, written + 1)
    BY <1>1 DEF PushTx, QueueInv, WrittenOK
  <2>4. Erased(InFlight)' = Erased(InFlight) /\ Erased(InFlight) = Len(sent)
        /\ Erased(InFlight \/ HalfErased)' = Erased(InFlight \/ HalfErased)
    BY <2>2, <2>3 DEF Erased
  <2>5. HoldsTx(Len(sent))'
    <3>1. cached_tx \in Seq(Nat) /\ Len(sent) \in Nat /\ HoldsTx(Len(sent))
      BY <2>1, <2>4 DEF QueueOK
    <3>2. Len(cached_tx') = Len(cached_tx) + 1 /\ cached_tx'[Len(cached_tx) + 1] = written + 1
          /\ \A k \in 1..Len(cached_tx) : cached_tx'[k] = cached_tx[k]
      BY <2>3, <3>1
    <3>3. QED
      BY <2>3, <3>1, <3>2 DEF HoldsTx
  <2>6. HoldsAck(Erased(InFlight \/ HalfErased))'
    <3>1. Flagged' = Flagged
      BY <1>2, <2>3 DEF Flagged
    <3>2. QED
      BY <2>1, <2>3, <2>4, <3>1 DEF QueueOK, HoldsAck
  <2>7. QED
    BY <2>1, <2>2, <2>3, <2>4, <2>5, <2>6 DEF QueueOK
<1>5. QED
  BY <1>3, <1>4 DEF QueueInv

LEMMA QueuePushAck == FlusherInv /\ QueueInv /\ PushAck => QueueInv'
<1>1. SUFFICES ASSUME FlusherInv, QueueInv, PushAck PROVE QueueInv'
  OBVIOUS
<1>2. pc[Main] = "push_ack" /\ pc'[Main] = "unlock" /\ \A t \in Threads : pc'[t] = pc[t]
  BY <1>1, ActorAssumption DEF PushAck, Move, Goto, FlusherInv, PlacesOK, Actors
<1>3. WrittenOK'
  BY <1>1, <1>2, FlagAssumption DEF PushAck, QueueInv, WrittenOK
<1>4. ASSUME ~overlapped' PROVE QueueOK'
  <2>1. ~overlapped /\ QueueOK
    BY <1>1, <1>4 DEF PushAck, QueueInv
  <2>2. InFlight' = InFlight /\ HalfErased' = HalfErased
    BY <1>2 DEF InFlight, HalfErased
  <2>3. written \in Nat /\ written' = written /\ sent' = sent /\ cached_tx' = cached_tx
        /\ cached_ack' = Append(cached_ack, AckFlags[written])
    BY <1>1 DEF PushAck, QueueInv, WrittenOK
  <2>4. written > 0 /\ Flagged = written - 1 /\ Flagged' = written
    BY <1>1, <1>2, <2>3 DEF Flagged, QueueInv, WrittenOK
  <2> DEFINE off == Erased(InFlight \/ HalfErased)
  <2>5. off' = off /\ Erased(InFlight)' = Erased(InFlight) /\ off \in Nat
    BY <2>1, <2>2, <2>3 DEF Erased, QueueOK
  <2>6. HoldsTx(Erased(InFlight))'
    BY <2>1, <2>3, <2>5 DEF QueueOK, HoldsTx
  <2>7. cached_ack' \in Seq(BOOLEAN) /\ HoldsAck(off)'
    <3>1. cached_ack \in Seq(BOOLEAN) /\ HoldsAck(off)
      BY <2>1 DEF QueueOK
    <3>2. AckFlags[written] \in BOOLEAN
      BY <1>1, <2>4, FlagAssumption DEF QueueInv, WrittenOK
    <3>3. Len(cached_ack') = Len(cached_ack) + 1 /\ cached_ack'[Len(cached_ack) + 1] = AckFlags[written]
          /\ \A k \in 1..Len(cached_ack) : cached_ack'[k] = cached_ack[k]
      BY <2>3, <3>1, <3>2
    <3>4. off + Len(cached_ack) + 1 = written
      BY <2>3, <2>4, <2>5, <3>1 DEF HoldsAck
    <3>5. QED
      BY <2>3, <2>4, <2>5, <3>1, <3>2, <3>3, <3>4 DEF HoldsAck
  <2>8. QED
    BY <2>1, <2>2, <2>3, <2>5, <2>6, <2>7 DEF QueueOK
<1>5. QED
  BY <1>3, <1>4 DEF QueueInv

\* What OneFlusher says of the step of thread t: no other thread has anything in
\* flight.
LEMMA OnlyThread ==
    ASSUME FlusherInv, NEW t \in Threads, pc[t] # "none", NEW to, Goto(t, to), to \in ThreadPlaces
    PROVE  /\ InFlight <=> pc[t] \in {"sending", "erase_tx"}
           /\ HalfErased <=> pc[t] = "erase_ack"
           /\ InFlight' <=> to \in {"sending", "erase_tx"}
           /\ HalfErased' <=> to = "erase_ack"
           /\ pc'[Main] = pc[Main]
<1>1. \A u \in Threads : u # t => pc[u] = "none" /\ pc'[u] = "none"
  BY DEF FlusherInv, OneFlusher, PlacesOK, Goto, Actors
<1>2. pc'[t] = to /\ pc'[Main] = pc[Main]
  BY ActorAssumption DEF FlusherInv, PlacesOK, Goto, Actors
<1>3. QED
  BY <1>1, <1>2 DEF InFlight, HalfErased

LEMMA QueueSend == \A t \in Threads : FlusherInv /\ QueueInv /\ SendFirst(t) => QueueInv'
<1>1. SUFFICES ASSUME NEW t \in Threads, FlusherInv, QueueInv, SendFirst(t) PROVE QueueInv'
  OBVIOUS
<1>2. pc[t] = "test" /\ ~InFlight /\ ~HalfErased /\ InFlight' /\ pc'[Main] = pc[Main]
  BY <1>1, OnlyThread DEF SendFirst, Move, ThreadPlaces
<1>3. written' = written /\ cached_tx' = cached_tx /\ cached_ack' = cached_ack
      /\ cached_tx # << >> /\ cached_ack # << >> /\ sent' = Append(sent, <<Head(cached_tx), Head(cached_ack)>>)
  BY <1>1 DEF SendFirst
<1>4. WrittenOK'
  BY <1>1, <1>2, <1>3 DEF QueueInv, WrittenOK
<1>5. ASSUME ~overlapped' PROVE QueueOK'
  <2>1. QueueOK
    BY <1>1, <1>5 DEF SendFirst, QueueInv
  <2>2. cached_tx \in Seq(Nat) /\ cached_ack \in Seq(BOOLEAN) /\ sent \in Seq(Nat \X BOOLEAN)
        /\ Len(sent) \in Nat /\ HoldsTx(Len(sent)) /\ HoldsAck(Len(sent))
    BY <1>2, <2>1 DEF QueueOK, Erased
  <2>3. Head(cached_tx) = Len(sent) + 1
    BY <1>3, <2>2 DEF HoldsTx
  <2>4. Head(cached_ack) = AckFlags[Len(sent) + 1] /\ Head(cached_ack) \in BOOLEAN
    BY <1>3, <2>2 DEF HoldsAck
  <2>5. sent' \in Seq(Nat \X BOOLEAN) /\ Len(sent') = Len(sent) + 1
        /\ sent'[Len(sent) + 1] = <<Len(sent) + 1, AckFlags[Len(sent) + 1]>>
        /\ \A k \in 1..Len(sent) : sent'[k] = sent[k]
    BY <1>3, <2>2, <2>3, <2>4
  <2>6. \A k \in 1..Len(sent') : sent'[k] = <<k, AckFlags[k]>>
    <3>1. TAKE k \in 1..Len(sent')
    <3>2. CASE k = Len(sent) + 1
      BY <2>5, <3>2
    <3>3. CASE k \in 1..Len(sent)
      BY <2>1, <2>5, <3>3 DEF QueueOK
    <3>4. QED
      BY <2>2, <2>5, <3>1, <3>2, <3>3
  <2>7. Erased(InFlight)' = Len(sent) /\ Erased(InFlight \/ HalfErased)' = Len(sent) /\ Flagged' = Flagged
    BY <1>2, <1>3, <2>2, <2>5 DEF Erased, Flagged
  <2>8. HoldsTx(Erased(InFlight))' /\ HoldsAck(Erased(InFlight \/ HalfErased))'
    BY <1>3, <2>2, <2>7 DEF HoldsTx, HoldsAck
  <2>9. sent' # << >>
    BY <2>2, <2>5
  <2>10. QED
    BY <1>3, <2>2, <2>5, <2>6, <2>8, <2>9 DEF QueueOK
<1>6. QED
  BY <1>4, <1>5 DEF QueueInv

LEMMA QueueEraseTx == \A t \in Threads : FlusherInv /\ QueueInv /\ EraseTx(t) => QueueInv'
<1>1. SUFFICES ASSUME NEW t \in Threads, FlusherInv, QueueInv, EraseTx(t) PROVE QueueInv'
  OBVIOUS
<1>2. InFlight /\ ~HalfErased /\ ~InFlight' /\ HalfErased' /\ pc'[Main] = pc[Main]
  BY <1>1, OnlyThread DEF EraseTx, Move, ThreadPlaces
<1>3. written' = written /\ cached_tx' = Tail(cached_tx) /\ cached_ack' = cached_ack /\ sent' = sent
  BY <1>1 DEF EraseTx
<1>4. WrittenOK'
  BY <1>1, <1>2, <1>3 DEF QueueInv, WrittenOK
<1>5. ASSUME ~overlapped' PROVE QueueOK'
  <2>1. QueueOK /\ WrittenOK
    BY <1>1, <1>5 DEF EraseTx, QueueInv
  <2>2. cached_tx \in Seq(Nat) /\ sent \in Seq(Nat \X BOOLEAN) /\ sent # << >>
        /\ HoldsTx(Len(sent) - 1) /\ HoldsAck(Len(sent) - 1)
    BY <1>2, <2>1 DEF QueueOK, Erased
  <2>3. cached_tx # << >>
    BY <1>2, <2>1 DEF QueueOK
  <2>4. Len(cached_tx') = Len(cached_tx) - 1 /\ cached_tx' \in Seq(Nat)
        /\ \A k \in 1..Len(cached_tx') : cached_tx'[k] = cached_tx[k + 1]
    BY <1>3, <2>2, <2>3
  <2>5. HoldsTx(Len(sent))'
    BY <1>3, <2>1, <2>2, <2>4, FlagAssumption DEF HoldsTx, WrittenOK
  <2>6. Erased(InFlight)' = Len(sent') /\ Erased(InFlight \/ HalfErased)' = Len(sent) - 1 /\ Flagged' = Flagged
    BY <1>2, <1>3 DEF Erased, Flagged
  <2>7. HoldsAck(Erased(InFlight \/ HalfErased))'
    BY <1>3, <2>2, <2>6 DEF HoldsAck
  <2>8. QED
    BY <1>2, <1>3, <2>1, <2>2, <2>4, <2>5, <2>6, <2>7 DEF QueueOK
<1>6. QED
  BY <1>4, <1>5 DEF QueueInv

LEMMA QueueEraseAck == \A t \in Threads : FlusherInv /\ QueueInv /\ EraseAck(t) => QueueInv'
<1>1. SUFFICES ASSUME NEW t \in Threads, FlusherInv, QueueInv, EraseAck(t) PROVE QueueInv'
  OBVIOUS
<1>2. ~InFlight /\ HalfErased /\ ~InFlight' /\ ~HalfErased' /\ pc'[Main] = pc[Main]
  BY <1>1, OnlyThread DEF EraseAck, Move, ThreadPlaces
<1>3. written' = written /\ cached_tx' = cached_tx /\ cached_ack' = Tail(cached_ack) /\ sent' = sent
  BY <1>1 DEF EraseAck
<1>4. WrittenOK'
  BY <1>1, <1>2, <1>3 DEF QueueInv, WrittenOK
<1>5. ASSUME ~overlapped' PROVE QueueOK'
  <2>1. QueueOK /\ WrittenOK
    BY <1>1, <1>5 DEF EraseAck, QueueInv
  <2>2. cached_ack \in Seq(BOOLEAN) /\ sent \in Seq(Nat \X BOOLEAN) /\ sent # << >> /\ cached_ack # << >>
        /\ HoldsTx(Len(sent)) /\ HoldsAck(Len(sent) - 1)
    BY <1>2, <2>1 DEF QueueOK, Erased
  <2>3. Len(cached_ack') = Len(cached_ack) - 1 /\ cached_ack' \in Seq(BOOLEAN)
        /\ \A k \in 1..Len(cached_ack') : cached_ack'[k] = cached_ack[k + 1]
    BY <1>3, <2>2
  <2>4. Flagged' = Flagged /\ Flagged \in Int
    BY <1>2, <1>3, <2>1, FlagAssumption DEF Flagged, WrittenOK
  <2>5. HoldsAck(Len(sent))'
    <3>1. Len(cached_ack) = Flagged - (Len(sent) - 1) /\ Len(sent) \in Nat
          /\ \A k \in 1..Len(cached_ack) : cached_ack[k] = AckFlags[(Len(sent) - 1) + k]
      BY <2>2 DEF HoldsAck
    <3>2. \A k \in 1..Len(cached_ack') : /\ k + 1 \in 1..Len(cached_ack)
                                         /\ (Len(sent) - 1) + (k + 1) = Len(sent) + k
      BY <2>2, <2>3, <3>1
    <3>3. QED
      BY <1>3, <2>3, <2>4, <3>1, <3>2 DEF HoldsAck
  <2>6. Erased(InFlight)' = Len(sent) /\ Erased(InFlight \/ HalfErased)' = Len(sent)
    BY <1>2, <1>3 DEF Erased
  <2>7. HoldsTx(Erased(InFlight))'
    BY <1>3, <2>2, <2>6 DEF HoldsTx
  <2>8. QED
    BY <1>2, <1>3, <2>1, <2>2, <2>3, <2>5, <2>6, <2>7 DEF QueueOK
<1>6. QED
  BY <1>4, <1>5 DEF QueueInv

\* Operations that overlap: the queue is no longer known, the count is.
LEMMA QueueClash ==
    \A t \in Threads : FlusherInv /\ QueueInv /\ (ClashTx(t) \/ ClashAck(t)) => QueueInv'
<1>1. SUFFICES ASSUME NEW t \in Threads, FlusherInv, QueueInv, ClashTx(t) \/ ClashAck(t) PROVE QueueInv'
  OBVIOUS
<1>2. overlapped'
  BY <1>1 DEF ClashTx, ClashAck
<1>3. WrittenOK'
  <2>1. CASE ClashTx(t)
    BY <1>1, <2>1, ActorAssumption, FlagAssumption
       DEF ClashTx, QueueInv, WrittenOK, FlusherInv, PlacesOK, Actors
  <2>2. CASE ClashAck(t)
    BY <1>1, <2>2, ActorAssumption, FlagAssumption
       DEF ClashAck, QueueInv, WrittenOK, FlusherInv, PlacesOK, Actors
  <2>3. QED
    BY <1>1, <2>1, <2>2
<1>4. QED
  BY <1>2, <1>3 DEF QueueInv

LEMMA QueueStep == FlusherInv /\ QueueInv /\ [Next]_vars => QueueInv'
<1>1. SUFFICES ASSUME FlusherInv, QueueInv, [Next]_vars PROVE QueueInv'
  OBVIOUS
<1>2. CASE UNCHANGED vars
  BY <1>1, <1>2, QueueFrame DEF vars, InFlight, HalfErased, QueueInv, WrittenOK
<1>3. CASE PollRead \/ CachePending \/ DirectWrite \/ Ping
  BY <1>1, <1>3, QueueMain DEF PollRead, CachePending, DirectWrite, Ping
<1>4. CASE WriteToCache \/ Unblocked \/ Lock \/ Unlock
  BY <1>1, <1>4, QueueMain DEF WriteToCache, Unblocked, Lock, Unlock
<1>5. CASE WriteDone \/ Enable
  BY <1>1, <1>5, QueueMain DEF WriteDone, Enable, Move
<1>6. CASE PushTx \/ PushAck
  BY <1>1, <1>6, QueuePushTx, QueuePushAck
<1>7. ASSUME NEW t \in Threads, CreateThread(t)
      PROVE  QueueInv'
  <2>1. pc'[Main] = "idle" /\ \A u \in Threads : pc'[u] = pc[u] \/ (u = t /\ pc[u] = "none" /\ pc'[u] = "start")
    BY <1>1, <1>7, ActorAssumption DEF CreateThread, FlusherInv, PlacesOK, Actors
  <2>2. InFlight' = InFlight /\ HalfErased' = HalfErased
    BY <2>1 DEF InFlight, HalfErased
  <2>3. QED
    BY <1>1, <1>7, <2>1, <2>2, QueueFrame DEF CreateThread
<1>8. ASSUME NEW t \in Threads, ClashTx(t) \/ ClashAck(t)
      PROVE  QueueInv'
  BY <1>1, <1>8, QueueClash
<1>9. ASSUME NEW p \in Actors, SaveFlag(p) \/ SetFlag(p) \/ RestoreFlag(p) \/ LeakFlag(p)
      PROVE  QueueInv'
  BY <1>1, <1>9, QueueRead
<1>10. ASSUME NEW t \in Threads, ThreadStep(t)
       PROVE  QueueInv'
  <2>1. CASE Start(t) \/ Settle(t) \/ MainFree(t) \/ Claim(t) \/ Release(t) \/ Finish(t) \/ SendDone(t)
    BY <1>1, <2>1, QueueThread DEF Start, Settle, MainFree, Claim, Release, Finish, SendDone
  <2>2. CASE SendFirst(t) \/ EraseTx(t) \/ EraseAck(t)
    BY <1>1, <2>2, QueueSend, QueueEraseTx, QueueEraseAck
  <2>3. QED
    BY <1>10, <2>1, <2>2 DEF ThreadStep
<1>11. QED
  BY <1>1, <1>2, <1>3, <1>4, <1>5, <1>6, <1>7, <1>8, <1>9, <1>10 DEF Next, MainStep

\* The queue is sent in order, each message once and with its own flag, as long
\* as the two threads never use the vectors at once.
THEOREM QueueInOrder == Spec => []SentInOrder
<1>1. QueueInv => SentInOrder
  BY DEF QueueInv, QueueOK, SentInOrder
<1>2. QED
  BY <1>1, FlusherAlways, QueueInit, QueueStep, PTL DEF Spec

=============================================================================
