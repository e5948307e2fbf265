-------------------------- MODULE AMirrorLink_proofs --------------------------
(***************************************************************************)
(* Proofs about AMirror's connection to the AIBus socket, for any set of   *)
(* messages, devices, arrivals and any bounds.                             *)
(*                                                                         *)
(* First: the mutexes and lists have one user at a time, and the sending   *)
(* side implements Outbox.  Then: what the lists hold, the received        *)
(* messages on their way to the program, the fragments that are kept, and  *)
(* the frames that are kept for resending.                                 *)
(*                                                                         *)
(* read_stream, await_acknowledgment and cache_tx work on sequences frame  *)
(* by frame.  The second half begins with those loops unrolled: the values *)
(* after each frame as a function of the number of frames, about which     *)
(* the rest argues by induction.                                           *)
(***************************************************************************)
EXTENDS AMirrorLink, WellFoundedInduction, TLAPS

(***************************************************************************)
(* The client handler and the lists have one user at a time.               *)
(***************************************************************************)

\* Each thread is at a place of its own part of the program.
Placed ==
    /\ pc \in [Threads -> Labels]
    /\ pc["main"] \notin {"idle", "ckScan", "ckSend", "ckWait"}
    /\ pc["socket"] \in Inside \union {"idle", "done"}

OneUser == Placed /\ OneReader

USE DEF Goto, At

LEMMA ProcessOneUser ==
    ASSUME OneUser, NEW t \in Threads, Process(t)
    PROVE  OneUser'
<1> USE DEF OneUser, Placed, OneReader, Threads, Labels, Inside, Locked
<1>1. CASE RdLock(t)
  BY <1>1 DEF RdLock
<1>2. CASE RdRead(t)
  BY <1>2 DEF RdRead
<1>3. CASE WrLock(t)
  BY <1>3 DEF WrLock
<1>4. CASE WrSend(t)
  <2>1. CASE AwaitsAck(Dest[Current])
    BY <1>4, <2>1 DEF WrSend, locks
  <2>2. CASE ~AwaitsAck(Dest[Current])
    BY <1>4, <2>2 DEF WrSend, locks
  <2>3. QED
    BY <2>1, <2>2
<1>5. CASE WrAwaited(t)
  BY <1>5 DEF WrAwaited, locks
<1>6. CASE WrEnd(t)
  BY <1>6 DEF WrEnd, AfterProcess
<1>7. CASE AwRead(t)
  BY <1>7 DEF AwRead, locks
<1>8. CASE AwRetry(t)
  BY <1>8 DEF AwRetry, locks
<1>9. QED
  BY <1>1, <1>2, <1>3, <1>4, <1>5, <1>6, <1>7, <1>8 DEF Process

LEMMA CheckOneUser ==
    ASSUME OneUser, CkScan \/ CkSend \/ CkAgain \/ CkAwaited \/ TakeClient \/ EndLoop
    PROVE  OneUser'
<1> USE DEF OneUser, Placed, OneReader, Threads, Labels, Inside, Locked
<1>1. CASE CkScan
  BY <1>1 DEF CkScan, CkReturn
<1>2. CASE CkSend
  BY <1>2 DEF CkSend, locks
<1>3. CASE CkAgain
  BY <1>3 DEF CkAgain, CkReturn
<1>4. CASE CkAwaited
  <2>1. CASE pc' = [pc EXCEPT !["socket"] = "ckSend"] /\ UNCHANGED <<client, aibus>>
    BY <1>4, <2>1 DEF CkAwaited
  <2>2. CASE CkReturn /\ UNCHANGED aibus
    BY <1>4, <2>2 DEF CkAwaited, CkReturn
  <2>3. QED
    BY <1>4, <2>1, <2>2 DEF CkAwaited
<1>5. CASE TakeClient
  BY <1>5 DEF TakeClient
<1>6. CASE EndLoop
  BY <1>6 DEF EndLoop, locks
<1>7. QED
  BY <1>1, <1>2, <1>3, <1>4, <1>5, <1>6

LEMMA MainOneUser ==
    ASSUME OneUser,
           \/ Activate \/ Write \/ PhoneChanged \/ SetAckCache \/ Drain \/ Handle
           \/ CreateMenu \/ ClearMenu \/ MenuProcess \/ MenuLook \/ Quit \/ JoinThread
    PROVE  OneUser'
<1> USE DEF OneUser, Placed, OneReader, Threads, Labels, Inside, Locked
<1>1. CASE Activate
  BY <1>1 DEF Activate
<1>2. CASE Write
  BY <1>2 DEF Write, locks
<1>3. CASE PhoneChanged
  BY <1>3 DEF PhoneChanged, locks
<1>4. CASE SetAckCache
  BY <1>4 DEF SetAckCache, locks
<1>5. CASE Drain
  BY <1>5 DEF Drain, DrainTo
<1>6. CASE Handle
  BY <1>6 DEF Handle
<1>7. CASE CreateMenu
  BY <1>7 DEF CreateMenu, locks
<1>8. CASE ClearMenu
  BY <1>8 DEF ClearMenu, locks
<1>9. CASE MenuProcess
  BY <1>9 DEF MenuProcess
<1>10. CASE MenuLook
  BY <1>10 DEF MenuLook, locks
<1>11. CASE Quit
  BY <1>11 DEF Quit, locks
<1>12. CASE JoinThread
  BY <1>12 DEF JoinThread, locks
<1>13. QED
  BY <1>1, <1>2, <1>3, <1>4, <1>5, <1>6, <1>7, <1>8, <1>9, <1>10, <1>11, <1>12

LEMMA InitOneUser == Init => OneUser
BY DEF Init, OneUser, Placed, OneReader, Threads, Labels, Inside, Locked

LEMMA NextOneUser == OneUser /\ [Next]_vars => OneUser'
<1> SUFFICES ASSUME OneUser, [Next]_vars PROVE OneUser'
  OBVIOUS
<1>1. CASE SocketThread
  BY <1>1, ProcessOneUser, CheckOneUser DEF SocketThread, Threads
<1>2. CASE MainThread
  BY <1>2, ProcessOneUser, MainOneUser DEF MainThread, Threads
<1>3. CASE Environment
  BY <1>3 DEF Environment, Arrive, Acknowledge, OneUser, Placed, OneReader, locks
<1>4. CASE Ended \/ UNCHANGED vars
  BY <1>4 DEF Ended, vars, OneUser, Placed, OneReader, locks
<1>5. QED
  BY <1>1, <1>2, <1>3, <1>4 DEF Next

\* The client handler's socket and caches, and the lists while they are worked on,
\* belong to the thread that holds their mutex, whatever the main thread does while
\* it waits for a menu.
THEOREM OneThread == Spec => []OneReader
<1>1. OneUser => OneReader
  BY DEF OneUser
<1>2. QED
  BY <1>1, InitOneUser, NextOneUser, PTL DEF Spec

(***************************************************************************)
(* The sending side implements Outbox.                                     *)
(*                                                                         *)
(* A message is in one place of ai_tx and aibus_cache only, and tx points  *)
(* at a frame of ai_tx or past its end.                                    *)
(***************************************************************************)
Queued ==
    /\ ai_tx \in Seq(Out) /\ aibus_cache \in Seq(Out)
    /\ \A j, k \in 1..Len(ai_tx) : ai_tx[j] = ai_tx[k] => j = k
    /\ \A j, k \in 1..Len(aibus_cache) : aibus_cache[j] = aibus_cache[k] => j = k
    /\ \A j \in 1..Len(ai_tx), k \in 1..Len(aibus_cache) : ai_tx[j] # aibus_cache[k]

Cursor(r) == {"k", "i"} \subseteq DOMAIN r /\ r.k \in Nat \ {0} /\ r.i \in Nat

Writing(l) == \E t \in Threads : pc[t] = l

Pointed ==
    /\ Cursor(tx)
    /\ tx.k <= Len(ai_tx) => tx.i < Frags[ai_tx[tx.k]]
    /\ tx.k > Len(ai_tx) => tx.i = 0
    /\ ~Writing("wrSend") /\ ~Writing("wrWait") => tx.k = 1 /\ tx.i = 0
    /\ Writing("wrWait") => tx.k <= Len(ai_tx)

BoxInv == OneUser /\ Queued /\ Pointed

BoxStep == [Box!Next]_(Box!vars)

LEMMA NoTxAt == Cursor(NoTx) /\ NoTx.k = 1 /\ NoTx.i = 0
BY DEF NoTx, Cursor

\* The position does not depend on what write_stream collects.
LEMMA SameSpot ==
    ASSUME NEW r, Cursor(r), NEW e, NEW f
    PROVE  /\ Cursor([r EXCEPT !.first = e])
           /\ [r EXCEPT !.first = e].k = r.k /\ [r EXCEPT !.first = e].i = r.i
           /\ Cursor([r EXCEPT !.rx = e])
           /\ [r EXCEPT !.rx = e].k = r.k /\ [r EXCEPT !.rx = e].i = r.i
           /\ Cursor([r EXCEPT !.long = e])
           /\ [r EXCEPT !.long = e].k = r.k /\ [r EXCEPT !.long = e].i = r.i
           /\ Cursor([r EXCEPT !.long = e, !.acks = f])
           /\ [r EXCEPT !.long = e, !.acks = f].k = r.k /\ [r EXCEPT !.long = e, !.acks = f].i = r.i
BY Zenon DEF Cursor

LEMMA StepI ==
    ASSUME NEW r, Cursor(r), NEW e
    PROVE  /\ {"k", "i"} \subseteq DOMAIN [r EXCEPT !.i = e]
           /\ [r EXCEPT !.i = e].k = r.k /\ [r EXCEPT !.i = e].i = e
BY Zenon DEF Cursor

LEMMA StepK ==
    ASSUME NEW r, Cursor(r), NEW e, NEW f
    PROVE  /\ {"k", "i"} \subseteq DOMAIN [r EXCEPT !.k = e, !.i = f]
           /\ [r EXCEPT !.k = e, !.i = f].k = e /\ [r EXCEPT !.k = e, !.i = f].i = f
BY Zenon DEF Cursor

\* Step goes on to the next frame of message m, or to the next message.
Advance(r, m) == IF r.i + 1 < Frags[m] THEN [r EXCEPT !.i = r.i + 1]
                                       ELSE [r EXCEPT !.k = r.k + 1, !.i = 0]
NextK(k, i, m) == IF i + 1 < Frags[m] THEN k ELSE k + 1
NextI(i, m) == IF i + 1 < Frags[m] THEN i + 1 ELSE 0

LEMMA AdvanceAt ==
    ASSUME NEW r, Cursor(r), NEW m
    PROVE  /\ Cursor(Advance(r, m))
           /\ Advance(r, m).k = NextK(r.k, r.i, m)
           /\ Advance(r, m).i = NextI(r.i, m)
<1>1. r.k \in Nat \ {0} /\ r.i \in Nat /\ r.k + 1 \in Nat \ {0} /\ r.i + 1 \in Nat
  BY DEF Cursor
<1>2. CASE r.i + 1 < Frags[m]
  <2>1. Advance(r, m) = [r EXCEPT !.i = r.i + 1]
    BY <1>2, Zenon DEF Advance
  <2>2. QED
    BY <1>1, <1>2, <2>1, StepI DEF Cursor, NextK, NextI
<1>3. CASE ~(r.i + 1 < Frags[m])
  <2>1. Advance(r, m) = [r EXCEPT !.k = r.k + 1, !.i = 0]
    BY <1>3, Zenon DEF Advance
  <2>2. QED
    BY <1>1, <1>3, <2>1, StepK DEF Cursor, NextK, NextI
<1>4. QED
  BY <1>2, <1>3

LEMMA StepIsAdvance == ASSUME NEW r PROVE Step(r) = Advance(r, Current)
BY Zenon DEF Step, Advance

\* Outbox's variables, for a given position.
WaitingAt(k, i) ==
    ToSet(aibus_cache) \union {ai_tx[x] : x \in (IF i = 0 THEN k ELSE k + 1)..Len(ai_tx)}
SendingAt(k, i) == IF i = 0 THEN << >> ELSE <<ai_tx[k], i>>

LEMMA BoxAt ==
    /\ Waiting = WaitingAt(Position.k, Position.i)
    /\ Sending = SendingAt(Position.k, Position.i)
BY DEF Waiting, Sending, WaitingAt, SendingAt

LEMMA FramesOf == ASSUME Queued, NEW k \in 1..Len(ai_tx)
                  PROVE  ai_tx[k] \in Out /\ Frags[ai_tx[k]] \in Nat \ {0}
BY OutAssumption DEF Queued

\* The position Outbox sees is that of a frame, or the end of ai_tx.
LEMMA PositionAt ==
    ASSUME BoxInv
    PROVE  /\ Position.k \in Nat \ {0} /\ Position.i \in Nat
           /\ Position.k <= Len(ai_tx) => Position.i < Frags[ai_tx[Position.k]]
           /\ Position.k > Len(ai_tx) => Position.i = 0
<1>1. Len(ai_tx) \in Nat /\ Cursor(tx)
  BY DEF BoxInv, Queued, Pointed
<1>2. CASE Writing("wrWait")
  <2>1. Position = Step(tx) /\ tx.k \in 1..Len(ai_tx)
    BY <1>1, <1>2 DEF Position, Writing, BoxInv, Pointed, Cursor
  <2>2. Frags[Current] \in Nat \ {0} /\ Current = ai_tx[tx.k]
    BY <2>1, FramesOf DEF BoxInv, Current
  <2>3. Position.k = NextK(tx.k, tx.i, Current) /\ Position.i = NextI(tx.i, Current)
    BY <1>1, <2>1, StepIsAdvance, AdvanceAt
  <2>4. QED
    BY <1>1, <2>1, <2>2, <2>3, FramesOf DEF Cursor, BoxInv, NextK, NextI
<1>3. CASE ~Writing("wrWait")
  BY <1>1, <1>3 DEF Position, Writing, BoxInv, Pointed, Cursor
<1>4. QED
  BY <1>2, <1>3

\* A step that writes no frame: what has been written of ai_tx stays.
Stays ==
    /\ sent' = sent /\ Position'.k = Position.k /\ Len(ai_tx') >= Len(ai_tx)
    /\ \A j \in 1..(Position.k - 1) : ai_tx'[j] = ai_tx[j]

\* A step that writes one.
OneFrame ==
    /\ tx.k \in 1..Len(ai_tx) /\ Position.k = tx.k /\ Position.i = tx.i
    /\ UNCHANGED ai_tx
    /\ sent' = IF tx.i + 1 = Frags[Current] THEN Append(sent, Current) ELSE sent
    /\ Position'.k = NextK(tx.k, tx.i, Current) /\ Position'.i = NextI(tx.i, Current)

\* The step that follows the last frame.
Ends ==
    /\ Position.k > Len(ai_tx) /\ Position'.k = 1
    /\ sent' = sent /\ ai_tx' = << >>
    /\ recent_tx' = FoldLeft(CacheTx, recent_tx, FlattenSeq([k \in DOMAIN ai_tx |-> Split(ai_tx[k])]))

\* Steps that leave the messages and write_stream alone.
Elsewhere ==
    /\ UNCHANGED <<ai_tx, aibus_cache, sent, tx>>
    /\ \A t \in Threads : \A l \in {"wrSend", "wrWait"} : pc'[t] = l <=> pc[t] = l

LEMMA ElsewhereStutters ==
    ASSUME BoxInv, OneUser', Elsewhere
    PROVE  BoxInv' /\ BoxStep /\ Stays
<1>1. Writing("wrSend")' = Writing("wrSend") /\ Writing("wrWait")' = Writing("wrWait")
  BY DEF Elsewhere, Writing
<1>2. BoxInv'
  BY <1>1 DEF Elsewhere, BoxInv, Queued, Pointed
<1>3. Position' = Position
  BY <1>1 DEF Elsewhere, Position, Writing, Step, Current
<1>4. Waiting' = Waiting /\ Sending' = Sending /\ sent' = sent
  BY <1>3 DEF Waiting, Sending, Elsewhere
<1>5. Stays
  BY <1>3 DEF Elsewhere, Stays, BoxInv, Queued
<1>6. QED
  BY <1>2, <1>4, <1>5 DEF BoxStep, Box!vars

\* One frame more of the message at the position is one step of Outbox.
LEMMA FrameGoesOut ==
    ASSUME BoxInv, tx.k <= Len(ai_tx),
           Position.k = tx.k, Position.i = tx.i,
           UNCHANGED <<ai_tx, aibus_cache>>,
           sent' = IF tx.i + 1 = Frags[Current] THEN Append(sent, Current) ELSE sent,
           Position'.k = NextK(tx.k, tx.i, Current), Position'.i = NextI(tx.i, Current)
    PROVE  Box!Next
<1> DEFINE m == ai_tx[tx.k]
           rest == ToSet(aibus_cache) \union {ai_tx[x] : x \in (tx.k + 1)..Len(ai_tx)}
<1>1. /\ tx.k \in 1..Len(ai_tx) /\ tx.k \in Nat /\ tx.i \in Nat /\ Len(ai_tx) \in Nat
      /\ Current = m
  BY DEF BoxInv, Queued, Pointed, Cursor, Current
<1>2. m \in Out /\ Frags[m] \in Nat \ {0} /\ tx.i < Frags[m]
  BY <1>1, FramesOf DEF BoxInv, Pointed
<1>3. Waiting' = rest
  <2>1. IF Position'.i = 0 THEN Position'.k = tx.k + 1 ELSE Position'.k = tx.k
    BY <1>1 DEF NextK, NextI
  <2>2. Waiting' = ToSet(aibus_cache) \union
                   {ai_tx[x] : x \in (IF Position'.i = 0 THEN Position'.k ELSE Position'.k + 1)..Len(ai_tx)}
    BY DEF Waiting
  <2>3. (IF Position'.i = 0 THEN Position'.k ELSE Position'.k + 1) = tx.k + 1
    BY <2>1
  <2>4. QED
    BY <2>2, <2>3
<1>4. Sending' = IF tx.i + 1 = Frags[m] THEN << >> ELSE <<m, tx.i + 1>>
  <2>1. CASE tx.i + 1 = Frags[m]
    BY <1>1, <1>2, <2>1 DEF Sending, NextI
  <2>2. CASE tx.i + 1 # Frags[m]
    <3>1. Position'.i = tx.i + 1 /\ Position'.k = tx.k
      BY <1>1, <1>2, <2>2 DEF NextI, NextK
    <3>2. QED
      BY <1>1, <2>2, <3>1 DEF Sending
  <2>3. QED
    BY <2>1, <2>2
<1>5. Box!Frame(m, tx.i)
  BY <1>1, <1>4 DEF Box!Frame
<1>6. CASE tx.i = 0
  <2>1. Sending = << >>
    BY <1>6 DEF Sending
  <2>2. Waiting = ToSet(aibus_cache) \union {ai_tx[x] : x \in tx.k..Len(ai_tx)}
    BY <1>6 DEF Waiting
  <2>3. m \in Waiting
    BY <1>1, <2>2
  <2>4. m \notin rest
    BY <1>1 DEF BoxInv, Queued, ToSet
  <2>5. Waiting' = Waiting \ {m}
    <3>1. \A x \in tx.k..Len(ai_tx) : x = tx.k \/ x \in (tx.k + 1)..Len(ai_tx)
      BY <1>1
    <3>2. Waiting = rest \union {m}
      BY <1>1, <2>2, <3>1
    <3>3. QED
      BY <1>3, <2>4, <3>2
  <2>6. QED
    BY <1>2, <1>5, <1>6, <2>1, <2>3, <2>5 DEF Box!Next, Box!Begin
<1>7. CASE tx.i # 0
  <2>1. Sending = <<m, tx.i>>
    BY <1>7 DEF Sending
  <2>2. Waiting = rest
    BY <1>7 DEF Waiting
  <2>3. QED
    BY <1>3, <1>5, <2>1, <2>2 DEF Box!Next, Box!Continue
<1>8. QED
  BY <1>6, <1>7

LEMMA WrLockBox ==
    ASSUME BoxInv, OneUser', NEW t \in Threads, WrLock(t)
    PROVE  BoxInv' /\ BoxStep /\ Stays
<1>1. UNCHANGED <<ai_tx, aibus_cache, sent>> /\ tx' = NoTx /\ pc' = [pc EXCEPT ![t] = "wrSend"]
  BY DEF WrLock, lists, history
<1>2. ~Writing("wrSend") /\ ~Writing("wrWait") /\ tx.k = 1 /\ tx.i = 0
  BY DEF WrLock, Writing, BoxInv, OneUser, OneReader, Locked, Threads, Pointed
<1>3. ~Writing("wrWait")' /\ Writing("wrSend")'
  BY <1>1, <1>2 DEF Writing, BoxInv, OneUser, Placed
<1>4. tx'.k = 1 /\ tx'.i = 0 /\ Cursor(tx)'
  BY <1>1, NoTxAt DEF Cursor
<1>5. Pointed'
  <2>1. 1 <= Len(ai_tx) => 0 < Frags[ai_tx[1]]
    BY FramesOf DEF BoxInv, Queued
  <2>2. QED
    BY <1>1, <1>3, <1>4, <2>1 DEF Pointed
<1>6. BoxInv'
  BY <1>1, <1>5 DEF BoxInv, Queued
<1>7. Position.k = 1 /\ Position.i = 0 /\ Position'.k = 1 /\ Position'.i = 0
  BY <1>2, <1>3, <1>4 DEF Position, Writing
<1>8. Waiting' = Waiting /\ Sending' = Sending /\ sent' = sent
  BY <1>1, <1>7 DEF Waiting, Sending
<1>9. Stays
  BY <1>1, <1>7 DEF Stays, BoxInv, Queued
<1>10. QED
  BY <1>6, <1>8, <1>9 DEF BoxStep, Box!vars

LEMMA WrSendBox ==
    ASSUME BoxInv, OneUser', NEW t \in Threads, WrSend(t)
    PROVE  BoxInv' /\ BoxStep /\ OneFrame
<1> DEFINE r == [tx EXCEPT !.first = Track]
<1>1. /\ UNCHANGED <<ai_tx, aibus_cache>> /\ tx.k <= Len(ai_tx)
      /\ sent' = IF tx.i + 1 = Frags[Current] THEN Append(sent, Current) ELSE sent
      /\ pc[t] = "wrSend"
  BY DEF WrSend, lists
<1>2. Cursor(tx) /\ Cursor(r) /\ r.k = tx.k /\ r.i = tx.i
  BY SameSpot DEF BoxInv, Pointed
<1>3. ~Writing("wrWait") /\ Position = tx
  BY <1>1 DEF Writing, Position, BoxInv, OneUser, OneReader, Locked, Threads
<1>4. tx.k \in 1..Len(ai_tx) /\ Current = ai_tx[tx.k] /\ tx.i < Frags[Current] /\ Frags[Current] \in Nat \ {0}
  BY <1>1, <1>2, FramesOf DEF BoxInv, Queued, Pointed, Cursor, Current
<1>5. CASE AwaitsAck(Dest[Current])
  <2>1. tx' = r /\ pc' = [pc EXCEPT ![t] = "wrWait"]
    BY <1>5 DEF WrSend
  <2>2. Writing("wrWait")'
    BY <2>1 DEF Writing, BoxInv, OneUser, Placed
  <2>3. Current' = Current
    BY <1>1, <1>2, <2>1 DEF Current
  <2>4. Position' = Advance(r, Current)
    BY <2>1, <2>2, <2>3, StepIsAdvance DEF Position, Writing, Step, Advance
  <2>5. Position'.k = NextK(tx.k, tx.i, Current) /\ Position'.i = NextI(tx.i, Current)
    BY <1>2, <2>4, AdvanceAt
  <2>6. BoxInv'
    <3>1. Pointed'
      BY <1>1, <1>2, <1>4, <2>1, <2>2 DEF Pointed, Cursor, Current
    <3>2. QED
      BY <1>1, <3>1 DEF BoxInv, Queued
  <2>7. QED
    BY <1>1, <1>3, <1>4, <2>5, <2>6, FrameGoesOut DEF BoxStep, OneFrame
<1>6. CASE ~AwaitsAck(Dest[Current])
  <2>1. tx' = Step(r) /\ pc' = pc
    BY <1>6 DEF WrSend
  <2>2. Writing("wrSend")' /\ ~Writing("wrWait")'
    BY <1>1, <1>3, <2>1 DEF Writing
  <2>3. Cursor(tx') /\ tx'.k = NextK(tx.k, tx.i, Current) /\ tx'.i = NextI(tx.i, Current)
    BY <1>2, <2>1, StepIsAdvance, AdvanceAt
  <2>4. Position' = tx'
    BY <2>2 DEF Position, Writing
  <2>5. Pointed'
    <3>1. Len(ai_tx) \in Nat /\ \A k \in 1..Len(ai_tx) : Frags[ai_tx[k]] \in Nat \ {0}
      BY FramesOf DEF BoxInv, Queued
    <3>2. /\ tx'.k <= Len(ai_tx) => tx'.i < Frags[ai_tx[tx'.k]]
          /\ tx'.k > Len(ai_tx) => tx'.i = 0
      BY <1>2, <1>4, <2>3, <3>1 DEF NextK, NextI, Cursor
    <3>3. QED
      BY <1>1, <2>2, <2>3, <3>2 DEF Pointed, Cursor
  <2>6. BoxInv'
    BY <1>1, <2>5 DEF BoxInv, Queued
  <2>7. Position'.k = NextK(tx.k, tx.i, Current) /\ Position'.i = NextI(tx.i, Current)
    BY <2>3, <2>4
  <2>8. QED
    BY <1>1, <1>3, <1>4, <2>6, <2>7, FrameGoesOut DEF BoxStep, OneFrame
<1>7. QED
  BY <1>5, <1>6

LEMMA UnacknowledgedAt ==
    ASSUME Cursor(tx)
    PROVE  /\ Cursor(Unacknowledged(tx))
           /\ Unacknowledged(tx).k = tx.k /\ Unacknowledged(tx).i = tx.i
<1>1. CASE IsLong(Current) /\ tx.long = {}
  <2> DEFINE late == {p \in UNION {{k} \X (0..(Frags[ai_tx[k]] - 1)) : k \in DOMAIN ai_tx} :
                        /\ IsLong(ai_tx[p[1]])
                        /\ \/ p[1] > tx.first[1]
                           \/ p[1] = tx.first[1] /\ p[2] >= tx.first[2]}
  <2>1. Unacknowledged(tx) = [tx EXCEPT !.long = late]
    BY <1>1, Zenon DEF Unacknowledged
  <2> HIDE DEF late
  <2>2. QED
    BY <2>1, Zenon DEF Cursor
<1>2. CASE ~(IsLong(Current) /\ tx.long = {})
  <2>1. Unacknowledged(tx) = [tx EXCEPT !.long = {}, !.acks = Append(tx.acks, <<Current, tx.i>>)]
    BY <1>2, Zenon DEF Unacknowledged
  <2>2. QED
    BY <2>1, Zenon DEF Cursor
<1>3. QED
  BY <1>1, <1>2

\* The acknowledgement or its absence changes nothing that Outbox sees.
LEMMA WrAwaitedBox ==
    ASSUME BoxInv, OneUser', NEW t \in Threads, WrAwaited(t)
    PROVE  BoxInv' /\ BoxStep /\ Stays
<1> DEFINE u == IF ~aw.got /\ use_ack_cache THEN Unacknowledged(tx) ELSE tx
           r == [u EXCEPT !.rx = @ \o aw.rx]
<1>1. /\ UNCHANGED <<ai_tx, aibus_cache, sent>>
      /\ pc[t] = "wrWait" /\ pc' = [pc EXCEPT ![t] = "wrSend"]
  BY DEF WrAwaited, lists, history
<1>2. tx' = Step(r)
  BY Zenon DEF WrAwaited
<1>3. Writing("wrWait") /\ tx.k \in 1..Len(ai_tx) /\ Cursor(tx)
  BY <1>1 DEF Writing, BoxInv, Queued, Pointed, Cursor
<1>4. Cursor(u) /\ u.k = tx.k /\ u.i = tx.i
  <2>1. CASE ~aw.got /\ use_ack_cache
    BY <1>3, <2>1, UnacknowledgedAt
  <2>2. CASE ~(~aw.got /\ use_ack_cache)
    BY <1>3, <2>2
  <2>3. QED
    BY <2>1, <2>2
<1> HIDE DEF u
<1>5. Cursor(r) /\ r.k = tx.k /\ r.i = tx.i
  BY <1>4, SameSpot
<1> HIDE DEF r
<1>6. Cursor(tx') /\ tx'.k = NextK(tx.k, tx.i, Current) /\ tx'.i = NextI(tx.i, Current)
  BY <1>2, <1>5, StepIsAdvance, AdvanceAt
<1>7. Position.k = NextK(tx.k, tx.i, Current) /\ Position.i = NextI(tx.i, Current)
  BY <1>3, StepIsAdvance, AdvanceAt DEF Position, Writing
<1>8. Writing("wrSend")' /\ ~Writing("wrWait")'
  <2>1. \A q \in Threads : q # t => pc[q] # "wrWait"
    BY <1>1 DEF BoxInv, OneUser, OneReader, Locked, Threads
  <2>2. QED
    BY <1>1, <2>1 DEF Writing, BoxInv, OneUser, Placed
<1>9. Position' = tx'
  BY <1>8 DEF Position, Writing
<1>10. Pointed'
  BY <1>1, <1>6, <1>7, <1>8, PositionAt DEF Pointed, Cursor
<1>11. BoxInv'
  BY <1>1, <1>10 DEF BoxInv, Queued
<1>12. Position'.k = Position.k /\ Position'.i = Position.i
  BY <1>6, <1>7, <1>9
<1>13. Waiting' = Waiting /\ Sending' = Sending /\ sent' = sent
  BY <1>1, <1>12 DEF Waiting, Sending
<1>14. Stays
  BY <1>1, <1>12 DEF Stays, BoxInv, Queued
<1>15. QED
  BY <1>11, <1>13, <1>14 DEF BoxStep, Box!vars

\* The list has been written: it is empty, as Outbox sees it already.
LEMMA WrEndBox ==
    ASSUME BoxInv, OneUser', NEW t \in Threads, WrEnd(t)
    PROVE  BoxInv' /\ BoxStep /\ Ends
<1>1. /\ UNCHANGED <<aibus_cache, sent>> /\ ai_tx' = << >> /\ tx' = NoTx
      /\ pc[t] = "wrSend" /\ pc' = [pc EXCEPT ![t] = AfterProcess(t)] /\ tx.k > Len(ai_tx)
  BY DEF WrEnd, history
<1>2. ~Writing("wrWait") /\ Position = tx
  BY <1>1 DEF Writing, Position, BoxInv, OneUser, OneReader, Locked, Threads
<1>3. ~Writing("wrSend")' /\ ~Writing("wrWait")'
  <2>1. \A q \in Threads : q # t => pc[q] \notin {"wrWait", "wrSend"}
    BY <1>1 DEF BoxInv, OneUser, OneReader, Locked, Threads
  <2>2. QED
    BY <1>1, <2>1 DEF Writing, BoxInv, OneUser, Placed, AfterProcess
<1>4. tx'.k = 1 /\ tx'.i = 0 /\ Cursor(tx)' /\ Position' = tx'
  BY <1>1, <1>3, NoTxAt DEF Cursor, Position, Writing
<1>5. BoxInv'
  BY <1>1, <1>3, <1>4 DEF BoxInv, Queued, Pointed
<1>6. tx.i = 0 /\ tx.k \in Nat /\ Len(ai_tx) \in Nat
  BY <1>1 DEF BoxInv, Queued, Pointed, Cursor
<1>7. Waiting = ToSet(aibus_cache) /\ Sending = << >>
  BY <1>1, <1>2, <1>6 DEF Waiting, Sending
<1>8. Waiting' = ToSet(aibus_cache) /\ Sending' = << >>
  BY <1>1, <1>4 DEF Waiting, Sending
<1>9. recent_tx' = FoldLeft(CacheTx, recent_tx, FlattenSeq([k \in DOMAIN ai_tx |-> Split(ai_tx[k])]))
  BY Zenon DEF WrEnd
<1>10. Ends
  BY <1>1, <1>2, <1>4, <1>9, Zenon DEF Ends
<1>11. QED
  BY <1>1, <1>5, <1>7, <1>8, <1>10 DEF BoxStep, Box!vars

LEMMA OneMore ==
    ASSUME NEW n \in Nat, NEW s, NEW u, NEW m,
           \A k \in 1..n : u[k] = s[k], u[n + 1] = m
    PROVE  {u[k] : k \in 1..(n + 1)} = {s[k] : k \in 1..n} \union {m}
<1>1. \A k \in 1..(n + 1) : k \in 1..n \/ k = n + 1
  OBVIOUS
<1>2. n + 1 \in 1..(n + 1) /\ \A k \in 1..n : k \in 1..(n + 1)
  OBVIOUS
<1>3. ASSUME NEW x \in {u[k] : k \in 1..(n + 1)} PROVE x \in {s[k] : k \in 1..n} \union {m}
  BY <1>1
<1>4. ASSUME NEW x \in {s[k] : k \in 1..n} \union {m} PROVE x \in {u[k] : k \in 1..(n + 1)}
  BY <1>2
<1>5. QED
  BY <1>3, <1>4

\* A message that is written waits, in whichever list it is.
LEMMA SubmitBox ==
    ASSUME BoxInv, OneUser', NEW m \in Fresh, m \in Out, WriteMessage(m), UNCHANGED <<sent, tx>>,
           \A t \in Threads : \A l \in {"wrSend", "wrWait"} : pc'[t] = l <=> pc[t] = l
    PROVE  BoxInv' /\ BoxStep /\ Stays
<1>1. /\ \A k \in 1..Len(ai_tx) : ai_tx[k] # m
      /\ \A k \in 1..Len(aibus_cache) : aibus_cache[k] # m
      /\ \A k \in DOMAIN sent : sent[k] # m
  BY DEF Fresh, ToSet, BoxInv, Queued
<1>2. m \notin Waiting /\ (Sending = << >> \/ Sending[1] # m)
  <2>1. m \notin ToSet(aibus_cache)
    BY <1>1 DEF ToSet, BoxInv, Queued
  <2>2. m \notin Waiting
    BY <1>1, <2>1, PositionAt DEF Waiting, BoxInv, Queued
  <2>3. Position.i # 0 => Position.k \in 1..Len(ai_tx)
    BY PositionAt DEF BoxInv, Queued
  <2>4. QED
    BY <1>1, <2>2, <2>3 DEF Sending
<1>3. Writing("wrSend")' = Writing("wrSend") /\ Writing("wrWait")' = Writing("wrWait")
  BY DEF Writing
<1>4. CASE aibus = "none"
  <2>1. ai_tx' = Append(ai_tx, m) /\ aibus_cache' = aibus_cache
    BY <1>4 DEF WriteMessage
  <2>2. ~Writing("wrSend") /\ ~Writing("wrWait")
    BY <1>4 DEF Writing, BoxInv, OneUser, OneReader, Locked, Threads
  <2>3. tx.k = 1 /\ tx.i = 0 /\ Position.k = 1 /\ Position.i = 0
    BY <2>2 DEF BoxInv, Pointed, Position, Writing
  <2>4. Position'.k = 1 /\ Position'.i = 0
    BY <1>3, <2>2, <2>3 DEF Position, Writing
  <2>5. /\ Len(ai_tx') = Len(ai_tx) + 1 /\ Len(ai_tx) \in Nat /\ ai_tx' \in Seq(Out)
        /\ ai_tx'[Len(ai_tx) + 1] = m /\ \A k \in 1..Len(ai_tx) : ai_tx'[k] = ai_tx[k]
    BY <2>1 DEF BoxInv, Queued
  <2>6. Waiting' = Waiting \union {m}
    <3>1. Waiting = ToSet(aibus_cache) \union {ai_tx[k] : k \in 1..Len(ai_tx)}
      BY <2>3 DEF Waiting
    <3>2. Waiting' = ToSet(aibus_cache) \union {ai_tx'[k] : k \in 1..Len(ai_tx')}
      BY <2>1, <2>4 DEF Waiting
    <3>3. {ai_tx'[k] : k \in 1..(Len(ai_tx) + 1)} = {ai_tx[k] : k \in 1..Len(ai_tx)} \union {m}
      BY <2>5, OneMore
    <3>4. QED
      BY <2>5, <3>1, <3>2, <3>3
  <2>7. Sending' = Sending
    BY <2>3, <2>4 DEF Sending
  <2>8. Queued'
    <3>1. \A j, k \in 1..Len(ai_tx') : ai_tx'[j] = ai_tx'[k] => j = k
      BY <1>1, <2>5 DEF BoxInv, Queued
    <3>2. \A j \in 1..Len(ai_tx'), k \in 1..Len(aibus_cache) : ai_tx'[j] # aibus_cache[k]
      BY <1>1, <2>5 DEF BoxInv, Queued
    <3>3. QED
      BY <2>1, <2>5, <3>1, <3>2 DEF BoxInv, Queued
  <2>9. Pointed'
    <3>1. 1 <= Len(ai_tx') /\ 1 \in 1..Len(ai_tx') /\ ai_tx'[1] \in Out
      BY <2>5
    <3>2. 0 < Frags[ai_tx'[1]]
      BY <3>1, OutAssumption
    <3>3. QED
      BY <1>3, <2>2, <2>3, <3>1, <3>2 DEF BoxInv, Pointed, Cursor
  <2>10. Box!Submit(m)
    BY <1>1, <1>2, <2>6, <2>7 DEF Box!Submit
  <2>11. Stays
    BY <2>3, <2>4, <2>5 DEF Stays
  <2>12. QED
    BY <2>8, <2>9, <2>10, <2>11 DEF BoxInv, BoxStep, Box!Next
<1>5. CASE aibus # "none"
  <2>1. ai_tx' = ai_tx /\ aibus_cache' = Append(aibus_cache, m)
    BY <1>5 DEF WriteMessage
  <2>2. Position' = Position
    BY <1>3, <2>1 DEF Position, Writing, Step, Current
  <2>3. /\ Len(aibus_cache') = Len(aibus_cache) + 1 /\ Len(aibus_cache) \in Nat /\ aibus_cache' \in Seq(Out)
        /\ aibus_cache'[Len(aibus_cache) + 1] = m
        /\ \A k \in 1..Len(aibus_cache) : aibus_cache'[k] = aibus_cache[k]
    BY <2>1 DEF BoxInv, Queued
  <2>4. ToSet(aibus_cache') = ToSet(aibus_cache) \union {m}
    <3>1. /\ ToSet(aibus_cache') = {aibus_cache'[k] : k \in 1..Len(aibus_cache')}
          /\ ToSet(aibus_cache) = {aibus_cache[k] : k \in 1..Len(aibus_cache)}
      BY <2>3 DEF ToSet, BoxInv, Queued
    <3>2. {aibus_cache'[k] : k \in 1..(Len(aibus_cache) + 1)} =
              {aibus_cache[k] : k \in 1..Len(aibus_cache)} \union {m}
      BY <2>3, OneMore
    <3>3. QED
      BY <2>3, <3>1, <3>2
  <2>5. Waiting' = Waiting \union {m} /\ Sending' = Sending
    <3>1. Waiting' = ToSet(aibus_cache') \union
              {ai_tx[x] : x \in (IF Position.i = 0 THEN Position.k ELSE Position.k + 1)..Len(ai_tx)}
      BY <2>1, <2>2 DEF Waiting
    <3>2. QED
      BY <2>1, <2>2, <2>4, <3>1 DEF Waiting, Sending
  <2>6. Queued'
    <3>1. \A j, k \in 1..Len(aibus_cache') : aibus_cache'[j] = aibus_cache'[k] => j = k
      BY <1>1, <2>3 DEF BoxInv, Queued
    <3>2. \A j \in 1..Len(ai_tx), k \in 1..Len(aibus_cache') : ai_tx[j] # aibus_cache'[k]
      BY <1>1, <2>3 DEF BoxInv, Queued
    <3>3. QED
      BY <2>1, <2>3, <3>1, <3>2 DEF BoxInv, Queued
  <2>7. Pointed'
    BY <1>3, <2>1 DEF BoxInv, Pointed
  <2>8. Box!Submit(m)
    BY <1>1, <1>2, <2>5 DEF Box!Submit
  <2>9. Stays
    BY <2>1, <2>2 DEF Stays, BoxInv, Queued
  <2>10. QED
    BY <2>6, <2>7, <2>8, <2>9 DEF BoxInv, BoxStep, Box!Next
<1>6. QED
  BY <1>4, <1>5

\* The two lists become one.
LEMMA DrainBox == ASSUME BoxInv, OneUser', Drain PROVE BoxInv' /\ BoxStep /\ Stays
<1>1. UNCHANGED <<sent, tx>> /\ pc["main"] = "ctx" /\ pc' = [pc EXCEPT !["main"] = "handle"]
  BY DEF Drain, DrainTo, locals, history
<1>2. \A t \in Threads : \A l \in {"wrSend", "wrWait"} : pc'[t] = l <=> pc[t] = l
  BY <1>1 DEF BoxInv, OneUser, Placed, Threads
<1>3. CASE aibus = "none"
  <2>1. ai_tx' = ai_tx \o aibus_cache /\ aibus_cache' = << >>
    BY <1>3 DEF Drain, DrainTo
  <2>2. ~Writing("wrSend") /\ ~Writing("wrWait") /\ ~Writing("wrSend")' /\ ~Writing("wrWait")'
    BY <1>2, <1>3 DEF Writing, BoxInv, OneUser, OneReader, Locked, Threads
  <2>3. tx.k = 1 /\ tx.i = 0 /\ Position = tx /\ Position' = tx
    BY <1>1, <2>2 DEF BoxInv, Pointed, Position, Writing
  <2>4. /\ ai_tx' \in Seq(Out) /\ Len(ai_tx') = Len(ai_tx) + Len(aibus_cache)
        /\ Len(ai_tx) \in Nat /\ Len(aibus_cache) \in Nat
        /\ \A k \in 1..Len(ai_tx) : ai_tx'[k] = ai_tx[k]
        /\ \A k \in 1..Len(aibus_cache) : ai_tx'[Len(ai_tx) + k] = aibus_cache[k]
    BY <2>1 DEF BoxInv, Queued
  <2>5. \A k \in 1..Len(ai_tx') : k \in 1..Len(ai_tx) \/
            \E j \in 1..Len(aibus_cache) : k = Len(ai_tx) + j
    <3>1. ASSUME NEW k \in 1..Len(ai_tx'), k \notin 1..Len(ai_tx)
          PROVE  k - Len(ai_tx) \in 1..Len(aibus_cache) /\ k = Len(ai_tx) + (k - Len(ai_tx))
      BY <2>4, <3>1
    <3>2. QED
      BY <3>1
  <2>6. Waiting' = Waiting
    <3>1. Waiting = ToSet(aibus_cache) \union {ai_tx[k] : k \in 1..Len(ai_tx)}
      BY <2>3 DEF Waiting
    <3>2. Waiting' = ToSet(<< >>) \union {ai_tx'[k] : k \in 1..Len(ai_tx')}
      BY <2>1, <2>3 DEF Waiting
    <3>3. ToSet(aibus_cache) = {aibus_cache[k] : k \in 1..Len(aibus_cache)} /\ ToSet(<< >>) = {}
      BY DEF ToSet, BoxInv, Queued
    <3>4. ASSUME NEW x \in {ai_tx'[k] : k \in 1..Len(ai_tx')} PROVE x \in Waiting
      <4>1. PICK k \in 1..Len(ai_tx') : x = ai_tx'[k]
        OBVIOUS
      <4>2. CASE k \in 1..Len(ai_tx)
        BY <2>4, <3>1, <4>1, <4>2
      <4>3. CASE \E j \in 1..Len(aibus_cache) : k = Len(ai_tx) + j
        BY <2>4, <3>1, <3>3, <4>1, <4>3
      <4>4. QED
        BY <2>5, <4>2, <4>3
    <3>5. ASSUME NEW x \in Waiting PROVE x \in {ai_tx'[k] : k \in 1..Len(ai_tx')}
      <4>1. \A k \in 1..Len(ai_tx) : k \in 1..Len(ai_tx')
        BY <2>4
      <4>2. \A k \in 1..Len(aibus_cache) : Len(ai_tx) + k \in 1..Len(ai_tx')
        BY <2>4
      <4>3. QED
        BY <2>4, <3>1, <3>3, <3>5, <4>1, <4>2
    <3>6. QED
      BY <3>2, <3>3, <3>4, <3>5
  <2>7. Sending' = Sending
    BY <2>3 DEF Sending
  <2>8. Queued'
    <3>1. ASSUME NEW j \in 1..Len(ai_tx'), NEW k \in 1..Len(ai_tx'), ai_tx'[j] = ai_tx'[k]
          PROVE  j = k
      <4>1. CASE j \in 1..Len(ai_tx) /\ k \in 1..Len(ai_tx)
        BY <2>4, <3>1, <4>1 DEF BoxInv, Queued
      <4>2. CASE j \notin 1..Len(ai_tx) /\ k \notin 1..Len(ai_tx)
        BY <2>4, <2>5, <3>1, <4>2 DEF BoxInv, Queued
      <4>3. CASE j \in 1..Len(ai_tx) /\ k \notin 1..Len(ai_tx)
        BY <2>4, <2>5, <3>1, <4>3 DEF BoxInv, Queued
      <4>4. CASE j \notin 1..Len(ai_tx) /\ k \in 1..Len(ai_tx)
        BY <2>4, <2>5, <3>1, <4>4 DEF BoxInv, Queued
      <4>5. QED
        BY <4>1, <4>2, <4>3, <4>4
    <3>2. QED
      BY <2>1, <2>4, <3>1 DEF Queued
  <2>9. Pointed'
    <3>1. 1 <= Len(ai_tx') => 0 < Frags[ai_tx'[1]]
      <4>1. 1 <= Len(ai_tx') => 1 \in 1..Len(ai_tx') /\ ai_tx'[1] \in Out
        BY <2>4
      <4>2. QED
        BY <4>1, OutAssumption
    <3>2. QED
      BY <1>1, <2>2, <2>3, <3>1 DEF BoxInv, Pointed, Cursor
  <2>10. Stays
    BY <1>1, <2>3, <2>4 DEF Stays
  <2>11. QED
    BY <1>1, <2>6, <2>7, <2>8, <2>9, <2>10 DEF BoxInv, BoxStep, Box!vars
<1>4. CASE aibus # "none"
  <2>1. UNCHANGED <<ai_tx, aibus_cache>>
    BY <1>4 DEF Drain, DrainTo, lists
  <2>2. QED
    BY <1>1, <1>2, <2>1, ElsewhereStutters DEF Elsewhere
<1>5. QED
  BY <1>3, <1>4

LEMMA WritesBox ==
    ASSUME BoxInv, OneUser', Write \/ CreateMenu \/ ClearMenu
    PROVE  BoxInv' /\ BoxStep /\ Stays
<1>1. UNCHANGED <<sent, tx>>
  BY DEF Write, CreateMenu, ClearMenu, locals, history
<1>2. \A t \in Threads : \A l \in {"wrSend", "wrWait"} : pc'[t] = l <=> pc[t] = l
  BY DEF Write, CreateMenu, ClearMenu, BoxInv, OneUser, Placed, Threads
<1>3. PICK m \in Fresh : WriteMessage(m)
  BY Zenon DEF Write, CreateMenu, ClearMenu
<1>4. m \in Out
  BY DEF Fresh
<1>5. QED
  BY <1>1, <1>2, <1>3, <1>4, SubmitBox

\* The other steps.
LEMMA OthersElsewhere ==
    ASSUME BoxInv,
           \/ \E t \in Threads : RdLock(t) \/ RdRead(t) \/ AwRead(t) \/ AwRetry(t)
           \/ CkScan \/ CkSend \/ CkAgain \/ CkAwaited \/ TakeClient \/ EndLoop
           \/ Activate \/ PhoneChanged \/ SetAckCache \/ Handle
           \/ MenuProcess \/ MenuLook \/ Quit \/ JoinThread
           \/ Environment \/ Ended \/ UNCHANGED vars
    PROVE  Elsewhere
<1> USE DEF Elsewhere, BoxInv, OneUser, Placed, Threads, lists, locals, history
<1>1. ASSUME NEW t \in Threads, RdLock(t) \/ RdRead(t) \/ AwRead(t) \/ AwRetry(t)
      PROVE  Elsewhere
  BY <1>1 DEF RdLock, RdRead, AwRead, AwRetry
<1>2. CASE CkScan \/ CkSend \/ CkAgain \/ TakeClient \/ EndLoop
  BY <1>2 DEF CkScan, CkSend, CkAgain, CkReturn, TakeClient, EndLoop
<1>3. CASE CkAwaited
  <2>1. UNCHANGED <<ai_tx, aibus_cache, sent, tx>> /\ pc["socket"] = "ckWait"
    BY <1>3 DEF CkAwaited
  <2>2. pc' = [pc EXCEPT !["socket"] = "ckSend"] \/ pc' = [pc EXCEPT !["socket"] = "idle"]
    BY <1>3 DEF CkAwaited, CkReturn
  <2>3. QED
    BY <2>1, <2>2
<1>4. CASE Activate \/ PhoneChanged \/ SetAckCache \/ Handle \/ MenuProcess \/ Quit \/ JoinThread
  BY <1>4 DEF Activate, PhoneChanged, SetAckCache, Handle, MenuProcess, Quit, JoinThread
<1>5. CASE MenuLook
  <2>1. UNCHANGED <<ai_tx, aibus_cache, sent, tx>> /\ pc["main"] = "look"
    BY <1>5 DEF MenuLook
  <2>2. pc' = [pc EXCEPT !["main"] = "handle"]
    BY <1>5 DEF MenuLook
  <2>3. QED
    BY <2>1, <2>2
<1>6. CASE Environment \/ Ended \/ UNCHANGED vars
  BY <1>6 DEF Environment, Arrive, Acknowledge, Ended, vars
<1>7. QED
  BY <1>1, <1>2, <1>3, <1>4, <1>5, <1>6

\* What a step does to what has been written.
LEMMA NextPlace ==
    ASSUME BoxInv, OneUser', [Next]_vars
    PROVE  /\ BoxInv' /\ BoxStep
           /\ \/ \E t \in Threads : WrSend(t) /\ OneFrame
              \/ \E t \in Threads : WrEnd(t) /\ Ends
              \/ Stays /\ recent_tx' = recent_tx
<1>1. ASSUME NEW t \in Threads, WrSend(t) PROVE BoxInv' /\ BoxStep /\ WrSend(t) /\ OneFrame
  BY <1>1, WrSendBox
<1>2. ASSUME NEW t \in Threads, WrEnd(t) PROVE BoxInv' /\ BoxStep /\ WrEnd(t) /\ Ends
  BY <1>2, WrEndBox
<1>3. CASE \E t \in Threads : WrLock(t) \/ WrAwaited(t)
  <2>1. recent_tx' = recent_tx
    BY <1>3 DEF WrLock, WrAwaited, caches
  <2>2. QED
    BY <1>3, <2>1, WrLockBox, WrAwaitedBox
<1>4. CASE Write \/ CreateMenu \/ ClearMenu \/ Drain
  <2>1. recent_tx' = recent_tx
    BY <1>4 DEF Write, CreateMenu, ClearMenu, Drain, DrainTo, caches
  <2>2. QED
    BY <1>4, <2>1, WritesBox, DrainBox
<1>5. CASE \/ \E t \in Threads : RdLock(t) \/ RdRead(t) \/ AwRead(t) \/ AwRetry(t)
           \/ CkScan \/ CkSend \/ CkAgain \/ CkAwaited \/ TakeClient \/ EndLoop
           \/ Activate \/ PhoneChanged \/ SetAckCache \/ Handle
           \/ MenuProcess \/ MenuLook \/ Quit \/ JoinThread
           \/ Environment \/ Ended \/ UNCHANGED vars
  <2>1. recent_tx' = recent_tx
    <3> USE DEF caches
    <3>1. CASE \E t \in Threads : RdLock(t) \/ RdRead(t) \/ AwRead(t) \/ AwRetry(t)
      BY <3>1 DEF RdLock, RdRead, AwRead, AwRetry
    <3>2. CASE CkScan \/ CkSend \/ CkAgain \/ CkAwaited \/ TakeClient \/ EndLoop
      BY <3>2 DEF CkScan, CkSend, CkAgain, CkAwaited, TakeClient, EndLoop
    <3>3. CASE Activate \/ PhoneChanged \/ SetAckCache \/ Handle \/ MenuProcess \/ MenuLook
               \/ Quit \/ JoinThread
      BY <3>3 DEF Activate, PhoneChanged, SetAckCache, Handle, MenuProcess, MenuLook, Quit, JoinThread
    <3>4. CASE Environment \/ Ended \/ UNCHANGED vars
      BY <3>4 DEF Environment, Arrive, Acknowledge, Ended, vars
    <3>5. QED
      BY <1>5, <3>1, <3>2, <3>3, <3>4
  <2>2. QED
    BY <1>5, <2>1, OthersElsewhere, ElsewhereStutters
<1>6. QED
  BY <1>1, <1>2, <1>3, <1>4, <1>5 DEF Next, SocketThread, MainThread, Process, Threads

LEMMA NextBox == BoxInv /\ [Next]_vars => BoxInv' /\ BoxStep
<1> SUFFICES ASSUME BoxInv, [Next]_vars PROVE BoxInv' /\ BoxStep
  OBVIOUS
<1>1. OneUser'
  BY NextOneUser DEF BoxInv
<1>2. QED
  BY <1>1, NextPlace

LEMMA InitBox == Init => BoxInv /\ Box!Init
<1> SUFFICES ASSUME Init PROVE BoxInv /\ Box!Init
  OBVIOUS
<1>1. ~Writing("wrSend") /\ ~Writing("wrWait")
  BY DEF Init, Writing, Threads
<1>2. Queued /\ Pointed
  BY <1>1, NoTxAt DEF Init, Queued, Pointed, Cursor
<1>3. Position.k = 1 /\ Position.i = 0
  BY <1>1, NoTxAt DEF Init, Position, Writing
<1>4. Waiting = {} /\ Sending = << >>
  BY <1>3 DEF Init, Waiting, Sending, ToSet
<1>5. QED
  BY <1>2, <1>4, InitOneUser DEF Init, BoxInv, Box!Init

\* Whatever the two threads, the server and the devices do, each message AMirror
\* submits goes out once, and the fragments of a split message in order with no
\* other message in between: write_stream implements Outbox.
THEOREM SendsLikeOutbox == Spec => ImplementsOutbox
<1>1. BoxInv /\ [Next]_vars => BoxInv' /\ [Box!Next]_(Box!vars)
  BY NextBox DEF BoxStep
<1>2. QED
  BY <1>1, InitBox, PTL DEF Spec, ImplementsOutbox, Box!Spec

-----------------------------------------------------------------------------
(***************************************************************************)
(* The lists.  The principles of induction first.                          *)
(***************************************************************************)

LEMMA Induct ==
    ASSUME NEW S, 0 \in S, \A n \in Nat : n \in S => n + 1 \in S
    PROVE  \A n \in Nat : n \in S
<1> DEFINE Less == {p \in Nat \X Nat : p[1] < p[2]}
           Left == Nat \ S
<1>1. IsWellFoundedOn(Less, Nat)
  BY NatLessThanWellFounded, Zenon DEF OpToRel
<1>2. SUFFICES ASSUME Left # {} PROVE FALSE
  OBVIOUS
<1>3. \E x \in Left : \A y \in Left : ~(<<y, x>> \in Less)
  <2>1. Left \subseteq Nat
    OBVIOUS
  <2> HIDE DEF Less, Left
  <2>2. QED
    BY <1>1, <1>2, <2>1, WFMin
<1>4. PICK x \in Left : \A y \in Left : ~(<<y, x>> \in Less)
  BY <1>3
<1>5. x # 0 /\ x - 1 \in Nat
  OBVIOUS
<1>6. <<x - 1, x>> \in Less
  BY <1>5
<1>7. QED
  BY <1>4, <1>5, <1>6

\* The same up to a bound.
LEMMA InductTo ==
    ASSUME NEW n \in Nat, NEW S, 0 \in S, \A k \in 1..n : k - 1 \in S => k \in S
    PROVE  \A k \in 0..n : k \in S
<1> DEFINE T == {k \in Nat : k <= n => k \in S}
<1>1. 0 \in T
  OBVIOUS
<1>2. ASSUME NEW k \in Nat, k \in T PROVE k + 1 \in T
  <2>1. CASE k + 1 <= n
    <3>1. k <= n /\ k + 1 \in 1..n /\ (k + 1) - 1 = k
      BY <2>1
    <3>2. QED
      BY <1>2, <3>1
  <2>2. CASE ~(k + 1 <= n)
    BY <2>2
  <2>3. QED
    BY <2>1, <2>2
<1>3. \A k \in Nat : k \in T
  <2> HIDE DEF T
  <2>1. QED
    BY <1>1, <1>2, Induct
<1>4. QED
  BY <1>3

LEMMA LeastPosition ==
    ASSUME NEW n \in Nat, NEW D, D \subseteq 1..n, D # {}
    PROVE  \E x \in D : \A y \in D : x <= y
<1> DEFINE Less == {p \in Nat \X Nat : p[1] < p[2]}
<1>1. IsWellFoundedOn(Less, Nat)
  BY NatLessThanWellFounded, Zenon DEF OpToRel
<1>2. D \subseteq Nat
  OBVIOUS
<1>3. PICK x \in D : \A y \in D : ~(<<y, x>> \in Less)
  <2> HIDE DEF Less
  <2>1. QED
    BY <1>1, <1>2, WFMin
<1>4. ASSUME NEW y \in D PROVE x <= y
  <2>1. x \in Nat /\ y \in Nat /\ ~(y < x)
    BY <1>2, <1>3
  <2>2. QED
    BY <2>1
<1>5. QED
  BY <1>4

(***************************************************************************)
(* The loops, unrolled.                                                    *)
(***************************************************************************)

\* g holds what has been picked from the first k elements, for each k.
Picking(g, s, p, n) ==
    g = [k \in 0..n |->
            IF k = 0 THEN << >> ELSE IF k \in p THEN Append(g[k - 1], s[k]) ELSE g[k - 1]]

LEMMA PickingExists == ASSUME NEW s, NEW p, NEW n \in Nat PROVE \E g : Picking(g, s, p, n)
<1> DEFINE S == {m \in Nat : \E g : Picking(g, s, p, m)}
<1>1. 0 \in S
  <2> DEFINE g == [k \in 0..0 |-> << >>]
  <2>1. Picking(g, s, p, 0)
    BY DEF Picking
  <2>2. QED
    BY <2>1
<1>2. ASSUME NEW m \in Nat, m \in S PROVE m + 1 \in S
  <2>1. PICK g : Picking(g, s, p, m)
    BY <1>2
  <2> DEFINE h == [k \in 0..(m + 1) |-> IF k <= m THEN g[k]
                                        ELSE IF k \in p THEN Append(g[m], s[k]) ELSE g[m]]
  <2>2. ASSUME NEW k \in 0..(m + 1)
        PROVE  h[k] = IF k = 0 THEN << >> ELSE IF k \in p THEN Append(h[k - 1], s[k]) ELSE h[k - 1]
    <3>1. g = [j \in 0..m |->
                 IF j = 0 THEN << >> ELSE IF j \in p THEN Append(g[j - 1], s[j]) ELSE g[j - 1]]
      BY <2>1 DEF Picking
    <3>2. CASE k = 0
      BY <3>1, <3>2
    <3>3. CASE k # 0 /\ k <= m
      <4>1. k \in 0..m /\ k - 1 \in 0..m /\ k - 1 \in 0..(m + 1)
        BY <3>3
      <4>2. h[k] = g[k] /\ h[k - 1] = g[k - 1]
        BY <3>3, <4>1
      <4>3. QED
        BY <3>1, <3>3, <4>1, <4>2
    <3>4. CASE k = m + 1
      <4>1. m \in 0..(m + 1) /\ k - 1 = m /\ ~(k <= m) /\ k # 0 /\ h[m] = g[m]
        BY <3>4
      <4>2. QED
        BY <3>4, <4>1
    <3>5. QED
      BY <3>2, <3>3, <3>4
  <2>3. Picking(h, s, p, m + 1)
    BY <2>2 DEF Picking
  <2>4. m + 1 \in Nat
    OBVIOUS
  <2>5. QED
    BY <2>3, <2>4, Zenon
<1>3. \A m \in Nat : m \in S
  <2> HIDE DEF S
  <2>1. QED
    BY <1>1, <1>2, Induct
<1>4. QED
  BY <1>3

LEMMA PickedSteps ==
    ASSUME NEW s, Len(s) \in Nat, NEW p
    PROVE  \E g : /\ Picked(s, p) = g[Len(s)] /\ g[0] = << >>
                  /\ \A k \in 1..Len(s) :
                        g[k] = IF k \in p THEN Append(g[k - 1], s[k]) ELSE g[k - 1]
<1> DEFINE g == CHOOSE g : Picking(g, s, p, Len(s))
<1>1. Picking(g, s, p, Len(s))
  BY PickingExists
<1>2. Picked(s, p) = g[Len(s)]
  BY DEF Picked, Picking
<1>3. g = [k \in 0..Len(s) |->
             IF k = 0 THEN << >> ELSE IF k \in p THEN Append(g[k - 1], s[k]) ELSE g[k - 1]]
  BY <1>1 DEF Picking
<1> HIDE DEF g
<1>4. g[0] = << >>
  BY <1>3
<1>5. ASSUME NEW k \in 1..Len(s)
      PROVE  g[k] = IF k \in p THEN Append(g[k - 1], s[k]) ELSE g[k - 1]
  <2>1. k \in 0..Len(s) /\ k # 0
    OBVIOUS
  <2>2. QED
    BY <1>3, <2>1, Zenon
<1>6. QED
  BY <1>2, <1>4, <1>5, Zenon


LEMMA MaxIs == ASSUME NEW n \in Nat, NEW t, t \subseteq 1..n, n \in t PROVE Max(t) = n
<1>1. n \in t /\ \A y \in t : n >= y
  OBVIOUS
<1>2. Max(t) \in t /\ \A y \in t : Max(t) >= y
  BY <1>1, Zenon DEF Max
<1>3. Max(t) \in 1..n /\ Max(t) >= n
  BY <1>2, Zenon
<1>4. \A x \in 1..n : x >= n => x = n
  OBVIOUS
<1>5. QED
  BY <1>3, <1>4, Zenon

\* g holds what the fold of ReadFrame makes of each set of positions up to n.
Reading(g, r, s, n) ==
    g = [t \in SUBSET (1..n) |->
            IF t = {} THEN r ELSE ReadFrame(g[t \ {Max(t)}], s[Max(t)])]

LEMMA ReadingExists == ASSUME NEW r, NEW s, NEW n \in Nat PROVE \E g : Reading(g, r, s, n)
<1> DEFINE S == {m \in Nat : \E g : Reading(g, r, s, m)}
<1>1. 0 \in S
  <2> DEFINE g == [t \in SUBSET (1..0) |-> r]
  <2>1. \A t \in SUBSET (1..0) : t = {}
    OBVIOUS
  <2>2. Reading(g, r, s, 0)
    BY <2>1 DEF Reading
  <2>3. QED
    BY <2>2
<1>2. ASSUME NEW m \in Nat, m \in S PROVE m + 1 \in S
  <2>1. PICK g : Reading(g, r, s, m)
    BY <1>2
  <2> DEFINE h == [t \in SUBSET (1..(m + 1)) |->
                     IF m + 1 \in t THEN ReadFrame(g[t \ {m + 1}], s[m + 1]) ELSE g[t]]
  <2>2. m + 1 \in Nat
    OBVIOUS
  <2>3. ASSUME NEW t \in SUBSET (1..(m + 1))
        PROVE  h[t] = IF t = {} THEN r ELSE ReadFrame(h[t \ {Max(t)}], s[Max(t)])
    <3>1. g = [u \in SUBSET (1..m) |->
                 IF u = {} THEN r ELSE ReadFrame(g[u \ {Max(u)}], s[Max(u)])]
      BY <2>1 DEF Reading
    <3>2. CASE m + 1 \in t
      <4>1. Max(t) = m + 1 /\ t # {}
        <5>1. m + 1 \in Nat /\ t \subseteq 1..(m + 1)
          BY Zenon, <2>2
        <5>2. QED
          BY <3>2, <5>1, MaxIs, Zenon
      <4>2. t \ {m + 1} \in SUBSET (1..m) /\ t \ {m + 1} \in SUBSET (1..(m + 1))
        OBVIOUS
      <4>3. h[t \ {m + 1}] = g[t \ {m + 1}] /\ h[t] = ReadFrame(g[t \ {m + 1}], s[m + 1])
        BY <3>2, <4>2, Zenon
      <4>4. QED
        BY <4>1, <4>3, Zenon
    <3>3. CASE m + 1 \notin t
      <4>1. t \in SUBSET (1..m) /\ t \ {Max(t)} \in SUBSET (1..m) /\ t \ {Max(t)} \in SUBSET (1..(m + 1))
        <5>1. \A x \in 1..(m + 1) : x # m + 1 => x \in 1..m
          OBVIOUS
        <5>2. t \subseteq 1..m
          BY <3>3, <5>1, Zenon
        <5>3. QED
          BY <5>2, Zenon
      <4>2. h[t] = g[t] /\ h[t \ {Max(t)}] = g[t \ {Max(t)}]
        BY <3>3, <4>1, Zenon
      <4>3. QED
        BY <3>1, <4>1, <4>2, Zenon
    <3>4. QED
      BY <3>2, <3>3
  <2>4. Reading(h, r, s, m + 1)
    BY <2>3, Zenon DEF Reading
  <2>5. QED
    BY <2>4, <2>2, Zenon
<1>3. \A m \in Nat : m \in S
  <2> HIDE DEF S
  <2>1. QED
    BY <1>1, <1>2, Induct
<1>4. QED
  BY <1>3

\* read_stream deals with one frame after the other.
ReadOver(r, s) == FoldLeft(ReadFrame, r, s)

LEMMA ReadSteps ==
    ASSUME NEW r, NEW s, Len(s) \in Nat, DOMAIN s = 1..Len(s)
    PROVE  \E v : /\ ReadOver(r, s) = v[Len(s)] /\ v[0] = r
                  /\ \A k \in 1..Len(s) : v[k] = ReadFrame(v[k - 1], s[k])
<1> DEFINE n == Len(s)
           g == CHOOSE g : Reading(g, r, s, n)
           v == [k \in 0..n |-> g[1..k]]
<1>1. Reading(g, r, s, n)
  BY ReadingExists
<1>2. ReadOver(r, s) = g[1..n]
  BY Zenon DEF ReadOver, FoldLeft, MapThenFoldSet, Reading
<1>3. n \in Nat
  OBVIOUS
<1>4. g = [t \in SUBSET (1..n) |->
             IF t = {} THEN r ELSE ReadFrame(g[t \ {Max(t)}], s[Max(t)])]
  BY <1>1 DEF Reading
<1> HIDE DEF g, n
<1>5. v[n] = g[1..n]
  BY <1>3
<1>6. v[0] = r
  <2>1. 1..0 = {} /\ 0 \in 0..n
    BY <1>3
  <2>2. QED
    BY <1>4, <2>1
<1>7. ASSUME NEW k \in 1..n PROVE v[k] = ReadFrame(v[k - 1], s[k])
  <2>1. 1..k \in SUBSET (1..n) /\ 1..k # {} /\ k \in 1..k /\ k \in Nat
    <3>1. k \in Nat /\ k <= n /\ 1 <= k
      BY <1>3
    <3>2. 1..k \subseteq 1..n
      BY <1>3, <3>1
    <3>3. QED
      BY <3>1, <3>2
  <2>2. Max(1..k) = k
    BY <2>1, MaxIs
  <2>3. (1..k) \ {k} = 1..(k - 1) /\ k \in 0..n /\ k - 1 \in 0..n
    BY <1>3
  <2>4. v[k] = g[1..k] /\ v[k - 1] = g[1..(k - 1)]
    BY <2>3
  <2>5. g[1..k] = ReadFrame(g[(1..k) \ {Max(1..k)}], s[Max(1..k)])
    BY <1>4, <2>1, Zenon
  <2>6. QED
    BY <2>2, <2>3, <2>4, <2>5
<1> HIDE DEF v
<1>8. QED
  BY <1>2, <1>5, <1>6, <1>7, Zenon DEF n

\* g holds what the fold of CacheTx makes of each set of positions up to n.
Keeping(g, r, s, n) ==
    g = [t \in SUBSET (1..n) |->
            IF t = {} THEN r ELSE CacheTx(g[t \ {Max(t)}], s[Max(t)])]

LEMMA KeepingExists == ASSUME NEW r, NEW s, NEW n \in Nat PROVE \E g : Keeping(g, r, s, n)
<1> DEFINE S == {m \in Nat : \E g : Keeping(g, r, s, m)}
<1>1. 0 \in S
  <2> DEFINE g == [t \in SUBSET (1..0) |-> r]
  <2>1. \A t \in SUBSET (1..0) : t = {}
    OBVIOUS
  <2>2. Keeping(g, r, s, 0)
    BY <2>1 DEF Keeping
  <2>3. QED
    BY <2>2
<1>2. ASSUME NEW m \in Nat, m \in S PROVE m + 1 \in S
  <2>1. PICK g : Keeping(g, r, s, m)
    BY <1>2
  <2> DEFINE h == [t \in SUBSET (1..(m + 1)) |->
                     IF m + 1 \in t THEN CacheTx(g[t \ {m + 1}], s[m + 1]) ELSE g[t]]
  <2>2. m + 1 \in Nat
    OBVIOUS
  <2>3. ASSUME NEW t \in SUBSET (1..(m + 1))
        PROVE  h[t] = IF t = {} THEN r ELSE CacheTx(h[t \ {Max(t)}], s[Max(t)])
    <3>1. g = [u \in SUBSET (1..m) |->
                 IF u = {} THEN r ELSE CacheTx(g[u \ {Max(u)}], s[Max(u)])]
      BY <2>1 DEF Keeping
    <3>2. CASE m + 1 \in t
      <4>1. Max(t) = m + 1 /\ t # {}
        <5>1. m + 1 \in Nat /\ t \subseteq 1..(m + 1)
          BY Zenon, <2>2
        <5>2. QED
          BY <3>2, <5>1, MaxIs, Zenon
      <4>2. t \ {m + 1} \in SUBSET (1..m) /\ t \ {m + 1} \in SUBSET (1..(m + 1))
        OBVIOUS
      <4>3. h[t \ {m + 1}] = g[t \ {m + 1}] /\ h[t] = CacheTx(g[t \ {m + 1}], s[m + 1])
        BY <3>2, <4>2, Zenon
      <4>4. QED
        BY <4>1, <4>3, Zenon
    <3>3. CASE m + 1 \notin t
      <4>1. t \in SUBSET (1..m) /\ t \ {Max(t)} \in SUBSET (1..m) /\ t \ {Max(t)} \in SUBSET (1..(m + 1))
        <5>1. \A x \in 1..(m + 1) : x # m + 1 => x \in 1..m
          OBVIOUS
        <5>2. t \subseteq 1..m
          BY <3>3, <5>1, Zenon
        <5>3. QED
          BY <5>2, Zenon
      <4>2. h[t] = g[t] /\ h[t \ {Max(t)}] = g[t \ {Max(t)}]
        BY <3>3, <4>1, Zenon
      <4>3. QED
        BY <3>1, <4>1, <4>2, Zenon
    <3>4. QED
      BY <3>2, <3>3
  <2>4. Keeping(h, r, s, m + 1)
    BY <2>3, Zenon DEF Keeping
  <2>5. QED
    BY <2>4, <2>2, Zenon
<1>3. \A m \in Nat : m \in S
  <2> HIDE DEF S
  <2>1. QED
    BY <1>1, <1>2, Induct
<1>4. QED
  BY <1>3

\* write_stream keeps one frame after the other.
KeepOver(r, s) == FoldLeft(CacheTx, r, s)

LEMMA KeepSteps ==
    ASSUME NEW r, NEW s, Len(s) \in Nat, DOMAIN s = 1..Len(s)
    PROVE  \E v : /\ KeepOver(r, s) = v[Len(s)] /\ v[0] = r
                  /\ \A k \in 1..Len(s) : v[k] = CacheTx(v[k - 1], s[k])
<1> DEFINE n == Len(s)
           g == CHOOSE g : Keeping(g, r, s, n)
           v == [k \in 0..n |-> g[1..k]]
<1>1. Keeping(g, r, s, n)
  BY KeepingExists
<1>2. KeepOver(r, s) = g[1..n]
  BY Zenon DEF KeepOver, FoldLeft, MapThenFoldSet, Keeping
<1>3. n \in Nat
  OBVIOUS
<1>4. g = [t \in SUBSET (1..n) |->
             IF t = {} THEN r ELSE CacheTx(g[t \ {Max(t)}], s[Max(t)])]
  BY <1>1 DEF Keeping
<1> HIDE DEF g, n
<1>5. v[n] = g[1..n]
  BY <1>3
<1>6. v[0] = r
  <2>1. 1..0 = {} /\ 0 \in 0..n
    BY <1>3
  <2>2. QED
    BY <1>4, <2>1
<1>7. ASSUME NEW k \in 1..n PROVE v[k] = CacheTx(v[k - 1], s[k])
  <2>1. 1..k \in SUBSET (1..n) /\ 1..k # {} /\ k \in 1..k /\ k \in Nat
    <3>1. k \in Nat /\ k <= n /\ 1 <= k
      BY <1>3
    <3>2. 1..k \subseteq 1..n
      BY <1>3, <3>1
    <3>3. QED
      BY <3>1, <3>2
  <2>2. Max(1..k) = k
    BY <2>1, MaxIs
  <2>3. (1..k) \ {k} = 1..(k - 1) /\ k \in 0..n /\ k - 1 \in 0..n
    BY <1>3
  <2>4. v[k] = g[1..k] /\ v[k - 1] = g[1..(k - 1)]
    BY <2>3
  <2>5. g[1..k] = CacheTx(g[(1..k) \ {Max(1..k)}], s[Max(1..k)])
    BY <1>4, <2>1, Zenon
  <2>6. QED
    BY <2>2, <2>3, <2>4, <2>5
<1> HIDE DEF v
<1>8. QED
  BY <1>2, <1>5, <1>6, <1>7, Zenon DEF n


\* g holds the first k sequences joined, for each k.
Joining(g, ss, n) == g = [k \in 1..n |-> IF k = 1 THEN ss[k] ELSE g[k - 1] \o ss[k]]

LEMMA JoiningExists == ASSUME NEW ss, NEW n \in Nat PROVE \E g : Joining(g, ss, n)
<1> DEFINE S == {m \in Nat : \E g : Joining(g, ss, m)}
<1>1. 0 \in S
  <2> DEFINE g == [k \in 1..0 |-> ss[k]]
  <2>1. 1..0 = {}
    OBVIOUS
  <2>2. Joining(g, ss, 0)
    BY <2>1 DEF Joining
  <2>3. QED
    BY <2>2
<1>2. ASSUME NEW m \in Nat, m \in S PROVE m + 1 \in S
  <2>1. PICK g : Joining(g, ss, m)
    BY <1>2
  <2> DEFINE h == [k \in 1..(m + 1) |-> IF k <= m THEN g[k]
                                        ELSE IF k = 1 THEN ss[k] ELSE g[m] \o ss[k]]
  <2>2. ASSUME NEW k \in 1..(m + 1)
        PROVE  h[k] = IF k = 1 THEN ss[k] ELSE h[k - 1] \o ss[k]
    <3>1. g = [j \in 1..m |-> IF j = 1 THEN ss[j] ELSE g[j - 1] \o ss[j]]
      BY <2>1 DEF Joining
    <3>2. CASE k = 1
      BY <3>1, <3>2
    <3>3. CASE k # 1 /\ k <= m
      <4>1. k \in 1..m /\ k - 1 \in 1..m /\ k - 1 \in 1..(m + 1) /\ k - 1 <= m
        BY <3>3
      <4>2. h[k] = g[k] /\ h[k - 1] = g[k - 1]
        BY <3>3, <4>1
      <4>3. QED
        BY <3>1, <3>3, <4>1, <4>2
    <3>4. CASE k # 1 /\ k = m + 1
      <4>1. m \in 1..(m + 1) /\ k - 1 = m /\ ~(k <= m) /\ m <= m
        BY <3>4
      <4>2. h[m] = g[m] /\ h[k] = g[m] \o ss[k]
        BY <3>4, <4>1
      <4>3. QED
        BY <3>4, <4>1, <4>2
    <3>5. QED
      BY <3>2, <3>3, <3>4
  <2>3. Joining(h, ss, m + 1)
    BY <2>2, Zenon DEF Joining
  <2>4. m + 1 \in Nat
    OBVIOUS
  <2>5. QED
    BY <2>3, <2>4, Zenon
<1>3. \A m \in Nat : m \in S
  <2> HIDE DEF S
  <2>1. QED
    BY <1>1, <1>2, Induct
<1>4. QED
  BY <1>3

LEMMA FlattenSteps ==
    ASSUME NEW ss, Len(ss) \in Nat \ {0}
    PROVE  \E g : /\ FlattenSeq(ss) = g[Len(ss)] /\ g[1] = ss[1]
                  /\ \A k \in 2..Len(ss) : g[k] = g[k - 1] \o ss[k]
<1> DEFINE n == Len(ss)
           g == CHOOSE g : Joining(g, ss, n)
<1>1. Joining(g, ss, n)
  BY JoiningExists
<1>2. FlattenSeq(ss) = g[n]
  BY DEF FlattenSeq, Joining
<1>3. g = [k \in 1..n |-> IF k = 1 THEN ss[k] ELSE g[k - 1] \o ss[k]]
  BY <1>1 DEF Joining
<1>4. n \in Nat \ {0}
  OBVIOUS
<1> HIDE DEF g, n
<1>5. g[1] = ss[1]
  BY <1>3, <1>4
<1>6. ASSUME NEW k \in 2..n PROVE g[k] = g[k - 1] \o ss[k]
  <2>1. k \in 1..n /\ k # 1
    BY <1>4
  <2>2. QED
    BY <1>3, <2>1, Zenon
<1>7. QED
  BY <1>2, <1>5, <1>6, Zenon DEF n

LEMMA FlattenType ==
    ASSUME NEW S, NEW ss, Len(ss) \in Nat, Len(ss) = 0 => ss = << >>,
           \A k \in 1..Len(ss) : ss[k] \in Seq(S)
    PROVE  FlattenSeq(ss) \in Seq(S)
<1>1. CASE Len(ss) = 0
  BY <1>1 DEF FlattenSeq
<1>2. CASE Len(ss) # 0
  <2>1. PICK g : /\ FlattenSeq(ss) = g[Len(ss)] /\ g[1] = ss[1]
                 /\ \A k \in 2..Len(ss) : g[k] = g[k - 1] \o ss[k]
    BY <1>2, FlattenSteps
  <2> DEFINE n == Len(ss)
             T == {k \in 0..n : k >= 1 => g[k] \in Seq(S)}
  <2>2. 0 \in T
    OBVIOUS
  <2>3. ASSUME NEW k \in 1..n, k - 1 \in T PROVE k \in T
    <3>1. CASE k = 1
      BY <2>1, <3>1
    <3>2. CASE k # 1
      <4>1. k \in 2..n /\ k - 1 >= 1
        BY <3>2
      <4>2. g[k - 1] \in Seq(S) /\ ss[k] \in Seq(S) /\ g[k] = g[k - 1] \o ss[k]
        BY <2>1, <2>3, <4>1
      <4>3. g[k] \in Seq(S)
        BY <4>2
      <4>4. QED
        BY <4>3
    <3>3. QED
      BY <3>1, <3>2
  <2>4. \A k \in 0..n : k \in T
    <3>1. n \in Nat
      OBVIOUS
    <3> HIDE DEF T, n
    <3>2. QED
      BY <2>2, <2>3, <3>1, InductTo
  <2>5. n \in 0..n /\ n >= 1
    BY <1>2
  <2>6. QED
    BY <2>1, <2>4, <2>5
<1>3. QED
  BY <1>1, <1>2

\* What has been picked: elements of the sequence at the given positions, in their
\* order, all of them.
Copies(u, s, p, n) ==
    \E h \in [1..Len(u) -> 1..n] :
        /\ \A j \in 1..Len(u) : h[j] \in p /\ u[j] = s[h[j]]
        /\ \A j, k \in 1..Len(u) : h[j] = h[k] => j = k
        /\ \A j, k \in 1..Len(u) : j < k => h[j] < h[k]
        /\ \A x \in (1..n) \intersect p : \E j \in 1..Len(u) : h[j] = x

LEMMA PickedIs ==
    ASSUME NEW S, NEW s \in Seq(S), NEW p
    PROVE  Picked(s, p) \in Seq(S) /\ Copies(Picked(s, p), s, p, Len(s))
<1> DEFINE n == Len(s)
<1>1. n \in Nat /\ \A k \in 1..n : s[k] \in S
  OBVIOUS
<1>2. PICK g : /\ Picked(s, p) = g[n] /\ g[0] = << >>
               /\ \A k \in 1..n : g[k] = IF k \in p THEN Append(g[k - 1], s[k]) ELSE g[k - 1]
  BY <1>1, PickedSteps
<1> DEFINE T == {k \in 0..n : g[k] \in Seq(S) /\ Copies(g[k], s, p, k)}
<1>3. 0 \in T
  <2> DEFINE h == [j \in 1..0 |-> 1]
  <2>1. 1..0 = {} /\ Len(<< >>) = 0 /\ << >> \in Seq(S) /\ 0 \in 0..n
    BY <1>1
  <2>2. h \in [1..Len(<< >>) -> 1..0]
    BY <2>1
  <2>3. Copies(<< >>, s, p, 0)
    BY <2>1, <2>2, Zenon DEF Copies
  <2>4. QED
    BY <1>2, <2>1, <2>3
<1>4. ASSUME NEW k \in 1..n, k - 1 \in T PROVE k \in T
  <2> DEFINE u == g[k - 1]
             m == Len(u)
  <2>1. u \in Seq(S) /\ Copies(u, s, p, k - 1) /\ m \in Nat /\ k \in Nat /\ k \in 0..n /\ k \in 1..k
    BY <1>1, <1>4
  <2>2. PICK h \in [1..m -> 1..(k - 1)] :
            /\ \A j \in 1..m : h[j] \in p /\ u[j] = s[h[j]]
            /\ \A i, j \in 1..m : h[i] = h[j] => i = j
            /\ \A i, j \in 1..m : i < j => h[i] < h[j]
            /\ \A x \in (1..(k - 1)) \intersect p : \E j \in 1..m : h[j] = x
    BY <2>1, Zenon DEF Copies
  <2>3. \A j \in 1..m : h[j] \in 1..(k - 1) /\ h[j] \in 1..k /\ h[j] # k /\ h[j] < k /\ ~(m + 1 < j)
    BY <2>1, <2>2
  <2>4. \A x \in 1..k : x = k \/ x \in 1..(k - 1)
    BY <2>1
  <2>5. CASE k \notin p
    <3>1. g[k] = u
      BY <1>2, <2>5
    <3>2. h \in [1..m -> 1..k]
      BY <2>2, <2>3
    <3>3. \A x \in (1..k) \intersect p : \E j \in 1..m : h[j] = x
      BY <2>2, <2>4, <2>5
    <3> HIDE DEF u
    <3>4. Copies(u, s, p, k)
      BY <2>2, <3>2, <3>3, Zenon DEF Copies
    <3>5. QED
      BY <2>1, <3>1, <3>4
  <2>6. CASE k \in p
    <3> DEFINE w == Append(u, s[k])
               e == [j \in 1..(m + 1) |-> IF j = m + 1 THEN k ELSE h[j]]
    <3>1. /\ g[k] = w /\ w \in Seq(S) /\ Len(w) = m + 1 /\ w[m + 1] = s[k]
          /\ \A j \in 1..m : w[j] = u[j]
      <4>1. g[k] = w
        BY <1>2, <2>6, Zenon
      <4>2. s[k] \in S /\ u \in Seq(S)
        BY <1>1, <2>1
      <4> HIDE DEF u
      <4>3. w \in Seq(S) /\ Len(w) = m + 1 /\ w[m + 1] = s[k] /\ \A j \in 1..m : w[j] = u[j]
        BY <4>2
      <4>4. QED
        BY <4>1, <4>3
    <3>2. /\ \A j \in 1..(m + 1) : j = m + 1 \/ j \in 1..m
          /\ \A j \in 1..m : j # m + 1 /\ j \in 1..(m + 1)
          /\ m + 1 \in 1..(m + 1)
      BY <2>1
    <3>3. e[m + 1] = k /\ \A j \in 1..m : e[j] = h[j]
      BY <3>2
    <3>4. e \in [1..(m + 1) -> 1..k]
      BY <2>1, <2>3, <3>2
    <3> HIDE DEF e, w, u, m
    <3>5. \A j \in 1..(m + 1) : e[j] \in p /\ w[j] = s[e[j]]
      BY <2>2, <2>6, <3>1, <3>2, <3>3, Zenon
    <3>6. \A i, j \in 1..(m + 1) : e[i] = e[j] => i = j
      <4>1. ASSUME NEW i \in 1..(m + 1), NEW j \in 1..(m + 1), e[i] = e[j] PROVE i = j
        <5>1. CASE i \in 1..m /\ j \in 1..m
          BY <2>2, <3>3, <4>1, <5>1
        <5>2. CASE i = m + 1 /\ j \in 1..m
          BY <2>3, <3>3, <4>1, <5>2
        <5>3. CASE i \in 1..m /\ j = m + 1
          BY <2>3, <3>3, <4>1, <5>3
        <5>4. QED
          BY <3>2, <4>1, <5>1, <5>2, <5>3
      <4>2. QED
        BY <4>1
    <3>7. \A i, j \in 1..(m + 1) : i < j => e[i] < e[j]
      <4>1. SUFFICES ASSUME NEW i \in 1..(m + 1), NEW j \in 1..(m + 1), i < j PROVE e[i] < e[j]
        OBVIOUS
      <4>2. CASE i \in 1..m /\ j \in 1..m
        BY <2>2, <3>3, <4>1, <4>2
      <4>3. CASE i \in 1..m /\ j = m + 1
        BY <2>3, <3>3, <4>3
      <4>4. CASE i = m + 1
        BY <2>1, <4>1, <4>4
      <4>5. QED
        BY <3>2, <4>2, <4>3, <4>4
    <3>8. \A x \in (1..k) \intersect p : \E j \in 1..(m + 1) : e[j] = x
      <4>1. ASSUME NEW x \in (1..k) \intersect p PROVE \E j \in 1..(m + 1) : e[j] = x
        <5>1. CASE x = k
          BY <3>2, <3>3, <5>1
        <5>2. CASE x \in 1..(k - 1)
          <6>1. PICK j \in 1..m : h[j] = x
            BY <2>2, <5>2
          <6>2. QED
            BY <3>2, <3>3, <6>1, Zenon
        <5>3. QED
          BY <2>4, <5>1, <5>2
      <4>2. QED
        BY <4>1
    <3>9. Copies(w, s, p, k)
      <4> DEFINE l == Len(w)
      <4>1. l = m + 1
        BY <3>1
      <4> HIDE DEF l
      <4>2. /\ e \in [1..l -> 1..k] /\ \A j \in 1..l : e[j] \in p /\ w[j] = s[e[j]]
            /\ \A i, j \in 1..l : e[i] = e[j] => i = j
            /\ \A i, j \in 1..l : i < j => e[i] < e[j]
            /\ \A x \in (1..k) \intersect p : \E j \in 1..l : e[j] = x
        BY <3>4, <3>5, <3>6, <3>7, <3>8, <4>1
      <4>3. QED
        BY <4>2, Zenon DEF Copies, l
    <3>10. QED
      BY <2>1, <3>1, <3>9
  <2>7. QED
    BY <2>5, <2>6
<1>5. \A k \in 0..n : k \in T
  <2> HIDE DEF T, n
  <2>1. QED
    BY <1>1, <1>3, <1>4, InductTo
<1>6. n \in 0..n
  BY <1>1
<1>7. QED
  BY <1>2, <1>5, <1>6


(***************************************************************************)
(* The numbers of the messages AMirror acknowledges.                       *)
(***************************************************************************)

\* No acknowledged message is twice in s.
Once(s) == \A j, k \in DOMAIN s : Plain(s[j]) /\ s[j].no = s[k].no /\ Plain(s[k]) => j = k

LEMMA NoNumbers == Numbers(<< >>) = {} /\ Once(<< >>)
BY DEF Numbers, Once

LEMMA OneNumber ==
    ASSUME NEW f
    PROVE  Numbers(<<f>>) = (IF Plain(f) THEN {f.no} ELSE {}) /\ Once(<<f>>)
BY DEF Numbers, Once

LEMMA JoinedNumbers ==
    ASSUME NEW S, NEW s \in Seq(S), NEW t \in Seq(S)
    PROVE  /\ Numbers(s \o t) = Numbers(s) \union Numbers(t)
           /\ Once(s \o t) <=> Once(s) /\ Once(t) /\ Numbers(s) \intersect Numbers(t) = {}
<1> DEFINE u == s \o t
           m == Len(s)
           n == Len(t)
<1>1. /\ m \in Nat /\ n \in Nat /\ DOMAIN s = 1..m /\ DOMAIN t = 1..n /\ DOMAIN u = 1..(m + n)
      /\ \A k \in 1..m : u[k] = s[k]
      /\ \A k \in 1..n : u[m + k] = t[k]
  OBVIOUS
<1>2. /\ \A k \in 1..(m + n) : k \in 1..m \/ \E j \in 1..n : k = m + j
      /\ \A k \in 1..m : k \in 1..(m + n)
      /\ \A k \in 1..n : m + k \in 1..(m + n) /\ m + k \notin 1..m
      /\ \A j, k \in 1..n : m + j = m + k => j = k
  <2> HIDE DEF m, n
  <2>1. ASSUME NEW k \in 1..(m + n), k \notin 1..m PROVE k - m \in 1..n /\ k = m + (k - m)
    BY <1>1, <2>1
  <2>2. QED
    BY <1>1, <2>1
<1> HIDE DEF u, m, n
<1>3. Numbers(u) = Numbers(s) \union Numbers(t)
  <2>1. ASSUME NEW x \in Numbers(u) PROVE x \in Numbers(s) \union Numbers(t)
    <3>1. PICK k \in 1..(m + n) : Plain(u[k]) /\ x = u[k].no
      BY <1>1 DEF Numbers
    <3>2. CASE k \in 1..m
      BY <1>1, <3>1, <3>2 DEF Numbers
    <3>3. CASE \E j \in 1..n : k = m + j
      BY <1>1, <3>1, <3>3 DEF Numbers
    <3>4. QED
      BY <1>2, <3>2, <3>3
  <2>2. ASSUME NEW x \in Numbers(s) PROVE x \in Numbers(u)
    <3>1. PICK k \in 1..m : Plain(s[k]) /\ x = s[k].no
      BY <1>1, <2>2 DEF Numbers
    <3>2. QED
      BY <1>1, <1>2, <3>1 DEF Numbers
  <2>3. ASSUME NEW x \in Numbers(t) PROVE x \in Numbers(u)
    <3>1. PICK k \in 1..n : Plain(t[k]) /\ x = t[k].no
      BY <1>1, <2>3 DEF Numbers
    <3>2. QED
      BY <1>1, <1>2, <3>1 DEF Numbers
  <2>4. QED
    BY <2>1, <2>2, <2>3
<1>4. ASSUME Once(u) PROVE Once(s) /\ Once(t) /\ Numbers(s) \intersect Numbers(t) = {}
  <2>1. \A j, k \in 1..(m + n) : Plain(u[j]) /\ u[j].no = u[k].no /\ Plain(u[k]) => j = k
    BY <1>1, <1>4 DEF Once
  <2>2. Once(s)
    BY <1>1, <1>2, <2>1 DEF Once
  <2>3. Once(t)
    <3>1. ASSUME NEW j \in 1..n, NEW k \in 1..n, Plain(t[j]), t[j].no = t[k].no, Plain(t[k])
          PROVE  m + j = m + k
      BY <1>1, <1>2, <2>1, <3>1
    <3>2. QED
      BY <1>1, <1>2, <3>1 DEF Once
  <2>4. ASSUME NEW x \in Numbers(s), x \in Numbers(t) PROVE FALSE
    <3>1. PICK j \in 1..m : Plain(s[j]) /\ x = s[j].no
      BY <1>1, <2>4 DEF Numbers
    <3>2. PICK k \in 1..n : Plain(t[k]) /\ x = t[k].no
      BY <1>1, <2>4 DEF Numbers
    <3>3. j \in 1..(m + n) /\ u[j] = s[j] /\ m + k \in 1..(m + n) /\ u[m + k] = t[k]
      BY <1>1, <1>2
    <3>4. j = m + k
      BY <2>1, <3>1, <3>2, <3>3, Zenon
    <3>5. QED
      BY <1>2, <3>4
  <2>5. QED
    BY <2>2, <2>3, <2>4
<1>5. ASSUME Once(s), Once(t), Numbers(s) \intersect Numbers(t) = {} PROVE Once(u)
  <2>1. SUFFICES ASSUME NEW j \in 1..(m + n), NEW k \in 1..(m + n),
                        Plain(u[j]), u[j].no = u[k].no, Plain(u[k])
                 PROVE  j = k
    BY <1>1 DEF Once
  <2>2. ASSUME NEW x \in 1..(m + n), Plain(u[x])
        PROVE  \/ x \in 1..m /\ u[x] = s[x] /\ u[x].no \in Numbers(s)
               \/ \E y \in 1..n : x = m + y /\ u[x] = t[y] /\ u[x].no \in Numbers(t)
    <3>1. CASE x \in 1..m
      BY <1>1, <2>2, <3>1 DEF Numbers
    <3>2. CASE x \notin 1..m
      <4>1. PICK y \in 1..n : x = m + y
        BY <1>2, <3>2
      <4>2. u[x] = t[y]
        BY <1>1, <4>1
      <4>3. u[x].no \in Numbers(t)
        BY <1>1, <2>2, <4>2 DEF Numbers
      <4>4. QED
        BY <4>1, <4>2, <4>3
    <3>3. QED
      BY <3>1, <3>2
  <2>3. CASE j \in 1..m /\ k \in 1..m
    BY <1>1, <1>5, <2>1, <2>3 DEF Once
  <2>4. CASE j \notin 1..m /\ k \notin 1..m
    <3>1. PICK y \in 1..n : j = m + y /\ u[j] = t[y]
      BY <2>1, <2>2, <2>4
    <3>2. PICK z \in 1..n : k = m + z /\ u[k] = t[z]
      BY <2>1, <2>2, <2>4
    <3>3. y = z
      BY <1>1, <1>5, <2>1, <3>1, <3>2 DEF Once
    <3>4. QED
      BY <3>1, <3>2, <3>3
  <2>5. CASE ~(j \in 1..m <=> k \in 1..m)
    BY <1>2, <1>5, <2>1, <2>2, <2>5
  <2>6. QED
    BY <2>3, <2>4, <2>5
<1>6. QED
  BY <1>3, <1>4, <1>5 DEF u

LEMMA AddedNumber ==
    ASSUME NEW S, NEW s \in Seq(S), NEW f \in S
    PROVE  /\ Numbers(Append(s, f)) = Numbers(s) \union Numbers(<<f>>)
           /\ Once(Append(s, f)) <=> Once(s) /\ Numbers(s) \intersect Numbers(<<f>>) = {}
<1> DEFINE t == <<f>>
<1>1. Append(s, f) = s \o t /\ t \in Seq(S)
  OBVIOUS
<1>2. Once(t)
  BY OneNumber
<1> HIDE DEF t
<1>3. /\ Numbers(s \o t) = Numbers(s) \union Numbers(t)
      /\ Once(s \o t) <=> Once(s) /\ Once(t) /\ Numbers(s) \intersect Numbers(t) = {}
  BY <1>1, JoinedNumbers
<1>4. /\ Numbers(Append(s, f)) = Numbers(s) \union Numbers(t)
      /\ Once(Append(s, f)) <=> Once(s) /\ Numbers(s) \intersect Numbers(t) = {}
  BY <1>1, <1>2, <1>3, Zenon
<1>5. QED
  BY <1>4 DEF t

\* Taking one element out takes its number out.
LEMMA RemovedNumber ==
    ASSUME NEW S, NEW s \in Seq(S), NEW j \in 1..Len(s), Once(s)
    PROVE  /\ RemoveAt(s, j) \in Seq(S) /\ Once(RemoveAt(s, j))
           /\ Numbers(s) = Numbers(RemoveAt(s, j)) \union Numbers(<<s[j]>>)
           /\ Numbers(RemoveAt(s, j)) \intersect Numbers(<<s[j]>>) = {}
<1> DEFINE a == SubSeq(s, 1, j - 1)
           b == SubSeq(s, j + 1, Len(s))
           x == <<s[j]>>
<1>1. a \in Seq(S) /\ b \in Seq(S) /\ x \in Seq(S) /\ a \o x \in Seq(S) /\ a \o b \in Seq(S)
  OBVIOUS
<1>2. s = (a \o x) \o b
  <2> DEFINE v == (a \o x) \o b
  <2>1. Len(a) = j - 1 /\ Len(x) = 1 /\ Len(b) = Len(s) - j /\ Len(a \o x) = j
    OBVIOUS
  <2>2. /\ \A k \in 1..(j - 1) : a[k] = s[k]
        /\ x[1] = s[j]
        /\ \A k \in 1..(Len(s) - j) : b[k] = s[j + k]
    OBVIOUS
  <2>3. v \in Seq(S) /\ Len(v) = Len(s)
    <3> DEFINE c == a \o x
    <3>1. c \in Seq(S) /\ Len(c) = j /\ v = c \o b
      BY <1>1, <2>1
    <3>2. j \in Nat /\ Len(s) \in Nat /\ j + (Len(s) - j) = Len(s)
      OBVIOUS
    <3> HIDE DEF a, b, x, c
    <3>3. c \o b \in Seq(S) /\ Len(c \o b) = Len(c) + Len(b)
      BY <1>1, <3>1
    <3>4. QED
      BY <2>1, <3>1, <3>2, <3>3
  <2>4. ASSUME NEW k \in 1..Len(s) PROVE v[k] = s[k]
    <3>0. k <= j - 1 \/ k = j \/ k > j
      OBVIOUS
    <3> HIDE DEF a, b, x
    <3>1. CASE k <= j - 1
      BY <1>1, <2>1, <2>2, <3>1
    <3>2. CASE k = j
      BY <1>1, <2>1, <2>2, <3>2
    <3>3. CASE k > j
      <4>1. v[k] = b[k - j] /\ k - j \in 1..(Len(s) - j) /\ j + (k - j) = k
        BY <1>1, <2>1, <3>3
      <4>2. QED
        BY <2>2, <4>1
    <3>4. QED
      BY <3>0, <3>1, <3>2, <3>3
  <2> HIDE DEF v
  <2>5. s = v
    BY <2>3, <2>4
  <2>6. QED
    BY <2>5 DEF v
<1>3. RemoveAt(s, j) = a \o b
  BY DEF RemoveAt
<1> HIDE DEF a, b, x
<1>4. /\ Numbers(s) = (Numbers(a) \union Numbers(x)) \union Numbers(b)
      /\ Once(a) /\ Once(b) /\ Numbers(a) \intersect Numbers(x) = {}
      /\ (Numbers(a) \union Numbers(x)) \intersect Numbers(b) = {}
  <2>1. /\ Numbers(a \o x) = Numbers(a) \union Numbers(x)
        /\ Once(a \o x) <=> Once(a) /\ Once(x) /\ Numbers(a) \intersect Numbers(x) = {}
    BY <1>1, JoinedNumbers
  <2> DEFINE c == a \o x
  <2>2. c \in Seq(S) /\ s = c \o b
    BY <1>1, <1>2
  <2> HIDE DEF c
  <2>3. /\ Numbers(s) = Numbers(c) \union Numbers(b)
        /\ Once(s) <=> Once(c) /\ Once(b) /\ Numbers(c) \intersect Numbers(b) = {}
    BY <1>1, <2>2, JoinedNumbers
  <2>4. QED
    BY <2>1, <2>3 DEF c
<1>5. /\ Numbers(a \o b) = Numbers(a) \union Numbers(b) /\ Once(a \o b)
  <2>1. Numbers(a) \intersect Numbers(b) = {}
    BY <1>4
  <2>2. QED
    BY <1>1, <1>4, <2>1, JoinedNumbers
<1>6. QED
  BY <1>1, <1>3, <1>4, <1>5 DEF x

\* await_acknowledgment keeps all those it acknowledges.
LEMMA KeptNumbers ==
    ASSUME NEW S, NEW s \in Seq(S)
    PROVE  /\ Those(s, Plain) \in Seq(S) /\ Numbers(Those(s, Plain)) = Numbers(s)
           /\ Once(s) => Once(Those(s, Plain))
<1> DEFINE p == {k \in DOMAIN s : Plain(s[k])}
           u == Picked(s, p)
<1>1. Those(s, Plain) = u
  BY DEF Those
<1>2. u \in Seq(S) /\ Copies(u, s, p, Len(s))
  BY PickedIs
<1>3. DOMAIN s = 1..Len(s) /\ DOMAIN u = 1..Len(u)
  BY <1>2
<1> HIDE DEF u
<1>4. PICK h \in [1..Len(u) -> 1..Len(s)] :
            /\ \A j \in 1..Len(u) : h[j] \in p /\ u[j] = s[h[j]]
            /\ \A j, k \in 1..Len(u) : h[j] = h[k] => j = k
            /\ \A x \in (1..Len(s)) \intersect p : \E j \in 1..Len(u) : h[j] = x
  BY <1>2, Zenon DEF Copies
<1>5. Numbers(s) = {s[k].no : k \in p}
  BY DEF Numbers
<1>6. \A j \in DOMAIN u : h[j] \in DOMAIN s /\ Plain(s[h[j]]) /\ u[j] = s[h[j]]
  BY <1>3, <1>4
<1>7. Numbers(u) = {s[k].no : k \in p}
  <2>1. ASSUME NEW x \in Numbers(u) PROVE x \in {s[k].no : k \in p}
    BY <1>6 DEF Numbers
  <2>2. ASSUME NEW k \in p PROVE s[k].no \in Numbers(u)
    <3>1. PICK j \in 1..Len(u) : h[j] = k
      BY <1>3, <1>4
    <3>2. QED
      BY <1>3, <1>6, <3>1 DEF Numbers
  <2>3. QED
    BY <2>1, <2>2
<1>8. Once(s) => Once(u)
  BY <1>3, <1>4, <1>6 DEF Once
<1>9. QED
  BY <1>1, <1>2, <1>5, <1>7, <1>8


(***************************************************************************)
(* The types, except for what is kept for resending.                       *)
(***************************************************************************)
Typed ==
    /\ client \in Threads \union {"none"} /\ aibus \in Threads \union {"none"}
    /\ context \in Threads \union {"none"}
    /\ run \in BOOLEAN /\ process_active \in BOOLEAN /\ use_ack_cache \in BOOLEAN
    /\ ai_rx \in Seq(Arrived) /\ batch \in Seq(Arrived) /\ multi_cache \in Seq(Arrived) /\ wire \in Seq(Arrived)
    /\ "rx" \in DOMAIN tx /\ tx.rx \in Seq(Arrived)
    /\ "rx" \in DOMAIN aw /\ aw.rx \in Seq(Arrived)
    /\ menu \in Seq(Out) /\ sent \in Seq(Out)
    /\ connected \subseteq Flagged
    /\ multi_expected_len \in Int /\ ci \in Nat
    /\ due \in [Devices -> 0..MaxDue]
    /\ arrivals \in 0..Len(Arrivals) /\ changes \in 0..MaxChanges
    /\ acked \subseteq Nat /\ settled \subseteq Nat

(***************************************************************************)
(* Where the acknowledged messages are.                                    *)
(*                                                                         *)
(* Each place has a time when it is empty: that is when it is set anew.    *)
(***************************************************************************)
Emptied ==
    /\ ~Writing("wrWait") /\ ~Writing("ckWait") => aw.rx = << >>
    /\ ~Writing("wrSend") /\ ~Writing("wrWait") => tx.rx = << >>
    /\ pc["main"] \in {"boot", "ctx", "setAck"} => batch = << >>

\* The numbers in the four lists, in none of them twice, ...
OnceEach == Once(aw.rx) /\ Once(tx.rx) /\ Once(ai_rx) /\ Once(batch)

\* ... nor in two of them.
Apart(a, b, c, d, e) ==
    /\ a \intersect (b \union c \union d \union e) = {}
    /\ b \intersect (c \union d \union e) = {}
    /\ c \intersect (d \union e) = {}
    /\ d \intersect e = {}

Accounted ==
    /\ acked = settled \union Numbers(aw.rx) \union Numbers(tx.rx) \union Numbers(ai_rx) \union Numbers(batch)
    /\ Apart(settled, Numbers(aw.rx), Numbers(tx.rx), Numbers(ai_rx), Numbers(batch))

\* What is on its way has a number of its own.
Numbered ==
    /\ Once(wire) /\ Numbers(wire) \intersect acked = {}
    /\ Numbers(wire) \subseteq 1..arrivals /\ acked \subseteq 1..arrivals

AckInv == BoxInv /\ Typed /\ Emptied /\ OnePair /\ OnceEach /\ Accounted /\ Numbered

(***************************************************************************)
(* What reading a frame does.                                              *)
(***************************************************************************)
ReadState == [rx : Seq(Arrived), cache : Seq(Arrived), len : Int,
              due : [Devices -> 0..MaxDue], acked : SUBSET Nat, settled : SUBSET Nat]

LEMMA ReceivedType ==
    ASSUME NEW counts \in [Devices -> 0..MaxDue], NEW d
    PROVE  Received(counts, d) \in [Devices -> 0..MaxDue]
<1>1. MaxDue \in Nat
  BY BoundAssumption
<1>2. CASE d = All \/ counts[d] = MaxDue
  BY <1>2 DEF Received
<1>3. CASE ~(d = All \/ counts[d] = MaxDue)
  <2>1. Received(counts, d) = [counts EXCEPT ![d] = counts[d] + 1]
    BY <1>3, Zenon DEF Received
  <2>2. d \in Devices => counts[d] \in 0..MaxDue /\ counts[d] # MaxDue
    BY <1>3
  <2>3. d \in Devices => counts[d] + 1 \in 0..MaxDue
    BY <1>1, <2>2
  <2>4. QED
    BY <2>1, <2>3
<1>4. QED
  BY <1>2, <1>3

LEMMA JoinType ==
    ASSUME NEW s \in Seq(Arrived), NEW f \in Arrived, NEW n \in Nat
    PROVE  Join(s, f, n) \in Arrived /\ ~Plain(Join(s, f, n))
<1> DEFINE P(m) == {k \in DOMAIN s : s[k].n = n /\ s[k].i = m - 1 /\ s[k].from = f.from /\ s[k].to = f.to}
           ss == [m \in 1..n |-> Picked(s, P(m))]
           J == FlattenSeq(ss)
           body == [k \in DOMAIN J |-> J[k].no]
<1>1. Join(s, f, n) = [Frame(f, f.no) EXCEPT !.kind = "joined", !.body = body]
  BY Zenon DEF Join, Those
<1>2. \A m \in 1..n : Picked(s, P(m)) \in Seq(Arrived)
  <2> HIDE DEF P
  <2>1. QED
    BY PickedIs
<1>3. J \in Seq(Arrived)
  <2>1. Len(ss) = n /\ (n = 0 => ss = << >>) /\ \A k \in 1..n : ss[k] = Picked(s, P(k))
    OBVIOUS
  <2> HIDE DEF ss, P
  <2>2. QED
    BY <1>2, <2>1, FlattenType
<1>4. body \in Seq(Nat)
  <2>1. \A g \in Arrived : g.no \in Nat
    BY DEF Arrived
  <2>2. \A k \in 1..Len(J) : J[k] \in Arrived
    <3> HIDE DEF J
    <3>1. QED
      BY <1>3
  <2> HIDE DEF J
  <2>3. QED
    BY <1>3, <2>1, <2>2
<1> HIDE DEF body
<1>5. Frame(f, f.no) \in Arrived
  BY DEF Frame, Arrived
<1>6. Join(s, f, n) \in Arrived /\ Join(s, f, n).kind = "joined"
  BY <1>1, <1>4, <1>5 DEF Arrived
<1>7. QED
  BY <1>6 DEF Plain


Paired(s) == \A j, k \in DOMAIN s : s[j].from = s[k].from /\ s[j].to = s[k].to

\* Whatever the frame is: it is acknowledged if it is a message to AMirror, which is then
\* answered or kept; and a fragment is kept only with those of the same pair.
LEMMA ReadOne ==
    ASSUME NEW r \in ReadState, NEW f \in Arrived, Paired(r.cache)
    PROVE  /\ ReadFrame(r, f) \in ReadState /\ Paired(ReadFrame(r, f).cache)
           /\ ReadFrame(r, f).acked = r.acked \union Numbers(<<f>>)
           /\ \/ /\ ReadFrame(r, f).settled = r.settled \union Numbers(<<f>>)
                 /\ ReadFrame(r, f).rx = r.rx
              \/ /\ ReadFrame(r, f).settled = r.settled
                 /\ \E x \in Arrived : /\ ReadFrame(r, f).rx = Append(r.rx, x)
                                       /\ Numbers(<<x>>) = Numbers(<<f>>)
<1> DEFINE q == ReadFrame(r, f)
           want == IF r.len <= 0 THEN f.n ELSE r.len
           skip == f.to \notin {Me, All} \/ OtherPair(r.cache, f)
           last == Those(recent_tx, LAMBDA g : Dest[g[1]] = f.from /\ f.to = Me)
           seen == IF ~skip /\ Plain(f) THEN [r EXCEPT !.acked = r.acked \union {f.no}] ELSE r
           cache == Append(r.cache, f)
<1>1. q = IF skip THEN r
          ELSE IF f.kind = "resend"
            THEN [seen EXCEPT !.settled = seen.settled \union Numbers(<<f>>),
                              !.due = IF last = << >> THEN seen.due ELSE Received(seen.due, f.from)]
          ELSE IF f.kind # "frag" THEN [seen EXCEPT !.rx = Append(seen.rx, f)]
          ELSE IF Len(cache) < want THEN [seen EXCEPT !.cache = cache, !.len = want]
          ELSE [seen EXCEPT !.rx = Append(seen.rx, Join(cache, f, want)), !.cache = << >>, !.len = -1]
  BY Zenon DEF ReadFrame
<1>2. /\ f.no \in Nat /\ f.n \in Nat /\ f.from \in Devices
      /\ r.rx \in Seq(Arrived) /\ r.cache \in Seq(Arrived) /\ r.len \in Int
      /\ r.due \in [Devices -> 0..MaxDue] /\ r.acked \in SUBSET Nat /\ r.settled \in SUBSET Nat
  BY DEF Arrived, ReadState
<1>3. Numbers(<<f>>) = (IF Plain(f) THEN {f.no} ELSE {}) /\ Numbers(<<f>>) \in SUBSET Nat
  BY <1>2, OneNumber
<1>4. /\ seen \in ReadState /\ seen.rx = r.rx /\ seen.cache = r.cache /\ seen.len = r.len
      /\ seen.due = r.due /\ seen.settled = r.settled
      /\ ~skip => seen.acked = r.acked \union Numbers(<<f>>)
  <2>1. CASE ~skip /\ Plain(f)
    <3>1. seen = [r EXCEPT !.acked = r.acked \union {f.no}] /\ r.acked \union {f.no} \in SUBSET Nat
      BY <1>2, <2>1
    <3> HIDE DEF seen, skip
    <3>2. QED
      BY <1>2, <1>3, <2>1, <3>1 DEF ReadState
  <2>2. CASE ~(~skip /\ Plain(f))
    <3>1. seen = r
      BY <2>2
    <3> HIDE DEF seen, skip
    <3>2. QED
      BY <1>2, <1>3, <2>2, <3>1
  <2>3. QED
    BY <2>1, <2>2
<1>5. want \in Int /\ want \in Nat
  BY <1>2
<1>6. skip => Numbers(<<f>>) = {}
  BY <1>3 DEF Plain, OtherPair
<1>7. f.kind = "frag" => Numbers(<<f>>) = {}
  BY <1>3 DEF Plain
<1>8. cache \in Seq(Arrived) /\ Join(cache, f, want) \in Arrived /\ ~Plain(Join(cache, f, want))
  <2>1. cache \in Seq(Arrived)
    BY <1>2
  <2> HIDE DEF cache, want
  <2>2. QED
    BY <1>5, <2>1, JoinType
<1>9. ~skip /\ f.kind = "frag" => Paired(cache)
  BY <1>2 DEF Paired, OtherPair
<1>10. Paired(<< >>)
  BY DEF Paired
<1>11. ASSUME NEW x \in Arrived PROVE Append(r.rx, x) \in Seq(Arrived)
  BY <1>2
<1>12. Numbers(<<Join(cache, f, want)>>) = {}
  BY <1>8, OneNumber
<1>13. << >> \in Seq(Arrived) /\ -1 \in Int
  OBVIOUS
<1> DEFINE jf == Join(cache, f, want)
<1> HIDE DEF cache, want, seen, last, jf, q
<1>14. CASE skip
  <2>1. q = r
    BY <1>1, <1>14, Zenon
  <2>2. q.settled = r.settled \union Numbers(<<f>>) /\ q.acked = r.acked \union Numbers(<<f>>)
    BY <1>6, <1>14, <2>1
  <2>3. QED
    BY <2>1, <2>2 DEF q
<1>15. CASE ~skip /\ f.kind = "resend"
  <2> DEFINE d == IF last = << >> THEN seen.due ELSE Received(seen.due, f.from)
             a == seen.settled \union Numbers(<<f>>)
  <2>1. q = [seen EXCEPT !.settled = a, !.due = d]
    BY <1>1, <1>15, Zenon
  <2>2. d \in [Devices -> 0..MaxDue] /\ a \in SUBSET Nat
    BY <1>2, <1>3, <1>4, ReceivedType
  <2>3. a = r.settled \union Numbers(<<f>>)
    BY <1>4
  <2> HIDE DEF d, a
  <2>4. /\ q \in ReadState /\ q.cache = r.cache /\ q.acked = r.acked \union Numbers(<<f>>)
        /\ q.settled = a /\ q.rx = r.rx
    BY <1>4, <1>15, <2>1, <2>2 DEF ReadState
  <2>5. QED
    BY <2>3, <2>4 DEF q
<1>16. CASE ~skip /\ f.kind # "resend" /\ f.kind # "frag"
  <2> DEFINE e == Append(seen.rx, f)
  <2>1. q = [seen EXCEPT !.rx = e]
    BY <1>1, <1>16, Zenon
  <2>2. e \in Seq(Arrived) /\ e = Append(r.rx, f)
    BY <1>4, <1>11
  <2> HIDE DEF e
  <2>3. /\ q \in ReadState /\ q.cache = r.cache /\ q.acked = r.acked \union Numbers(<<f>>)
        /\ q.settled = r.settled /\ q.rx = e
    BY <1>4, <1>16, <2>1, <2>2 DEF ReadState
  <2>4. QED
    BY <2>2, <2>3 DEF q
<1>17. CASE ~skip /\ f.kind = "frag" /\ Len(cache) < want
  <2>1. q = [seen EXCEPT !.cache = cache, !.len = want]
    BY <1>1, <1>17, Zenon
  <2>2. /\ q \in ReadState /\ q.cache = cache /\ q.acked = r.acked \union Numbers(<<f>>)
        /\ q.settled = r.settled /\ q.rx = r.rx
    BY <1>4, <1>5, <1>8, <1>17, <2>1 DEF ReadState
  <2>3. q.settled = r.settled \union Numbers(<<f>>)
    BY <1>7, <1>17, <2>2
  <2>4. QED
    BY <1>9, <1>17, <2>2, <2>3 DEF q
<1>18. CASE ~skip /\ f.kind = "frag" /\ ~(Len(cache) < want)
  <2> DEFINE e == Append(seen.rx, jf)
  <2>1. q = [seen EXCEPT !.rx = e, !.cache = << >>, !.len = -1]
    BY <1>1, <1>18, Zenon DEF jf
  <2>2. jf \in Arrived /\ Numbers(<<jf>>) = Numbers(<<f>>)
    BY <1>7, <1>8, <1>12, <1>18 DEF jf
  <2>3. e \in Seq(Arrived) /\ e = Append(r.rx, jf)
    BY <1>4, <1>11, <2>2
  <2> HIDE DEF e
  <2>4. /\ q \in ReadState /\ q.cache = << >> /\ q.acked = r.acked \union Numbers(<<f>>)
        /\ q.settled = r.settled /\ q.rx = e
    BY <1>4, <1>13, <1>18, <2>1, <2>3 DEF ReadState
  <2>5. QED
    BY <1>10, <2>2, <2>3, <2>4 DEF q
<1>19. QED
  BY <1>14, <1>15, <1>16, <1>17, <1>18


\* Each number that is acknowledged is settled, or in rx, or elsewhere, and in one of
\* them only.
Balanced(r, elsewhere) ==
    /\ r.acked = r.settled \union Numbers(r.rx) \union elsewhere
    /\ r.settled \intersect (Numbers(r.rx) \union elsewhere) = {}
    /\ Numbers(r.rx) \intersect elsewhere = {}
    /\ Once(r.rx)

LEMMA ReadBalanced ==
    ASSUME NEW r \in ReadState, NEW f \in Arrived, Paired(r.cache), NEW elsewhere,
           Balanced(r, elsewhere), Numbers(<<f>>) \intersect r.acked = {}
    PROVE  Balanced(ReadFrame(r, f), elsewhere)
<1> DEFINE q == ReadFrame(r, f)
           N == Numbers(<<f>>)
<1>1. /\ q.acked = r.acked \union N
      /\ \/ q.settled = r.settled \union N /\ q.rx = r.rx
         \/ /\ q.settled = r.settled
            /\ \E x \in Arrived : q.rx = Append(r.rx, x) /\ Numbers(<<x>>) = N
  BY ReadOne
<1>2. r.rx \in Seq(Arrived)
  BY DEF ReadState
<1> HIDE DEF q, N
<1>3. N \intersect r.acked = {}
  BY DEF N
<1>4. CASE q.settled = r.settled \union N /\ q.rx = r.rx
  <2>1. Balanced(q, elsewhere)
    BY <1>1, <1>3, <1>4 DEF Balanced
  <2>2. QED
    BY <2>1 DEF q
<1>5. ASSUME q.settled = r.settled, NEW x \in Arrived, q.rx = Append(r.rx, x), Numbers(<<x>>) = N
      PROVE  Balanced(ReadFrame(r, f), elsewhere)
  <2> DEFINE M == Numbers(r.rx)
             L == Numbers(q.rx)
  <2>1. L = M \union N
    BY <1>2, <1>5, AddedNumber
  <2>2. M \intersect N = {}
    BY <1>3 DEF Balanced
  <2>3. Once(q.rx)
    BY <1>2, <1>5, <2>2, AddedNumber DEF Balanced
  <2>4. /\ r.acked = r.settled \union M \union elsewhere /\ r.settled \intersect (M \union elsewhere) = {}
        /\ M \intersect elsewhere = {}
    BY DEF Balanced
  <2> HIDE DEF M, L
  <2>5. /\ q.acked = q.settled \union L \union elsewhere
        /\ q.settled \intersect (L \union elsewhere) = {} /\ L \intersect elsewhere = {}
    BY <1>1, <1>3, <1>5, <2>1, <2>4
  <2>6. Balanced(q, elsewhere)
    BY <2>3, <2>5 DEF Balanced, L
  <2>7. QED
    BY <2>6 DEF q
<1>6. QED
  BY <1>1, <1>4, <1>5

LEMMA ReadAll ==
    ASSUME NEW r \in ReadState, Paired(r.cache), NEW elsewhere, Balanced(r, elsewhere),
           NEW s \in Seq(Arrived), Once(s), Numbers(s) \intersect r.acked = {}
    PROVE  /\ ReadOver(r, s) \in ReadState
           /\ Paired(ReadOver(r, s).cache)
           /\ Balanced(ReadOver(r, s), elsewhere)
           /\ ReadOver(r, s).acked = r.acked \union Numbers(s)
<1> DEFINE n == Len(s)
<1>1. n \in Nat /\ DOMAIN s = 1..n /\ \A k \in 1..n : s[k] \in Arrived
  OBVIOUS
<1>2. PICK v : /\ ReadOver(r, s) = v[n] /\ v[0] = r
               /\ \A k \in 1..n : v[k] = ReadFrame(v[k - 1], s[k])
  BY <1>1, ReadSteps
<1> DEFINE upTo(k) == {s[j].no : j \in {j \in 1..k : Plain(s[j])}}
           T == {k \in 0..n : /\ v[k] \in ReadState /\ Paired(v[k].cache)
                              /\ Balanced(v[k], elsewhere) /\ v[k].acked = r.acked \union upTo(k)}
<1>3. 0 \in T
  <2>1. upTo(0) = {} /\ 0 \in 0..n
    BY <1>1
  <2>2. QED
    BY <1>2, <2>1
<1>4. ASSUME NEW k \in 1..n, k - 1 \in T PROVE k \in T
  <2> DEFINE N == Numbers(<<s[k]>>)
  <2>1. /\ v[k - 1] \in ReadState /\ Paired(v[k - 1].cache) /\ Balanced(v[k - 1], elsewhere)
        /\ v[k - 1].acked = r.acked \union upTo(k - 1)
    BY <1>4
  <2>2. N = (IF Plain(s[k]) THEN {s[k].no} ELSE {}) /\ s[k] \in Arrived
    BY <1>1, OneNumber
  <2>3. N \subseteq Numbers(s)
    BY <1>1, <2>2 DEF Numbers
  <2>4. N \intersect upTo(k - 1) = {}
    <3>1. \A j \in 1..(k - 1) : j \in 1..n /\ j # k
      BY <1>1
    <3>2. QED
      BY <1>1, <2>2, <3>1 DEF Once
  <2>5. N \intersect v[k - 1].acked = {}
    BY <2>1, <2>3, <2>4
  <2>6. v[k] = ReadFrame(v[k - 1], s[k])
    BY <1>2
  <2>7. upTo(k) = upTo(k - 1) \union N
    <3>1. /\ \A j \in 1..k : j = k \/ j \in 1..(k - 1)
          /\ \A j \in 1..(k - 1) : j \in 1..k
          /\ k \in 1..k
      BY <1>1
    <3>2. QED
      BY <2>2, <3>1
  <2> HIDE DEF N, upTo
  <2>8. Balanced(v[k], elsewhere)
    BY <2>1, <2>2, <2>5, <2>6, ReadBalanced DEF N
  <2>9. v[k] \in ReadState /\ Paired(v[k].cache) /\ v[k].acked = v[k - 1].acked \union N
    BY <2>1, <2>2, <2>6, ReadOne DEF N
  <2>10. k \in 0..n
    BY <1>1
  <2>11. QED
    BY <2>1, <2>7, <2>8, <2>9, <2>10
<1>5. \A k \in 0..n : k \in T
  <2> HIDE DEF T, n
  <2>1. QED
    BY <1>1, <1>3, <1>4, InductTo
<1>6. n \in 0..n /\ upTo(n) = Numbers(s)
  BY <1>1 DEF Numbers
<1>7. QED
  BY <1>2, <1>5, <1>6


\* What a read takes from the socket.
LEMMA ChunkOf ==
    ASSUME wire \in Seq(Arrived)
    PROVE  /\ Chunk \in Seq(Arrived) /\ Numbers(Chunk) \subseteq Numbers(wire)
           /\ Once(wire) => Once(Chunk)
<1> DEFINE n == IF Len(wire) > ReadMax THEN ReadMax ELSE Len(wire)
<1>1. n \in 0..Len(wire) /\ Len(wire) \in Nat
  BY BoundAssumption
<1> HIDE DEF n
<1>2. /\ SubSeq(wire, 1, n) \in Seq(Arrived) /\ DOMAIN SubSeq(wire, 1, n) = 1..n
      /\ \A k \in 1..n : SubSeq(wire, 1, n)[k] = wire[k]
      /\ \A k \in 1..n : k \in DOMAIN wire
  BY <1>1
<1>3. Chunk = SubSeq(wire, 1, n)
  BY DEF Chunk, n
<1> HIDE DEF Chunk
<1> DEFINE c == SubSeq(wire, 1, n)
<1> HIDE DEF c
<1>4. c \in Seq(Arrived) /\ DOMAIN c = 1..n /\ \A k \in 1..n : c[k] = wire[k] /\ k \in DOMAIN wire
  BY <1>2 DEF c
<1>5. Numbers(c) \subseteq Numbers(wire) /\ (Once(wire) => Once(c))
  BY <1>4 DEF Numbers, Once
<1>6. QED
  BY <1>3, <1>4, <1>5 DEF c

\* The received messages are not affected by what else the two records hold.
LEMMA SameRx ==
    ASSUME NEW r, "rx" \in DOMAIN r, NEW e, NEW f
    PROVE  /\ "rx" \in DOMAIN [r EXCEPT !.first = e] /\ [r EXCEPT !.first = e].rx = r.rx
           /\ "rx" \in DOMAIN [r EXCEPT !.long = e] /\ [r EXCEPT !.long = e].rx = r.rx
           /\ "rx" \in DOMAIN [r EXCEPT !.long = e, !.acks = f] /\ [r EXCEPT !.long = e, !.acks = f].rx = r.rx
           /\ "rx" \in DOMAIN [r EXCEPT !.i = e] /\ [r EXCEPT !.i = e].rx = r.rx
           /\ "rx" \in DOMAIN [r EXCEPT !.k = e, !.i = f] /\ [r EXCEPT !.k = e, !.i = f].rx = r.rx
           /\ "rx" \in DOMAIN [r EXCEPT !.tries = e] /\ [r EXCEPT !.tries = e].rx = r.rx
BY Zenon

LEMMA NewRx ==
    ASSUME NEW r, "rx" \in DOMAIN r, NEW e, NEW f
    PROVE  /\ "rx" \in DOMAIN [r EXCEPT !.rx = e] /\ [r EXCEPT !.rx = e].rx = e
           /\ "rx" \in DOMAIN [r EXCEPT !.rx = e, !.got = f] /\ [r EXCEPT !.rx = e, !.got = f].rx = e
BY Zenon

LEMMA StepRx ==
    ASSUME NEW r, "rx" \in DOMAIN r
    PROVE  "rx" \in DOMAIN Step(r) /\ Step(r).rx = r.rx
<1>1. Step(r) = [r EXCEPT !.i = r.i + 1] \/ Step(r) = [r EXCEPT !.k = r.k + 1, !.i = 0]
  BY Zenon DEF Step
<1>2. QED
  BY <1>1, SameRx

LEMMA NoRx ==
    /\ "rx" \in DOMAIN NoTx /\ NoTx.rx = << >>
    /\ "rx" \in DOMAIN NoWait /\ NoWait.rx = << >>
    /\ \A e : "rx" \in DOMAIN [NoWait EXCEPT !.to = e] /\ [NoWait EXCEPT !.to = e].rx = << >>
BY DEF NoTx, NoWait

(***************************************************************************)
(* Every step keeps the account.                                           *)
(***************************************************************************)
Account == OnceEach /\ Accounted /\ Numbered


\* The steps that leave the received messages where they are.
RxStays ==
    /\ UNCHANGED <<ai_rx, batch, wire, acked, settled, arrivals>>
    /\ aw'.rx = aw.rx /\ tx'.rx = tx.rx

LEMMA StaysAccount == Account /\ RxStays => Account'
BY DEF Account, RxStays, OnceEach, Accounted, Numbered

\* The other steps move them from one place to another.  W, T, R and B are the numbers in
\* aw.rx, tx.rx, ai_rx and batch.
LEMMA EmptySeq == << >> \in Seq(Arrived)
OBVIOUS

LEMMA AwaitedAccount ==
    ASSUME AckInv, tx'.rx = tx.rx \o aw.rx, aw'.rx = << >>,
           UNCHANGED <<ai_rx, batch, wire, acked, settled, arrivals>>
    PROVE  Account'
<1>1. tx.rx \in Seq(Arrived) /\ aw.rx \in Seq(Arrived)
  BY DEF AckInv, Typed
<1> DEFINE W == Numbers(aw.rx)
           T == Numbers(tx.rx)
           R == Numbers(ai_rx)
           B == Numbers(batch)
<1>2. Apart(settled, W, T, R, B) /\ acked = settled \union W \union T \union R \union B
  BY DEF AckInv, Accounted
<1>3. Once(aw.rx) /\ Once(tx.rx) /\ Once(ai_rx) /\ Once(batch)
  BY DEF AckInv, OnceEach
<1>4. Numbers(tx'.rx) = T \union W /\ Once(tx'.rx)
  BY <1>1, <1>2, <1>3, JoinedNumbers DEF Apart
<1>5. Numbers(aw'.rx) = {} /\ Once(aw'.rx)
  BY NoNumbers
<1> HIDE DEF W, T, R, B
<1>6. Apart(settled, {}, T \union W, R, B) /\ acked = settled \union {} \union (T \union W) \union R \union B
  BY <1>2 DEF Apart
<1>7. Accounted'
  BY <1>4, <1>5, <1>6 DEF Accounted, R, B
<1>8. QED
  BY <1>3, <1>4, <1>5, <1>7 DEF Account, AckInv, OnceEach, Numbered


LEMMA WrittenAccount ==
    ASSUME AckInv, ai_rx' = ai_rx \o tx.rx, tx'.rx = << >>, aw'.rx = aw.rx,
           UNCHANGED <<batch, wire, acked, settled, arrivals>>
    PROVE  Account'
<1> DEFINE W == Numbers(aw.rx)
           T == Numbers(tx.rx)
           R == Numbers(ai_rx)
           B == Numbers(batch)
<1>1. /\ tx.rx \in Seq(Arrived) /\ aw.rx \in Seq(Arrived) /\ ai_rx \in Seq(Arrived)
      /\ batch \in Seq(Arrived) /\ wire \in Seq(Arrived)
  BY DEF AckInv, Typed
<1>2. Apart(settled, W, T, R, B) /\ acked = settled \union W \union T \union R \union B
  BY DEF AckInv, Accounted
<1>3. Once(aw.rx) /\ Once(tx.rx) /\ Once(ai_rx) /\ Once(batch)
  BY DEF AckInv, OnceEach
<1>4. Numbers(ai_rx') = R \union T /\ Once(ai_rx')
  BY <1>1, <1>2, <1>3, JoinedNumbers DEF Apart
<1>5. Numbers(tx'.rx) = {} /\ Once(tx'.rx)
  BY NoNumbers
<1> HIDE DEF W, T, R, B
<1>6. Apart(settled, W, {}, R \union T, B) /\ acked = settled \union W \union {} \union (R \union T) \union B
  BY <1>2 DEF Apart
<1>7. Accounted'
  BY <1>4, <1>5, <1>6 DEF Accounted, W, B
<1>8. QED
  BY <1>3, <1>4, <1>5, <1>7 DEF Account, AckInv, OnceEach, Numbered

LEMMA CheckedAccount ==
    ASSUME AckInv, ai_rx' = ai_rx \o aw.rx, aw'.rx = << >>, tx'.rx = tx.rx,
           UNCHANGED <<batch, wire, acked, settled, arrivals>>
    PROVE  Account'
<1> DEFINE W == Numbers(aw.rx)
           T == Numbers(tx.rx)
           R == Numbers(ai_rx)
           B == Numbers(batch)
<1>1. /\ tx.rx \in Seq(Arrived) /\ aw.rx \in Seq(Arrived) /\ ai_rx \in Seq(Arrived)
      /\ batch \in Seq(Arrived) /\ wire \in Seq(Arrived)
  BY DEF AckInv, Typed
<1>2. Apart(settled, W, T, R, B) /\ acked = settled \union W \union T \union R \union B
  BY DEF AckInv, Accounted
<1>3. Once(aw.rx) /\ Once(tx.rx) /\ Once(ai_rx) /\ Once(batch)
  BY DEF AckInv, OnceEach
<1>4. Numbers(ai_rx') = R \union W /\ Once(ai_rx')
  BY <1>1, <1>2, <1>3, JoinedNumbers DEF Apart
<1>5. Numbers(aw'.rx) = {} /\ Once(aw'.rx)
  BY NoNumbers
<1> HIDE DEF W, T, R, B
<1>6. Apart(settled, {}, T, R \union W, B) /\ acked = settled \union {} \union T \union (R \union W) \union B
  BY <1>2 DEF Apart
<1>7. Accounted'
  BY <1>4, <1>5, <1>6 DEF Accounted, T, B
<1>8. QED
  BY <1>3, <1>4, <1>5, <1>7 DEF Account, AckInv, OnceEach, Numbered

LEMMA TakenAccount ==
    ASSUME AckInv, batch = << >>, batch' = ai_rx, ai_rx' = << >>, aw'.rx = aw.rx, tx'.rx = tx.rx,
           UNCHANGED <<wire, acked, settled, arrivals>>
    PROVE  Account'
<1> DEFINE W == Numbers(aw.rx)
           T == Numbers(tx.rx)
           R == Numbers(ai_rx)
           B == Numbers(batch)
<1>1. /\ tx.rx \in Seq(Arrived) /\ aw.rx \in Seq(Arrived) /\ ai_rx \in Seq(Arrived)
      /\ batch \in Seq(Arrived) /\ wire \in Seq(Arrived)
  BY DEF AckInv, Typed
<1>2. Apart(settled, W, T, R, B) /\ acked = settled \union W \union T \union R \union B
  BY DEF AckInv, Accounted
<1>3. Once(aw.rx) /\ Once(tx.rx) /\ Once(ai_rx) /\ Once(batch)
  BY DEF AckInv, OnceEach
<1>4. Numbers(ai_rx') = {} /\ Once(ai_rx') /\ B = {}
  BY NoNumbers
<1>5. Numbers(batch') = R /\ Once(batch')
  BY <1>3
<1> HIDE DEF W, T, R, B
<1>6. B = {} => Apart(settled, W, T, {}, R) /\ acked = settled \union W \union T \union {} \union R
  BY <1>2 DEF Apart
<1>7. Accounted'
  BY <1>4, <1>5, <1>6 DEF Accounted, W, T
<1>8. QED
  BY <1>3, <1>4, <1>5, <1>7 DEF Account, AckInv, OnceEach, Numbered

LEMMA HandledAccount ==
    ASSUME AckInv, batch' = << >>, settled' = settled \union Numbers(batch),
           aw'.rx = aw.rx, tx'.rx = tx.rx, UNCHANGED <<ai_rx, wire, acked, arrivals>>
    PROVE  Account'
<1> DEFINE W == Numbers(aw.rx)
           T == Numbers(tx.rx)
           R == Numbers(ai_rx)
           B == Numbers(batch)
<1>1. /\ tx.rx \in Seq(Arrived) /\ aw.rx \in Seq(Arrived) /\ ai_rx \in Seq(Arrived)
      /\ batch \in Seq(Arrived) /\ wire \in Seq(Arrived)
  BY DEF AckInv, Typed
<1>2. Apart(settled, W, T, R, B) /\ acked = settled \union W \union T \union R \union B
  BY DEF AckInv, Accounted
<1>3. Once(aw.rx) /\ Once(tx.rx) /\ Once(ai_rx) /\ Once(batch)
  BY DEF AckInv, OnceEach
<1>4. Numbers(batch') = {} /\ Once(batch')
  BY NoNumbers
<1>5. settled' = settled \union B
  OBVIOUS
<1> HIDE DEF W, T, R, B
<1>6. Apart(settled \union B, W, T, R, {}) /\ acked = (settled \union B) \union W \union T \union R \union {}
  BY <1>2 DEF Apart
<1>7. Accounted'
  BY <1>4, <1>5, <1>6 DEF Accounted, W, T, R
<1>8. QED
  BY <1>3, <1>4, <1>5, <1>7 DEF Account, AckInv, OnceEach, Numbered

LEMMA LookedAccount ==
    ASSUME AckInv, NEW j \in 1..Len(ai_rx), ai_rx' = RemoveAt(ai_rx, j),
           settled' = settled \union Numbers(<<ai_rx[j]>>),
           aw'.rx = aw.rx, tx'.rx = tx.rx, UNCHANGED <<batch, wire, acked, arrivals>>
    PROVE  Account'
<1> DEFINE W == Numbers(aw.rx)
           T == Numbers(tx.rx)
           R == Numbers(ai_rx)
           B == Numbers(batch)
<1>1. /\ tx.rx \in Seq(Arrived) /\ aw.rx \in Seq(Arrived) /\ ai_rx \in Seq(Arrived)
      /\ batch \in Seq(Arrived) /\ wire \in Seq(Arrived)
  BY DEF AckInv, Typed
<1>2. Apart(settled, W, T, R, B) /\ acked = settled \union W \union T \union R \union B
  BY DEF AckInv, Accounted
<1>3. Once(aw.rx) /\ Once(tx.rx) /\ Once(ai_rx) /\ Once(batch)
  BY DEF AckInv, OnceEach
<1> DEFINE N == Numbers(<<ai_rx[j]>>)
           L == Numbers(RemoveAt(ai_rx, j))
<1>4. Once(ai_rx') /\ R = L \union N /\ L \intersect N = {}
  BY <1>1, <1>3, RemovedNumber
<1>5. Numbers(ai_rx') = L /\ settled' = settled \union N
  OBVIOUS
<1> HIDE DEF W, T, R, B, L, N
<1>6. Apart(settled \union N, W, T, L, B) /\ acked = (settled \union N) \union W \union T \union L \union B
  BY <1>2, <1>4 DEF Apart
<1>7. Accounted'
  BY <1>5, <1>6 DEF Accounted, W, T, B
<1>8. QED
  BY <1>3, <1>4, <1>7 DEF Account, AckInv, OnceEach, Numbered

LEMMA KeptAccount ==
    ASSUME AckInv, aw'.rx = aw.rx \o Those(Chunk, Plain), tx'.rx = tx.rx,
           acked' = acked \union Numbers(Those(Chunk, Plain)), wire' = << >>,
           UNCHANGED <<ai_rx, batch, settled, arrivals>>
    PROVE  Account'
<1> DEFINE W == Numbers(aw.rx)
           T == Numbers(tx.rx)
           R == Numbers(ai_rx)
           B == Numbers(batch)
<1>1. /\ tx.rx \in Seq(Arrived) /\ aw.rx \in Seq(Arrived) /\ ai_rx \in Seq(Arrived)
      /\ batch \in Seq(Arrived) /\ wire \in Seq(Arrived)
  BY DEF AckInv, Typed
<1>2. Apart(settled, W, T, R, B) /\ acked = settled \union W \union T \union R \union B
  BY DEF AckInv, Accounted
<1>3. Once(aw.rx) /\ Once(tx.rx) /\ Once(ai_rx) /\ Once(batch)
  BY DEF AckInv, OnceEach
<1> DEFINE kept == Those(Chunk, Plain)
           N == Numbers(kept)
<1>4. /\ kept \in Seq(Arrived) /\ Once(kept) /\ N \subseteq Numbers(wire)
      /\ N \intersect acked = {} /\ N \subseteq 1..arrivals /\ acked \subseteq 1..arrivals
  <2> DEFINE c == Chunk
  <2>1. c \in Seq(Arrived) /\ Numbers(c) \subseteq Numbers(wire) /\ Once(c)
    BY <1>1, ChunkOf DEF AckInv, Numbered
  <2> HIDE DEF c
  <2>2. Those(c, Plain) \in Seq(Arrived) /\ Numbers(Those(c, Plain)) = Numbers(c) /\ Once(Those(c, Plain))
    BY <2>1, KeptNumbers
  <2>3. QED
    BY <2>1, <2>2 DEF AckInv, Numbered, c
<1> HIDE DEF kept
<1>5. aw'.rx = aw.rx \o kept /\ acked' = acked \union N
  BY DEF kept
<1>6. N \intersect (settled \union W \union T \union R \union B) = {}
  BY <1>2, <1>4
<1>7. Numbers(aw'.rx) = W \union N /\ Once(aw'.rx)
  BY <1>1, <1>3, <1>4, <1>5, <1>6, JoinedNumbers
<1> HIDE DEF W, T, R, B, N
<1>8. Apart(settled, W \union N, T, R, B) /\ acked' = settled \union (W \union N) \union T \union R \union B
  BY <1>2, <1>5, <1>6 DEF Apart
<1>9. Accounted'
  BY <1>7, <1>8 DEF Accounted, T, R, B
<1>10. Numbered'
  BY <1>4, <1>5, NoNumbers DEF Numbered
<1>11. QED
  BY <1>3, <1>7, <1>9, <1>10 DEF Account, OnceEach

\* A frame arrives: a message with a new number, or an acknowledgement.
LEMMA ArrivedAccount ==
    ASSUME AckInv, NEW f \in Arrived, wire' = Append(wire, f),
           Numbers(<<f>>) \subseteq {arrivals + 1}, arrivals' \in {arrivals, arrivals + 1},
           Numbers(<<f>>) # {} => arrivals' = arrivals + 1, arrivals \in Nat,
           aw'.rx = aw.rx, tx'.rx = tx.rx, UNCHANGED <<ai_rx, batch, acked, settled>>
    PROVE  Account'
<1> DEFINE N == Numbers(<<f>>)
<1>1. wire \in Seq(Arrived) /\ Once(wire) /\ Numbers(wire) \intersect acked = {}
      /\ Numbers(wire) \subseteq 1..arrivals /\ acked \subseteq 1..arrivals
  BY DEF AckInv, Typed, Numbered
<1>2. arrivals + 1 \notin 1..arrivals /\ 1..arrivals \subseteq 1..arrivals' /\ N \subseteq 1..arrivals'
  <2>1. arrivals' \in Nat /\ arrivals <= arrivals'
    OBVIOUS
  <2>2. N # {} => arrivals + 1 \in 1..arrivals'
    OBVIOUS
  <2>3. QED
    BY <2>1, <2>2
<1>3. Numbers(wire') = Numbers(wire) \union N /\ Once(wire')
  BY <1>1, <1>2, AddedNumber
<1> HIDE DEF N
<1>4. Numbered'
  <2>1. N \subseteq {arrivals + 1}
    BY DEF N
  <2>2. Numbers(wire') \intersect acked = {} /\ Numbers(wire') \subseteq 1..arrivals' /\ acked \subseteq 1..arrivals'
    BY <1>1, <1>2, <1>3, <2>1
  <2>3. QED
    BY <1>3, <2>2 DEF Numbered
<1>5. QED
  BY <1>4 DEF Account, AckInv, OnceEach, Accounted


LEMMA RdReadAccount ==
    ASSUME AckInv, NEW t \in Threads, RdRead(t)
    PROVE  /\ Account' /\ OnePair'
           /\ ai_rx' \in Seq(Arrived) /\ multi_cache' \in Seq(Arrived) /\ wire' \in Seq(Arrived)
           /\ multi_expected_len' \in Int /\ due' \in [Devices -> 0..MaxDue]
           /\ acked' \subseteq Nat /\ settled' \subseteq Nat
<1> DEFINE start(e) == [rx |-> ai_rx, due |-> due, acked |-> acked, settled |-> settled,
                        cache |-> IF e THEN << >> ELSE multi_cache,
                        len |-> IF e THEN -1 ELSE multi_expected_len]
           s == IF process_active THEN Chunk ELSE << >>
<1>1. PICK e : /\ ai_rx' = ReadOver(start(e), s).rx
               /\ multi_cache' = ReadOver(start(e), s).cache
               /\ multi_expected_len' = ReadOver(start(e), s).len
               /\ due' = ReadOver(start(e), s).due
               /\ acked' = ReadOver(start(e), s).acked
               /\ settled' = ReadOver(start(e), s).settled
  BY Zenon DEF RdRead, ReadOver
<1>2. wire' = << >> /\ UNCHANGED <<batch, arrivals, aw, tx>>
  BY DEF RdRead, program, locals
<1>3. s \in Seq(Arrived) /\ Once(s) /\ Numbers(s) \subseteq Numbers(wire)
  BY ChunkOf, EmptySeq, NoNumbers DEF AckInv, Typed, Numbered
<1> DEFINE r == start(e)
           elsewhere == Numbers(aw.rx) \union Numbers(tx.rx) \union Numbers(batch)
<1>4. r \in ReadState
  BY EmptySeq DEF AckInv, Typed, ReadState
<1>5. Paired(r.cache)
  BY DEF AckInv, OnePair, Paired
<1>6. r.rx = ai_rx /\ r.acked = acked /\ r.settled = settled
  OBVIOUS
<1> HIDE DEF s, r
<1>7. Balanced(r, elsewhere)
  <2> DEFINE W == Numbers(aw.rx)
             T == Numbers(tx.rx)
             R == Numbers(ai_rx)
             B == Numbers(batch)
  <2>1. Apart(settled, W, T, R, B) /\ acked = settled \union W \union T \union R \union B
    BY DEF AckInv, Accounted
  <2>2. Once(r.rx) /\ Numbers(r.rx) = R /\ elsewhere = W \union T \union B
    BY <1>6 DEF AckInv, OnceEach
  <2> HIDE DEF W, T, R, B, elsewhere
  <2>3. QED
    BY <1>6, <2>1, <2>2 DEF Apart, Balanced
<1>8. Numbers(s) \intersect r.acked = {} /\ Numbers(s) \subseteq 1..arrivals
  BY <1>3, <1>6 DEF AckInv, Numbered
<1> DEFINE q == ReadOver(r, s)
<1> HIDE DEF elsewhere, q
<1>9. q \in ReadState /\ Paired(q.cache) /\ Balanced(q, elsewhere) /\ q.acked = r.acked \union Numbers(s)
  BY <1>3, <1>4, <1>5, <1>7, <1>8, ReadAll DEF q
<1>10. /\ ai_rx' = q.rx /\ multi_cache' = q.cache /\ multi_expected_len' = q.len
       /\ due' = q.due /\ acked' = q.acked /\ settled' = q.settled
  BY <1>1 DEF q, r
<1>11. OnePair'
  BY <1>9, <1>10 DEF OnePair, Paired
<1>12. OnceEach' /\ Accounted'
  <2> DEFINE W == Numbers(aw.rx)
             T == Numbers(tx.rx)
             R == Numbers(q.rx)
             B == Numbers(batch)
  <2>1. /\ W \intersect (T \union B) = {} /\ T \intersect B = {}
    BY DEF AckInv, Accounted, Apart
  <2>2. /\ elsewhere = W \union T \union B
    BY DEF elsewhere
  <2>3. /\ Numbers(ai_rx') = R /\ Numbers(aw'.rx) = W /\ Numbers(tx'.rx) = T /\ Numbers(batch') = B
        /\ Once(ai_rx') /\ Once(aw'.rx) /\ Once(tx'.rx) /\ Once(batch')
    BY <1>2, <1>9, <1>10 DEF AckInv, OnceEach, Balanced
  <2>4. q.acked = q.settled \union R \union elsewhere /\ q.settled \intersect (R \union elsewhere) = {}
        /\ R \intersect elsewhere = {}
    BY <1>9 DEF Balanced
  <2> HIDE DEF W, T, R, B
  <2>5. Apart(q.settled, W, T, R, B) /\ q.acked = q.settled \union W \union T \union R \union B
    BY <2>1, <2>2, <2>4 DEF Apart
  <2>6. QED
    BY <1>10, <2>3, <2>5 DEF Accounted, OnceEach
<1>13. Numbered'
  BY <1>2, <1>6, <1>8, <1>9, <1>10, NoNumbers DEF Numbered, AckInv
<1>14. QED
  BY <1>2, <1>9, <1>10, <1>11, <1>12, <1>13, EmptySeq DEF Account, ReadState


Pausing == {"boot", "ctx", "setAck"}

LEMMA EmptiedStays ==
    ASSUME AckInv, UNCHANGED batch, aw'.rx = aw.rx, tx'.rx = tx.rx,
           \A t \in Threads : \A l \in {"wrSend", "wrWait", "ckWait"} : pc[t] = l => pc'[t] = l,
           pc'["main"] \in Pausing => pc["main"] \in Pausing
    PROVE  Emptied'
BY DEF AckInv, Emptied, Writing, Pausing

\* A thread in write_stream or in await_cached_acknowledgment is alone there.
LEMMA Alone ==
    ASSUME AckInv, NEW t \in Threads, pc[t] \in Inside
    PROVE  \A q \in Threads : q # t => pc[q] \notin Inside
BY DEF AckInv, BoxInv, OneUser, OneReader

\* write_stream and read_stream.
LEMMA ProcessAccount ==
    ASSUME AckInv, NEW t \in Threads,
           RdLock(t) \/ WrLock(t) \/ WrSend(t) \/ WrAwaited(t) \/ WrEnd(t) \/ AwRead(t) \/ AwRetry(t)
    PROVE  Emptied' /\ Account' /\ "rx" \in DOMAIN tx' /\ "rx" \in DOMAIN aw'
           /\ tx'.rx \in Seq(Arrived) /\ aw'.rx \in Seq(Arrived) /\ ai_rx' \in Seq(Arrived)
<1>1. /\ pc \in [Threads -> Labels] /\ pc["main"] \notin {"idle", "ckScan", "ckSend", "ckWait"}
      /\ Threads = {"main", "socket"}
  BY DEF AckInv, BoxInv, OneUser, Placed, Threads
<1>2. /\ "rx" \in DOMAIN tx /\ "rx" \in DOMAIN aw /\ ai_rx \in Seq(Arrived)
      /\ tx.rx \in Seq(Arrived) /\ aw.rx \in Seq(Arrived) /\ wire \in Seq(Arrived)
  BY DEF AckInv, Typed
<1>3. CASE RdLock(t)
  <2>1. UNCHANGED <<ai_rx, batch, wire, acked, settled, arrivals, aw, tx>> /\ pc' = [pc EXCEPT ![t] = "rdRead"]
        /\ pc[t] = "rdLock"
    BY <1>3 DEF RdLock, lists, program, locals, world, history
  <2>2. Emptied'
    BY <1>1, <2>1, EmptiedStays DEF Pausing
  <2>3. QED
    BY <1>2, <2>1, <2>2, StaysAccount DEF AckInv, Account, RxStays
<1>4. CASE WrLock(t)
  <2>1. /\ UNCHANGED <<ai_rx, batch, wire, acked, settled, arrivals, aw>> /\ tx' = NoTx
        /\ pc' = [pc EXCEPT ![t] = "wrSend"] /\ pc[t] = "wrLock"
    BY <1>4 DEF WrLock, lists, program, world, history
  <2>2. tx.rx = << >>
    <3>1. \A q \in Threads : pc[q] \notin {"wrSend", "wrWait"}
      BY <2>1, Alone DEF Inside
    <3>2. QED
      BY <3>1 DEF AckInv, Emptied, Writing
  <2>3. tx'.rx = tx.rx /\ "rx" \in DOMAIN tx' /\ aw'.rx = aw.rx
    BY <2>1, <2>2, NoRx
  <2>4. Emptied'
    BY <1>1, <2>1, <2>3, EmptiedStays DEF Pausing
  <2>5. QED
    BY <1>2, <2>1, <2>3, <2>4, StaysAccount DEF AckInv, Account, RxStays
<1>5. CASE WrSend(t)
  <2>1. /\ UNCHANGED <<ai_rx, batch, wire, acked, settled, arrivals>> /\ pc[t] = "wrSend"
        /\ \/ /\ tx' = [tx EXCEPT !.first = Track] /\ aw' = [NoWait EXCEPT !.to = Dest[Current]]
              /\ pc' = [pc EXCEPT ![t] = "wrWait"]
           \/ tx' = Step([tx EXCEPT !.first = Track]) /\ UNCHANGED <<aw, pc>>
    BY <1>5 DEF WrSend, lists, program
  <2>2. aw.rx = << >> /\ \A q \in Threads : q # t => pc[q] \notin Inside
    <3>1. \A q \in Threads : q # t => pc[q] \notin Inside
      BY <2>1, Alone DEF Inside
    <3>2. ~Writing("wrWait") /\ ~Writing("ckWait")
      BY <2>1, <3>1 DEF Writing, Inside
    <3>3. QED
      BY <3>1, <3>2 DEF AckInv, Emptied
  <2>3. tx'.rx = tx.rx /\ "rx" \in DOMAIN tx' /\ aw'.rx = aw.rx /\ "rx" \in DOMAIN aw'
    BY <1>2, <2>1, <2>2, SameRx, StepRx, NoRx
  <2>4. Emptied'
    <3>1. CASE UNCHANGED pc
      BY <2>1, <2>3, <3>1, EmptiedStays
    <3>2. CASE pc' = [pc EXCEPT ![t] = "wrWait"]
      <4>1. Writing("wrWait")'
        BY <1>1, <3>2 DEF Writing
      <4>2. pc'["main"] \in Pausing => pc["main"] \in Pausing
        BY <1>1, <3>2 DEF Pausing
      <4>3. QED
        BY <2>1, <4>1, <4>2 DEF AckInv, Emptied, Pausing
    <3>3. QED
      BY <2>1, <3>1, <3>2
  <2>5. QED
    BY <1>2, <2>1, <2>3, <2>4, StaysAccount DEF AckInv, Account, RxStays
<1>6. CASE WrAwaited(t)
  <2>1. /\ UNCHANGED <<ai_rx, batch, wire, acked, settled, arrivals>> /\ pc[t] = "wrWait"
        /\ aw' = NoWait /\ pc' = [pc EXCEPT ![t] = "wrSend"]
        /\ \E r \in {tx, Unacknowledged(tx)} : tx' = Step([r EXCEPT !.rx = r.rx \o aw.rx])
    BY <1>6 DEF WrAwaited, lists, program, world, history
  <2>2. PICK r \in {tx, Unacknowledged(tx)} : tx' = Step([r EXCEPT !.rx = r.rx \o aw.rx])
    BY <2>1
  <2>3. "rx" \in DOMAIN Unacknowledged(tx) /\ Unacknowledged(tx).rx = tx.rx
    <3>1. \/ \E e : Unacknowledged(tx) = [tx EXCEPT !.long = e]
          \/ \E e, f : Unacknowledged(tx) = [tx EXCEPT !.long = e, !.acks = f]
      BY Zenon DEF Unacknowledged
    <3>2. QED
      BY <1>2, <3>1, SameRx
  <2>4. r.rx = tx.rx /\ "rx" \in DOMAIN r
    BY <1>2, <2>3
  <2>5. tx'.rx = tx.rx \o aw.rx /\ "rx" \in DOMAIN tx'
    BY <2>2, <2>4, NewRx, StepRx
  <2>6. aw'.rx = << >> /\ "rx" \in DOMAIN aw'
    BY <2>1, NoRx
  <2>7. Account'
    BY <2>1, <2>5, <2>6, AwaitedAccount
  <2>8. Emptied'
    <3>1. Writing("wrSend")'
      BY <1>1, <2>1 DEF Writing
    <3>2. pc'["main"] \in Pausing => pc["main"] \in Pausing
      BY <1>1, <2>1 DEF Pausing
    <3>3. QED
      BY <2>1, <2>6, <3>1, <3>2 DEF AckInv, Emptied, Pausing
  <2>9. tx.rx \o aw.rx \in Seq(Arrived)
    BY <1>2
  <2>10. QED
    BY <1>2, <2>1, <2>5, <2>6, <2>7, <2>8, <2>9, EmptySeq
<1>7. CASE WrEnd(t)
  <2>1. /\ UNCHANGED <<batch, wire, acked, settled, arrivals, aw>> /\ pc[t] = "wrSend"
        /\ ai_rx' = ai_rx \o tx.rx /\ tx' = NoTx /\ pc' = [pc EXCEPT ![t] = AfterProcess(t)]
    BY <1>7 DEF WrEnd, program, world, history
  <2>2. tx'.rx = << >> /\ "rx" \in DOMAIN tx'
    BY <2>1, NoRx
  <2>3. Account'
    BY <2>1, <2>2, WrittenAccount
  <2>4. Emptied'
    <3>1. \A q \in Threads : q # t => pc[q] \notin Inside
      BY <2>1, Alone DEF Inside
    <3>2. ~Writing("wrWait") /\ ~Writing("ckWait")
      BY <2>1, <3>1 DEF Writing, Inside
    <3>3. aw'.rx = << >>
      BY <2>1, <3>2 DEF AckInv, Emptied
    <3>4. pc'["main"] \in Pausing => pc["main"] \in Pausing
      BY <1>1, <2>1 DEF Pausing, AfterProcess
    <3>5. QED
      BY <2>1, <2>2, <3>3, <3>4 DEF AckInv, Emptied, Pausing
  <2>5. ai_rx \o tx.rx \in Seq(Arrived)
    BY <1>2
  <2>6. QED
    BY <1>2, <2>1, <2>2, <2>3, <2>4, <2>5, EmptySeq
<1>8. CASE AwRead(t)
  <2> DEFINE kept == Those(Chunk, Plain)
             g == Ack(aw.to) \in ToSet(Chunk)
  <2>1. /\ UNCHANGED <<ai_rx, batch, settled, arrivals, tx, pc>> /\ wire' = << >>
        /\ aw' = [aw EXCEPT !.rx = aw.rx \o kept, !.got = g] /\ acked' = acked \union Numbers(kept)
        /\ pc[t] \in {"wrWait", "ckWait"}
    BY <1>8 DEF AwRead, Awaiting, lists, program
  <2> HIDE DEF g
  <2>2. aw'.rx = aw.rx \o kept /\ "rx" \in DOMAIN aw'
    BY <1>2, <2>1, NewRx
  <2>3. Account'
    BY <2>1, <2>2, KeptAccount
  <2>4. kept \in Seq(Arrived)
    <3> DEFINE c == Chunk
    <3>1. c \in Seq(Arrived)
      BY <1>2, ChunkOf
    <3> HIDE DEF c
    <3>2. Those(c, Plain) \in Seq(Arrived)
      BY <3>1, KeptNumbers
    <3>3. QED
      BY <3>2 DEF c
  <2> HIDE DEF kept
  <2>5. aw.rx \o kept \in Seq(Arrived)
    BY <1>2, <2>4
  <2>6. Emptied'
    <3>1. Writing("wrWait")' \/ Writing("ckWait")'
      BY <2>1 DEF Writing
    <3>2. Writing("wrSend")' = Writing("wrSend") /\ Writing("wrWait")' = Writing("wrWait")
      BY <2>1 DEF Writing
    <3>3. QED
      BY <2>1, <3>1, <3>2 DEF AckInv, Emptied
  <2>7. QED
    BY <1>2, <2>1, <2>2, <2>3, <2>5, <2>6
<1>9. CASE AwRetry(t)
  <2>1. /\ UNCHANGED <<ai_rx, batch, wire, acked, settled, arrivals, tx, pc>>
        /\ aw' = [aw EXCEPT !.tries = aw.tries + 1]
    BY <1>9 DEF AwRetry, lists, program, history
  <2>2. aw'.rx = aw.rx /\ "rx" \in DOMAIN aw' /\ tx'.rx = tx.rx
    BY <1>2, <2>1, SameRx
  <2>3. Emptied'
    BY <2>1, <2>2, EmptiedStays
  <2>4. QED
    BY <1>2, <2>1, <2>2, <2>3, StaysAccount DEF AckInv, Account, RxStays
<1>10. QED
  BY <1>3, <1>4, <1>5, <1>6, <1>7, <1>8, <1>9


LEMMA RdReadEmptied == ASSUME AckInv, NEW t \in Threads, RdRead(t) PROVE Emptied'
<1>1. /\ UNCHANGED <<batch, aw, tx>> /\ pc[t] = "rdRead" /\ pc' = [pc EXCEPT ![t] = "wrLock"]
  BY DEF RdRead, program, locals
<1>2. pc \in [Threads -> Labels] /\ Threads = {"main", "socket"}
  BY DEF AckInv, BoxInv, OneUser, Placed, Threads
<1>3. QED
  BY <1>1, <1>2, EmptiedStays DEF Pausing

RxFields ==
    /\ "rx" \in DOMAIN tx /\ "rx" \in DOMAIN aw
    /\ tx.rx \in Seq(Arrived) /\ aw.rx \in Seq(Arrived)
    /\ ai_rx \in Seq(Arrived) /\ batch \in Seq(Arrived) /\ wire \in Seq(Arrived)

\* await_cached_acknowledgment, and the socket thread's loop.
LEMMA CheckAccount ==
    ASSUME AckInv, CkScan \/ CkSend \/ CkAgain \/ CkAwaited \/ TakeClient \/ EndLoop
    PROVE  Emptied' /\ Account' /\ RxFields'
<1>1. /\ pc \in [Threads -> Labels] /\ Threads = {"main", "socket"}
  BY DEF AckInv, BoxInv, OneUser, Placed, Threads
<1>2. RxFields
  BY DEF AckInv, Typed, RxFields
<1>3. CASE CkScan \/ CkAgain \/ TakeClient \/ EndLoop
  <2>1. /\ UNCHANGED <<ai_rx, batch, wire, acked, settled, arrivals, aw, tx>>
        /\ pc["socket"] \notin {"wrSend", "wrWait", "ckWait"} /\ pc'["main"] = pc["main"]
    BY <1>1, <1>3 DEF CkScan, CkAgain, CkReturn, TakeClient, EndLoop, lists, program, locals, world, history
  <2>2. Emptied'
    BY <1>1, <2>1, EmptiedStays
  <2>3. QED
    BY <1>2, <2>1, <2>2, StaysAccount DEF AckInv, Account, RxStays, RxFields
<1>4. CASE CkSend
  <2>1. /\ UNCHANGED <<ai_rx, batch, wire, acked, settled, arrivals, tx>> /\ pc["socket"] = "ckSend"
        /\ pc' = [pc EXCEPT !["socket"] = "ckWait"]
        /\ aw' = [NoWait EXCEPT !.to = Dest[ack_cache[ci].f[1]]]
    BY <1>4 DEF CkSend, lists, program, world, history
  <2>2. aw.rx = << >>
    <3>1. pc["main"] \notin Inside
      BY <1>1, <2>1, Alone DEF Inside
    <3>2. ~Writing("wrWait") /\ ~Writing("ckWait")
      BY <1>1, <2>1, <3>1 DEF Writing, Inside
    <3>3. QED
      BY <3>2 DEF AckInv, Emptied
  <2>3. aw'.rx = aw.rx /\ "rx" \in DOMAIN aw'
    BY <2>1, <2>2, NoRx
  <2>4. Emptied'
    BY <1>1, <2>1, <2>3, EmptiedStays
  <2>5. QED
    BY <1>2, <2>1, <2>3, <2>4, StaysAccount DEF AckInv, Account, RxStays, RxFields
<1>5. CASE CkAwaited
  <2>1. /\ UNCHANGED <<batch, wire, acked, settled, arrivals, tx>> /\ pc["socket"] = "ckWait"
        /\ ai_rx' = ai_rx \o aw.rx /\ aw' = NoWait /\ pc'["main"] = pc["main"]
    BY <1>1, <1>5 DEF CkAwaited, CkReturn, program, world, history
  <2>2. aw'.rx = << >> /\ "rx" \in DOMAIN aw'
    BY <2>1, NoRx
  <2>3. Account'
    BY <2>1, <2>2, CheckedAccount
  <2>4. Emptied'
    <3>1. pc["main"] \notin Inside
      BY <1>1, <2>1, Alone DEF Inside
    <3>2. ~Writing("wrSend") /\ ~Writing("wrWait")
      BY <1>1, <2>1, <3>1 DEF Writing, Inside
    <3>3. tx'.rx = << >>
      BY <2>1, <3>2 DEF AckInv, Emptied
    <3>4. QED
      BY <2>1, <2>2, <3>3 DEF AckInv, Emptied
  <2>5. ai_rx \o aw.rx \in Seq(Arrived)
    BY <1>2 DEF RxFields
  <2>6. QED
    BY <1>2, <2>1, <2>2, <2>3, <2>4, <2>5, EmptySeq DEF RxFields
<1>6. QED
  BY <1>3, <1>4, <1>5

LEMMA MainAccount ==
    ASSUME AckInv,
           \/ Activate \/ Write \/ PhoneChanged \/ SetAckCache \/ Drain \/ Handle
           \/ CreateMenu \/ ClearMenu \/ MenuProcess \/ MenuLook \/ Quit \/ JoinThread
    PROVE  Emptied' /\ Account' /\ RxFields'
<1>1. /\ pc \in [Threads -> Labels] /\ Threads = {"main", "socket"}
  BY DEF AckInv, BoxInv, OneUser, Placed, Threads
<1>2. RxFields
  BY DEF AckInv, Typed, RxFields
<1>3. CASE Activate \/ Write \/ PhoneChanged \/ SetAckCache \/ CreateMenu \/ ClearMenu \/ MenuProcess \/ JoinThread
  <2>1. UNCHANGED <<ai_rx, batch, wire, acked, settled, arrivals, aw, tx>>
    <3>1. CASE Activate \/ PhoneChanged \/ SetAckCache \/ MenuProcess \/ JoinThread
      BY <3>1 DEF Activate, PhoneChanged, SetAckCache, MenuProcess, JoinThread,
                  lists, program, locals, world, history
    <3>2. CASE Write \/ CreateMenu \/ ClearMenu
      BY <3>2 DEF Write, CreateMenu, ClearMenu, program, locals, world, history
    <3>3. QED
      BY <1>3, <3>1, <3>2
  <2>2. /\ pc["main"] \notin {"wrSend", "wrWait", "ckWait"} /\ pc'["socket"] = pc["socket"]
        /\ pc'["main"] \in Pausing => pc["main"] \in Pausing
    <3>1. CASE Activate \/ PhoneChanged \/ SetAckCache \/ MenuProcess \/ JoinThread
      BY <1>1, <3>1 DEF Activate, PhoneChanged, SetAckCache, MenuProcess, JoinThread, Pausing
    <3>2. CASE Write \/ CreateMenu \/ ClearMenu
      BY <1>1, <3>2 DEF Write, CreateMenu, ClearMenu, Pausing
    <3>3. QED
      BY <1>3, <3>1, <3>2
  <2>3. Emptied'
    BY <1>1, <2>1, <2>2, EmptiedStays
  <2>4. QED
    BY <1>2, <2>1, <2>3, StaysAccount DEF AckInv, Account, RxStays, RxFields
<1>4. CASE Drain
  <2>1. /\ UNCHANGED <<wire, acked, settled, arrivals, aw, tx>> /\ pc["main"] = "ctx"
        /\ pc' = [pc EXCEPT !["main"] = "handle"]
        /\ \/ batch' = ai_rx /\ ai_rx' = << >>
           \/ UNCHANGED <<ai_rx, batch>>
    BY <1>4 DEF Drain, DrainTo, lists, locals, world, history
  <2>2. batch = << >>
    BY <2>1 DEF AckInv, Emptied
  <2>3. Account'
    <3>1. CASE batch' = ai_rx /\ ai_rx' = << >>
      BY <2>1, <2>2, <3>1, TakenAccount
    <3>2. CASE UNCHANGED <<ai_rx, batch>>
      BY <2>1, <3>2, StaysAccount DEF AckInv, Account, RxStays
    <3>3. QED
      BY <2>1, <3>1, <3>2
  <2>4. Emptied'
    <3>1. Writing("wrSend")' = Writing("wrSend") /\ Writing("wrWait")' = Writing("wrWait")
          /\ Writing("ckWait")' = Writing("ckWait")
      BY <1>1, <2>1 DEF Writing
    <3>2. QED
      BY <1>1, <2>1, <3>1 DEF AckInv, Emptied
  <2>5. QED
    BY <1>2, <2>1, <2>3, <2>4, EmptySeq DEF RxFields
<1>5. CASE Handle \/ Quit
  <2>1. /\ UNCHANGED <<ai_rx, wire, acked, arrivals, aw, tx>> /\ pc["main"] = "handle"
        /\ batch' = << >> /\ settled' = settled \union Numbers(batch)
        /\ pc' = [pc EXCEPT !["main"] = "ctx"] \/ pc' = [pc EXCEPT !["main"] = "join"]
    BY <1>5 DEF Handle, Quit, lists, locals, world
  <2>2. Account'
    BY <2>1, HandledAccount
  <2>3. Emptied'
    <3>1. Writing("wrSend")' = Writing("wrSend") /\ Writing("wrWait")' = Writing("wrWait")
          /\ Writing("ckWait")' = Writing("ckWait")
      BY <1>1, <2>1 DEF Writing
    <3>2. QED
      BY <1>1, <2>1, <3>1 DEF AckInv, Emptied
  <2>4. QED
    BY <1>2, <2>1, <2>2, <2>3, EmptySeq DEF RxFields
<1>6. CASE MenuLook
  <2> DEFINE denials == {j \in DOMAIN ai_rx : ai_rx[j].kind = "deny"}
             first == CHOOSE x \in denials : \A y \in denials : x <= y
  <2>1. /\ UNCHANGED <<batch, wire, acked, arrivals, aw, tx>> /\ pc["main"] = "look"
        /\ pc' = [pc EXCEPT !["main"] = "handle"]
    BY <1>6 DEF MenuLook, locals, world
  <2>2. IF denials = {} THEN UNCHANGED <<ai_rx, settled>>
        ELSE ai_rx' = RemoveAt(ai_rx, first) /\ settled' = settled \union Numbers(<<ai_rx[first]>>)
    BY <1>6, Zenon DEF MenuLook
  <2>3. Emptied'
    BY <1>1, <2>1, EmptiedStays DEF Pausing
  <2>4. CASE denials = {}
    <3>1. UNCHANGED <<ai_rx, settled>>
      BY <2>2, <2>4
    <3>2. QED
      BY <1>2, <2>1, <2>3, <3>1, StaysAccount DEF AckInv, Account, RxStays, RxFields
  <2>5. CASE denials # {}
    <3>1. first \in 1..Len(ai_rx)
      <4>1. denials \subseteq 1..Len(ai_rx) /\ Len(ai_rx) \in Nat
        BY <1>2 DEF RxFields
      <4>2. \E x \in denials : \A y \in denials : x <= y
        <5> HIDE DEF denials
        <5>1. QED
          BY <2>5, <4>1, LeastPosition
      <4>3. first \in denials
        BY <4>2, Zenon
      <4>4. QED
        BY <4>1, <4>3
    <3> HIDE DEF denials, first
    <3>2. ai_rx' = RemoveAt(ai_rx, first) /\ settled' = settled \union Numbers(<<ai_rx[first]>>)
      BY <2>2, <2>5
    <3>3. Account'
      BY <2>1, <3>1, <3>2, LookedAccount
    <3>4. RemoveAt(ai_rx, first) \in Seq(Arrived)
      BY <1>2, <3>1, RemovedNumber DEF AckInv, OnceEach, RxFields
    <3>5. QED
      BY <1>2, <2>1, <2>3, <3>2, <3>3, <3>4 DEF RxFields
  <2>6. QED
    BY <2>4, <2>5
<1>7. QED
  BY <1>3, <1>4, <1>5, <1>6

LEMMA WorldAccount ==
    ASSUME AckInv, Environment \/ Ended \/ UNCHANGED vars
    PROVE  Emptied' /\ Account' /\ RxFields'
<1>1. RxFields /\ arrivals \in Nat
  BY ArrivalAssumption DEF AckInv, Typed, RxFields
<1>2. CASE Arrive
  <2>1. PICK a \in Arrivals[arrivals + 1] : wire' = Append(wire, Frame(a, arrivals + 1))
    BY <1>2 DEF Arrive
  <2>2. /\ arrivals' = arrivals + 1 /\ arrivals < Len(Arrivals)
        /\ UNCHANGED <<ai_rx, batch, acked, settled, aw, tx, pc>>
    BY <1>2 DEF Arrive, lists, program, locals, history
  <2> DEFINE f == Frame(a, arrivals + 1)
  <2>3. f \in Arrived
    <3>1. arrivals + 1 \in 1..Len(Arrivals)
      BY <1>1, <2>2, ArrivalAssumption
    <3>2. a \in [from : Devices, to : {Me, All, "other"}, n : Nat, i : Nat,
                 kind : {"deny", "flag", "resend", "frag", "message"}]
      BY <2>1, <3>1, ArrivalAssumption
    <3>3. QED
      BY <1>1, <3>2 DEF Frame, Arrived
  <2>4. Numbers(<<f>>) \subseteq {arrivals + 1}
    <3>1. f.no = arrivals + 1
      BY DEF Frame
    <3> HIDE DEF f
    <3>2. QED
      BY <3>1, OneNumber
  <2> HIDE DEF f
  <2>5. Account'
    BY <1>1, <2>1, <2>2, <2>3, <2>4, ArrivedAccount DEF f
  <2>6. Emptied'
    BY <2>2, EmptiedStays
  <2>7. Append(wire, f) \in Seq(Arrived)
    BY <1>1, <2>3 DEF RxFields
  <2>8. QED
    BY <1>1, <2>1, <2>2, <2>5, <2>6, <2>7 DEF RxFields, f
<1>3. CASE \E d \in Devices : Acknowledge(d)
  <2>1. PICK d \in Devices : Acknowledge(d)
    BY <1>3
  <2> DEFINE f == Ack(d)
  <2>2. wire' = Append(wire, f) /\ UNCHANGED <<ai_rx, batch, acked, settled, arrivals, aw, tx, pc>>
    BY <2>1 DEF Acknowledge, lists, program, locals, history
  <2>3. f \in Arrived /\ ~Plain(f)
    BY DEF Ack, Arrived, Plain
  <2> HIDE DEF f
  <2>4. Numbers(<<f>>) = {}
    BY <2>3, OneNumber
  <2>5. Account'
    BY <1>1, <2>2, <2>3, <2>4, ArrivedAccount
  <2>6. Emptied'
    BY <2>2, EmptiedStays
  <2>7. Append(wire, f) \in Seq(Arrived)
    BY <1>1, <2>3 DEF RxFields
  <2>8. QED
    BY <1>1, <2>2, <2>5, <2>6, <2>7 DEF RxFields
<1>4. CASE Ended \/ UNCHANGED vars
  <2>1. UNCHANGED <<ai_rx, batch, wire, acked, settled, arrivals, aw, tx, pc>>
    BY <1>4 DEF Ended, vars, lists, program, locals, world, history
  <2>2. Emptied'
    BY <2>1, EmptiedStays
  <2>3. QED
    BY <1>1, <2>1, <2>2, StaysAccount DEF AckInv, Account, RxStays, RxFields
<1>5. QED
  BY <1>2, <1>3, <1>4 DEF Environment


(***************************************************************************)
(* The other types.                                                        *)
(***************************************************************************)
OtherTypes ==
    /\ client \in Threads \union {"none"} /\ aibus \in Threads \union {"none"}
    /\ context \in Threads \union {"none"}
    /\ run \in BOOLEAN /\ process_active \in BOOLEAN /\ use_ack_cache \in BOOLEAN
    /\ multi_cache \in Seq(Arrived) /\ multi_expected_len \in Int
    /\ menu \in Seq(Out) /\ sent \in Seq(Out)
    /\ connected \subseteq Flagged /\ ci \in Nat
    /\ due \in [Devices -> 0..MaxDue]
    /\ arrivals \in 0..Len(Arrivals) /\ changes \in 0..MaxChanges

LEMMA ProcessTypes ==
    ASSUME AckInv, NEW t \in Threads, Process(t)
    PROVE  OtherTypes' /\ batch' \in Seq(Arrived) /\ wire' \in Seq(Arrived)
<1>1. OtherTypes /\ batch \in Seq(Arrived) /\ wire \in Seq(Arrived)
  BY DEF AckInv, Typed, OtherTypes
<1> USE DEF OtherTypes, locks, lists, program, caches, multi, locals, world, history
<1>2. CASE RdLock(t)
  BY <1>1, <1>2 DEF RdLock
<1>3. CASE RdRead(t)
  BY <1>1, <1>3, RdReadAccount DEF RdRead
<1>4. CASE WrLock(t)
  BY <1>1, <1>4 DEF WrLock
<1>5. CASE WrSend(t)
  <2>1. Received(due, Dest[Current]) \in [Devices -> 0..MaxDue]
    BY <1>1, ReceivedType
  <2>2. Current \in Out
    <3>1. tx.k \in 1..Len(ai_tx)
      BY <1>5 DEF WrSend, AckInv, BoxInv, Pointed, Cursor, Queued
    <3>2. QED
      BY <3>1, FramesOf DEF Current, AckInv, BoxInv
  <2>3. sent' \in Seq(Out)
    BY <1>1, <1>5, <2>2 DEF WrSend
  <2>4. UNCHANGED <<locks, lists, program, process_active, caches, multi, ci, wire, arrivals, acked, settled>>
    BY <1>5 DEF WrSend
  <2>5. due' = Received(due, Dest[Current])
    BY <1>5 DEF WrSend
  <2>6. QED
    BY <1>1, <2>1, <2>3, <2>4, <2>5
<1>6. CASE WrAwaited(t)
  BY <1>1, <1>6 DEF WrAwaited
<1>7. CASE WrEnd(t)
  BY <1>1, <1>7 DEF WrEnd
<1>8. CASE AwRead(t)
  BY <1>1, <1>8, EmptySeq DEF AwRead
<1>9. CASE AwRetry(t)
  <2>1. Received(due, aw.to) \in [Devices -> 0..MaxDue]
    BY <1>1, ReceivedType
  <2>2. QED
    BY <1>1, <1>9, <2>1 DEF AwRetry
<1>10. QED
  BY <1>2, <1>3, <1>4, <1>5, <1>6, <1>7, <1>8, <1>9 DEF Process

LEMMA CheckTypes ==
    ASSUME AckInv, CkScan \/ CkSend \/ CkAgain \/ CkAwaited \/ TakeClient \/ EndLoop
    PROVE  OtherTypes'
<1>1. OtherTypes
  BY DEF AckInv, Typed, OtherTypes
<1> USE DEF OtherTypes, locks, lists, program, caches, multi, locals, world, history
<1>2. CASE CkScan \/ CkSend \/ CkAgain
  BY <1>1, <1>2 DEF CkScan, CkSend, CkAgain, CkReturn
<1>3. CASE CkAwaited
  <2>1. /\ UNCHANGED <<aibus, context, ai_tx, aibus_cache, program, process_active, use_ack_cache, recent_tx,
                       multi, tx, world, history>>
        /\ client' \in {client, "none"}
    BY <1>3 DEF CkAwaited, CkReturn
  <2>2. ci' \in {ci, ci + 1, 1}
    BY <1>3 DEF CkAwaited, CkReturn
  <2>3. QED
    BY <1>1, <2>1, <2>2
<1>4. CASE TakeClient \/ EndLoop
  BY <1>1, <1>4 DEF TakeClient, EndLoop, Threads
<1>5. QED
  BY <1>2, <1>3, <1>4

LEMMA MainTypes ==
    ASSUME AckInv,
           \/ Activate \/ Write \/ PhoneChanged \/ SetAckCache \/ Drain \/ Handle
           \/ CreateMenu \/ ClearMenu \/ MenuProcess \/ MenuLook \/ Quit \/ JoinThread
    PROVE  OtherTypes'
<1>1. OtherTypes
  BY DEF AckInv, Typed, OtherTypes
<1> USE DEF OtherTypes, locks, lists, program, caches, multi, locals, world, history
<1>2. CASE Activate \/ SetAckCache \/ MenuProcess \/ JoinThread
  BY <1>1, <1>2 DEF Activate, SetAckCache, MenuProcess, JoinThread, Threads
<1>3. CASE PhoneChanged
  BY <1>1, <1>3, BoundAssumption DEF PhoneChanged
<1>4. CASE Write \/ ClearMenu
  BY <1>1, <1>4 DEF Write, ClearMenu
<1>5. CASE Drain
  BY <1>1, <1>5 DEF Drain, DrainTo
<1>6. CASE Handle \/ Quit
  BY <1>1, <1>6 DEF Handle, Quit, Threads
<1>7. CASE CreateMenu
  <2>1. \E m \in Out : menu' = <<m>>
    BY <1>7 DEF CreateMenu, Fresh
  <2>2. menu' \in Seq(Out)
    BY <2>1
  <2>3. QED
    BY <1>1, <1>7, <2>2 DEF CreateMenu
<1>8. CASE MenuLook
  <2>1. menu' \in Seq(Out)
    BY <1>8 DEF MenuLook
  <2>2. UNCHANGED <<locks, ai_tx, aibus_cache, run, batch, changes, connected, process_active, caches, multi,
                    locals, world, sent, acked>>
    BY <1>8 DEF MenuLook
  <2>3. QED
    BY <1>1, <2>1, <2>2
<1>9. QED
  BY <1>2, <1>3, <1>4, <1>5, <1>6, <1>7, <1>8

LEMMA WorldTypes ==
    ASSUME AckInv, Environment \/ Ended \/ UNCHANGED vars
    PROVE  OtherTypes'
<1>1. OtherTypes
  BY DEF AckInv, Typed, OtherTypes
<1> USE DEF OtherTypes, locks, lists, program, caches, multi, locals, world, history
<1>2. CASE Arrive
  <2>1. arrivals' \in 0..Len(Arrivals)
    BY <1>1, <1>2, ArrivalAssumption DEF Arrive
  <2>2. QED
    BY <1>1, <1>2, <2>1 DEF Arrive
<1>3. CASE \E d \in Devices : Acknowledge(d)
  <2>1. PICK d \in Devices : Acknowledge(d)
    BY <1>3
  <2>2. due' \in [Devices -> 0..MaxDue]
    BY <1>1, <2>1, BoundAssumption DEF Acknowledge
  <2>3. QED
    BY <1>1, <2>1, <2>2 DEF Acknowledge
<1>4. CASE Ended \/ UNCHANGED vars
  BY <1>1, <1>4 DEF Ended, vars
<1>5. QED
  BY <1>2, <1>3, <1>4 DEF Environment

LEMMA InitAck == Init => AckInv
<1> SUFFICES ASSUME Init PROVE AckInv
  OBVIOUS
<1>1. Typed
  <2>1. 0 \in 0..Len(Arrivals) /\ 0 \in 0..MaxChanges /\ [d \in Devices |-> 0] \in [Devices -> 0..MaxDue]
    BY ArrivalAssumption, BoundAssumption
  <2>2. "rx" \in DOMAIN tx /\ tx.rx \in Seq(Arrived) /\ "rx" \in DOMAIN aw /\ aw.rx \in Seq(Arrived)
    BY NoRx, EmptySeq DEF Init
  <2>3. {ai_rx, batch, multi_cache, wire} \subseteq Seq(Arrived)
    BY EmptySeq DEF Init
  <2>4. {ai_tx, aibus_cache, menu, sent} \subseteq Seq(Out)
    BY DEF Init
  <2>5. /\ client \in Threads \union {"none"} /\ aibus \in Threads \union {"none"}
        /\ context \in Threads \union {"none"}
        /\ run \in BOOLEAN /\ process_active \in BOOLEAN /\ use_ack_cache \in BOOLEAN
    BY DEF Init
  <2>6. /\ connected \subseteq Flagged /\ acked \subseteq Nat /\ settled \subseteq Nat
        /\ multi_expected_len \in Int /\ ci \in Nat
    BY DEF Init
  <2>7. due \in [Devices -> 0..MaxDue] /\ arrivals \in 0..Len(Arrivals) /\ changes \in 0..MaxChanges
    BY <2>1 DEF Init
  <2>8. QED
    BY <2>2, <2>3, <2>4, <2>5, <2>6, <2>7 DEF Typed
<1>2. Emptied /\ OnePair
  BY NoRx DEF Init, Emptied, OnePair
<1>3. OnceEach /\ Accounted /\ Numbered
  BY NoRx, NoNumbers DEF Init, OnceEach, Accounted, Apart, Numbered
<1>4. QED
  BY <1>1, <1>2, <1>3, InitBox DEF AckInv

LEMMA NextAck == AckInv /\ [Next]_vars => AckInv'
<1> SUFFICES ASSUME AckInv, [Next]_vars PROVE AckInv'
  OBVIOUS
<1>1. BoxInv'
  BY NextBox DEF AckInv
<1>2. /\ Emptied' /\ Account' /\ RxFields' /\ OtherTypes'
  <2>1. ASSUME NEW t \in Threads, Process(t)
        PROVE  Emptied' /\ Account' /\ RxFields' /\ OtherTypes'
    <3>1. OtherTypes' /\ batch' \in Seq(Arrived) /\ wire' \in Seq(Arrived)
      BY <2>1, ProcessTypes
    <3>2. CASE RdRead(t)
      <4>1. "rx" \in DOMAIN tx' /\ "rx" \in DOMAIN aw' /\ tx'.rx \in Seq(Arrived) /\ aw'.rx \in Seq(Arrived)
        BY <3>2 DEF RdRead, locals, AckInv, Typed
      <4>2. QED
        BY <3>1, <3>2, <4>1, RdReadAccount, RdReadEmptied DEF RxFields
    <3>3. CASE ~RdRead(t)
      BY <2>1, <3>1, <3>3, ProcessAccount DEF Process, RxFields
    <3>4. QED
      BY <3>2, <3>3
  <2>2. CASE SocketThread
    BY <2>1, <2>2, CheckAccount, CheckTypes DEF SocketThread, Threads
  <2>3. CASE MainThread
    BY <2>1, <2>3, MainAccount, MainTypes DEF MainThread, Threads
  <2>4. CASE Environment \/ Ended \/ UNCHANGED vars
    BY <2>4, WorldAccount, WorldTypes
  <2>5. QED
    BY <2>2, <2>3, <2>4 DEF Next
<1>3. OnePair'
  <2>1. CASE \E t \in Threads : RdRead(t)
    BY <2>1, RdReadAccount
  <2>2. CASE ~\E t \in Threads : RdRead(t)
    <3>1. UNCHANGED multi
      BY <2>2 DEF Next, SocketThread, MainThread, Process, Threads, Environment, Ended, vars,
             RdLock, WrLock, WrSend, WrAwaited, WrEnd, AwRead, AwRetry, CkScan, CkSend, CkAgain, CkAwaited,
             TakeClient, EndLoop, Activate, Write, PhoneChanged, SetAckCache, Drain, DrainTo, Handle,
             CreateMenu, ClearMenu, MenuProcess, MenuLook, Quit, JoinThread, Arrive, Acknowledge
    <3>2. QED
      BY <3>1 DEF multi, OnePair, AckInv
  <2>3. QED
    BY <2>1, <2>2
<1>4. acked' \subseteq Nat /\ settled' \subseteq Nat
  <2>1. acked' \subseteq 1..arrivals' /\ settled' \subseteq acked'
    BY <1>2 DEF Account, Numbered, Accounted
  <2>2. arrivals' \in Nat
    BY <1>2, ArrivalAssumption DEF OtherTypes
  <2>3. QED
    BY <2>1, <2>2
<1>5. Typed'
  BY <1>2, <1>4 DEF Typed, RxFields, OtherTypes
<1>6. QED
  BY <1>1, <1>2, <1>3, <1>5 DEF AckInv, Account


(***************************************************************************)
(* AckedOnce.                                                              *)
(***************************************************************************)
LEMMA AccountMeans == AckInv => AckedOnce
<1> SUFFICES ASSUME AckInv PROVE AckedOnce
  OBVIOUS
<1> DEFINE W == Numbers(aw.rx)
           T == Numbers(tx.rx)
           R == Numbers(ai_rx)
           B == Numbers(batch)
           a == aw.rx \o tx.rx
           b == a \o ai_rx
<1>1. /\ tx.rx \in Seq(Arrived) /\ aw.rx \in Seq(Arrived) /\ ai_rx \in Seq(Arrived)
      /\ batch \in Seq(Arrived)
  BY DEF AckInv, Typed
<1>2. Apart(settled, W, T, R, B) /\ acked = settled \union W \union T \union R \union B
  BY DEF AckInv, Accounted
<1>3. Once(aw.rx) /\ Once(tx.rx) /\ Once(ai_rx) /\ Once(batch)
  BY DEF AckInv, OnceEach
<1>4. a \in Seq(Arrived) /\ b \in Seq(Arrived) /\ Held = b \o batch
  BY <1>1 DEF Held
<1>5. Numbers(a) = W \union T /\ Once(a)
  BY <1>1, <1>2, <1>3, JoinedNumbers DEF Apart
<1> HIDE DEF a
<1>6. Numbers(b) = W \union T \union R /\ Once(b)
  BY <1>1, <1>2, <1>3, <1>4, <1>5, JoinedNumbers DEF Apart
<1> HIDE DEF b
<1>7. Numbers(Held) = W \union T \union R \union B /\ Once(Held)
  BY <1>1, <1>2, <1>3, <1>4, <1>6, JoinedNumbers DEF Apart
<1> HIDE DEF W, T, R, B
<1>8. acked = settled \union Numbers(Held) /\ settled \intersect Numbers(Held) = {}
  BY <1>2, <1>7 DEF Apart
<1>9. QED
  BY <1>7, <1>8 DEF AckedOnce, Once

\* An acknowledged message gets to the program, and once: whatever the two threads do,
\* it is in one place between read_stream, await_acknowledgment, the lists and the
\* batch until the program has handled it or its resend request is answered.
THEOREM EachMessageOnce == Spec => []AckedOnce
<1>1. QED
  BY InitAck, NextAck, AccountMeans, PTL DEF Spec

\* The fragments that read_stream keeps are of one sender, and to one receiver.
THEOREM FragmentsOfOnePair == Spec => []OnePair
<1>1. AckInv => OnePair
  BY DEF AckInv
<1>2. QED
  BY <1>1, InitAck, NextAck, PTL DEF Spec


(***************************************************************************)
(* What is kept for resending.                                             *)
(*                                                                         *)
(* cache_tx keeps one frame for each receiver: the last one it was given.  *)
(***************************************************************************)
Frame2 == Out \X Nat

OnePerReceiver(r) == \A j, k \in DOMAIN r : Dest[r[j][1]] = Dest[r[k][1]] => j = k

LEMMA CacheTxIs ==
    ASSUME NEW r \in Seq(Frame2), OnePerReceiver(r), NEW f \in Frame2
    PROVE  /\ CacheTx(r, f) \in Seq(Frame2) /\ OnePerReceiver(CacheTx(r, f))
           /\ f \in ToSet(CacheTx(r, f))
           /\ \A x \in ToSet(r) : Dest[x[1]] # Dest[f[1]] => x \in ToSet(CacheTx(r, f))
<1> DEFINE p == {k \in DOMAIN r : Dest[r[k][1]] # Dest[f[1]]}
           u == Picked(r, p)
           v == Append(u, f)
<1>1. CacheTx(r, f) = v
  BY DEF CacheTx, Those
<1>2. u \in Seq(Frame2) /\ Copies(u, r, p, Len(r)) /\ DOMAIN r = 1..Len(r)
  BY PickedIs
<1> HIDE DEF u
<1>3. PICK h \in [1..Len(u) -> 1..Len(r)] :
            /\ \A j \in 1..Len(u) : h[j] \in p /\ u[j] = r[h[j]]
            /\ \A j, k \in 1..Len(u) : h[j] = h[k] => j = k
            /\ \A x \in (1..Len(r)) \intersect p : \E j \in 1..Len(u) : h[j] = x
  BY <1>2, Zenon DEF Copies
<1> DEFINE n == Len(u)
<1>4. /\ v \in Seq(Frame2) /\ n \in Nat /\ DOMAIN v = 1..(n + 1) /\ v[n + 1] = f
      /\ \A j \in 1..n : v[j] = u[j]
  BY <1>2
<1>5. /\ \A j \in 1..(n + 1) : j \in 1..n \/ j = n + 1
      /\ n + 1 \in 1..(n + 1) /\ \A j \in 1..n : j \in 1..(n + 1)
  BY <1>4
<1> HIDE DEF v, n
<1>6. \A j \in 1..n : Dest[v[j][1]] # Dest[f[1]] /\ v[j] = r[h[j]] /\ h[j] \in DOMAIN r
  BY <1>2, <1>3, <1>4 DEF n
<1>7. OnePerReceiver(v)
  <2>1. SUFFICES ASSUME NEW j \in 1..(n + 1), NEW k \in 1..(n + 1), Dest[v[j][1]] = Dest[v[k][1]]
                 PROVE  j = k
    BY <1>4, Zenon DEF OnePerReceiver
  <2>2. CASE j \in 1..n /\ k \in 1..n
    <3>1. v[j] = r[h[j]] /\ v[k] = r[h[k]] /\ h[j] \in DOMAIN r /\ h[k] \in DOMAIN r
      BY <1>6, <2>2
    <3>2. Dest[r[h[j]][1]] = Dest[r[h[k]][1]]
      BY <2>1, <3>1
    <3>3. h[j] = h[k]
      BY <3>1, <3>2, Zenon DEF OnePerReceiver
    <3>4. QED
      BY <1>3, <2>2, <3>3, Zenon DEF n
  <2>3. CASE j = n + 1 /\ k = n + 1
    BY <2>3
  <2>4. CASE (j \in 1..n /\ k = n + 1) \/ (j = n + 1 /\ k \in 1..n)
    BY <1>4, <1>6, <2>1, <2>4, Zenon
  <2>5. QED
    BY <1>5, <2>2, <2>3, <2>4
<1>8. f \in ToSet(v)
  BY <1>4, <1>5, Zenon DEF ToSet
<1>9. ASSUME NEW x \in ToSet(r), Dest[x[1]] # Dest[f[1]] PROVE x \in ToSet(v)
  <2>1. PICK k \in DOMAIN r : x = r[k]
    BY <1>9 DEF ToSet
  <2>2. k \in (1..Len(r)) \intersect p
    BY <1>2, <1>9, <2>1
  <2>3. PICK j \in 1..n : h[j] = k
    BY <1>3, <2>2, Zenon DEF n
  <2>4. v[j] = x /\ j \in DOMAIN v
    BY <1>4, <1>5, <1>6, <2>1, <2>3, Zenon
  <2>5. QED
    BY <2>4, Zenon DEF ToSet
<1>10. QED
  BY <1>1, <1>4, <1>7, <1>8, <1>9

\* The frame at p is the last of the first n to its receiver.
LastAt(s, p, n) == \A k \in (p + 1)..n : Dest[s[k][1]] # Dest[s[p][1]]

LEMMA KeepLast ==
    ASSUME NEW r \in Seq(Frame2), OnePerReceiver(r), NEW s \in Seq(Frame2)
    PROVE  /\ KeepOver(r, s) \in Seq(Frame2) /\ OnePerReceiver(KeepOver(r, s))
           /\ \A p \in 1..Len(s) : LastAt(s, p, Len(s)) => s[p] \in ToSet(KeepOver(r, s))
           /\ \A x \in ToSet(r) : (\A k \in 1..Len(s) : Dest[s[k][1]] # Dest[x[1]])
                                     => x \in ToSet(KeepOver(r, s))
<1> DEFINE n == Len(s)
<1>1. n \in Nat /\ DOMAIN s = 1..n /\ \A k \in 1..n : s[k] \in Frame2
  OBVIOUS
<1>2. PICK v : /\ KeepOver(r, s) = v[n] /\ v[0] = r
               /\ \A k \in 1..n : v[k] = CacheTx(v[k - 1], s[k])
  BY <1>1, KeepSteps
<1> DEFINE T == {k \in 0..n :
                   /\ v[k] \in Seq(Frame2) /\ OnePerReceiver(v[k])
                   /\ \A p \in 1..k : LastAt(s, p, k) => s[p] \in ToSet(v[k])
                   /\ \A x \in ToSet(r) : (\A j \in 1..k : Dest[s[j][1]] # Dest[x[1]]) => x \in ToSet(v[k])}
<1>3. 0 \in T
  <2>1. 1..0 = {} /\ 0 \in 0..n
    BY <1>1
  <2>2. QED
    BY <1>2, <2>1
<1>4. ASSUME NEW k \in 1..n, k - 1 \in T PROVE k \in T
  <2> DEFINE u == v[k - 1]
             w == CacheTx(u, s[k])
  <2>1. /\ u \in Seq(Frame2) /\ OnePerReceiver(u)
        /\ \A p \in 1..(k - 1) : LastAt(s, p, k - 1) => s[p] \in ToSet(u)
        /\ \A x \in ToSet(r) : (\A j \in 1..(k - 1) : Dest[s[j][1]] # Dest[x[1]]) => x \in ToSet(u)
    BY <1>4
  <2>2. s[k] \in Frame2 /\ v[k] = w
    BY <1>1, <1>2
  <2>3. /\ k \in 0..n /\ \A p \in 1..k : p = k \/ (p \in 1..(k - 1) /\ k \in (p + 1)..k)
        /\ \A p \in 1..(k - 1) : p \in 1..k
        /\ \A p \in 1..(k - 1) : \A j \in (p + 1)..(k - 1) : j \in (p + 1)..k
        /\ k \in 1..k
    BY <1>1
  <2> HIDE DEF u, w
  <2>4. /\ w \in Seq(Frame2) /\ OnePerReceiver(w) /\ s[k] \in ToSet(w)
        /\ \A x \in ToSet(u) : Dest[x[1]] # Dest[s[k][1]] => x \in ToSet(w)
    BY <2>1, <2>2, CacheTxIs, Zenon DEF w
  <2>5. ASSUME NEW p \in 1..k, LastAt(s, p, k) PROVE s[p] \in ToSet(w)
    <3>1. CASE p = k
      BY <2>4, <3>1
    <3>2. CASE p \in 1..(k - 1) /\ k \in (p + 1)..k
      <4>1. LastAt(s, p, k - 1) /\ Dest[s[k][1]] # Dest[s[p][1]]
        BY <2>3, <2>5, <3>2, Zenon DEF LastAt
      <4>2. QED
        BY <2>1, <2>4, <3>2, <4>1, Zenon
    <3>3. QED
      BY <2>3, <3>1, <3>2
  <2>6. ASSUME NEW x \in ToSet(r), \A j \in 1..k : Dest[s[j][1]] # Dest[x[1]] PROVE x \in ToSet(w)
    <3>1. x \in ToSet(u) /\ Dest[s[k][1]] # Dest[x[1]]
      BY <2>1, <2>3, <2>6, Zenon
    <3>2. QED
      BY <2>4, <3>1, Zenon
  <2>7. QED
    BY <2>2, <2>3, <2>4, <2>5, <2>6
<1>5. \A k \in 0..n : k \in T
  <2> HIDE DEF T, n
  <2>1. QED
    BY <1>1, <1>3, <1>4, InductTo
<1>6. n \in T
  BY <1>1, <1>5
<1>7. QED
  BY <1>2, <1>6

\* The last frame of m is the last to its receiver in u.
EndsWith(u, m) ==
    \E p \in 1..Len(u) : u[p] = <<m, Frags[m] - 1>> /\ LastAt(u, p, Len(u))

LEMMA SplitIs ==
    ASSUME NEW m \in Out
    PROVE  /\ Split(m) \in Seq(Frame2) /\ Len(Split(m)) = Frags[m] /\ Frags[m] \in Nat \ {0}
           /\ \A j \in 1..Frags[m] : Split(m)[j] = <<m, j - 1>>
<1>1. Frags[m] \in Nat \ {0}
  BY OutAssumption
<1>2. \A j \in 1..Frags[m] : <<m, j - 1>> \in Frame2
  BY <1>1 DEF Frame2
<1>3. QED
  BY <1>1, <1>2 DEF Split

\* After the frames of one message more.
LEMMA SplitEnds ==
    ASSUME NEW u \in Seq(Frame2), NEW m \in Out
    PROVE  /\ u \o Split(m) \in Seq(Frame2) /\ EndsWith(u \o Split(m), m)
           /\ \A q \in Out : EndsWith(u, q) /\ Dest[q] # Dest[m] => EndsWith(u \o Split(m), q)
           /\ \A j \in 1..Len(u \o Split(m)) :
                 (u \o Split(m))[j][1] = m \/ \E i \in 1..Len(u) : (u \o Split(m))[j] = u[i]
<1> DEFINE a == Len(u)
           b == Frags[m]
           t == Split(m)
           w == u \o t
<1>1. t \in Seq(Frame2) /\ Len(t) = b /\ b \in Nat \ {0} /\ \A j \in 1..b : t[j] = <<m, j - 1>>
  BY SplitIs
<1> HIDE DEF t
<1>2. /\ w \in Seq(Frame2) /\ Len(w) = a + b /\ a \in Nat
      /\ \A j \in 1..a : w[j] = u[j]
      /\ \A j \in 1..b : w[a + j] = t[j]
  <2> HIDE DEF b
  <2>1. w \in Seq(Frame2) /\ Len(w) = a + Len(t) /\ a \in Nat
    <3>1. u \in Seq(Frame2) /\ t \in Seq(Frame2)
      BY <1>1
    <3>2. w \in Seq(Frame2)
      BY <3>1
    <3>3. Len(w) = Len(u) + Len(t)
      BY <3>1
    <3>4. QED
      BY <3>2, <3>3
  <2>2. \A j \in 1..a : w[j] = u[j]
    BY <1>1
  <2>3. \A j \in 1..Len(t) : w[a + j] = t[j]
    BY <1>1
  <2>4. QED
    BY <1>1, <2>1, <2>2, <2>3
<1> HIDE DEF w, a, b
<1>3. \A j \in 1..(a + b) : j \in 1..a \/ (j > a /\ j - a \in 1..b /\ a + (j - a) = j)
  BY <1>1, <1>2
<1>4. ASSUME NEW j \in 1..(a + b), j > a PROVE w[j] = <<m, (j - a) - 1>>
  <2>1. j - a \in 1..b /\ a + (j - a) = j
    BY <1>1, <1>2, <1>4
  <2>2. w[a + (j - a)] = t[j - a] /\ t[j - a] = <<m, (j - a) - 1>>
    BY <1>1, <1>2, <2>1, Zenon
  <2>3. QED
    BY <2>1, <2>2
<1>5. EndsWith(w, m)
  <2>1. a + b \in 1..Len(w) /\ a + b > a /\ (a + b) - a = b /\ (a + b + 1)..Len(w) = {}
    BY <1>1, <1>2
  <2>2. w[a + b] = <<m, b - 1>>
    BY <1>2, <1>4, <2>1
  <2>3. LastAt(w, a + b, Len(w))
    BY <2>1 DEF LastAt
  <2>4. QED
    BY <2>1, <2>2, <2>3, Zenon DEF EndsWith, b
<1>6. ASSUME NEW q \in Out, EndsWith(u, q), Dest[q] # Dest[m] PROVE EndsWith(w, q)
  <2>1. PICK p \in 1..a : u[p] = <<q, Frags[q] - 1>> /\ LastAt(u, p, a)
    BY <1>6, Zenon DEF EndsWith, a
  <2>2. w[p] = u[p] /\ p \in 1..Len(w)
    BY <1>1, <1>2
  <2>3. ASSUME NEW k \in (p + 1)..(a + b) PROVE Dest[w[k][1]] # Dest[w[p][1]]
    <3>1. w[p][1] = q
      BY <2>1, <2>2
    <3>2. k \in 1..(a + b)
      BY <1>1, <1>2
    <3>3. CASE k \in 1..a
      <4>1. k \in (p + 1)..a
        BY <1>1, <1>2, <3>3
      <4>2. QED
        BY <1>2, <2>1, <2>2, <3>3, <4>1 DEF LastAt
    <3>4. CASE k > a
      BY <1>4, <1>6, <3>1, <3>2, <3>4
    <3>5. QED
      BY <1>3, <3>2, <3>3, <3>4
  <2>4. LastAt(w, p, Len(w))
    BY <1>2, <2>3 DEF LastAt
  <2>5. QED
    BY <2>1, <2>2, <2>4, Zenon DEF EndsWith
<1>7. ASSUME NEW j \in 1..Len(w) PROVE w[j][1] = m \/ \E i \in 1..a : w[j] = u[i]
  <2>1. CASE j \in 1..a
    BY <1>2, <2>1
  <2>2. CASE j > a
    BY <1>2, <1>4, <2>2
  <2>3. QED
    BY <1>2, <1>3, <2>1, <2>2
<1>8. QED
  BY <1>2, <1>5, <1>6, <1>7 DEF w, t, a


\* The frames of the messages x, as write_stream splits them.
Frames(x) == FlattenSeq([k \in DOMAIN x |-> Split(x[k])])

\* The message at k is the last of the first n to its receiver.
LastFor(x, k, n) == \A l \in (k + 1)..n : Dest[x[l]] # Dest[x[k]]

LEMMA FramesSteps ==
    ASSUME NEW x \in Seq(Out)
    PROVE  \E v : /\ Frames(x) = v[Len(x)] /\ v[0] = << >>
                  /\ \A k \in 1..Len(x) : v[k] = v[k - 1] \o Split(x[k])
<1> DEFINE n == Len(x)
           ss == [k \in 1..n |-> Split(x[k])]
<1>1. n \in Nat /\ DOMAIN x = 1..n /\ \A k \in 1..n : x[k] \in Out
  OBVIOUS
<1>2. Len(ss) = n /\ \A k \in 1..n : ss[k] = Split(x[k])
  BY <1>1
<1>3. Frames(x) = FlattenSeq(ss)
  BY <1>1 DEF Frames
<1>4. CASE n = 0
  <2> DEFINE v == [k \in 0..0 |-> << >>]
  <2>1. Frames(x) = << >>
    BY <1>2, <1>3, <1>4 DEF FlattenSeq
  <2>2. v[0] = << >> /\ Frames(x) = v[n] /\ 1..n = {}
    BY <1>4, <2>1
  <2> HIDE DEF v
  <2>3. QED
    BY <2>2
<1>5. CASE n # 0
  <2> HIDE DEF ss, n
  <2>1. PICK g : /\ FlattenSeq(ss) = g[n] /\ g[1] = ss[1]
                 /\ \A k \in 2..n : g[k] = g[k - 1] \o ss[k]
    BY <1>1, <1>2, <1>5, FlattenSteps
  <2> DEFINE v == [k \in 0..n |-> IF k = 0 THEN << >> ELSE g[k]]
  <2>2. v[0] = << >> /\ v[n] = g[n] /\ \A k \in 1..n : v[k] = g[k]
    BY <1>1, <1>5
  <2>3. ASSUME NEW k \in 1..n PROVE v[k] = v[k - 1] \o Split(x[k])
    <3>1. Split(x[k]) \in Seq(Frame2)
      BY <1>1, SplitIs
    <3>2. CASE k = 1
      <4>1. v[k] = Split(x[k]) /\ v[k - 1] = << >>
        BY <1>1, <1>2, <2>1, <2>2, <3>2
      <4>2. << >> \o Split(x[k]) = Split(x[k])
        BY <3>1
      <4>3. QED
        BY <4>1, <4>2
    <3>3. CASE k # 1
      <4>1. k \in 2..n /\ k - 1 \in 1..n
        BY <1>1, <3>3
      <4>2. v[k] = g[k] /\ v[k - 1] = g[k - 1]
        BY <2>2, <4>1
      <4> HIDE DEF v
      <4>3. QED
        BY <1>2, <2>1, <4>1, <4>2, Zenon
    <3>4. QED
      BY <3>2, <3>3
  <2> HIDE DEF v
  <2>4. QED
    BY <1>3, <2>1, <2>2, <2>3, Zenon DEF n
<1>6. QED
  BY <1>4, <1>5

LEMMA FramesAre ==
    ASSUME NEW x \in Seq(Out)
    PROVE  /\ Frames(x) \in Seq(Frame2)
           /\ \A j \in 1..Len(Frames(x)) : \E k \in 1..Len(x) : Frames(x)[j][1] = x[k]
           /\ \A k \in 1..Len(x) : LastFor(x, k, Len(x)) => EndsWith(Frames(x), x[k])
<1> DEFINE n == Len(x)
<1>1. n \in Nat /\ \A k \in 1..n : x[k] \in Out
  OBVIOUS
<1>2. PICK v : /\ Frames(x) = v[n] /\ v[0] = << >>
               /\ \A k \in 1..n : v[k] = v[k - 1] \o Split(x[k])
  BY FramesSteps
<1> DEFINE T == {k \in 0..n :
                   /\ v[k] \in Seq(Frame2)
                   /\ \A j \in 1..Len(v[k]) : \E l \in 1..k : v[k][j][1] = x[l]
                   /\ \A l \in 1..k : LastFor(x, l, k) => EndsWith(v[k], x[l])}
<1>3. 0 \in T
  <2>1. 1..0 = {} /\ 0 \in 0..n /\ Len(<< >>) = 0 /\ << >> \in Seq(Frame2)
    BY <1>1
  <2>2. QED
    BY <1>2, <2>1
<1>4. ASSUME NEW k \in 1..n, k - 1 \in T PROVE k \in T
  <2> DEFINE u == v[k - 1]
             w == u \o Split(x[k])
  <2>1. /\ u \in Seq(Frame2)
        /\ \A j \in 1..Len(u) : \E l \in 1..(k - 1) : u[j][1] = x[l]
        /\ \A l \in 1..(k - 1) : LastFor(x, l, k - 1) => EndsWith(u, x[l])
    BY <1>4
  <2>2. v[k] = w /\ x[k] \in Out
    BY <1>1, <1>2
  <2>3. /\ k \in 0..n /\ k \in 1..k
        /\ \A l \in 1..k : l = k \/ (l \in 1..(k - 1) /\ k \in (l + 1)..k)
        /\ \A l \in 1..(k - 1) : l \in 1..k /\ l \in 1..n
        /\ \A l \in 1..(k - 1) : \A j \in (l + 1)..(k - 1) : j \in (l + 1)..k
    BY <1>1
  <2> HIDE DEF u
  <2>4. /\ w \in Seq(Frame2) /\ EndsWith(w, x[k])
        /\ \A q \in Out : EndsWith(u, q) /\ Dest[q] # Dest[x[k]] => EndsWith(w, q)
        /\ \A j \in 1..Len(w) : w[j][1] = x[k] \/ \E i \in 1..Len(u) : w[j] = u[i]
    BY <2>1, <2>2, SplitEnds
  <2> HIDE DEF w
  <2>5. ASSUME NEW j \in 1..Len(w) PROVE \E l \in 1..k : w[j][1] = x[l]
    BY <2>1, <2>3, <2>4
  <2>6. ASSUME NEW l \in 1..k, LastFor(x, l, k) PROVE EndsWith(w, x[l])
    <3>1. CASE l = k
      BY <2>4, <3>1
    <3>2. CASE l \in 1..(k - 1) /\ k \in (l + 1)..k
      <4>1. LastFor(x, l, k - 1) /\ Dest[x[k]] # Dest[x[l]]
        BY <2>3, <2>6, <3>2, Zenon DEF LastFor
      <4>2. EndsWith(u, x[l]) /\ x[l] \in Out
        BY <1>1, <2>1, <2>3, <3>2, <4>1
      <4>3. QED
        BY <2>4, <4>1, <4>2, Zenon
    <3>3. QED
      BY <2>3, <3>1, <3>2
  <2>7. QED
    BY <2>2, <2>3, <2>4, <2>5, <2>6
<1>5. \A k \in 0..n : k \in T
  <2> HIDE DEF T, n
  <2>1. QED
    BY <1>1, <1>3, <1>4, InductTo
<1>6. n \in T
  <2>1. n \in 0..n
    BY <1>1
  <2> HIDE DEF T, n
  <2>2. QED
    BY <1>5, <2>1
<1>7. QED
  BY <1>2, <1>6

(***************************************************************************)
(* Between two lists the frame kept for a receiver is the last of the last *)
(* message to it; while a list is written, that of the n messages before   *)
(* the list.                                                               *)
(***************************************************************************)
Written(n) ==
    /\ Len(sent) = n + (Position.k - 1)
    /\ \A j \in 1..(Position.k - 1) : sent[n + j] = ai_tx[j]

LastKept(n) ==
    \A q \in 1..n : LastFor(sent, q, n) => <<sent[q], Frags[sent[q]] - 1>> \in ToSet(recent_tx)

Kept ==
    /\ recent_tx \in Seq(Frame2) /\ OnePerReceiver(recent_tx)
    /\ Position.k <= Len(ai_tx) + 1
    /\ \E n \in Nat : Written(n) /\ LastKept(n)

LatestInv == AckInv /\ Kept

\* The n messages before the list stay what they are.
LEMMA LastKeptStays ==
    ASSUME NEW n \in Nat, LastKept(n), recent_tx' = recent_tx, \A q \in 1..n : sent'[q] = sent[q]
    PROVE  LastKept(n)'
<1>1. ASSUME NEW q \in 1..n, \A l \in (q + 1)..n : Dest[sent'[l]] # Dest[sent'[q]]
      PROVE  <<sent'[q], Frags[sent'[q]] - 1>> \in ToSet(recent_tx')
  <2>1. \A l \in (q + 1)..n : l \in 1..n
    OBVIOUS
  <2>2. LastFor(sent, q, n)
    BY <1>1, <2>1 DEF LastFor
  <2>3. QED
    BY <2>2 DEF LastKept
<1>2. QED
  BY <1>1 DEF LastKept, LastFor

LEMMA SentType == ASSUME AckInv
                  PROVE  /\ sent \in Seq(Out) /\ Len(sent) \in Nat /\ Position.k \in Nat \ {0}
                         /\ ai_tx \in Seq(Out) /\ Len(ai_tx) \in Nat
<1>1. sent \in Seq(Out) /\ ai_tx \in Seq(Out) /\ Position.k \in Nat \ {0}
  BY PositionAt DEF AckInv, Typed, BoxInv, Queued
<1>2. QED
  BY <1>1

LEMMA StaysKept ==
    ASSUME LatestInv, AckInv', Stays, recent_tx' = recent_tx
    PROVE  Kept'
<1>1. PICK n \in Nat : Written(n) /\ LastKept(n)
  BY DEF LatestInv, Kept
<1>2. Written(n)'
  <2>1. sent' = sent /\ Position'.k = Position.k
    BY DEF Stays
  <2>2. \A j \in 1..(Position.k - 1) : ai_tx'[j] = ai_tx[j]
    BY DEF Stays
  <2>3. QED
    BY <1>1, <2>1, <2>2 DEF Written
<1>3. LastKept(n)'
  BY <1>1, LastKeptStays DEF Stays
<1>4. Position'.k <= Len(ai_tx') + 1
  <2>1. Len(ai_tx') \in Nat /\ Len(ai_tx) \in Nat /\ Position.k \in Nat
    BY SentType DEF LatestInv, AckInv, BoxInv, Queued
  <2>2. QED
    BY <2>1 DEF LatestInv, Kept, Stays
<1>5. QED
  BY <1>1, <1>2, <1>3, <1>4 DEF LatestInv, Kept

LEMMA FrameKept ==
    ASSUME LatestInv, AckInv', OneFrame, recent_tx' = recent_tx
    PROVE  Kept'
<1>1. PICK n \in Nat : Written(n) /\ LastKept(n)
  BY DEF LatestInv, Kept
<1> DEFINE k == tx.k
           i == tx.i
<1>2. /\ k \in 1..Len(ai_tx) /\ Position.k = k /\ i \in Nat /\ Current = ai_tx[k]
      /\ Frags[Current] \in Nat \ {0} /\ i < Frags[Current] /\ ai_tx' = ai_tx
  <2>1. k \in 1..Len(ai_tx) /\ Position.k = k /\ Current = ai_tx[k] /\ ai_tx' = ai_tx
    BY DEF OneFrame, Current
  <2>2. Frags[Current] \in Nat \ {0}
    BY <2>1, FramesOf DEF LatestInv, AckInv, BoxInv
  <2>3. i \in Nat /\ i < Frags[Current]
    BY <2>1 DEF LatestInv, AckInv, BoxInv, Pointed, Cursor
  <2>4. QED
    BY <2>1, <2>2, <2>3
<1>3. sent \in Seq(Out) /\ Len(sent) = n + (k - 1) /\ Len(ai_tx) \in Nat /\ Current \in Out
  <2>1. Current \in Out
    BY <1>2, SentType DEF LatestInv
  <2>2. QED
    BY <1>1, <1>2, <2>1, SentType DEF LatestInv, Written
<1>4. CASE i + 1 < Frags[Current]
  <2>1. sent' = sent /\ Position'.k = k
    BY <1>2, <1>4 DEF OneFrame, NextK
  <2>2. QED
    BY <1>2, <2>1, StaysKept DEF Stays, LatestInv, AckInv, BoxInv, Queued
<1>5. CASE i + 1 = Frags[Current]
  <2>1. sent' = Append(sent, Current) /\ Position'.k = k + 1
    BY <1>2, <1>5 DEF OneFrame, NextK
  <2> HIDE DEF k, i
  <2>2. Len(sent') = n + k /\ sent'[n + k] = Current /\ \A q \in 1..(n + (k - 1)) : sent'[q] = sent[q]
    BY <1>2, <1>3, <2>1
  <2>3. Written(n)'
    <3>1. ASSUME NEW j \in 1..k PROVE sent'[n + j] = ai_tx[j]
      <4>1. CASE j = k
        BY <1>2, <2>2, <4>1
      <4>2. CASE j # k
        <5>1. j \in 1..(k - 1) /\ n + j \in 1..(n + (k - 1))
          BY <1>2, <4>2
        <5>2. QED
          BY <1>1, <1>2, <2>2, <5>1 DEF Written
      <4>3. QED
        BY <4>1, <4>2
    <3>2. (k + 1) - 1 = k
      BY <1>2
    <3>3. QED
      BY <1>2, <2>1, <2>2, <3>1, <3>2 DEF Written
  <2>4. LastKept(n)'
    <3>1. \A q \in 1..n : sent'[q] = sent[q]
      BY <1>2, <2>2
    <3>2. QED
      BY <1>1, <3>1, LastKeptStays
  <2>5. Position'.k <= Len(ai_tx') + 1
    BY <1>2, <1>3, <2>1
  <2>6. QED
    BY <2>3, <2>4, <2>5 DEF LatestInv, Kept
<1>6. QED
  BY <1>2, <1>4, <1>5


\* A list written to its end: its messages are the last.
LEMMA EndKept ==
    ASSUME LatestInv, AckInv', Ends
    PROVE  Kept'
<1>1. PICK n \in Nat : Written(n) /\ LastKept(n)
  BY DEF LatestInv, Kept
<1> DEFINE m == Len(ai_tx)
           r == recent_tx'
<1>2. /\ m \in Nat /\ Position.k = m + 1 /\ sent \in Seq(Out) /\ Len(sent) = n + m
      /\ \A j \in 1..m : sent[n + j] = ai_tx[j]
  <2>1. m \in Nat /\ Position.k \in Nat /\ sent \in Seq(Out)
    BY SentType DEF LatestInv
  <2>2. Position.k = m + 1
    BY <2>1 DEF LatestInv, Kept, Ends
  <2>3. (m + 1) - 1 = m
    BY <2>1
  <2>4. QED
    BY <1>1, <2>1, <2>2, <2>3 DEF Written
<1>3. /\ Frames(ai_tx) \in Seq(Frame2)
      /\ \A j \in 1..Len(Frames(ai_tx)) : \E k \in 1..m : Frames(ai_tx)[j][1] = ai_tx[k]
      /\ \A k \in 1..m : LastFor(ai_tx, k, m) => EndsWith(Frames(ai_tx), ai_tx[k])
  BY SentType, FramesAre DEF LatestInv
<1> DEFINE s == Frames(ai_tx)
<1>4. r = KeepOver(recent_tx, s)
  BY Zenon DEF Ends, KeepOver, Frames
<1>5. /\ r \in Seq(Frame2) /\ OnePerReceiver(r)
      /\ \A p \in 1..Len(s) : LastAt(s, p, Len(s)) => s[p] \in ToSet(r)
      /\ \A x \in ToSet(recent_tx) : (\A k \in 1..Len(s) : Dest[s[k][1]] # Dest[x[1]]) => x \in ToSet(r)
  BY <1>3, <1>4, KeepLast DEF LatestInv, Kept
<1> HIDE DEF s, m, r
<1>6. ASSUME NEW q \in 1..(n + m), LastFor(sent, q, n + m)
      PROVE  <<sent[q], Frags[sent[q]] - 1>> \in ToSet(r)
  <2>1. CASE q \in 1..n
    <3>1. /\ \A l \in (q + 1)..n : l \in (q + 1)..(n + m)
          /\ \A j \in 1..m : n + j \in (q + 1)..(n + m)
      BY <1>2, <2>1
    <3>2. LastFor(sent, q, n)
      BY <1>6, <3>1 DEF LastFor
    <3>3. <<sent[q], Frags[sent[q]] - 1>> \in ToSet(recent_tx)
      BY <1>1, <2>1, <3>2 DEF LastKept
    <3>4. \A j \in 1..m : Dest[ai_tx[j]] # Dest[sent[q]]
      BY <1>2, <1>6, <3>1 DEF LastFor
    <3>5. \A k \in 1..Len(s) : Dest[s[k][1]] # Dest[sent[q]]
      <4>1. ASSUME NEW k \in 1..Len(s) PROVE Dest[s[k][1]] # Dest[sent[q]]
        <5>1. PICK j \in 1..m : s[k][1] = ai_tx[j]
          BY <1>3 DEF s
        <5>2. QED
          BY <3>4, <5>1
      <4>2. QED
        BY <4>1
    <3>6. QED
      BY <1>5, <3>3, <3>5
  <2>2. CASE q > n
    <3> DEFINE k == q - n
    <3>1. k \in 1..m /\ n + k = q /\ \A l \in (k + 1)..m : n + l \in (q + 1)..(n + m) /\ l \in 1..m
      BY <1>2, <2>2
    <3> HIDE DEF k
    <3>2. sent[q] = ai_tx[k]
      BY <1>2, <3>1
    <3>3. LastFor(ai_tx, k, m)
      BY <1>2, <1>6, <3>1, <3>2 DEF LastFor
    <3>4. EndsWith(s, ai_tx[k])
      BY <1>3, <3>1, <3>3 DEF s
    <3>5. QED
      BY <1>5, <3>2, <3>4 DEF EndsWith
  <2>3. QED
    BY <1>2, <2>1, <2>2
<1>7. sent' = sent /\ ai_tx' = << >> /\ Position'.k = 1
  BY DEF Ends
<1> PICK c \in Nat : c = n + m
  BY <1>2
<1>8. Written(c)'
  <2>1. 1 - 1 = 0 /\ 1..0 = {}
    OBVIOUS
  <2>2. Len(sent') = c + (Position'.k - 1)
    BY <1>2, <1>7, <2>1
  <2>3. 1..(Position'.k - 1) = {}
    BY <1>7, <2>1
  <2>4. QED
    BY <2>1, <2>2, <2>3 DEF Written
<1>9. LastKept(c)'
  BY <1>6, <1>7 DEF LastKept, LastFor, r
<1>10. Position'.k <= Len(ai_tx') + 1
  BY <1>7
<1>11. QED
  BY <1>5, <1>8, <1>9, <1>10 DEF Kept, r

LEMMA NextLatest == LatestInv /\ [Next]_vars => LatestInv'
<1> SUFFICES ASSUME LatestInv, [Next]_vars PROVE LatestInv'
  OBVIOUS
<1>1. AckInv'
  BY NextAck DEF LatestInv
<1>2. OneUser' /\ BoxInv
  BY <1>1 DEF LatestInv, AckInv, BoxInv
<1>3. ASSUME NEW t \in Threads, WrSend(t), OneFrame PROVE Kept'
  BY <1>1, <1>3, FrameKept DEF WrSend, caches
<1>4. ASSUME NEW t \in Threads, WrEnd(t), Ends PROVE Kept'
  BY <1>1, <1>4, EndKept
<1>5. ASSUME Stays, recent_tx' = recent_tx PROVE Kept'
  BY <1>1, <1>5, StaysKept
<1>6. Kept'
  BY <1>2, <1>3, <1>4, <1>5, NextPlace
<1>7. QED
  BY <1>1, <1>6 DEF LatestInv

LEMMA InitLatest == Init => LatestInv
<1> SUFFICES ASSUME Init PROVE LatestInv
  OBVIOUS
<1>1. Position.k = 1
  BY NoTxAt DEF Init, Position, Threads
<1>2. recent_tx = << >> /\ sent = << >> /\ ai_tx = << >>
  BY DEF Init
<1>3. Written(0) /\ LastKept(0)
  BY <1>1, <1>2 DEF Written, LastKept
<1>4. Kept
  BY <1>1, <1>2, <1>3 DEF Kept, OnePerReceiver
<1>5. QED
  BY <1>4, InitAck DEF LatestInv

\* The last element that has been picked is the one with the highest position.
LEMMA PickedLast ==
    ASSUME NEW S, NEW s \in Seq(S), NEW p, Picked(s, p) # << >>
    PROVE  \E q \in 1..Len(s) : /\ q \in p /\ Last(Picked(s, p)) = s[q]
                                /\ \A x \in (q + 1)..Len(s) : x \notin p
<1> DEFINE u == Picked(s, p)
           m == Len(u)
           n == Len(s)
<1>1. u \in Seq(S) /\ Copies(u, s, p, n) /\ n \in Nat
  BY PickedIs
<1> HIDE DEF u
<1>2. m \in Nat \ {0} /\ u # << >> /\ Last(u) = u[m]
  BY <1>1 DEF Last, u
<1>3. PICK h \in [1..m -> 1..n] :
            /\ \A j \in 1..m : h[j] \in p /\ u[j] = s[h[j]]
            /\ \A j, k \in 1..m : j < k => h[j] < h[k]
            /\ \A x \in (1..n) \intersect p : \E j \in 1..m : h[j] = x
  BY <1>1, Zenon DEF Copies
<1>4. m \in 1..m /\ h[m] \in 1..n
  BY <1>2, <1>3
<1>5. ASSUME NEW x \in (h[m] + 1)..n, x \in p PROVE FALSE
  <2>1. x \in (1..n) \intersect p /\ h[m] < x
    BY <1>1, <1>4, <1>5
  <2>2. PICK j \in 1..m : h[j] = x
    BY <1>3, <2>1
  <2>3. j = m \/ j < m
    BY <1>2
  <2>4. CASE j < m
    <3>1. h[j] < h[m] /\ h[j] \in 1..n
      BY <1>3, <1>4, <2>4
    <3>2. QED
      BY <1>4, <2>1, <2>2, <3>1
  <2>5. QED
    BY <1>4, <2>1, <2>2, <2>3, <2>4
<1>6. QED
  BY <1>2, <1>3, <1>4, <1>5 DEF u

LEMMA LatestMeans == LatestInv => ResendIsLatest
<1> SUFFICES ASSUME LatestInv, client = "none", NEW d \in Devices,
                    Those(sent, LAMBDA m : Dest[m] = d) # << >>
             PROVE  /\ Those(recent_tx, LAMBDA r : Dest[r[1]] = d) # << >>
                    /\ Those(recent_tx, LAMBDA r : Dest[r[1]] = d)[1] =
                          <<Last(Those(sent, LAMBDA m : Dest[m] = d)),
                            Frags[Last(Those(sent, LAMBDA m : Dest[m] = d))] - 1>>
  BY Zenon DEF ResendIsLatest
<1> DEFINE to == Picked(sent, {k \in DOMAIN sent : Dest[sent[k]] = d})
           kept == Picked(recent_tx, {k \in DOMAIN recent_tx : Dest[recent_tx[k][1]] = d})
<1>1. Those(sent, LAMBDA m : Dest[m] = d) = to
  BY DEF Those
<1>2. Those(recent_tx, LAMBDA r : Dest[r[1]] = d) = kept
  BY DEF Those
<1>3. /\ sent \in Seq(Out) /\ Len(sent) \in Nat /\ DOMAIN sent = 1..Len(sent)
      /\ recent_tx \in Seq(Frame2) /\ DOMAIN recent_tx = 1..Len(recent_tx)
  BY SentType DEF LatestInv, Kept
<1>4. Position.k = 1
  <2>1. ~Writing("wrSend") /\ ~Writing("wrWait")
    BY DEF Writing, LatestInv, AckInv, BoxInv, OneUser, OneReader, Inside, Threads
  <2>2. QED
    BY <2>1 DEF Position, Writing, LatestInv, AckInv, BoxInv, Pointed
<1>5. LastKept(Len(sent))
  <2>1. PICK n \in Nat : Written(n) /\ LastKept(n)
    BY DEF LatestInv, Kept
  <2>2. n = Len(sent)
    BY <1>4, <2>1 DEF Written
  <2>3. QED
    BY <2>1, <2>2
<1>6. PICK q \in 1..Len(sent) : /\ Dest[sent[q]] = d /\ Last(to) = sent[q]
                                /\ \A x \in (q + 1)..Len(sent) : Dest[sent[x]] # d
  <2> DEFINE p == {k \in DOMAIN sent : Dest[sent[k]] = d}
  <2>1. Picked(sent, p) # << >>
    BY <1>1
  <2> HIDE DEF p
  <2>2. PICK q \in 1..Len(sent) : /\ q \in p /\ Last(Picked(sent, p)) = sent[q]
                                  /\ \A x \in (q + 1)..Len(sent) : x \notin p
    BY <1>3, <2>1, PickedLast
  <2>3. \A x \in (q + 1)..Len(sent) : x \in DOMAIN sent
    BY <1>3
  <2>4. Dest[sent[q]] = d /\ \A x \in (q + 1)..Len(sent) : Dest[sent[x]] # d
    BY <2>2, <2>3 DEF p
  <2>5. QED
    BY <2>2, <2>4 DEF p
<1> DEFINE e == <<sent[q], Frags[sent[q]] - 1>>
<1>7. PICK k \in DOMAIN recent_tx : recent_tx[k] = e
  <2>1. LastFor(sent, q, Len(sent))
    BY <1>6 DEF LastFor
  <2>2. e \in ToSet(recent_tx)
    BY <1>5, <2>1 DEF LastKept
  <2>3. QED
    BY <2>2 DEF ToSet
<1>8. Dest[recent_tx[k][1]] = d
  BY <1>6, <1>7
<1>9. kept # << >> /\ kept[1] = e
  <2> DEFINE p == {j \in DOMAIN recent_tx : Dest[recent_tx[j][1]] = d}
             u == Picked(recent_tx, p)
             n == Len(recent_tx)
  <2>1. u \in Seq(Frame2) /\ Copies(u, recent_tx, p, n)
    BY <1>3, PickedIs
  <2>2. \A j \in p : j = k
    BY <1>7, <1>8 DEF LatestInv, Kept, OnePerReceiver
  <2>3. k \in (1..n) \intersect p
    BY <1>3, <1>8
  <2> HIDE DEF u, p
  <2>4. PICK h \in [1..Len(u) -> 1..n] :
            /\ \A j \in 1..Len(u) : h[j] \in p /\ u[j] = recent_tx[h[j]]
            /\ \A x \in (1..n) \intersect p : \E j \in 1..Len(u) : h[j] = x
    BY <2>1, Zenon DEF Copies
  <2>5. PICK j \in 1..Len(u) : h[j] = k
    BY <2>3, <2>4
  <2>6. u # << >> /\ 1 \in 1..Len(u)
    BY <2>1, <2>5
  <2>7. u[1] = recent_tx[h[1]] /\ h[1] = k
    BY <2>2, <2>4, <2>6
  <2>8. QED
    BY <1>7, <2>6, <2>7 DEF u, p
<1>10. QED
  BY <1>1, <1>2, <1>6, <1>9

\* The frame a device gets when it asks for a repetition is the last frame of the
\* last message that was written to it, for any messages, split or not: cache_tx
\* keeps it however the lists were cut, and the frame of an earlier list or of
\* another fragment is gone.
THEOREM ResendsTheLatest == Spec => []ResendIsLatest
<1>1. QED
  BY InitLatest, NextLatest, LatestMeans, PTL DEF Spec

\* Every variable has its type, and there is one frame for each receiver in recent_tx.
THEOREM LinkTypes == Spec => []TypeOK
<1>1. LatestInv => TypeOK
  <2> SUFFICES ASSUME LatestInv PROVE TypeOK
    OBVIOUS
  <2>1. Typed /\ Placed /\ Queued /\ OnePerReceiver(recent_tx)
    BY DEF LatestInv, AckInv, BoxInv, OneUser, Kept
  <2>2. {client, aibus, context} \subseteq Threads \union {"none"} /\ pc \in [Threads -> Labels]
    BY <2>1 DEF Typed, Placed
  <2>3. {run, process_active, use_ack_cache} \subseteq BOOLEAN
    BY <2>1 DEF Typed
  <2>4. {ai_rx, batch, multi_cache, wire} \subseteq Seq(Arrived)
    BY <2>1 DEF Typed
  <2>5. {ai_tx, aibus_cache, menu, sent} \subseteq Seq(Out)
    BY <2>1 DEF Typed, Queued
  <2>6. QED
    BY <2>1, <2>2, <2>3, <2>4, <2>5 DEF Typed, OnePerReceiver, TypeOK
<1>2. QED
  BY <1>1, InitLatest, NextLatest, PTL DEF Spec

===============================================================================
