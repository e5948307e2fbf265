------------------------- MODULE SerialAIBusHandler -------------------------
(***************************************************************************)
(* The transmit queue of the Linux-side link layer (AIBus Common/          *)
(* Serial_AIBus_Handler.cpp): writeToCache, called by the program's main   *)
(* thread, puts messages in the vectors cached_tx and cached_ack, and a    *)
(* thread made for the purpose (flushCached) sends them.  Two plain bools, *)
(* main_locked and thread_locked, are meant to keep the two threads apart. *)
(*                                                                         *)
(* A step of the model is one access to a shared variable.  What happens   *)
(* on the serial port between such accesses (frames, acknowledgements,     *)
(* repetitions) is the subject of module AIBusHandler and is left out, but *)
(* every call of readAIData that writing and reading make is kept, because *)
(* it saves, sets and restores main_locked, whichever thread makes it.     *)
(*                                                                         *)
(* The empty loops on the two flags are taken to load the flag each time,  *)
(* as an unoptimised build does.  Vector operations of the two threads     *)
(* that overlap may undo each other (LosePush, LoseErase).                 *)
(***************************************************************************)
EXTENDS Naturals, Sequences, FiniteSets

CONSTANTS
    Main,        \* the thread of the program's main loop
    Threads,     \* threads that pthread_create can make
    AckFlags,    \* AckFlags[k]: the k-th message is to be acknowledged
    MaxNesting,  \* bound: depth of readAIData calls within one another
    MaxLeaks     \* bound: returns of readAIData that do not restore main_locked

Actors == {Main} \union Threads

\* The k-th message the program gives to writeToCache is represented by k.
Messages == 1..Len(AckFlags)

ASSUME ActorAssumption == Main \notin Threads
ASSUME FlagAssumption == AckFlags \in Seq(BOOLEAN)
ASSUME SerialBounds == MaxNesting \in Nat \ {0} /\ MaxLeaks \in Nat

VARIABLES
    main_locked,
    thread_locked,
    cache_thread_enabled,
    cached_tx,
    cached_ack,
    pc,          \* where each thread is; "none" is a thread that does not exist
    saved,       \* saved[p]: last_main_locked of p's readAIData calls, innermost last
    half,        \* threads between saving main_locked (line 102) and setting it (103)
    written,     \* messages given to writeToCache so far
    sent,        \* <<message, flag>> as the thread sent them (history)
    overlapped,  \* both threads have used the vectors at the same time (history)
    leaks        \* unrestored returns so far

flags == <<main_locked, thread_locked, cache_thread_enabled>>
queue == <<cached_tx, cached_ack, written, sent, overlapped>>
reads == <<saved, half, leaks>>
vars == <<flags, queue, pc, reads>>

Goto(p, l) == pc' = [pc EXCEPT ![p] = l]
Move(p, from, to) == pc[p] = from /\ Goto(p, to)
Outermost(p) == saved[p] = << >> /\ p \notin half

-----------------------------------------------------------------------------
(* readAIData, by either thread.                                           *)

\* The main loop polls the port.  It gives up while the thread is sending.
PollRead ==
    /\ ~thread_locked
    /\ Move(Main, "idle", "poll")
    /\ UNCHANGED <<flags, queue, reads>>

\* cachePending passes cache = false, for which thread_locked is not tested.
CachePending ==
    /\ Move(Main, "idle", "poll")
    /\ UNCHANGED <<flags, queue, reads>>

\* Line 102.  A write may read any number of times, before it transmits and for
\* its acknowledgement; reads write acknowledgements, which read in turn.
SaveFlag(p) ==
    /\ pc[p] \in {"poll", "write", "ping", "sending"}
    /\ p \notin half
    /\ Len(saved[p]) < MaxNesting
    /\ saved' = [saved EXCEPT ![p] = Append(@, main_locked)]
    /\ half' = half \union {p}
    /\ UNCHANGED <<flags, queue, pc, leaks>>

\* Line 103.
SetFlag(p) ==
    /\ p \in half
    /\ main_locked' = TRUE
    /\ half' = half \ {p}
    /\ UNCHANGED <<thread_locked, cache_thread_enabled, queue, pc, saved, leaks>>

\* The innermost call returns; a poll is over with its outermost call.
Return(p) ==
    /\ saved[p] # << >>
    /\ p \notin half
    /\ saved' = [saved EXCEPT ![p] = SubSeq(@, 1, Len(@) - 1)]
    /\ IF pc[p] = "poll" /\ Len(saved[p]) = 1 THEN Goto(p, "idle") ELSE UNCHANGED pc

\* Most returns restore main_locked.
RestoreFlag(p) ==
    /\ Return(p)
    /\ main_locked' = saved[p][Len(saved[p])]
    /\ UNCHANGED <<thread_locked, cache_thread_enabled, queue, half, leaks>>

\* Lines 200, 210 and 219 do not: a fragment of another split message, or a
\* resend request, to whomever it is addressed.
LeakFlag(p) ==
    /\ leaks < MaxLeaks
    /\ Return(p)
    /\ leaks' = leaks + 1
    /\ UNCHANGED <<flags, queue, half>>

-----------------------------------------------------------------------------
(* The main thread's writes.                                               *)

\* writeAIData from the main thread tests neither flag.
DirectWrite ==
    /\ Move(Main, "idle", "write")
    /\ UNCHANGED <<flags, queue, reads>>

\* The navigation computer's ping round asks getCacheEnabled before it writes.
Ping ==
    /\ ~cache_thread_enabled
    /\ Move(Main, "idle", "ping")
    /\ UNCHANGED <<flags, queue, reads>>

WriteDone ==
    /\ pc[Main] \in {"write", "ping"}
    /\ Outermost(Main)
    /\ Goto(Main, "idle")
    /\ UNCHANGED <<flags, queue, reads>>

\* writeToCache is called; it waits at line 385.
WriteToCache ==
    /\ written < Len(AckFlags)
    /\ Move(Main, "idle", "spin")
    /\ UNCHANGED <<flags, queue, reads>>

Unblocked ==
    /\ ~thread_locked
    /\ Move(Main, "spin", "lock")
    /\ UNCHANGED <<flags, queue, reads>>

Lock ==
    /\ Move(Main, "lock", "push_tx")
    /\ main_locked' = TRUE
    /\ UNCHANGED <<thread_locked, cache_thread_enabled, queue, reads>>

\* Threads that hold a reference into cached_tx, or are about to change it.
UsersOfTx == {t \in Threads : pc[t] \in {"sending", "erase_tx"}}
UsersOfAck == {t \in Threads : pc[t] = "erase_ack"}

\* Line 388.
PushTx ==
    /\ Move(Main, "push_tx", "push_ack")
    /\ written' = written + 1
    /\ cached_tx' = Append(cached_tx, written + 1)
    /\ overlapped' = (overlapped \/ UsersOfTx # {})
    /\ UNCHANGED <<flags, cached_ack, sent, reads>>

\* Lines 390-393.  AckFlags has FALSE for broadcasts.
PushAck ==
    /\ Move(Main, "push_ack", "unlock")
    /\ cached_ack' = Append(cached_ack, AckFlags[written])
    /\ overlapped' = (overlapped \/ UsersOfAck # {})
    /\ UNCHANGED <<flags, cached_tx, written, sent, reads>>

Unlock ==
    /\ Move(Main, "unlock", "enable")
    /\ main_locked' = FALSE
    /\ UNCHANGED <<thread_locked, cache_thread_enabled, queue, reads>>

\* Mutant of Enable: the new thread is left to set cache_thread_enabled.
EnableLate ==
    /\ pc[Main] = "enable"
    /\ IF cache_thread_enabled THEN Goto(Main, "idle") ELSE Goto(Main, "create")
    /\ UNCHANGED <<flags, queue, reads>>

\* Lines 397-398.  When the test is false no thread exists that could change
\* the flag between the two lines.
Enable ==
    /\ pc[Main] = "enable"
    /\ IF cache_thread_enabled
       THEN Goto(Main, "idle") /\ UNCHANGED cache_thread_enabled
       ELSE Goto(Main, "create") /\ cache_thread_enabled' = TRUE
    /\ UNCHANGED <<main_locked, thread_locked, queue, reads>>

CreateThread(t) ==
    /\ pc[Main] = "create"
    /\ pc[t] = "none"
    /\ pc' = [pc EXCEPT ![Main] = "idle", ![t] = "start"]
    /\ UNCHANGED <<flags, queue, reads>>

-----------------------------------------------------------------------------
(* The thread: flushCached.                                                *)

Start(t) ==
    /\ Move(t, "start", "settle")
    /\ cache_thread_enabled' = TRUE
    /\ UNCHANGED <<main_locked, thread_locked, queue, reads>>

\* Lines 789-798: 20 ms without a change of the queue's size, as far as the
\* loop has seen.
Settle(t) ==
    /\ Move(t, "settle", "wait")
    /\ UNCHANGED <<flags, queue, reads>>

\* Line 802.
MainFree(t) ==
    /\ ~main_locked
    /\ Move(t, "wait", "claim")
    /\ UNCHANGED <<flags, queue, reads>>

Claim(t) ==
    /\ Move(t, "claim", "test")
    /\ thread_locked' = TRUE
    /\ UNCHANGED <<main_locked, cache_thread_enabled, queue, reads>>

\* Mutant of SendFirst: the loop tests cached_tx only, and reads a flag beyond
\* the end of cached_ack.
SendFirstUntested(t) ==
    /\ cached_tx # << >>
    /\ Move(t, "test", "sending")
    /\ \E flag \in BOOLEAN :
          /\ cached_ack # << >> => flag = Head(cached_ack)
          /\ sent' = Append(sent, <<Head(cached_tx), flag>>)
    /\ UNCHANGED <<flags, cached_tx, cached_ack, written, overlapped, reads>>

\* Lines 806-807.
SendFirst(t) ==
    /\ cached_tx # << >> /\ cached_ack # << >>
    /\ Move(t, "test", "sending")
    /\ sent' = Append(sent, <<Head(cached_tx), Head(cached_ack)>>)
    /\ UNCHANGED <<flags, cached_tx, cached_ack, written, overlapped, reads>>

SendDone(t) ==
    /\ Outermost(t)
    /\ Move(t, "sending", "erase_tx")
    /\ UNCHANGED <<flags, queue, reads>>

\* Line 809.
EraseTx(t) ==
    /\ Move(t, "erase_tx", "erase_ack")
    /\ cached_tx' = Tail(cached_tx)
    /\ UNCHANGED <<flags, cached_ack, written, sent, overlapped, reads>>

\* Line 810.
EraseAck(t) ==
    /\ Move(t, "erase_ack", "test")
    /\ cached_ack' = Tail(cached_ack)
    /\ UNCHANGED <<flags, cached_tx, written, sent, overlapped, reads>>

\* The vectors' operations are not atomic: when both threads change cached_tx at
\* once, the end that one of them stores may be overwritten by the other.
ClashTx(t) ==
    /\ pc[Main] = "push_tx" /\ pc[t] = "erase_tx"
    /\ pc' = [pc EXCEPT ![Main] = "push_ack", ![t] = "erase_ack"]
    /\ \/ cached_tx' = Tail(cached_tx)
       \/ cached_tx' = Append(cached_tx, written + 1)
    /\ written' = written + 1
    /\ overlapped' = TRUE
    /\ UNCHANGED <<flags, cached_ack, sent, reads>>

ClashAck(t) ==
    /\ pc[Main] = "push_ack" /\ pc[t] = "erase_ack"
    /\ pc' = [pc EXCEPT ![Main] = "unlock", ![t] = "test"]
    /\ \/ cached_ack' = Tail(cached_ack)
       \/ cached_ack' = Append(cached_ack, AckFlags[written])
    /\ overlapped' = TRUE
    /\ UNCHANGED <<flags, cached_tx, written, sent, reads>>

\* Mutant of Release: the flag stays set.
ReleaseForgotten(t) ==
    /\ cached_tx = << >> \/ cached_ack = << >>
    /\ Move(t, "test", "finish")
    /\ UNCHANGED <<flags, queue, reads>>

\* Mutant of Release: both flags are reset at once.
ReleaseBoth(t) ==
    /\ cached_tx = << >> \/ cached_ack = << >>
    /\ Move(t, "test", "finish")
    /\ thread_locked' = FALSE
    /\ cache_thread_enabled' = FALSE
    /\ UNCHANGED <<main_locked, queue, reads>>

\* Line 812, when one of the vectors is empty.
Release(t) ==
    /\ cached_tx = << >> \/ cached_ack = << >>
    /\ Move(t, "test", "finish")
    /\ thread_locked' = FALSE
    /\ UNCHANGED <<main_locked, cache_thread_enabled, queue, reads>>

\* Line 814.  The thread ends.
Finish(t) ==
    /\ Move(t, "finish", "none")
    /\ cache_thread_enabled' = FALSE
    /\ UNCHANGED <<main_locked, thread_locked, queue, reads>>

-----------------------------------------------------------------------------
Init ==
    /\ main_locked = FALSE
    /\ thread_locked = FALSE
    /\ cache_thread_enabled = FALSE
    /\ cached_tx = << >>
    /\ cached_ack = << >>
    /\ pc = [p \in Actors |-> IF p = Main THEN "idle" ELSE "none"]
    /\ saved = [p \in Actors |-> << >>]
    /\ half = {}
    /\ written = 0
    /\ sent = << >>
    /\ overlapped = FALSE
    /\ leaks = 0

MainStep ==
    WriteDone \/ Unblocked \/ Lock \/ PushTx \/ PushAck \/ Unlock \/ Enable
        \/ (\E t \in Threads : CreateThread(t) \/ ClashTx(t) \/ ClashAck(t))

ThreadStep(t) ==
    Start(t) \/ Settle(t) \/ MainFree(t) \/ Claim(t) \/ SendFirst(t) \/ SendDone(t)
        \/ EraseTx(t) \/ EraseAck(t) \/ Release(t) \/ Finish(t)

Next ==
    \/ PollRead \/ CachePending \/ DirectWrite \/ Ping \/ WriteToCache
    \/ MainStep
    \/ \E p \in Actors : SaveFlag(p) \/ SetFlag(p) \/ RestoreFlag(p) \/ LeakFlag(p)
    \/ \E t \in Threads : ThreadStep(t)

\* Both threads are scheduled.  A read ends: it waits for nothing longer than its
\* timers; so does a write, after at most MAX_REPEAT repetitions; and a thread
\* that tests main_locked all the time sees it reset if it is reset again and
\* again.  The main loop need not call anything.
Fairness ==
    /\ \A p \in Actors : /\ WF_vars(SetFlag(p))
                         /\ \A n \in 1..MaxNesting : SF_vars(Len(saved[p]) = n /\ RestoreFlag(p))
    /\ WF_vars(MainStep) /\ SF_vars(WriteDone)
    /\ \A t \in Threads : WF_vars(ThreadStep(t)) /\ SF_vars(SendDone(t)) /\ SF_vars(MainFree(t))

Spec == Init /\ [][Next]_vars
FairSpec == Spec /\ Fairness

-----------------------------------------------------------------------------
(* Properties.                                                             *)

MainPlaces ==
    {"idle", "poll", "write", "ping", "spin", "lock", "push_tx", "push_ack", "unlock", "enable", "create"}
ThreadPlaces ==
    {"none", "start", "settle", "wait", "claim", "test", "sending", "erase_tx", "erase_ack", "finish"}

\* The values of the flags, the queue, the places in the code and the bounds.
TypeOK ==
    /\ {main_locked, thread_locked, cache_thread_enabled, overlapped} \subseteq BOOLEAN
    /\ cached_tx \in Seq(Messages)
    /\ cached_ack \in Seq(BOOLEAN)
    /\ pc \in [Actors -> MainPlaces \union ThreadPlaces]
    /\ pc[Main] \in MainPlaces
    /\ \A t \in Threads : pc[t] \in ThreadPlaces
    /\ saved \in [Actors -> Seq(BOOLEAN)]
    /\ half \subseteq Actors
    /\ written \in 0..Len(AckFlags)
    /\ sent \in Seq(Messages \X BOOLEAN)
    /\ leaks \in 0..MaxLeaks

\* At most one thread flushes the queue, however the calls of writeToCache fall
\* between the end of a flush and the start of the next.
OneFlusher == \A t, u \in Threads : pc[t] # "none" /\ pc[u] # "none" => t = u

\* The test of getCacheEnabled keeps a ping off the port while the thread sends:
\* the flag is set before the thread exists and reset after it has sent.
PingAlone == pc[Main] = "ping" => \A t \in Threads : pc[t] = "none"

\* The queue is sent in order, each message once and with its own flag, although
\* a message and its flag are pushed and erased separately and the locks do not
\* exclude the threads, unless the two have really used the vectors at once.
SentInOrder ==
    ~overlapped => \A k \in 1..Len(sent) : sent[k] = <<k, AckFlags[k]>>

\* The main thread does not wait for the flushing thread forever (line 385).
WriteToCacheReturns == pc[Main] = "spin" ~> pc[Main] = "idle"

=============================================================================
