---------------------------- MODULE AIBusHandler ----------------------------
(***************************************************************************)
(* The AIBus link layer of the Arduino-side devices (AIBus Common/         *)
(* AIBus_Handler.cpp): acknowledged writes with retransmission, the cache  *)
(* of messages read while a write is in progress, split (0x91) messages    *)
(* and resend (0x92) requests, for any number of devices on one bus.       *)
(*                                                                         *)
(* The handler is single threaded but deeply re-entrant: writing drains    *)
(* the receive buffer first, draining reads, reading acknowledges, and an  *)
(* acknowledgement is a write.  Every device therefore has a call stack of *)
(* activation records; a step of the model is one frame read, one frame    *)
(* written, or one timer that runs out in the call on top of that stack.   *)
(*                                                                         *)
(* Abstractions.  A frame carries one unit of data (AIDATA_LIMIT bytes);   *)
(* a message of several units is a split message.  Bytes, checksums and    *)
(* the split points are left out.  elapsedMillis timers are replaced by    *)
(* nondeterminism: a timer may run out whenever the code tests it.  A      *)
(* device does not hear its own frames (lines 166-167 discard that echo    *)
(* and change nothing).  The acknowledgement cache (setAckCache) is off:   *)
(* ack_cache_len is -1.                                                    *)
(***************************************************************************)
EXTENDS Naturals, Sequences, FiniteSets

CONSTANTS
    Devices,          \* the IDs on the bus; each device has one ID
    Broadcast,        \* the ID 0xFF
    Script,           \* Script[d]: the messages that d's program writes, in order
    MaxRepeat,        \* MAX_REPEAT
    CacheSize,        \* capacity of cached_vec
    TxSize,           \* capacity of tx_vec
    MultiLimit,       \* multi_cache_limit
    AllowStaggered,   \* allow_staggered_multi
    MaxLoss,          \* bound: transmissions that the bus damages
    MaxExpiry         \* bound: timers of split messages that lead to a resend request

Others(d) == Devices \ {d}
Addresses == Devices \union {Broadcast}

\* One unit of payload: the number of the message, from 1, and the position in it.
Unit == Nat \X Nat
Missing == <<0, 0>>   \* no data: a fragment that the assembly skipped
Junk == <<0, 1>>      \* bytes of full_data that were never written

\* A message or a frame: kind, sender, receiver, fragment count and index
\* (data[1] and data[2] of a 0x91 frame) and data.
Frame == {f \in [t : {"msg", "frag", "ack", "resend", "bad"}, s : Addresses, r : Addresses,
                  n : Nat, i : Nat, d : Seq(Unit)] :
            f.t = "frag" => Len(f.d) = 1 /\ f.i < f.n}
Fragments == {f \in Frame : f.t = "frag"}

Short(t, s, r) == [t |-> t, s |-> s, r |-> r, n |-> 1, i |-> 0, d |-> << >>]
Ack(s, r) == Short("ack", s, r)          \* the one-byte message 0x80
ResendMsg(s, r) == Short("resend", s, r) \* the one-byte message 0x92

\* What the receiver sees of a damaged frame: a frame that fails checkValidity.
Damaged(f) == [f EXCEPT !.t = "bad"]

\* ai_group[i] of writeAIBusToSerial.
Fragment(m, i) ==
    [t |-> "frag", s |-> m.s, r |-> m.r, n |-> Len(m.d), i |-> i, d |-> <<m.d[i + 1]>>]

SamePair(f, g) == f.s = g.s /\ f.r = g.r

ASSUME DeviceAssumption ==
    Broadcast \notin Devices
ASSUME BoundAssumption ==
    /\ {MaxRepeat, CacheSize, TxSize, MultiLimit, MaxLoss, MaxExpiry} \subseteq Nat
    /\ MaxRepeat > 0 /\ CacheSize > 0
    /\ AllowStaggered \in BOOLEAN
\* The units of a message tell it from the others of its device.
ASSUME ScriptAssumption ==
    \A d \in Devices :
        /\ Script[d] \in Seq(Frame)
        /\ \A k \in 1..Len(Script[d]) :
              LET m == Script[d][k]
              IN m.t = "msg" /\ m.s = d /\ m.d # << >>
        /\ \A j, k \in 1..Len(Script[d]) : Script[d][j].d = Script[d][k].d => j = k

VARIABLES
    rx,        \* rx[d]: frames in d's serial receive buffer
    cached,    \* cached[d]: cached_vec
    stack,     \* stack[d]: calls in progress in d's handler, the innermost last
    multi,     \* multi[d]: multi_cache; multi_cache_pos is its length
    tx,        \* tx[d]: tx_vec, the last message written for each pair
    inbox,     \* inbox[d]: messages readAIData handed to d's program (history)
    outcome,   \* outcome[d]: results of the writes of Script[d] (history)
    repeated,  \* pairs <<s, r>> for which s wrote a frame again (history)
    losses,    \* transmissions damaged so far
    expiries   \* timers of split messages that ran out, counted up to MaxExpiry + 1

vars == <<rx, cached, stack, multi, tx, inbox, outcome, repeated, losses, expiries>>

-----------------------------------------------------------------------------
(* Calls.  A write is in the loop over the fragments ("group"), in the     *)
(* cachePending loop before transmission ("drain"), in the read loop right *)
(* after it ("collect") or in awaitAcknowledgement ("await").  A read is   *)
(* waiting for requestResend before it looks at any data ("enter"), for    *)
(* its acknowledgement to go out ("ack"), for a resend after which it      *)
(* returns no data ("nodata"), or in the blocking loop over the fragments  *)
(* of a split message ("loop").                                            *)

WritePC == {"group", "drain", "collect", "await"}
ReadPC == {"enter", "ack", "nodata", "loop"}

WriteRecord == [pc : WritePC, m : Frame, ack : BOOLEAN, tries : Nat, k : Nat, ok : BOOLEAN]
ReadRecord == {c \in [pc : ReadPC, m : Frame, cache : BOOLEAN, multi : BOOLEAN,
                       k : Nat, got : Seq(Unit)] :
                 c.pc = "loop" => c.m.t = "frag" /\ Len(c.got) = c.m.n /\ c.k <= c.m.n}

Call == WriteRecord \union ReadRecord

Push(s, c) == Append(s, c)
Pop(s) == SubSeq(s, 1, Len(s) - 1)
Top(s) == s[Len(s)]
SetTop(s, c) == [s EXCEPT ![Len(s)] = c]
TopIs(d, pcs) == stack[d] # << >> /\ Top(stack[d]).pc \in pcs

\* Mutant of WriteCall: ack_sent starts as true.
WriteCallAckSent(m, ack) ==
    [pc |-> IF Len(m.d) > 1 THEN "group" ELSE "drain", m |-> m, ack |-> ack,
     tries |-> 0, k |-> 0, ok |-> TRUE]

\* A call of writeAIBusToSerial.  Messages of several units go out as fragments.
WriteCall(m, ack) ==
    [pc |-> IF Len(m.d) > 1 THEN "group" ELSE "drain", m |-> m, ack |-> ack,
     tries |-> 0, k |-> 0, ok |-> Len(m.d) > 1]

\* A call of readAIDataErr that is suspended in a write it made.
ReadCall(pc, m, flags) ==
    [pc |-> pc, m |-> m, cache |-> flags.cache, multi |-> flags.multi, k |-> 0, got |-> << >>]

\* Mutant of Remember: fragments are kept like messages.
RememberFragments(d, m) ==
    IF m.r = Broadcast \/ m.t = "ack" THEN tx[d]
    ELSE {e \in tx[d] : ~SamePair(e, m)} \union {m}

\* tx_vec after a write of m: it keeps one message per pair, and drops m when
\* it is full.  Acknowledgements, fragments and broadcasts are not kept.
Remember(d, m) ==
    IF m.r = Broadcast \/ m.t \in {"ack", "frag"}
    THEN tx[d]
    ELSE LET others == {e \in tx[d] : ~SamePair(e, m)}
         IN IF Cardinality(others) < TxSize THEN others \union {m} ELSE others

\* Mutant of CacheMessage: a Vector that does not check its capacity.
CacheMessageUnchecked(c, x) == IF x.t # "ack" THEN Append(c, x) ELSE c

\* cacheMessage: push_back on a Vector that is full does nothing.
CacheMessage(c, x) == IF x.t # "ack" /\ Len(c) < CacheSize THEN Append(c, x) ELSE c

-----------------------------------------------------------------------------
(* Returning from readAIDataErr with message x to the caller on top of s.   *)

\* Mutant of Keeps: messages of the device that must acknowledge are dropped.
KeepsThirdParty(d, w, x) == x.s \notin {w.m.s, w.m.r} /\ x.r \in {d, w.m.s, Broadcast}

\* The writer w, in a device of ID d, has read x: is x an answer to it, or
\* something to keep for the program?
IsAckFor(w, x) == x.t = "ack" /\ x.s = w.m.r /\ x.r = w.m.s
Keeps(d, w, x) == x.s # w.m.s /\ x.r \in {d, w.m.s, Broadcast}

\* The loop over fragments: x continues the message whose first fragment is c.m.
Continues(c, x) == x.t = "frag" /\ SamePair(x, c.m) /\ x.n = c.m.n

ResumeStack(s, x) ==
    IF s = << >> THEN s
    ELSE LET c == Top(s)
         IN CASE c.pc \in {"collect", "await"} /\ IsAckFor(c, x) ->
                   SetTop(s, [c EXCEPT !.ok = TRUE])
              [] c.pc = "loop" /\ Continues(c, x) /\ x.i >= c.k ->
                   SetTop(s, [c EXCEPT !.got[x.i + 1] = x.d[1], !.k = c.k + 1])
              [] OTHER -> s

\* Mutant of ResumeCached: cachePending reads but does not cache.
ResumeCachedNotPending(d, c, s, x) ==
    IF s # << >> /\ Top(s).pc \in {"collect", "await"} /\ Keeps(d, Top(s), x)
    THEN CacheMessage(c, x) ELSE c

ResumeCached(d, c, s, x) ==
    IF s = << >> THEN c
    ELSE LET w == Top(s)
         IN IF \/ w.pc \in {"drain", "collect", "await"} /\ ~IsAckFor(w, x) /\ Keeps(d, w, x)
               \/ w.pc = "loop" /\ ~Continues(w, x) /\ x.r \in {w.m.r, Broadcast}
            THEN CacheMessage(c, x) ELSE c

ResumeInbox(d, s, x) ==
    IF s = << >> /\ x.r \in {d, Broadcast} /\ x.t # "ack"
    THEN Append(inbox[d], x) ELSE inbox[d]

\* readAIDataErr returns x; s is the stack without the read, c the cache.
ReturnMessage(d, s, c, x) ==
    /\ stack' = [stack EXCEPT ![d] = ResumeStack(s, x)]
    /\ cached' = [cached EXCEPT ![d] = ResumeCached(d, c, s, x)]
    /\ inbox' = [inbox EXCEPT ![d] = ResumeInbox(d, s, x)]

\* readAIDataErr returns without a message: every caller just goes on.
ReturnNoData(d, s) ==
    /\ stack' = [stack EXCEPT ![d] = s]
    /\ UNCHANGED <<cached, inbox>>

-----------------------------------------------------------------------------
(* Reading.                                                                *)

\* Some code of d is about to call readAIData: the program's loop, or a loop
\* of the call on top of the stack.
Reads(d) ==
    \/ stack[d] = << >>
    \/ TopIs(d, {"drain"}) /\ rx[d] # << >> /\ Len(cached[d]) < CacheSize
    \/ TopIs(d, {"collect"}) /\ rx[d] # << >>
    \/ TopIs(d, {"await"}) /\ rx[d] # << >> /\ ~Top(stack[d]).ok /\ Top(stack[d]).tries < MaxRepeat
    \/ TopIs(d, {"loop"}) /\ Top(stack[d]).k < Top(stack[d]).m.n
    \/ TopIs(d, {"enter"})

\* The arguments "cache" and "multi" of that call.
Flags(d) ==
    CASE stack[d] = << >> -> [cache |-> TRUE, multi |-> TRUE]
      [] TopIs(d, {"loop"}) -> [cache |-> TRUE, multi |-> FALSE]
      [] TopIs(d, {"enter"}) -> [cache |-> Top(stack[d]).cache, multi |-> Top(stack[d]).multi]
      [] OTHER -> [cache |-> FALSE, multi |-> TRUE]

\* The stack to which that call returns.  A drain loop that has read once may
\* end on its 5 ms timer.
Base(d) ==
    CASE TopIs(d, {"enter"}) -> Pop(stack[d])
      [] TopIs(d, {"drain"}) -> SetTop(stack[d], [Top(stack[d]) EXCEPT !.k = 1])
      [] OTHER -> stack[d]

\* Lines 75-87: a split message has been incomplete for over 500 ms.  The read
\* drops it and asks for it again before it looks at any data.
ExpireMulti(d) ==
    /\ Reads(d)
    /\ ~TopIs(d, {"enter"})
    /\ multi[d] # << >>
    /\ expiries < MaxExpiry
    /\ expiries' = expiries + 1
    /\ multi' = [multi EXCEPT ![d] = << >>]
    /\ LET f == multi[d][1]
           m == ResendMsg(d, f.s)
       IN IF f.r = d
          THEN /\ stack' = [stack EXCEPT ![d] =
                               Push(Push(Base(d), ReadCall("enter", m, Flags(d))), WriteCall(m, TRUE))]
               /\ tx' = [tx EXCEPT ![d] = Remember(d, m)]
          ELSE UNCHANGED <<stack, tx>>
    /\ UNCHANGED <<rx, cached, inbox, outcome, repeated, losses>>

\* Mutant of ReadCached: the newest cached message first.
ReadCachedNewest(d) ==
    /\ Reads(d)
    /\ Flags(d).cache
    /\ cached[d] # << >>
    /\ ReturnMessage(d, Base(d), Pop(cached[d]), Top(cached[d]))
    /\ UNCHANGED <<rx, multi, tx, outcome, repeated, losses, expiries>>

\* Lines 90-98: the oldest cached message, when the call allows it.
ReadCached(d) ==
    /\ Reads(d)
    /\ Flags(d).cache
    /\ cached[d] # << >>
    /\ ReturnMessage(d, Base(d), Tail(cached[d]), Head(cached[d]))
    /\ UNCHANGED <<rx, multi, tx, outcome, repeated, losses, expiries>>

\* Mutant of AssembledSlot: fragments are numbered from 1.
AssembledSlotFromOne(frags, f, p) ==
    LET hits == {j \in 1..Len(frags) : frags[j].i = p + 1 /\ SamePair(frags[j], f)}
    IN IF hits = {} THEN Missing
       ELSE frags[CHOOSE j \in hits : \A h \in hits : h <= j].d[1]

\* Slot p of the message assembled from multi_cache: the last fragment of that
\* index from the pair of f.  An index nobody sent contributes no data.
AssembledSlot(frags, f, p) ==
    LET hits == {j \in 1..Len(frags) : frags[j].i = p /\ SamePair(frags[j], f)}
    IN IF hits = {} THEN Missing
       ELSE frags[CHOOSE j \in hits : \A h \in hits : h <= j].d[1]

WholeMessage(f, data) ==
    [t |-> "msg", s |-> f.s, r |-> f.r, n |-> 1, i |-> 0, d |-> data]

\* Lines 233-298: with no split message open, is f handled by the blocking loop
\* instead of multi_cache?  "many" stands for available() > AIDATA_LIMIT*3/2,
\* which takes at least two frames.
Blocks(f, flags, many) ==
    ~AllowStaggered \/ f.n > MultiLimit \/ ~flags.cache \/ many

\* Lines 231-352: fragment f of a split message for d.
ReadFragment(d, s, f, flags) ==
    \/ \E many \in BOOLEAN :
          /\ multi[d] = << >>
          /\ many => Len(rx[d]) >= 2
          /\ Blocks(f, flags, many)
          /\ ReturnNoData(d, IF f.i # 0 THEN s
                             ELSE Push(s, [ReadCall("loop", f, flags) EXCEPT
                                             !.k = 1,
                                             !.got = [p \in 1..f.n |-> IF p = 1 THEN f.d[1] ELSE Junk]]))
          /\ UNCHANGED multi
    \/ LET frags == Append(multi[d], f)
       IN /\ multi[d] = << >> => ~Blocks(f, flags, FALSE)
          /\ IF Len(frags) < frags[1].n
             THEN /\ multi' = [multi EXCEPT ![d] = frags]
                  /\ ReturnNoData(d, s)
             ELSE /\ multi' = [multi EXCEPT ![d] = << >>]
                  /\ ReturnMessage(d, s, cached[d],
                        WholeMessage(f, [p \in 1..frags[1].n |-> AssembledSlot(frags, f, p - 1)]))

\* Lines 212-354, once f has been acknowledged if it had to be.
Accept(d, s, f, flags) ==
    IF f.t = "resend" /\ f.r = d
    THEN LET last == {m \in tx[d] : m.r = f.s /\ m.s = f.r}
         IN /\ IF last = {}
               THEN ReturnNoData(d, s) /\ UNCHANGED tx
               ELSE LET m == CHOOSE m \in last : TRUE
                    IN /\ ReturnNoData(d, Push(Push(s, ReadCall("nodata", f, flags)), WriteCall(m, TRUE)))
                       /\ tx' = [tx EXCEPT ![d] = Remember(d, m)]
            /\ repeated' = IF last = {} THEN repeated ELSE repeated \union {<<f.r, f.s>>}
            /\ UNCHANGED multi
    ELSE /\ IF f.t = "frag" /\ flags.multi /\ f.r \in {d, Broadcast}
            THEN ReadFragment(d, s, f, flags)
            ELSE ReturnMessage(d, s, cached[d], f) /\ UNCHANGED multi
         /\ UNCHANGED <<tx, repeated>>

\* Mutant of Foreign: the sender is not compared.
ForeignReceiver(d, f) == f.t = "frag" /\ multi[d] # << >> /\ f.r # multi[d][1].r

\* Lines 205-206: a fragment from another pair while a split message is open.
Foreign(d, f) == f.t = "frag" /\ multi[d] # << >> /\ ~SamePair(f, multi[d][1])

\* Lines 100-210: the next frame of the serial port.
ReadFrame(d) ==
    /\ Reads(d)
    /\ ~(Flags(d).cache /\ cached[d] # << >>)
    /\ rx[d] # << >>
    /\ LET f == Head(rx[d])
       IN /\ rx' = [rx EXCEPT ![d] = IF f.t = "bad" THEN << >> ELSE Tail(rx[d])]
          /\ IF f.t = "bad" \/ Foreign(d, f)
             THEN ReturnNoData(d, Base(d)) /\ UNCHANGED <<multi, tx, repeated>>
             ELSE IF f.r = d /\ f.t # "ack"
             THEN /\ ReturnNoData(d, Push(Push(Base(d), ReadCall("ack", f, Flags(d))),
                                          WriteCall(Ack(d, f.s), FALSE)))
                  /\ UNCHANGED <<multi, tx, repeated>>
             ELSE Accept(d, Base(d), f, Flags(d))
    /\ UNCHANGED <<outcome, losses, expiries>>

\* The acknowledgement of the frame is on the bus: the read goes on with it.
Acknowledged(d) ==
    /\ TopIs(d, {"ack"})
    /\ LET c == Top(stack[d])
       IN Accept(d, Pop(stack[d]), c.m, [cache |-> c.cache, multi |-> c.multi])
    /\ UNCHANGED <<rx, outcome, losses, expiries>>

\* After requestResend there was nothing to read.
ReadNothing(d) ==
    /\ TopIs(d, {"enter"})
    /\ rx[d] = << >>
    /\ ~(Flags(d).cache /\ cached[d] # << >>)
    /\ ReturnNoData(d, Base(d))
    /\ UNCHANGED <<rx, multi, tx, outcome, repeated, losses, expiries>>

\* Lines 283-285: the first k slots of full_data become the message.
LoopMessage(c) == WholeMessage(c.m, SubSeq(c.got, 1, c.k))

\* The loop over the fragments has read as many as were announced.
LoopDone(d) ==
    /\ TopIs(d, {"loop"})
    /\ Top(stack[d]).k >= Top(stack[d]).m.n
    /\ ReturnMessage(d, Pop(stack[d]), cached[d], LoopMessage(Top(stack[d])))
    /\ UNCHANGED <<rx, multi, tx, outcome, repeated, losses, expiries>>

\* No fragment for 200 ms.  The loop condition (line 257) ends the loop at 200,
\* and what has been read is returned as if it were the message; the test of
\* line 277 asks for the message again, but only if it sees more than 200.
LoopTimeout(d) ==
    /\ TopIs(d, {"loop"})
    /\ Top(stack[d]).k < Top(stack[d]).m.n
    /\ LET c == Top(stack[d])
           m == ResendMsg(c.m.r, c.m.s)
       IN \/ /\ ReturnMessage(d, Pop(stack[d]), cached[d], LoopMessage(c))
             /\ expiries' = IF expiries > MaxExpiry THEN expiries ELSE expiries + 1
             /\ UNCHANGED tx
          \/ /\ expiries < MaxExpiry
             /\ expiries' = expiries + 1
             /\ ReturnNoData(d, Push(Push(Pop(stack[d]), [c EXCEPT !.pc = "nodata"]), WriteCall(m, TRUE)))
             /\ tx' = [tx EXCEPT ![d] = Remember(d, m)]
    /\ UNCHANGED <<rx, multi, outcome, repeated, losses>>

-----------------------------------------------------------------------------
(* Writing.                                                                *)

\* The program of d writes its next message.
Write(d) ==
    /\ stack[d] = << >>
    /\ Len(outcome[d]) < Len(Script[d])
    /\ LET m == Script[d][Len(outcome[d]) + 1]
       IN /\ stack' = [stack EXCEPT ![d] = <<WriteCall(m, m.r # Broadcast)>>]
          /\ tx' = [tx EXCEPT ![d] = Remember(d, m)]
    /\ UNCHANGED <<rx, cached, multi, inbox, outcome, repeated, losses, expiries>>

\* writeAIBusToSerial returns ok; s is the stack without it.  The result counts
\* for the program and for the loop over the fragments.
ReturnWrite(d, s, ok) ==
    /\ stack' = [stack EXCEPT ![d] =
          IF s = << >> THEN s
          ELSE CASE Top(s).pc = "nodata" -> Pop(s)
                 [] Top(s).pc = "group" ->
                      SetTop(s, [Top(s) EXCEPT !.k = @ + 1, !.ok = @ /\ ok])
                 [] OTHER -> s]
    /\ outcome' = [outcome EXCEPT ![d] = IF s = << >> THEN Append(@, ok) ELSE @]

\* Lines 462-472: the next fragment of a split message.
WriteFragment(d) ==
    /\ TopIs(d, {"group"})
    /\ LET c == Top(stack[d])
       IN /\ c.k < Len(c.m.d)
          /\ c.ok \/ ~c.ack
          /\ stack' = [stack EXCEPT ![d] = Push(@, WriteCall(Fragment(c.m, c.k), c.ack))]
    /\ UNCHANGED <<rx, cached, multi, tx, inbox, outcome, repeated, losses, expiries>>

\* All fragments are out, or one of them was not acknowledged.
WriteGroupDone(d) ==
    /\ TopIs(d, {"group"})
    /\ LET c == Top(stack[d])
       IN /\ c.k >= Len(c.m.d) \/ (~c.ok /\ c.ack)
          /\ ReturnWrite(d, Pop(stack[d]), c.ok)
    /\ UNCHANGED <<rx, cached, multi, tx, inbox, repeated, losses, expiries>>

\* The bus carries f to every device but d, or damages it for some of them.
Transmit(d, f) ==
    \/ /\ rx' = [e \in Devices |-> IF e = d THEN rx[e] ELSE Append(rx[e], f)]
       /\ UNCHANGED losses
    \/ \E victims \in SUBSET Others(d) \ {{}}, lost \in BOOLEAN :
          /\ losses < MaxLoss
          /\ losses' = losses + 1
          /\ rx' = [e \in Devices |->
                      IF e = d \/ (e \in victims /\ lost) THEN rx[e]
                      ELSE Append(rx[e], IF e \in victims THEN Damaged(f) ELSE f)]

\* Lines 519-554: the drain loop ends, the frame goes out.
Send(d) ==
    /\ TopIs(d, {"drain"})
    /\ LET w == Top(stack[d])
       IN /\ rx[d] = << >> \/ Len(cached[d]) >= CacheSize \/ w.k > 0
          /\ Transmit(d, w.m)
          /\ IF w.ack
             THEN /\ stack' = [stack EXCEPT ![d] = SetTop(@, [w EXCEPT !.pc = "collect"])]
                  /\ UNCHANGED outcome
             ELSE ReturnWrite(d, Pop(stack[d]), TRUE)
    /\ UNCHANGED <<cached, multi, tx, inbox, repeated, expiries>>

\* Line 556: nothing left to read after the transmission.
Collected(d) ==
    /\ TopIs(d, {"collect"})
    /\ rx[d] = << >>
    /\ stack' = [stack EXCEPT ![d] = SetTop(@, [Top(@) EXCEPT !.pc = "await"])]
    /\ UNCHANGED <<rx, cached, multi, tx, inbox, outcome, repeated, losses, expiries>>

\* Lines 628-638: REPEAT_DELAY has passed without an acknowledgement.
Repeat(d) ==
    /\ TopIs(d, {"await"})
    /\ LET w == Top(stack[d])
       IN /\ ~w.ok
          /\ w.tries < MaxRepeat
          /\ stack' = [stack EXCEPT ![d] =
                Push(SetTop(@, [w EXCEPT !.tries = @ + 1]), WriteCall(w.m, FALSE))]
          /\ tx' = [tx EXCEPT ![d] = Remember(d, w.m)]
          /\ repeated' = repeated \union {<<w.m.s, w.m.r>>}
    /\ UNCHANGED <<rx, cached, multi, inbox, outcome, losses, expiries>>

\* Mutant of AwaitDone: MAX_REPEAT is not tested.
AwaitDoneUnlimited(d) ==
    /\ TopIs(d, {"await"})
    /\ Top(stack[d]).ok
    /\ ReturnWrite(d, Pop(stack[d]), TRUE)
    /\ UNCHANGED <<rx, cached, multi, tx, inbox, repeated, losses, expiries>>

\* Acknowledged, or given up: the last repetition is not waited for.
AwaitDone(d) ==
    /\ TopIs(d, {"await"})
    /\ LET w == Top(stack[d])
       IN /\ w.ok \/ w.tries >= MaxRepeat
          /\ ReturnWrite(d, Pop(stack[d]), w.ok)
    /\ UNCHANGED <<rx, cached, multi, tx, inbox, repeated, losses, expiries>>

-----------------------------------------------------------------------------
Init ==
    /\ rx = [d \in Devices |-> << >>]
    /\ cached = [d \in Devices |-> << >>]
    /\ stack = [d \in Devices |-> << >>]
    /\ multi = [d \in Devices |-> << >>]
    /\ tx = [d \in Devices |-> {}]
    /\ inbox = [d \in Devices |-> << >>]
    /\ outcome = [d \in Devices |-> << >>]
    /\ repeated = {}
    /\ losses = 0
    /\ expiries = 0

Read(d) ==
    ExpireMulti(d) \/ ReadCached(d) \/ ReadFrame(d) \/ Acknowledged(d) \/ ReadNothing(d)
        \/ LoopDone(d) \/ LoopTimeout(d)

WriteStep(d) ==
    WriteFragment(d) \/ WriteGroupDone(d) \/ Send(d) \/ Collected(d) \/ Repeat(d) \/ AwaitDone(d)

\* Every program has written its script and every buffer is empty.
Quiet ==
    /\ \A d \in Devices : /\ stack[d] = << >> /\ rx[d] = << >> /\ cached[d] = << >>
                          /\ Len(outcome[d]) = Len(Script[d])
    /\ UNCHANGED vars

Next == (\E d \in Devices : Read(d) \/ WriteStep(d) \/ Write(d)) \/ Quiet

\* A processor never stops: its program calls readAIData again and again, a call
\* in progress goes on, and a timer that is waited for runs out.
Fairness ==
    \A d \in Devices : /\ WF_vars(Read(d) \/ WriteStep(d))
                       /\ WF_vars(LoopTimeout(d))
                       /\ WF_vars(Write(d))

Spec == Init /\ [][Next]_vars
FairSpec == Spec /\ Fairness

-----------------------------------------------------------------------------
(* Properties.                                                             *)

\* The state has its type, and cached_vec stays within the storage that the
\* constructor allocates for it.
TypeOK ==
    /\ rx \in [Devices -> Seq(Frame)]
    /\ cached \in [Devices -> Seq(Frame)]
    /\ stack \in [Devices -> Seq(Call)]
    /\ multi \in [Devices -> Seq(Fragments)]
    /\ tx \in [Devices -> SUBSET Frame]
    /\ inbox \in [Devices -> Seq(Frame)]
    /\ outcome \in [Devices -> Seq(BOOLEAN)]
    /\ repeated \in SUBSET (Addresses \X Addresses)
    /\ losses \in 0..MaxLoss
    /\ expiries \in 0..MaxExpiry + 1
    /\ \A d \in Devices : Len(cached[d]) <= CacheSize

\* multi_cache never mixes fragments of two conversations, although the test for
\* that (line 205) comes before the acknowledgement is sent, and sending the
\* acknowledgement reads and handles further frames before the fragment is
\* stored (line 301).
MultiOnePair ==
    \A d \in Devices : \A j \in 1..Len(multi[d]) : SamePair(multi[d][j], multi[d][1])

\* Why that is so.  A read that may store a fragment in an empty multi_cache
\* (it reads the cache, and it assembles) is the program's own, at the bottom of
\* the stack; and a fragment that waits for its acknowledgement belongs to the
\* conversation that is open, if one is.
Guarded(s, frags) ==
    \A p \in 1..Len(s) :
        /\ (s[p].pc \in {"ack", "enter"} /\ s[p].cache /\ s[p].multi) => p = 1
        /\ (s[p].pc = "ack" /\ s[p].m.t = "frag" /\ s[p].multi /\ frags # << >>)
              => SamePair(s[p].m, frags[1])

ReadsGuarded == \A d \in Devices : Guarded(stack[d], multi[d])

\* The k-th message of s, and whether it has arrived at d's program.
Written(s, k) == Script[s][k]
SentTo(s, d) == {k \in 1..Len(Script[s]) : Written(s, k).r = d}
CopyOf(x, s, k) == x.t = "msg" /\ SamePair(x, Written(s, k)) /\ x.d = Written(s, k).d
ArrivedAt(d, s, k) == \E p \in 1..Len(inbox[d]) : CopyOf(inbox[d][p], s, k)

\* What d has taken from the bus and not yet handed to its program.
InHand(d) ==
    {cached[d][p] : p \in 1..Len(cached[d])}
        \union {c.m : c \in {stack[d][p] : p \in 1..Len(stack[d])}}

\* The messages from s to d that go out in one frame.
WholeTo(s, d) == {k \in SentTo(s, d) : Len(Written(s, k).d) = 1}

\* s writes a message that is split to d; d is sent no such message.
Splits(s, d) == s \in Devices /\ \E k \in SentTo(s, d) : Len(Written(s, k).d) > 1
Unsplit(d) == \A s \in Others(d) : ~Splits(s, d) /\ ~Splits(s, Broadcast)

\* On a bus that damages nothing, a message whose write returned true is never
\* lost on its way through the nested reads of the receiver: it is still in the
\* serial buffer, or being read, or cached, or the program has it.  (The
\* instance gives cached_vec room for every message.)
AckedNotLost ==
    losses = 0 =>
        \A s \in Devices : \A d \in Others(s) : \A k \in WholeTo(s, d) :
            (k <= Len(outcome[s]) /\ outcome[s][k]) =>
                \/ ArrivedAt(d, s, k)
                \/ Written(s, k) \in InHand(d) \union {rx[d][p] : p \in 1..Len(rx[d])}

\* As long as nothing was repeated between two devices, a program receives the
\* messages of the other one in the order in which it wrote them: nested reads cache
\* the inner message before the outer one, and must not invert two messages of one
\* sender.  (After a repetition they do: the acknowledgement of the second copy is
\* taken for that of the next message, and the one after it is sent too early.  A
\* device that gets split messages does, too: the blocking loop over the fragments
\* reads cached_vec and puts what it read at its end again.)
UnrepeatedInOrder ==
    \A s \in Devices : \A d \in Others(s) : (<<s, d>> \notin repeated /\ Unsplit(d)) =>
        \A i, j \in WholeTo(s, d) :
            i < j => \A q \in 1..Len(inbox[d]) : CopyOf(inbox[d][q], s, j) =>
                        \E p \in 1..q : CopyOf(inbox[d][p], s, i)

\* An acknowledgement is matched by its sender and receiver only (line 616).
\* That is sound while nothing was repeated: a write from s to d that returned
\* true has then really been read by d, even if the bus damages frames.
AckMeansRead ==
    \A s \in Devices : \A d \in Others(s) : <<s, d>> \notin repeated =>
        \A k \in WholeTo(s, d) :
            (k <= Len(outcome[s]) /\ outcome[s][k]) =>
                ArrivedAt(d, s, k) \/ Written(s, k) \in InHand(d)

\* A message assembled from fragments is a message that its sender wrote.
IsWhole(x) == x.t = "msg" => \E k \in SentTo(x.s, x.r) : CopyOf(x, x.s, k)

\* A split message arrives whole whatever other conversations do at the same
\* time, as long as nothing was repeated between its own two ends, no timer
\* of a split message ran out and no message to everyone is split.  (The loop over
\* the fragments of such a message drops what comes for the device itself.)
WholeUnlessRepeated ==
    (expiries = 0 /\ \A s \in Devices : ~Splits(s, Broadcast)) =>
        \A d \in Devices : \A p \in 1..Len(inbox[d]) :
            <<inbox[d][p].s, inbox[d][p].r>> \notin repeated => IsWhole(inbox[d][p])

\* A resend request (0x92) is answered with a message that a program wrote.  (A request
\* is itself kept for resending, in the place of the message: it is what a device gets
\* that asks for a message while it sends split messages, too.)
ResendIsData ==
    \A d \in Devices : \A p \in 2..Len(stack[d]) :
        LET c == stack[d][p - 1]
        IN (c.pc = "nodata" /\ c.m.t = "resend" /\ ~Splits(c.m.s, d)) => stack[d][p].m.t = "msg"

\* Every write returns, also when all devices write to each other at once, and
\* every program gets its script written.
WritesReturn == \A d \in Devices : <>[](stack[d] = << >> /\ Len(outcome[d]) = Len(Script[d]))

\* On a bus that damages nothing, every message reaches the program of its
\* receiver, even when its sender gave up on the acknowledgement.
EveryMessageArrives ==
    \A s, d \in Devices : \A k \in SentTo(s, d) : <>ArrivedAt(d, s, k)

=============================================================================
