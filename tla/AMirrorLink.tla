----------------------------- MODULE AMirrorLink -----------------------------
(***************************************************************************)
(* AMirror's connection to the AIBus socket: the ClientAIBusHandler of     *)
(* ipc.rs, which two threads use.  The socket thread (main.rs) calls       *)
(* process and await_cached_acknowledgment in a loop; the main thread      *)
(* (amirror.rs) exchanges messages with it through the lists ai_rx, ai_tx  *)
(* and aibus_cache, and calls process itself while it waits for a menu.    *)
(* Three mutexes are involved: the client handler's, that of the two lists *)
(* and that of the Context.                                                *)
(*                                                                         *)
(* A step is what a thread does between two operations on a mutex or on    *)
(* the socket.  The server behind the socket and the devices of the bus    *)
(* are the environment.  A message is a name, a frame a fragment of one;   *)
(* a received frame carries the number of its arrival.                     *)
(***************************************************************************)
EXTENDS Integers, Sequences, SequencesExt

CONSTANTS
    Out,        \* messages the program may write, each at most once
    Dest,       \* Dest[m]: who it is for, a device or All
    Frags,      \* Frags[m]: frames it is sent as; more than 1 are 0x91 frames
    Menus,      \* those that ask the navigation computer for a menu
    Clears,     \* those that clear the menu and wait for the answer
    Devices,    \* the devices AMirror talks to
    All,        \* the broadcast address, 0xFF
    Me,         \* AMirror's own address
    Flagged,    \* devices with a *_connected flag in the Context
    Arrivals,   \* Arrivals[k]: what may arrive as the k-th, [from, to, kind, n, i]
    ReadMax,    \* frames that fit in the 1024 bytes of a read
    Tries,      \* Tries[use_ack_cache]: repetitions of an unacknowledged frame
    GiveUp,     \* 25: rounds after which an ack_cache entry is dropped
    MaxChanges, \* bound: phones that come and go
    MaxDue      \* bound: frames of ours a device may still acknowledge

ASSUME OutAssumption ==
    /\ Dest \in [Out -> Devices \union {All}]
    /\ Frags \in [Out -> Nat \ {0}]
    /\ Menus \subseteq Out /\ Clears \subseteq Out
ASSUME ArrivalAssumption ==
    Arrivals \in Seq(SUBSET [from : Devices, to : {Me, All, "other"}, n : Nat, i : Nat,
                        kind : {"deny", "flag", "resend", "frag", "message"}])
ASSUME BoundAssumption ==
    /\ GiveUp \in Nat /\ MaxChanges \in Nat
    /\ ReadMax \in Nat \ {0} /\ MaxDue \in Nat \ {0}
    /\ Tries \in [BOOLEAN -> Nat \ {0}]

Threads == {"main", "socket"}

VARIABLES
    client, aibus, context, \* who holds each mutex: a thread or "none"
    pc,              \* pc[t]: where thread t is
    run,             \* the flag that ends the socket thread's loop
    ai_rx, ai_tx,    \* AIBusHandler
    aibus_cache,     \* what the program wrote while the lists were locked
    batch,           \* ai_rx_list: received messages the program has still to handle
    menu,            \* <<m>>: create_menu waits for the answer to m; or << >>
    changes,         \* how often a phone has come or gone
    connected,       \* devices whose flag is set in the Context
    process_active, use_ack_cache, ack_cache, recent_tx,
    multi_cache, multi_expected_len,
    tx,              \* write_stream's locals: position and what it collects
    aw,              \* await_acknowledgment's locals
    ci,              \* index into ack_cache in await_cached_acknowledgment
    wire,            \* frames on their way to AMirror
    due,             \* due[d]: frames d has received and may acknowledge
    arrivals,        \* number of frames that have arrived at the socket
    sent,            \* messages of which all frames have been written (history)
    acked,           \* arrivals acknowledged, fragments not counted (history)
    settled          \* arrivals the program has handled or a resend answered (history)

locks == <<client, aibus, context>>
lists == <<ai_rx, ai_tx, aibus_cache>>
program == <<run, batch, menu, changes, connected>>
caches == <<use_ack_cache, ack_cache, recent_tx>>
multi == <<multi_cache, multi_expected_len>>
locals == <<tx, aw, ci>>
world == <<wire, due, arrivals>>
history == <<sent, acked, settled>>
vars == <<locks, pc, lists, program, process_active, caches, multi, locals, world, history>>

Goto(t, l) == pc' = [pc EXCEPT ![t] = l]
At(t, l) == pc[t] = l

NoTx == [k |-> 1, i |-> 0, first |-> << >>, acks |-> << >>, long |-> {}, rx |-> << >>]
NoWait == [to |-> Me, tries |-> 0, got |-> FALSE, rx |-> << >>]

\* What a thread does after process(): the socket thread turns to its ack_cache,
\* the main thread to the answer to its menu message.
AfterProcess(t) == IF t = "socket" THEN "ckScan" ELSE "look"

\* Mutant: waits for the acknowledgement however long it takes.
AwOverAcked == aw.got

\* await_acknowledgment returns.
AwOver == aw.got \/ aw.tries >= Tries[use_ack_cache]

-----------------------------------------------------------------------------
(* Frames.                                                                 *)

\* The elements of s at the positions p, and those that pass a test, in their order.
Picked(s, p) ==
    LET pick[k \in 0..Len(s)] ==
            IF k = 0 THEN << >> ELSE IF k \in p THEN Append(pick[k - 1], s[k]) ELSE pick[k - 1]
    IN  pick[Len(s)]
Those(s, Test(_)) == Picked(s, {k \in DOMAIN s : Test(s[k])})

Frame(a, no) == [no |-> no, from |-> a.from, to |-> a.to, kind |-> a.kind,
                 n |-> a.n, i |-> a.i, body |-> << >>]
Ack(d) == [no |-> 0, from |-> d, to |-> Me, kind |-> "ack", n |-> 0, i |-> 0, body |-> << >>]

\* Messages to AMirror that are not part of another: those it acknowledges and keeps.
Plain(f) == f.to = Me /\ f.kind \notin {"ack", "frag", "joined"}
Numbers(s) == {s[k].no : k \in {k \in DOMAIN s : Plain(s[k])}}

\* A device gets a frame and may acknowledge it later.
Received(counts, d) ==
    IF d = All \/ counts[d] = MaxDue THEN counts ELSE [counts EXCEPT ![d] = @ + 1]

\* The message joined from the fragments: for each index the fragments that carry
\* it, as often as they came.
Join(s, f, n) ==
    LET Fits(g, m) == g.n = n /\ g.i = m /\ g.from = f.from /\ g.to = f.to
        Piece(m) == Those(s, LAMBDA g : Fits(g, m))
        Joined == FlattenSeq([m \in 1..n |-> Piece(m - 1)])
    IN  [Frame(f, f.no) EXCEPT !.kind = "joined",
                               !.body = [k \in DOMAIN Joined |-> Joined[k].no]]

-----------------------------------------------------------------------------
(* The environment: the socket's other end.  What arrives is seen only by   *)
(* the next read, so it may as well arrive just before one.                *)

BeforeRead == \E t \in Threads : pc[t] \in {"rdRead", "wrWait", "ckWait"}

Arrive ==
    /\ BeforeRead
    /\ arrivals < Len(Arrivals)
    /\ \E a \in Arrivals[arrivals + 1] : wire' = Append(wire, Frame(a, arrivals + 1))
    /\ arrivals' = arrivals + 1
    /\ UNCHANGED <<locks, pc, lists, program, process_active, caches, multi, locals, due, history>>

Acknowledge(d) ==
    /\ BeforeRead
    /\ due[d] > 0
    /\ due' = [due EXCEPT ![d] = @ - 1]
    /\ wire' = Append(wire, Ack(d))
    /\ UNCHANGED <<locks, pc, lists, program, process_active, caches, multi, locals, arrivals, history>>

-----------------------------------------------------------------------------
(* read_stream.                                                            *)

\* A read takes what the socket holds.  Its BufReader keeps what goes beyond
\* ReadMax frames to itself, and is dropped with it.
Chunk == SubSeq(wire, 1, IF Len(wire) > ReadMax THEN ReadMax ELSE Len(wire))

\* Mutant: the receiver alone is compared.
OtherPairTo(cache, f) ==
    f.kind = "frag" /\ cache # << >> /\ cache[1].to # f.to

\* A fragment while those of another sender or receiver are kept.
OtherPair(cache, f) ==
    f.kind = "frag" /\ cache # << >> /\ (cache[1].from # f.from \/ cache[1].to # f.to)

\* What reading one frame does to r = [rx, cache, len, due, acked, settled].
ReadFrame(r, f) ==
    LET want == IF r.len <= 0 THEN f.n ELSE r.len
        skip == f.to \notin {Me, All} \/ OtherPair(r.cache, f)
        last == Those(recent_tx, LAMBDA g : Dest[g[1]] = f.from /\ f.to = Me)
        seen == IF ~skip /\ Plain(f) THEN [r EXCEPT !.acked = @ \union {f.no}] ELSE r
        cache == Append(r.cache, f)
    IN  IF skip THEN r
        ELSE IF f.kind = "resend"
          THEN [seen EXCEPT !.settled = @ \union Numbers(<<f>>),
                            !.due = IF last = << >> THEN @ ELSE Received(@, f.from)]
        ELSE IF f.kind # "frag" THEN [seen EXCEPT !.rx = Append(@, f)]
        ELSE IF Len(cache) < want THEN [seen EXCEPT !.cache = cache, !.len = want]
        ELSE [seen EXCEPT !.rx = Append(@, Join(cache, f, want)), !.cache = << >>, !.len = -1]

RdLock(t) ==
    /\ At(t, "rdLock")
    /\ aibus = "none"
    /\ aibus' = t
    /\ Goto(t, "rdRead")
    /\ UNCHANGED <<client, context, lists, program, process_active, caches, multi, locals, world, history>>

\* With the lists locked, everything read is dealt with: before activate() it is
\* discarded, and fragments more than 500 ms old are forgotten.
RdRead(t) ==
    /\ At(t, "rdRead")
    /\ \E expired \in {FALSE, process_active /\ multi_cache # << >> /\ wire # << >>} :
        LET r == FoldLeft(ReadFrame,
                          [rx |-> ai_rx, due |-> due, acked |-> acked, settled |-> settled,
                           cache |-> IF expired THEN << >> ELSE multi_cache,
                           len |-> IF expired THEN -1 ELSE multi_expected_len],
                          IF process_active THEN Chunk ELSE << >>)
        IN  /\ ai_rx' = r.rx
            /\ multi_cache' = r.cache /\ multi_expected_len' = r.len
            /\ due' = r.due /\ acked' = r.acked /\ settled' = r.settled
    /\ wire' = << >>
    /\ aibus' = "none"
    /\ Goto(t, "wrLock")
    /\ UNCHANGED <<client, context, ai_tx, aibus_cache, program, process_active, caches, locals, arrivals, sent>>

-----------------------------------------------------------------------------
(* write_stream.                                                           *)

WrLock(t) ==
    /\ At(t, "wrLock")
    /\ aibus = "none"
    /\ aibus' = t
    /\ tx' = NoTx
    /\ Goto(t, "wrSend")
    /\ UNCHANGED <<client, context, lists, program, process_active, caches, multi, aw, ci, world, history>>

Current == ai_tx[tx.k]
IsLong(m) == Frags[m] > 1

\* The position after the current frame.
Step(r) == IF r.i + 1 < Frags[Current] THEN [r EXCEPT !.i = @ + 1]
                                      ELSE [r EXCEPT !.k = @ + 1, !.i = 0]

\* first_long is the first fragment of the run of split messages the current
\* frame belongs to.
Track == IF ~IsLong(Current) THEN << >>
         ELSE IF tx.first = << >> THEN <<tx.k, tx.i>> ELSE tx.first

\* Is an acknowledgement awaited?  A Context that is locked counts as connected.
AwaitsAck(d) == d # All /\ (d \in Flagged => d \in connected \/ context # "none")

\* The next frame is written, and if need be its acknowledgement awaited.
WrSend(t) ==
    /\ At(t, "wrSend")
    /\ tx.k <= Len(ai_tx)
    /\ sent' = IF tx.i + 1 = Frags[Current] THEN Append(sent, Current) ELSE sent
    /\ due' = Received(due, Dest[Current])
    /\ IF AwaitsAck(Dest[Current])
         THEN /\ tx' = [tx EXCEPT !.first = Track]
              /\ aw' = [NoWait EXCEPT !.to = Dest[Current]]
              /\ Goto(t, "wrWait")
         ELSE /\ tx' = Step([tx EXCEPT !.first = Track])
              /\ UNCHANGED <<aw, pc>>
    /\ UNCHANGED <<locks, lists, program, process_active, caches, multi, ci, wire, arrivals, acked, settled>>

\* A frame that was not acknowledged.  With the first fragment that fails all are
\* noted; whatever fails next clears the note.
Unacknowledged(r) ==
    IF IsLong(Current) /\ r.long = {}
      THEN [r EXCEPT !.long = {p \in UNION {{k} \X (0..(Frags[ai_tx[k]] - 1)) : k \in DOMAIN ai_tx} :
                                /\ IsLong(ai_tx[p[1]])
                                /\ \/ p[1] > r.first[1]
                                   \/ p[1] = r.first[1] /\ p[2] >= r.first[2]}]
      ELSE [r EXCEPT !.long = {}, !.acks = Append(@, <<Current, r.i>>)]

WrAwaited(t) ==
    /\ At(t, "wrWait")
    /\ AwOver
    /\ LET r == IF ~aw.got /\ use_ack_cache THEN Unacknowledged(tx) ELSE tx
       IN  tx' = Step([r EXCEPT !.rx = @ \o aw.rx])
    /\ aw' = NoWait
    /\ Goto(t, "wrSend")
    /\ UNCHANGED <<locks, lists, program, process_active, caches, multi, ci, world, history>>

\* Mutant: the frame kept for the receiver so far stays.
CacheTxKeeps(cache, f) == Append(cache, f)

\* cache_tx: the last frame to each receiver, in the order of their sending.
CacheTx(cache, f) ==
    Append(Those(cache, LAMBDA r : Dest[r[1]] # Dest[f[1]]), f)

Split(m) == [j \in 1..Frags[m] |-> <<m, j - 1>>]

InOrder(p, q) == p[1] < q[1] \/ (p[1] = q[1] /\ p[2] < q[2])

WrEnd(t) ==
    /\ At(t, "wrSend")
    /\ tx.k > Len(ai_tx)
    /\ LET long == SetToSortSeq(tx.long, InOrder)
           kept == tx.acks \o [j \in DOMAIN long |-> <<ai_tx[long[j][1]], long[j][2]>>]
       IN  ack_cache' = IF use_ack_cache
                          THEN ack_cache \o [j \in DOMAIN kept |-> [f |-> kept[j], count |-> 0]]
                          ELSE ack_cache
    /\ recent_tx' = FoldLeft(CacheTx, recent_tx, FlattenSeq([k \in DOMAIN ai_tx |-> Split(ai_tx[k])]))
    /\ ai_rx' = ai_rx \o tx.rx
    /\ ai_tx' = << >>
    /\ tx' = NoTx
    /\ aibus' = "none"
    /\ client' = IF t = "main" THEN "none" ELSE client
    /\ Goto(t, AfterProcess(t))
    /\ UNCHANGED <<context, aibus_cache, program, process_active, use_ack_cache, multi, aw, ci, world, history>>

-----------------------------------------------------------------------------
(* await_acknowledgment, called from write_stream and for the ack_cache.   *)

Awaiting(t) == pc[t] \in {"wrWait", "ckWait"}

\* Only the acknowledgement and plain messages to AMirror are kept; fragments and
\* broadcasts are dropped, and a resend request is treated as a message.
AwRead(t) ==
    /\ Awaiting(t)
    /\ wire # << >>
    /\ ~aw.got /\ aw.tries < Tries[use_ack_cache]
    /\ LET kept == Those(Chunk, Plain)
       IN  /\ aw' = [aw EXCEPT !.rx = @ \o kept, !.got = Ack(aw.to) \in ToSet(Chunk)]
           /\ acked' = acked \union Numbers(kept)
    /\ wire' = << >>
    /\ UNCHANGED <<locks, pc, lists, program, process_active, caches, multi, tx, ci, due, arrivals, sent, settled>>

\* 100 ms have passed: the frame is written again.
AwRetry(t) ==
    /\ Awaiting(t)
    /\ ~aw.got /\ aw.tries < Tries[use_ack_cache]
    /\ aw' = [aw EXCEPT !.tries = @ + 1]
    /\ due' = Received(due, aw.to)
    /\ UNCHANGED <<locks, pc, lists, program, process_active, caches, multi, tx, ci, wire, arrivals, history>>

-----------------------------------------------------------------------------
(* await_cached_acknowledgment, by the socket thread, which holds client.  *)

\* The entry an acknowledgement from d removes: the first for d.
DropFirst(cache, f) ==
    IF f.kind = "ack" THEN RemoveFirstMatch(cache, LAMBDA e : Dest[e.f[1]] = f.from) ELSE cache

\* It returns, or the thread's loop goes on, with client released.
CkReturn ==
    /\ client' = "none"
    /\ ci' = 1
    /\ Goto("socket", "idle")

CkScan ==
    /\ At("socket", "ckScan")
    /\ IF use_ack_cache /\ aibus = "none"
         THEN ack_cache' = FoldLeft(DropFirst, ack_cache, ai_rx)
         ELSE UNCHANGED ack_cache
    /\ IF use_ack_cache /\ aibus = "none" /\ ack_cache' # << >>
         THEN ci' = 1 /\ Goto("socket", "ckSend") /\ UNCHANGED client
         ELSE CkReturn
    /\ UNCHANGED <<aibus, context, lists, program, process_active, use_ack_cache, recent_tx, multi,
                   tx, aw, world, history>>

\* The entry's bytes are written without the socket's header, which the server
\* ignores; the frame proper goes out when it is repeated.
CkSend ==
    /\ At("socket", "ckSend")
    /\ ci <= Len(ack_cache)
    /\ aw' = [NoWait EXCEPT !.to = Dest[ack_cache[ci].f[1]]]
    /\ Goto("socket", "ckWait")
    /\ UNCHANGED <<locks, lists, program, process_active, caches, multi, tx, ci, world, history>>

\* The end of the list: start again, unless the time is over.
CkAgain ==
    /\ At("socket", "ckSend")
    /\ ci > Len(ack_cache)
    /\ \/ ack_cache # << >> /\ ci' = 1 /\ UNCHANGED <<pc, client>>
       \/ CkReturn
    /\ UNCHANGED <<aibus, context, lists, program, process_active, caches, multi, tx, aw, world, history>>

\* The messages read meanwhile are handed over; an unacknowledged entry is looked
\* up in ai_rx as well, and given up after so many rounds.
CkAwaited ==
    /\ At("socket", "ckWait")
    /\ AwOver
    /\ aibus = "none"
    /\ ai_rx' = ai_rx \o aw.rx
    /\ aw' = NoWait
    /\ LET found == \E j \in DOMAIN ai_rx : ai_rx[j].kind = "ack" /\ ai_rx[j].from = aw.to
           gone == aw.got \/ found \/ ack_cache[ci].count + 1 > GiveUp
       IN  /\ ack_cache' = IF gone THEN RemoveAt(ack_cache, ci)
                           ELSE [ack_cache EXCEPT ![ci].count = @ + 1]
           /\ \/ /\ ci' = IF gone THEN ci ELSE ci + 1
                 /\ Goto("socket", "ckSend")
                 /\ UNCHANGED client
              \/ /\ ~gone
                 /\ CkReturn
    /\ UNCHANGED <<aibus, context, ai_tx, aibus_cache, program, process_active, use_ack_cache, recent_tx,
                   multi, tx, world, history>>

-----------------------------------------------------------------------------
(* The socket thread's loop.                                               *)

TakeClient ==
    /\ At("socket", "idle")
    /\ run
    /\ client = "none"
    /\ client' = "socket"
    /\ Goto("socket", "rdLock")
    /\ UNCHANGED <<aibus, context, lists, program, process_active, caches, multi, locals, world, history>>

EndLoop ==
    /\ At("socket", "idle")
    /\ ~run
    /\ Goto("socket", "done")
    /\ UNCHANGED <<locks, lists, program, process_active, caches, multi, locals, world, history>>

-----------------------------------------------------------------------------
(* The main thread.                                                        *)

\* write_aibus_message: straight into ai_tx, or into aibus_cache when the lists
\* are locked.
Fresh == Out \ (ToSet(aibus_cache) \union ToSet(ai_tx) \union ToSet(sent))
WriteMessage(m) ==
    IF aibus = "none"
      THEN ai_tx' = Append(ai_tx, m) /\ UNCHANGED aibus_cache
      ELSE aibus_cache' = Append(aibus_cache, m) /\ UNCHANGED ai_tx

\* The question for the screen's size that follows is a message like any other, and
\* left out; then AMirror::process begins.
Activate ==
    /\ At("main", "boot")
    /\ client = "none"
    /\ process_active' = TRUE
    /\ context' = "main"
    /\ Goto("main", "ctx")
    /\ UNCHANGED <<client, aibus, lists, program, caches, multi, locals, world, history>>

\* Messages are written with the Context locked and while received ones are handled.
Write ==
    /\ pc["main"] \in {"ctx", "handle"}
    /\ \E m \in Fresh \ Menus : WriteMessage(m)
    /\ UNCHANGED <<locks, pc, ai_rx, program, process_active, caches, multi, locals, world, history>>

\* A phone came or went: spin for the client handler, with the Context locked.
PhoneChanged ==
    /\ At("main", "ctx")
    /\ changes < MaxChanges
    /\ changes' = changes + 1
    /\ Goto("main", "setAck")
    /\ UNCHANGED <<locks, lists, run, batch, menu, connected, process_active, caches, multi, locals, world, history>>

SetAckCache ==
    /\ At("main", "setAck")
    /\ client = "none"
    /\ use_ack_cache' = ~use_ack_cache
    /\ ack_cache' = IF use_ack_cache' THEN ack_cache ELSE << >>
    /\ Goto("main", "ctx")
    /\ UNCHANGED <<locks, lists, program, process_active, recent_tx, multi, locals, world, history>>

\* The Context is released; if the lists are free they are exchanged.
DrainTo(rx, out, cache) ==
    /\ At("main", "ctx")
    /\ context' = "none"
    /\ IF aibus = "none"
         THEN batch' = ai_rx /\ ai_rx' = rx /\ ai_tx' = out /\ aibus_cache' = cache
         ELSE UNCHANGED <<lists, batch>>
    /\ Goto("main", "handle")
    /\ UNCHANGED <<client, aibus, run, menu, changes, connected, process_active, caches, multi, locals, world, history>>

\* Mutants: ai_rx or aibus_cache is not cleared, ai_tx overwritten.
DrainKeepsRx == DrainTo(ai_rx, ai_tx \o aibus_cache, << >>)
DrainKeepsCache == DrainTo(<< >>, ai_tx \o aibus_cache, aibus_cache)
DrainOverwrites == DrainTo(<< >>, aibus_cache, << >>)

\* ai_rx is taken over whole and aibus_cache appended to ai_tx.
Drain == DrainTo(<< >>, ai_tx \o aibus_cache, << >>)

\* handle_aibus_message for what is left of the batch; a message may set its
\* sender's flag.  AMirror::process goes on, and starts again, with the Context locked.
Handle ==
    /\ At("main", "handle")
    /\ batch' = << >>
    /\ settled' = settled \union Numbers(batch)
    /\ connected' = connected \union (Flagged \intersect {f.from : f \in {g \in ToSet(batch) : g.kind = "flag"}})
    /\ context' = "main"
    /\ Goto("main", "ctx")
    /\ UNCHANGED <<client, aibus, lists, run, menu, changes, process_active, caches, multi, locals, world, sent, acked>>

\* create_menu: write the message, let time pass, ...
CreateMenu ==
    /\ At("main", "handle")
    /\ \E m \in Fresh \intersect Menus : WriteMessage(m) /\ menu' = <<m>>
    /\ Goto("main", "menuWait")
    /\ UNCHANGED <<locks, ai_rx, run, batch, changes, connected, process_active, caches, multi, locals, world, history>>

\* clear_menu(true) does the same with a message of its own.
ClearMenu ==
    /\ At("main", "handle")
    /\ \E m \in Fresh \intersect Clears : WriteMessage(m)
    /\ Goto("main", "menuWait")
    /\ UNCHANGED <<locks, ai_rx, program, process_active, caches, multi, locals, world, history>>

\* Mutant: process is run without the client handler.
MenuProcessUnlocked ==
    /\ At("main", "menuWait")
    /\ Goto("main", "rdLock")
    /\ UNCHANGED <<locks, lists, program, process_active, caches, multi, locals, world, history>>

\* ... wait for the client handler and run process, ...
MenuProcess ==
    /\ At("main", "menuWait")
    /\ client = "none"
    /\ client' = "main"
    /\ Goto("main", "rdLock")
    /\ UNCHANGED <<aibus, context, lists, program, process_active, caches, multi, locals, world, history>>

\* ... and look in ai_rx for the navigation computer's 0x2B 0x40, removing the
\* first; without one create_menu takes the menu to be granted.
MenuLook ==
    /\ At("main", "look")
    /\ aibus = "none"
    /\ LET denials == {j \in DOMAIN ai_rx : ai_rx[j].kind = "deny"}
           j == CHOOSE x \in denials : \A y \in denials : x <= y
       IN  IF denials = {}
             THEN UNCHANGED <<ai_rx, settled>>
             ELSE ai_rx' = RemoveAt(ai_rx, j) /\ settled' = settled \union Numbers(<<ai_rx[j]>>)
    /\ menu' = << >>
    /\ Goto("main", "handle")
    /\ UNCHANGED <<locks, ai_tx, aibus_cache, run, batch, changes, connected, process_active, caches, multi, locals, world, sent, acked>>

\* AMirror::run has become false: the flag is copied, the settings are saved and
\* the socket thread is joined.
Quit ==
    /\ At("main", "handle")
    /\ batch' = << >>
    /\ settled' = settled \union Numbers(batch)
    /\ run' = FALSE
    /\ Goto("main", "join")
    /\ UNCHANGED <<locks, lists, menu, changes, connected, process_active, caches, multi, locals, world, sent, acked>>

JoinThread ==
    /\ At("main", "join")
    /\ At("socket", "done")
    /\ Goto("main", "done")
    /\ UNCHANGED <<locks, lists, program, process_active, caches, multi, locals, world, history>>

\* Both threads have ended.
Ended == At("main", "done") /\ UNCHANGED vars

-----------------------------------------------------------------------------
Init ==
    /\ client = "none" /\ aibus = "none" /\ context = "none"
    /\ pc = [t \in Threads |-> IF t = "main" THEN "boot" ELSE "idle"]
    /\ run = TRUE
    /\ ai_rx = << >> /\ ai_tx = << >> /\ aibus_cache = << >>
    /\ batch = << >> /\ menu = << >> /\ changes = 0 /\ connected = {}
    /\ process_active = FALSE
    /\ use_ack_cache = FALSE /\ ack_cache = << >> /\ recent_tx = << >>
    /\ multi_cache = << >> /\ multi_expected_len = -1
    /\ tx = NoTx /\ aw = NoWait /\ ci = 1
    /\ wire = << >> /\ due = [d \in Devices |-> 0] /\ arrivals = 0
    /\ sent = << >> /\ acked = {} /\ settled = {}

Process(t) ==
    \/ RdLock(t) \/ RdRead(t)
    \/ WrLock(t) \/ WrSend(t) \/ WrAwaited(t) \/ WrEnd(t)
    \/ AwRead(t) \/ AwRetry(t)

SocketThread ==
    Process("socket") \/ CkScan \/ CkSend \/ CkAgain \/ CkAwaited \/ TakeClient \/ EndLoop

MainThread ==
    \/ Process("main")
    \/ Activate \/ Write \/ PhoneChanged \/ SetAckCache \/ Drain
    \/ Handle \/ CreateMenu \/ ClearMenu \/ MenuProcess \/ MenuLook \/ Quit \/ JoinThread

Environment == Arrive \/ \E d \in Devices : Acknowledge(d)

Next == SocketThread \/ MainThread \/ Environment \/ Ended

Spec == Init /\ [][Next]_vars

-----------------------------------------------------------------------------
(* Fairness, and the types.                                                *)

\* Fairness: both threads go on, and a mutex that the main thread polls or waits for
\* while the socket thread takes and releases it (it sleeps 2 ms after every round)
\* is found free in the end.  Drain tries once a round, and nothing makes one of its
\* rounds meet free lists.  What the program chooses to do is not forced.
MainGoesOn == Process("main") \/ Drain \/ Handle \/ JoinThread
MainGetsLock == SetAckCache \/ MenuProcess \/ MenuLook
Fairness == WF_vars(SocketThread) /\ WF_vars(MainGoesOn) /\ SF_vars(MainGetsLock)

FairSpec == Spec /\ Fairness

Labels == {"boot", "ctx", "setAck", "handle", "menuWait", "look", "join", "idle", "done",
           "rdLock", "rdRead", "wrLock", "wrSend", "wrWait", "ckScan", "ckSend", "ckWait"}
Arrived == [no : Nat, from : Devices, to : {Me, All, "other"}, n : Nat, i : Nat, body : Seq(Nat),
              kind : {"deny", "flag", "resend", "frag", "ack", "joined", "message"}]

TypeOK ==
    /\ {client, aibus, context} \subseteq Threads \union {"none"}
    /\ pc \in [Threads -> Labels]
    /\ {run, process_active, use_ack_cache} \subseteq BOOLEAN
    /\ {ai_rx, batch, multi_cache, wire} \subseteq Seq(Arrived)
    /\ {ai_tx, aibus_cache, menu, sent} \subseteq Seq(Out)
    /\ connected \subseteq Flagged
    /\ multi_expected_len \in Int /\ ci \in Nat
    /\ due \in [Devices -> 0..MaxDue]
    /\ arrivals \in 0..Len(Arrivals) /\ changes \in 0..MaxChanges
    /\ acked \subseteq Nat /\ settled \subseteq Nat
    /\ \A j, k \in DOMAIN recent_tx : Dest[recent_tx[j][1]] = Dest[recent_tx[k][1]] => j = k

-----------------------------------------------------------------------------
(* Properties.                                                             *)

Inside == {"rdLock", "rdRead", "wrLock", "wrSend", "wrWait", "ckScan", "ckSend", "ckWait"}
Locked == {"rdRead", "wrSend", "wrWait"}

\* Only the thread that holds the client handler uses its socket and caches, and
\* only the one that holds the lists works on them across steps: process and
\* await_cached_acknowledgment are never run by both threads at a time.
OneReader ==
    /\ \A t \in Threads : pc[t] \in Inside <=> client = t
    /\ \A t \in Threads : pc[t] \in Locked <=> aibus = t

\* An acknowledged message reaches the program once: it has been handled, or it is
\* in exactly one of the lists between read_stream, await_acknowledgment, ai_rx and
\* the program (a resend request may be answered instead).
Held == aw.rx \o tx.rx \o ai_rx \o batch
AckedOnce ==
    /\ acked = settled \union Numbers(Held)
    /\ settled \intersect Numbers(Held) = {}
    /\ \A j, k \in DOMAIN Held : Plain(Held[j]) /\ Held[j].no = Held[k].no /\ Plain(Held[k]) => j = k

\* The fragments of two senders, or to two receivers, are never kept together, ...
OnePair ==
    \A j, k \in DOMAIN multi_cache :
        multi_cache[j].from = multi_cache[k].from /\ multi_cache[j].to = multi_cache[k].to

\* ... nor counted together: a joined message is made of as many fragments as it
\* announced.
MultiOnePair ==
    /\ OnePair
    /\ \A j \in DOMAIN Held : Held[j].kind = "joined" => Len(Held[j].body) = Held[j].n

\* What a device gets when it asks for a repetition (the first entry of recent_tx
\* for it) is the frame that was last written to it.
ResendIsLatest ==
    client = "none" =>
        \A d \in Devices :
            LET to == Those(sent, LAMBDA m : Dest[m] = d)
                kept == Those(recent_tx, LAMBDA r : Dest[r[1]] = d)
            IN  to # << >> => kept # << >> /\ kept[1] = <<Last(to), Frags[Last(to)] - 1>>

\* The sending side implements Outbox: ai_tx and aibus_cache together are its
\* waiting messages, and the position in write_stream its message in progress.
Position == IF \E t \in Threads : At(t, "wrWait") THEN Step(tx) ELSE tx
Waiting == ToSet(aibus_cache) \union
           {ai_tx[k] : k \in (IF Position.i = 0 THEN Position.k ELSE Position.k + 1)..Len(ai_tx)}
Sending == IF Position.i = 0 THEN << >> ELSE <<ai_tx[Position.k], Position.i>>

Box == INSTANCE Outbox WITH waiting <- Waiting, sending <- Sending
ImplementsOutbox == Box!Spec

\* Every message in ai_tx is written to the socket, unless the program ends first.
TxSent ==
    \A m \in Out : m \in ToSet(ai_tx) ~> m \in ToSet(sent) \/ ~run

\* When the program ends, so do both threads.
BothEnd == ~run ~> \A t \in Threads : pc[t] = "done"

=============================================================================
