# A verification project for AIBus

This directory holds TLA+ models of the AIBus infotainment system (a car radio, a
navigation computer, screens, a Bluetooth module and vehicle gateways on one
serial bus), the TLC configurations that check them on small instances, and
theorems about them that TLAPS checks for every instance. Two parts are modelled:
the link layer of the bus (C++), and AMirror (Rust), the program on the
navigation computer that connects phones to the car.

Contents: 1 the system, 2 the models, 3 the runs, 4 fairness, 5 the proofs,
6 what was found, 7 what is not modelled, 8 plan. Line numbers are those of the
sources the models were written from; in a section about one module they are lines
of the file the module names first.

## 1. The system

Every device has a one-byte ID and hears every frame. A frame is sender, length,
receiver, data, checksum; the data of one frame is at most 32 bytes. A frame for
one device is acknowledged with `0x80`; 0xFF is everybody and is not acknowledged.
Longer data is split into `0x91` frames, and `0x92` asks for a message again.

| part | sources | state it keeps | operations | works with |
|---|---|---|---|---|
| link layer, microcontrollers | `AIBus Common/AIBus_Handler.*`, `En_AIBus_Handler.*` | `cached_vec`, `tx_vec`, `multi_cache`, the split-message timer, the acknowledgement cache; a call stack, because writing reads and reading writes | `readAIData`, `writeAIData`, `cachePending`, `cacheMessage`, `awaitAcknowledgement`, `requestResend` | the bus |
| link layer, Linux | `AIBus Common/Serial_AIBus_Handler.*`, `AIBus_Serial.*` | the same as vectors, and `cached_tx`, `cached_ack`, `main_locked`, `thread_locked`, `cache_thread_enabled`, shared by two threads | the same, `writeToCache`, `flushCached`, `getCacheEnabled` | the bus, the navigation computer's main loop |
| message format | `AIBus Common/AIBus.*`, `AIBus_C.*` | none | `AIData`: checksum, bytes, lengths | all |
| socket clients | `AIBus Common/Client_AIBus_Handler.*`, `AIBus_Socket.*` of the navigation computer | `rx_cache`, `multi_cache`, `check_ok`, `cache_ok`, socket descriptors | framing of bus frames on a stream socket, reassembly | link layer, Linux |
| radio: source handler | `AidF_Radio/src/Audio_Source.*` | `source_list` (ID, sub-ID, names, connected), `current_source`, `audio_on`, `query`, the open menu | registration of sources, queries, buttons that choose a source | link layer; every source |
| radio: main loop | `AidF_Radio.*`, `Parameter_List.h` | power, door, handshake and source-change timers, what is connected | batches of reads, delayed activation of a new source, keep-alive messages | source handler, tuner, volume, text |
| radio: tuner, volume, text, clock, EEPROM | `Si4735_AidF`, `Background_Tune_Handler`, `Volume_Handler`, `Text_Handler`, `Radio_Time`, `Radio_RAM`, `Radio_EEPROM` | frequencies, presets, levels | chip registers, arithmetic, wording | main loop |
| navigation computer | `AidF_Nav_Computer_Pi/*` | windows, attribute list, ping list; threads for sockets, frames, the clock and video | dispatch of messages, menus, ping round | link layer, Linux; sockets |
| Bluetooth module | `Bluetooth/Code` | connection states | text protocol to an external chip | link layer |
| AMirror: bus client | `AMirror Android Auto/src`: `ipc.rs`, `main.rs`, `aibus_handler.rs` | `ai_rx`, `ai_tx`, `aibus_cache`, `ack_cache`, `recent_tx`, `multi_cache`; three mutexes, two threads | `read_stream`, `write_stream`, `await_acknowledgment`, `await_cached_acknowledgment`, `process` | the AIBus socket; AMirror's main thread |
| AMirror: main thread | `amirror.rs`, `context.rs` | the `Context` (which phone, shown, audio selected, mute, buttons, sensors), timers, key and doors | rounds of `process`, `handle_aibus_message`, menus | bus client; the two phone handlers |
| AMirror: CarPlay dongle | `mirror/*.rs` | dongle state, video and audio pipes | `process`, `interpret_message`, keys | Context; the dongle on USB |
| AMirror: Android Auto | `aap/*.rs` | USB and TLS connection, channels, sessions, fragments | `process`, `process_bytes`, `process_message`, messages of protobuf | Context; the phone on USB |
| screens | `Double DIN Screen`, `2006-2011 Navigation Screen` | buttons, knob, motor | button messages | link layer |
| vehicle gateways | `Honda_CD_XM_Trans`, `CANslator`, `IBUS_Translator` | states of the car's own units | translation | link layer; the car |

Behaviours that are hard to test, and where they come from:

* **Re-entrant calls in the link layer.** `writeAIData` reads everything pending
  before it transmits (519) and while it waits (544, 611); each read
  acknowledges (210), which is a `writeAIData` that reads. A message passes
  through several half-finished calls before its program sees it.
* **A bus that damages frames.** A bad checksum discards the whole buffer (177).
  Acknowledgements are matched by their two IDs only (616), frames are repeated
  after 100 ms (`AIBus_Handler.h:17`), and a repetition is not marked as one.
* **Two threads and three bools** on Linux, without a mutex or an atomic.
* **Lists that change under a walk**: the acknowledgement cache and the radio's
  source list, both through nested reads.
* **Three mutexes and `try_lock` in AMirror.** Where a lock is not free the code
  does something else: it keeps a message for the next round, drops it, or spins.
* **Rounds that compare.** AMirror tells the bus what has changed between two looks
  at the `Context`; phones are served between those looks, and after them.
* **A phone that may go at any moment**, also in the middle of a frame, and come
  back before anybody noticed; a fault on USB with the phone still there.

What makes each part correct: for the link layer, that an acknowledged message
reaches its program, in order, once unless it was repeated; that split messages
are put together from their own parts; that every write ends; that buffers keep to
their storage. For the transmit queue, that messages leave in order with their
flags, that one thread at a time uses it, that nobody waits forever. For
AMirror's client, that messages are handled once and sent once whatever the two
threads do, and that both end. For the phones, that bus, window and radio are told
what is the case, that one handler owns the phone, that a phone that stays gets
going, and that what is said to it is complete, announced and true. For the
source list, that a source keeps its slots and that what is selected can play. The
`hazards` list of PROJECT.json gives the lines.

## 2. The models

| module | models | composed from |
|---|---|---|
| `AIBusHandler` | `AIBusHandler` on every device of one bus, and the bus | |
| `MCAIBusHandler` | its instances: who writes what | AIBusHandler |
| `AIBusHandler_proofs` | theorems: types, the split-message cache | AIBusHandler |
| `AIBusDelivery_proofs` | theorems: what becomes of a message | AIBusHandler_proofs |
| `AIBusSplit_proofs` | theorem: split messages arrive whole | AIBusDelivery_proofs |
| `SerialAIBusHandler` | the transmit queue of the Linux handler: the program's main thread, and the threads made to flush it | |
| `MCSerialAIBusHandler` | its instances | SerialAIBusHandler |
| `SerialAIBusHandler_proofs` | theorems | SerialAIBusHandler |
| `Outbox` | abstract: what the sending side of AMirror's client promises | |
| `AMirrorLink` | `ipc.rs` and its two threads, implements Outbox | Outbox (INSTANCE) |
| `MCAMirrorLink`, `AMirrorLink_proofs` | instances; theorems: mutexes, refinement, the lists, `recent_tx` | AMirrorLink |
| `MirrorSession` | the main thread's rounds, the phones and the rest of the car | |
| `MCMirrorSession`, `MirrorSession_proofs` | instances; theorems | MirrorSession |
| `AapHandler` | one Android Auto connection: USB, TLS, frames, sessions | |
| `MCAapHandler`, `AapHandler_proofs` | its instances; theorems: TLS sessions | AapHandler |
| `AapFrames_proofs` | theorems: frames, channels | AapHandler_proofs |
| `AapFields`, `AapWire` | the protobuf messages as structs, and on the wire | |
| `AapMessages` | what is said to an Android phone, and when | AapFields, AapWire (INSTANCE) |
| `MCAapMessages` | its instances | AapMessages |

The four AMirror models divide one program. AMirrorLink has the lists and mutexes
and takes the messages as names; MirrorSession has the Context and takes messages
as what they tell; AapHandler has the connection and takes messages as types;
AapMessages has their contents and takes the connection as there or not. They meet
at calls of the code: `write_aibus_message` (AMirrorLink `WriteMessage`, MirrorSession
`told`), `AapHandler::process` (MirrorSession `AaEvent`, AapHandler `Handler`, AapMessages
`Request`) and `write_message` (AapHandler `Out`, AapMessages `Write`).

### AIBusHandler

One device is one sequential program that is somewhere inside nested calls, so its
state has `stack[d]`, a sequence of activation records, innermost last. A write
record is in the loop over the fragments (`group`), in the reads before it
transmits (`drain`), in the reads right after (`collect`) or waiting for its
acknowledgement (`await`). A read record is waiting for a resend request to go out
(`enter`), for its acknowledgement (`ack`), for a resend after which it returns
nothing (`nodata`), or in the blocking loop over fragments (`loop`). A step is one
frame taken from a buffer or put on the bus, or one timer that runs out, in the
innermost call; between two such steps the device touches only its own state, so
nothing is lost by taking them whole.

| variable | code |
|---|---|
| `rx[d]` | the UART's receive buffer |
| `cached[d]` | `cached_vec` |
| `multi[d]` | `multi_cache` |
| `tx[d]` | `tx_vec` |
| `stack[d]` | the C++ call stack below `readAIData`/`writeAIData` |
| `inbox[d]`, `outcome[d]`, `repeated` | history: what the program was handed, what its writes returned, which pairs saw a repetition |
| `losses`, `expiries` | counters for the bounds |

| action | code |
|---|---|
| `Write` | the program calls `writeAIData` (383-411) |
| `WriteFragment`, `WriteGroupDone` | `writeAIBusToSerial`'s loop over the fragments of a long message (429-482) |
| `Send` | the drain loop ends and the frame goes out (484-554) |
| `Collected`, `Repeat`, `AwaitDone` | `awaitAcknowledgement`: nothing left to read, REPEAT_DELAY over, done |
| `ReadFrame`, `ReadCached`, `ReadNothing` | `readAIData` takes a frame from the port, or a message of `cached_vec`, or finds nothing |
| `Acknowledged` | the acknowledgement is out, the read goes on with its frame |
| `ExpireMulti`, `LoopTimeout`, `LoopDone` | timers and end of the assembly of a split message, staggered and blocking |
| `Quiet` | all programs are done; stutters, so that a run that stops anywhere else is a deadlock |

What is abstracted: the data of a frame is one unit `<<message, part>>`, so
AIDATA_LIMIT is one; `elapsedMillis` timers may run out at any test of them; a
device does not hear its own frames (the code discards that echo); damage turns a
frame into one with a bad checksum or removes it, for any set of listeners;
`setAckCache` is off, as it is in every device but the CAN gateway. Parts of a
truncated message are kept apart from parts never written (`Missing`, `Junk`).

### SerialAIBusHandler

A step is one access of a thread to a shared variable. `pc` places each thread
in `writeToCache` (385-400) or `flushCached` (787-815) or, for the main thread, in
a poll, a write or a ping of its loop. What happens on the port between such
steps is the subject of AIBusHandler and is left out, except for `readAIData`'s
treatment of `main_locked`: saved (`SaveFlag`), set (`SetFlag`), restored
(`RestoreFlag`) or, at three early returns, not restored (`LeakFlag`), by either
thread and nested, since a write reads. `saved[p]` is the stack of
`last_main_locked`.

The accesses are plain C++ and race. Three outcomes are kept: any interleaving of
the loads and stores of the flags; a `push_back` and an `erase` of one vector at
the same time, of which one may be lost (`ClashTx`, `ClashAck`); and, for the
properties that cannot be expected to survive that, the history variable
`overlapped`, which is set as soon as both threads have used one vector at once.
The empty loops on the flags (385, 802) are taken to load the flag each time; an
optimiser may hoist the load, and then they hang.

### AMirrorLink and Outbox

A step is what one of the two threads does between two operations on a mutex or on
the socket. `client`, `aibus` and `context` say who holds each mutex, `pc[t]` where
thread `t` is.

| variable | code |
|---|---|
| `ai_rx`, `ai_tx`, `aibus_cache`, `batch` | the lists of `AIBusHandler`, the main thread's own list for the time the lists are locked, and what it took over and has still to handle |
| `ack_cache`, `use_ack_cache`, `recent_tx`, `multi_cache`, `multi_expected_len`, `process_active` | fields of `ClientAIBusHandler` |
| `tx`, `aw`, `ci` | locals of `write_stream`, `await_acknowledgment`, `await_cached_acknowledgment` |
| `wire`, `due`, `arrivals` | the socket and the devices behind it |
| `sent`, `acked`, `settled` | history |

| action | code |
|---|---|
| `RdLock`, `RdRead` | `read_stream`: lock the lists, take what the socket holds |
| `WrLock`, `WrSend`, `WrAwaited`, `WrEnd` | `write_stream`, frame by frame |
| `AwRead`, `AwRetry` | `await_acknowledgment`: something was read; 100 ms are over |
| `CkScan`, `CkSend`, `CkAwaited`, `CkAgain` | `await_cached_acknowledgment` |
| `TakeClient`, `EndLoop` | the socket thread's loop (`main.rs`) |
| `Activate`, `Write`, `PhoneChanged`, `SetAckCache`, `Drain`, `Handle`, `CreateMenu`, `ClearMenu`, `MenuProcess`, `MenuLook`, `Quit`, `JoinThread` | the main thread where it uses lists or client handler |

`Outbox` is what the sending side promises: each message goes out at most once, and
the frames of a split message without another message in between. The refinement
mapping takes `ai_tx` from the position of `write_stream` on, together with
`aibus_cache`, as the messages that wait, and the message at that position, once a
frame of it is out, as the one in progress. `WrSend` is `Begin` or `Continue`, `Write`
and the two menu actions are `Submit`, everything else stutters.

Abstracted: a message is a name, a frame a fragment of a name; bytes, checksum and
clocks are left out, so that a timer may run out whenever it is tested. A read takes
at most `ReadMax` frames, and the rest of what its buffer took is lost, as it is in
the code, which makes a new `BufReader` for each read.

### MirrorSession

One thread, so a step is one call whose outcome depends on something outside: a read
from USB, a bus message, a comparison. A round of `AMirror::process` is `Snapshot`,
the dongle, the Android phone, `Announce` (the comparisons of `phone_active` and
`phone_type`), `Timers`, the bus messages - after each of which the phones are served
again while one is mirrored (`pc` "aaIn", "dongleIn", "answer") - and `Finish` (the
comparisons of prompt and mute). Before the power-on is confirmed a round is only
`Standby`. What a phone or device does next is chosen when the program reads it.

| variable | code |
|---|---|
| `ctx`, `snap` | `Context`; `process`'s copies of it |
| `am` | `powered_on`, `run`, `screen_acknowledged`, `power_state`, `door_state` of `AMirror` |
| `dongle`, `aa` | `MirrorHandler` and `AapHandler`, what they keep between calls |
| `minimized`, `ack_cache` | the video windows; the link's `use_ack_cache` |
| `told` | what the last message of each kind told its receiver |
| `box`, `cable`, `button` | what is plugged in and pressed |
| `missed` | history: the changes that no comparison of a round can see |

`missed.type` is set when the phone changes while bus messages are handled, which is
behind the comparison, and reset by the next comparison that tells of a phone.
`missed.shown` is set where `Showing` (a phone is there and active) changes behind the
comparison, through a phone, a bus message or a home button that is held (`Note`, `Home`),
where `phone_active` is reset without the window (`Connected`), and where the window is
brought to the front without a phone (`Alone`). It is reset as soon as the window is set
by a comparison or by the navigation computer, or the release of the home button is passed
on, which has the next comparison set it. The properties about those two things exclude
exactly that; the run `mute_stuck` shows what comes of the first.

What `MirrorHandler` does to the `Context` is lost when the socket thread holds it just
then. A message of the dongle is dropped whole (`DongleNothing`); of the home button only
the change of the `Context` is lost while `home_hold` is kept (`lost` in `Home`). A hold
that is heard and a release that is lost leave the window in front though `phone_active`
is reset, until it is set again. `auto_mirror_start` is a setting the user may change at
any time (`Setting`).

### AapHandler

The phone and the handler exchange frames over a cable that may be pulled and put
back between any two steps; what is on its way is then lost. The handler's part is
`Connect`, `NotConnected` (with `stop_connection`), `ReadFrame`, `ReadPart` and
`ReadRest` (a frame that comes in two reads), `ReadError` and `WriteOwn`; what a frame
does is `Process`, with `Handle` for a message that is whole. A frame that cannot be
decrypted is a soft reset. `ssl` is the number and state of the TLS session, and a
frame carries the number of the session it was encrypted in. The phone opens, sets
up, starts, feeds, stops media channels, and sends other requests at any time.

Any USB error but a timeout resets `aa_activated`, whether the phone has gone or not:
`ReadError` may happen at any read of a connection, and `WriteBytes` may write only the
first of its messages and lose the connection. What the code then does is less than
its comments say. `soft_reset` ("Disable AA to reset the connection", `aap_usb.rs:138`) and
`stop_connection` keep the old `DeviceHandle` and its claim to interface 0; `connect`
replaces it only when the claim of a new handle succeeds (85-97), which the old one
prevents. So a connection that is lost cannot be made again before the phone is plugged
in again: `Connect` needs `cable # handle`, and a plugging-in has one connection at most.

Four names say what the properties have to exclude: `stale` (history: the cable was back
before the handler noticed, so that it is connected again without `stop_connection`: the
services are then never told again; excluded by `KeyOfPhone` and `StartsUp` until the
cable is pulled again), `again` (history: the phone began a session of a channel under a
number that was still in use: by the handler, by an acknowledgement or by a start on its
way; excluded by `AckedIsHandled`), `Hung` (the loop for the rest of a frame, which does
not look whether there still is a connection: it never ends after any USB error, of a
phone that stays as well) and `Claimed` (the connection of this plugging-in was lost). The
last two are excluded by `StartsUp`, which therefore speaks of a phone whose USB works, and
of everything that failed before it was plugged in. `KeyOfHandler` is why nothing
else ends a connection: the frame that comes next can be decrypted.

### AapFields, AapWire, AapMessages

The protobuf code exists twice in `protos.rs`: as structs with getters, and as
`impl Message` with the order, numbers and wire types of the fields. `AapFields` has the
first, `AapWire` the second, for the messages AMirror builds or reads and those they
contain. Both were generated from one schema but edited by hand since, so they are
two modules, and the run compares them: `BytesOf` writes a message by `AapWire`,
`Merge` is `merge_from`, and `ReadsAsMeant` is about what a phone reads. An enumeration
has its numbers, a number its width, a string no content.

`AapMessages` builds every message of `aa_handler.rs` with its fields, sends it through
`write_message` (`Write`; a message with a required field missing is dropped) and
keeps what the phone has heard. Its rounds are those of MirrorSession, reduced to
what the messages depend on: sensors, buttons, screen size, channels. Each request
of the phone (`ServiceDiscovery`, `OpenChannel`, `Setup`, `SensorRequest` ...) comes with
optional fields present or missing, and with one field (99) of a later version.
These modules use RECURSIVE operators, and have no theorems.

Most lines of AMirror that the project covers are generated ones, of `protos.rs`:
for those the models say which fields a message has, not how each accessor does it.

## 3. The runs

Each mutant of PROJECT.json is an operator of the module that changes one
definition the way a slip in the code would; the property it is paired with fails
under the run's own configuration.

| run | instance | shows |
|---|---|---|
| `link_cross` | radio writes two messages, nav one, at once; sound bus; one repetition | `AckedNotLost`: an acknowledged message is always somewhere on its way to the program. `UnrepeatedInOrder`: unrepeated messages arrive in the order they were written. `AckMeansRead`: a success without repetition was read. `EveryMessageArrives` |
| `link_full` | the same, `cached_vec` of one, any one transmission damaged or lost | `TypeOK` with the storage bound; `WritesReturn` although the drain loop stops at a full cache |
| `link_split` | two senders split messages (3 and 2 parts) to one phone at once | `MultiOnePair`; `WholeUnlessRepeated` |
| `link_expiry` | one split message, its timer runs out once | `ResendIsData`: a resend request gets data |
| `serial` | three messages queued, two of them acknowledged; two threads can be made; one nested read; one unrestored return | `OneFlusher`, `PingAlone`, `SentInOrder`, `WriteToCacheReturns` |
| `amirror_link` | a split message to the radio and a menu for the navigation computer; fragments of two senders, a denial, a resend request arrive | `OneReader`, `AckedOnce`, `MultiOnePair`, `ResendIsLatest`; `ImplementsOutbox` |
| `amirror_ack` | a phone that comes or goes, so that unacknowledged frames are kept; nothing but acknowledgements arrives; the program may end | `TypeOK`; `TxSent`, `BothEnd` |
| `session` | phones of both kinds behind the dongle and an Android phone on USB; four bus messages, three phone events, one plug | `TypeOK`, `TypeTold`, `WindowMatches`, `MuteTold`, `OneOwner`, `OffWhenLeft`; `GetsScreen` |
| `mute_stuck` | CarPlay only, nothing plugged | finding: `MutedByAPhone` is violated |
| `aap` | the video channel in frames of two, two sessions, the cable plugged in twice | `TypeOK`, `Whole`, `AckedIsHandled`, `KeyOfPhone`, `KeyOfHandler`; `StartsUp` |
| `early_write` | the same, smaller | finding: `NoGarbage` is violated |
| `messages` | two screens, two lists of buttons, every request of a phone | `TypeOK`, `AllWritten`, `ReadsAsMeant`, `SensorsTold`, `KeysAnnounced`, `ScreenFits` |

Bounds, and why they are enough for the question asked:

* `Script` - the programs' writes. Two writers that collide, with a second message
  behind the first, is the smallest case with nesting on both sides and an order to
  keep. The split run needs three devices.
* `MaxRepeat` is 16 in the code (`AIBus_Handler.h:18`; 50 on Linux). One repetition shows what a second copy does; that a
  repeated write succeeds and another one follows takes two (section 6), and the
  properties that exclude repeated pairs by name are proved for any number.
* `AckedNotLost` and `UnrepeatedInOrder` are about messages of one frame (`WholeTo`), and
  the second about receivers that are sent no split message (`Unsplit`), for the reason
  in section 6. `link_cross` has only such receivers; `link_split` asks what becomes of
  the others.
* `MaxLoss`, `MaxExpiry` count damaged transmissions and expired timers: single faults.
* `CacheSize` 6 never fills in the runs about delivery, as in a device that is not
  overrun; `link_full` makes it fill at once.
* `OnePairRepeats` (a constraint of `link_split`): only frames of the longer of the
  two messages are repeated, which includes every repetition that can disturb the
  other conversation from outside; without it the run does not end in minutes.
* `MaxNesting` 1: deeper calls save and restore the flag around an inner call
  that does the same. `MaxLeaks` 1: after one unrestored return the flag stays set,
  and further ones change nothing until it is reset.
* `ReadMax` 2: some reads take all, others leave something that is lost. `Tries` 1 (20
  or 2 in the code), `GiveUp` 0 (25) and `MaxDue` 1: the frame was repeated, given up or
  acknowledged late, each once. `MaxChanges` 1: the cache is switched once.
* `MaxBus` 4, `MaxPhone` 3, `MaxPlug` 1 of `session`: a voice event, a phone that goes and
  one that comes, with power-on, button list, source and home key around them.
  The home button is pressed, held and released within those bus messages, each of its
  changes lost or not.
* `DataFrames` 2, `MaxData` 2, `MaxPlug` 2, `MaxExtra` 2 of `aap`: a message in two
  frames, a second that needs the acknowledgement of the first, a session that ends and is
  followed by another, a fault in each.
* `MaxBus` 3, `MaxAsk` 2, `MaxPlug` 2 of `messages`: each answer depends on at most one earlier
  request; a sensor value can change, change back and be asked for; a second phone
  finds what the first left. Screens of 1024x600 (with a Bluetooth address) and
  1920x720, button lists with knob and touch and with arrows.

`CHECK_DEADLOCK FALSE` stands in the configurations of MirrorSession (the program ends)
and AapHandler (the loop that waits for the rest of a frame stays there).

## 4. Fairness

`AIBusHandler!Fairness`: a processor does not stop, so each device is weakly fair in
its reads and write steps (the program's loop calls `readAIData` again and again),
its pending write is started, and a timer that is waited for runs out. Nothing is
assumed about losses or about which of two enabled timers runs out first.

`SerialAIBusHandler!Fairness`: both threads are scheduled; a read ends, since it
waits only for its own timers, and so does a write, after MAX_REPEAT repetitions -
however often they read in between, hence strong fairness for `RestoreFlag`,
`WriteDone`, `SendDone`; and a thread that keeps testing `main_locked` sees it reset
if that happens again and again (`MainFree`). The main loop need not call anything.

`AMirrorLink!Fairness`: both threads are scheduled. The main thread waits for a mutex
in three places (`MainGetsLock`); the socket thread releases it and sleeps 2 ms after
each round, so a lock that is free again and again is got: strong fairness. It is
not assumed that a `try_lock`, which is tried once a round, ever succeeds, nor that a
device acknowledges.

`MirrorSession!FairSpec`: the main loop goes on; the request timer of 5 s runs out
again and again in rounds that come by it (strong fairness of `Timers(TRUE)`). No bus
message and no plug is assumed.

`AapHandler!FairSpec`: `process` is called again and again, so frames are read and
errors noticed; a phone that is plugged in is found at one of the looks, though
others are less than 100 ms apart and find nothing (weak fairness of `Connect`: it stays
possible until it is done, as nothing claims the interface of a new plugging-in); the
phone takes what it is sent and goes on with its channel. An error is certain only for a
device that has gone (`cable # handle /\ ReadError`); no fault of USB is assumed to happen
or not to happen. The loop for the rest of a frame ends only if the phone sends it, which
`Reads` says.

## 5. The proofs

For every number of devices, every script and every bound (`AIBusHandler_proofs`):

* `TypeCorrect`: `Spec => []TypeOK`. Includes that `cached_vec` keeps to its storage;
  the action that could break it tests the length first.
* `OneConversation`: `Spec => []MultiOnePair`. Not inductive alone: a fragment is
  compared with `multi_cache` when it is read, and stored when its acknowledgement
  is out, after any number of nested reads. `SafeInv` adds `ReadsGuarded`: a read
  that may open a split message is the program's own, at the bottom of the stack,
  and every fragment that waits for its acknowledgement belongs to the open
  conversation if there is one. Nested reads are called without `multiple` or
  without `cache`, so they cannot open another one in between. That is why
  the early test is safe, and the reason is not written anywhere in the code.

What becomes of a message, also for every number of devices, script and bound
(`AIBusDelivery_proofs`, in four layers, each with the ones before it as hypotheses):

* `ResentIsData`: `Spec => []ResendIsData`. `OriginInv` says where everything comes from:
  what a frame in a buffer, on a stack or in a cache can be (`Real`, `Own`, `Foreigner`),
  which call can lie on which (`Starts`, `Made`: a read begins with the program, or over a
  call that reads), and that `tx_vec` has nothing but messages of the program and requests
  of a device that is sent split messages.
* `AcknowledgedIsRead`: `AckMeansRead`. An acknowledgement does not say what it
  acknowledges, so the proof counts (`Credit`): for each pair that repeated nothing, the
  frames on their way, the acknowledgements still owed in calls of the receiver and
  the acknowledgements on their way are together no more than the writes of the
  sender that wait. At most one call of a sender waits for one receiver; so, if an
  acknowledgement is there, nothing else is under way and the frame was read
  (`AnsweredInv`). The counts are cardinalities of sets of positions in buffers and
  stacks, and each step has a lemma that says what it moves from one to the other.
* `AcknowledgedStays`: `AckedNotLost`. `Tracked`: a message whose acknowledgement is on its
  way or was taken is in the buffer, in a call, in `cached_vec` or with the program;
  each step that takes it from one place puts it in the next.
* `OrderKept`: `UnrepeatedInOrder`. `OrderInv` says at each place of the later message where the
  earlier one is: before it in `inbox`; with the program or before it in `cached_vec`; for a
  read that acknowledges the later one, with the program or in `cached_vec`; for the
  later one in the buffer, read. `AnsweredInv` is why: the later one is written when the
  earlier one was acknowledged, and acknowledged means read.

The last three are proved as `Spec /\ []CanKeep => []P`. `CanKeep` says that `cached_vec`
has room whenever a step begins, and that no device is in the blocking loop over a
split message to *everyone*. Both are conditions of the code: `cacheMessage` drops an
acknowledged message when its storage is full, and
that loop drops what is sent to the device itself (section 6). The instance of
`link_cross` satisfies both in every state: it has three messages, room for six, and no
split message. No assumption is made on losses, timers or nesting.

A split message arrives whole (`AIBusSplit_proofs`, on top of the others):

* `SplitsAreWhole`: `Spec => []WholeUnlessRepeated`, for any scripts, lengths and nesting,
  on a bus that damages frames, and without `CanKeep`. The code keeps nothing that says which
  fragments it has; it counts them, and takes any frame with 0x91 of the right pair. It
  is right because a sender writes the next fragment when the last one was
  acknowledged, and the argument follows that one, the fragment that is due. `SplitInv` says of
  each pair that repeated nothing that it is not yet written, or written and
  not acknowledged, or acknowledged (`Idle`, `OnBus`, `Got`), that no other fragment of the
  pair is anywhere on the bus or in a call (`OneAck`), and that the receiver has exactly
  those before it, in order, in `multi_cache` or in the blocking loop (`Has`). `Credit`, from above, is
  used again: an acknowledgement that arrives can only be that of the due fragment.
  Three things make it inductive. `Shape`: without an expired timer `multi_cache` is empty
  while a loop runs, and the call above a loop is a read that acknowledges.
  `WriterShape`: a split message is written by the bottom call of a stack and its fragments
  by the call above it. `Frozen`: a receiver whose loop has read a message that is none of
  its fragments reads `cached_vec` for ever, so only its timer ends it; until then nothing
  gets to its program, and nothing has to be said of what it drops.
  The property was first stated without the condition on messages to everyone. The
  attempt to prove it showed that it does not hold with a split one (section 6).

For every number of threads and messages, every nesting and number of leaks
(`SerialAIBusHandler_proofs`):

* `SingleFlusher`, `PingsAlone`: `OneFlusher` and `PingAlone`, from `FlusherInv`: while
  `cache_thread_enabled` is reset there is no thread; only the main thread creates
  one, and it has set the flag before.
* `QueueInOrder`: `SentInOrder`, from `QueueInv`: until the threads overlap on a
  vector, `cached_tx` is the interval from the first message not erased to the last
  one written, `cached_ack` the flags of the same interval, each short by one while
  the main thread is between its two pushes or the flusher between its two erases.

For all messages, devices, arrivals and bounds (`AMirrorLink_proofs`):

* `OneThread`: `OneReader`. Inductive together with the places each thread can be at
  (`OneUser`).
* `SendsLikeOutbox`: `ImplementsOutbox`, the refinement. Init maps to Init, and every
  step to a step of `Outbox` or a stutter, under `BoxInv`: `OneUser`, so that there is one
  position; `Queued`, that no message is in both `ai_tx` and `aibus_cache`, or twice in one; and
  `Pointed`, that the position lies within `ai_tx` and its fragment within the message,
  and that outside `write_stream` it is the beginning.

For the same, about the lists (second half of `AMirrorLink_proofs`):

* `EachMessageOnce`: `AckedOnce`. A message that was acknowledged has been handled, or is in
  exactly one of `ai_rx`, the caches of `write_stream` and `await_acknowledgment` and the main
  thread's batch. The loops of the code walk a list and build others; what they leave
  (`Reading`, `Keeping`, `Picking`, `Joining`) is proved by induction over the positions of the
  list. `AckInv` adds to `BoxInv` the types and one conjunct per reason: a list is empty
  outside the part of the program that fills it (`Emptied`), no number is in it twice
  (`OnceEach`) or in two lists (`Accounted`, which is also that nothing is missing), and
  what is still on its way has a number of its own (`Numbered`). The attempt found slips of an
  earlier model: a denial that was sent to everyone counted as settled though it had
  never been acknowledged, and `connected` could get flags of devices that have none.
* `FragmentsOfOnePair`: `OnePair`, the first half of `MultiOnePair`.
* `ResendsTheLatest`: `ResendIsLatest`, and `LinkTypes`: `TypeOK`, from `LatestInv`, which adds
  `Kept`: `recent_tx` has at most one frame for a receiver, and between two lists it is the
  last frame of the last message written to it. While a list is written it holds for
  the messages before that list, since `write_stream` puts a list into `recent_tx` when
  it is through with all of it.

For all kinds of messages and phones and all bounds (`MirrorSession_proofs`):

* `TypeCorrect`, and `TurnsOff` and `SingleOwner` which are inductive with it.
* `MuteIsTold`: `MuteTold`, from `MuteInv`: within a round the bus knows the snapshot, else
  the Context; and in standby neither mute nor prompt is ever set, which is needed
  because standby rounds compare nothing.
* `PhoneIsTold`: `TypeTold`, from `TellInv`: until the comparison the bus and the link
  know the snapshot's phone, after it the Context's, unless `missed` says otherwise.
* `WindowFollows`: `WindowMatches`. `WindowInv` says of the window what `TellInv` says of the
  phone: before the comparison it follows the snapshot, after it the Context, unless
  `missed.shown`, or `home_held`, which the comparison acts on. An earlier form assumed
  that MirrorHandler never loses what the home button does and that only CarPlay
  phones are behind the dongle; with those losses in the model (`mirror/handler.rs:269`,
  280) a window can be left in front, and `missed.shown` says when.

For any media channels, requests, session numbers and bounds (`AapHandler_proofs`):

* `PhoneHasTheKey`: `KeyOfPhone`, and `HandlerHasTheKey`: `KeyOfHandler`, both from `KeyInv`.
  A plugging-in has one connection, so one request for the version, one answer
  and one TLS session, whatever is left of the session before: `Asked` says it of what
  is on its way to the phone, `Answers` of the phone and what it sends. `Plugged`: a handle
  of an earlier cable reaches nobody, and without a phone there is no usable
  session. `Shaken` ties the two sides of the handshake together: a phone that
  was told that it is done is told so by a handler that is done, and the handler is not
  further than the phone, unless the connection before was never ended (`stale`), when it
  begins with the old session. That is where `KeyOfPhone` needs its exception
  and `KeyOfHandler` does not. `KeysFit` is `KeyOfPhone` with what makes it inductive.
  A write may end with any of its messages, so each lemma about writing is
  about every beginning of what is written (`WritesFirst`).

For the same, and any number of frames to a message (`AapFrames_proofs`):

* `MessagesAreWhole`: `Whole`, and `HandlerTypes`: `TypeOK`, from `FrameInv`. In a session that is
  set up, every frame that is not a first one finds the frame before it: it is the last of
  the channel on its way, or nothing of the channel is and `current_data` ends with it
  (`InStep`). The same holds for the frame the phone sends next (`Begun`). It is said per
  channel, since frames of channels mix. It begins to hold when the session is set up, as
  nothing was sent in it before (`Late`) and the phone sends nothing but whole frames
  until then (`Halves`).
* `AcksAreEarned`: `AckedIsHandled`. `Ready` says of a started channel that its session opens with
  a frame still on its way, and then no acknowledgement has its number yet, or is the
  handler's, and then there are no more acknowledgements than messages handled; what
  follows on the channel is data either way. The attempt showed that it is not enough
  to exclude a number that is the handler's present one: with sessions 1, 2, 1 in quick
  succession an acknowledgement of the first is taken for one of the third. `again` was
  widened to every use of a number (`InUse`).

Assumptions: those the modules name (`DeviceAssumption`, `ScriptAssumption`,
`ActorAssumption`, `FlagAssumption`, `SerialBounds`, `OutAssumption`, `ArrivalAssumption`,
`TypesAssumption`, `MediaAssumption`, `AskAssumption`, `SessionAssumption`, and the `BoundAssumption` of each module); TLC evaluates them in each
run. That of AIBusHandler asks for `CacheSize > 0`: the program's cache has room for 16
messages (`AIBus_Handler.h:24`). Where a proof walks over a list it takes the first position at which a claim fails:
the set of such positions has a least element (`Induct`), which needs no induction
theorem with an operator parameter.

Only model-checked:

* all liveness properties: fairness and ENABLED are beyond the prover;
* the second half of AMirrorLink's `MultiOnePair`, that a joined message has as many
  fragments as it announces. It depends on what the devices say: with two
  announcements of different lengths in `arrivals` it is false, and an assumption that excludes
  them would say of the devices what AMirror does not test;
* AapMessages. Messages are nested in messages to any depth, so what is written and read
  is defined by RECURSIVE operators, which TLAPS does not handle; a recursive function needs a set
  of all messages as its domain, and there is none that contains its own nestings.

## 6. What was found

With a run that shows it:

* A phone that goes, or comes, while AMirror handles a bus message is not noticed by
  any comparison: mute, metadata and window stay (`mute_stuck`; `amirror.rs:1285`).
* What AMirror sends of its own accord during the TLS handshake is written as 65535
  zeros (`early_write`; `aa_handler.rs:474-505`).

Met while modelling, in the link layer (the models have it, and the properties
exclude it by name):

* A repeated fragment is counted as a new one, so that the program may be handed a
  truncated message as a complete one (`WholeUnlessRepeated` excludes repetitions).
* After a repetition the acknowledgement of the second copy is taken for that of the
  next message. The message after it is then sent too early, and a receiver that is
  itself writing caches it before the earlier one, which is still in its call: two
  messages change places. TLC finds it with three messages of one sender and
  `MaxRepeat` 2, in 37 steps (`UnrepeatedInOrder` excludes repeated pairs).
* The blocking loop over the fragments of a split message reads with `cache` set. It takes
  messages from `cached_vec` and puts them at its end again (`AIBus_Handler.cpp:257-270`):
  while there are any it reads no fragment from the bus, so that only its 200 ms end it,
  and it may leave two messages of one sender in the wrong order. TLC finds that with
  two messages and a split one to a device that is writing, in 32 steps
  (`UnrepeatedInOrder` excludes receivers of split messages). Fragments that are read in a
  call nested in the loop are acknowledged and dropped (233-240).
* In the blocking loop over a split message to everyone, what comes for the device itself
  is acknowledged and dropped: line 267 compares with the receiver of the split message,
  0xFF (`CanKeep` excludes it). If that is a fragment of a message split for the device,
  the rest is joined without it (`WholeUnlessRepeated` excludes split messages to everyone;
  TLC finds the violation when the condition is taken away and one is in the scripts).
* A resend request is kept for resending. When both sides of a pair send split
  messages at once, it replaces the data it asks for (`link_expiry` has one sender).
* A message queued while the flushing thread ends stays in the queue until
  some later one is queued (`Serial_AIBus_Handler.cpp:814`).
* The two flags do not keep the serial port to one thread: each is tested and set in
  two steps.

In AMirror:

* A home button that is released asks for a new comparison (`home_held`), also when its
  phone has gone by then. If the interface is turned on without a phone, which sets
  `phone_active`, the comparison brings an empty video window to the front
  (`amirror.rs:395-398`). It takes five bus messages, beyond the bound of `session`, and was
  found by the attempt to prove `WindowMatches` (`Alone`).
* A home button that is held hides the phone only when it is released: the hold resets
  `phone_active` (`mirror/handler.rs:269`), the release asks for the comparison (280). Each
  is done by one `try_lock` and lost when the socket thread holds the `Context`, while
  `home_hold` is kept. A release lost after a hold that was handled behind the comparison
  leaves the window in front with `phone_active` reset (`session` reaches it;
  `WindowMatches` excludes it by `missed.shown`).
* An Android phone behind the dongle is not kept: the dongle sets `phone_type` 5
  (`mirror/handler.rs:392`), the Android handler finds nothing on USB and sets it to 0
  (`aa_handler.rs:280`), without a word to the dongle, which stays connected to it.
* `create_menu` takes the menu to be granted also when its question is still in
  `aibus_cache`, as the lists were locked (`amirror.rs:3504`).
* `await_cached_acknowledgment` writes an entry without the socket's header, which the
  server does not take (`ipc.rs:618`): a kept frame goes out with the repetition only.
* `recent_tx` keeps the last fragment of a split message, and that is what a resend
  request gets. A read of more than 1024 bytes loses the rest of its buffer of 8192.
* Messages of the dongle are lost when the socket thread holds the `Context`
  (`mirror/handler.rs:402`, 434, 545). In the same situation the Android handler clears
  `phone_req_off` where it should set it (`aa_handler.rs` near 830 and 988).
* The loop for the rest of a frame (`aa_handler.rs:552`) never ends after a USB error in it,
  of a phone that is unplugged or of one that stays (`aap_usb.rs:161`): without
  `aa_activated` `read_bytes` returns nothing, and the loop does not look. Two frames that
  come in one read are taken for one.
* After a soft reset or any lost connection the phone is not found again until it is
  plugged in again, as the old handle keeps interface 0 (`aap_usb.rs:85-97`, 139,
  `aa_handler.rs:268`).
* A phone that is unplugged and back before the next look is connected without
  `stop_connection`: `had_sdr` stays set and its service discovery is never answered.
* Ping, navigation focus and byebye on the control channel are not answered: the control
  channel is handled apart (692) and the answers are in the branch of the others (777).
* The batch with a speed after the first video set-up lacks required fields and is
  never sent (2049-2056). A sensor value told to the phone between two messages of a
  round and changed back by its end stays wrong on the phone.
* A screen between 1280x720 and 1920x1080 gets the smaller codec.
* A PLAYPAUSE for CarPlay is sent twice (`amirror.rs:2717`, `mirror/handler.rs:297`); the
  fraction of the longitude takes the sign of the latitude (`amirror.rs:2804`).

## 7. What is not modelled, and why

The notes of `components` in PROJECT.json say it for each part. In short:

* Link layer: the acknowledgement cache of the CAN gateway and multi-ID devices, the
  byte format and its checksum; the C++ socket client, which has bools where the Rust
  client has mutexes.
* Radio and navigation computer: the source list and main loops are planned. Tuner
  registers, drawing, menus, wording and pins are sequential I/O.
* The threads of `AIBus_Socket.cpp`, which write to the port of the Linux link layer by its
  descriptor (`AidF_Nav_Computer_Pi.cpp:88`, 93) beside the two threads of SerialAIBusHandler.
* A phone that does not read, so that a write to it ends with its timeout.
* Screens, vehicle gateways, Bluetooth: their other side is outside the repository.
* AMirror: menus and display text; metadata, phone and song names; night and volume on
  the bus; the start of music (`amirror.rs:647`); the bytes of the dongle's messages; `mpv`
  and sound, which are pipes to other programs; libusb and OpenSSL, which appear as
  what the code does with their answers. `aap_messages.rs`, `sensor_messages.rs` and
  `aap_channel_descriptor.rs` are earlier hand-written versions of `protos.rs` that nothing uses.

## 8. Plan

Done: link layer and transmit queue of the bus with proofs; AMirror's client with its
refinement and the proofs about its lists; the main thread's rounds with proofs; the
Android Auto connection with proofs, and its messages. Next, in this order:

1. `SourceHandler`: the radio's source list - registration with sub-sources, names,
   queries that handle messages while they wait, the buttons. Properties: the
   tuner's slots are never lost, one base slot for each source, no slot passes from
   one source to another, searches end.
2. AapMessages with a bound on the nesting of messages, as functions on levels, so
   that `AllWritten` and `KeysAnnounced` can be proved.
3. `ClientAIBusHandler`, the C++ client: it should refine a sequence of messages.
4. The byte format, as a function with its inverse; the acknowledgement cache of the
   CAN gateway, as a variant of AIBusHandler's `Send` and `ReadFrame`.
