----------------------------- MODULE MirrorSession -----------------------------
(***************************************************************************)
(* What AMirror's main thread does with the phones: one round of           *)
(* AMirror::process (amirror.rs), the two handlers it calls (MirrorHandler *)
(* of mirror/handler.rs for a phone behind the CarPlay dongle, AapHandler  *)
(* of aap/aa_handler.rs for an Android phone on USB) and the part of       *)
(* handle_aibus_message that concerns the state they share, the Context.   *)
(*                                                                         *)
(* A round compares the Context with a snapshot taken at its start and     *)
(* tells the bus what has changed.  What a phone, the dongle or a device   *)
(* of the bus does next is chosen when the program reads it.  Of a message *)
(* AMirror writes only what it tells the receiver is kept, in told: the    *)
(* list that carries it to the bus keeps the order (AMirrorLink).          *)
(***************************************************************************)
EXTENDS Integers

CONSTANTS
    DongleTypes, \* phone types the dongle reports: 3 is CarPlay, 5 Android
    BusKinds,    \* kinds of bus messages considered
    PhoneKinds,  \* kinds of events of a connected phone considered
    MaxBus,      \* bound: bus messages
    MaxPhone,    \* bound: events of the phones and of the dongle
    MaxPlug      \* bound: times something is plugged in or out

ASSUME TypesAssumption == DongleTypes \subseteq {3, 5}
ASSUME BoundAssumption == MaxBus \in Nat /\ MaxPhone \in Nat /\ MaxPlug \in Nat

None == 0
CarPlay == 3
Android == 5

VARIABLES
    pc,         \* where the main thread is
    auto_mirror_start, \* the setting: a phone that comes is shown
    ctx,        \* the Context
    snap,       \* what process() remembers of the Context from the start of the round
    inner,      \* phones are served again after each bus message of this round
    am,         \* AMirror: powered_on, run, screen_acknowledged, power_state, door_state
    dongle,     \* MirrorHandler: connected, startup, home_hold
    aa,         \* AapHandler: connected, home_hold
    minimized,  \* no video window is in front
    ack_cache,  \* the link's use_ack_cache
    told,       \* what the bus was last told
    box,        \* the dongle: plugged in, has answered Open, type of its phone
    cable,      \* an Android phone is plugged in
    button,     \* the screen's home button: up, down or held
    missed,     \* changes made while bus messages were handled (history)
    bus, phone, plug  \* how often each has happened, for the bounds

program == <<auto_mirror_start, ctx, snap, inner, am, dongle, aa, minimized, ack_cache>>
world == <<box, cable, button>>
history == <<told, missed>>
counts == <<bus, phone, plug>>
vars == <<pc, program, world, history, counts>>

Context == [phone_type : {None} \union {CarPlay, Android}, phone_active : BOOLEAN,
            audio_selected : BOOLEAN, notification : BOOLEAN, phone_mute : BOOLEAN,
            phone_req_off : BOOLEAN, home_held : BOOLEAN]

Showing(c) == c.phone_active /\ c.phone_type # None

-----------------------------------------------------------------------------
(* The start of a round.                                                   *)

\* process() remembers what it will compare; the phones are served once the screen
\* has sent its list of buttons.
Snapshot ==
    /\ pc = "top" /\ am.run /\ am.powered_on
    /\ pc' = IF am.screen_acknowledged THEN "dongle" ELSE "announce"
    /\ snap' = ctx
    /\ UNCHANGED <<auto_mirror_start, ctx, inner, am, dongle, aa, minimized, ack_cache, world, history, counts>>

\* Until the power-on is confirmed only bus messages are handled.
Standby ==
    /\ pc = "top" /\ am.run /\ ~am.powered_on
    /\ pc' = "standby"
    /\ UNCHANGED <<program, world, history, counts>>

\* The main loop ends after the round in which run was reset.
End ==
    /\ pc = "top" /\ ~am.run
    /\ pc' = "ended"
    /\ UNCHANGED <<program, world, history, counts>>

-----------------------------------------------------------------------------
(* MirrorHandler.                                                          *)

\* What interpret_message does to the Context for each kind of message.
Interpret(c, m) ==
    CASE m = "gone"     -> [c EXCEPT !.phone_type = None]
      [] m = "prompt"   -> IF c.phone_type = CarPlay THEN [c EXCEPT !.notification = TRUE] ELSE c
      [] m = "host_ui"  -> [c EXCEPT !.phone_active = FALSE, !.phone_req_off = TRUE]
      [] m = "video_on" -> [c EXCEPT !.phone_active = TRUE]
      [] m = "siri_on"  -> IF c.audio_selected THEN c
                           ELSE [c EXCEPT !.notification = FALSE, !.phone_mute = TRUE]
      [] m = "siri_off" -> IF c.audio_selected THEN c
                           ELSE [c EXCEPT !.notification = FALSE, !.phone_mute = FALSE]

DongleMessages == {"prompt", "host_ui", "video_on", "siri_on", "siri_off"}

\* Changes to the Context that the round's comparison has already passed: of the
\* phone, until a later comparison tells of one, and of whether it is shown, until
\* the window is set anew.
Note(at, c) ==
    IF at \in {"aaIn", "dongleIn", "answer"}
      THEN [type |-> missed.type \/ c.phone_type # ctx.phone_type,
            shown |-> missed.shown \/ Showing(c) # Showing(ctx)]
      ELSE missed

DongleAt == pc \in {"dongle", "dongleIn"}
DongleReturns == pc' = IF pc = "dongle" THEN "aa" ELSE "handle"

\* Mutant: the dongle is served whichever phone is there.
ServesDongleAlways == TRUE

\* The dongle is left alone while an Android phone is there.
ServesDongle == ctx.phone_type # Android

\* It is also left alone when the socket thread happens to hold the Context.
DongleSkip ==
    /\ DongleAt
    /\ DongleReturns
    /\ UNCHANGED <<program, world, history, counts>>

\* No connection: a CarPlay phone is given up, and the dongle looked for.
DongleConnect(ok) ==
    /\ DongleAt
    /\ ServesDongle /\ ~dongle.connected
    /\ ok => box.plugged
    /\ ctx' = IF ctx.phone_type = CarPlay THEN [ctx EXCEPT !.phone_type = None] ELSE ctx
    /\ missed' = Note(pc, ctx')
    /\ dongle' = [dongle EXCEPT !.startup = FALSE, !.connected = ok]
    /\ box' = IF ok THEN [box EXCEPT !.opened = FALSE, !.type = None] ELSE box
    /\ IF ok THEN UNCHANGED pc ELSE DongleReturns
    /\ UNCHANGED <<auto_mirror_start, snap, inner, am, aa, minimized, ack_cache, told, cable, button, counts>>

\* A prompt ends half a second after its last audio.
Expire(c, expired) == [c EXCEPT !.notification = @ /\ ~expired]

\* Connected: whatever is read is interpreted, and lost if the socket thread holds the
\* Context just then (try_lock without a second try).
DongleRead(c, d) ==
    /\ DongleAt
    /\ ServesDongle /\ dongle.connected
    /\ \E expired, lost \in BOOLEAN :
        LET known == IF lost THEN ctx ELSE c
        IN  /\ expired => known.notification
            /\ ctx' = Expire(known, expired)
    /\ missed' = Note(pc, ctx')
    /\ dongle' = d
    /\ DongleReturns
    /\ UNCHANGED <<auto_mirror_start, snap, inner, am, aa, minimized, ack_cache, told, cable, button, bus, plug>>

DongleNothing ==
    /\ DongleRead(ctx, [dongle EXCEPT !.connected = box.plugged])
    /\ UNCHANGED <<box, phone>>

\* The Open message, after the startup messages.
DongleOpen ==
    /\ box.plugged /\ ~box.opened /\ phone < MaxPhone
    /\ DongleRead(ctx, [dongle EXCEPT !.startup = TRUE])
    /\ box' = [box EXCEPT !.opened = TRUE]
    /\ phone' = phone + 1

\* Mutant: the type of the message is kept instead of the type of the phone.
DonglePhoneMessage(type) ==
    /\ box.plugged /\ box.opened /\ box.type = None /\ phone < MaxPhone
    /\ DongleRead([ctx EXCEPT !.phone_type = 2], dongle)
    /\ box' = [box EXCEPT !.type = type]
    /\ phone' = phone + 1

DonglePhone(type) ==
    /\ box.plugged /\ box.opened /\ box.type = None /\ phone < MaxPhone
    /\ DongleRead([ctx EXCEPT !.phone_type = type], dongle)
    /\ box' = [box EXCEPT !.type = type]
    /\ phone' = phone + 1

DongleGone ==
    /\ box.plugged /\ box.type # None /\ phone < MaxPhone
    /\ DongleRead(Interpret(ctx, "gone"), dongle)
    /\ box' = [box EXCEPT !.type = None]
    /\ phone' = phone + 1

DongleMessage(m) ==
    /\ box.plugged /\ box.type # None /\ phone < MaxPhone
    /\ DongleRead(Interpret(ctx, m), dongle)
    /\ phone' = phone + 1
    /\ UNCHANGED box

-----------------------------------------------------------------------------
(* AapHandler, of which AapHandler.tla has the rest.                       *)

AndroidEvents == {"voice_on", "voice_off", "byebye", "left_locked", "prompt_on", "prompt_off", "video_stop"}

\* What process_message does to the Context.  "byebye" is heard on every channel but the
\* control channel; "left_locked" is it, or the end of the video, while the socket
\* thread holds the Context: phone_req_off is cleared then.
Receive(c, e) ==
    CASE e = "voice_on"  -> [c EXCEPT !.phone_mute = @ \/ ~c.audio_selected, !.notification = FALSE]
      [] e = "voice_off" -> [c EXCEPT !.phone_mute = @ /\ c.audio_selected]
      [] e \in {"byebye", "video_stop"} -> [c EXCEPT !.phone_active = FALSE, !.phone_req_off = TRUE]
      [] e = "left_locked" -> [c EXCEPT !.phone_active = FALSE, !.phone_req_off = FALSE]
      [] e = "prompt_on"  -> [c EXCEPT !.notification = @ \/ ~c.phone_mute]
      [] e = "prompt_off" -> [c EXCEPT !.notification = FALSE]

\* process() is called in a round and after each bus message; "answer" is the one
\* read after a button of the screen's has been passed on to the phone.
AaAt == pc \in {"aa", "aaIn", "answer"}
AaReturns == pc' = CASE pc = "aa" -> "announce"
                     [] pc = "aaIn" -> "dongleIn"
                     [] OTHER -> IF inner /\ am.screen_acknowledged THEN "aaIn" ELSE "handle"

AaSkip ==
    /\ AaAt /\ pc # "answer"
    /\ ctx.phone_type = CarPlay
    /\ AaReturns
    /\ UNCHANGED <<program, world, history, counts>>

\* Nothing connected: the phone is looked for, and found or given up.
AaConnect(ok) ==
    /\ AaAt /\ pc # "answer"
    /\ ctx.phone_type # CarPlay /\ ~aa.connected
    /\ ok => cable
    /\ aa' = [aa EXCEPT !.connected = ok]
    /\ ctx' = [ctx EXCEPT !.phone_type = IF ok THEN Android ELSE None]
    /\ missed' = Note(pc, ctx')
    /\ AaReturns \/ (ok /\ ctx.audio_selected /\ UNCHANGED pc)
    /\ UNCHANGED <<auto_mirror_start, snap, inner, am, dongle, minimized, ack_cache, told, world, counts>>

AaRead(c) ==
    /\ ctx' = c
    /\ missed' = Note(pc, c)
    /\ UNCHANGED <<auto_mirror_start, snap, inner, am, dongle, minimized, ack_cache, told, world, bus, plug>>

\* A round of reads ends with nothing, or with the phone gone.
AaNothing ==
    /\ AaAt
    /\ ctx.phone_type # CarPlay /\ aa.connected
    /\ aa' = [aa EXCEPT !.connected = cable]
    /\ AaRead(ctx)
    /\ AaReturns
    /\ UNCHANGED phone

\* While audio is selected more may be read before process() returns.
AaEvent(e) ==
    /\ AaAt
    /\ ctx.phone_type # CarPlay /\ aa.connected /\ cable /\ phone < MaxPhone
    /\ AaRead(Receive(ctx, e))
    /\ \/ AaReturns
       \/ ctx.audio_selected /\ pc # "answer" /\ UNCHANGED pc
    /\ phone' = phone + 1
    /\ UNCHANGED aa

-----------------------------------------------------------------------------
(* process() tells the bus what has changed.                               *)

\* phone_active is set, and there is no phone, nor was there at the start of the round.
Alone(r) == r.c.phone_active /\ {r.c.phone_type, snap.phone_type} = {None}

\* phone_active, or the home button released after it was held; without a phone that
\* brings an empty window to the front.
TellActive(r) ==
    IF r.c.phone_active = snap.phone_active /\ ~r.c.home_held THEN r
    ELSE [r EXCEPT !.c.home_held = FALSE,
                   !.minimized = ~r.c.phone_active,
                   !.missed.shown = Alone(r),
                   !.told.active = r.c.phone_active,
                   !.told.screen = IF r.c.phone_active THEN "amirror" ELSE "nav"]

Disconnected(r) ==
    LET off == [r EXCEPT !.c.notification = FALSE, !.c.phone_mute = FALSE]
    IN  IF ~r.c.phone_active THEN off
        ELSE [off EXCEPT !.minimized = TRUE, !.missed.shown = FALSE,
                         !.told.active = FALSE, !.told.screen = "nav"]

\* Mutant: the window stays where it was.
ConnectedHidden(r) ==
    IF auto_mirror_start
      THEN [r EXCEPT !.c.phone_active = TRUE, !.missed.shown = FALSE, !.told.active = TRUE]
      ELSE [r EXCEPT !.c.phone_active = FALSE, !.missed.shown = ~r.minimized]

\* Without auto_mirror_start phone_active is reset without a word, even if the phone
\* before was shown and no round has seen none.
Connected(r) ==
    IF auto_mirror_start
      THEN [r EXCEPT !.c.phone_active = TRUE, !.minimized = FALSE, !.missed.shown = FALSE, !.told.active = TRUE]
      ELSE [r EXCEPT !.c.phone_active = FALSE, !.missed.shown = ~r.minimized]

\* Mutant: the link is told only of a phone that comes.
TellTypeOn(r) ==
    IF r.c.phone_type = snap.phone_type THEN r
    ELSE [(IF r.c.phone_type = None THEN Disconnected(r) ELSE Connected(r))
            EXCEPT !.told.type = r.c.phone_type, !.ack = TRUE, !.missed.type = FALSE]

\* phone_type: also said to the link, which keeps unacknowledged messages for a phone.
TellType(r) ==
    IF r.c.phone_type = snap.phone_type THEN r
    ELSE [(IF r.c.phone_type = None THEN Disconnected(r) ELSE Connected(r))
            EXCEPT !.told.type = r.c.phone_type, !.ack = r.c.phone_type # None, !.missed.type = FALSE]

Announce ==
    /\ pc = "announce"
    /\ LET r == TellType(TellActive([c |-> ctx, minimized |-> minimized, told |-> told,
                                     ack |-> ack_cache, missed |-> missed]))
       IN  /\ ctx' = r.c /\ minimized' = r.minimized /\ told' = r.told
           /\ ack_cache' = r.ack /\ missed' = r.missed
    /\ pc' = "timers"
    /\ UNCHANGED <<auto_mirror_start, snap, inner, am, dongle, aa, world, counts>>

\* Mutant: only with the audio.
TimersAudio(due) ==
    /\ pc = "timers"
    /\ due => Showing(ctx) /\ ctx.audio_selected
    /\ told' = IF due THEN [told EXCEPT !.screen = "amirror"] ELSE told
    /\ inner' = ctx.phone_active
    /\ pc' = "handle"
    /\ UNCHANGED <<auto_mirror_start, ctx, snap, am, dongle, aa, minimized, ack_cache, world, missed, counts>>

\* The control request repeated every 5 s.
Timers(due) ==
    /\ pc = "timers"
    /\ due => Showing(ctx)
    /\ told' = IF due THEN [told EXCEPT !.screen = "amirror"] ELSE told
    /\ inner' = ctx.phone_active
    /\ pc' = "handle"
    /\ UNCHANGED <<auto_mirror_start, ctx, snap, am, dongle, aa, minimized, ack_cache, world, missed, counts>>

-----------------------------------------------------------------------------
(* handle_aibus_message.                                                   *)

Handling == pc \in {"handle", "standby"}

\* After a message the phones are served again; in standby they are not.
Served(screen) == IF pc = "handle" /\ inner /\ screen THEN "aaIn" ELSE pc

Handled(next) ==
    /\ pc' = next
    /\ bus' = bus + 1
    /\ UNCHANGED <<snap, inner, phone, plug>>

Message(kind) == Handling /\ kind \in BusKinds /\ bus < MaxBus

\* The radio selects a source.
Source(new) ==
    /\ Message("source")
    /\ IF new = "amirror"
         THEN /\ ctx' = [ctx EXCEPT !.audio_selected = TRUE, !.notification = FALSE, !.phone_mute = FALSE]
              /\ told' = IF Showing(ctx) THEN [told EXCEPT !.screen = "amirror"] ELSE told
         ELSE ctx' = [ctx EXCEPT !.audio_selected = FALSE] /\ UNCHANGED told
    /\ Handled(Served(am.screen_acknowledged))
    /\ UNCHANGED <<auto_mirror_start, am, dongle, aa, minimized, ack_cache, world, missed>>

\* The navigation computer turns the interface on or off.
Interface(on) ==
    /\ Message("interface")
    /\ minimized' = (~on \/ ctx.phone_type = None)
    /\ ctx' = [ctx EXCEPT !.phone_active = on,
                          !.phone_req_off = @ /\ ~(on /\ ctx.phone_type # None)]
    /\ told' = [told EXCEPT !.active = on,
                            !.screen = IF Showing(ctx') THEN "amirror" ELSE "nav"]
    /\ missed' = [missed EXCEPT !.shown = FALSE]
    /\ Handled(Served(am.screen_acknowledged))
    /\ UNCHANGED <<auto_mirror_start, am, dongle, aa, ack_cache, world>>

\* The user turns auto_mirror_start on or off in the settings menu.
Setting ==
    /\ Message("settings")
    /\ auto_mirror_start' = ~auto_mirror_start
    /\ Handled(Served(am.screen_acknowledged))
    /\ UNCHANGED <<ctx, am, dongle, aa, minimized, ack_cache, world, history>>

\* Mutant: a key turned off with a door open does not end the program.
KeyIgnored(on) == [am EXCEPT !.power_state = on, !.powered_on = @ \/ on]

Key(on) == [am EXCEPT !.power_state = on, !.powered_on = @ \/ on,
                      !.run = @ /\ ~(~on /\ am.door_state.open /\ am.powered_on)]

Door(d) == [am EXCEPT !.door_state = d,
                      !.run = @ /\ ~(~am.power_state /\ d.open /\ (am.powered_on \/ d.away))]

CarState(a) ==
    /\ Message("car")
    /\ am' = a
    /\ Handled(Served(am.screen_acknowledged))
    /\ UNCHANGED <<auto_mirror_start, ctx, dongle, aa, minimized, ack_cache, world, history>>

\* The screen's list of buttons; the phones are not served before it.
Buttons ==
    /\ Message("buttons")
    /\ am' = [am EXCEPT !.screen_acknowledged = TRUE]
    /\ Handled(Served(TRUE))
    /\ UNCHANGED <<auto_mirror_start, ctx, dongle, aa, minimized, ack_cache, world, history>>

\* What the screen's user does with the home button.  The message about the press
\* may be lost.
Press == button = "up" /\ button' = "down"
Hold == button # "held" /\ button' = "held"
Release == button # "up" /\ button' = "up"

\* An Android phone's answer to the button is read at once.
Answered == IF ctx.phone_type = Android /\ aa.connected THEN "answer" ELSE Served(am.screen_acknowledged)

\* A message of the screen's is passed on to the handler of the phone that is there.
\* MirrorHandler loses the change of the Context, and only that, if the socket thread
\* holds it just then; AapHandler waits.  A release that is heard has the next round
\* set the window anew.
Home ==
    /\ Message("home")
    /\ Press \/ Hold \/ Release
    /\ \E lost \in BOOLEAN :
        LET t == ctx.phone_type
            down == button' = "held"
            up == button' = "up"
            hold(h) == [h EXCEPT !.home_hold = down \/ (@ /\ ~up)]
            was == (t = CarPlay /\ dongle.home_hold) \/ (t = Android /\ aa.home_hold)
            heard == up /\ was /\ ~lost
        IN  /\ lost => t = CarPlay
            /\ dongle' = IF t = CarPlay THEN hold(dongle) ELSE dongle
            /\ aa' = IF t = Android THEN hold(aa) ELSE aa
            /\ ctx' = [ctx EXCEPT !.phone_active = @ /\ ~(down /\ t # None /\ ~lost),
                                  !.home_held = @ \/ heard]
            /\ missed' = [missed EXCEPT !.shown = ~heard /\ (@ \/ Showing(ctx') # Showing(ctx))]
    /\ Handled(Answered)
    /\ UNCHANGED <<auto_mirror_start, am, minimized, ack_cache, box, cable, told>>

\* Mutant: the radio is told only while a phone is there.
FinishWithPhone ==
    /\ pc = "handle"
    /\ told' = [told EXCEPT
        !.notification = IF ctx.notification # snap.notification THEN ctx.notification ELSE @,
        !.mute = IF ctx.phone_mute # snap.phone_mute /\ ctx.phone_type # None THEN ctx.phone_mute ELSE @]
    /\ pc' = "top"
    /\ UNCHANGED <<program, world, missed, counts>>

\* The batch is done: the last comparisons of the round.
Finish ==
    /\ pc = "handle"
    /\ told' = [told EXCEPT
        !.notification = IF ctx.notification # snap.notification THEN ctx.notification ELSE @,
        !.mute = IF ctx.phone_mute # snap.phone_mute THEN ctx.phone_mute ELSE @]
    /\ pc' = "top"
    /\ UNCHANGED <<program, world, missed, counts>>

StandbyEnd ==
    /\ pc = "standby"
    /\ pc' = "top"
    /\ UNCHANGED <<program, world, history, counts>>

-----------------------------------------------------------------------------
(* What is plugged in.                                                     *)

\* The program sees it at its next call of the USB library, so these happen there.
Reads == pc \in {"dongle", "dongleIn", "aa", "aaIn", "answer"}

PlugDongle ==
    /\ Reads /\ plug < MaxPlug
    /\ box' = [plugged |-> ~box.plugged, opened |-> FALSE, type |-> None]
    /\ plug' = plug + 1
    /\ UNCHANGED <<pc, program, cable, button, history, bus, phone>>

PlugCable ==
    /\ Reads /\ plug < MaxPlug
    /\ cable' = ~cable
    /\ plug' = plug + 1
    /\ UNCHANGED <<pc, program, box, button, history, bus, phone>>

-----------------------------------------------------------------------------

Init ==
    /\ pc = "top"
    /\ auto_mirror_start \in BOOLEAN
    /\ ctx = [phone_type |-> None, phone_active |-> TRUE, audio_selected |-> FALSE,
              notification |-> FALSE, phone_mute |-> FALSE,
              phone_req_off |-> FALSE, home_held |-> FALSE]
    /\ snap = ctx
    /\ inner = FALSE
    /\ am = [powered_on |-> FALSE, run |-> TRUE, screen_acknowledged |-> FALSE,
             power_state |-> FALSE, door_state |-> [open |-> FALSE, away |-> FALSE]]
    /\ dongle = [connected |-> FALSE, startup |-> FALSE, home_hold |-> FALSE]
    /\ aa = [connected |-> FALSE, home_hold |-> FALSE]
    /\ minimized = TRUE /\ ack_cache = FALSE
    /\ told = [type |-> None, active |-> FALSE, screen |-> "nav", mute |-> FALSE, notification |-> FALSE]
    /\ box = [plugged |-> TRUE, opened |-> FALSE, type |-> None]
    /\ cable = FALSE
    /\ button = "up"
    /\ missed = [type |-> FALSE, shown |-> FALSE]
    /\ bus = 0 /\ phone = 0 /\ plug = 0

PhoneSteps ==
    \/ DongleSkip \/ (\E ok \in BOOLEAN : DongleConnect(ok)) \/ DongleNothing \/ DongleOpen
    \/ (\E type \in DongleTypes : DonglePhone(type)) \/ DongleGone
    \/ (\E m \in DongleMessages \intersect PhoneKinds : DongleMessage(m))
    \/ AaSkip \/ (\E ok \in BOOLEAN : AaConnect(ok)) \/ AaNothing
    \/ (\E e \in AndroidEvents \intersect PhoneKinds : AaEvent(e))

BusSteps ==
    \/ \E new \in {"amirror", "other"} : Source(new)
    \/ \E on \in BOOLEAN : Interface(on) \/ CarState(Key(on))
    \/ \E d \in [open : BOOLEAN, away : BOOLEAN] : CarState(Door(d))
    \/ Buttons \/ Home \/ Setting

Rounds == Snapshot \/ Standby \/ Announce \/ (\E due \in BOOLEAN : Timers(due)) \/ Finish \/ StandbyEnd \/ End

Next == PhoneSteps \/ BusSteps \/ Rounds \/ PlugDongle \/ PlugCable

Spec == Init /\ [][Next]_vars

\* The main thread goes on, and the request timer runs out again and again.
FairSpec ==
    /\ Spec
    /\ WF_vars(PhoneSteps \/ Rounds)
    /\ SF_vars(Timers(TRUE))

-----------------------------------------------------------------------------
(* Properties.                                                             *)

Places == {"top", "standby", "dongle", "aa", "announce", "timers", "handle", "aaIn",
           "dongleIn", "answer", "ended"}
Car == [powered_on : BOOLEAN, run : BOOLEAN, screen_acknowledged : BOOLEAN,
        power_state : BOOLEAN, door_state : [open : BOOLEAN, away : BOOLEAN]]
DongleState == [connected : BOOLEAN, startup : BOOLEAN, home_hold : BOOLEAN]
AaState == [connected : BOOLEAN, home_hold : BOOLEAN]
Told == [type : {None, CarPlay, Android}, active : BOOLEAN, screen : {"amirror", "nav"},
         mute : BOOLEAN, notification : BOOLEAN]
Box == [plugged : BOOLEAN, opened : BOOLEAN, type : {None, CarPlay, Android}]
Missed == [type : BOOLEAN, shown : BOOLEAN]

TypeOK ==
    /\ pc \in Places
    /\ auto_mirror_start \in BOOLEAN /\ inner \in BOOLEAN
    /\ minimized \in BOOLEAN /\ ack_cache \in BOOLEAN
    /\ ctx \in Context /\ snap \in Context
    /\ am \in Car /\ dongle \in DongleState /\ aa \in AaState
    /\ told \in Told /\ missed \in Missed
    /\ box \in Box /\ cable \in BOOLEAN /\ button \in {"up", "down", "held"}
    /\ bus \in 0..MaxBus /\ phone \in 0..MaxPhone /\ plug \in 0..MaxPlug

\* Once a round has told of its changes the navigation computer and the link know
\* which phone is there, whatever the two handlers did to phone_type before
\* (process, amirror.rs:433-669), unless it changed while bus messages were handled.
TypeTold ==
    pc = "timers" /\ ~missed.type =>
        told.type = ctx.phone_type /\ ack_cache = (ctx.phone_type # None)

\* The video window is in front exactly while a phone is mirrored, through every
\* connection, request of the phone, key of the user and command of the navigation
\* computer (set_minimize at amirror.rs:398, 456, 516 and 1901), except for what
\* changed behind the comparison or without setting the window, and that only until
\* the window is set again: among it a home button that is held, and one whose release
\* MirrorHandler did not pass on (mirror/handler.rs:269).
WindowMatches == pc = "timers" /\ ~missed.shown => minimized = ~Showing(ctx)

\* After a round the radio is muted and the navigation computer shows a prompt
\* exactly if the Context says so: nothing between the snapshot and the comparison
\* (amirror.rs:365-366 and 1312-1334) is lost.
MuteTold == pc = "top" => told.mute = ctx.phone_mute /\ told.notification = ctx.notification

\* Only one handler owns the phone: while the Android phone on USB is connected no
\* message of the dongle changes phone_type (mirror/handler.rs:145, aa_handler.rs:190).
OneOwner == aa.connected => ctx.phone_type = Android

\* In whatever order the key, the door and the power-on are reported, the program
\* does not stay on with the key off and a door open (amirror.rs:2503-2552).
OffWhenLeft == am.run /\ am.powered_on => am.power_state \/ ~am.door_state.open

\* A phone that stays mirrored gets control of the screen, also where the change of
\* phone_active was not announced: by the request repeated every 5 s (amirror.rs:973).
GetsScreen == (Showing(ctx) /\ told.screen = "nav") ~> (told.screen = "amirror" \/ ~Showing(ctx) \/ pc = "ended")

\* The radio is muted for a voice event of a phone: without a phone it is not
\* (context.rs, phone_mute).
MutedByAPhone == pc = "top" /\ ctx.phone_mute => ctx.phone_type # None
=============================================================================
