------------------------- MODULE MirrorSession_proofs -------------------------
(***************************************************************************)
(* Proofs about AMirror's main thread, for any set of messages, any kinds  *)
(* of phone and any bounds.                                                *)
(***************************************************************************)
EXTENDS MirrorSession, TLAPS

(***************************************************************************)
(* Types.  Announce works on a record of what the comparisons change.      *)
(***************************************************************************)
Round == [c : Context, minimized : BOOLEAN, told : Told, ack : BOOLEAN, missed : Missed]

LEMMA ToldActive ==
    ASSUME NEW r \in Round, NEW m \in BOOLEAN, NEW a \in BOOLEAN, NEW b \in BOOLEAN, NEW s \in {"amirror", "nav"}
    PROVE  [r EXCEPT !.c.home_held = FALSE, !.minimized = m, !.missed.shown = a,
                     !.told.active = b, !.told.screen = s] \in Round
BY DEF Round, Told, Missed, Context, None, CarPlay, Android

LEMMA TellActiveType == ASSUME NEW r \in Round PROVE TellActive(r) \in Round
<1>1. r.c.phone_active \in BOOLEAN /\ (~r.c.phone_active) \in BOOLEAN
  BY DEF Round, Context
<1>2. (IF r.c.phone_active THEN "amirror" ELSE "nav") \in {"amirror", "nav"}
  OBVIOUS
<1>3. Alone(r) \in BOOLEAN
  BY DEF Alone, Round, Context
<1>4. [r EXCEPT !.c.home_held = FALSE,
                !.minimized = ~r.c.phone_active,
                !.missed.shown = Alone(r),
                !.told.active = r.c.phone_active,
                !.told.screen = IF r.c.phone_active THEN "amirror" ELSE "nav"] \in Round
  BY <1>1, <1>2, <1>3, ToldActive
<1>5. QED
  BY <1>4 DEF TellActive

LEMMA DisconnectedType ==
    ASSUME NEW r \in Round
    PROVE  Disconnected(r) \in Round /\ Disconnected(r).c.phone_type = r.c.phone_type
BY DEF Disconnected, Round, Told, Missed, Context, None, CarPlay, Android

LEMMA ConnectedType ==
    ASSUME NEW r \in Round, auto_mirror_start \in BOOLEAN
    PROVE  Connected(r) \in Round /\ Connected(r).c.phone_type = r.c.phone_type
BY DEF Connected, Round, Told, Missed, Context, None, CarPlay, Android

LEMMA ToldType ==
    ASSUME NEW r \in Round, NEW t \in {None, CarPlay, Android}, NEW a \in BOOLEAN
    PROVE  [r EXCEPT !.told.type = t, !.ack = a, !.missed.type = FALSE] \in Round
BY DEF Round, Told, Missed, Context, None, CarPlay, Android

LEMMA TellTypeType ==
    ASSUME NEW r \in Round, auto_mirror_start \in BOOLEAN
    PROVE  TellType(r) \in Round
<1>1. r.c.phone_type \in {None, CarPlay, Android} /\ (r.c.phone_type # None) \in BOOLEAN
  BY DEF Round, Context
<1>2. QED
  BY <1>1, DisconnectedType, ConnectedType, ToldType DEF TellType

LEMMA InterpretType ==
    ASSUME NEW c \in Context, NEW m \in DongleMessages \union {"gone"}
    PROVE  Interpret(c, m) \in Context
BY DEF Interpret, DongleMessages, Context, None, CarPlay, Android

LEMMA ReceiveType ==
    ASSUME NEW c \in Context, NEW e \in AndroidEvents
    PROVE  Receive(c, e) \in Context /\ Receive(c, e).phone_type = c.phone_type
BY DEF Receive, AndroidEvents, Context, None, CarPlay, Android

LEMMA NoteType ==
    ASSUME missed \in Missed, ctx \in Context, NEW at, NEW c \in Context
    PROVE  Note(at, c) \in Missed
BY DEF Note, Missed, Context, Showing, None, CarPlay, Android

LEMMA DongleReadType ==
    ASSUME TypeOK, NEW c \in Context, NEW d \in DongleState, DongleRead(c, d),
           box' \in Box, phone' \in 0..MaxPhone
    PROVE  TypeOK'
<1>1. PICK expired, lost \in BOOLEAN : ctx' = Expire(IF lost THEN ctx ELSE c, expired)
  BY DEF DongleRead
<1>2. ctx' \in Context
  <2>1. (IF lost THEN ctx ELSE c) \in Context
    BY DEF TypeOK
  <2>2. QED
    BY <1>1, <2>1 DEF Expire, Context
<1>3. missed' \in Missed
  BY <1>2, NoteType DEF DongleRead, TypeOK
<1>4. QED
  BY <1>2, <1>3 DEF DongleRead, DongleReturns, Places, TypeOK

\* What every message of the bus does.
LEMMA MessageType ==
    ASSUME TypeOK, NEW kind, Message(kind), NEW next \in {Served(TRUE), Served(am.screen_acknowledged), "answer"},
           Handled(next)
    PROVE  /\ pc' \in Places /\ bus' \in 0..MaxBus
           /\ UNCHANGED <<snap, inner, phone, plug>>
BY BoundAssumption DEF Message, Handling, Handled, Served, Places, TypeOK

\* What the home button changes: the Context if the change is not lost, and what is
\* noted of it.
LEMMA HomeChange ==
    ASSUME TypeOK, Home
    PROVE  \E a, h \in BOOLEAN :
             /\ ctx' = [ctx EXCEPT !.phone_active = a, !.home_held = ctx.home_held \/ h]
             /\ missed' = [missed EXCEPT !.shown = ~h /\ (missed.shown \/ Showing(ctx') # Showing(ctx))]
<1> DEFINE t == ctx.phone_type
           down == button' = "held"
           up == button' = "up"
           was == (t = CarPlay /\ dongle.home_hold) \/ (t = Android /\ aa.home_hold)
<1>1. PICK lost \in BOOLEAN :
        /\ ctx' = [ctx EXCEPT !.phone_active = ctx.phone_active /\ ~(down /\ t # None /\ ~lost),
                              !.home_held = ctx.home_held \/ (up /\ was /\ ~lost)]
        /\ missed' = [missed EXCEPT !.shown = ~(up /\ was /\ ~lost)
                                              /\ (missed.shown \/ Showing(ctx') # Showing(ctx))]
  BY DEF Home
<1>2. (ctx.phone_active /\ ~(down /\ t # None /\ ~lost)) \in BOOLEAN /\ (up /\ was /\ ~lost) \in BOOLEAN
  OBVIOUS
<1>3. QED
  BY <1>1, <1>2

LEMMA HomeContext ==
    ASSUME TypeOK, Home
    PROVE  /\ \E a, b \in BOOLEAN : ctx' = [ctx EXCEPT !.phone_active = a, !.home_held = b]
           /\ missed' \in Missed /\ missed'.type = missed.type
<1>1. PICK a, h \in BOOLEAN :
        /\ ctx' = [ctx EXCEPT !.phone_active = a, !.home_held = ctx.home_held \/ h]
        /\ missed' = [missed EXCEPT !.shown = ~h /\ (missed.shown \/ Showing(ctx') # Showing(ctx))]
  BY HomeChange
<1>2. (ctx.home_held \/ h) \in BOOLEAN /\ (~h /\ (missed.shown \/ Showing(ctx') # Showing(ctx))) \in BOOLEAN
  OBVIOUS
<1>3. missed \in Missed
  BY DEF TypeOK
<1>4. QED
  BY <1>1, <1>2, <1>3 DEF Missed

LEMMA TypeInit == Init => TypeOK
<1> SUFFICES ASSUME Init PROVE TypeOK
  OBVIOUS
<1> USE DEF Init, None, CarPlay, Android
<1>1. pc \in Places /\ ctx \in Context /\ snap \in Context
  BY DEF Places, Context
<1>2. told \in Told /\ missed \in Missed
  BY DEF Told, Missed
<1>3. am \in Car /\ dongle \in DongleState /\ aa \in AaState /\ box \in Box
  BY DEF Car, DongleState, AaState, Box
<1>4. bus \in 0..MaxBus /\ phone \in 0..MaxPhone /\ plug \in 0..MaxPlug
  BY BoundAssumption
<1>5. QED
  BY <1>1, <1>2, <1>3, <1>4 DEF TypeOK

LEMMA TypeStep == TypeOK /\ [Next]_vars => TypeOK'
<1> SUFFICES ASSUME TypeOK, [Next]_vars PROVE TypeOK'
  OBVIOUS
<1> USE DEF TypeOK, Places, program, world, history, counts
<1>1. ASSUME Snapshot PROVE TypeOK'
  BY <1>1, BoundAssumption DEF Snapshot
<1>2. ASSUME Standby PROVE TypeOK'
  BY <1>2, BoundAssumption DEF Standby
<1>3. ASSUME End PROVE TypeOK'
  BY <1>3, BoundAssumption DEF End
<1>4. ASSUME Announce PROVE TypeOK'
  <2> DEFINE r == [c |-> ctx, minimized |-> minimized, told |-> told, ack |-> ack_cache, missed |-> missed]
             q == TellType(TellActive(r))
  <2>1. q \in Round
    BY TellActiveType, TellTypeType DEF Round
  <2>2. /\ q.c \in Context /\ q.minimized \in BOOLEAN /\ q.told \in Told
        /\ q.ack \in BOOLEAN /\ q.missed \in Missed
    BY <2>1 DEF Round
  <2>3. QED
    BY <1>4, <2>2 DEF Announce
<1>5. ASSUME NEW due \in BOOLEAN, Timers(due) PROVE TypeOK'
  BY <1>5, BoundAssumption DEF Timers, Told, Context
<1>6. ASSUME Finish PROVE TypeOK'
  <2>1. told' \in Told
    BY <1>6 DEF Finish, Told, Context
  <2>2. QED
    BY <1>6, <2>1 DEF Finish
<1>7. ASSUME StandbyEnd PROVE TypeOK'
  BY <1>7, BoundAssumption DEF StandbyEnd
<1>8. ASSUME DongleSkip PROVE TypeOK'
  BY <1>8, BoundAssumption DEF DongleSkip, DongleAt, DongleReturns
<1>9. ASSUME NEW ok \in BOOLEAN, DongleConnect(ok) PROVE TypeOK'
  <2>1. ctx' \in Context
    BY <1>9 DEF DongleConnect, Context
  <2>2. missed' \in Missed
    BY <1>9, <2>1, NoteType DEF DongleConnect
  <2>3. dongle' \in DongleState /\ box' \in Box
    BY <1>9 DEF DongleConnect, DongleState, Box
  <2>4. QED
    BY <1>9, <2>1, <2>2, <2>3 DEF DongleConnect, DongleReturns
<1>10. ASSUME DongleNothing PROVE TypeOK'
  <2>1. ctx \in Context /\ [dongle EXCEPT !.connected = box.plugged] \in DongleState
    BY DEF DongleState, Box
  <2>2. QED
    BY <1>10, <2>1, DongleReadType DEF DongleNothing
<1>11. ASSUME DongleOpen PROVE TypeOK'
  <2>1. [dongle EXCEPT !.startup = TRUE] \in DongleState /\ [box EXCEPT !.opened = TRUE] \in Box
    BY DEF DongleState, Box
  <2>2. phone + 1 \in 0..MaxPhone
    BY <1>11, BoundAssumption DEF DongleOpen
  <2>3. QED
    BY <1>11, <2>1, <2>2, DongleReadType DEF DongleOpen
<1>12. ASSUME NEW type \in DongleTypes, DonglePhone(type) PROVE TypeOK'
  <2>1. [ctx EXCEPT !.phone_type = type] \in Context /\ [box EXCEPT !.type = type] \in Box
    BY TypesAssumption DEF Context, Box, None, CarPlay, Android
  <2>2. phone + 1 \in 0..MaxPhone
    BY <1>12, BoundAssumption DEF DonglePhone
  <2>3. QED
    BY <1>12, <2>1, <2>2, DongleReadType DEF DonglePhone
<1>13. ASSUME DongleGone PROVE TypeOK'
  <2>1. Interpret(ctx, "gone") \in Context /\ [box EXCEPT !.type = None] \in Box
    BY InterpretType DEF Box
  <2>2. phone + 1 \in 0..MaxPhone
    BY <1>13, BoundAssumption DEF DongleGone
  <2>3. QED
    BY <1>13, <2>1, <2>2, DongleReadType DEF DongleGone
<1>14. ASSUME NEW m \in DongleMessages \intersect PhoneKinds, DongleMessage(m) PROVE TypeOK'
  <2>1. Interpret(ctx, m) \in Context
    BY InterpretType
  <2>2. phone + 1 \in 0..MaxPhone
    BY <1>14, BoundAssumption DEF DongleMessage
  <2>3. QED
    BY <1>14, <2>1, <2>2, DongleReadType DEF DongleMessage
<1>15. ASSUME AaSkip PROVE TypeOK'
  BY <1>15, BoundAssumption DEF AaSkip, AaAt, AaReturns
<1>16. ASSUME NEW ok \in BOOLEAN, AaConnect(ok) PROVE TypeOK'
  <2>1. ctx' \in Context /\ aa' \in AaState
    BY <1>16 DEF AaConnect, Context, AaState
  <2>2. missed' \in Missed
    BY <1>16, <2>1, NoteType DEF AaConnect
  <2>3. QED
    BY <1>16, <2>1, <2>2 DEF AaConnect, AaReturns
<1>17. ASSUME AaNothing PROVE TypeOK'
  <2>1. aa' \in AaState
    BY <1>17 DEF AaNothing, AaState
  <2>2. missed' \in Missed
    BY <1>17, NoteType DEF AaNothing, AaRead
  <2>3. QED
    BY <1>17, <2>1, <2>2 DEF AaNothing, AaRead, AaReturns
<1>18. ASSUME NEW e \in AndroidEvents \intersect PhoneKinds, AaEvent(e) PROVE TypeOK'
  <2>1. ctx' \in Context
    BY <1>18, ReceiveType DEF AaEvent, AaRead
  <2>2. missed' \in Missed
    BY <1>18, <2>1, NoteType DEF AaEvent, AaRead
  <2>3. phone + 1 \in 0..MaxPhone
    BY <1>18, BoundAssumption DEF AaEvent
  <2>4. QED
    BY <1>18, <2>1, <2>2, <2>3 DEF AaEvent, AaRead, AaReturns
<1>19. ASSUME NEW new \in {"amirror", "other"}, Source(new) PROVE TypeOK'
  <2>1. ctx' \in Context
    BY <1>19 DEF Source, Context
  <2>2. told' \in Told
    BY <1>19 DEF Source, Told
  <2>3. QED
    BY <1>19, <2>1, <2>2, MessageType DEF Source
<1>20. ASSUME NEW on \in BOOLEAN, Interface(on) PROVE TypeOK'
  <2>1. ctx' \in Context /\ minimized' \in BOOLEAN
    BY <1>20 DEF Interface, Context
  <2>2. (IF Showing(ctx') THEN "amirror" ELSE "nav") \in {"amirror", "nav"}
    OBVIOUS
  <2>3. told' \in Told
    BY <1>20, <2>2 DEF Interface, Told
  <2>4. missed' \in Missed
    BY <1>20 DEF Interface, Missed
  <2>5. QED
    BY <1>20, <2>1, <2>3, <2>4, MessageType DEF Interface
<1>21. ASSUME NEW on \in BOOLEAN, CarState(Key(on)) PROVE TypeOK'
  <2>1. am' \in Car
    BY <1>21 DEF CarState, Key, Car
  <2>2. QED
    BY <1>21, <2>1, MessageType DEF CarState
<1>22. ASSUME NEW d \in [open : BOOLEAN, away : BOOLEAN], CarState(Door(d)) PROVE TypeOK'
  <2>1. am' \in Car
    BY <1>22 DEF CarState, Door, Car
  <2>2. QED
    BY <1>22, <2>1, MessageType DEF CarState
<1>23. ASSUME Buttons PROVE TypeOK'
  <2>1. am' \in Car
    BY <1>23 DEF Buttons, Car
  <2>2. QED
    BY <1>23, <2>1, MessageType DEF Buttons
<1>24. ASSUME Home PROVE TypeOK'
  <2>1. Answered \in {Served(am.screen_acknowledged), "answer"}
    BY DEF Answered
  <2>2. button' \in {"up", "down", "held"}
    BY <1>24 DEF Home, Press, Hold, Release
  <2>3. dongle' \in DongleState
    BY <1>24 DEF Home, DongleState
  <2>4. aa' \in AaState
    BY <1>24 DEF Home, AaState
  <2>5. ctx' \in Context
    <3>1. \A a, b \in BOOLEAN : [ctx EXCEPT !.phone_active = a, !.home_held = b] \in Context
      BY DEF Context
    <3>2. \E a, b \in BOOLEAN : ctx' = [ctx EXCEPT !.phone_active = a, !.home_held = b]
      BY <1>24, HomeContext
    <3>3. QED
      BY <3>1, <3>2
  <2>6. missed' \in Missed
    BY <1>24, HomeContext
  <2>7. QED
    BY <1>24, <2>1, <2>2, <2>3, <2>4, <2>5, <2>6, MessageType DEF Home
<1>25. ASSUME Setting PROVE TypeOK'
  BY <1>25, MessageType DEF Setting
<1>26. ASSUME PlugDongle PROVE TypeOK'
  BY <1>26, BoundAssumption DEF PlugDongle, Box, None
<1>27. ASSUME PlugCable PROVE TypeOK'
  BY <1>27, BoundAssumption DEF PlugCable
<1>28. ASSUME UNCHANGED vars PROVE TypeOK'
  BY <1>28 DEF vars
<1>29. QED
  BY <1>1, <1>2, <1>3, <1>4, <1>5, <1>6, <1>7, <1>8, <1>9, <1>10, <1>11, <1>12, <1>13, <1>14, <1>15, <1>16, <1>17, <1>18, <1>19, <1>20, <1>21, <1>22, <1>23, <1>24, <1>25, <1>26, <1>27, <1>28 DEF Next, PhoneSteps, BusSteps, Rounds

\* The main thread's state has its type in every reachable state, for any bounds.
THEOREM TypeCorrect == Spec => []TypeOK
<1>1. TypeOK /\ [Next]_vars => TypeOK'
  BY TypeStep
<1>2. QED
  BY TypeInit, <1>1, PTL DEF Spec

(***************************************************************************)
(* The car.  OffWhenLeft is inductive as it stands: only three kinds of    *)
(* messages change what it speaks of.                                      *)
(***************************************************************************)
LEMMA OffStep == TypeOK /\ OffWhenLeft /\ [Next]_vars => OffWhenLeft'
<1> SUFFICES ASSUME TypeOK, OffWhenLeft, [Next]_vars PROVE OffWhenLeft'
  OBVIOUS
<1> USE DEF OffWhenLeft
<1>1. CASE UNCHANGED am
  BY <1>1
<1>2. ASSUME NEW on \in BOOLEAN, CarState(Key(on)) PROVE OffWhenLeft'
  BY <1>2 DEF CarState, Key, TypeOK, Car
<1>3. ASSUME NEW d \in [open : BOOLEAN, away : BOOLEAN], CarState(Door(d)) PROVE OffWhenLeft'
  BY <1>3 DEF CarState, Door, TypeOK, Car
<1>4. CASE Buttons
  BY <1>4 DEF Buttons, TypeOK, Car
<1>5. QED
  <2>1. ASSUME PhoneSteps PROVE UNCHANGED am
    BY <2>1 DEF PhoneSteps, DongleSkip, DongleConnect, DongleNothing, DongleOpen, DonglePhone, DongleGone,
                DongleMessage, DongleRead, AaSkip, AaConnect, AaNothing, AaEvent, AaRead, program
  <2>2. ASSUME Rounds PROVE UNCHANGED am
    BY <2>2 DEF Rounds, Snapshot, Standby, End, Announce, Timers, Finish, StandbyEnd, program
  <2>3. ASSUME NEW new, NEW on, Source(new) \/ Interface(on) \/ Home \/ Setting PROVE UNCHANGED am
    BY <2>3 DEF Source, Interface, Home, Setting
  <2>4. ASSUME PlugDongle \/ PlugCable \/ UNCHANGED vars PROVE UNCHANGED am
    BY <2>4 DEF PlugDongle, PlugCable, vars, program
  <2>5. QED
    BY <1>1, <1>2, <1>3, <1>4, <2>1, <2>2, <2>3, <2>4 DEF Next, BusSteps

\* In whatever order key, doors and power-on are reported, the program does not stay
\* on with the key off and a door open (amirror.rs:2503-2552).
THEOREM TurnsOff == Spec => []OffWhenLeft
<1>1. Init => OffWhenLeft
  BY DEF Init, OffWhenLeft
<1>2. QED
  BY TypeCorrect, <1>1, OffStep, PTL DEF Spec

(***************************************************************************)
(* Who owns the phone.                                                     *)
(***************************************************************************)
LEMMA ReadKeepsPhone ==
    ASSUME NEW c, c.phone_type = ctx.phone_type, c \in Context, NEW d, DongleRead(c, d)
    PROVE  ctx'.phone_type = ctx.phone_type
BY DEF DongleRead, Expire, Context

LEMMA AnnounceKeepsPhone == TypeOK /\ Announce => ctx'.phone_type = ctx.phone_type
<1> SUFFICES ASSUME TypeOK, Announce PROVE ctx'.phone_type = ctx.phone_type
  OBVIOUS
<1> DEFINE r == [c |-> ctx, minimized |-> minimized, told |-> told, ack |-> ack_cache, missed |-> missed]
           q == TellActive(r)
<1>1. r \in Round /\ q \in Round
  BY TellActiveType DEF Round, TypeOK
<1>2. q.c.phone_type = ctx.phone_type
  BY <1>1 DEF TellActive, Round, Context
<1>3. TellType(q).c.phone_type = q.c.phone_type
  BY <1>1, DisconnectedType, ConnectedType DEF TellType, Round, TypeOK
<1>4. QED
  BY <1>2, <1>3 DEF Announce

LEMMA OwnerStep == TypeOK /\ OneOwner /\ [Next]_vars => OneOwner'
<1> SUFFICES ASSUME TypeOK, OneOwner, [Next]_vars PROVE OneOwner'
  OBVIOUS
<1> USE DEF OneOwner
<1>1. CASE aa'.connected = aa.connected /\ ctx'.phone_type = ctx.phone_type
  BY <1>1
<1>2. CASE Announce
  BY <1>2, AnnounceKeepsPhone DEF Announce
<1>3. CASE Rounds /\ ~Announce
  BY <1>3, <1>1 DEF Rounds, Snapshot, Standby, End, Timers, Finish, StandbyEnd, program
<1>4. CASE DongleSkip \/ AaSkip \/ PlugDongle \/ PlugCable \/ UNCHANGED vars
  BY <1>4, <1>1 DEF DongleSkip, AaSkip, PlugDongle, PlugCable, vars, program
\* The dongle is not served while the Android phone is there.
<1>5. ASSUME NEW c, NEW d, DongleRead(c, d) PROVE OneOwner'
  BY <1>5 DEF DongleRead, ServesDongle
<1>6. ASSUME NEW ok, DongleConnect(ok) PROVE OneOwner'
  BY <1>6 DEF DongleConnect, ServesDongle
<1>7. ASSUME NEW ok \in BOOLEAN, AaConnect(ok) PROVE OneOwner'
  BY <1>7 DEF AaConnect, TypeOK, Context, AaState
<1>8. CASE AaNothing
  BY <1>8 DEF AaNothing, AaRead, TypeOK, AaState
<1>9. ASSUME NEW e \in AndroidEvents, AaEvent(e) PROVE OneOwner'
  BY <1>9, ReceiveType DEF AaEvent, AaRead, TypeOK
<1>10. ASSUME NEW new, Source(new) PROVE OneOwner'
  BY <1>10, <1>1 DEF Source, TypeOK, Context
<1>11. ASSUME NEW on, Interface(on) PROVE OneOwner'
  BY <1>11, <1>1 DEF Interface, TypeOK, Context
<1>12. CASE Home
  <2>1. ctx'.phone_type = ctx.phone_type
    BY <1>12, HomeContext DEF TypeOK, Context
  <2>2. aa'.connected = aa.connected
    BY <1>12 DEF Home, TypeOK, AaState
  <2>3. QED
    BY <1>1, <2>1, <2>2
<1>13. ASSUME NEW a, CarState(a) \/ Buttons \/ Setting PROVE OneOwner'
  BY <1>13, <1>1 DEF CarState, Buttons, Setting
<1>14. QED
  BY <1>2, <1>3, <1>4, <1>5, <1>6, <1>7, <1>8, <1>9, <1>10, <1>11, <1>12, <1>13
     DEF Next, PhoneSteps, BusSteps, DongleNothing, DongleOpen, DonglePhone, DongleGone, DongleMessage

\* phone_type is 5 for as long as the Android phone on USB is connected: the dongle's
\* handler never writes it then (mirror/handler.rs:145, aa_handler.rs:189).
THEOREM SingleOwner == Spec => []OneOwner
<1>1. Init => OneOwner
  BY DEF Init, OneOwner
<1>2. QED
  BY TypeCorrect, <1>1, OwnerStep, PTL DEF Spec

(***************************************************************************)
(* What the radio and the navigation computer are told of the mute and the *)
(* prompt.  Within a round they know the values of the snapshot, else      *)
(* those of the Context.  In standby, where no round compares anything,    *)
(* nothing may be muted yet; the last two conjuncts say why it is not.     *)
(***************************************************************************)
Busy == {"dongle", "aa", "announce", "timers", "handle", "aaIn", "dongleIn", "answer"}
Knows(c) == told.mute = c.phone_mute /\ told.notification = c.notification

MuteInv ==
    /\ pc \in Busy => Knows(snap)
    /\ pc \notin Busy => Knows(ctx)
    /\ pc \in Busy => am.powered_on
    /\ pc = "standby" \/ ~am.powered_on => ~ctx.phone_mute /\ ~ctx.notification /\ ~aa.connected

\* Most steps are within a round and tell nothing of the two.
LEMMA MuteWithin ==
    ASSUME MuteInv, pc \in Busy, pc' \in Busy, snap' = snap, am'.powered_on = am.powered_on,
           told'.mute = told.mute, told'.notification = told.notification
    PROVE  MuteInv'
BY DEF MuteInv, Knows, Busy

LEMMA AnnounceKeepsMute ==
    TypeOK /\ Announce => told'.mute = told.mute /\ told'.notification = told.notification
<1> SUFFICES ASSUME TypeOK, Announce PROVE told'.mute = told.mute /\ told'.notification = told.notification
  OBVIOUS
<1> DEFINE r == [c |-> ctx, minimized |-> minimized, told |-> told, ack |-> ack_cache, missed |-> missed]
           q == TellActive(r)
           Same(x, y) == x.told.mute = y.told.mute /\ x.told.notification = y.told.notification
<1>1. r \in Round /\ q \in Round
  BY TellActiveType DEF Round, TypeOK
<1>2. Same(q, r)
  BY <1>1 DEF TellActive, Round, Told
<1>3. Same(Disconnected(q), q)
  BY <1>1 DEF Disconnected, Round, Told
<1>4. Same(Connected(q), q)
  BY <1>1 DEF Connected, Round, Told
<1>5. Same(TellType(q), q)
  <2>1. ASSUME NEW x \in Round, NEW t, NEW a PROVE Same([x EXCEPT !.told.type = t, !.ack = a, !.missed.type = FALSE], x)
    BY DEF Round, Told
  <2>2. Disconnected(q) \in Round /\ Connected(q) \in Round
    BY <1>1, DisconnectedType, ConnectedType DEF TypeOK
  <2>3. QED
    BY <1>3, <1>4, <2>1, <2>2 DEF TellType
<1>6. QED
  BY <1>2, <1>5 DEF Announce

LEMMA MuteStep == TypeOK /\ MuteInv /\ [Next]_vars => MuteInv'
<1> SUFFICES ASSUME TypeOK, MuteInv, [Next]_vars PROVE MuteInv'
  OBVIOUS
<1>1. CASE Snapshot
  BY <1>1 DEF Snapshot, MuteInv, Knows, Busy, history
<1>2. CASE Standby
  BY <1>2 DEF Standby, MuteInv, Knows, Busy, history, program
<1>3. CASE End
  BY <1>3 DEF End, MuteInv, Knows, Busy, history, program
<1>4. CASE Announce
  BY <1>4, AnnounceKeepsMute, MuteWithin DEF Announce, Busy
<1>5. ASSUME NEW due \in BOOLEAN, Timers(due) PROVE MuteInv'
  <2>1. told'.mute = told.mute /\ told'.notification = told.notification
    BY <1>5 DEF Timers, TypeOK, Told
  <2>2. QED
    BY <1>5, <2>1, MuteWithin DEF Timers, Busy
<1>6. CASE Finish
  <2>1. told'.mute = ctx.phone_mute /\ told'.notification = ctx.notification
    BY <1>6 DEF Finish, MuteInv, Knows, Busy, TypeOK, Told
  <2>2. QED
    BY <1>6, <2>1 DEF Finish, MuteInv, Knows, Busy, program
<1>7. CASE StandbyEnd
  BY <1>7 DEF StandbyEnd, MuteInv, Knows, Busy, history, program
<1>8. CASE PhoneSteps
  <2>1. pc \in Busy /\ pc' \in Busy /\ snap' = snap /\ am' = am /\ told' = told
    BY <1>8 DEF PhoneSteps, DongleSkip, DongleConnect, DongleNothing, DongleOpen, DonglePhone, DongleGone,
                DongleMessage, DongleRead, DongleAt, DongleReturns, AaSkip, AaConnect, AaNothing, AaEvent,
                AaRead, AaAt, AaReturns, Busy, program, history
  <2>2. QED
    BY <2>1, MuteWithin
\* A message of the bus, in a round or in standby.
<1>9. ASSUME NEW new \in {"amirror", "other"}, Source(new) PROVE MuteInv'
  <2>1. told'.mute = told.mute /\ told'.notification = told.notification
    BY <1>9 DEF Source, TypeOK, Told
  <2>2. CASE pc = "standby"
    BY <1>9, <2>1, <2>2 DEF Source, Handled, Served, MuteInv, Knows, Busy, TypeOK, Context
  <2>3. CASE pc # "standby"
    BY <1>9, <2>1, <2>3, MuteWithin DEF Source, Message, Handling, Handled, Served, Busy
  <2>4. QED
    BY <2>2, <2>3
<1>10. ASSUME NEW on \in BOOLEAN, Interface(on) PROVE MuteInv'
  <2>1. told'.mute = told.mute /\ told'.notification = told.notification
    BY <1>10 DEF Interface, TypeOK, Told
  <2>2. CASE pc = "standby"
    BY <1>10, <2>1, <2>2 DEF Interface, Handled, Served, MuteInv, Knows, Busy, TypeOK, Context
  <2>3. CASE pc # "standby"
    BY <1>10, <2>1, <2>3, MuteWithin DEF Interface, Message, Handling, Handled, Served, Busy
  <2>4. QED
    BY <2>2, <2>3
<1>11. ASSUME NEW a, CarState(a), am.powered_on => a.powered_on PROVE MuteInv'
  BY <1>11 DEF CarState, Message, Handling, Handled, Served, MuteInv, Knows, Busy, history
<1>12. ASSUME NEW on \in BOOLEAN PROVE am.powered_on => Key(on).powered_on
  BY DEF Key, TypeOK, Car
<1>13. ASSUME NEW d PROVE am.powered_on => Door(d).powered_on
  BY DEF Door, TypeOK, Car
<1>14. CASE Buttons
  <2>1. am'.powered_on = am.powered_on
    BY <1>14 DEF Buttons, TypeOK, Car
  <2>2. QED
    BY <1>14, <2>1 DEF Buttons, Message, Handling, Handled, Served, MuteInv, Knows, Busy, history
<1>15. CASE Home
  <2>0. ctx'.phone_mute = ctx.phone_mute /\ ctx'.notification = ctx.notification
    BY <1>15, HomeContext DEF TypeOK, Context
  <2>1. ctx'.phone_mute = ctx.phone_mute /\ ctx'.notification = ctx.notification /\ aa'.connected = aa.connected
    BY <1>15, <2>0 DEF Home, TypeOK, AaState
  <2>2. CASE pc = "standby"
    BY <1>15, <2>1, <2>2 DEF Home, Handled, Answered, Served, MuteInv, Knows, Busy
  <2>3. CASE pc # "standby"
    BY <1>15, <2>1, <2>3, MuteWithin DEF Home, Message, Handling, Handled, Answered, Served, Busy
  <2>4. QED
    BY <2>2, <2>3
<1>16. CASE Setting
  BY <1>16 DEF Setting, Message, Handling, Handled, Served, MuteInv, Knows, Busy, history
<1>17. CASE PlugDongle \/ PlugCable \/ UNCHANGED vars
  BY <1>17 DEF PlugDongle, PlugCable, vars, program, history, MuteInv, Knows, Busy
<1>18. QED
  BY <1>1, <1>2, <1>3, <1>4, <1>5, <1>6, <1>7, <1>8, <1>9, <1>10, <1>11, <1>12, <1>13, <1>14, <1>15, <1>16, <1>17
     DEF Next, BusSteps, Rounds

\* After every round the radio and the navigation computer know phone_mute and
\* notification, also after a time in standby (amirror.rs:365-366 and 1312-1334).
THEOREM MuteIsTold == Spec => []MuteTold
<1>1. Init => MuteInv
  BY DEF Init, MuteInv, Knows, Busy
<1>2. MuteInv => MuteTold
  BY DEF MuteInv, MuteTold, Knows, Busy
<1>3. QED
  BY TypeCorrect, <1>1, <1>2, MuteStep, PTL DEF Spec

(***************************************************************************)
(* What is told of the phone.  Between the snapshot and the comparison the *)
(* navigation computer and the link know the phone of the snapshot, else   *)
(* that of the Context; Note takes down every change the comparison has    *)
(* already passed.                                                         *)
(***************************************************************************)
Before == {"dongle", "aa", "announce"}
KnowsPhone(c) == told.type = c.phone_type /\ ack_cache = (c.phone_type # None)

TellInv ==
    /\ pc \in Before /\ ~missed.type => KnowsPhone(snap)
    /\ pc \notin Before /\ ~missed.type => KnowsPhone(ctx)

\* Steps behind the comparison that leave the phone, or note that it has changed.
LEMMA TellAfter ==
    ASSUME TellInv, pc \notin Before, pc' \notin Before, told'.type = told.type, ack_cache' = ack_cache,
           missed.type => missed'.type,
           ctx'.phone_type = ctx.phone_type \/ missed'.type
    PROVE  TellInv'
BY DEF TellInv, KnowsPhone, Before

LEMMA AnnounceTells == TypeOK /\ TellInv /\ Announce => TellInv'
<1> SUFFICES ASSUME TypeOK, TellInv, Announce PROVE TellInv'
  OBVIOUS
<1> DEFINE r == [c |-> ctx, minimized |-> minimized, told |-> told, ack |-> ack_cache, missed |-> missed]
           q == TellActive(r)
<1>1. r \in Round /\ q \in Round
  BY TellActiveType DEF Round, TypeOK
<1>2. /\ q.c.phone_type = ctx.phone_type /\ q.told.type = told.type
      /\ q.ack = ack_cache /\ q.missed.type = missed.type
  BY <1>1 DEF TellActive, Round, Context, Told, Missed
<1>3. CASE q.c.phone_type = snap.phone_type
  <2>1. TellType(q) = q
    BY <1>3 DEF TellType
  <2>2. ctx' = q.c /\ told' = q.told /\ ack_cache' = q.ack /\ missed' = q.missed /\ pc' = "timers"
    BY <2>1 DEF Announce
  <2>3. QED
    BY <1>2, <1>3, <2>2 DEF Announce, TellInv, KnowsPhone, Before
<1>4. CASE q.c.phone_type # snap.phone_type
  <2> DEFINE x == IF q.c.phone_type = None THEN Disconnected(q) ELSE Connected(q)
             n == [x EXCEPT !.told.type = q.c.phone_type, !.ack = q.c.phone_type # None, !.missed.type = FALSE]
  <2>1. TellType(q) = n
    BY <1>4 DEF TellType
  <2>2. x \in Round /\ x.c.phone_type = q.c.phone_type
    BY <1>1, DisconnectedType, ConnectedType DEF TypeOK
  <2>3. n.c = x.c /\ n.told.type = q.c.phone_type /\ n.ack = (q.c.phone_type # None)
    BY <2>2 DEF Round, Told, Missed
  <2>4. ctx' = n.c /\ told' = n.told /\ ack_cache' = n.ack /\ pc' = "timers"
    BY <2>1 DEF Announce
  <2>5. QED
    BY <2>2, <2>3, <2>4 DEF TellInv, KnowsPhone, Before
<1>5. QED
  BY <1>3, <1>4

\* A step of a phone changes the phone before the comparison, or is noted.
LEMMA PhoneStepTells == TypeOK /\ TellInv /\ PhoneSteps => TellInv'
<1> SUFFICES ASSUME TypeOK, TellInv, PhoneSteps PROVE TellInv'
  OBVIOUS
<1>1. snap' = snap /\ told' = told /\ ack_cache' = ack_cache
  BY DEF PhoneSteps, DongleSkip, DongleConnect, DongleNothing, DongleOpen, DonglePhone, DongleGone,
         DongleMessage, DongleRead, AaSkip, AaConnect, AaNothing, AaEvent, AaRead, program, history
<1>2. (missed' = missed /\ ctx' = ctx) \/ missed' = Note(pc, ctx')
  BY DEF PhoneSteps, DongleSkip, DongleConnect, DongleNothing, DongleOpen, DonglePhone, DongleGone,
         DongleMessage, DongleRead, AaSkip, AaConnect, AaNothing, AaEvent, AaRead, program, history
<1>3. \/ pc \in {"dongle", "aa"} /\ pc' \in Before
      \/ pc \in {"dongleIn", "aaIn", "answer"} /\ pc' \notin Before
  BY DEF PhoneSteps, DongleSkip, DongleConnect, DongleNothing, DongleOpen, DonglePhone, DongleGone,
         DongleMessage, DongleRead, DongleAt, DongleReturns, AaSkip, AaConnect, AaNothing, AaEvent,
         AaRead, AaAt, AaReturns, Before
<1>4. CASE pc \in {"dongle", "aa"}
  <2>1. missed' = missed
    BY <1>2, <1>4 DEF Note
  <2>2. QED
    BY <1>1, <1>3, <1>4, <2>1 DEF TellInv, KnowsPhone, Before
<1>5. CASE pc \in {"dongleIn", "aaIn", "answer"}
  <2>1. (missed.type => missed'.type) /\ (ctx'.phone_type = ctx.phone_type \/ missed'.type)
    <3>1. CASE missed' = missed /\ ctx' = ctx
      BY <3>1
    <3>2. CASE missed' = Note(pc, ctx')
      <4>1. missed'.type = (missed.type \/ ctx'.phone_type # ctx.phone_type)
        BY <3>2, <1>5 DEF Note
      <4>2. QED
        BY <4>1
    <3>3. QED
      BY <1>2, <3>1, <3>2
  <2>2. QED
    BY <1>1, <1>3, <1>5, <2>1, TellAfter DEF Before
<1>6. QED
  BY <1>3, <1>4, <1>5

LEMMA TellStep == TypeOK /\ TellInv /\ [Next]_vars => TellInv'
<1> SUFFICES ASSUME TypeOK, TellInv, [Next]_vars PROVE TellInv'
  OBVIOUS
<1>1. CASE Snapshot
  BY <1>1 DEF Snapshot, TellInv, KnowsPhone, Before, history
<1>2. CASE Standby \/ End \/ StandbyEnd
  BY <1>2 DEF Standby, End, StandbyEnd, TellInv, KnowsPhone, Before, history, program
<1>3. ASSUME NEW due \in BOOLEAN, Timers(due) PROVE TellInv'
  <2>1. told'.type = told.type
    BY <1>3 DEF Timers, TypeOK, Told
  <2>2. QED
    BY <1>3, <2>1, TellAfter DEF Timers, Before
<1>4. CASE Finish
  <2>1. told'.type = told.type
    BY <1>4 DEF Finish, TypeOK, Told
  <2>2. QED
    BY <1>4, <2>1, TellAfter DEF Finish, Before, program
<1>5. ASSUME NEW new \in {"amirror", "other"}, Source(new) PROVE TellInv'
  <2>1. told'.type = told.type /\ ctx'.phone_type = ctx.phone_type
    BY <1>5 DEF Source, TypeOK, Told, Context
  <2>2. QED
    BY <1>5, <2>1, TellAfter DEF Source, Message, Handling, Handled, Served, Before
<1>6. ASSUME NEW on \in BOOLEAN, Interface(on) PROVE TellInv'
  <2>1. told'.type = told.type /\ ctx'.phone_type = ctx.phone_type /\ missed'.type = missed.type
    BY <1>6 DEF Interface, TypeOK, Told, Context, Missed
  <2>2. QED
    BY <1>6, <2>1, TellAfter DEF Interface, Message, Handling, Handled, Served, Before
<1>7. ASSUME NEW a, CarState(a) \/ Buttons \/ Setting PROVE TellInv'
  BY <1>7, TellAfter DEF CarState, Buttons, Setting, Message, Handling, Handled, Served, Before, history
<1>8. CASE Home
  <2>1. ctx'.phone_type = ctx.phone_type /\ missed'.type = missed.type
    BY <1>8, HomeContext DEF TypeOK, Context
  <2>2. QED
    BY <1>8, <2>1, TellAfter DEF Home, Message, Handling, Handled, Answered, Served, Before
<1>9. CASE PlugDongle \/ PlugCable \/ UNCHANGED vars
  BY <1>9 DEF PlugDongle, PlugCable, vars, program, history, TellInv, KnowsPhone, Before
<1>10. QED
  BY <1>1, <1>2, <1>3, <1>4, <1>5, <1>6, <1>7, <1>8, <1>9, AnnounceTells, PhoneStepTells
     DEF Next, BusSteps, Rounds

\* After every comparison the navigation computer and the link know which phone is
\* there, unless it changed behind an earlier comparison (amirror.rs:433-669).
THEOREM PhoneIsTold == Spec => []TypeTold
<1>1. ASSUME Init PROVE TellInv
  <2>1. ctx.phone_type = None /\ told.type = None /\ ~ack_cache /\ pc = "top"
    BY <1>1 DEF Init
  <2>2. ack_cache = (ctx.phone_type # None)
    BY <2>1, <1>1 DEF Init
  <2>3. QED
    BY <2>1, <2>2 DEF TellInv, KnowsPhone, Before
<1>2. TellInv => TypeTold
  BY DEF TellInv, TypeTold, KnowsPhone, Before
<1>3. QED
  BY TypeCorrect, <1>1, <1>2, TellStep, PTL DEF Spec

(***************************************************************************)
(* The video window.  It follows the snapshot until the comparison and the *)
(* Context after it, but for a released home button, which the comparison  *)
(* acts on, and for what missed.shown notes.                               *)
(***************************************************************************)
WindowBefore ==
    pc \in Before /\ ~missed.shown /\ ~ctx.home_held => minimized = ~Showing(snap)
WindowAfter ==
    pc \notin Before /\ ~missed.shown /\ ~ctx.home_held => minimized = ~Showing(ctx)
WindowInv == WindowBefore /\ WindowAfter

LEMMA TellActiveWindow ==
    ASSUME NEW r \in Round, NEW q, q = TellActive(r)
    PROVE  /\ q.c.phone_active = r.c.phone_active /\ q.c.phone_type = r.c.phone_type
           /\ IF r.c.phone_active = snap.phone_active /\ ~r.c.home_held
                THEN q.minimized = r.minimized /\ q.missed.shown = r.missed.shown
                ELSE q.minimized = ~r.c.phone_active /\ q.missed.shown = Alone(r)
<1>1. CASE r.c.phone_active = snap.phone_active /\ ~r.c.home_held
  <2>1. q = r
    BY <1>1 DEF TellActive
  <2>2. QED
    BY <1>1, <2>1
<1>2. CASE ~(r.c.phone_active = snap.phone_active /\ ~r.c.home_held)
  <2>1. q = [r EXCEPT !.c.home_held = FALSE, !.minimized = ~r.c.phone_active,
                      !.missed.shown = Alone(r), !.told.active = r.c.phone_active,
                      !.told.screen = IF r.c.phone_active THEN "amirror" ELSE "nav"]
    BY <1>2 DEF TellActive
  <2>2. q.c = [r.c EXCEPT !.home_held = FALSE]
    BY <2>1 DEF Round
  <2>3. q.minimized = ~r.c.phone_active
    BY <2>1 DEF Round
  <2>4. q.missed = [r.missed EXCEPT !.shown = Alone(r)]
    BY <2>1 DEF Round
  <2>5. r.c \in Context /\ r.missed \in Missed
    BY DEF Round
  <2>6. q.c.phone_active = r.c.phone_active /\ q.c.phone_type = r.c.phone_type
    BY <2>2, <2>5 DEF Context
  <2>7. q.missed.shown = Alone(r)
    BY <2>4, <2>5 DEF Missed
  <2>8. QED
    BY <1>2, <2>3, <2>6, <2>7
<1>3. QED
  BY <1>1, <1>2

\* The comparison.
LEMMA AnnounceWindow == TypeOK /\ WindowInv /\ Announce => WindowInv'
<1> SUFFICES ASSUME TypeOK, WindowInv, Announce PROVE WindowInv'
  OBVIOUS
<1> DEFINE r == [c |-> ctx, minimized |-> minimized, told |-> told, ack |-> ack_cache, missed |-> missed]
           q == TellActive(r)
           n == TellType(q)
<1>1. r \in Round /\ q \in Round /\ n \in Round
  BY TellActiveType, TellTypeType DEF Round, TypeOK
<1>2. r.c = ctx /\ r.minimized = minimized /\ r.missed = missed
  OBVIOUS
<1>3. ctx' = n.c /\ minimized' = n.minimized /\ missed' = n.missed
      /\ pc' = "timers" /\ UNCHANGED snap
  BY DEF Announce, world
<1> HIDE DEF r
<1>4. /\ q.c.phone_active = ctx.phone_active /\ q.c.phone_type = ctx.phone_type
      /\ IF ctx.phone_active = snap.phone_active /\ ~ctx.home_held
           THEN q.minimized = minimized /\ q.missed.shown = missed.shown
           ELSE q.minimized = ~ctx.phone_active /\ q.missed.shown = Alone(r)
  BY <1>1, <1>2, TellActiveWindow
<1>5. /\ pc = "announce" /\ ctx.phone_active \in BOOLEAN /\ snap.phone_active \in BOOLEAN
      /\ ctx.home_held \in BOOLEAN /\ minimized \in BOOLEAN
  <2>1. pc = "announce"
    BY DEF Announce
  <2>2. ctx \in Context /\ snap \in Context /\ minimized \in BOOLEAN
    BY DEF TypeOK
  <2>3. QED
    BY <2>1, <2>2 DEF Context
<1>6. ~q.missed.shown /\ ctx.phone_type = snap.phone_type => q.minimized = ~Showing(ctx)
  <2> SUFFICES ASSUME ~q.missed.shown, ctx.phone_type = snap.phone_type
               PROVE  q.minimized = ~Showing(ctx)
    OBVIOUS
  <2>1. CASE ctx.phone_active = snap.phone_active /\ ~ctx.home_held
    <3>1. minimized = ~Showing(snap)
      BY <1>4, <1>5, <2>1 DEF WindowInv, WindowBefore, Before
    <3>2. Showing(snap) = Showing(ctx)
      BY <2>1 DEF Showing
    <3>3. QED
      BY <1>4, <2>1, <3>1, <3>2
  <2>2. CASE ~(ctx.phone_active = snap.phone_active /\ ~ctx.home_held)
    BY <1>2, <1>4, <2>2 DEF Alone, Showing
  <2>3. QED
    BY <2>1, <2>2
<1>7. ~q.missed.shown /\ ~ctx.phone_active => q.minimized
  BY <1>2, <1>4, <1>5 DEF WindowInv, WindowBefore, Before, Showing
<1>8. ~n.missed.shown => n.minimized = ~Showing(n.c)
  <2>1. CASE ctx.phone_type = snap.phone_type
    <3>1. n = q
      BY <1>2, <1>4, <2>1 DEF TellType
    <3>2. Showing(q.c) = Showing(ctx)
      BY <1>2, <1>4 DEF Showing
    <3>3. QED
      BY <1>6, <2>1, <3>1, <3>2
  <2>2. CASE ctx.phone_type # snap.phone_type /\ ctx.phone_type = None
    <3>1. n = [Disconnected(q) EXCEPT !.told.type = q.c.phone_type, !.ack = q.c.phone_type # None, !.missed.type = FALSE]
      BY <1>2, <1>4, <2>2 DEF TellType
    <3>2. Disconnected(q) \in Round
      BY <1>1, DisconnectedType
    <3>3. n.c = Disconnected(q).c /\ n.minimized = Disconnected(q).minimized
          /\ n.missed.shown = Disconnected(q).missed.shown
      BY <3>1, <3>2 DEF Round, Missed
    <3>4. /\ Disconnected(q).c.phone_type = None
          /\ Disconnected(q).missed.shown = (~ctx.phone_active /\ q.missed.shown)
          /\ Disconnected(q).minimized = (ctx.phone_active \/ q.minimized)
      BY <1>1, <1>2, <1>4, <1>5, <2>2 DEF Disconnected, Round, Context, Missed
    <3>5. QED
      BY <1>5, <1>7, <2>2, <3>3, <3>4 DEF Showing
  <2>3. CASE ctx.phone_type # snap.phone_type /\ ctx.phone_type # None
    <3>1. n = [Connected(q) EXCEPT !.told.type = q.c.phone_type, !.ack = q.c.phone_type # None, !.missed.type = FALSE]
      BY <1>2, <1>4, <2>3 DEF TellType
    <3>2. Connected(q) \in Round
      BY <1>1, ConnectedType DEF TypeOK
    <3>3. n.c = Connected(q).c /\ n.minimized = Connected(q).minimized
          /\ n.missed.shown = Connected(q).missed.shown
      BY <3>1, <3>2 DEF Round, Missed
    <3>4. /\ Connected(q).c.phone_type = ctx.phone_type
          /\ ~Connected(q).missed.shown => Connected(q).minimized = ~Connected(q).c.phone_active
      BY <1>1, <1>2, <1>4 DEF Connected, Round, Context, Missed, TypeOK
    <3>5. QED
      BY <2>3, <3>3, <3>4 DEF Showing
  <2>4. QED
    BY <2>1, <2>2, <2>3
<1>9. QED
  BY <1>3, <1>8 DEF WindowInv, WindowBefore, WindowAfter, Before

\* What every step of a phone leaves alone; behind the comparison it notes a change of
\* what is shown.
PhoneFrame ==
    /\ UNCHANGED <<snap, minimized>>
    /\ ctx'.home_held = ctx.home_held
    /\ missed.shown => missed'.shown
    /\ pc \in {"dongle", "aa"} => pc' \in Before
    /\ pc \notin {"dongle", "aa"} => pc \notin Before /\ pc' \notin Before
    /\ pc \notin {"dongle", "aa"} => missed'.shown \/ Showing(ctx') = Showing(ctx)

LEMMA FrameKeepsWindow == ASSUME WindowInv, PhoneFrame PROVE WindowInv'
<1>1. CASE pc \in {"dongle", "aa"}
  BY <1>1 DEF WindowInv, PhoneFrame, WindowBefore, WindowAfter, Before, Showing
<1>2. CASE pc \notin {"dongle", "aa"}
  <2>1. pc \notin Before /\ pc' \notin Before /\ (missed'.shown \/ Showing(ctx') = Showing(ctx))
        /\ minimized' = minimized /\ ctx'.home_held = ctx.home_held /\ (missed.shown => missed'.shown)
    BY <1>2 DEF PhoneFrame
  <2>2. QED
    BY <2>1 DEF WindowInv, WindowBefore, WindowAfter
<1>3. QED
  BY <1>1, <1>2

LEMMA NoteShown ==
    ASSUME NEW c \in Context, missed \in Missed, pc \in {"dongle", "dongleIn", "aa", "aaIn", "answer"}
    PROVE  /\ missed.shown => Note(pc, c).shown
           /\ pc \notin {"dongle", "aa"} => Note(pc, c).shown \/ Showing(c) = Showing(ctx)
BY DEF Note, Missed

\* Every step of a phone is such a step: only the home button sets home_held.
LEMMA PhoneWindow == TypeOK /\ WindowInv /\ PhoneSteps => WindowInv'
<1> SUFFICES ASSUME TypeOK, WindowInv, PhoneSteps PROVE PhoneFrame
  BY FrameKeepsWindow
<1>1. ctx \in Context /\ missed \in Missed /\ ctx' \in Context
  BY TypeStep DEF Next, TypeOK
<1>2. UNCHANGED <<snap, minimized>>
  BY DEF PhoneSteps, DongleSkip, DongleConnect, DongleNothing, DongleOpen, DonglePhone, DongleGone,
         DongleMessage, DongleRead, AaSkip, AaConnect, AaNothing, AaEvent, AaRead, program
<1>3. (missed' = missed /\ ctx' = ctx) \/ missed' = Note(pc, ctx')
  BY DEF PhoneSteps, DongleSkip, DongleConnect, DongleNothing, DongleOpen, DonglePhone, DongleGone,
         DongleMessage, DongleRead, AaSkip, AaConnect, AaNothing, AaEvent, AaRead, program, history
<1>4. \/ pc \in {"dongle", "aa"} /\ pc' \in Before
      \/ pc \in {"dongleIn", "aaIn", "answer"} /\ pc' \notin Before
  BY DEF PhoneSteps, DongleSkip, DongleConnect, DongleNothing, DongleOpen, DonglePhone, DongleGone,
         DongleMessage, DongleRead, DongleAt, DongleReturns, AaSkip, AaConnect, AaNothing, AaEvent,
         AaRead, AaAt, AaReturns, Before
<1>5. /\ missed.shown => missed'.shown
      /\ pc \notin {"dongle", "aa"} => missed'.shown \/ Showing(ctx') = Showing(ctx)
  BY <1>1, <1>3, <1>4, NoteShown
<1>6. ctx'.home_held = ctx.home_held
  <2>1. ASSUME NEW c \in Context, c.home_held = ctx.home_held, NEW d, DongleRead(c, d)
        PROVE  ctx'.home_held = ctx.home_held
    BY <1>1, <2>1 DEF DongleRead, Expire, Context
  <2>2. ASSUME NEW type \in DongleTypes
        PROVE  [ctx EXCEPT !.phone_type = type] \in Context /\ [ctx EXCEPT !.phone_type = type].home_held = ctx.home_held
    BY <1>1, TypesAssumption DEF Context, None, CarPlay, Android
  <2>3. ASSUME NEW m \in DongleMessages \union {"gone"}
        PROVE  Interpret(ctx, m) \in Context /\ Interpret(ctx, m).home_held = ctx.home_held
    <3>1. Interpret(ctx, m) \in Context
      BY <1>1, InterpretType
    <3>2. CASE m \in {"gone", "prompt"}
      BY <1>1, <3>2 DEF Interpret, Context
    <3>3. CASE m \in {"host_ui", "video_on"}
      BY <1>1, <3>3 DEF Interpret, Context
    <3>4. CASE m \in {"siri_on", "siri_off"}
      BY <1>1, <3>4 DEF Interpret, Context
    <3>5. QED
      BY <3>1, <3>2, <3>3, <3>4 DEF DongleMessages
  <2>4. ASSUME NEW e \in AndroidEvents PROVE Receive(ctx, e).home_held = ctx.home_held
    BY <1>1 DEF Receive, AndroidEvents, Context
  <2>5. CASE DongleNothing \/ DongleOpen
    BY <1>1, <2>1, <2>5 DEF DongleNothing, DongleOpen
  <2>6. CASE \E type \in DongleTypes : DonglePhone(type)
    BY <2>1, <2>2, <2>6 DEF DonglePhone
  <2>7. CASE DongleGone \/ \E m \in DongleMessages \intersect PhoneKinds : DongleMessage(m)
    BY <2>1, <2>3, <2>7 DEF DongleGone, DongleMessage
  <2>8. ASSUME NEW ok \in BOOLEAN, DongleConnect(ok) \/ AaConnect(ok) PROVE ctx'.home_held = ctx.home_held
    BY <1>1, <2>8 DEF DongleConnect, AaConnect, Context
  <2>9. CASE DongleSkip \/ AaSkip \/ AaNothing
    BY <2>9 DEF DongleSkip, AaSkip, AaNothing, AaRead, program
  <2>10. CASE \E e \in AndroidEvents \intersect PhoneKinds : AaEvent(e)
    BY <2>4, <2>10 DEF AaEvent, AaRead
  <2>11. QED
    BY <2>5, <2>6, <2>7, <2>8, <2>9, <2>10 DEF PhoneSteps
<1>7. QED
  BY <1>2, <1>4, <1>5, <1>6 DEF PhoneFrame, Before

\* Behind the comparison: steps that leave the phone and the home button.
LEMMA WindowStays ==
    ASSUME WindowInv, pc \notin Before, pc' \notin Before,
           ctx'.phone_type = ctx.phone_type, ctx'.phone_active = ctx.phone_active,
           ctx'.home_held = ctx.home_held, UNCHANGED <<minimized, missed>>
    PROVE  WindowInv'
BY DEF WindowInv, WindowBefore, WindowAfter, Showing

\* The home button: held it takes the phone's video away, which is noted; a release
\* that is heard asks for a new comparison, and a lost one changes nothing.
LEMMA HomeWindow == TypeOK /\ WindowInv /\ Home => WindowInv'
<1> SUFFICES ASSUME TypeOK, WindowInv, Home PROVE WindowInv'
  OBVIOUS
<1>1. pc \notin Before /\ pc' \notin Before /\ minimized' = minimized
  BY DEF Home, Message, Handling, Handled, Answered, Served, Before
<1>2. PICK a, h \in BOOLEAN :
        /\ ctx' = [ctx EXCEPT !.phone_active = a, !.home_held = ctx.home_held \/ h]
        /\ missed' = [missed EXCEPT !.shown = ~h /\ (missed.shown \/ Showing(ctx') # Showing(ctx))]
  BY HomeChange
<1>3. ctx \in Context /\ missed \in Missed
  BY DEF TypeOK
<1>4. ctx'.home_held = (ctx.home_held \/ h)
      /\ missed'.shown = (~h /\ (missed.shown \/ Showing(ctx') # Showing(ctx)))
  BY <1>2, <1>3 DEF Context, Missed
<1>5. ASSUME ~missed'.shown, ~ctx'.home_held PROVE minimized = ~Showing(ctx')
  <2>1. ~ctx.home_held /\ ~h
    BY <1>4, <1>5
  <2>2. ~missed.shown /\ Showing(ctx') = Showing(ctx)
    BY <1>4, <1>5, <2>1
  <2>3. QED
    BY <1>1, <2>1, <2>2 DEF WindowInv, WindowAfter
<1>6. QED
  BY <1>1, <1>5 DEF WindowInv, WindowBefore, WindowAfter

LEMMA WindowStep == TypeOK /\ WindowInv /\ [Next]_vars => WindowInv'
<1> SUFFICES ASSUME TypeOK, WindowInv, [Next]_vars PROVE WindowInv'
  OBVIOUS
<1>0. ctx \in Context /\ missed \in Missed
  BY DEF TypeOK
<1>1. CASE Snapshot
  BY <1>1 DEF Snapshot, WindowInv, WindowBefore, WindowAfter, Before, history
<1>2. CASE Standby \/ End \/ StandbyEnd \/ Finish
  BY <1>2, WindowStays DEF Standby, End, StandbyEnd, Finish, Before, program, history
<1>3. ASSUME NEW due \in BOOLEAN, Timers(due) PROVE WindowInv'
  BY <1>3, WindowStays DEF Timers, Before
<1>4. ASSUME NEW new \in {"amirror", "other"}, Source(new) PROVE WindowInv'
  <2>1. ctx'.phone_type = ctx.phone_type /\ ctx'.phone_active = ctx.phone_active
        /\ ctx'.home_held = ctx.home_held
    BY <1>0, <1>4 DEF Source, Context
  <2>2. QED
    BY <1>4, <2>1, WindowStays DEF Source, Message, Handling, Handled, Served, Before
\* The window is set to what the Context then says.
<1>5. ASSUME NEW on \in BOOLEAN, Interface(on) PROVE WindowInv'
  <2>1. ctx'.phone_type = ctx.phone_type /\ ctx'.phone_active = on
    BY <1>0, <1>5 DEF Interface, Context
  <2>2. pc \notin Before /\ pc' \notin Before /\ minimized' = (~on \/ ctx.phone_type = None)
    BY <1>5 DEF Interface, Message, Handling, Handled, Served, Before
  <2>3. minimized' = ~Showing(ctx')
    BY <2>1, <2>2 DEF Showing
  <2>4. QED
    BY <2>2, <2>3 DEF WindowInv, WindowBefore, WindowAfter
<1>6. ASSUME NEW a, CarState(a) \/ Buttons \/ Setting PROVE WindowInv'
  BY <1>6, WindowStays DEF CarState, Buttons, Setting, Message, Handling, Handled, Served, Before, history
<1>7. CASE PlugDongle \/ PlugCable \/ UNCHANGED vars
  BY <1>7 DEF PlugDongle, PlugCable, vars, program, history, WindowInv, WindowBefore, WindowAfter, Before
<1>8. QED
  BY <1>1, <1>2, <1>3, <1>4, <1>5, <1>6, <1>7, AnnounceWindow, HomeWindow, PhoneWindow
     DEF Next, BusSteps, Rounds

\* The comparison also forgets the released home button.
HomeSeen == pc = "timers" => ~ctx.home_held

LEMMA HomeSeenStep == TypeOK /\ HomeSeen /\ [Next]_vars => HomeSeen'
<1> SUFFICES ASSUME TypeOK, HomeSeen, [Next]_vars PROVE HomeSeen'
  OBVIOUS
<1>1. CASE Announce
  <2> DEFINE r == [c |-> ctx, minimized |-> minimized, told |-> told, ack |-> ack_cache, missed |-> missed]
             q == TellActive(r)
  <2>1. r \in Round /\ q \in Round
    BY TellActiveType DEF Round, TypeOK
  <2>2. ~q.c.home_held
    BY <2>1 DEF TellActive, Round, Context
  <2>3. ~TellType(q).c.home_held
    <3>1. Disconnected(q) \in Round /\ Connected(q) \in Round
      BY <2>1, DisconnectedType, ConnectedType DEF TypeOK
    <3>2. ~Disconnected(q).c.home_held /\ ~Connected(q).c.home_held
      BY <2>1, <2>2 DEF Disconnected, Connected, Round, Context
    <3>3. ASSUME NEW x \in Round, NEW b, NEW d PROVE [x EXCEPT !.told.type = b, !.ack = d, !.missed.type = FALSE].c = x.c
      BY DEF Round
    <3>4. QED
      BY <2>2, <3>1, <3>2, <3>3 DEF TellType
  <2>4. QED
    BY <1>1, <2>3 DEF Announce, HomeSeen
<1>2. CASE PlugDongle \/ PlugCable \/ UNCHANGED vars
  BY <1>2 DEF PlugDongle, PlugCable, vars, program, HomeSeen
<1>3. CASE PhoneSteps
  <2>1. pc' # "timers"
    BY <1>3 DEF PhoneSteps, DongleSkip, DongleConnect, DongleNothing, DongleOpen, DonglePhone, DongleGone,
                DongleMessage, DongleRead, DongleAt, DongleReturns, AaSkip, AaConnect, AaNothing, AaEvent,
                AaRead, AaAt, AaReturns
  <2>2. QED
    BY <2>1 DEF HomeSeen
<1>4. CASE BusSteps
  <2>1. pc' # "timers"
    BY <1>4 DEF BusSteps, Source, Interface, CarState, Buttons, Home, Setting, Message, Handling, Handled, Answered, Served
  <2>2. QED
    BY <2>1 DEF HomeSeen
<1>5. CASE Rounds /\ ~Announce
  <2>1. pc' # "timers"
    BY <1>5 DEF Rounds, Snapshot, Standby, End, Timers, Finish, StandbyEnd
  <2>2. QED
    BY <2>1 DEF HomeSeen
<1>6. QED
  BY <1>1, <1>2, <1>3, <1>4, <1>5 DEF Next, Rounds

\* The window is in front exactly while a phone is mirrored, but for what missed.shown
\* says (set_minimize at amirror.rs:398, 456, 516 and 1901).
THEOREM WindowFollows == Spec => []WindowMatches
<1>1. ASSUME Init PROVE WindowInv /\ HomeSeen
  <2>1. pc = "top" /\ ctx.phone_type = None /\ minimized = TRUE
    BY <1>1 DEF Init
  <2>2. Showing(ctx) = FALSE
    BY <2>1 DEF Showing
  <2>3. minimized = ~Showing(ctx)
    BY <2>1, <2>2
  <2>4. QED
    BY <2>1, <2>3 DEF WindowInv, WindowBefore, WindowAfter, HomeSeen, Before
<1>2. WindowInv /\ HomeSeen => WindowMatches
  BY DEF WindowMatches, WindowInv, WindowAfter, HomeSeen, Before
<1>3. QED
  BY TypeCorrect, <1>1, <1>2, WindowStep, HomeSeenStep, PTL DEF Spec

=============================================================================
