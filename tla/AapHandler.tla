------------------------------ MODULE AapHandler ------------------------------
(***************************************************************************)
(* The connection to an Android phone on USB: AapHandler (aap/aa_handler.rs) *)
(* and AndroidUSBConnection (aap/aap_usb.rs).  A connection begins with the *)
(* version, a TLS handshake and the discovery of the services; then every  *)
(* service has a channel, and the media channels are set up, started and   *)
(* fed one message per acknowledgement.                                    *)
(*                                                                         *)
(* A message is cut into frames; the frames of several channels mix.  The  *)
(* phone is modelled from the messages the handler exchanges with it, and  *)
(* may be unplugged and plugged in between any two steps.  What the        *)
(* messages do to the Context is in MirrorSession.                         *)
(***************************************************************************)
EXTENDS Integers, Sequences, FiniteSets

CONSTANTS
    Media,      \* the media channels considered
    Sessions,   \* session numbers a phone uses
    DataFrames, \* frames of a media message
    Asks,       \* other requests considered, as <<channel, type>>
    MaxPlug,    \* bound: times the cable is plugged in
    MaxData,    \* bound: media messages of a session
    MaxExtra    \* bound: frames that arrive in two reads or cannot be decrypted for a
                \* fault on USB, stops and other requests of the phone, and messages
                \* AMirror sends of its own accord

Control == "control"
Video == "video"

ASSUME MediaAssumption == Media \subseteq {Video, "audio1", "media_audio", "microphone"}
ASSUME AskAssumption ==
    Asks \subseteq ({Control} \X {"audio_focus", "ping", "nav_focus", "byebye"})
             \union ({"touch", "sensor"} \X {"open", "ping", "nav_focus", "byebye"})
             \union {<<"touch", "binding">>, <<"sensor", "sensor_request">>}
ASSUME SessionAssumption == Sessions \subseteq Nat \ {0}
ASSUME BoundAssumption ==
    /\ DataFrames \in Nat \ {0}
    /\ {MaxPlug, MaxData, MaxExtra} \subseteq Nat

None == 0
Android == 5
Plain == 0   \* the key of a frame that is not encrypted

VARIABLES
    phone_type,      \* of the Context
    aa_activated,    \* the connection is taken to be there
    handle,          \* the plugging-in the device handle belongs to, which claims its interface
    ssl,             \* number and state of the TLS session
    had_sdr, first_video,
    channel_session, \* session number of each media channel
    current_data,    \* frames read of the message of each channel
    reading,         \* waiting for the rest of a frame
    cable,           \* number of the plugging-in, 0 when unplugged
    toHU, toPhone,   \* what is on its way
    phone,           \* the phone's side
    message,         \* the message handled last (history)
    taken,           \* media messages handled in the phone's session (history)
    stale,           \* found without the connection before having been ended (history)
    again,           \* a session number was used while it still was in use (history)
    plug, extra      \* how often each has happened, for the bounds

connection == <<aa_activated, handle, reading>>
services == <<had_sdr, first_video, channel_session>>
history == <<message, taken, stale, again>>
counts == <<plug, extra>>
vars == <<phone_type, connection, ssl, services, current_data, cable, toHU, toPhone, phone, history, counts>>

Channels == {Control, "touch", "sensor"} \union Media

\* A frame to the phone is a whole message here: the phone puts them together.
Out(chan, type, key, arg) == [chan |-> chan, type |-> type, key |-> key, arg |-> arg]
Frame(m, part, of) == [m |-> m, part |-> part, of |-> of]

-----------------------------------------------------------------------------
(* Writing.                                                                *)

\* write_bytes, once per message: nothing without a connection.  Any error but a timeout
\* ends the connection: that of a device that has gone, and a fault on USB with the
\* phone plugged in, after which the rest is not written.
WriteBytes(ms) ==
    IF ~aa_activated \/ ms = <<>> THEN UNCHANGED <<toPhone, aa_activated>>
    ELSE \/ cable = handle /\ toPhone' = toPhone \o ms /\ UNCHANGED aa_activated
         \/ /\ aa_activated' = FALSE
            /\ \E n \in 0..(IF cable = handle THEN Len(ms) - 1 ELSE 0) :
                 toPhone' = toPhone \o SubSeq(ms, 1, n)

\* write_encoded: nothing without a TLS session.  In a handshake nothing can be
\* encrypted: SSL_write and BIO_read fail, and the failure is taken for a length of
\* 0xFFFF, so that as many zeros are written.
Garbage(chan) == Out(chan, "garbage", Plain, 0)
Encoded(chan, type, arg) ==
    CASE ssl.state = "null" -> <<>>
      [] ssl.state = "done" -> <<Out(chan, type, ssl.id, arg)>>
      [] OTHER              -> <<Garbage(chan)>>
Unencoded(chan, type, arg) == <<Out(chan, type, Plain, arg)>>

\* Messages AMirror sends of its own accord while an Android phone is there: the
\* ping and, all alike, the sensors and the keys.
WriteOwn(type) ==
    /\ ~reading /\ phone_type = Android /\ extra < MaxExtra
    /\ WriteBytes(Encoded(IF type = "ping_request" THEN Control ELSE type, type, 0))
    /\ extra' = extra + 1
    /\ UNCHANGED <<phone_type, handle, reading, ssl, services, current_data, cable, toHU, phone, history, plug>>

-----------------------------------------------------------------------------
(* Connecting.                                                             *)

\* A connection is found and the phone asked for its version, unless that write fails.
\* The handle of a lost connection is kept and with it the claim to the interface, so
\* that the phone is not found again before it has been plugged in again.  A connection
\* that was lost and is found again at once has not been ended.
Connect ==
    /\ ~reading /\ ~aa_activated /\ cable \notin {0, handle}
    /\ handle' = cable
    /\ \/ aa_activated' = TRUE /\ toPhone' = Append(toPhone, Out(Control, "version_request", Plain, 0))
       \/ UNCHANGED <<aa_activated, toPhone>>
    /\ phone_type' = Android
    /\ stale' = (phone_type = Android)
    /\ UNCHANGED <<reading, ssl, services, current_data, cable, toHU, phone, message, taken, again, counts>>

\* Mutant: the services stay discovered.
StopConnectionKeepsSdr ==
    /\ first_video' = FALSE
    /\ ssl' = [ssl EXCEPT !.state = "null"]
    /\ phone_type' = None
    /\ UNCHANGED <<had_sdr, channel_session>>

\* Mutant: the TLS session is left.
StopConnectionKeepsSsl ==
    /\ had_sdr' = FALSE /\ first_video' = FALSE
    /\ phone_type' = None
    /\ UNCHANGED <<ssl, channel_session>>

\* stop_connection.
StopConnection ==
    /\ had_sdr' = FALSE /\ first_video' = FALSE
    /\ ssl' = [ssl EXCEPT !.state = "null"]
    /\ phone_type' = None
    /\ UNCHANGED channel_session

\* No connection is found: also when the last look was less than 100 ms ago, or the
\* interface is still claimed.
NotConnected ==
    /\ ~reading /\ ~aa_activated
    /\ StopConnection
    /\ message' = <<>>
    /\ UNCHANGED <<connection, current_data, cable, toHU, toPhone, phone, taken, stale, again, counts>>

-----------------------------------------------------------------------------
(* Handling a message.                                                     *)

\* What is written in answer to the message of a media channel.  Every message but
\* the request to open is acknowledged, with the session known before it.  The
\* location sent after the first video is set up lacks required fields, so that
\* nothing is written (AapMessages).
Ack(m) == Encoded(m.chan, "ack", channel_session[m.chan])

\* Mutant: the session is taken over before the acknowledgement.
AnswerInNewSession(m) ==
    CASE m.type = "open" -> Encoded(m.chan, "open_response", 0)
      [] m.type = "setup" ->
            Ack(m) \o Encoded(m.chan, "config", 0)
              \o (IF m.chan = Video /\ ~first_video THEN Encoded(Video, "focus", 0) ELSE <<>>)
      [] m.type = "start" -> Encoded(m.chan, "ack", m.arg)
      [] m.type \in {"data", "stop"} -> Ack(m)
      [] m.type = "video_focus" -> Encoded(Video, "focus", 0)

Answer(m) ==
    CASE m.type = "open" -> Encoded(m.chan, "open_response", 0)
      [] m.type = "setup" ->
            Ack(m) \o Encoded(m.chan, "config", 0)
              \o (IF m.chan = Video /\ ~first_video THEN Encoded(Video, "focus", 0) ELSE <<>>)
      [] m.type \in {"start", "data", "stop"} -> Ack(m)
      [] m.type = "video_focus" -> Encoded(Video, "focus", 0)

HandleMedia(m) ==
    /\ WriteBytes(Answer(m))
    /\ channel_session' = [channel_session EXCEPT ![m.chan] =
                             CASE m.type = "start" -> m.arg
                               [] m.type = "stop"  -> 0
                               [] OTHER            -> @]
    /\ first_video' = (first_video \/ (m.type = "setup" /\ m.chan = Video))
    /\ taken' = [taken EXCEPT ![m.chan] =
                   IF m.type = "start" THEN 0 ELSE IF m.type = "data" THEN @ + 1 ELSE @]
    /\ UNCHANGED <<ssl, had_sdr>>

\* A new TLS session replaces the old one.
BeginSslHandshake ==
    /\ ssl' = [id |-> ssl.id + 1, state |-> "begun"]
    /\ WriteBytes(Unencoded(Control, "ssl", ssl.id + 1))
    /\ UNCHANGED <<services, taken>>

\* Mutant: the first round is taken for the last.
HandshakeShort(m) ==
    /\ ssl' = [ssl EXCEPT !.state =
                 IF m.arg # ssl.id THEN (IF @ = "null" THEN @ ELSE "broken")
                 ELSE CASE @ = "begun" -> "answered" [] @ = "answered" -> "done" [] OTHER -> @]
    /\ WriteBytes(IF m.arg = ssl.id /\ ssl.state \in {"begun", "answered"}
                    THEN Unencoded(Control, "auth", ssl.id) ELSE <<>>)
    /\ UNCHANGED <<services, taken>>

\* Two rounds, then the phone is told that it is done.  What belongs to another
\* session spoils the handshake.
HandleSslHandshake(m) ==
    /\ ssl' = [ssl EXCEPT !.state =
                 IF m.arg # ssl.id THEN (IF @ = "null" THEN @ ELSE "broken")
                 ELSE CASE @ = "begun" -> "answered" [] @ = "answered" -> "done" [] OTHER -> @]
    /\ WriteBytes(CASE m.arg = ssl.id /\ ssl.state = "begun" -> Unencoded(Control, "ssl", ssl.id)
                    [] m.arg = ssl.id /\ ssl.state = "answered" -> Unencoded(Control, "auth", ssl.id)
                    [] OTHER -> <<>>)
    /\ UNCHANGED <<services, taken>>

\* The services are told once per connection.
HandleServiceDiscovery ==
    /\ WriteBytes(IF had_sdr THEN <<>>
                  ELSE Unencoded(Control, "sdr_request", 0) \o Unencoded(Control, "sdr_response", 0))
    /\ had_sdr' = TRUE
    /\ UNCHANGED <<ssl, first_video, channel_session, taken>>

\* Of the requests of the other kinds those on the control channel are not looked
\* for, but the audio focus.
Answered(m) ==
    CASE m.type = "audio_focus" /\ m.chan = Control -> Encoded(Control, "audio_focus", 0)
      [] m.type \in {"ping", "nav_focus", "byebye"} /\ m.chan # Control -> Encoded(m.chan, m.type, 0)
      [] m.type = "open" /\ m.chan # Control ->
            Encoded(m.chan, "open_response", 0)
              \o (IF m.chan = "sensor" THEN Encoded(m.chan, "batch", 0) ELSE <<>>)
      [] m.type = "binding" /\ m.chan = "touch" -> Encoded(m.chan, "binding", 0)
      [] m.type = "sensor_request" /\ m.chan = "sensor" -> Encoded(m.chan, "sensor_response", 0)
      [] OTHER -> <<>>

\* process_message.
Handle(m) ==
    CASE m.type = "version" -> BeginSslHandshake
      [] m.type = "ssl"     -> HandleSslHandshake(m)
      [] m.type = "sdr"     -> HandleServiceDiscovery
      [] m.chan \in Media   -> HandleMedia(m)
      [] OTHER -> WriteBytes(Answered(m)) /\ UNCHANGED <<ssl, services, taken>>

-----------------------------------------------------------------------------
(* Reading a frame.                                                        *)

\* Mutant: the first frame does not clear what there is of another message.
GatheredMore(f) == Append(current_data[f.m.chan], f)

\* The frames of the message of the channel, with this one.
Gathered(f) == IF f.part = 1 THEN <<f>> ELSE Append(current_data[f.m.chan], f)

Fails(f, bad) == f.m.key # Plain /\ ssl.state # "null" /\ (bad \/ ssl.state # "done" \/ ssl.id # f.m.key)

\* Mutant: the frames stay.
ClearNot(chan) == current_data' = [current_data EXCEPT ![chan] = Gathered(Head(toHU))]

Clear(chan) == current_data' = [current_data EXCEPT ![chan] = <<>>]

\* process_bytes and process_message for the frame that comes next.
Process(bad) ==
    LET f == Head(toHU)
        chan == f.m.chan
    IN  /\ toHU' = Tail(toHU)
        /\ extra' = IF bad THEN extra + 1 ELSE extra
        /\ reading' = FALSE
        /\ IF Fails(f, bad)
             THEN \* soft_reset: the handle and the session are left.
                  /\ aa_activated' = FALSE
                  /\ ssl' = [ssl EXCEPT !.state = "broken"]
                  /\ Clear(chan)
                  /\ UNCHANGED <<services, toPhone, message, taken>>
           ELSE IF f.m.key # Plain /\ ssl.state = "null"
             THEN /\ Clear(chan)
                  /\ UNCHANGED <<ssl, services, aa_activated, toPhone, message, taken>>
           ELSE IF f.part = f.of
             THEN /\ Clear(chan)
                  /\ message' = Gathered(f)
                  /\ Handle(f.m)
           ELSE /\ current_data' = [current_data EXCEPT ![chan] = Gathered(f)]
                /\ UNCHANGED <<ssl, services, aa_activated, toPhone, message, taken>>
        /\ UNCHANGED <<phone_type, handle, cable, phone, stale, again, plug>>

Alive == aa_activated /\ cable = handle

ReadFrame(bad) ==
    /\ ~reading /\ Alive /\ toHU # <<>>
    /\ bad => extra < MaxExtra /\ Head(toHU).m.key # Plain
    /\ Process(bad)

\* The beginning of a frame is read; the rest is waited for.
ReadPart ==
    /\ ~reading /\ Alive /\ toHU # <<>> /\ extra < MaxExtra
    /\ reading' = TRUE
    /\ extra' = extra + 1
    /\ UNCHANGED <<phone_type, aa_activated, handle, ssl, services, current_data, cable, toHU, toPhone, phone,
                   history, plug>>

ReadRest == reading /\ Alive /\ Process(FALSE)

\* An error that is not a timeout: the device has gone, or a fault on USB.  In the loop
\* that waits for the rest nobody looks.
ReadError ==
    /\ aa_activated
    /\ aa_activated' = FALSE
    /\ UNCHANGED <<phone_type, handle, reading, ssl, services, current_data, cable, toHU, toPhone, phone,
                   history, counts>>

-----------------------------------------------------------------------------
(* The phone.                                                              *)

Closed == [at |-> "closed", session |-> 0, part |-> 0, sent |-> 0, acks |-> 0]
NewPhone == [at |-> "idle", key |-> 0, ch |-> [c \in Media |-> Closed]]

Unchanged == UNCHANGED <<phone_type, connection, ssl, services, current_data, cable, message, taken, stale, plug>>

Send(m) == toHU' = Append(toHU, Frame(m, 1, 1))
Secret(chan, type, arg) == Out(chan, type, phone.key, arg)

\* A phone that is asked for its version begins anew.
TakeVersion ==
    /\ phone' = [NewPhone EXCEPT !.at = "version"]
    /\ Send(Out(Control, "version", Plain, 0))

TakeSsl(m) ==
    IF phone.at \in {"version", "ssl"}
      THEN phone' = [phone EXCEPT !.at = "ssl", !.key = m.arg] /\ Send(Out(Control, "ssl", Plain, m.arg))
      ELSE UNCHANGED <<phone, toHU>>

TakeAuth(m) ==
    IF phone.at = "ssl" /\ phone.key = m.arg
      THEN phone' = [phone EXCEPT !.at = "sdr"] /\ Send(Secret(Control, "sdr", 0))
      ELSE UNCHANGED <<phone, toHU>>

\* What a message on a media channel changes there.
Heard(c, m) ==
    CASE m.type = "open_response" /\ c.at = "opening" -> [c EXCEPT !.at = "open"]
      [] m.type = "config" /\ c.at = "setup" -> [c EXCEPT !.at = IF m.chan = Video THEN "focus" ELSE "ready"]
      [] m.type = "focus" /\ c.at = "focus" -> [c EXCEPT !.at = "ready"]
      [] m.type = "ack" /\ c.at = "started" /\ m.arg = c.session -> [c EXCEPT !.acks = @ + 1]
      [] OTHER -> c

Take ==
    /\ cable # 0 /\ toPhone # <<>>
    /\ toPhone' = Tail(toPhone)
    /\ LET m == Head(toPhone)
       IN  CASE m.type = "version_request" -> TakeVersion
             [] m.type = "ssl"  -> TakeSsl(m)
             [] m.type = "auth" -> TakeAuth(m)
             [] m.type = "sdr_response" /\ phone.at = "sdr" ->
                    phone' = [phone EXCEPT !.at = "up"] /\ UNCHANGED toHU
             [] m.chan \in Media /\ m.key = phone.key /\ phone.at = "up" ->
                    phone' = [phone EXCEPT !.ch[m.chan] = Heard(@, m)] /\ UNCHANGED toHU
             [] OTHER -> UNCHANGED <<phone, toHU>>
    /\ UNCHANGED <<again, extra>>
    /\ Unchanged

\* The steps of a media channel: open, set up, start, stop and ask for the video.
Moves == {<<"closed", "open", "opening">>, <<"open", "setup", "setup">>}

Move(chan) ==
    /\ cable # 0 /\ phone.at = "up"
    /\ \E step \in Moves :
        /\ phone.ch[chan].at = step[1]
        /\ Send(Secret(chan, step[2], 0))
        /\ phone' = [phone EXCEPT !.ch[chan].at = step[3]]
    /\ UNCHANGED <<toPhone, again, extra>>
    /\ Unchanged

\* Session number s is the handler's, or that of a message on its way.
InUse(chan, s) ==
    \/ s = channel_session[chan]
    \/ \E i \in 1..Len(toPhone) : toPhone[i] = Secret(chan, "ack", s)
    \/ \E i \in 1..Len(toHU) : toHU[i].m.chan = chan /\ toHU[i].m.type = "start" /\ toHU[i].m.arg = s

Start(chan, s) ==
    /\ cable # 0 /\ phone.at = "up" /\ phone.ch[chan].at = "ready"
    /\ Send(Secret(chan, "start", s))
    /\ phone' = [phone EXCEPT !.ch[chan] = [@ EXCEPT !.at = "started", !.session = s, !.sent = 0, !.acks = 0]]
    /\ again' = (again \/ InUse(chan, s))
    /\ UNCHANGED <<toPhone, extra>>
    /\ Unchanged

\* At most one message is not acknowledged: max_unacked is 1.
Data(chan) ==
    LET c == phone.ch[chan]
        last == c.part + 1 = DataFrames
    IN  /\ cable # 0 /\ phone.at = "up" /\ c.at = "started"
        /\ c.sent < MaxData /\ (c.part = 0 => c.acks >= c.sent)
        /\ toHU' = Append(toHU, Frame(Secret(chan, "data", c.sent + 1), c.part + 1, DataFrames))
        /\ phone' = [phone EXCEPT !.ch[chan].part = IF last THEN 0 ELSE @ + 1,
                                  !.ch[chan].sent = IF last THEN @ + 1 ELSE @]
        /\ UNCHANGED <<toPhone, again, extra>>
        /\ Unchanged

\* A stopped channel is started in another session; for the video the focus is asked
\* for first.
Stop(chan) ==
    /\ cable # 0 /\ phone.at = "up" /\ phone.ch[chan].at = "started" /\ phone.ch[chan].part = 0
    /\ extra < MaxExtra
    /\ extra' = extra + 1
    /\ toHU' = toHU \o <<Frame(Secret(chan, "stop", 0), 1, 1)>>
                    \o (IF chan = Video THEN <<Frame(Secret(Video, "video_focus", 0), 1, 1)>> ELSE <<>>)
    /\ phone' = [phone EXCEPT !.ch[chan].at = IF chan = Video THEN "focus" ELSE "ready"]
    /\ UNCHANGED <<toPhone, again>>
    /\ Unchanged

Ask(r) ==
    /\ cable # 0 /\ phone.at = "up" /\ extra < MaxExtra
    /\ extra' = extra + 1
    /\ Send(Secret(r[1], r[2], 0))
    /\ UNCHANGED <<phone, toPhone, again>>
    /\ Unchanged

Plug ==
    /\ cable = 0 /\ plug < MaxPlug
    /\ plug' = plug + 1
    /\ cable' = plug + 1
    /\ phone' = NewPhone
    /\ UNCHANGED <<phone_type, connection, ssl, services, current_data, toHU, toPhone, history, extra>>

\* Everything on its way is lost.
Unplug ==
    /\ cable # 0 /\ plug < MaxPlug
    /\ cable' = 0 /\ toHU' = <<>> /\ toPhone' = <<>>
    /\ stale' = FALSE
    /\ UNCHANGED <<phone_type, connection, ssl, services, current_data, phone, message, taken, again, counts>>

-----------------------------------------------------------------------------

Init ==
    /\ phone_type = None
    /\ aa_activated = FALSE /\ handle = 0 /\ reading = FALSE
    /\ ssl = [id |-> 0, state |-> "null"]
    /\ had_sdr = FALSE /\ first_video = FALSE /\ channel_session = [c \in Media |-> 0]
    /\ current_data = [c \in Channels |-> <<>>]
    /\ cable = 0 /\ toHU = <<>> /\ toPhone = <<>> /\ phone = NewPhone
    /\ message = <<>> /\ taken = [c \in Media |-> 0] /\ stale = FALSE /\ again = FALSE
    /\ plug = 0 /\ extra = 0

Reads == ReadRest \/ (\E bad \in BOOLEAN : ReadFrame(bad))

Handler ==
    \/ Connect \/ NotConnected \/ Reads \/ ReadPart \/ ReadError
    \/ \E type \in {"ping_request", "sensor"} : WriteOwn(type)

Phone ==
    \/ Take
    \/ \E c \in Media : Move(c) \/ (\E s \in Sessions : Start(c, s)) \/ Data(c) \/ Stop(c)
    \/ \E r \in Asks : Ask(r)

Next == Handler \/ Phone \/ Plug \/ Unplug

Spec == Init /\ [][Next]_vars

\* The main thread goes on calling process(), which reads, meets the error of a device
\* that has gone and finds a phone it can claim; the phone takes what it is sent and
\* goes on.  No other fault has to happen, and what is claimed is not found.
FairSpec ==
    /\ Spec
    /\ WF_vars(Reads) /\ WF_vars(cable # handle /\ ReadError) /\ WF_vars(Connect)
    /\ WF_vars(Take)
    /\ \A c \in Media : WF_vars(Move(c)) /\ WF_vars(\E s \in Sessions : Start(c, s)) /\ WF_vars(Data(c))

-----------------------------------------------------------------------------
(* Properties.                                                             *)

TypeOK ==
    /\ phone_type \in {None, Android}
    /\ {aa_activated, had_sdr, first_video, reading, stale, again} \subseteq BOOLEAN
    /\ {handle, cable} \subseteq 0..MaxPlug
    /\ ssl \in [id : Nat, state : {"null", "begun", "answered", "done", "broken"}]
    /\ channel_session \in [Media -> Sessions \union {0}]
    /\ \A c \in Channels : Len(current_data[c]) < DataFrames
    /\ DOMAIN taken = Media

\* A message that is handled is one message of the phone's from its first frame to its
\* last, whatever was read in between on other channels, lost in an error or left
\* from the connection before (process_bytes, aa_handler.rs:533 and 659).
Whole ==
    \A i \in 1..Len(message) :
        message[i] = Frame(message[1].m, i, Len(message)) /\ message[1].of = Len(message)

\* The acknowledgements of the session, on their way and there.
Acks(c) ==
    Cardinality({i \in 1..Len(toPhone) : toPhone[i] = Secret(c, "ack", phone.ch[c].session)}) + phone.ch[c].acks

\* In a session the phone is not sent more acknowledgements than media messages have been
\* handled, so that no more than max_unacked messages wait: the acknowledgements of
\* setup, start and stop do not count, as they carry another session number
\* (aa_handler.rs:925-940), unless the number was still in use when it was taken.
AckedIsHandled ==
    ~again => \A c \in Media : phone.ch[c].at = "started" => Acks(c) <= taken[c]

\* What is encrypted for the phone is encrypted in the session the phone is in: the
\* session of a connection that was ended is not used again (stop_connection,
\* aa_handler.rs:272-276).
KeyOfPhone ==
    ~stale => \A i \in 1..Len(toPhone) : toPhone[i].key \in {Plain, phone.key}

\* A frame that is read next and is encrypted is so in the session the handler is in,
\* whose handshake is finished: only a fault on USB can fail it and end the connection
\* (process_bytes, aa_handler.rs:599 and 641), also after handshakes that were lost.
KeyOfHandler ==
    Alive /\ toHU # <<>> /\ Head(toHU).m.key # Plain
        => ssl.state = "done" /\ Head(toHU).m.key = ssl.id

\* The frames the code means to encrypt are encrypted (write_encoded, aa_handler.rs:410:
\* "Write encrypted bytes to the USB device").
NoGarbage == \A i \in 1..Len(toPhone) : toPhone[i].type # "garbage"

\* The rest of a frame is waited for, and nothing more is read.
Hung == reading /\ ~Alive

\* The connection was lost on this plugging-in, and its handle claims the interface.
Claimed == cable # 0 /\ handle = cable /\ ~aa_activated

\* A phone that stays plugged in has its services discovered, its channels opened and
\* its first video acknowledged, whatever failed on the pluggings-in before (the TLS
\* session, the discovery and the frames left of it), unless USB fails on this one, the
\* handler hangs, or the phone was found again before the last connection was ended.
StartsUp ==
    (cable # 0 /\ phone.at = "idle")
        ~> (phone.ch[Video].acks > 0 \/ cable = 0 \/ stale \/ Hung \/ Claimed)
=============================================================================
