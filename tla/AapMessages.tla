------------------------------- MODULE AapMessages -------------------------------
(***************************************************************************)
(* What AMirror and an Android phone say to each other: the protobuf       *)
(* messages AapHandler (aap/aa_handler.rs) builds and reads, and the       *)
(* rounds of the main thread (AMirror::process and handle_aibus_message,   *)
(* amirror.rs) that decide when it does.                                   *)
(*                                                                         *)
(* A message is a function from the fields that are set to their values;   *)
(* on the wire it is a sequence of tagged values.  A phone may leave any   *)
(* field out, use enumerators that are not known here and fields of a      *)
(* later version.  How frames are cut, encrypted and acknowledged is in    *)
(* AapHandler, what phones do to the screen and the radio in               *)
(* MirrorSession; times are left out, a timestamp is always Now.           *)
(***************************************************************************)
EXTENDS Integers, Sequences, SequencesExt, TLC

CONSTANTS
    Setups,   \* screens and Bluetooth: records w, h, mac
    Lists,    \* lists of buttons a screen sends
    Asked,    \* kinds of requests of the phone considered
    MaxBus,   \* bound: bus messages
    MaxAsk,   \* bound: requests of the phones
    MaxPlug   \* bound: times the cable is plugged in

Buttons == {"knob", "touch", "vertical", "horizontal", "home", "menu", "audio", "map", "phone"}

ASSUME SetupAssumption == Setups \subseteq [w : Nat \ {0}, h : Nat \ {0}, mac : BOOLEAN]
ASSUME ListAssumption == Lists \subseteq SUBSET Buttons
ASSUME BoundAssumption == {MaxBus, MaxAsk, MaxPlug} \subseteq Nat

VARIABLES
    pc,    \* where the main thread is in its round
    ctx,   \* the part of the Context the messages are made from, and screen_acknowledged
    snap,  \* the values process() remembers from the start of the round
    setup, \* w and h of AapHandler, and whether the Bluetooth address is known
    aap,   \* AapHandler: connected, had_sdr, first_video, channel_session, enter_hold, home_hold
    phone, \* the phone's side: what it was told
    sent,  \* the messages written in the last step
    between, \* values told to the phone while bus messages were handled (history)
    bus, asks, plugs \* how often each has happened, for the bounds

counts == <<bus, asks, plugs>>
vars == <<pc, ctx, snap, setup, aap, phone, sent, between, counts>>

Fields == INSTANCE AapFields
Wire == INSTANCE AapWire

-----------------------------------------------------------------------------
(* Reading and writing a message of given fields.                          *)

Unset == << >>

\* What a getter returns.
Get(message, struct, name) ==
    LET f == struct[name]
        known == f.kind = "enum" => \E e \in DOMAIN f.values : f.values[e] = message[name]
    IN  IF name \in DOMAIN message /\ known THEN message[name] ELSE f.default

RECURSIVE Initialized(_, _)
Initialized(fields, message) ==
    \A i \in DOMAIN fields :
        LET f == fields[i]
            there == f.name \in DOMAIN message
        IN  /\ f.rule = "required" => there
            /\ there /\ f.of.nested =>
                 IF f.rule = "repeated"
                   THEN \A k \in DOMAIN message[f.name] : Initialized(f.of.fields, message[f.name][k])
                   ELSE Initialized(f.of.fields, message[f.name])

Entry(number, wire, value) == [tag |-> 8 * number + wire, value |-> value]

RECURSIVE BytesOf(_, _)
BytesOf(fields, message) ==
    LET Value(f, v) == Entry(f.number, f.of.wire, IF f.of.nested THEN BytesOf(f.of.fields, v) ELSE v)
        Put(f) ==
            IF f.name \notin DOMAIN message THEN << >>
            ELSE LET v == message[f.name]
                 IN  CASE f.rule = "repeated" -> [k \in DOMAIN v |-> Value(f, v[k])]
                       [] f.rule = "packed"   -> IF v = << >> THEN << >> ELSE <<Entry(f.number, 2, v)>>
                       [] OTHER               -> <<Value(f, v)>>
    IN  FlattenSeq([i \in DOMAIN fields |-> Put(fields[i])])

\* merge_from: a field is known by number and wire type, numbers of a repeated one
\* come alone or packed, and what is not known is skipped.
Many(f) == f.rule \in {"repeated", "packed"}
IsPacked(f, tag) == Many(f) /\ f.of.wire = 0 /\ tag = 8 * f.number + 2
Takes(f, tag) == tag = 8 * f.number + f.of.wire \/ IsPacked(f, tag)

RECURSIVE Merge(_, _, _)
Merge(fields, message, bytes) ==
    LET Old(f, none) == IF f.name \in DOMAIN message THEN message[f.name] ELSE none
        Value(f, e) ==
            IF f.of.nested
              THEN Merge(f.of.fields, IF Many(f) THEN Unset ELSE Old(f, Unset), e.value)
              ELSE e.value
        With(f, e) == f.name :>
            (CASE IsPacked(f, e.tag) -> Old(f, << >>) \o e.value
               [] Many(f) -> Append(Old(f, << >>), Value(f, e))
               [] OTHER -> Value(f, e))
        next == {i \in DOMAIN fields : Takes(fields[i], Head(bytes).tag)}
    IN  IF bytes = << >> THEN message
        ELSE Merge(fields,
                   IF next = {} THEN message
                   ELSE With(fields[CHOOSE i \in next : TRUE], Head(bytes)) @@ message,
                   Tail(bytes))

RECURSIVE Fits(_, _)
Fits(kind, v) ==
    CASE kind.kind \in {"int32", "int64"} -> v \in Int
      [] kind.kind \in {"uint32", "uint64"} -> v \in Nat
      [] kind.kind = "enum" -> \E e \in DOMAIN kind.values : kind.values[e] = v
      [] kind.kind = "bool" -> v \in BOOLEAN
      [] kind.kind \in {"string", "bytes"} -> v \in STRING
      [] kind.kind = "many" -> \A k \in DOMAIN v : Fits(kind.of, v[k])
      [] kind.kind = "message" ->
            \A f \in DOMAIN v : f \in DOMAIN kind.fields /\ Fits(kind.fields[f], v[f])

\* AapWire and AapFields describe the same message.
Agree(fields, struct) == {fields[i].name : i \in DOMAIN fields} = DOMAIN struct

-----------------------------------------------------------------------------
(* Messages AMirror writes.                                                *)

Channel == [control |-> 0, touch |-> 1, sensor |-> 2, video |-> 3, media_audio |-> 4,
            audio1 |-> 5, audio2 |-> 6, microphone |-> 7, bluetooth |-> 8,
            phone_status |-> 9, notification |-> 10, navigation |-> 11, media_status |-> 12]

Control == Fields!ControlMessageType
MediaCode == Fields!MediaMessageId
InputCode == Fields!InputMessageId
SensorCode == Fields!SensorMessageId
Key == Fields!KeyCode
Now == 0

\* write_message: nothing is written of a message that is not complete.
Out(channel, code, bytes, meant, complete) ==
    [channel |-> channel, code |-> code, bytes |-> bytes, meant |-> meant, complete |-> complete]
Message(channel, code, fields, message) ==
    Out(channel, code, BytesOf(fields, message), message, Initialized(fields, message))

\* A key; the code is also sent for the state of the modifiers.
Press(key, down) ==
    LET press == [keycode |-> key, down |-> down, metastate |-> key, longpress |-> FALSE]
    IN  Message(Channel.touch, InputCode.INPUT_MESSAGE_INPUT_REPORT, Wire!InputReport,
                [timestamp |-> Now, key_event |-> [keys |-> <<press>>]])
SendButton(key, state) == IF state = "hold" THEN << >> ELSE <<Press(key, state # "release")>>
Tap(key) == SendButton(key, "press") \o SendButton(key, "release")

\* A step of the knob, encoded by hand as the field of an InputReport.
TurnAs(field, cw) ==
    LET knob == Key.KEYCODE_ROTARY_CONTROLLER
        delta == IF cw THEN 1 ELSE -1
        turn == <<Entry(1, 2, <<Entry(1, 0, knob), Entry(2, 0, delta)>>)>>
    IN  Out(Channel.touch, InputCode.INPUT_MESSAGE_INPUT_REPORT,
            <<Entry(1, 0, Now), Entry(field, 2, turn)>>,
            [timestamp |-> Now,
             relative_event |-> [data |-> <<[keycode |-> knob, delta |-> delta]>>]],
            TRUE)

\* Mutant: the turn is put where a touch on a touchpad goes.
TurnAsTouch(cw) == TurnAs(7, cw)

Turn(cw) == TurnAs(6, cw)

Batch(data) == Message(Channel.sensor, SensorCode.SENSOR_MESSAGE_BATCH, Wire!SensorBatch, data)
NightData(c) == <<[night_mode |-> c.night]>>
LightDataOf(c) ==
    <<[head_light_state |-> Fields!HeadLightState[
        CASE c.lights = "off" -> "HEAD_LIGHT_STATE_OFF"
          [] c.lights = "low" -> "HEAD_LIGHT_STATE_ON"
          [] c.lights = "high" -> "HEAD_LIGHT_STATE_HIGH"]]>>
SpeedDataOf(c) == <<[speed_e3 |-> c.speed]>>
StatusData(c) == <<[status |-> IF c.speed = 0 THEN Fields!DrivingStatus.DRIVE_STATUS_UNRESTRICTED
                                           ELSE Fields!DrivingStatus.DRIVE_STATUS_NO_KEYBOARD_INPUT]>>
NightBatch(c) == Batch([night_mode_data |-> NightData(c)])
LightBatch(c) == Batch([light_data |-> LightDataOf(c)])
SpeedBatch(c) == Batch([speed_data |-> SpeedDataOf(c), driving_status_data |-> StatusData(c)])

\* Mutant: a place without what a LocationData must have.
PlaceBatchNoLatitude(c) == Batch([location_data |-> <<[altitude_e2 |-> c.place]>>])

PlaceBatch(c) == Batch([location_data |->
    <<[latitude_e7 |-> c.place, longitude_e7 |-> c.place, altitude_e2 |-> c.place]>>])

\* What a phone gets that opens the sensor channel.
OpenBatch(c) == Batch([night_mode_data |-> NightData(c), driving_status_data |-> StatusData(c),
                       light_data |-> LightDataOf(c), speed_data |-> SpeedDataOf(c)])

Ack(channel, sessions) ==
    LET start == [session_id |-> sessions[channel], configuration_index |-> 1]
    IN  Out(channel, MediaCode.MEDIA_MESSAGE_ACK, BytesOf(Wire!Start, start),
            [session_id |-> sessions[channel], ack |-> 1], Initialized(Wire!Start, start))

VideoFocus(focus, unsolicited) ==
    Message(Channel.video, MediaCode.MEDIA_MESSAGE_VIDEO_FOCUS_NOTIFICATION, Wire!VideoFocusNotification,
            [focus |-> focus, unsolicited |-> unsolicited])

-----------------------------------------------------------------------------
(* The service discovery.                                                  *)

\* The keys of a screen; rotary: the buttons for which a knob is announced.
KeysOf(list, rotary) ==
    LET If(there, key) == IF there THEN <<key>> ELSE << >>
        Has(b, key) == If(b \in list, key)
    IN  Has("menu", Key.KEYCODE_SETTINGS) \o Has("home", Key.KEYCODE_HOME) \o <<Key.KEYCODE_BACK>>
        \o Has("phone", Key.KEYCODE_CALL)
        \o <<Key.KEYCODE_ENDCALL, Key.KEYCODE_DPAD_UP, Key.KEYCODE_DPAD_DOWN, Key.KEYCODE_DPAD_LEFT,
             Key.KEYCODE_DPAD_RIGHT, Key.KEYCODE_DPAD_CENTER, Key.KEYCODE_MEDIA_PLAY_PAUSE,
             Key.KEYCODE_MEDIA_NEXT, Key.KEYCODE_MEDIA_PREVIOUS>>
        \o Has("audio", Key.KEYCODE_MUSIC)
        \o If(rotary \intersect list # {}, Key.KEYCODE_ROTARY_CONTROLLER)
        \o Has("map", Key.KEYCODE_NAVIGATION)
        \o <<Key.KEYCODE_MEDIA, Key.KEYCODE_RADIO, Key.KEYCODE_MEDIA_PLAY, Key.KEYCODE_MEDIA_PAUSE>>

\* Mutant: the knob is announced only where there is one.
AnnouncedKeysKnobOnly(list) == KeysOf(list, {"knob"})

\* Toggles turn the phone's cursor like a knob.
AnnouncedKeys(list) == KeysOf(list, {"knob", "horizontal", "vertical"})

InputService(list, size) ==
    LET screen == <<[width |-> size.w, height |-> size.h]>>
    IN  [id |-> Channel.touch,
         input_source_service |->
            IF "touch" \in list THEN [keycodes_supported |-> AnnouncedKeys(list), touchscreen |-> screen]
                                ELSE [keycodes_supported |-> AnnouncedKeys(list)]]

SensorService ==
    LET types == <<"SENSOR_DRIVING_STATUS_DATA", "SENSOR_NIGHT_MODE", "SENSOR_LOCATION",
                   "SENSOR_SPEED", "SENSOR_LIGHT_DATA">>
    IN  [id |-> Channel.sensor,
         sensor_source_service |->
            [sensors |-> [i \in DOMAIN types |-> [sensor_type |-> Fields!SensorType[types[i]]]]]]

Codec == [VIDEO_800x480 |-> [w |-> 800, h |-> 480], VIDEO_1280x720 |-> [w |-> 1280, h |-> 720],
          VIDEO_1920x1080 |-> [w |-> 1920, h |-> 1080]]

\* Mutant: a screen as large as the next codec is left with the one before.
CodecForAbove(size) ==
    IF size.w > 1920 \/ size.h > 1080 THEN "VIDEO_1920x1080"
    ELSE IF size.w > 800 \/ size.h > 480 THEN "VIDEO_1280x720" ELSE "VIDEO_800x480"

\* The codec of at least the size of the screen, if there is one.
CodecFor(size) ==
    IF size.w >= 1920 \/ size.h >= 1080 THEN "VIDEO_1920x1080"
    ELSE IF size.w > 800 \/ size.h > 480 THEN "VIDEO_1280x720" ELSE "VIDEO_800x480"

VideoService(size) ==
    LET codec == CodecFor(size)
        Margin(of, screen) == IF screen < of THEN of - screen ELSE 0
        config == [codec_resolution |-> Fields!VideoCodecResolutionType[codec],
                   frame_rate |-> Fields!VideoFrameRateType.VIDEO_FPS_30,
                   width_margin |-> Margin(Codec[codec].w, size.w),
                   height_margin |-> Margin(Codec[codec].h, size.h),
                   density |-> 160, decoder_additional_depth |-> 0]
    IN  [id |-> Channel.video,
         media_sink_service |->
            [available_type |-> Fields!MediaCodecType.MEDIA_CODEC_VIDEO_H264_BP,
             video_configs |-> <<config>>, available_while_in_call |-> TRUE]]

Audio(rate, channels) == [sampling_rate |-> rate, number_of_bits |-> 16, number_of_channels |-> channels]

\* Audio is never compressed: compressed_audio is not set anywhere.
AudioService(channel, type, config, in_call) ==
    [id |-> channel,
     media_sink_service |->
        [available_type |-> Fields!MediaCodecType.MEDIA_CODEC_AUDIO_PCM,
         audio_type |-> Fields!AudioStreamType[type],
         audio_configs |-> <<config>>, available_while_in_call |-> in_call]]

MicService ==
    [id |-> Channel.microphone,
     media_source_service |->
        [available_type |-> Fields!MediaCodecType.MEDIA_CODEC_AUDIO_PCM, audio_config |-> Audio(16000, 1)]]

BluetoothServiceOf(mac) ==
    IF mac THEN <<[id |-> Channel.bluetooth,
                   bluetooth_service |->
                      [car_address |-> "mac",
                       supported_pairing_methods |->
                          <<Fields!BluetoothPairingMethod.BLUETOOTH_PAIRING_NUMERIC_COMPARISON,
                            Fields!BluetoothPairingMethod.BLUETOOTH_PAIRING_PIN>>]]>>
           ELSE << >>

Services(list, with) ==
    <<InputService(list, with), SensorService, VideoService(with),
      AudioService(Channel.media_audio, "AUDIO_STREAM_MEDIA", Audio(48000, 2), FALSE),
      AudioService(Channel.audio1, "AUDIO_STREAM_GUIDANCE", Audio(16000, 1), TRUE), MicService>>
    \o BluetoothServiceOf(with.mac)
    \o <<[id |-> Channel.media_status, media_playback_service |-> Unset],
         [id |-> Channel.notification, generic_notification_service |-> Unset],
         [id |-> Channel.navigation,
          navigation_status_service |->
             [minimum_interval_ms |-> 750,
              type_ |-> Fields!NavigationStatusService_InstrumentClusterType.ENUM]]>>

\* The icons are sent as a request, and without them if their file is missing.
Discovery(list, with) ==
    <<Message(Channel.control, Control.MESSAGE_SERVICE_DISCOVERY_REQUEST, Wire!ServiceDiscoveryRequest,
              [label_text |-> "AidF",
               small_icon |-> "icon", medium_icon |-> "icon", large_icon |-> "icon"]),
      Message(Channel.control, Control.MESSAGE_SERVICE_DISCOVERY_RESPONSE, Wire!ServiceDiscoveryResponse,
              [services |-> Services(list, with),
               head_unit_make |-> "AidF", head_unit_model |-> "AIA-RPI100",
               can_play_native_media_during_vr |-> TRUE, display_name |-> "AidF"])>>

-----------------------------------------------------------------------------
(* The phone.                                                              *)

\* Which message a phone takes a code for, on each channel.
MediaChannels == {Channel.video, Channel.media_audio, Channel.audio1, Channel.audio2, Channel.microphone}
Both(fields, struct) == [fields |-> fields, struct |-> struct]
ReadAs(channel, code) ==
    CASE code = Control.MESSAGE_SERVICE_DISCOVERY_REQUEST ->
                    Both(Wire!ServiceDiscoveryRequest, Fields!ServiceDiscoveryRequest)
      [] code = Control.MESSAGE_SERVICE_DISCOVERY_RESPONSE ->
                    Both(Wire!ServiceDiscoveryResponse, Fields!ServiceDiscoveryResponse)
      [] code = Control.MESSAGE_CHANNEL_OPEN_RESPONSE ->
                    Both(Wire!ChannelOpenResponse, Fields!ChannelOpenResponse)
      [] code = Control.MESSAGE_PING_REQUEST -> Both(Wire!PingRequest, Fields!PingRequest)
      [] code = Control.MESSAGE_PING_RESPONSE -> Both(Wire!PingResponse, Fields!PingResponse)
      [] code = Control.MESSAGE_NAV_FOCUS_NOTIFICATION ->
                    Both(Wire!NavFocusNotification, Fields!NavFocusNotification)
      [] code = Control.MESSAGE_AUDIO_FOCUS_NOTIFICATION ->
                    Both(Wire!AudioFocusNotification, Fields!AudioFocusNotification)
      [] code = Control.MESSAGE_BYEBYE_RESPONSE -> Both(<< >>, << >>)
      [] channel \in MediaChannels ->
            (CASE code = MediaCode.MEDIA_MESSAGE_CONFIG -> Both(Wire!Config, Fields!Config)
               [] code = MediaCode.MEDIA_MESSAGE_ACK -> Both(Wire!Ack, Fields!Ack)
               [] code = MediaCode.MEDIA_MESSAGE_VIDEO_FOCUS_NOTIFICATION ->
                    Both(Wire!VideoFocusNotification, Fields!VideoFocusNotification))
      [] channel = Channel.touch ->
            (CASE code = InputCode.INPUT_MESSAGE_INPUT_REPORT ->
                    Both(Wire!InputReport, Fields!InputReport)
               [] code = InputCode.INPUT_MESSAGE_KEY_BINDING_RESPONSE ->
                    Both(Wire!KeyBindingResponse, Fields!KeyBindingResponse))
      [] channel = Channel.sensor ->
            (CASE code = SensorCode.SENSOR_MESSAGE_RESPONSE ->
                    Both(Wire!SensorResponse, Fields!SensorResponse)
               [] code = SensorCode.SENSOR_MESSAGE_BATCH -> Both(Wire!SensorBatch, Fields!SensorBatch))
Read(m) == Merge(ReadAs(m.channel, m.code).fields, Unset, m.bytes)

\* What a phone knows of a sensor is the set of what it was told last.
Unknown == [night |-> {}, lights |-> {}, speed |-> {}, status |-> {}, place |-> {}]
NewPhone == [here |-> FALSE, linked |-> FALSE, discovered |-> FALSE, opened |-> FALSE,
             list |-> {}, keys |-> {}, codec |-> [w |-> 0, h |-> 0], picture |-> [w |-> 0, h |-> 0],
             heard |-> Unknown]

Newest(batch, data, value, old) == IF data \in DOMAIN batch THEN {Last(batch[data])[value]} ELSE old
HearBatch(h, b) ==
    [night  |-> Newest(b, "night_mode_data", "night_mode", h.night),
     lights |-> Newest(b, "light_data", "head_light_state", h.lights),
     speed  |-> Newest(b, "speed_data", "speed_e3", h.speed),
     status |-> Newest(b, "driving_status_data", "status", h.status),
     place  |-> Newest(b, "location_data", "latitude_e7", h.place)]

Of(services, name) == SelectSeq(services, LAMBDA s : name \in DOMAIN s)
HearServices(p, m) ==
    LET services == Read(m).services
        input == Of(services, "input_source_service")[1].input_source_service
        screen == SelectSeq(services, LAMBDA s : s.id = Channel.video)[1]
        video == screen.media_sink_service.video_configs[1]
        Resolution == Fields!VideoCodecResolutionType
        codec == Codec[CHOOSE c \in DOMAIN Codec : Resolution[c] = video.codec_resolution]
    IN  [p EXCEPT !.discovered = TRUE, !.list = ctx.buttons,
                  !.keys = ToSet(input.keycodes_supported),
                  !.codec = codec,
                  !.picture = [w |-> codec.w - video.width_margin, h |-> codec.h - video.height_margin]]

Hear(p, m) ==
    IF ~m.complete THEN p
    ELSE IF m.code = Control.MESSAGE_SERVICE_DISCOVERY_RESPONSE THEN HearServices(p, m)
    ELSE IF m.channel = Channel.sensor /\ m.code = SensorCode.SENSOR_MESSAGE_BATCH
           THEN [p EXCEPT !.heard = HearBatch(@, Read(m))]
    ELSE IF m.channel = Channel.sensor /\ m.code = Control.MESSAGE_CHANNEL_OPEN_RESPONSE
           THEN [p EXCEPT !.opened = TRUE]
    ELSE p

-----------------------------------------------------------------------------
(* What is written reaches the phone the connection was made with; a write *)
(* to one that has gone ends the connection.                               *)

Write(messages, a) ==
    LET live == a.connected /\ phone.linked
    IN  /\ sent' = IF live THEN messages ELSE << >>
        /\ phone' = IF live THEN FoldLeft(Hear, phone, messages) ELSE phone
        /\ aap' = [a EXCEPT !.connected = @ /\ (phone.linked \/ messages = << >>)]

Silent == sent' = << >> /\ UNCHANGED <<phone, aap>>

-----------------------------------------------------------------------------
(* AapHandler::process, in the round and again after bus messages.         *)

Serving == pc \in {"serve", "again"}
Returns == pc' = "handle"

\* More may be read before process() returns while the audio is selected.
MayReturn == Returns \/ (ctx.selected /\ UNCHANGED pc)

\* The handshake that follows is in AapHandler.
Connect ==
    /\ Serving /\ ~aap.connected /\ phone.here
    /\ aap' = [aap EXCEPT !.connected = TRUE]
    /\ phone' = [phone EXCEPT !.linked = TRUE]
    /\ ctx' = [ctx EXCEPT !.android = TRUE]
    /\ sent' = << >>
    /\ MayReturn
    /\ UNCHANGED <<snap, setup, between, counts>>

\* stop_connection; the session numbers stay.
NotConnected ==
    /\ Serving /\ ~aap.connected
    /\ aap' = [aap EXCEPT !.had_sdr = FALSE, !.first_video = FALSE]
    /\ ctx' = [ctx EXCEPT !.android = FALSE]
    /\ sent' = << >>
    /\ Returns
    /\ UNCHANGED <<snap, setup, phone, between, counts>>

\* Nothing is there to read, or the phone has gone; a ping may be due.
Quiet(due) ==
    /\ Serving /\ aap.connected
    /\ IF phone.linked
         THEN Write(IF due THEN <<Message(Channel.control, Control.MESSAGE_PING_REQUEST, Wire!PingRequest,
                                          [timestamp |-> Now])>>
                           ELSE << >>, aap)
         ELSE /\ aap' = [aap EXCEPT !.connected = FALSE]
              /\ sent' = << >> /\ UNCHANGED phone
    /\ Returns
    /\ UNCHANGED <<ctx, snap, setup, between, counts>>

\* A message of the phone, with a field of a later version before the others.
NewField == Entry(99, 0, 0)
Told(fields, message) == Merge(fields, Unset, <<NewField>> \o BytesOf(fields, message))

Request(kind) ==
    /\ Serving /\ aap.connected /\ phone.linked
    /\ kind \in Asked /\ asks < MaxAsk
    /\ phone.discovered \/ kind = "discovery"
    /\ asks' = asks + 1
    /\ MayReturn
    /\ UNCHANGED <<snap, setup, bus, plugs>>

\* A field of the phone's that is set to one of some values, or is not.
Maybe(name, values) == {Unset} \union {name :> v : v \in values}

\* Answered once a connection.
ServiceDiscovery ==
    /\ Request("discovery")
    /\ Write(IF aap.had_sdr THEN << >> ELSE Discovery(ctx.buttons, setup), [aap EXCEPT !.had_sdr = TRUE])
    /\ UNCHANGED <<ctx, between>>

AudioFocus ==
    /\ Request("audio_focus")
    /\ \E m \in Maybe("request", {1, 4, 99}) :
        LET request == Get(Told(Wire!AudioFocusRequestNotification, m),
                           Fields!AudioFocusRequestNotification, "request")
            state == IF request = Fields!AudioFocusRequestType.AUDIO_FOCUS_RELEASE
                       THEN "AUDIO_FOCUS_STATE_LOSS" ELSE "AUDIO_FOCUS_STATE_GAIN"
        IN  Write(<<Message(Channel.control, Control.MESSAGE_AUDIO_FOCUS_NOTIFICATION,
                            Wire!AudioFocusNotification,
                            [focus_state |-> Fields!AudioFocusStateType[state]])>>, aap)
    /\ UNCHANGED <<ctx, between>>

VideoFocusRequest ==
    /\ Request("video_focus")
    /\ \E m \in Maybe("mode", {1, 2, 99}) :
        Write(<<VideoFocus(Get(Told(Wire!VideoFocusRequestNotification, m),
                               Fields!VideoFocusRequestNotification, "mode"), FALSE)>>, aap)
    /\ UNCHANGED <<ctx, between>>

Opened(channel) == Message(channel, Control.MESSAGE_CHANNEL_OPEN_RESPONSE, Wire!ChannelOpenResponse,
                           [status |-> Fields!MessageStatus.STATUS_SUCCESS])

\* Mutant: the sensors are sent only if the request comes on their own channel.
OpeningOwnChannel(channel, service) ==
    <<Opened(channel)>>
    \o (IF service # channel THEN <<Opened(service)>> ELSE << >>)
    \o (IF channel = Channel.sensor THEN <<OpenBatch(ctx)>> ELSE << >>)

\* handle_channel_open_request.
Opening(channel, service) ==
    <<Opened(channel)>>
    \o (IF service # channel THEN <<Opened(service)>> ELSE << >>)
    \o (IF Channel.sensor \in {channel, service} THEN <<OpenBatch(ctx)>> ELSE << >>)

\* Values the phone is told that are not the ones the round will compare with.
Between == IF pc # "again" THEN {}
           ELSE {v \in {"lights", "speed"} : snap[v] # ctx[v]}

OpenChannel ==
    /\ Request("open")
    /\ \E channel, service \in {Channel.touch, Channel.sensor} :
        LET m == [priority |-> 0, service_id |-> service]
            asked == Get(Told(Wire!ChannelOpenRequest, m), Fields!ChannelOpenRequest, "service_id")
        IN  /\ Write(Opening(channel, asked), aap)
            /\ between' = IF Channel.sensor \in {channel, asked} THEN Between ELSE between
    /\ UNCHANGED ctx

PingRequest ==
    /\ Request("ping")
    /\ Write(<<Message(Channel.touch, Control.MESSAGE_PING_RESPONSE, Wire!PingResponse,
                       [timestamp |-> Now])>>, aap)
    /\ UNCHANGED <<ctx, between>>

NavFocus ==
    /\ Request("nav_focus")
    /\ Write(<<Message(Channel.navigation, Control.MESSAGE_NAV_FOCUS_NOTIFICATION, Wire!NavFocusNotification,
                       [focus_type |-> Fields!NavFocusType.NAV_FOCUS_PROJECTED])>>, aap)
    /\ UNCHANGED <<ctx, between>>

\* Whether the phone wants to be asked back is only kept if the socket thread does not
\* hold the Context just then.
Byebye ==
    /\ Request("byebye")
    /\ Write(<<Out(Channel.touch, Control.MESSAGE_BYEBYE_RESPONSE, << >>, Unset, TRUE)>>, aap)
    /\ \E locked \in BOOLEAN : ctx' = [ctx EXCEPT !.req_off = ~locked]
    /\ UNCHANGED between

\* A phone that plays, or says that it has stopped, is told to pause unless its
\* audio is selected.
Playback ==
    /\ Request("playback")
    /\ \E m \in Maybe("state", {1, 2, 3}) :
        LET state == Get(Told(Wire!MediaPlaybackStatus, m), Fields!MediaPlaybackStatus, "state")
            State == Fields!MediaPlaybackStatus_State
        IN  Write(IF ~ctx.selected /\ state \in {State.PLAYING, State.STOPPED}
                    THEN Tap(Key.KEYCODE_MEDIA_PAUSE) ELSE << >>, aap)
    /\ UNCHANGED <<ctx, between>>

Binding ==
    /\ Request("binding")
    /\ Write(<<Message(Channel.touch, InputCode.INPUT_MESSAGE_KEY_BINDING_RESPONSE, Wire!KeyBindingResponse,
                       [status |-> 0])>>, aap)
    /\ UNCHANGED <<ctx, between>>

SensorRequest ==
    /\ Request("sensor")
    /\ Write(<<Message(Channel.sensor, SensorCode.SENSOR_MESSAGE_RESPONSE, Wire!SensorResponse,
                       [status |-> Fields!MessageStatus.STATUS_SUCCESS])>>, aap)
    /\ UNCHANGED <<ctx, between>>

\* The first set-up of the video also gives it the screen; the batch of sensors that
\* should follow has not all it needs, and is not sent.
SetUp(channel, first) ==
    <<Message(channel, MediaCode.MEDIA_MESSAGE_CONFIG, Wire!Config,
              [status |-> Fields!Config_Status.STATUS_READY, max_unacked |-> 1,
               configuration_indices |-> <<0>>])>>
    \o (IF first THEN <<VideoFocus(Fields!VideoFocusMode.VIDEO_FOCUS_PROJECTED, TRUE),
                        Batch([location_data |-> <<[speed_e3 |-> 0]>>])>>
                 ELSE << >>)

\* Each message on a media channel is acknowledged before it is looked at.
Setup ==
    /\ Request("setup")
    /\ \E channel \in {Channel.video, Channel.audio1} :
        LET first == channel = Channel.video /\ ~aap.first_video
        IN  Write(<<Ack(channel, aap.channel_session)>> \o SetUp(channel, first),
                  [aap EXCEPT !.first_video = @ \/ first])
    /\ UNCHANGED <<ctx, between>>

\* Mutant: a start without a session leaves a number no session has.
SessionOrNone(started) == IF "session" \in DOMAIN started THEN started.session ELSE -1

SessionOf(started) == IF "session" \in DOMAIN started THEN started.session ELSE 0

StartMedia ==
    /\ Request("start")
    /\ \E channel \in {Channel.video, Channel.audio1}, m \in Maybe("session", {1}) :
        Write(<<Ack(channel, aap.channel_session)>>,
              [aap EXCEPT !.channel_session[channel] = SessionOf(Told(Wire!MediaStartRequest, m))])
    /\ UNCHANGED <<ctx, between>>

StopMedia ==
    /\ Request("stop")
    /\ \E channel \in {Channel.video, Channel.audio1} :
        /\ Write(<<Ack(channel, aap.channel_session)>>, [aap EXCEPT !.channel_session[channel] = 0])
        /\ \E locked \in BOOLEAN :
              ctx' = IF channel = Channel.video THEN [ctx EXCEPT !.req_off = ~locked] ELSE ctx
    /\ UNCHANGED between

Data ==
    /\ Request("data")
    /\ \E channel \in {Channel.video, Channel.audio1} : Write(<<Ack(channel, aap.channel_session)>>, aap)
    /\ UNCHANGED <<ctx, between>>

-----------------------------------------------------------------------------
(* A round of process(): the phones, the messages of the bus one by one,   *)
(* and at the end what has changed since its start.                        *)

Values == {"lights", "speed", "place"}

Snapshot ==
    /\ pc = "top"
    /\ snap' = [v \in Values |-> ctx[v]]
    /\ pc' = IF ctx.acked THEN "serve" ELSE "handle"
    /\ sent' = << >>
    /\ UNCHANGED <<ctx, setup, aap, phone, between, counts>>

\* The phones get another turn after a message if they were on the screen, and
\* after a button the handler took.
Bus(answered) ==
    /\ pc = "handle" /\ bus < MaxBus
    /\ bus' = bus + 1
    /\ pc' = "handle" \/ (pc' = "again" /\ (ctx'.acked \/ (answered /\ aap'.connected)))
    /\ UNCHANGED <<snap, setup, between, asks, plugs>>

Night ==
    /\ ctx' = [ctx EXCEPT !.night = ~@]
    /\ Write(<<NightBatch(ctx')>>, aap)
    /\ Bus(FALSE)

\* Lights, speed and place are only noted.
Note(name, values) ==
    /\ \E v \in values : ctx' = [ctx EXCEPT ![name] = v]
    /\ Silent
    /\ Bus(FALSE)
Lights == Note("lights", {"off", "low", "high"})
Speed == Note("speed", {0, 1})
Position == Note("place", {0, 1})

ButtonList ==
    /\ \E list \in Lists : ctx' = [ctx EXCEPT !.buttons = list, !.acked = TRUE]
    /\ Silent
    /\ Bus(FALSE)

\* The radio selects or deselects the phone.
Source(on) ==
    /\ ctx' = [ctx EXCEPT !.selected = on]
    /\ Write(IF ctx.android THEN Tap(IF on THEN Key.KEYCODE_MEDIA_PLAY ELSE Key.KEYCODE_MEDIA_PAUSE)
                            ELSE << >>, aap)
    /\ Bus(FALSE)

\* The screen shows the phone again after it was told that the phone had left.
StartRequest ==
    /\ ctx.android /\ ctx.req_off
    /\ ctx' = [ctx EXCEPT !.req_off = FALSE]
    /\ Write(Tap(Key.KEYCODE_HOME), aap)
    /\ Bus(FALSE)

AudioButton ==
    /\ ctx.android /\ ctx.selected /\ "audio" \in ctx.buttons
    /\ Write(Tap(Key.KEYCODE_MUSIC), aap)
    /\ UNCHANGED ctx
    /\ Bus(TRUE)

PlayPause ==
    /\ ctx.android /\ ctx.selected
    /\ Write(Tap(Key.KEYCODE_MEDIA_PLAY_PAUSE), aap)
    /\ UNCHANGED ctx
    /\ Bus(TRUE)

\* The buttons a screen with this list has.
Pressable == {"enter", "back", "next", "prev"}
             \union (ctx.buttons \intersect {"home", "menu", "phone", "map"})
             \union (IF "vertical" \in ctx.buttons THEN {"up", "down"} ELSE {})
             \union (IF "horizontal" \in ctx.buttons THEN {"left", "right"} ELSE {})

KeyOf == [back |-> Key.KEYCODE_BACK, menu |-> Key.KEYCODE_SETTINGS, phone |-> Key.KEYCODE_CALL,
          map |-> Key.KEYCODE_NAVIGATION,
          next |-> Key.KEYCODE_MEDIA_NEXT, prev |-> Key.KEYCODE_MEDIA_PREVIOUS,
          up |-> Key.KEYCODE_DPAD_UP, down |-> Key.KEYCODE_DPAD_DOWN, left |-> Key.KEYCODE_DPAD_LEFT,
          right |-> Key.KEYCODE_DPAD_RIGHT, enter |-> Key.KEYCODE_DPAD_CENTER, home |-> Key.KEYCODE_HOME]

Has(button) == button \in ctx.buttons
FourWay == Has("vertical") /\ Has("horizontal")
NoWay == ~Has("vertical") /\ ~Has("horizontal")

\* Without a knob one pair of the toggle stands in for it; with a knob, a single
\* pair moves up and down.
Turns(b) == ~Has("knob") /\ (b \in {"left", "right"} \/ (b \in {"up", "down"} /\ ~FourWay))
KeyFor(b) == IF b \in {"left", "right"} /\ ~FourWay THEN KeyOf[IF b = "left" THEN "up" ELSE "down"]
                                                    ELSE KeyOf[b]

\* Enter and home are sent when they are released, unless they were held; on some
\* screens enter is sent as it is.
OnRelease(b) == b = "home" \/ (b = "enter" /\ ~FourWay /\ ~(NoWay /\ ~Has("knob")))
KeptDown(b) == IF b = "home" THEN aap.home_hold ELSE aap.enter_hold

ButtonMessages(b, state) ==
    IF OnRelease(b) THEN IF state = "release" /\ ~KeptDown(b) THEN Tap(KeyOf[b]) ELSE << >>
    ELSE IF Turns(b) THEN IF state = "press" THEN <<Turn(b \in {"right", "down"})>> ELSE << >>
    ELSE SendButton(KeyFor(b), state)

Button ==
    \E b \in Pressable, state \in {"press", "hold", "release"} :
        /\ ctx.android
        /\ LET Hold(flag, of) == IF b = of /\ OnRelease(b) /\ state # "press" THEN state = "hold" ELSE flag
           IN  Write(ButtonMessages(b, state),
                     [aap EXCEPT !.home_hold = Hold(@, "home"), !.enter_hold = Hold(@, "enter")])
        /\ UNCHANGED ctx
        /\ Bus(TRUE)

Knob ==
    /\ ctx.android /\ Has("knob")
    /\ \E cw \in BOOLEAN, steps \in 1..2 : Write([i \in 1..steps |-> Turn(cw)], aap)
    /\ UNCHANGED ctx
    /\ Bus(TRUE)

\* The end of the round.
Compare ==
    /\ pc = "handle"
    /\ LET changed == {v \in Values : snap[v] # ctx[v]}
           If(v, m) == IF v \in changed THEN <<m>> ELSE << >>
       IN  IF ctx.android
             THEN /\ Write(If("lights", LightBatch(ctx)) \o If("speed", SpeedBatch(ctx))
                           \o If("place", PlaceBatch(ctx)), aap)
                  /\ between' = between \ changed
             ELSE Silent /\ UNCHANGED between
    /\ pc' = "top"
    /\ UNCHANGED <<ctx, snap, setup, counts>>

Plug ==
    /\ ~phone.here /\ plugs < MaxPlug
    /\ plugs' = plugs + 1
    /\ phone' = [NewPhone EXCEPT !.here = TRUE]
    /\ sent' = << >>
    /\ UNCHANGED <<pc, ctx, snap, setup, aap, between, bus, asks>>

Unplug ==
    /\ phone.here
    /\ phone' = NewPhone
    /\ sent' = << >>
    /\ UNCHANGED <<pc, ctx, snap, setup, aap, between, counts>>

-----------------------------------------------------------------------------

Init ==
    /\ pc = "top"
    /\ ctx = [android |-> FALSE, selected |-> FALSE, req_off |-> FALSE, acked |-> FALSE,
              night |-> FALSE, lights |-> "off", speed |-> 0, place |-> 0, buttons |-> {}]
    /\ snap = [v \in Values |-> ctx[v]]
    /\ setup \in Setups
    /\ aap = [connected |-> FALSE, had_sdr |-> FALSE, first_video |-> FALSE,
              channel_session |-> [c \in MediaChannels |-> 0], enter_hold |-> FALSE, home_hold |-> FALSE]
    /\ phone = NewPhone
    /\ sent = << >>
    /\ between = {}
    /\ bus = 0 /\ asks = 0 /\ plugs = 0

Requests ==
    \/ ServiceDiscovery \/ AudioFocus \/ VideoFocusRequest \/ OpenChannel \/ PingRequest
    \/ NavFocus \/ Byebye \/ Playback \/ Binding \/ SensorRequest \/ Setup \/ StartMedia \/ StopMedia
    \/ Data

BusMessages ==
    \/ Night \/ Lights \/ Speed \/ Position \/ ButtonList
    \/ \E on \in BOOLEAN : Source(on)
    \/ StartRequest \/ AudioButton \/ PlayPause \/ Button \/ Knob

Next ==
    \/ Snapshot \/ Connect \/ NotConnected
    \/ \E due \in BOOLEAN : Quiet(due)
    \/ Requests \/ BusMessages \/ Compare \/ Plug \/ Unplug

Spec == Init /\ [][Next]_vars

-----------------------------------------------------------------------------
(* Properties.                                                             *)

Complete == SelectSeq(sent, LAMBDA m : m.complete)
Each(P(_)) == \A i \in DOMAIN Complete : P(Complete[i])
IsBatch(m) == m.channel = Channel.sensor /\ m.code = SensorCode.SENSOR_MESSAGE_BATCH

\* The types of the variables; session numbers are what a phone may give, and the
\* fields of what is sent have the types and enumerators of their structs.
TypeOK ==
    /\ pc \in {"top", "serve", "handle", "again"}
    /\ ctx \in [android : BOOLEAN, selected : BOOLEAN, req_off : BOOLEAN, acked : BOOLEAN,
                night : BOOLEAN, lights : {"off", "low", "high"}, speed : Nat, place : Int,
                buttons : Lists \union {{}}]
    /\ DOMAIN snap = Values
    /\ setup \in Setups
    /\ aap \in [connected : BOOLEAN, had_sdr : BOOLEAN, first_video : BOOLEAN,
                channel_session : [MediaChannels -> Nat], enter_hold : BOOLEAN, home_hold : BOOLEAN]
    /\ DOMAIN phone = DOMAIN NewPhone
    /\ \A i \in DOMAIN sent :
        LET known == ReadAs(sent[i].channel, sent[i].code)
        IN  Agree(known.fields, known.struct) /\ Fits(Fields!Part(known.struct), sent[i].meant)
    /\ between \subseteq Values
    /\ bus \in 0..MaxBus /\ asks \in 0..MaxAsk /\ plugs \in 0..MaxPlug

\* What AMirror has to say is complete, so that write_message does not drop it.  The
\* one exception is the batch of the first video set-up, whose LocationData
\* has a speed but no latitude and longitude: it is never sent.
AllWritten ==
    \A i \in DOMAIN sent :
        LET m == sent[i]
        IN  m.complete \/ (IsBatch(m) /\ DOMAIN m.meant = {"location_data"}
                           /\ m.meant.location_data[1] = [speed_e3 |-> 0])

\* A phone that knows the protocol reads from the bytes what AMirror means: by the
\* channel and the code it takes the right message for them, and every field
\* arrives, also of the messages encoded by hand or sent as another type.
ReadsAsMeant == Each(LAMBDA m : Read(m) = m.meant)

\* At the end of a round a phone that has opened the sensor channel knows the values
\* the car has now, whatever changed before, while or after it was opened.
\* "between" are those that were told to the phone between two messages of a
\* round and changed back by its end: process() compares with the start of
\* the round only, and the phone keeps the wrong value until the next change.
SensorsTold ==
    pc = "top" /\ phone.linked /\ phone.opened =>
        LET h == phone.heard
        IN  /\ h.night = {ctx.night}
            /\ "lights" \in between \/ h.lights = {LightDataOf(ctx)[1].head_light_state}
            /\ "speed" \in between \/ (h.speed = {ctx.speed} /\ h.status = {StatusData(ctx)[1].status})
            /\ h.place \subseteq {ctx.place}

\* A phone is sent no key that was not announced to it, unless the screen has sent
\* another list of buttons since: the service discovery is answered once.
\* Home is sent without a button to get the phone's picture back.
KeySent(m) == CASE "key_event" \in DOMAIN m.meant -> {Read(m).key_event.keys[1].keycode}
                [] "relative_event" \in DOMAIN m.meant -> {Read(m).relative_event.data[1].keycode}
                [] OTHER -> {}
KeysAnnounced ==
    phone.discovered /\ phone.list = ctx.buttons =>
        Each(LAMBDA m : KeySent(m) \subseteq phone.keys \union {Key.KEYCODE_HOME})

\* The phone draws over the whole screen: what codec and margins leave is the screen,
\* or the part of it that the largest codec covers.  (Between 1280x720
\* and 1920x1080 the smaller codec is taken.)
AtMost(a, b) == IF a < b THEN a ELSE b
ScreenFits ==
    phone.discovered =>
        LET size == setup
            between_codecs == size.w < 1920 /\ size.h < 1080 /\ (size.w > 1280 \/ size.h > 720)
        IN  between_codecs \/ phone.picture = [w |-> AtMost(size.w, 1920), h |-> AtMost(size.h, 1080)]

=============================================================================
