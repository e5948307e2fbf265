------------------------------- MODULE AapFields -------------------------------
(***************************************************************************)
(* The messages of Android Auto as AMirror's code sees them: the structs   *)
(* of aap/protos/protos.rs that AapHandler fills in or reads, with those   *)
(* they are made of, and what a getter returns for a field that is not     *)
(* there.  How a message goes over the wire is in AapWire.                 *)
(***************************************************************************)

EXTENDS Integers

(* Kinds of fields.  A getter of a field that is missing returns the       *)
(* default; one of an enumerator that is not known does too.               *)
Number(width) == [kind |-> width, default |-> 0]
Int32 == Number("int32")
Int64 == Number("int64")
Uint32 == Number("uint32")
Uint64 == Number("uint64")
Bool == [kind |-> "bool", default |-> FALSE]
String == [kind |-> "string", default |-> ""]
Bytes == [kind |-> "bytes", default |-> ""]
OneOf(values) == [kind |-> "enum", values |-> values]
Enum(values, default) == [kind |-> "enum", values |-> values, default |-> values[default]]
Part(message) == [kind |-> "message", fields |-> message]
Many(of) == [kind |-> "many", of |-> of, default |-> << >>]
None == << >>

-----------------------------------------------------------------------------
(* Enumerations.  Of KeyCode only the keys that AMirror uses.             *)

AudioFocusRequestType == [AUDIO_FOCUS_GAIN |-> 1, AUDIO_FOCUS_GAIN_TRANSIENT |-> 2,
                          AUDIO_FOCUS_GAIN_TRANSIENT_MAY_DUCK |-> 3, AUDIO_FOCUS_RELEASE |-> 4]
AudioFocusStateType == [AUDIO_FOCUS_STATE_INVALID |-> 0, AUDIO_FOCUS_STATE_GAIN |-> 1,
                        AUDIO_FOCUS_STATE_GAIN_TRANSIENT |-> 2, AUDIO_FOCUS_STATE_LOSS |-> 3,
                        AUDIO_FOCUS_STATE_LOSS_TRANSIENT_CAN_DUCK |-> 4,
                        AUDIO_FOCUS_STATE_LOSS_TRANSIENT |-> 5,
                        AUDIO_FOCUS_STATE_GAIN_MEDIA_ONLY |-> 6,
                        AUDIO_FOCUS_STATE_GAIN_TRANSIENT_GUIDANCE_ONLY |-> 7]
AudioStreamType == [AUDIO_STREAM_GUIDANCE |-> 1, AUDIO_STREAM_SYSTEM_AUDIO |-> 2,
                    AUDIO_STREAM_MEDIA |-> 3, AUDIO_STREAM_TELEPHONY |-> 4]
BluetoothPairingMethod == [BLUETOOTH_PAIRING_UNAVAILABLE |-> -1, BLUETOOTH_PAIRING_OOB |-> 1,
                           BLUETOOTH_PAIRING_NUMERIC_COMPARISON |-> 2,
                           BLUETOOTH_PAIRING_PASSKEY_ENTRY |-> 3, BLUETOOTH_PAIRING_PIN |-> 4]
ControlMessageType == [MESSAGE_VERSION_REQUEST |-> 1, MESSAGE_VERSION_RESPONSE |-> 2,
                       MESSAGE_ENCAPSULATED_SSL |-> 3, MESSAGE_AUTH_COMPLETE |-> 4,
                       MESSAGE_SERVICE_DISCOVERY_REQUEST |-> 5,
                       MESSAGE_SERVICE_DISCOVERY_RESPONSE |-> 6,
                       MESSAGE_CHANNEL_OPEN_REQUEST |-> 7, MESSAGE_CHANNEL_OPEN_RESPONSE |-> 8,
                       MESSAGE_CHANNEL_CLOSE_NOTIFICATION |-> 9, MESSAGE_PING_REQUEST |-> 11,
                       MESSAGE_PING_RESPONSE |-> 12, MESSAGE_NAV_FOCUS_REQUEST |-> 13,
                       MESSAGE_NAV_FOCUS_NOTIFICATION |-> 14, MESSAGE_BYEBYE_REQUEST |-> 15,
                       MESSAGE_BYEBYE_RESPONSE |-> 16, MESSAGE_VOICE_SESSION_NOTIFICATION |-> 17,
                       MESSAGE_AUDIO_FOCUS_REQUEST |-> 18, MESSAGE_AUDIO_FOCUS_NOTIFICATION |-> 19,
                       MESSAGE_CAR_CONNECTED_DEVICES_REQUEST |-> 20,
                       MESSAGE_CAR_CONNECTED_DEVICES_RESPONSE |-> 21,
                       MESSAGE_USER_SWITCH_REQUEST |-> 22,
                       MESSAGE_BATTERY_STATUS_NOTIFICATION |-> 23,
                       MESSAGE_CALL_AVAILABILITY_STATUS |-> 24,
                       MESSAGE_USER_SWITCH_RESPONSE |-> 25,
                       MESSAGE_SERVICE_DISCOVERY_UPDATE |-> 26, MESSAGE_UNEXPECTED_MESSAGE |-> 255,
                       MESSAGE_FRAMING_ERROR |-> 65535]
DisplayType == [DISPLAY_TYPE_MAIN |-> 0, DISPLAY_TYPE_CLUSTER |-> 1, DISPLAY_TYPE_AUXILIARY |-> 2]
DriverPosition == [DRIVER_POSITION_LEFT |-> 0, DRIVER_POSITION_RIGHT |-> 1,
                   DRIVER_POSITION_CENTER |-> 2, DRIVER_POSITION_UNKNOWN |-> 3]
DrivingStatus == [DRIVE_STATUS_UNRESTRICTED |-> 0, DRIVE_STATUS_NO_VIDEO |-> 1,
                  DRIVE_STATUS_NO_KEYBOARD_INPUT |-> 2, DRIVE_STATUS_NO_VOICE_INPUT |-> 4,
                  DRIVE_STATUS_NO_CONFIG |-> 8, DRIVE_STATUS_LIMIT_MESSAGE_LEN |-> 16]
EvConnectorType == [EV_CONNECTOR_TYPE_UNKNOWN |-> 0, EV_CONNECTOR_TYPE_J1772 |-> 1,
                    EV_CONNECTOR_TYPE_MENNEKES |-> 2, EV_CONNECTOR_TYPE_CHADEMO |-> 3,
                    EV_CONNECTOR_TYPE_COMBO_1 |-> 4, EV_CONNECTOR_TYPE_COMBO_2 |-> 5,
                    EV_CONNECTOR_TYPE_TESLA_ROADSTER |-> 6, EV_CONNECTOR_TYPE_TESLA_HPWC |-> 7,
                    EV_CONNECTOR_TYPE_TESLA_SUPERCHARGER |-> 8, EV_CONNECTOR_TYPE_GBT |-> 9,
                    EV_CONNECTOR_TYPE_OTHER |-> 101]
FeedbackEvent == [FEEDBACK_SELECT |-> 1, FEEDBACK_FOCUS_CHANGE |-> 2, FEEDBACK_DRAG_SELECT |-> 3,
                  FEEDBACK_DRAG_START |-> 4, FEEDBACK_DRAG_END |-> 5]
FuelType == [FUEL_TYPE_UNKNOWN |-> 0, FUEL_TYPE_UNLEADED |-> 1, FUEL_TYPE_LEADED |-> 2,
             FUEL_TYPE_DIESEL_1 |-> 3, FUEL_TYPE_DIESEL_2 |-> 4, FUEL_TYPE_BIODIESEL |-> 5,
             FUEL_TYPE_E85 |-> 6, FUEL_TYPE_LPG |-> 7, FUEL_TYPE_CNG |-> 8, FUEL_TYPE_LNG |-> 9,
             FUEL_TYPE_ELECTRIC |-> 10, FUEL_TYPE_HYDROGEN |-> 11, FUEL_TYPE_OTHER |-> 12]
Gear == [GEAR_NEUTRAL |-> 0, GEAR_1 |-> 1, GEAR_2 |-> 2, GEAR_3 |-> 3, GEAR_4 |-> 4, GEAR_5 |-> 5,
         GEAR_6 |-> 6, GEAR_7 |-> 7, GEAR_8 |-> 8, GEAR_9 |-> 9, GEAR_10 |-> 10,
         GEAR_DRIVE |-> 100, GEAR_PARK |-> 101, GEAR_REVERSE |-> 102]
HeadLightState == [HEAD_LIGHT_STATE_OFF |-> 1, HEAD_LIGHT_STATE_ON |-> 2,
                   HEAD_LIGHT_STATE_HIGH |-> 3]
InputMessageId == [INPUT_MESSAGE_INPUT_REPORT |-> 32769,
                   INPUT_MESSAGE_KEY_BINDING_REQUEST |-> 32770,
                   INPUT_MESSAGE_KEY_BINDING_RESPONSE |-> 32771,
                   INPUT_MESSAGE_INPUT_FEEDBACK |-> 32772]
ItuRegion == [RADIO_REGION_NONE |-> 0, RADIO_REGION_ITU_1 |-> 1, RADIO_REGION_ITU_2 |-> 2,
              RADIO_REGION_OIRT |-> 3, RADIO_REGION_JAPAN |-> 4, RADIO_REGION_KOREA |-> 5]
KeyCode == [KEYCODE_UNKNOWN |-> 0, KEYCODE_HOME |-> 3, KEYCODE_BACK |-> 4, KEYCODE_CALL |-> 5,
            KEYCODE_ENDCALL |-> 6, KEYCODE_DPAD_UP |-> 19, KEYCODE_DPAD_DOWN |-> 20,
            KEYCODE_DPAD_LEFT |-> 21, KEYCODE_DPAD_RIGHT |-> 22, KEYCODE_DPAD_CENTER |-> 23,
            KEYCODE_MEDIA_PLAY_PAUSE |-> 85, KEYCODE_MEDIA_NEXT |-> 87,
            KEYCODE_MEDIA_PREVIOUS |-> 88, KEYCODE_MEDIA_PLAY |-> 126, KEYCODE_MEDIA_PAUSE |-> 127,
            KEYCODE_SETTINGS |-> 176, KEYCODE_MUSIC |-> 209, KEYCODE_ROTARY_CONTROLLER |-> 65536,
            KEYCODE_MEDIA |-> 65537, KEYCODE_NAVIGATION |-> 65538, KEYCODE_RADIO |-> 65539]
MediaCodecType == [MEDIA_CODEC_AUDIO_PCM |-> 1, MEDIA_CODEC_AUDIO_AAC_LC |-> 2,
                   MEDIA_CODEC_VIDEO_H264_BP |-> 3, MEDIA_CODEC_AUDIO_AAC_LC_ADTS |-> 4,
                   MEDIA_CODEC_VIDEO_VP9 |-> 5, MEDIA_CODEC_VIDEO_AV1 |-> 6,
                   MEDIA_CODEC_VIDEO_H265 |-> 7]
MediaMessageId == [MEDIA_MESSAGE_DATA |-> 0, MEDIA_MESSAGE_CODEC_CONFIG |-> 1,
                   MEDIA_MESSAGE_SETUP |-> 32768, MEDIA_MESSAGE_START |-> 32769,
                   MEDIA_MESSAGE_STOP |-> 32770, MEDIA_MESSAGE_CONFIG |-> 32771,
                   MEDIA_MESSAGE_ACK |-> 32772, MEDIA_MESSAGE_MICROPHONE_REQUEST |-> 32773,
                   MEDIA_MESSAGE_MICROPHONE_RESPONSE |-> 32774,
                   MEDIA_MESSAGE_VIDEO_FOCUS_REQUEST |-> 32775,
                   MEDIA_MESSAGE_VIDEO_FOCUS_NOTIFICATION |-> 32776,
                   MEDIA_MESSAGE_UPDATE_UI_CONFIG_REQUEST |-> 32777,
                   MEDIA_MESSAGE_UPDATE_UI_CONFIG_REPLY |-> 32778,
                   MEDIA_MESSAGE_AUDIO_UNDERFLOW_NOTIFICATION |-> 32779]
MediaPlaybackStatusMessageId == [MEDIA_PLAYBACK_STATUS |-> 32769, MEDIA_PLAYBACK_INPUT |-> 32770,
                                 MEDIA_PLAYBACK_METADATA |-> 32771]
MessageStatus == [STATUS_UNSOLICITED_MESSAGE |-> 1, STATUS_SUCCESS |-> 0,
                  STATUS_NO_COMPATIBLE_VERSION |-> -1, STATUS_CERTIFICATE_ERROR |-> -2,
                  STATUS_AUTHENTICATION_FAILURE |-> -3, STATUS_INVALID_SERVICE |-> -4,
                  STATUS_INVALID_CHANNEL |-> -5, STATUS_INVALID_PRIORITY |-> -6,
                  STATUS_INTERNAL_ERROR |-> -7, STATUS_MEDIA_CONFIG_MISMATCH |-> -8,
                  STATUS_INVALID_SENSOR |-> -9, STATUS_BLUETOOTH_PAIRING_DELAYED |-> -10,
                  STATUS_BLUETOOTH_UNAVAILABLE |-> -11, STATUS_BLUETOOTH_INVALID_ADDRESS |-> -12,
                  STATUS_BLUETOOTH_INVALID_PAIRING_METHOD |-> -13,
                  STATUS_BLUETOOTH_INVALID_AUTH_DATA |-> -14,
                  STATUS_BLUETOOTH_AUTH_DATA_MISMATCH |-> -15,
                  STATUS_BLUETOOTH_HFP_ANOTHER_CONNECTION |-> -16,
                  STATUS_BLUETOOTH_HFP_CONNECTION_FAILURE |-> -17,
                  STATUS_KEYCODE_NOT_BOUND |-> -18, STATUS_RADIO_INVALID_STATION |-> -19,
                  STATUS_INVALID_INPUT |-> -20, STATUS_RADIO_STATION_PRESETS_NOT_SUPPORTED |-> -21,
                  STATUS_RADIO_COMM_ERROR |-> -22,
                  STATUS_AUTHENTICATION_FAILURE_CERT_NOT_YET_VALID |-> -23,
                  STATUS_AUTHENTICATION_FAILURE_CERT_EXPIRED |-> -24, STATUS_PING_TIMEOUT |-> -25,
                  STATUS_COMMAND_NOT_SUPPORTED |-> -250, STATUS_FRAMING_ERROR |-> -251,
                  STATUS_UNEXPECTED_MESSAGE |-> -253, STATUS_BUSY |-> -254,
                  STATUS_OUT_OF_MEMORY |-> -255]
NavFocusType == [NAV_FOCUS_NATIVE |-> 1, NAV_FOCUS_PROJECTED |-> 2]
PointerAction == [ACTION_DOWN |-> 0, ACTION_UP |-> 1, ACTION_MOVED |-> 2,
                  ACTION_POINTER_DOWN |-> 5, ACTION_POINTER_UP |-> 6]
RadioType == [AM_RADIO |-> 0, FM_RADIO |-> 1, AM_HD_RADIO |-> 2, FM_HD_RADIO |-> 3,
              DAB_RADIO |-> 4, XM_RADIO |-> 5]
RdsType == [NO_RDS |-> 0, RDS |-> 1, RBDS |-> 2]
SensorMessageId == [SENSOR_MESSAGE_REQUEST |-> 32769, SENSOR_MESSAGE_RESPONSE |-> 32770,
                    SENSOR_MESSAGE_BATCH |-> 32771, SENSOR_MESSAGE_ERROR |-> 32772]
SensorType == [SENSOR_LOCATION |-> 1, SENSOR_COMPASS |-> 2, SENSOR_SPEED |-> 3, SENSOR_RPM |-> 4,
               SENSOR_ODOMETER |-> 5, SENSOR_FUEL |-> 6, SENSOR_PARKING_BRAKE |-> 7,
               SENSOR_GEAR |-> 8, SENSOR_OBDII_DIAGNOSTIC_CODE |-> 9, SENSOR_NIGHT_MODE |-> 10,
               SENSOR_ENVIRONMENT_DATA |-> 11, SENSOR_HVAC_DATA |-> 12,
               SENSOR_DRIVING_STATUS_DATA |-> 13, SENSOR_DEAD_RECKONING_DATA |-> 14,
               SENSOR_PASSENGER_DATA |-> 15, SENSOR_DOOR_DATA |-> 16, SENSOR_LIGHT_DATA |-> 17,
               SENSOR_TIRE_PRESSURE_DATA |-> 18, SENSOR_ACCELEROMETER_DATA |-> 19,
               SENSOR_GYROSCOPE_DATA |-> 20, SENSOR_GPS_SATELLITE_DATA |-> 21,
               SENSOR_TOLL_CARD |-> 22]
TouchScreenType == [CAPACITIVE |-> 1, RESISTIVE |-> 2, INFRARED |-> 3]
TrafficServiceType == [NO_TRAFFIC_SERVICE |-> 0, TMC_TRAFFIC_SERVICE |-> 1]
TurnIndicatorState == [TURN_INDICATOR_NONE |-> 1, TURN_INDICATOR_LEFT |-> 2,
                       TURN_INDICATOR_RIGHT |-> 3]
UiTheme == [UI_THEME_AUTOMATIC |-> 0, UI_THEME_LIGHT |-> 1, UI_THEME_DARK |-> 2]
VideoCodecResolutionType == [VIDEO_800x480 |-> 1, VIDEO_1280x720 |-> 2, VIDEO_1920x1080 |-> 3,
                             VIDEO_2560x1440 |-> 4, VIDEO_3840x2160 |-> 5, VIDEO_720x1280 |-> 6,
                             VIDEO_1080x1920 |-> 7, VIDEO_1440x2560 |-> 8, VIDEO_2160x3840 |-> 9]
VideoFocusMode == [VIDEO_FOCUS_PROJECTED |-> 1, VIDEO_FOCUS_NATIVE |-> 2,
                   VIDEO_FOCUS_NATIVE_TRANSIENT |-> 3, VIDEO_FOCUS_PROJECTED_NO_INPUT_FOCUS |-> 4]
VideoFocusReason == [UNKNOWN |-> 0, PHONE_SCREEN_OFF |-> 1, LAUNCH_NATIVE |-> 2]
VideoFrameRateType == [VIDEO_FPS_60 |-> 1, VIDEO_FPS_30 |-> 2]
VoiceSessionStatus == [VOICE_SESSION_START |-> 1, VOICE_SESSION_END |-> 2]
Config_Status == [STATUS_WAIT |-> 1, STATUS_READY |-> 2]
MediaPlaybackStatus_State == [STOPPED |-> 1, PLAYING |-> 2, PAUSED |-> 3]
NavigationStatusService_InstrumentClusterType == [IMAGE |-> 1, ENUM |-> 2]

-----------------------------------------------------------------------------
(* Messages.                                                               *)

AbsoluteEvent_Abs == [keycode |-> Uint32, value |-> Int32]
AbsoluteEvent == [data |-> Many(Part(AbsoluteEvent_Abs))]
AccelerometerData == [acceleration_x_e3 |-> Int32, acceleration_y_e3 |-> Int32,
                      acceleration_z_e3 |-> Int32]
Ack == [session_id |-> Int32, ack |-> Uint32, receive_timestamp_ns |-> Many(Uint64)]
AudioConfiguration == [sampling_rate |-> Uint32, number_of_bits |-> Uint32,
                       number_of_channels |-> Uint32]
AudioFocusNotification == [focus_state |-> Enum(AudioFocusStateType, "AUDIO_FOCUS_STATE_INVALID"),
                           unsolicited |-> Bool]
AudioFocusRequestNotification == [request |-> Enum(AudioFocusRequestType, "AUDIO_FOCUS_GAIN")]
AuthResponse == [status |-> Int32]
BluetoothService == [car_address |-> String,
                     supported_pairing_methods |-> Many(OneOf(BluetoothPairingMethod))]
ChannelOpenRequest == [priority |-> Int32, service_id |-> Int32]
ChannelOpenResponse == [status |-> Enum(MessageStatus, "STATUS_UNSOLICITED_MESSAGE")]
CompassData == [bearing_e6 |-> Int32, pitch_e6 |-> Int32, roll_e6 |-> Int32]
Config == [status |-> Enum(Config_Status, "STATUS_WAIT"), max_unacked |-> Uint32,
           configuration_indices |-> Many(Uint32)]
PingConfiguration == [timeout_ms |-> Uint32, interval_ms |-> Uint32,
                      high_latency_threshold_ms |-> Uint32, tracked_ping_count |-> Uint32]
WirelessTcpConfiguration == [socket_receive_buffer_size_kb |-> Uint32,
                             socket_send_buffer_size_kb |-> Uint32,
                             socket_read_timeout_ms |-> Uint32]
ConnectionConfiguration == [ping_configuration |-> Part(PingConfiguration),
                            wireless_tcp_configuration |-> Part(WirelessTcpConfiguration)]
DeadReckoningData == [steering_angle_e1 |-> Int32, wheel_speed_e3 |-> Many(Int32)]
DiagnosticsData == [dtc |-> Bytes]
DoorData == [hood_open |-> Bool, trunk_open |-> Bool, door_open |-> Many(Bool)]
DrivingStatusData == [status |-> Int32]
EnvironmentData == [temperature_e3 |-> Int32, pressure_e3 |-> Int32, rain |-> Int32]
FuelData == [fuel_level |-> Int32, range |-> Int32, low_fuel_warning |-> Bool]
GearData == [gear |-> Enum(Gear, "GEAR_NEUTRAL")]
GenericNotificationService == None
GpsSatellite == [prn |-> Int32, snr_e3 |-> Int32, used_in_fix |-> Bool, azimuth_e3 |-> Int32,
                 elevation_e3 |-> Int32]
GpsSatelliteData == [number_in_use |-> Int32, number_in_view |-> Int32,
                     satellites |-> Many(Part(GpsSatellite))]
GyroscopeData == [rotation_speed_x_e3 |-> Int32, rotation_speed_y_e3 |-> Int32,
                  rotation_speed_z_e3 |-> Int32]
HeadUnitInfo == [make |-> String, model |-> String, year |-> String, vehicle_id |-> String,
                 head_unit_make |-> String, head_unit_model |-> String,
                 head_unit_software_build |-> String, head_unit_software_version |-> String]
HvacData == [target_temperature_e3 |-> Int32, current_temperature_e3 |-> Int32]
TouchEvent_Pointer == [x |-> Uint32, y |-> Uint32, pointer_id |-> Uint32]
TouchEvent == [pointer_data |-> Many(Part(TouchEvent_Pointer)), action_index |-> Uint32,
               action |-> Enum(PointerAction, "ACTION_DOWN")]
KeyEvent_Key == [keycode |-> Uint32, down |-> Bool, metastate |-> Uint32, longpress |-> Bool]
KeyEvent == [keys |-> Many(Part(KeyEvent_Key))]
RelativeEvent_Rel == [keycode |-> Uint32, delta |-> Int32]
RelativeEvent == [data |-> Many(Part(RelativeEvent_Rel))]
InputReport == [timestamp |-> Uint64, disp_channel_id |-> Int32, touch_event |-> Part(TouchEvent),
                key_event |-> Part(KeyEvent), absolute_event |-> Part(AbsoluteEvent),
                relative_event |-> Part(RelativeEvent), touchpad_event |-> Part(TouchEvent)]
InputSourceService_TouchScreen == [width |-> Int32, height |-> Int32,
                                   type_ |-> Enum(TouchScreenType, "CAPACITIVE"),
                                   is_secondary |-> Bool]
InputSourceService_TouchPad == [width |-> Int32, height |-> Int32, ui_navigation |-> Bool,
                                physical_width |-> Int32, physical_height |-> Int32,
                                ui_absolute |-> Bool, tap_as_select |-> Bool, sensitivity |-> Int32]
InputSourceService == [keycodes_supported |-> Many(Int32),
                       touchscreen |-> Many(Part(InputSourceService_TouchScreen)),
                       touchpad |-> Many(Part(InputSourceService_TouchPad)),
                       feedback_events_supported |-> Many(OneOf(FeedbackEvent)),
                       display_id |-> Uint32]
Insets == [top |-> Uint32, bottom |-> Uint32, left |-> Uint32, right |-> Uint32]
KeyBindingResponse == [status |-> Int32]
LightData == [head_light_state |-> Enum(HeadLightState, "HEAD_LIGHT_STATE_OFF"),
              turn_indicator_state |-> Enum(TurnIndicatorState, "TURN_INDICATOR_NONE"),
              hazard_lights_on |-> Bool]
LocationData == [timestamp |-> Uint64, latitude_e7 |-> Int32, longitude_e7 |-> Int32,
                 accuracy_e3 |-> Uint32, altitude_e2 |-> Int32, speed_e3 |-> Int32,
                 bearing_e6 |-> Int32]
MediaBrowserService == None
MediaPlaybackMetadata == [song |-> String, artist |-> String, album |-> String,
                          album_art |-> Bytes, playlist |-> String, duration_seconds |-> Uint32,
                          rating |-> Int32]
MediaPlaybackStatus == [state |-> Enum(MediaPlaybackStatus_State, "STOPPED"),
                        media_source |-> String, playback_seconds |-> Uint32, shuffle |-> Bool,
                        repeat |-> Bool, repeat_one |-> Bool]
MediaPlaybackStatusService == None
UiConfig == [margins |-> Part(Insets), content_insets |-> Part(Insets),
             stable_content_insets |-> Part(Insets),
             ui_theme |-> Enum(UiTheme, "UI_THEME_AUTOMATIC")]
VideoConfiguration == [codec_resolution |-> Enum(VideoCodecResolutionType, "VIDEO_800x480"),
                       frame_rate |-> Enum(VideoFrameRateType, "VIDEO_FPS_60"),
                       width_margin |-> Uint32, height_margin |-> Uint32, density |-> Uint32,
                       decoder_additional_depth |-> Uint32, viewing_distance |-> Uint32,
                       pixel_aspect_ratio_e4 |-> Uint32, real_density |-> Uint32,
                       video_codec_type |-> Enum(MediaCodecType, "MEDIA_CODEC_AUDIO_PCM"),
                       ui_config |-> Part(UiConfig)]
MediaSinkService == [available_type |-> Enum(MediaCodecType, "MEDIA_CODEC_AUDIO_PCM"),
                     audio_type |-> Enum(AudioStreamType, "AUDIO_STREAM_GUIDANCE"),
                     audio_configs |-> Many(Part(AudioConfiguration)),
                     video_configs |-> Many(Part(VideoConfiguration)),
                     available_while_in_call |-> Bool, display_id |-> Uint32,
                     display_type |-> Enum(DisplayType, "DISPLAY_TYPE_MAIN"),
                     initial_content_keycode |-> Enum(KeyCode, "KEYCODE_UNKNOWN")]
MediaSourceService == [available_type |-> Enum(MediaCodecType, "MEDIA_CODEC_AUDIO_PCM"),
                       audio_config |-> Part(AudioConfiguration), available_while_in_call |-> Bool]
NavFocusNotification == [focus_type |-> Enum(NavFocusType, "NAV_FOCUS_NATIVE")]
NavigationStatusService_ImageOptions == [height |-> Int32, width |-> Int32,
                                         colour_depth_bits |-> Int32]
NavigationStatusService == [minimum_interval_ms |-> Int32,
                            type_ |-> Enum(NavigationStatusService_InstrumentClusterType, "IMAGE"),
                            image_options |-> Part(NavigationStatusService_ImageOptions)]
NightModeData == [night_mode |-> Bool]
OdometerData == [kms_e1 |-> Int32, trip_kms_e1 |-> Int32]
ParkingBrakeData == [parking_brake |-> Bool]
PassengerData == [passenger_present |-> Bool]
PhoneInfo == [instance_id |-> String, connectivity_lifetime_id |-> String]
PhoneStatusService == None
PingRequest == [timestamp |-> Int64, bug_report |-> Bool, data |-> Bytes]
PingResponse == [timestamp |-> Int64, data |-> Bytes]
Range == [min |-> Int32, max |-> Int32]
RadioProperties == [radio_id |-> Int32, type_ |-> Enum(RadioType, "AM_RADIO"),
                    channel_range |-> Many(Part(Range)), channel_spacings |-> Many(Int32),
                    channel_spacing |-> Int32, background_tuner |-> Bool,
                    region |-> Enum(ItuRegion, "RADIO_REGION_NONE"),
                    rds |-> Enum(RdsType, "NO_RDS"), af_switch |-> Bool, ta |-> Bool,
                    traffic_service |-> Enum(TrafficServiceType, "NO_TRAFFIC_SERVICE"),
                    audio_loopback |-> Bool, mute_capability |-> Bool,
                    station_presets_access |-> Int32]
RadioService == [radio_properties |-> Many(Part(RadioProperties))]
RpmData == [rpm_e3 |-> Int32]
SpeedData == [speed_e3 |-> Int32, cruise_engaged |-> Bool, cruise_set_speed |-> Int32]
TirePressureData == [tire_pressures_e2 |-> Many(Int32)]
TollCardData == [is_card_present |-> Bool]
SensorBatch == [location_data |-> Many(Part(LocationData)),
                compass_data |-> Many(Part(CompassData)), speed_data |-> Many(Part(SpeedData)),
                rpm_data |-> Many(Part(RpmData)), odometer_data |-> Many(Part(OdometerData)),
                fuel_data |-> Many(Part(FuelData)),
                parking_brake_data |-> Many(Part(ParkingBrakeData)),
                gear_data |-> Many(Part(GearData)),
                diagnostics_data |-> Many(Part(DiagnosticsData)),
                night_mode_data |-> Many(Part(NightModeData)),
                environment_data |-> Many(Part(EnvironmentData)),
                hvac_data |-> Many(Part(HvacData)),
                driving_status_data |-> Many(Part(DrivingStatusData)),
                dead_reckoning_data |-> Many(Part(DeadReckoningData)),
                passenger_data |-> Many(Part(PassengerData)), door_data |-> Many(Part(DoorData)),
                light_data |-> Many(Part(LightData)),
                tire_pressure_data |-> Many(Part(TirePressureData)),
                accelerometer_data |-> Many(Part(AccelerometerData)),
                gyroscope_data |-> Many(Part(GyroscopeData)),
                gps_satellite_data |-> Many(Part(GpsSatelliteData)),
                toll_card_data |-> Many(Part(TollCardData))]
SensorResponse == [status |-> Enum(MessageStatus, "STATUS_UNSOLICITED_MESSAGE")]
SensorSourceService_Sensor == [sensor_type |-> Enum(SensorType, "SENSOR_LOCATION")]
SensorSourceService == [sensors |-> Many(Part(SensorSourceService_Sensor)),
                        location_characterization |-> Uint32,
                        supported_fuel_types |-> Many(OneOf(FuelType)),
                        supported_ev_connector_types |-> Many(OneOf(EvConnectorType))]
VendorExtensionService == [service_name |-> String, package_white_list |-> Many(String),
                           data |-> Bytes]
WifiProjectionService == [car_wifi_bssid |-> String]
Service == [id |-> Int32, sensor_source_service |-> Part(SensorSourceService),
            media_sink_service |-> Part(MediaSinkService),
            input_source_service |-> Part(InputSourceService),
            media_source_service |-> Part(MediaSourceService),
            bluetooth_service |-> Part(BluetoothService), radio_service |-> Part(RadioService),
            navigation_status_service |-> Part(NavigationStatusService),
            media_playback_service |-> Part(MediaPlaybackStatusService),
            phone_status_service |-> Part(PhoneStatusService),
            media_browser_service |-> Part(MediaBrowserService),
            vendor_extension_service |-> Part(VendorExtensionService),
            generic_notification_service |-> Part(GenericNotificationService),
            wifi_projection_service |-> Part(WifiProjectionService)]
ServiceDiscoveryRequest == [small_icon |-> Bytes, medium_icon |-> Bytes, large_icon |-> Bytes,
                            label_text |-> String, device_name |-> String,
                            phone_info |-> Part(PhoneInfo)]
ServiceDiscoveryResponse == [services |-> Many(Part(Service)), make |-> String, model |-> String,
                             year |-> String, vehicle_id |-> String,
                             driver_position |-> Enum(DriverPosition, "DRIVER_POSITION_LEFT"),
                             head_unit_make |-> String, head_unit_model |-> String,
                             head_unit_software_build |-> String,
                             head_unit_software_version |-> String,
                             can_play_native_media_during_vr |-> Bool,
                             session_configuration |-> Int32, display_name |-> String,
                             probe_for_support |-> Bool,
                             connection_configuration |-> Part(ConnectionConfiguration),
                             headunit_info |-> Part(HeadUnitInfo)]
Start == [session_id |-> Int32, configuration_index |-> Uint32]
VideoFocusNotification == [focus |-> Enum(VideoFocusMode, "VIDEO_FOCUS_PROJECTED"),
                           unsolicited |-> Bool]
VideoFocusRequestNotification == [disp_channel_id |-> Int32,
                                  mode |-> Enum(VideoFocusMode, "VIDEO_FOCUS_PROJECTED"),
                                  reason |-> Enum(VideoFocusReason, "UNKNOWN")]
VoiceSessionNotification == [status |-> Enum(VoiceSessionStatus, "VOICE_SESSION_START")]
=============================================================================
