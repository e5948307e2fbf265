-------------------------------- MODULE AapWire --------------------------------
(***************************************************************************)
(* The messages of Android Auto on the wire: for each struct of AapFields  *)
(* its fields in the order in which impl Message of aap/protos/protos.rs   *)
(* writes them, with the number of each.  The file was generated from a    *)
(* schema and then changed by hand: where the code differs from what the   *)
(* generator would make of the schema, the code is followed.               *)
(***************************************************************************)

(* What a field is on the wire: a number, or bytes of some length, which   *)
(* may be a message again.                                                 *)
Varint == [wire |-> 0, nested |-> FALSE]
Text == [wire |-> 2, nested |-> FALSE]
Part(fields) == [wire |-> 2, nested |-> TRUE, fields |-> fields]

(* is_initialized() asks for required fields only, and for those of the    *)
(* messages inside.                                                        *)
Field(rule, number, name, of) == [rule |-> rule, number |-> number, name |-> name, of |-> of]
Req(number, name, of) == Field("required", number, name, of)
Opt(number, name, of) == Field("optional", number, name, of)
Rep(number, name, of) == Field("repeated", number, name, of)
Packed(number, name, of) == Field("packed", number, name, of)

-----------------------------------------------------------------------------

AbsoluteEvent_Abs == <<Req(1, "keycode", Varint), Req(2, "value", Varint)>>
AbsoluteEvent == <<Rep(1, "data", Part(AbsoluteEvent_Abs))>>
AccelerometerData == <<Opt(1, "acceleration_x_e3", Varint), Opt(2, "acceleration_y_e3", Varint),
                       Opt(3, "acceleration_z_e3", Varint)>>
Ack == <<Req(1, "session_id", Varint), Opt(2, "ack", Varint),
         Rep(3, "receive_timestamp_ns", Varint)>>
AudioConfiguration == <<Req(1, "sampling_rate", Varint), Req(2, "number_of_bits", Varint),
                        Req(3, "number_of_channels", Varint)>>
AudioFocusNotification == <<Req(1, "focus_state", Varint), Opt(2, "unsolicited", Varint)>>
AudioFocusRequestNotification == <<Req(1, "request", Varint)>>
AuthResponse == <<Req(1, "status", Varint)>>
BluetoothService == <<Req(1, "car_address", Text), Packed(2, "supported_pairing_methods", Varint)>>
ChannelOpenRequest == <<Req(1, "priority", Varint), Req(2, "service_id", Varint)>>
ChannelOpenResponse == <<Req(1, "status", Varint)>>
CompassData == <<Req(1, "bearing_e6", Varint), Opt(2, "pitch_e6", Varint),
                 Opt(3, "roll_e6", Varint)>>
Config == <<Req(1, "status", Varint), Opt(2, "max_unacked", Varint),
            Rep(3, "configuration_indices", Varint)>>
PingConfiguration == <<Opt(1, "timeout_ms", Varint), Opt(2, "interval_ms", Varint),
                       Opt(3, "high_latency_threshold_ms", Varint),
                       Opt(4, "tracked_ping_count", Varint)>>
WirelessTcpConfiguration == <<Opt(1, "socket_receive_buffer_size_kb", Varint),
                              Opt(2, "socket_send_buffer_size_kb", Varint),
                              Opt(3, "socket_read_timeout_ms", Varint)>>
ConnectionConfiguration == <<Opt(1, "ping_configuration", Part(PingConfiguration)),
                             Opt(2, "wireless_tcp_configuration", Part(WirelessTcpConfiguration))>>
DeadReckoningData == <<Opt(1, "steering_angle_e1", Varint), Rep(2, "wheel_speed_e3", Varint)>>
DiagnosticsData == <<Opt(1, "dtc", Text)>>
DoorData == <<Opt(1, "hood_open", Varint), Opt(2, "trunk_open", Varint),
              Rep(3, "door_open", Varint)>>
DrivingStatusData == <<Req(1, "status", Varint)>>
EnvironmentData == <<Opt(1, "temperature_e3", Varint), Opt(2, "pressure_e3", Varint),
                     Opt(3, "rain", Varint)>>
FuelData == <<Opt(1, "fuel_level", Varint), Opt(2, "range", Varint),
              Opt(3, "low_fuel_warning", Varint)>>
GearData == <<Req(1, "gear", Varint)>>
GenericNotificationService == << >>
GpsSatellite == <<Req(1, "prn", Varint), Req(2, "snr_e3", Varint), Req(3, "used_in_fix", Varint),
                  Opt(4, "azimuth_e3", Varint), Opt(5, "elevation_e3", Varint)>>
GpsSatelliteData == <<Req(1, "number_in_use", Varint), Opt(2, "number_in_view", Varint),
                      Rep(3, "satellites", Part(GpsSatellite))>>
GyroscopeData == <<Opt(1, "rotation_speed_x_e3", Varint), Opt(2, "rotation_speed_y_e3", Varint),
                   Opt(3, "rotation_speed_z_e3", Varint)>>
HeadUnitInfo == <<Opt(1, "make", Text), Opt(2, "model", Text), Opt(3, "year", Text),
                  Opt(4, "vehicle_id", Text), Opt(5, "head_unit_make", Text),
                  Opt(6, "head_unit_model", Text), Opt(7, "head_unit_software_build", Text),
                  Opt(8, "head_unit_software_version", Text)>>
HvacData == <<Opt(1, "target_temperature_e3", Varint), Opt(2, "current_temperature_e3", Varint)>>
TouchEvent_Pointer == <<Req(1, "x", Varint), Req(2, "y", Varint), Req(3, "pointer_id", Varint)>>
TouchEvent == <<Rep(1, "pointer_data", Part(TouchEvent_Pointer)), Opt(2, "action_index", Varint),
                Opt(3, "action", Varint)>>
KeyEvent_Key == <<Req(1, "keycode", Varint), Req(2, "down", Varint), Req(3, "metastate", Varint),
                  Opt(4, "longpress", Varint)>>
KeyEvent == <<Rep(1, "keys", Part(KeyEvent_Key))>>
RelativeEvent_Rel == <<Req(1, "keycode", Varint), Req(2, "delta", Varint)>>
RelativeEvent == <<Rep(1, "data", Part(RelativeEvent_Rel))>>
InputReport == <<Req(1, "timestamp", Varint), Opt(2, "disp_channel_id", Varint),
                 Opt(3, "touch_event", Part(TouchEvent)), Opt(4, "key_event", Part(KeyEvent)),
                 Opt(5, "absolute_event", Part(AbsoluteEvent)),
                 Opt(6, "relative_event", Part(RelativeEvent)),
                 Opt(7, "touchpad_event", Part(TouchEvent))>>
InputSourceService_TouchScreen == <<Req(1, "width", Varint), Req(2, "height", Varint),
                                    Opt(3, "type_", Varint), Opt(4, "is_secondary", Varint)>>
InputSourceService_TouchPad == <<Req(1, "width", Varint), Req(2, "height", Varint),
                                 Opt(3, "ui_navigation", Varint), Opt(4, "physical_width", Varint),
                                 Opt(5, "physical_height", Varint), Opt(6, "ui_absolute", Varint),
                                 Opt(7, "tap_as_select", Varint), Opt(8, "sensitivity", Varint)>>
InputSourceService == <<Rep(1, "keycodes_supported", Varint),
                        Rep(2, "touchscreen", Part(InputSourceService_TouchScreen)),
                        Rep(3, "touchpad", Part(InputSourceService_TouchPad)),
                        Rep(4, "feedback_events_supported", Varint), Opt(5, "display_id", Varint)>>
Insets == <<Opt(1, "top", Varint), Opt(2, "bottom", Varint), Opt(3, "left", Varint),
            Opt(4, "right", Varint)>>
KeyBindingResponse == <<Req(1, "status", Varint)>>
LightData == <<Opt(1, "head_light_state", Varint), Opt(2, "turn_indicator_state", Varint),
               Opt(3, "hazard_lights_on", Varint)>>
LocationData == <<Opt(1, "timestamp", Varint), Req(2, "latitude_e7", Varint),
                  Req(3, "longitude_e7", Varint), Opt(4, "accuracy_e3", Varint),
                  Opt(5, "altitude_e2", Varint), Opt(6, "speed_e3", Varint),
                  Opt(7, "bearing_e6", Varint)>>
MediaBrowserService == << >>
MediaPlaybackMetadata == <<Opt(1, "song", Text), Opt(2, "artist", Text), Opt(3, "album", Text),
                           Opt(4, "album_art", Text), Opt(5, "playlist", Text),
                           Opt(6, "duration_seconds", Varint), Opt(7, "rating", Varint)>>
MediaPlaybackStatus == <<Opt(1, "state", Varint), Opt(2, "media_source", Text),
                         Opt(3, "playback_seconds", Varint), Opt(4, "shuffle", Varint),
                         Opt(5, "repeat", Varint), Opt(6, "repeat_one", Varint)>>
MediaPlaybackStatusService == << >>
UiConfig == <<Opt(1, "margins", Part(Insets)), Opt(2, "content_insets", Part(Insets)),
              Opt(3, "stable_content_insets", Part(Insets)), Opt(4, "ui_theme", Varint)>>
VideoConfiguration == <<Opt(1, "codec_resolution", Varint), Opt(2, "frame_rate", Varint),
                        Opt(3, "width_margin", Varint), Opt(4, "height_margin", Varint),
                        Opt(5, "density", Varint), Opt(6, "decoder_additional_depth", Varint),
                        Opt(7, "viewing_distance", Varint),
                        Opt(8, "pixel_aspect_ratio_e4", Varint), Opt(9, "real_density", Varint),
                        Opt(10, "video_codec_type", Varint), Opt(11, "ui_config", Part(UiConfig))>>
MediaSinkService == <<Opt(1, "available_type", Varint), Opt(2, "audio_type", Varint),
                      Rep(3, "audio_configs", Part(AudioConfiguration)),
                      Rep(4, "video_configs", Part(VideoConfiguration)),
                      Opt(5, "available_while_in_call", Varint), Opt(6, "display_id", Varint),
                      Opt(7, "display_type", Varint), Opt(8, "initial_content_keycode", Varint)>>
MediaSourceService == <<Opt(1, "available_type", Varint),
                        Opt(2, "audio_config", Part(AudioConfiguration)),
                        Opt(3, "available_while_in_call", Varint)>>
NavFocusNotification == <<Req(1, "focus_type", Varint)>>
NavigationStatusService_ImageOptions == <<Req(1, "height", Varint), Req(2, "width", Varint),
                                          Req(3, "colour_depth_bits", Varint)>>
NavigationStatusService == <<Req(1, "minimum_interval_ms", Varint), Req(2, "type_", Varint),
                             Opt(3, "image_options", Part(NavigationStatusService_ImageOptions))>>
NightModeData == <<Opt(1, "night_mode", Varint)>>
OdometerData == <<Req(1, "kms_e1", Varint), Opt(2, "trip_kms_e1", Varint)>>
ParkingBrakeData == <<Req(1, "parking_brake", Varint)>>
PassengerData == <<Opt(1, "passenger_present", Varint)>>
PhoneInfo == <<Opt(1, "instance_id", Text), Opt(2, "connectivity_lifetime_id", Text)>>
PhoneStatusService == << >>
PingRequest == <<Req(1, "timestamp", Varint), Opt(2, "bug_report", Varint), Opt(3, "data", Text)>>
PingResponse == <<Req(1, "timestamp", Varint), Opt(2, "data", Text)>>
Range == <<Req(1, "min", Varint), Req(2, "max", Varint)>>
RadioProperties == <<Req(1, "radio_id", Varint), Req(2, "type_", Varint),
                     Rep(3, "channel_range", Part(Range)), Rep(4, "channel_spacings", Varint),
                     Req(5, "channel_spacing", Varint), Opt(6, "background_tuner", Varint),
                     Opt(7, "region", Varint), Opt(8, "rds", Varint), Opt(9, "af_switch", Varint),
                     Opt(10, "ta", Varint), Opt(11, "traffic_service", Varint),
                     Opt(12, "audio_loopback", Varint), Opt(13, "mute_capability", Varint),
                     Opt(14, "station_presets_access", Varint)>>
RadioService == <<Rep(1, "radio_properties", Part(RadioProperties))>>
RpmData == <<Req(1, "rpm_e3", Varint)>>
SpeedData == <<Req(1, "speed_e3", Varint), Opt(2, "cruise_engaged", Varint),
               Opt(4, "cruise_set_speed", Varint)>>
TirePressureData == <<Rep(1, "tire_pressures_e2", Varint)>>
TollCardData == <<Req(1, "is_card_present", Varint)>>
SensorBatch == <<Rep(1, "location_data", Part(LocationData)),
                 Rep(2, "compass_data", Part(CompassData)), Rep(3, "speed_data", Part(SpeedData)),
                 Rep(4, "rpm_data", Part(RpmData)), Rep(5, "odometer_data", Part(OdometerData)),
                 Rep(6, "fuel_data", Part(FuelData)),
                 Rep(7, "parking_brake_data", Part(ParkingBrakeData)),
                 Rep(8, "gear_data", Part(GearData)),
                 Rep(9, "diagnostics_data", Part(DiagnosticsData)),
                 Rep(10, "night_mode_data", Part(NightModeData)),
                 Rep(11, "environment_data", Part(EnvironmentData)),
                 Rep(12, "hvac_data", Part(HvacData)),
                 Rep(13, "driving_status_data", Part(DrivingStatusData)),
                 Rep(14, "dead_reckoning_data", Part(DeadReckoningData)),
                 Rep(15, "passenger_data", Part(PassengerData)),
                 Rep(16, "door_data", Part(DoorData)), Rep(17, "light_data", Part(LightData)),
                 Rep(18, "tire_pressure_data", Part(TirePressureData)),
                 Rep(19, "accelerometer_data", Part(AccelerometerData)),
                 Rep(20, "gyroscope_data", Part(GyroscopeData)),
                 Rep(21, "gps_satellite_data", Part(GpsSatelliteData)),
                 Rep(22, "toll_card_data", Part(TollCardData))>>
SensorResponse == <<Req(1, "status", Varint)>>
SensorSourceService_Sensor == <<Req(1, "sensor_type", Varint)>>
SensorSourceService == <<Rep(1, "sensors", Part(SensorSourceService_Sensor)),
                         Opt(2, "location_characterization", Varint),
                         Rep(3, "supported_fuel_types", Varint),
                         Rep(4, "supported_ev_connector_types", Varint)>>
VendorExtensionService == <<Req(1, "service_name", Text), Rep(2, "package_white_list", Text),
                            Opt(3, "data", Text)>>
WifiProjectionService == <<Opt(1, "car_wifi_bssid", Text)>>
Service == <<Req(1, "id", Varint), Opt(2, "sensor_source_service", Part(SensorSourceService)),
             Opt(3, "media_sink_service", Part(MediaSinkService)),
             Opt(4, "input_source_service", Part(InputSourceService)),
             Opt(5, "media_source_service", Part(MediaSourceService)),
             Opt(6, "bluetooth_service", Part(BluetoothService)),
             Opt(7, "radio_service", Part(RadioService)),
             Opt(8, "navigation_status_service", Part(NavigationStatusService)),
             Opt(9, "media_playback_service", Part(MediaPlaybackStatusService)),
             Opt(10, "phone_status_service", Part(PhoneStatusService)),
             Opt(11, "media_browser_service", Part(MediaBrowserService)),
             Opt(12, "vendor_extension_service", Part(VendorExtensionService)),
             Opt(13, "generic_notification_service", Part(GenericNotificationService)),
             Opt(14, "wifi_projection_service", Part(WifiProjectionService))>>
ServiceDiscoveryRequest == <<Opt(1, "small_icon", Text), Opt(2, "medium_icon", Text),
                             Opt(3, "large_icon", Text), Opt(4, "label_text", Text),
                             Opt(5, "device_name", Text), Opt(6, "phone_info", Part(PhoneInfo))>>
ServiceDiscoveryResponse == <<Rep(1, "services", Part(Service)), Opt(2, "make", Text),
                              Opt(3, "model", Text), Opt(4, "year", Text),
                              Opt(5, "vehicle_id", Text), Opt(6, "driver_position", Varint),
                              Opt(7, "head_unit_make", Text), Opt(8, "head_unit_model", Text),
                              Opt(9, "head_unit_software_build", Text),
                              Opt(10, "head_unit_software_version", Text),
                              Opt(11, "can_play_native_media_during_vr", Varint),
                              Opt(13, "session_configuration", Varint),
                              Opt(14, "display_name", Text), Opt(15, "probe_for_support", Varint),
                              Opt(16, "connection_configuration", Part(ConnectionConfiguration)),
                              Opt(17, "headunit_info", Part(HeadUnitInfo))>>
Start == <<Req(1, "session_id", Varint), Req(2, "configuration_index", Varint)>>
VideoFocusNotification == <<Opt(1, "focus", Varint), Opt(2, "unsolicited", Varint)>>
VideoFocusRequestNotification == <<Opt(1, "disp_channel_id", Varint), Opt(2, "mode", Varint),
                                   Opt(3, "reason", Varint)>>
VoiceSessionNotification == <<Opt(1, "status", Varint)>>

\* aap/media_messages.rs, written by hand: everything is taken for initialized.
MediaStartRequest == <<Opt(1, "session", Varint), Opt(2, "config", Varint)>>
=============================================================================
