---------------------------- MODULE MCMirrorSession ----------------------------
EXTENDS MirrorSession

AllBus == {"source", "interface", "car", "buttons", "home", "settings"}
CarPlayOnly == {"prompt", "host_ui", "video_on", "siri_on"}
SomePhone == CarPlayOnly \union {"voice_on", "byebye", "left_locked", "prompt_on"}
=============================================================================
