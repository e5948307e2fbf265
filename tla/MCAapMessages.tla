----------------------------- MODULE MCAapMessages -----------------------------
EXTENDS AapMessages

TwoSetups == {[w |-> 1024, h |-> 600, mac |-> TRUE], [w |-> 1920, h |-> 720, mac |-> FALSE]}
TwoLists == {{"vertical", "home", "audio"}, {"knob", "touch", "vertical", "horizontal", "menu", "map", "phone"}}
AllAsked == {"discovery", "audio_focus", "video_focus", "open", "ping", "nav_focus", "byebye",
             "playback", "binding", "sensor", "setup", "start", "stop", "data"}
=============================================================================
