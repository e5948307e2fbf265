----------------------------- MODULE MCAapHandler -----------------------------
EXTENDS AapHandler

OneMedia == {Video}
TwoSessions == {1, 2}
TwoAsks == {<<"control", "audio_focus">>, <<"sensor", "open">>}
=============================================================================
