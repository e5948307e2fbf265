------------------------ MODULE MCSerialAIBusHandler ------------------------
(* Instances of SerialAIBusHandler for TLC.                                 *)
EXTENDS SerialAIBusHandler

CONSTANTS t1, t2

ThreeFlags == <<TRUE, FALSE, TRUE>>
TwoFlags == <<TRUE, FALSE>>

=============================================================================
