--------------------------- MODULE MCBleHIDServer ---------------------------
(* An instance of BleHIDServer for TLC.                                    *)
EXTENDS BleHIDServer

MCPayload == [keyboard |-> {"key"}, mouse |-> {"button"}]
=============================================================================
