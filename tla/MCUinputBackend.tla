--------------------------- MODULE MCUinputBackend ---------------------------
(* Instances of UinputBackend for TLC: k3 and bit right are not mapped.    *)
EXTENDS UinputBackend

CONSTANTS k1, k2, k3, none, left, gui, right

MCKeycode == {k1, k2, k3}
MCFlagBit == {left, gui, right}
MCButtonBit == {left}
MCMappedKey == {k1, k2}
MCMappedFlag == {left, gui}
AnyPackets == Packet
=============================================================================
