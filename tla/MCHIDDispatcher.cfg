SPECIFICATION Spec
CONSTANTS
  k1 = k1
  k2 = k2
  none = none
  left = left
  gui = gui
  Keycode <- MCKeycode
  NoKey = none
  FlagBit <- MCFlagBit
  ButtonBit <- MCButtonBit
  Sinks = {"usb", "bt"}
  Packets <- AnyPackets
INVARIANT TypeOK
INVARIANT HeldKeyTracked
INVARIANT ReleaseClearsHosts
INVARIANT ShutdownReleases
PROPERTY ImplementsSharedKeyboard
