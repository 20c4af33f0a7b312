SPECIFICATION Spec
CONSTANTS
  k1 = k1
  k2 = k2
  k3 = k3
  none = none
  left = left
  gui = gui
  right = right
  Keycode <- MCKeycode
  NoKey = none
  FlagBit <- MCFlagBit
  ButtonBit <- MCButtonBit
  MappedKey <- MCMappedKey
  MappedFlag <- MCMappedFlag
  Packets <- AnyPackets
INVARIANT TypeOK
INVARIANT NewestKeyHeld
INVARIANT OnlyOverlapSticks
PROPERTY ImplementsGadget
