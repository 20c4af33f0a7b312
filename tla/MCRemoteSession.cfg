SPECIFICATION FairSessionSpec
CONSTANTS
  k1 = k1
  k2 = k2
  none = none
  left = left
  gui = gui
  g1 = g1
  g2 = g2
  s1 = s1
  Keycode <- MCKeycode
  NoKey = none
  FlagBit <- MCFlagBit
  ButtonBit <- MCButtonBit
  Sinks = {"usb", "bt"}
  Packets <- Packet
  Gesture = {g1, g2}
  Socket = {s1}
  Kind <- MCKind
  PressOf <- MCPressOf
  NoGesture = NoGesture
  MaxCopies = 2
INVARIANT SessionTypeOK
INVARIANT KeyHeldUntilReleased
INVARIANT ButtonHeldUntilReleased
PROPERTY KeyComesUp
PROPERTY ButtonComesUp
