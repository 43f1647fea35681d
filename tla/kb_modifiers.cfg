SPECIFICATION Spec
CONSTANTS
  a = a
  u = u
  KEYBOARD_BUFFER_SIZE = 1
  Letters = {a}
  Symbols = {}
  Fixed = {}
  Unmapped = {u}
  Modifiers = {"KEY_LSHIFT", "KEY_RSHIFT", "KEY_CTRL", "KEY_ALT", "KEY_CAPS"}
  MaxPresses = 3
INVARIANT PressesAccounted
INVARIANT NoStuckModifier
