SPECIFICATION FairSpec
CONSTANTS
  a = a
  KEYBOARD_BUFFER_SIZE = 2
  Letters = {a}
  Symbols = {}
  Fixed = {}
  Unmapped = {}
  Modifiers = {"KEY_CAPS"}
  MaxPresses = 4
INVARIANT TypeOK
INVARIANT RingPointers
INVARIANT NeverOvercounts
INVARIANT FirstInFirstOut
PROPERTY CountedInputIsRead
