SPECIFICATION KernelSpec
CONSTANTS
  s = s
  KEYBOARD_BUFFER_SIZE = 2
  Letters = {}
  Symbols = {s}
  Fixed = {}
  Unmapped = {}
  Modifiers = {}
  MaxPresses = 4
INVARIANT CountIsExact
