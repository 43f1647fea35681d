SPECIFICATION FairSpec
CONSTANTS
  VGA_WIDTH = 2
  VGA_HEIGHT = 3
  Chars <- MCChars
  HandlerStrings <- MCHandlerStrings
  MaxText = 8
INVARIANTS TypeOK CursorRecovers AtMostOneLineBelow ShowsText
PROPERTY PrintReturns
