SPECIFICATION Spec
CONSTANTS
  Hotkey <- MCHotkey
  ListHeight = 3
  Width = 3
  MaxLen = 4
  Lines = {8, 10, 16, 18, 23}
  Counts = {1, 7}
  Members = {1, 3, 5}
  Letters = {"a", "b"}
  Chars = {"a", "b"}
  Inits <- MCInits
  Texts <- MCTexts
  MaxScroll = 2
INVARIANTS
  HighlightInWindow
  ScreenShowsState
PROPERTIES
  CursorMoves
  ReturnsToItem
  TextScrolls
CHECK_DEADLOCK FALSE
