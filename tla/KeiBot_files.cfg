SPECIFICATION Spec
CONSTANTS
  bot1 = aris
  bot2 = kei
  hidden = hidden
  x = x
  y = y
  t1 = t1
  t2 = t2
  Junk = Junk
  Nul = Nul
  None = None
  Entries = {e1, e2, e3, e4, e5}
  Workers = {w1}
  Handles = {h1}
  Paths <- MCPaths
  Texts <- MCTexts
  Offsets = {0, 2}
  emoji <- MCEmoji
  EmojiIds = {0, 1}
  MaxSize = 3
  MaxCalls = 6
SYMMETRY Symmetry
INVARIANTS OneEntryPerPath BuffersHold HandlesLive MirrorsAgree
CHECK_DEADLOCK FALSE
