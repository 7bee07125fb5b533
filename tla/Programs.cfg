SPECIFICATION ProgramSpec
CONSTANTS
  Worker = {w1, w2, w3}
  Master = Master
  NULL = NULL
  Calls = {"yield"}
  apple = apple
  pear = pear
  plum = plum
  Word = {apple, pear, plum}
  Hash <- MCHash
  INITTEXTSIZE = 3
  QUERYWORDS = 4
  TOTAL_SWITCH = 7
INVARIANTS
  TableCountsText
  LookupsAreCounted
  SwitchesAreCounted
PROPERTIES
  ProgramsEnd
