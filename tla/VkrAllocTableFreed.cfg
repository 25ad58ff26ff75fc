SPECIFICATION TableSpec
CONSTANTS
  Buffers = {1, 2, 3, 4, 5, 6}
  Hash <- MCHash
  InitCap = 4
INVARIANTS
  FreedIsGone
