CONSTANTS
  MaxUnusual = 3
  MaxChanges = 2
SPECIFICATION CodecSpec
INVARIANTS CodecTypeOK ReadBack SignaturesHold
