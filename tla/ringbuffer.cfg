SPECIFICATION BufferSpec
CONSTANTS
  Bytes = {1, 2}
  Junk = 0
  Newline = 2
  basicBlockSize = 4
  WriteSizes = {1, 3, 4}
  MaxSize = 6
  MaxBlocks = 3
PROPERTY Implements
