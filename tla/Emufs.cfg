SPECIFICATION EmSpec
CONSTANTS
  MAX_INODES = 4
  MAX_BLOCKS = 5
  BLOCKSIZE = 2
  MAX_FILE_SIZE = 2
  DirHandles = {0}
  FileHandles = {0}
  Names = {a, b}
  Bytes = {1}
  Paths <- SomePaths
  Sizes = {1, 3}
SYMMETRY Symmetry
INVARIANTS EmTypeOK Allocation Tree HandlesValid FilesKeepWrites
