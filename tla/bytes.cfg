SPECIFICATION Spec
CONSTANTS
  MEMORY_SIZE = 16
  ADDRESSES = 36
  Byte = {0, 1, 2, 3}
  OutPort = {4, 20, 24}
  KeyPort = {28, 32}
  HIST = 3
  HIST_RESET = 1
  RESIDUE <- SomeEntry
  Values <- SomeWords
  StoreW = {1, 4, 12}
  StoreB = {0, 5}
  Direct = {7, 8, 14}
  WIDTH = 8
  BYTE = 4
  MMIO_INT = 1
  MMIO_BOOL = 5
  MMIO_STR = 6
  KBD_DATA = 7
  KBD_STATUS = 8
INVARIANTS LoadsReadMemory ReadsAgree
PROPERTIES WritesAgree
