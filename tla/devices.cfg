SPECIFICATION FairKeySpec
CONSTANTS
  WIDTH = 5
  MEMORY_SIZE = 32
  BYTE = 4
  MMIO_INT = 16
  MMIO_BOOL = 17
  MMIO_STR = 18
  KBD_DATA = 20
  KBD_STATUS = 21
  TABLE_SIZE = 4
  NREG = 3
  NIRQ = 3
  SWI = 2
  CODES = 4
  UPPER_LSB = 2
  HIST = 2
  HIST_RESET = 1
  RESIDUE <- NoResidue
  Decode <- DeviceDecode
  Program <- DevicePrograms
  Key = {1, 2}
  MAX_KEYS = 2
  VALUES = {}
  ADDRESSES = {6}
  HOST = {"run", "breakpoints", "continue_execution", "kbhit"}
  Code <- DeviceCode
  Words <- DeviceWords
  Bytes <- DeviceBytes
  Stack <- DeviceStack
INVARIANTS KeysAnnounced KeysOwed KeysServed Apart Disciplined
PROPERTIES ImplementsIsa LinesKept TimerServed KeysConsumed
