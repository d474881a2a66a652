SPECIFICATION Spec
CONSTANTS
  WIDTH = 4
  MEMORY_SIZE = 15
  BYTE = 4
  MMIO_INT = 12
  MMIO_BOOL = 12
  MMIO_STR = 12
  KBD_DATA = 13
  KBD_STATUS = 14
  TABLE_SIZE = 4
  NREG = 2
  NIRQ = 3
  SWI = 2
  CODES = 4
  UPPER_LSB = 2
  HIST = 2
  HIST_RESET = 1
  RESIDUE <- NoResidue
  Decode <- HostDecode
  Program <- CallPrograms
  Key = {1}
  MAX_KEYS = 1
  VALUES = {}
  ADDRESSES = {3}
  HOST = {"step", "trigger_interrupt", "push_key", "load_program", "handle_interrupt"}
PROPERTIES ControlFlow
