SPECIFICATION Spec
CONSTANTS
  WIDTH = 5
  MEMORY_SIZE = 24
  BYTE = 4
  MMIO_INT = 16
  MMIO_BOOL = 17
  MMIO_STR = 18
  KBD_DATA = 20
  KBD_STATUS = 21
  TABLE_SIZE = 4
  NREG = 3
  NIRQ = 3
  SWI = 2
  CODES = 4
  UPPER_LSB = 2
  HIST = 2
  HIST_RESET = 1
  RESIDUE <- NoResidue
  Decode <- DocDecode
  Program <- ExceptionPrograms
  Key = {}
  MAX_KEYS = 0
  VALUES = {}
  ADDRESSES = {}
  HOST = {"run"}
PROPERTIES ExceptionsEnterHandlers
