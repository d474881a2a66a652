SPECIFICATION FairSpec
CONSTANTS
  WIDTH = 6
  MEMORY_SIZE = 24
  BYTE = 4
  MMIO_INT = 64
  MMIO_BOOL = 65
  MMIO_STR = 66
  KBD_DATA = 20
  KBD_STATUS = 21
  TABLE_SIZE = 4
  NREG = 3
  NIRQ = 3
  SWI = 2
  CODES = 4
  UPPER_LSB = 2
  HIST = 2
  HIST_RESET = 1
  RESIDUE <- NoResidue
  Decode <- AnyDecode
  Program <- AnyPrograms
  Key = {}
  MAX_KEYS = 0
  VALUES = {}
  ADDRESSES = {}
  HOST = {"run"}
INVARIANTS TypeOK ForwardingCorrect Operands Chain
PROPERTIES ControlFlow ComparisonsDecide RunGoesOn
CHECK_DEADLOCK FALSE
