SPECIFICATION Spec
CONSTANTS
  Sources <- AssemblerFiles
INVARIANTS Addresses AssemblesToWhatItSays
CHECK_DEADLOCK FALSE
