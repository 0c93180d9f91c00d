SPECIFICATION Spec
CONSTANTS
  Total <- MCTotal
  HEADER = 2
  PKTBUF_LEN = 3
  MAXPACKETSZ = 5
  Size <- MCSize
CHECK_DEADLOCK FALSE
INVARIANTS NoOverrun BufferFreed
PROPERTIES Implements Taken
