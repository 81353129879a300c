SPECIFICATION Spec
CONSTANTS
  a = a
  b = b
  c = c
  Conns = {a, b, c}
  HelloLen <- MCHelloLen
  WithSNI = {a, b}
  MaxStreamBuf = 2
  SniCap = 1
  Configured = 5
  DefaultBuf = 1
  MinBuf = 1
  MaxBuf = 2
  Wrap = 2
  MaxReads = 3
  MaxTicks = 2
  MaxDrops = 2
  None = None
INVARIANT TypeOK PacketsAccounted DropsNotOvercounted
PROPERTY HellosAccounted CaptureEnds
CHECK_DEADLOCK FALSE
