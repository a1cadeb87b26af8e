CONSTANTS
  Starts <- EdgeIds
  Lengths <- EdgeLengths
  MaxFrames = 3

SPECIFICATION Spec
INVARIANTS StreamsUnmistaken ExhaustedAtTheEnd AlignedBelow24Bits IInv
CHECK_DEADLOCK FALSE
