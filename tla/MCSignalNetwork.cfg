\* Six layouts of signals, with raw values of 20 bits.
CONSTANTS
  RawBits = 20
  Layouts <- MCLayouts

SPECIFICATION Spec

INVARIANT TypeOK
INVARIANT BitsOfSignals
INVARIANT OnlyInLimits
INVARIANT PhysReachesReceiver
