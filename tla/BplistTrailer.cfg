SPECIFICATION Spec
CONSTANTS
  Base = 2
  CountMask = 3
  MaxASCII = 1
  MaxBMP = 2
  DateGrain = 1
  FileSizes = {39, 44, 50, 64}
  Sizes = {0, 1, 2, 4, 8, 16}
INVARIANT TableBeforeTrailer
CHECK_DEADLOCK FALSE
