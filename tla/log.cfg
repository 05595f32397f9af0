\* Two threads, two masks of five, headers of two lengths.
SPECIFICATION Spec
CONSTANTS
  Threads = {t1, t2}
  Names <- TwoNames
  Masks <- SomeMasks
  HeaderLengths = {1, 2}
  MaxMasks = 2
  MaxLines = 2
INVARIANTS TypeOK OnlyRaceThrows
PROPERTIES MaskDecides
