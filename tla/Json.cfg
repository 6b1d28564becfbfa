\* The widths and limits of numbers are small ones that keep their order.
SPECIFICATION MCSpec
CONSTANTS
  Texts <- MCTexts
  Values <- MCTokens
  MaxUnsigned = 15
  MaxInteger = 7
  Keys <- MCKeys
  TokenTexts <- MCTokenTexts
  DumpedValues <- MCDumped
  Sources <- MCSources
  Patches <- MCPatches
  Base = 8
  Small = 2
  FixNegative = 2
  FixString = 3
  FixSize = 2
  BinaryValues <- MCBinaryValues
  Foreign <- MCForeign
  m1 = m1
  m2 = m2
  f1 = f1
  obj = obj
  Targets <- MCTargets
  Receivers = {obj}
  ReceiverOf <- MCReceiverOf
  NoReceiver = NoReceiver
  Conns = {c1, c2, c3, c4}
  Freed = Freed
  MaxDepth = 2
INVARIANTS
  TokensAreScanned
  TextsAreParsed
  BinaryValuesAreKept
  ConnectedOnce
  EmissionsAreComplete
PROPERTY PatchesMeanWhatTheySay
SYMMETRY MCSymmetry
\* A text has an end, and a program may stop calling.
CHECK_DEADLOCK FALSE
