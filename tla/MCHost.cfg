SPECIFICATION HostSpec
CONSTANTS
  Contact = {c1, c2}
  Key = {a}
  Masks = 2
  Buttons = 1
  Sides = {left, right}
  Fixed <- MCFixed
  RateOf <- MCRateOf
  DefaultSide = right
  DefaultFixed <- MCDefaultFixed
  HealthyRun = 2
  NoFile = NoFile
  Partial = Partial
  QueueCap = 1
  MaxConfigs = 2
  MaxTicks = 1
  Mtus = {85, 86, 87, 1100, 1184, 1185, 1200, 1400}
  FrameLengths = {0, 1, 2, 1015, 1016, 1099, 1100, 1101, 2200, 2201, 4096, 4097}
  Ipads <- MCIpads
  FrameRates = {30, 31, 60}
  FallSets <- MCFallSets
SYMMETRY Symmetry
INVARIANTS
  HostInv
  InjectorInv
  TouchFramesLegal
  FileAlwaysLoads
  ChoicesTakeEffect
  RateWithinLimits
  NothingRefused
  FragmentsFit
  EdidTellsModes
  OffersFit
CHECK_DEADLOCK FALSE
