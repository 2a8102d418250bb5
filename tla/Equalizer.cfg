CONSTANTS
  MaxBands = 3
  MinFrequency = 1
  MaxFrequency = 6
  Spacing = 2
  MaxGain = 1
  MaxVolume = 1
  Presets <- MCPresets
  Curve <- MCCurve
  Rates = {3, 6}
  DefaultRate = 6
  DefaultFrequencies <- MCDefaultFrequencies
  States <- MCStates
  Frequencies = {0, 3, 5}
  Gains = {0, 2}
  Volumes = {0}
  MaxVersion = 2
SPECIFICATION Spec
INVARIANTS LayoutIsLegal DescriptionIsTrue UpToDateMeansEqual
PROPERTIES ChangesAreHeard
CHECK_DEADLOCK FALSE
