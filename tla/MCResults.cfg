SPECIFICATION Spec
CONSTANTS
  laser = laser
  entangle = entangle
  power = power
  Calibrations = {laser}
  Checked = {laser}
  Experiments = {entangle}
  Datasets = {power}
  DatasetOf <- MCDatasetOf
  MaxRuns = 3
  MaxUnderWay = 2
  MaxRequests = 2
  MaxFaults = 1
INVARIANTS
  TypeOK
  ResultsAreFresh
  AnswersMeanDone
PROPERTY
  ResultsArrive
CHECK_DEADLOCK FALSE
