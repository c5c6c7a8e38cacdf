CONSTANTS
  Writers = {main}
  Faults = {"rename"}
  MaxVersion = 2
  MaxCrashes = 1
SPECIFICATION Spec
PROPERTY
  FailureIsReported
