CONSTANTS
  Writers = {main}
  Faults = {"write", "rename"}
  MaxVersion = 4
  MaxCrashes = 3
SPECIFICATION Spec
INVARIANTS
  SingleWriterInv
  NeverTorn
  AcknowledgedSurvives
  RaisesOnlyOnFault
PROPERTIES
  ImplementsRegister
  FailedWriteRaises
