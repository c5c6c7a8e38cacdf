CONSTANTS
  Writers = {rpc, executor}
  Faults = {}
  MaxVersion = 2
  MaxCrashes = 1
SPECIFICATION Spec
INVARIANT
  NeverTorn
