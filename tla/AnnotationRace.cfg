CONSTANTS
  Key <- MCKey
  Ours = "hook-ok"
  Value <- MCValue
  Mine = "true"
  Unset = Unset
  Tries = 5
  Steps = 4
SPECIFICATION Spec
INVARIANTS
  AnnotationTypeOK
  NoLostUpdate
PROPERTIES
  IsAtomic
