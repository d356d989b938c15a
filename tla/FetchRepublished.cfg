CONSTANTS
  OSVersion <- MCOSVersion
  MaxGeneration = 2
  Cut = Cut
  None = None
  Tries = 5
SPECIFICATION Spec
INVARIANTS
  FetchTypeOK
  CachedIsSigned
  HandedImageSigned
  NoFileLeft
  FailsForCause
PROPERTIES
  FetchEnds
