CONSTANTS
  Name = {"docker", "rkt"}
  Ref = {"r1", "r2"}
  Hash = {"h1", "h2"}
  NoLocation = NoLocation
  OSVersion <- MCOSVersion
  MinimumRemoteDocker = 2
  DockerName = "docker"
  Manifests <- MCManifests
  Preferences <- MCPreferences
SPECIFICATION Spec
INVARIANTS
  PicksMostPreferred
  TargetsAreServable
  NoNeedlessDownload
\* PickVersion is called once.
CHECK_DEADLOCK FALSE
