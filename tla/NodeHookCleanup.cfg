CONSTANTS
  Name = {"docker"}
  Ref = {"r1", "r2"}
  Hash = {"h1", "h2", "h3"}
  NoLocation = NoLocation
  OSVersion <- MCOSVersion
  MinimumRemoteDocker = 1
  DockerName = "docker"
  Manifests <- MCManifests
  Profile = {"tectonic"}
  ProfileName = "tectonic"
  InitialNext = {"vendor"}
  Absent = Absent
  Damaged = Damaged
  NoImage = NoImage
  NoProfile = NoProfile
  Faults = {}
  MaxFaults = 0
  MaxTargets = 2
  OSDocker = OSDocker
  Downgrade <- MCDowngrade
  Preferences <- MCPreferences
  Configs <- MCConfigsSetup
  StageAnytime = FALSE
SPECIFICATION NodeSpec
INVARIANTS
  NoDowngradeOnOldData
