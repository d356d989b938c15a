CONSTANTS
  Name = {"docker"}
  Ref = {"r1", "r2"}
  Hash = {"h1", "h2", "h3"}
  NoLocation = NoLocation
  OSVersion <- MCOSVersion
  MinimumRemoteDocker = 2
  DockerName = "docker"
  Manifests <- MCManifests
  Profile = {"tectonic"}
  ProfileName = "tectonic"
  InitialNext = {"vendor"}
  Absent = Absent
  Damaged = Damaged
  NoImage = NoImage
  NoProfile = NoProfile
  Faults = {"list", "manifest", "download", "mkdir", "torcx", "crash", "gather", "updateEngine", "env", "envWrite", "cleanup", "reboot", "gc", "annotate", "power"}
  MaxFaults = 2
  MaxTargets = 2
  OSDocker = OSDocker
  Downgrade <- MCDowngrade
  Preferences <- MCPreferences
  Configs <- MCConfigs
  StageAnytime = TRUE
SPECIFICATION NodeSpec
INVARIANTS
  NodeTypeOK
  InstalledMeansUsable
  RebootOnlyWhenReady
  StrategyCaughtThisCase
PROPERTIES
  BootableImagesKept
  InstallIsAtomic
  NoKubeletWithoutDocker
  CleanupBeforeReboot
