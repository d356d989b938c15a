CONSTANTS
  Name = {"docker"}
  Ref = {"r1", "r2"}
  Hash = {"h1", "h2", "h3"}
  NoLocation = NoLocation
  OSVersion <- MCOSVersion
  MinimumRemoteDocker = 1
  DockerName = "docker"
  Manifests <- MCManifests
  Profile = {"tectonic", "custom"}
  ProfileName = "tectonic"
  InitialNext = {"vendor", NoProfile}
  Absent = Absent
  Damaged = Damaged
  NoImage = NoImage
  NoProfile = NoProfile
  Faults = {"list", "manifest", "walk", "download", "mkdir", "openDst", "write", "torcx", "crash", "crashCopy"}
  MaxFaults = 2
  MaxTargets = 2
SPECIFICATION Spec
INVARIANTS
  TypeOK
  StoreIntegrity
PROPERTIES
  NoImageLost
  OperatorProfileKept
