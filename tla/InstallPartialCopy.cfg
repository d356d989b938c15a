CONSTANTS
  Name = {"docker"}
  Ref = {"r1", "r2"}
  Hash = {"h1", "h2", "h3"}
  NoLocation = NoLocation
  OSVersion <- MCOSVersion
  MinimumRemoteDocker = 1
  DockerName = "docker"
  Manifests <- MCManifests
  Profile = {"tectonic", "custom"}
  ProfileName = "tectonic"
  InitialNext = {"vendor", NoProfile}
  Absent = Absent
  Damaged = Damaged
  NoImage = NoImage
  NoProfile = NoProfile
  Faults = {"list", "manifest", "download", "mkdir", "torcx", "crash", "write"}
  MaxFaults = 2
  MaxTargets = 2
SPECIFICATION Spec
INVARIANTS
  InstalledMeansUsable
