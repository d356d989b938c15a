CONSTANTS
  Minor <- MCMinor
  DockerVersions <- MCDockerVersions
  Garbled = Garbled
  Absent = Absent
  NoTag = NoTag
  ClusterVersions <- MCClusterVersions
  InstallerEnvs <- MCInstallerEnvs
  ConfigMaps <- MCConfigMaps
  InstallerMappings <- MCInstallerMappings
  CluoMappings <- MCCluoMappings
  OSReleases <- MCOSReleases
  Confs <- MCConfs
  Tries = 3
SPECIFICATION Spec
INVARIANTS
  SourcesTypeOK
  HookAgreesWithBootstrap
  FallbackSuffices
  BootstrappedNodeHooks
  ApiServerFirst
PROPERTIES
  GatherEnds
