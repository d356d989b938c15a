----------------------------- MODULE MCTorcxNode -----------------------------
(***************************************************************************)
(* Small machines for TorcxNode: three OS versions, two docker versions,   *)
(* of which r1 is the older one; manifests that have both for download, or *)
(* only one, which ships with the OS.                                      *)
(***************************************************************************)
EXTENDS TorcxNode

Entry(version, hash, locations) ==
  [version |-> version, hash |-> hash, locations |-> locations]

Docker(entries) == <<[name |-> "docker", versions |-> entries]>>

\* Both versions for download.
MCRemote   == Docker(<<Entry("r1", "h1", <<"url">>),
                       Entry("r2", "h2", <<"url">>)>>)
\* Only r2, and that ships with the OS.
MCVendored == Docker(<<Entry("r2", "h2", <<"url", "vendor">>)>>)

MCManifests == {MCRemote, MCVendored}

MCPreferences == {<<"r1", "r2">>, <<"r2">>}

MCOSVersion == 1 .. 3

MCConfigs == [osUpgrade : BOOLEAN, skipTorcxSetup : BOOLEAN]
MCConfigsSetup == {c \in MCConfigs : ~c.skipTorcxSetup}

MCDowngrade == {<<OSDocker, "r1">>, <<OSDocker, "r2">>, <<"r2", "r1">>}
=============================================================================
