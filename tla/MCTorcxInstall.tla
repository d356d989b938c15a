--------------------------- MODULE MCTorcxInstall ---------------------------
(***************************************************************************)
(* A small world for TorcxInstall: two OS versions, two docker versions.   *)
(* An image has the digest of its build, and builds for two OS versions    *)
(* may or may not be identical.                                            *)
(***************************************************************************)
EXTENDS TorcxInstall

Entry(version, hash, locations) ==
  [version |-> version, hash |-> hash, locations |-> locations]

Docker(entries) == <<[name |-> "docker", versions |-> entries]>>

\* Both versions for download; r1 shares its build with MCVendored.
MCRemote   == Docker(<<Entry("r1", "h1", <<"url">>),
                       Entry("r2", "h2", <<"url">>)>>)
\* r1 in another build, r2 not published.
MCRebuilt  == Docker(<<Entry("r1", "h3", <<"url">>)>>)
\* r1 ships with the OS.
MCVendored == Docker(<<Entry("r1", "h1", <<"url", "vendor">>),
                       Entry("r2", "h2", <<"url">>)>>)
MCManifests == {MCRemote, MCRebuilt, MCVendored}

MCOSVersion == 1 .. 2
=============================================================================
