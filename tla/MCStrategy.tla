----------------------------- MODULE MCStrategy -----------------------------
(***************************************************************************)
(* A small world for StrategyCheck: three OS versions, one of them from    *)
(* before the torcx epoch, two docker versions and manifests that differ   *)
(* in what they offer, in the order of their entries and in the kinds of   *)
(* location.                                                               *)
(***************************************************************************)
EXTENDS StrategyCheck

Entry(version, hash, locations) ==
  [version |-> version, hash |-> hash, locations |-> locations]

Docker(entries)  == [name |-> "docker", versions |-> entries]
Foreign(entries) == [name |-> "rkt",    versions |-> entries]

MCManifests == {
  \* nothing at all, and only an unrelated package
  <<>>,
  <<Foreign(<<Entry("r1", "h1", <<"url">>)>>)>>,
  \* both versions for download; the unrelated package comes first
  <<Foreign(<<Entry("r1", "h2", <<"vendor">>)>>),
    Docker(<<Entry("r1", "h1", <<"url">>), Entry("r2", "h2", <<"url">>)>>)>>,
  \* r1 ships with the OS, listed after and before its URL
  <<Docker(<<Entry("r1", "h1", <<"url", "vendor">>),
             Entry("r2", "h2", <<"vendor", "url">>)>>)>>,
  \* an entry without a location shadows a good one; a second package too
  <<Docker(<<Entry("r1", "h1", <<>>), Entry("r1", "h2", <<"url">>)>>),
    Docker(<<Entry("r2", "h2", <<"url">>)>>)>>,
  \* on disk, but not in the vendor store
  <<Docker(<<Entry("r2", "h1", <<"disk", "url">>)>>)>>
}

MCPreferences == {<<"r1">>, <<"r2">>, <<"r1", "r2">>, <<"r2", "r1">>}

MCOSVersion == 1 .. 3
=============================================================================
