---------------------------- MODULE MCKubeSources ----------------------------
(***************************************************************************)
(* KubeSources with two minor versions, and sources that are good, have    *)
(* one of them only, cannot be parsed, or are missing.                     *)
(***************************************************************************)
EXTENDS KubeSources

MCMinor == {"1.7", "1.8"}

Have(minor, sep) == [minor |-> minor, sep |-> sep]

MCDockerVersions == {<<"1.12">>, <<"1.13", "1.12">>}
MCAll  == [n \in MCMinor |-> IF n = "1.7" THEN <<"1.12">> ELSE <<"1.13", "1.12">>]
MCOld  == [MCAll EXCEPT !["1.8"] = Absent]
MCNew  == [MCAll EXCEPT !["1.7"] = Absent, !["1.8"] = <<"1.12">>]

MCClusterVersions   == {Have("1.7", ""), Have("1.8", "+")}
MCInstallerEnvs     == {Have("1.7", "_"), Have(Garbled, ""), NoTag, Absent}
MCConfigMaps        == {MCAll, MCNew, Garbled, Absent}
MCInstallerMappings == {MCAll, MCOld, Absent}
MCCluoMappings      == {MCAll, MCNew, Garbled}

MCOSReleases ==
  {[version |-> TRUE,  board |-> FALSE, arch |-> TRUE],
   [version |-> TRUE,  board |-> FALSE, arch |-> FALSE]}
MCConfs ==
  [kubeconfig : {"good"}, force : {Absent, Have("1.8", "_")}]
    \cup [kubeconfig : {"none", "broken"}, force : {Absent}]
    \cup [kubeconfig : {"none"}, force : {Have("1.8", "+")}]
=============================================================================
