------------------------------- MODULE MCFetch -------------------------------
(***************************************************************************)
(* Fetch for two OS versions, the running and the coming one, and one      *)
(* republication of each object.                                           *)
(***************************************************************************)
EXTENDS Fetch

MCOSVersion == {"current", "next"}
=============================================================================
