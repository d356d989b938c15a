---------------------------- MODULE MCUpdateWatch ----------------------------
(***************************************************************************)
(* UpdateWatch with a daemon that is idle or busy when OSUpdate connects.  *)
(***************************************************************************)
EXTENDS UpdateWatch

MCIdle == {"idle"}
MCBusy == {"idle", "downloading"}
=============================================================================
