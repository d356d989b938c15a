-------------------------- MODULE MCNodeAnnotation --------------------------
(***************************************************************************)
(* NodeAnnotation with the annotation of the hook and one of the kubelet.  *)
(***************************************************************************)
EXTENDS NodeAnnotation

MCKey   == {"hook-ok", "kubelet"}
MCValue == {"true", "false"}
=============================================================================
