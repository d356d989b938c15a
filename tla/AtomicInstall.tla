---------------------------- MODULE AtomicInstall ----------------------------
(***************************************************************************)
(* What InstallAddon promises to its callers: it makes one docker version  *)
(* usable, for one OS version of the call after the other; then, in one    *)
(* step, it makes the next boot apply that version; and it says "ok" only  *)
(* after that.  Wherever it fails or is killed, the next boot applies what *)
(* it applied before, or all that was asked for, and nothing that was      *)
(* usable before is lost.                                                  *)
(***************************************************************************)
CONSTANTS OSVersion, Ref, NoImage

VARIABLES state,     \* of the call: "idle", "busy", and then how it ended
          version,   \* the docker version it is for
          targets,   \* the OS versions it is for
          usable,    \* usable[o]: the docker versions OS version o can use
          boot       \* the docker version the next boot applies, or NoImage

vars == <<state, version, targets, usable, boot>>

Init ==
  /\ state = "idle"
  /\ version \in Ref
  /\ targets = {}
  /\ usable \in [OSVersion -> SUBSET Ref]
  /\ boot \in Ref \cup {NoImage}

Call ==
  /\ state = "idle"
  /\ state' = "busy"
  /\ version' \in Ref
  /\ targets' \in SUBSET OSVersion
  /\ UNCHANGED <<usable, boot>>

Provide ==
  /\ state = "busy"
  /\ \E o \in targets : usable' = [usable EXCEPT ![o] = @ \cup {version}]
  /\ UNCHANGED <<state, version, targets, boot>>

Switch ==
  /\ state = "busy"
  /\ \A o \in targets : version \in usable[o]
  /\ boot' = version
  /\ state' \in {"busy", "ok"}
  /\ UNCHANGED <<version, targets, usable>>

Fail ==
  /\ state = "busy"
  /\ state' = "failed"
  /\ UNCHANGED <<version, targets, usable, boot>>

(* The caller goes on, or its process is gone.                            *)
End ==
  /\ state # "idle"
  /\ state' = "idle"
  /\ targets' = {}
  /\ UNCHANGED <<version, usable, boot>>

(* Between two calls an operator may select a profile, and stores of old  *)
(* OS versions may be removed.                                            *)
OthersAct ==
  /\ state = "idle"
  /\ boot' \in Ref \cup {NoImage}
  /\ usable' \in [OSVersion -> SUBSET Ref]
  /\ \A o \in OSVersion : usable'[o] \subseteq usable[o]
  /\ UNCHANGED <<state, version, targets>>

Next == Call \/ Provide \/ Switch \/ Fail \/ End \/ OthersAct

Spec == Init /\ [][Next]_vars
=============================================================================
