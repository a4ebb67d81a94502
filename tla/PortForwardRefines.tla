------------------------- MODULE PortForwardRefines -------------------------
(* PortForward implements Supervisor.                                      *)
EXTENDS PortForward

Running == \E a \in Attempts : child[a] = "running"

Phase ==
  CASE pc = "idle" -> "off"
    [] pc = "fork" -> "starting"
    [] pc = "done" -> "stopped"
    [] OTHER       -> IF Running THEN "up" ELSE "down"

Service == INSTANCE Supervisor WITH
             phase <- Phase, stopping <- ctxDone,
             reported <- everReported, latched <- ready > 0

(* The supervisor loop, its children and scanners, seen from main(), are   *)
(* one service that goes up and down, latches only real reports, and ends  *)
(* down after a cancellation.                                              *)
ImplementsSupervisor == Service!Spec
=============================================================================
