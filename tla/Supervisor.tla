----------------------------- MODULE Supervisor -----------------------------
(***************************************************************************)
(* What main() relies on when it owns a port-forward Manager: one service  *)
(* that goes up and down, a readiness latch that is honest and never       *)
(* reopens, and a Stop after which no start is begun and the service ends  *)
(* down for good.                                                          *)
(* PortForward implements this specification.                              *)
(***************************************************************************)
VARIABLES phase,     \* off, down, starting, up, stopped
          stopping,  \* Stop was called, or the context cancelled
          reported,  \* some kubectl reported readiness
          latched    \* WaitReady no longer blocks

vars == <<phase, stopping, reported, latched>>

Init == /\ phase = "off" /\ stopping = FALSE
        /\ reported = FALSE /\ latched = FALSE

Move(from, to) == /\ phase = from /\ phase' = to
                  /\ UNCHANGED <<stopping, reported, latched>>

Launch == Move("off", "down")
(* cmd.Start refuses a cancelled context; a cancellation after it looked   *)
(* finds a kubectl that comes up, to be killed.                            *)
Begin  == ~stopping /\ Move("down", "starting")
Up     == Move("starting", "up")
Down   == Move("starting", "down") \/ Move("up", "down")
Finish == stopping /\ Move("down", "stopped")

Cancel == /\ stopping' = TRUE
          /\ UNCHANGED <<phase, reported, latched>>

Report == /\ phase = "up" /\ reported' = TRUE
          /\ UNCHANGED <<phase, stopping, latched>>

Latch == /\ reported /\ latched' = TRUE
         /\ UNCHANGED <<phase, stopping, reported>>

Next == Launch \/ Begin \/ Up \/ Down \/ Finish \/ Cancel \/ Report \/ Latch

Spec == /\ Init /\ [][Next]_vars
        /\ WF_vars(stopping /\ Down) /\ WF_vars(Finish)
=============================================================================
