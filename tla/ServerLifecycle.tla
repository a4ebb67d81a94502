--------------------------- MODULE ServerLifecycle ---------------------------
(***************************************************************************)
(* The life of the server process (cmd/server/main.go): it connects to     *)
(* substrate, in portforward mode through a supervised kubectl, resolves   *)
(* the gateway's master key, serves HTTP, and ends on a signal or a fatal  *)
(* error.                                                                  *)
(*                                                                         *)
(* The port-forward manager is its abstract specification, Supervisor,     *)
(* which PortForward implements.  Its goroutines, and that of the HTTP     *)
(* shutdown, run only while the process does; the kubectl child is a       *)
(* process of its own.                                                     *)
(***************************************************************************)

VARIABLES
  mode,      \* the connection mode detectMode picked
  pc,        \* where main is
  exit,      \* how the process ended
  ctxDone,   \* the context of signal.NotifyContext is cancelled
  shutdown,  \* the goroutine that shuts the HTTP server down
  phase, stopping, reported, latched   \* the port-forward manager

forward == <<phase, stopping, reported, latched>>
lifecycleVars == <<mode, pc, exit, ctxDone, shutdown, forward>>

Forward == INSTANCE Supervisor

Modes == {"direct", "incluster", "portforward"}

Alive == pc # "exited"

LifecycleInit ==
  /\ mode \in Modes
  /\ pc = "connect" /\ exit = "none"
  /\ ctxDone = FALSE
  /\ shutdown = "none"
  /\ Forward!Init

At(here, next) == /\ pc = here /\ pc' = next
                  /\ UNCHANGED <<mode, exit, ctxDone>>

(* os.Exit(1): no deferred call runs.                                      *)
Fatal(here) ==
  /\ pc = here
  /\ pc' = "exited" /\ exit' = "fatal"
  /\ UNCHANGED <<mode, ctxDone, shutdown, forward>>

-----------------------------------------------------------------------------
(* connectSubstrate.                                                       *)

ConnectDirect ==
  /\ mode # "portforward"
  /\ At("connect", "dial")
  /\ UNCHANGED <<shutdown, forward>>

(* Mutant: the mode switch falls through to the port-forward.              *)
StartForwardAlways ==
  /\ At("connect", "waiting")
  /\ Forward!Launch
  /\ UNCHANGED shutdown

StartForward ==
  /\ mode = "portforward"
  /\ At("connect", "waiting")
  /\ Forward!Launch
  /\ UNCHANGED shutdown

WaitReadyOk ==
  /\ latched
  /\ At("waiting", "dial")
  /\ UNCHANGED <<shutdown, forward>>

(* Mutant: WaitReady gets the process's context, which has no timeout.     *)
WaitReadyExpiredOnSignal ==
  /\ ctxDone
  /\ At("waiting", "dial")
  /\ UNCHANGED <<shutdown, forward>>

(* The 30 s have passed, or the process was signalled: startup goes on.    *)
WaitReadyExpired ==
  /\ At("waiting", "dial")
  /\ UNCHANGED <<shutdown, forward>>

(* Mutant: the manager was started with waitCtx, which connectSubstrate    *)
(* cancels when it returns.                                                *)
DialedCancelling ==
  /\ At("dial", "resolve")
  /\ UNCHANGED shutdown
  /\ IF mode = "portforward" THEN Forward!Cancel ELSE UNCHANGED forward

(* The first token is fetched by a goroutine (warmUpToken), dialling is    *)
(* lazy, and connectSubstrate returns.                                     *)
Dialed ==
  /\ At("dial", "resolve")
  /\ UNCHANGED <<shutdown, forward>>

DialFails == Fatal("dial")

-----------------------------------------------------------------------------
(* The rest of main.                                                       *)

(* kube.New, ResolveMasterKey (at most 10 s, only a warning when it fails) *)
(* and the routes; then the shutdown goroutine starts.                     *)
ResolveMasterKey ==
  /\ At("resolve", "listen")
  /\ shutdown' = "waiting"
  /\ UNCHANGED forward

(* ListenAndServe looks for a Shutdown before it binds ...                 *)
Listen ==
  /\ IF shutdown = "called" THEN At("listen", "stop") ELSE At("listen", "bind")
  /\ UNCHANGED <<shutdown, forward>>

ListenFails == Fatal("bind")

(* ... and when it registers the listener.                                 *)
Bound ==
  /\ IF shutdown = "called" THEN At("bind", "stop") ELSE At("bind", "serving")
  /\ UNCHANGED <<shutdown, forward>>

(* Accept fails for another reason than Shutdown.                          *)
ServeFails == shutdown # "called" /\ Fatal("serving")

(* http.ErrServerClosed, as soon as Shutdown is called: main does not wait *)
(* for Shutdown to return.                                                 *)
ServeClosed ==
  /\ shutdown = "called"
  /\ At("serving", "stop")
  /\ UNCHANGED <<shutdown, forward>>

(* defer pf.Stop()                                                         *)
Stop ==
  /\ At("stop", "close")
  /\ IF mode = "portforward" THEN Forward!Cancel ELSE UNCHANGED forward
  /\ UNCHANGED shutdown

(* defer sub.Close() and stop(), and main returns.                         *)
Close ==
  /\ pc = "close" /\ pc' = "exited" /\ exit' = "clean"
  /\ UNCHANGED <<mode, ctxDone, shutdown, forward>>

(* Mutant: the goroutine shuts down only a server that is serving, and     *)
(* ends otherwise.                                                         *)
ShutdownOnSignalIfServing ==
  /\ Alive /\ ctxDone /\ shutdown = "waiting"
  /\ shutdown' = IF pc = "serving" THEN "called" ELSE "none"
  /\ UNCHANGED <<mode, pc, exit, ctxDone, forward>>

(* The goroutine that waits for the signal calls Shutdown.                 *)
ShutdownOnSignal ==
  /\ Alive /\ ctxDone /\ shutdown = "waiting"
  /\ shutdown' = "called"
  /\ UNCHANGED <<mode, pc, exit, ctxDone, forward>>

(* SIGINT or SIGTERM cancels the context, and with it the manager's.       *)
Signal ==
  /\ Alive /\ ~ctxDone
  /\ ctxDone' = TRUE
  /\ Forward!Cancel
  /\ UNCHANGED <<mode, pc, exit, shutdown>>

(* What the manager and its kubectl do meanwhile.                          *)
Manage(action) == /\ Alive /\ action
                  /\ UNCHANGED <<mode, pc, exit, ctxDone, shutdown>>
ForwardBegin  == Manage(Forward!Begin)
ForwardUp     == Manage(Forward!Up)
ForwardReport == Manage(Forward!Report)
ForwardLatch  == Manage(Forward!Latch)
ForwardDown   == Manage(Forward!Down)
ForwardFinish == Manage(Forward!Finish)

(* A kubectl that outlived the server may still end by itself.             *)
OrphanEnds ==
  /\ ~Alive /\ phase = "up" /\ Forward!Down
  /\ UNCHANGED <<mode, pc, exit, ctxDone, shutdown>>

Main == \/ ConnectDirect \/ StartForward \/ WaitReadyOk \/ WaitReadyExpired
        \/ Dialed \/ DialFails \/ ResolveMasterKey \/ Listen \/ ListenFails
        \/ Bound \/ ServeFails \/ ServeClosed \/ Stop \/ Close

LifecycleNext ==
  \/ Main \/ ShutdownOnSignal \/ Signal
  \/ ForwardBegin \/ ForwardUp \/ ForwardReport \/ ForwardLatch
  \/ ForwardDown \/ ForwardFinish \/ OrphanEnds

LifecycleSpec == LifecycleInit /\ [][LifecycleNext]_lifecycleVars

(* Goroutines are scheduled, and every wait of main before it serves has a *)
(* timeout.  Accept need not ever fail.  While the process runs, the       *)
(* manager keeps the promises of Supervisor: a cancelled child is killed   *)
(* and the loop ends.                                                      *)
LifecycleFairness ==
  /\ WF_lifecycleVars(Main /\ ~ServeFails)
  /\ WF_lifecycleVars(ShutdownOnSignal)
  /\ WF_lifecycleVars(stopping /\ ForwardDown)
  /\ WF_lifecycleVars(ForwardFinish)

LifecycleFairSpec == LifecycleSpec /\ LifecycleFairness

-----------------------------------------------------------------------------
LifecycleTypeOK ==
  /\ mode \in Modes
  /\ pc \in {"connect", "waiting", "dial", "resolve", "listen", "bind",
             "serving", "stop", "close", "exited"}
  /\ exit \in {"none", "clean", "fatal"} /\ (exit = "none" <=> Alive)
  /\ ctxDone \in BOOLEAN
  /\ shutdown \in {"none", "waiting", "called"}
  /\ phase \in {"off", "down", "starting", "up", "stopped"}
  /\ mode # "portforward" => phase = "off" /\ ~latched
  /\ {stopping, reported, latched} \subseteq BOOLEAN

(* The forward is supervised for as long as the server may need it: only a *)
(* signal or the end of main stops the manager, not the end of the         *)
(* startup that waited for it (main.go:146-150, 186).                      *)
ForwardSupervisedWhileServing ==
  stopping => ctxDone \/ pc \in {"close", "exited"}

(* Neither a forward that never comes up nor a token or key that cannot be *)
(* fetched keeps the server from serving (main.go:92-103, 148-154).        *)
ServesOrExits == <>(pc \in {"serving", "exited"})

(* A signal ends the process at whatever point of its life it arrives,     *)
(* before the listener exists too (main.go:186, 224-236).                  *)
SignalEndsProcess == ctxDone ~> ~Alive

(* "Stop terminates the child process" (pforward.go:71): when main has     *)
(* returned through its deferred Stop (main.go:193), kubectl ends.         *)
StopTerminatesChild == exit = "clean" ~> phase # "up"
=============================================================================
