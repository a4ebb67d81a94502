----------------------------- MODULE PortForward -----------------------------
(***************************************************************************)
(* internal/pforward: the supervisor of the `kubectl port-forward` child.  *)
(*                                                                         *)
(* One loop goroutine (run / runOnce) starts a child, waits for its exit,  *)
(* backs off and starts the next one.  Each child has a scanner goroutine  *)
(* that reads its stdout pipe; scanners of earlier attempts may still be   *)
(* running while a later attempt is supervised, and all of them latch      *)
(* m.ready under m.mu.  main() calls Start, WaitReady and Stop from its    *)
(* own goroutine, and a signal cancels the context Start was given.        *)
(*                                                                         *)
(* The identifiers in Attempts are recycled once an attempt's scanner has  *)
(* ended, so the loop can restart for ever; Attempts bounds the scanners   *)
(* that overlap and PipeCap the lines an OS pipe holds.                    *)
(***************************************************************************)
EXTENDS Naturals, Sequences

CONSTANTS Attempts,        \* identities of runOnce calls that spawned a child
          None,            \* no attempt
          PipeCap,         \* lines the stdout pipe can hold
          InitialBackoff,  \* pforward.go:18
          MaxBackoff,      \* pforward.go:19
          FailCap,         \* bound of the history counter fails
          Doubled          \* the initial delay doubled n times, n up to FailCap

ASSUME AttemptsAssumption == None \notin Attempts
ASSUME PipeAssumption == PipeCap \in Nat \ {0}
ASSUME BackoffAssumption == /\ InitialBackoff \in Nat \ {0}
                            /\ MaxBackoff \in Nat
                            /\ InitialBackoff <= MaxBackoff
ASSUME FailCapAssumption == FailCap \in Nat
ASSUME DoubledAssumption == /\ Doubled \in [0..FailCap -> Nat]
                            /\ Doubled[0] = InitialBackoff
                            /\ \A n \in 1..FailCap : Doubled[n] = 2 * Doubled[n - 1]
ASSUME FailCapSuffices == Doubled[FailCap] >= MaxBackoff

VARIABLES
  ctxDone,   \* the supervision context is cancelled
  cancel,    \* m.cancel is set
  ready,     \* how often m.ready has been closed: Go panics at the second
  mu,        \* the attempt whose scanner holds m.mu, or None
  pc,        \* where the loop goroutine is
  cur,       \* the attempt runOnce is waiting for, or None
  wasReady,  \* what the last runOnce returned
  backoff,   \* the loop's local variable
  child,     \* per attempt: the kubectl process
  pipe,      \* per attempt: lines in the stdout pipe
  held,      \* per attempt: lines in the scanner's buffer
  scan,      \* per attempt: where the scanner goroutine is
  marked,    \* per attempt: attemptReady is closed
  waiter,    \* the caller of WaitReady
  reported,  \* history, per attempt: kubectl printed the readiness line
  everReported, \* history: some kubectl printed it
  fails      \* history: backoffs slept since the last reset (capped)

loopVars == <<pc, cur, wasReady, backoff, fails>>
ctlVars  == <<ctxDone, cancel>>
procVars == <<child, pipe, reported, everReported>>
scanVars == <<held, scan, marked, mu, ready>>
vars == <<ctxDone, cancel, ready, mu, pc, cur, wasReady, backoff, child, pipe,
          held, scan, marked, waiter, reported, everReported, fails>>

Lines == {"ready", "other"}
LoopStates == {"idle", "begin", "fork", "wait", "verdict", "check", "sleep",
               "done"}
ScanStates == {"none", "scan", "lock", "locked", "closing"}

(* Mutant: the delay is doubled without a limit.                           *)
Uncapped(n, cap) == n

Capped(n, cap) == IF n > cap THEN cap ELSE n

Init ==
  /\ ctxDone = FALSE /\ cancel = FALSE /\ ready = 0 /\ mu = None
  /\ pc = "idle" /\ cur = None /\ wasReady = FALSE /\ backoff = InitialBackoff
  /\ child = [a \in Attempts |-> "none"]
  /\ pipe = [a \in Attempts |-> <<>>]
  /\ held = [a \in Attempts |-> <<>>]
  /\ scan = [a \in Attempts |-> "none"]
  /\ marked = [a \in Attempts |-> FALSE]
  /\ waiter = "idle"
  /\ reported = [a \in Attempts |-> FALSE] /\ everReported = FALSE
  /\ fails = 0

-----------------------------------------------------------------------------
(* The exported operations, called by main().                              *)

Start ==
  /\ pc = "idle" /\ mu = None
  /\ cancel' = TRUE
  /\ pc' = "begin"
  /\ UNCHANGED <<ctxDone, cur, wasReady, backoff, fails, waiter>>
  /\ UNCHANGED procVars /\ UNCHANGED scanVars

(* Before Start there is no cancel function and Stop does nothing.         *)
Stop ==
  /\ mu = None /\ cancel
  /\ ctxDone' = TRUE
  /\ UNCHANGED <<cancel, waiter>>
  /\ UNCHANGED loopVars /\ UNCHANGED procVars /\ UNCHANGED scanVars

(* A signal cancels the parent of the supervision context.                 *)
ParentCancelled ==
  /\ ~ctxDone
  /\ ctxDone' = TRUE
  /\ UNCHANGED <<cancel, waiter>>
  /\ UNCHANGED loopVars /\ UNCHANGED procVars /\ UNCHANGED scanVars

SetWaiter(from, to) ==
  /\ waiter = from /\ waiter' = to
  /\ UNCHANGED ctlVars /\ UNCHANGED loopVars
  /\ UNCHANGED procVars /\ UNCHANGED scanVars

WaitReadyCall == SetWaiter("idle", "waiting")
WaitReadyOk == ready > 0 /\ SetWaiter("waiting", "ok")
(* The waiter's own context ends; select may take this branch even when    *)
(* m.ready is closed too.                                                  *)
WaitReadyExpired == SetWaiter("waiting", "expired")

-----------------------------------------------------------------------------
(* The loop goroutine: run and runOnce.                                    *)

(* StdoutPipe or cmd.Start fails.  cmd.Start always fails when it finds    *)
(* the context cancelled.                                                  *)
StartFails ==
  /\ pc \in {"begin", "fork"}
  /\ wasReady' = FALSE
  /\ pc' = "check"
  /\ UNCHANGED <<cur, backoff, fails, waiter>>
  /\ UNCHANGED ctlVars /\ UNCHANGED procVars /\ UNCHANGED scanVars

(* cmd.Start found the context alive; a cancellation may still land before *)
(* the process exists.                                                     *)
StartChecked ==
  /\ pc = "begin" /\ ~ctxDone
  /\ pc' = "fork"
  /\ UNCHANGED <<cur, wasReady, backoff, fails, waiter>>
  /\ UNCHANGED ctlVars /\ UNCHANGED procVars /\ UNCHANGED scanVars

Free(a) == child[a] # "running" /\ scan[a] = "none" /\ cur # a

(* Mutant: one attemptReady channel for all attempts.                      *)
SpawnSharingChannel(a) ==
  /\ pc = "fork" /\ Free(a)
  /\ cur' = a /\ pc' = "wait"
  /\ child' = [child EXCEPT ![a] = "running"]
  /\ scan' = [scan EXCEPT ![a] = "scan"]
  /\ reported' = [reported EXCEPT ![a] = FALSE]
  /\ UNCHANGED <<marked, pipe, held, mu, ready, everReported>>
  /\ UNCHANGED <<wasReady, backoff, fails, waiter>>
  /\ UNCHANGED ctlVars

Spawn(a) ==
  /\ pc = "fork" /\ Free(a)
  /\ cur' = a /\ pc' = "wait"
  /\ child' = [child EXCEPT ![a] = "running"]
  /\ scan' = [scan EXCEPT ![a] = "scan"]
  /\ marked' = [marked EXCEPT ![a] = FALSE]
  /\ reported' = [reported EXCEPT ![a] = FALSE]
  /\ UNCHANGED <<pipe, held, mu, ready, everReported>>
  /\ UNCHANGED <<wasReady, backoff, fails, waiter>>
  /\ UNCHANGED ctlVars

(* Mutant: runOnce returns while its child still runs.                     *)
WaitReturnsEarly ==
  /\ pc = "wait"
  /\ pc' = "verdict"
  /\ UNCHANGED <<cur, wasReady, backoff, fails, waiter>>
  /\ UNCHANGED ctlVars /\ UNCHANGED procVars /\ UNCHANGED scanVars

(* cmd.Wait returns once the process is gone, and closes the read end of   *)
(* the pipe: what the scanner has not read by then is lost.                *)
WaitReturns ==
  /\ pc = "wait" /\ child[cur] = "exited"
  /\ pc' = "verdict"
  /\ pipe' = [pipe EXCEPT ![cur] = <<>>]
  /\ UNCHANGED <<cur, wasReady, backoff, fails, waiter>>
  /\ UNCHANGED <<child, reported, everReported>>
  /\ UNCHANGED ctlVars /\ UNCHANGED scanVars

Verdict ==
  /\ pc = "verdict"
  /\ wasReady' = marked[cur]
  /\ cur' = None /\ pc' = "check"
  /\ UNCHANGED <<backoff, fails, waiter>>
  /\ UNCHANGED ctlVars /\ UNCHANGED procVars /\ UNCHANGED scanVars

RunCancelled ==
  /\ pc = "check" /\ ctxDone
  /\ pc' = "done"
  /\ UNCHANGED <<cur, wasReady, backoff, fails, waiter>>
  /\ UNCHANGED ctlVars /\ UNCHANGED procVars /\ UNCHANGED scanVars

(* run goes on from its cancellation check to state next.                  *)
BackOffTo(next, delay, count) ==
  /\ pc = "check" /\ pc' = next
  /\ backoff' = delay /\ fails' = count
  /\ UNCHANGED <<cur, wasReady, waiter>>
  /\ UNCHANGED ctlVars /\ UNCHANGED procVars /\ UNCHANGED scanVars

(* Mutants: ctx.Err is not looked at; the delay is not reset; the loop     *)
(* ends when a child never became ready.                                   *)
RunBackoffUnchecked == BackOffTo("sleep", backoff, fails)
RunBackoffNoReset ==
  ~ctxDone /\ BackOffTo("sleep", backoff, IF wasReady THEN 0 ELSE fails)
RunBackoffGivesUp ==
  ~ctxDone /\ BackOffTo(IF wasReady THEN "sleep" ELSE "done", backoff, fails)

RunBackoff ==
  /\ ~ctxDone
  /\ BackOffTo("sleep", IF wasReady THEN InitialBackoff ELSE backoff,
                        IF wasReady THEN 0 ELSE fails)

(* The timer fires.  select picks either branch when both are ready, so    *)
(* this is possible after the cancellation as well.                        *)
BackoffElapsed ==
  /\ pc = "sleep"
  /\ backoff' = Capped(2 * backoff, MaxBackoff)
  /\ fails' = Capped(fails + 1, FailCap)
  /\ pc' = "begin"
  /\ UNCHANGED <<cur, wasReady, waiter>>
  /\ UNCHANGED ctlVars /\ UNCHANGED procVars /\ UNCHANGED scanVars

BackoffCancelled ==
  /\ pc = "sleep" /\ ctxDone
  /\ pc' = "done"
  /\ UNCHANGED <<cur, wasReady, backoff, fails, waiter>>
  /\ UNCHANGED ctlVars /\ UNCHANGED procVars /\ UNCHANGED scanVars

-----------------------------------------------------------------------------
(* The kubectl process (external).                                         *)

ChildPrints(a, line) ==
  /\ child[a] = "running" /\ Len(pipe[a]) < PipeCap
  /\ pipe' = [pipe EXCEPT ![a] = Append(@, line)]
  /\ reported' = [reported EXCEPT ![a] = @ \/ line = "ready"]
  /\ everReported' = (everReported \/ line = "ready")
  /\ UNCHANGED <<child, waiter>>
  /\ UNCHANGED ctlVars /\ UNCHANGED loopVars /\ UNCHANGED scanVars

ChildExits(a) ==
  /\ child[a] = "running"
  /\ child' = [child EXCEPT ![a] = "exited"]
  /\ UNCHANGED <<pipe, reported, everReported, waiter>>
  /\ UNCHANGED ctlVars /\ UNCHANGED loopVars /\ UNCHANGED scanVars

(* exec.CommandContext kills the child when the context is cancelled.      *)
KillChild(a) == ctxDone /\ ChildExits(a)

-----------------------------------------------------------------------------
(* The scanner goroutine of attempt a.                                     *)

(* One read moves whatever the pipe holds into bufio's buffer.             *)
ScanRead(a) ==
  /\ scan[a] = "scan" /\ held[a] = <<>> /\ pipe[a] # <<>>
  /\ held' = [held EXCEPT ![a] = pipe[a]]
  /\ pipe' = [pipe EXCEPT ![a] = <<>>]
  /\ UNCHANGED <<scan, marked, mu, ready, child, reported, everReported, waiter>>
  /\ UNCHANGED ctlVars /\ UNCHANGED loopVars

ScanLine(a) ==
  /\ scan[a] = "scan" /\ held[a] # <<>>
  /\ held' = [held EXCEPT ![a] = Tail(@)]
  /\ IF Head(held[a]) = "ready" /\ ~marked[a]
     THEN /\ marked' = [marked EXCEPT ![a] = TRUE]
          /\ scan' = [scan EXCEPT ![a] = "lock"]
     ELSE UNCHANGED <<marked, scan>>
  /\ UNCHANGED <<mu, ready, waiter>>
  /\ UNCHANGED ctlVars /\ UNCHANGED loopVars /\ UNCHANGED procVars

(* Mutant: m.mu is not taken.                                              *)
ScanLockNot(a) ==
  /\ scan[a] = "lock"
  /\ scan' = [scan EXCEPT ![a] = "locked"]
  /\ UNCHANGED <<held, marked, ready, mu, waiter>>
  /\ UNCHANGED ctlVars /\ UNCHANGED loopVars /\ UNCHANGED procVars

ScanLock(a) ==
  /\ scan[a] = "lock" /\ mu = None
  /\ mu' = a
  /\ scan' = [scan EXCEPT ![a] = "locked"]
  /\ UNCHANGED <<held, marked, ready, waiter>>
  /\ UNCHANGED ctlVars /\ UNCHANGED loopVars /\ UNCHANGED procVars

(* Mutant: m.mu is kept when m.ready is closed already.                    *)
ScanAlreadyReadyKeepsLock(a) ==
  /\ scan[a] = "locked" /\ ready > 0
  /\ scan' = [scan EXCEPT ![a] = "scan"]
  /\ UNCHANGED <<held, marked, ready, mu, waiter>>
  /\ UNCHANGED ctlVars /\ UNCHANGED loopVars /\ UNCHANGED procVars

ScanAlreadyReady(a) ==
  /\ scan[a] = "locked" /\ ready > 0
  /\ mu' = None
  /\ scan' = [scan EXCEPT ![a] = "scan"]
  /\ UNCHANGED <<held, marked, ready, waiter>>
  /\ UNCHANGED ctlVars /\ UNCHANGED loopVars /\ UNCHANGED procVars

ScanNotReady(a) ==
  /\ scan[a] = "locked" /\ ready = 0
  /\ scan' = [scan EXCEPT ![a] = "closing"]
  /\ UNCHANGED <<held, marked, mu, ready, waiter>>
  /\ UNCHANGED ctlVars /\ UNCHANGED loopVars /\ UNCHANGED procVars

(* The scanner closes m.ready, unlocks m.mu and goes on to state next.     *)
CloseReadyTo(a, next) ==
  /\ scan[a] = "closing"
  /\ ready' = ready + 1
  /\ mu' = None
  /\ scan' = [scan EXCEPT ![a] = next]
  /\ UNCHANGED <<held, marked, waiter>>
  /\ UNCHANGED ctlVars /\ UNCHANGED loopVars /\ UNCHANGED procVars

ScanClose(a) == CloseReadyTo(a, "scan")

(* The goroutine ends at the end of the file, when the pipe is closed under*)
(* it, or at a line longer than bufio.Scanner takes; then nobody reads what*)
(* kubectl prints after it.                                                *)
ScanEnds(a) ==
  /\ scan[a] = "scan"
  /\ \/ held[a] = <<>> /\ pipe[a] = <<>> /\ child[a] = "exited"
     \/ held[a] # <<>> /\ Head(held[a]) = "other"
  /\ scan' = [scan EXCEPT ![a] = "none"]
  /\ held' = [held EXCEPT ![a] = <<>>]
  /\ UNCHANGED <<marked, mu, ready, waiter>>
  /\ UNCHANGED ctlVars /\ UNCHANGED loopVars /\ UNCHANGED procVars

-----------------------------------------------------------------------------
Caller == \/ Start \/ Stop \/ ParentCancelled
          \/ WaitReadyCall \/ WaitReadyOk \/ WaitReadyExpired

Loop == \/ StartFails \/ StartChecked \/ \E a \in Attempts : Spawn(a)
        \/ WaitReturns \/ Verdict \/ RunCancelled \/ RunBackoff
        \/ BackoffElapsed \/ BackoffCancelled

Kubectl(a) == (\E line \in Lines : ChildPrints(a, line)) \/ ChildExits(a)

Scanner(a) == \/ ScanRead(a) \/ ScanLine(a) \/ ScanLock(a)
              \/ ScanAlreadyReady(a) \/ ScanNotReady(a) \/ ScanClose(a)
              \/ ScanEnds(a)

Next == \/ Caller
        \/ Loop
        \/ \E a \in Attempts : Kubectl(a) \/ KillChild(a) \/ Scanner(a)

(* Goroutines are scheduled, the cancellation kill is delivered and a      *)
(* waiting locker gets m.mu in the end (sync.Mutex does not starve).       *)
(* Nothing is assumed of kubectl, of main() or of signals.                 *)
Fairness ==
  /\ WF_vars(Loop)
  /\ \A a \in Attempts : /\ WF_vars(KillChild(a))
                         /\ WF_vars(Scanner(a))
                         /\ SF_vars(ScanLock(a))
  /\ WF_vars(WaitReadyOk)

Spec == Init /\ [][Next]_vars
FairSpec == Spec /\ Fairness

-----------------------------------------------------------------------------
(* Properties.                                                             *)

TypeOK ==
  /\ ctxDone \in BOOLEAN /\ cancel \in BOOLEAN
  /\ ready \in Nat
  /\ mu \in Attempts \cup {None}
  /\ pc \in LoopStates
  /\ cur \in Attempts \cup {None}
  /\ pc \in {"wait", "verdict"} => cur \in Attempts
  /\ wasReady \in BOOLEAN
  /\ backoff \in InitialBackoff..MaxBackoff
  /\ child \in [Attempts -> {"none", "running", "exited"}]
  /\ pipe \in [Attempts -> Seq(Lines)]
  /\ held \in [Attempts -> Seq(Lines)]
  /\ scan \in [Attempts -> ScanStates]
  /\ marked \in [Attempts -> BOOLEAN]
  /\ waiter \in {"idle", "waiting", "ok", "expired"}
  /\ reported \in [Attempts -> BOOLEAN] /\ everReported \in BOOLEAN
  /\ fails \in 0..FailCap

(* The local port has one owner: the loop never starts a kubectl while an  *)
(* earlier one is alive (the restart waits for cmd.Wait, pforward.go:165). *)
OneChild ==
  \A a, b \in Attempts :
    child[a] = "running" /\ child[b] = "running" => a = b

(* The scanners of several attempts race to close m.ready; it is closed at *)
(* most once, so none of them panics (pforward.go:152-158).                *)
ReadyClosedOnce == ready <= 1

(* WaitReady returns nil only if some kubectl really printed its readiness *)
(* line (pforward.go:84-91, 147).                                          *)
WaitReadyHonest == waiter = "ok" => everReported

(* The delay before the next attempt is the initial one doubled once for   *)
(* every backoff slept since the last attempt judged ready, and capped     *)
(* (pforward.go:94, 100-113).                                              *)
BackoffSchedule ==
  pc = "sleep" => backoff = Capped(Doubled[fails], MaxBackoff)

(* The step in which runOnce decides what to report of the attempt cur.    *)
JudgedNow == pc = "verdict" /\ pc' = "check"

(* runOnce never calls an attempt ready whose kubectl did not report it,   *)
(* even though an earlier attempt's scanner may still be marking its own   *)
(* channel (pforward.go:121, 151, 166-171).                                *)
NoFalseReady ==
  [][JudgedNow /\ wasReady' => reported[cur]]_vars

(* "Stop terminates the child process and stops restarts" (pforward.go:71),*)
(* also when it is called while a child is being started.                  *)
StopTerminates ==
  (ctxDone /\ pc # "idle")
    ~> [](pc = "done" /\ \A a \in Attempts : child[a] # "running")

(* No scanner goroutine outlives its kubectl for ever: it neither waits    *)
(* for m.mu without end nor misses the end of the pipe.                    *)
ScannersEnd ==
  \A a \in Attempts : (child[a] = "exited") ~> (scan[a] = "none")

(* When the kubectl dies the loop comes round to a new attempt, unless it  *)
(* is cancelled (pforward.go:93-115).                                      *)
KeepsRestarting ==
  (pc = "wait" /\ child[cur] = "exited") ~> (pc = "begin" \/ ctxDone)
==============================================================================
