------------------------- MODULE PortForwardProofs -------------------------
(* Safety of the port-forward supervisor, for any number of overlapping    *)
(* attempts, any pipe capacity and any backoff constants.                  *)
EXTENDS PortForwardRefines, TLAPS

(***************************************************************************)
(* Type correctness.                                                       *)
(***************************************************************************)

(* The initial state is well typed.                                       *)
LEMMA TypeInit == Init => TypeOK
<1> SUFFICES ASSUME Init PROVE TypeOK
  OBVIOUS
<1> USE DEF Init
<1>1. backoff \in InitialBackoff..MaxBackoff /\ fails \in 0..FailCap /\ ready \in Nat
  BY BackoffAssumption, FailCapAssumption
<1>2. pipe \in [Attempts -> Seq(Lines)] /\ held \in [Attempts -> Seq(Lines)]
  <2>1. <<>> \in Seq(Lines)
    OBVIOUS
  <2> QED BY <2>1, Zenon
<1>3. marked \in [Attempts -> BOOLEAN] /\ reported \in [Attempts -> BOOLEAN]
  BY Zenon
<1>4. /\ child \in [Attempts -> {"none", "running", "exited"}]
      /\ scan \in [Attempts -> ScanStates]
  BY DEF ScanStates
<1> QED BY <1>1, <1>2, <1>3, <1>4, Zenon DEF TypeOK, LoopStates

(* Every action of the loop, of main(), of kubectl and of the scanners     *)
(* keeps the types.                                                        *)
LEMMA TypeStep == TypeOK /\ [Next]_vars => TypeOK'
<1> SUFFICES ASSUME TypeOK, [Next]_vars PROVE TypeOK'
  OBVIOUS
<1> USE DEF TypeOK, LoopStates, ScanStates, Lines
<1>1. CASE Caller
  BY <1>1 DEF Caller, Start, Stop, ParentCancelled, WaitReadyCall, WaitReadyOk,
     WaitReadyExpired, SetWaiter, loopVars, ctlVars, procVars, scanVars
<1>2. CASE Loop
  <2> USE DEF loopVars, ctlVars, procVars, scanVars
  <2>1. CASE StartFails \/ StartChecked \/ RunCancelled \/ BackoffCancelled
    BY <2>1 DEF StartFails, StartChecked, RunCancelled, BackoffCancelled
  <2>2. ASSUME NEW a \in Attempts, Spawn(a) PROVE TypeOK'
    BY <2>2 DEF Spawn
  <2>3. CASE WaitReturns
    BY <2>3 DEF WaitReturns
  <2>4. CASE Verdict
    <3>1. marked[cur] \in BOOLEAN
      BY <2>4 DEF Verdict
    <3> QED BY <2>4, <3>1 DEF Verdict
  <2>5. CASE RunBackoff
    BY <2>5, BackoffAssumption, FailCapAssumption DEF RunBackoff, BackOffTo
  <2>6. CASE BackoffElapsed
    BY <2>6, BackoffAssumption, FailCapAssumption DEF BackoffElapsed, Capped
  <2> QED BY <1>2, <2>1, <2>2, <2>3, <2>4, <2>5, <2>6 DEF Loop
<1>3. ASSUME NEW a \in Attempts, Kubectl(a) \/ KillChild(a) PROVE TypeOK'
  <2> USE DEF loopVars, ctlVars, procVars, scanVars
  <2>1. ASSUME NEW line \in Lines, ChildPrints(a, line) PROVE TypeOK'
    BY <2>1 DEF ChildPrints
  <2>2. CASE ChildExits(a)
    BY <2>2 DEF ChildExits
  <2> QED BY <1>3, <2>1, <2>2 DEF Kubectl, KillChild
<1>4. ASSUME NEW a \in Attempts, Scanner(a) PROVE TypeOK'
  <2> USE DEF loopVars, ctlVars, procVars, scanVars
  <2>1. CASE ScanRead(a)
    BY <2>1 DEF ScanRead
  <2>2. CASE ScanLine(a)
    <3>1. Tail(held[a]) \in Seq(Lines)
      BY <2>2 DEF ScanLine
    <3>2. held' \in [Attempts -> Seq(Lines)]
      BY <2>2, <3>1, Zenon DEF ScanLine
    <3>3. marked' \in [Attempts -> BOOLEAN] /\ scan' \in [Attempts -> ScanStates]
      BY <2>2, Zenon DEF ScanLine
    <3> QED BY <2>2, <3>2, <3>3 DEF ScanLine
  <2>3. CASE ScanLock(a)
    BY <2>3 DEF ScanLock
  <2>4. CASE ScanAlreadyReady(a)
    BY <2>4 DEF ScanAlreadyReady
  <2>6. CASE ScanNotReady(a)
    BY <2>6 DEF ScanNotReady
  <2>7. CASE ScanEnds(a)
    BY <2>7 DEF ScanEnds
  <2>5. CASE ScanClose(a)
    BY <2>5 DEF ScanClose, CloseReadyTo
  <2> QED BY <1>4, <2>1, <2>2, <2>3, <2>4, <2>5, <2>6, <2>7 DEF Scanner
<1>5. CASE UNCHANGED vars
  BY <1>5 DEF vars
<1> QED BY <1>1, <1>2, <1>3, <1>4, <1>5 DEF Next

(* No action leaves the declared ranges; in particular the delay stays     *)
(* between initialBackoff and maxBackoff (pforward.go:17-20, 94-113).      *)
THEOREM TypeCorrect == Spec => []TypeOK
BY TypeInit, TypeStep, PTL DEF Spec

-----------------------------------------------------------------------------
(***************************************************************************)
(* The inductive invariant.  OneChild alone is not inductive: nothing in   *)
(* it says that the loop is waiting for the one child that runs.  The      *)
(* other parts tie the scanners to m.mu, and each readiness mark to a      *)
(* report of that attempt's kubectl.                                       *)
(***************************************************************************)

(* A running child is the one cmd.Wait is waiting for.                     *)
ChildWaitedFor == \A a \in Attempts : child[a] = "running" => pc = "wait" /\ cur = a

(* m.mu is held by exactly the scanner inside the critical section, and    *)
(* m.ready is open while a scanner is about to close it.                   *)
LatchLocked ==
  /\ ready <= 1
  /\ \A a \in Attempts : scan[a] \in {"locked", "closing"} => mu = a
  /\ \A a \in Attempts : scan[a] = "closing" => ready = 0

HasReady(lines) == \E i \in 1..Len(lines) : lines[i] = "ready"

(* A scanner that has ended leaves no line behind, and cmd.Wait none in the*)
(* pipe, that a later attempt of the same identity could read.             *)
EndedClean ==
  \A a \in Attempts :
    /\ scan[a] = "none" => held[a] = <<>>
    /\ pipe[a] = <<>> \/ (pc = "wait" /\ cur = a)

(* What the loop and the latch take for readiness was printed by kubectl.  *)
MarksHonest ==
  /\ \A a \in Attempts :
       /\ HasReady(pipe[a]) \/ HasReady(held[a]) \/ marked[a] => reported[a]
       /\ scan[a] \in {"lock", "locked", "closing"} => marked[a]
       /\ reported[a] => everReported
  /\ ready > 0 => everReported
  /\ waiter = "ok" => everReported

IInv == TypeOK /\ ChildWaitedFor /\ LatchLocked /\ EndedClean /\ MarksHonest

(* cmd.Wait is what keeps a second kubectl from being started: only Spawn  *)
(* starts a child and only WaitReturns leaves the waiting state.           *)
LEMMA ChildStep == TypeOK /\ ChildWaitedFor /\ [Next]_vars => ChildWaitedFor'
<1> SUFFICES ASSUME TypeOK, ChildWaitedFor, [Next]_vars PROVE ChildWaitedFor'
  OBVIOUS
<1> USE DEF TypeOK, ChildWaitedFor, loopVars, ctlVars, procVars, scanVars
<1>1. CASE Caller
  BY <1>1 DEF Caller, Start, Stop, ParentCancelled, WaitReadyCall, WaitReadyOk,
     WaitReadyExpired, SetWaiter
<1>2. CASE Loop
  <2>1. ASSUME NEW a \in Attempts, Spawn(a) PROVE ChildWaitedFor'
    BY <2>1 DEF Spawn
  <2>2. CASE WaitReturns
    BY <2>2 DEF WaitReturns
  <2>3. CASE StartFails \/ StartChecked \/ Verdict
    BY <2>3 DEF StartFails, StartChecked, Verdict
  <2>4. CASE RunCancelled \/ RunBackoff \/ BackoffElapsed \/ BackoffCancelled
    BY <2>4 DEF RunCancelled, RunBackoff, BackOffTo, BackoffElapsed, BackoffCancelled
  <2> QED BY <1>2, <2>1, <2>2, <2>3, <2>4 DEF Loop
<1>3. ASSUME NEW a \in Attempts, Kubectl(a) \/ KillChild(a) PROVE ChildWaitedFor'
  BY <1>3 DEF Kubectl, KillChild, ChildPrints, ChildExits
<1>4. ASSUME NEW a \in Attempts, Scanner(a) PROVE ChildWaitedFor'
  BY <1>4 DEF Scanner, ScanRead, ScanLine, ScanLock, ScanAlreadyReady,
     ScanNotReady, ScanClose, CloseReadyTo, ScanEnds
<1>5. CASE UNCHANGED vars
  BY <1>5 DEF vars
<1> QED BY <1>1, <1>2, <1>3, <1>4, <1>5 DEF Next

(* Between ScanLock and the unlock no other scanner enters the critical    *)
(* section, so the state of m.ready that was looked at is still the case   *)
(* when it is closed.                                                      *)
LEMMA LatchStep == TypeOK /\ LatchLocked /\ [Next]_vars => LatchLocked'
<1> SUFFICES ASSUME TypeOK, LatchLocked, [Next]_vars PROVE LatchLocked'
  OBVIOUS
<1> USE DEF TypeOK, LatchLocked, ScanStates, loopVars, ctlVars, procVars, scanVars
<1>1. CASE Caller
  BY <1>1 DEF Caller, Start, Stop, ParentCancelled, WaitReadyCall, WaitReadyOk,
     WaitReadyExpired, SetWaiter
<1>2. CASE Loop
  <2>1. ASSUME NEW a \in Attempts, Spawn(a) PROVE LatchLocked'
    BY <2>1 DEF Spawn, Free
  <2>2. CASE WaitReturns \/ StartFails \/ StartChecked \/ Verdict
    BY <2>2 DEF WaitReturns, StartFails, StartChecked, Verdict
  <2>3. CASE RunCancelled \/ RunBackoff \/ BackoffElapsed \/ BackoffCancelled
    BY <2>3 DEF RunCancelled, RunBackoff, BackOffTo, BackoffElapsed, BackoffCancelled
  <2> QED BY <1>2, <2>1, <2>2, <2>3 DEF Loop
<1>3. ASSUME NEW a \in Attempts, Kubectl(a) \/ KillChild(a) PROVE LatchLocked'
  BY <1>3 DEF Kubectl, KillChild, ChildPrints, ChildExits
<1>4. ASSUME NEW a \in Attempts, Scanner(a) PROVE LatchLocked'
  <2>1. CASE ScanRead(a) \/ ScanLine(a) \/ ScanEnds(a)
    BY <2>1 DEF ScanRead, ScanLine, ScanEnds
  <2>2. CASE ScanLock(a)
    BY <2>2, AttemptsAssumption DEF ScanLock
  <2>3. CASE ScanAlreadyReady(a)
    BY <2>3 DEF ScanAlreadyReady
  <2>4. CASE ScanNotReady(a)
    BY <2>4 DEF ScanNotReady
  <2>5. CASE ScanClose(a)
    BY <2>5 DEF ScanClose, CloseReadyTo
  <2> QED BY <1>4, <2>1, <2>2, <2>3, <2>4, <2>5 DEF Scanner
<1>5. CASE UNCHANGED vars
  BY <1>5 DEF vars
<1> QED BY <1>1, <1>2, <1>3, <1>4, <1>5 DEF Next

(* Whether or not its scanner still reads, a pipe fills only while cmd.Wait*)
(* waits for the child; and an identity is given to a new child only when  *)
(* its scanner has ended.                                                  *)
LEMMA EndedStep ==
  TypeOK /\ ChildWaitedFor /\ EndedClean /\ [Next]_vars => EndedClean'
<1> SUFFICES ASSUME TypeOK, ChildWaitedFor, EndedClean, [Next]_vars PROVE EndedClean'
  OBVIOUS
<1> USE DEF TypeOK, EndedClean, loopVars, ctlVars, procVars, scanVars
<1>1. CASE Caller
  BY <1>1 DEF Caller, Start, Stop, ParentCancelled, WaitReadyCall, WaitReadyOk,
     WaitReadyExpired, SetWaiter
<1>2. CASE Loop
  <2>1. ASSUME NEW a \in Attempts, Spawn(a) PROVE EndedClean'
    BY <2>1 DEF Spawn
  <2>2. CASE WaitReturns
    BY <2>2 DEF WaitReturns
  <2>3. CASE StartFails \/ StartChecked \/ Verdict
    BY <2>3 DEF StartFails, StartChecked, Verdict
  <2>4. CASE RunCancelled \/ RunBackoff \/ BackoffElapsed \/ BackoffCancelled
    BY <2>4 DEF RunCancelled, RunBackoff, BackOffTo, BackoffElapsed, BackoffCancelled
  <2> QED BY <1>2, <2>1, <2>2, <2>3, <2>4 DEF Loop
<1>3. ASSUME NEW a \in Attempts, Kubectl(a) \/ KillChild(a) PROVE EndedClean'
  BY <1>3 DEF ChildWaitedFor, Kubectl, KillChild, ChildPrints, ChildExits
<1>4. ASSUME NEW a \in Attempts, Scanner(a) PROVE EndedClean'
  <2>1. CASE ScanRead(a)
    BY <2>1 DEF ScanRead
  <2>2. CASE ScanLine(a)
    BY <2>2 DEF ScanLine
  <2>3. CASE ScanEnds(a)
    BY <2>3 DEF ScanEnds
  <2>4. CASE ScanLock(a) \/ ScanAlreadyReady(a) \/ ScanNotReady(a)
    BY <2>4 DEF ScanLock, ScanAlreadyReady, ScanNotReady
  <2>5. CASE ScanClose(a)
    BY <2>5 DEF ScanClose, CloseReadyTo
  <2> QED BY <1>4, <2>1, <2>2, <2>3, <2>4, <2>5 DEF Scanner
<1>5. CASE UNCHANGED vars
  BY <1>5 DEF vars
<1> QED BY <1>1, <1>2, <1>3, <1>4, <1>5 DEF Next

(* Lines travel from the pipe to the scanner's buffer and out of it; none  *)
(* of these steps invents a readiness line.                                *)
LEMMA HasReadyAppend ==
  ASSUME NEW lines \in Seq(Lines), NEW line \in Lines, HasReady(Append(lines, line))
  PROVE  HasReady(lines) \/ line = "ready"
BY DEF HasReady

LEMMA HasReadyTail ==
  ASSUME NEW lines \in Seq(Lines), lines # <<>>, HasReady(Tail(lines))
  PROVE  HasReady(lines)
BY DEF HasReady

LEMMA HasReadyHead ==
  ASSUME NEW lines \in Seq(Lines), lines # <<>>, Head(lines) = "ready"
  PROVE  HasReady(lines)
BY DEF HasReady

LEMMA HasReadyEmpty == ~HasReady(<<>>)
BY DEF HasReady

(* A mark, a latch and a WaitReady that returned can all be traced back to *)
(* a line that a kubectl printed.                                          *)
LEMMA MarksStep == TypeOK /\ EndedClean /\ MarksHonest /\ [Next]_vars => MarksHonest'
<1> SUFFICES ASSUME TypeOK, EndedClean, MarksHonest, [Next]_vars PROVE MarksHonest'
  OBVIOUS
<1> USE DEF TypeOK, MarksHonest, loopVars, ctlVars, procVars, scanVars
<1>1. CASE Caller
  BY <1>1 DEF Caller, Start, Stop, ParentCancelled, WaitReadyCall, WaitReadyOk,
     WaitReadyExpired, SetWaiter
<1>2. CASE Loop
  <2>1. ASSUME NEW a \in Attempts, Spawn(a) PROVE MarksHonest'
    <3>1. ~HasReady(pipe[a]) /\ ~HasReady(held[a])
      BY <2>1, HasReadyEmpty DEF Spawn, Free, EndedClean
    <3> QED BY <2>1, <3>1 DEF Spawn
  <2>2. CASE WaitReturns
    BY <2>2, HasReadyEmpty DEF WaitReturns
  <2>3. CASE StartFails \/ StartChecked \/ Verdict
    BY <2>3 DEF StartFails, StartChecked, Verdict
  <2>4. CASE RunCancelled \/ RunBackoff \/ BackoffElapsed \/ BackoffCancelled
    BY <2>4 DEF RunCancelled, RunBackoff, BackOffTo, BackoffElapsed, BackoffCancelled
  <2> QED BY <1>2, <2>1, <2>2, <2>3, <2>4 DEF Loop
<1>3. ASSUME NEW a \in Attempts, Kubectl(a) \/ KillChild(a) PROVE MarksHonest'
  <2>1. ASSUME NEW line \in Lines, ChildPrints(a, line) PROVE MarksHonest'
    <3>1. HasReady(pipe'[a]) => HasReady(pipe[a]) \/ line = "ready"
      BY <2>1, HasReadyAppend DEF ChildPrints
    <3> QED BY <2>1, <3>1 DEF ChildPrints
  <2>2. CASE ChildExits(a)
    BY <2>2 DEF ChildExits
  <2> QED BY <1>3, <2>1, <2>2 DEF Kubectl, KillChild
<1>4. ASSUME NEW a \in Attempts, Scanner(a) PROVE MarksHonest'
  <2>1. CASE ScanRead(a)
    BY <2>1, HasReadyEmpty DEF ScanRead
  <2>2. CASE ScanLine(a)
    <3>1. HasReady(held'[a]) => HasReady(held[a])
      BY <2>2, HasReadyTail DEF ScanLine
    <3>2. marked'[a] => marked[a] \/ HasReady(held[a])
      BY <2>2, HasReadyHead DEF ScanLine
    <3> QED BY <2>2, <3>1, <3>2 DEF ScanLine
  <2>3. CASE ScanLock(a) \/ ScanAlreadyReady(a) \/ ScanNotReady(a)
    BY <2>3 DEF ScanLock, ScanAlreadyReady, ScanNotReady
  <2>5. CASE ScanEnds(a)
    BY <2>5, HasReadyEmpty DEF ScanEnds
  <2>4. CASE ScanClose(a)
    BY <2>4 DEF ScanClose, CloseReadyTo
  <2> QED BY <1>4, <2>1, <2>2, <2>3, <2>4, <2>5 DEF Scanner
<1>5. CASE UNCHANGED vars
  BY <1>5 DEF vars
<1> QED BY <1>1, <1>2, <1>3, <1>4, <1>5 DEF Next

-----------------------------------------------------------------------------
(* The parts together.                                                     *)
LEMMA Inductive == Spec => []IInv
<1>1. Init => IInv
  <2> SUFFICES ASSUME Init PROVE IInv
    OBVIOUS
  <2>1. TypeOK
    BY TypeInit
  <2>2. ChildWaitedFor /\ LatchLocked /\ EndedClean
    BY DEF Init, ChildWaitedFor, LatchLocked, EndedClean
  <2>3. MarksHonest
    BY HasReadyEmpty DEF Init, MarksHonest
  <2> QED BY <2>1, <2>2, <2>3 DEF IInv
<1>2. IInv /\ [Next]_vars => IInv'
  BY TypeStep, ChildStep, LatchStep, EndedStep, MarksStep DEF IInv
<1> QED BY <1>1, <1>2, PTL DEF Spec

(* The loop never has two kubectl processes on the local port, for any     *)
(* number of overlapping attempts (pforward.go:93-165).                    *)
THEOREM AtMostOneChild == Spec => []OneChild
<1>1. IInv => OneChild
  BY DEF IInv, ChildWaitedFor, OneChild
<1> QED BY <1>1, Inductive, PTL

(* m.ready is closed at most once, however many scanners race for it, so   *)
(* the close never panics (pforward.go:144-163).                           *)
THEOREM ReadyNeverReclosed == Spec => []ReadyClosedOnce
<1>1. IInv => ReadyClosedOnce
  BY DEF IInv, LatchLocked, ReadyClosedOnce
<1> QED BY <1>1, Inductive, PTL

(* A WaitReady that returned nil was preceded by a readiness line of some  *)
(* kubectl (pforward.go:84-91).                                            *)
THEOREM WaitReadyIsHonest == Spec => []WaitReadyHonest
<1>1. IInv => WaitReadyHonest
  BY DEF IInv, MarksHonest, WaitReadyHonest
<1> QED BY <1>1, Inductive, PTL

(* runOnce reports an attempt ready only if that attempt's own kubectl     *)
(* printed the line, so only then is the backoff reset (pforward.go:166).  *)
THEOREM VerdictNeverFalselyReady == Spec => NoFalseReady
<1>1. IInv /\ [Next]_vars => [JudgedNow /\ wasReady' => reported[cur]]_vars
  <2> SUFFICES ASSUME IInv, Next, JudgedNow, wasReady' PROVE reported[cur]
    OBVIOUS
  <2> USE DEF IInv, TypeOK, MarksHonest, JudgedNow, loopVars, ctlVars, procVars, scanVars
  <2>1. Verdict
    <3>1. ~Caller
      BY DEF Caller, Start, Stop, ParentCancelled, WaitReadyCall, WaitReadyOk,
         WaitReadyExpired, SetWaiter
    <3>2. ASSUME NEW a \in Attempts, Kubectl(a) \/ KillChild(a) PROVE FALSE
      BY <3>2 DEF Kubectl, KillChild, ChildPrints, ChildExits
    <3>3. ASSUME NEW a \in Attempts, Scanner(a) PROVE FALSE
      BY <3>3 DEF Scanner, ScanRead, ScanLine, ScanLock, ScanAlreadyReady,
         ScanNotReady, ScanClose, CloseReadyTo, ScanEnds
    <3>4. Loop
      BY <3>1, <3>2, <3>3 DEF Next
    <3> QED BY <3>4 DEF Loop, StartFails, StartChecked, Spawn, WaitReturns,
               RunCancelled, RunBackoff, BackOffTo, BackoffElapsed, BackoffCancelled
  <2>2. cur \in Attempts /\ marked[cur]
    BY <2>1 DEF Verdict
  <2> QED BY <2>2
<1> QED BY <1>1, Inductive, PTL DEF Spec, NoFalseReady

-----------------------------------------------------------------------------
(***************************************************************************)
(* The delays.  What BackoffSchedule says of the sleeping loop holds of it *)
(* anywhere: the delay and the count of its doublings move together.       *)
(***************************************************************************)
DelayDoubled == backoff = Capped(Doubled[fails], MaxBackoff)

(* Doubling a delay and capping it again is doubling the uncapped one; at  *)
(* the bound of the count the cap has been reached, and stays.             *)
LEMMA DelayStep == TypeOK /\ DelayDoubled /\ [Next]_vars => DelayDoubled'
<1> SUFFICES ASSUME TypeOK, DelayDoubled, [Next]_vars PROVE DelayDoubled'
  OBVIOUS
<1>1. CASE UNCHANGED <<backoff, fails>>
  BY <1>1 DEF DelayDoubled
<1>2. CASE RunBackoff
  <2>1. \/ backoff' = InitialBackoff /\ fails' = 0
        \/ UNCHANGED <<backoff, fails>>
    BY <1>2 DEF RunBackoff, BackOffTo
  <2>2. InitialBackoff = Capped(Doubled[0], MaxBackoff)
    BY BackoffAssumption, DoubledAssumption DEF Capped
  <2> QED BY <2>1, <2>2 DEF DelayDoubled
<1>3. CASE BackoffElapsed
  <2>1. /\ backoff' = Capped(2 * backoff, MaxBackoff)
        /\ fails' = Capped(fails + 1, FailCap)
        /\ fails \in 0..FailCap /\ FailCap \in Nat /\ MaxBackoff \in Nat
    BY <1>3, BackoffAssumption, FailCapAssumption DEF BackoffElapsed, TypeOK
  <2>2. Doubled[fails] \in Nat /\ backoff = Capped(Doubled[fails], MaxBackoff)
    BY <2>1, DoubledAssumption DEF DelayDoubled
  <2>3. CASE fails < FailCap
    <3>1. fails' = fails + 1 /\ fails' \in 1..FailCap /\ fails' - 1 = fails
      BY <2>1, <2>3 DEF Capped
    <3>2. Doubled[fails'] = 2 * Doubled[fails]
      BY <3>1, DoubledAssumption
    <3> QED BY <2>1, <2>2, <3>2 DEF Capped, DelayDoubled
  <2>4. CASE fails = FailCap
    <3>1. fails' = fails /\ Doubled[fails] >= MaxBackoff
      BY <2>1, <2>4, FailCapSuffices DEF Capped
    <3> QED BY <2>1, <2>2, <3>1 DEF Capped, DelayDoubled
  <2> QED BY <2>1, <2>3, <2>4
<1>4. Caller => UNCHANGED <<backoff, fails>>
  BY DEF Caller, Start, Stop, ParentCancelled, WaitReadyCall, WaitReadyOk,
     WaitReadyExpired, SetWaiter, loopVars
<1>5. Loop => RunBackoff \/ BackoffElapsed \/ UNCHANGED <<backoff, fails>>
  BY DEF Loop, StartFails, StartChecked, Spawn, WaitReturns, Verdict, RunCancelled,
     BackoffCancelled
<1>6. ASSUME NEW a \in Attempts, Kubectl(a) \/ KillChild(a) \/ Scanner(a)
      PROVE  UNCHANGED <<backoff, fails>>
  BY <1>6 DEF Kubectl, KillChild, ChildPrints, ChildExits, Scanner, ScanRead, ScanLine,
     ScanLock, ScanAlreadyReady, ScanNotReady, ScanClose, CloseReadyTo, ScanEnds, loopVars
<1> QED BY <1>1, <1>2, <1>3, <1>4, <1>5, <1>6 DEF Next, vars

(* The loop sleeps the initial delay doubled once for each backoff since   *)
(* the last attempt that became ready, never more than maxBackoff          *)
(* (pforward.go:94, 100-113).                                              *)
THEOREM BackoffFollowsSchedule == Spec => []BackoffSchedule
<1>1. Init => DelayDoubled
  BY BackoffAssumption, DoubledAssumption DEF Init, DelayDoubled, Capped
<1>2. DelayDoubled => BackoffSchedule
  BY DEF DelayDoubled, BackoffSchedule
<1> QED BY <1>1, <1>2, DelayStep, TypeCorrect, PTL DEF Spec

-----------------------------------------------------------------------------
(***************************************************************************)
(* Refinement: what main() sees of the manager is a Supervisor.            *)
(***************************************************************************)

(* Outside of cmd.Wait no kubectl runs.                                    *)
LEMMA RunningOnlyInWait == ASSUME IInv, pc # "wait" PROVE ~Running
BY DEF IInv, ChildWaitedFor, Running

(* Every step of the manager is a step of the abstract supervisor, or none *)
(* that main() can see.                                                    *)
LEMMA StepRefines == IInv /\ [Next]_vars => [Service!Next]_(Service!vars)
<1> SUFFICES ASSUME IInv, [Next]_vars PROVE [Service!Next]_(Service!vars)
  OBVIOUS
<1> USE DEF Service!Next, Service!vars, Service!Move, Phase, loopVars, ctlVars,
            procVars, scanVars
<1>t. TypeOK /\ ChildWaitedFor
  BY DEF IInv
<1>1. CASE Caller
  <2>1. Running' = Running \/ ~Caller
    BY <1>1 DEF Running, Caller, Start, Stop, ParentCancelled, WaitReadyCall,
       WaitReadyOk, WaitReadyExpired, SetWaiter
  <2>2. CASE Start
    BY <2>2, RunningOnlyInWait, <2>1, <1>1 DEF Start, Service!Launch
  <2>3. CASE Stop \/ ParentCancelled
    BY <2>3, <2>1, <1>1 DEF Stop, ParentCancelled, Service!Cancel
  <2>4. CASE WaitReadyCall \/ WaitReadyOk \/ WaitReadyExpired
    BY <2>4, <2>1, <1>1 DEF WaitReadyCall, WaitReadyOk, WaitReadyExpired, SetWaiter
  <2> QED BY <1>1, <2>2, <2>3, <2>4 DEF Caller
<1>2. CASE Loop
  <2>1. ASSUME NEW a \in Attempts, Spawn(a) PROVE Service!Up
    <3>1. ~Running
      BY <2>1, RunningOnlyInWait DEF Spawn
    <3>2. Running'
      BY <2>1, <1>t DEF Spawn, Running, TypeOK
    <3> QED BY <2>1, <3>1, <3>2 DEF Spawn, Service!Up
  <2>2. CASE WaitReturns
    <3>1. ~Running /\ ~Running'
      BY <2>2, <1>t DEF WaitReturns, Running, ChildWaitedFor
    <3> QED BY <2>2, <3>1 DEF WaitReturns
  <2>3. CASE StartFails \/ StartChecked \/ Verdict \/ RunBackoff \/ BackoffElapsed
    <3>1. ~Running /\ ~Running'
      BY <2>3, RunningOnlyInWait
      DEF Running, StartFails, StartChecked, Verdict, RunBackoff, BackOffTo, BackoffElapsed
    <3>2. CASE StartChecked
      BY <3>1, <3>2 DEF StartChecked, Service!Begin
    <3>3. CASE StartFails
      BY <3>1, <3>3 DEF StartFails, Service!Down
    <3>4. CASE Verdict \/ RunBackoff \/ BackoffElapsed
      BY <3>1, <3>4 DEF Verdict, RunBackoff, BackOffTo, BackoffElapsed
    <3> QED BY <2>3, <3>2, <3>3, <3>4
  <2>4. CASE RunCancelled \/ BackoffCancelled
    <3>1. ~Running
      BY <2>4, RunningOnlyInWait DEF RunCancelled, BackoffCancelled
    <3> QED BY <2>4, <3>1 DEF RunCancelled, BackoffCancelled, Service!Finish
  <2> QED BY <1>2, <2>1, <2>2, <2>3, <2>4 DEF Loop
<1>3. ASSUME NEW a \in Attempts, Kubectl(a) \/ KillChild(a)
      PROVE  [Service!Next]_(Service!vars)
  <2>1. Running /\ pc = "wait"
    BY <1>3, <1>t DEF Running, ChildWaitedFor, Kubectl, KillChild, ChildPrints, ChildExits
  <2>2. ASSUME NEW line \in Lines, ChildPrints(a, line)
        PROVE  [Service!Next]_(Service!vars)
    <3>1. Running'
      BY <2>1, <2>2 DEF Running, ChildPrints
    <3>2. CASE line = "ready"
      <4>1. everReported'
        BY <2>2, <3>2 DEF ChildPrints
      <4> QED BY <2>1, <2>2, <3>1, <4>1 DEF ChildPrints, Service!Report
    <3>3. CASE line # "ready"
      <4>1. everReported' = everReported
        BY <2>2, <3>3, <1>t DEF ChildPrints, TypeOK
      <4> QED BY <2>1, <2>2, <3>1, <4>1 DEF ChildPrints
    <3> QED BY <3>2, <3>3
  <2>3. CASE ChildExits(a)
    <3>1. ~Running'
      BY <2>3, <1>t DEF ChildExits, Running, ChildWaitedFor, TypeOK
    <3> QED BY <2>1, <2>3, <3>1 DEF ChildExits, Service!Down
  <2> QED BY <1>3, <2>2, <2>3 DEF Kubectl, KillChild
<1>4. ASSUME NEW a \in Attempts, Scanner(a) PROVE [Service!Next]_(Service!vars)
  <2>1. Running' = Running /\ pc' = pc /\ ctxDone' = ctxDone /\ everReported' = everReported
    BY <1>4 DEF Running, Scanner, ScanRead, ScanLine, ScanLock, ScanAlreadyReady,
       ScanNotReady, ScanClose, CloseReadyTo, ScanEnds
  <2>2. CASE ScanClose(a)
    <3>1. everReported /\ ready' > 0
      BY <2>2 DEF ScanClose, CloseReadyTo, IInv, TypeOK, MarksHonest
    <3> QED BY <2>1, <3>1 DEF Service!Latch
  <2>3. CASE ~ScanClose(a)
    BY <1>4, <2>1, <2>3 DEF Scanner, ScanRead, ScanLine, ScanLock, ScanAlreadyReady,
       ScanNotReady, ScanEnds
  <2> QED BY <2>2, <2>3
<1>5. CASE UNCHANGED vars
  BY <1>5 DEF vars, Running
<1> QED BY <1>1, <1>2, <1>3, <1>4, <1>5 DEF Next

(* The manager implements the safety part of the abstract supervisor: one  *)
(* service that goes up and down, a latch that only real reports set, and  *)
(* an end that comes after a cancellation with no kubectl left             *)
(* (pforward.go:36-44, 61-91).                                             *)
THEOREM RefinesSupervisor == Spec => Service!Init /\ [][Service!Next]_(Service!vars)
<1>1. Init => Service!Init
  BY DEF Init, Service!Init, Phase
<1> QED BY <1>1, StepRefines, Inductive, PTL DEF Spec
=============================================================================
