-------------------------- MODULE FileTokenProofs --------------------------
(***************************************************************************)
(* FileToken implements TokenSource, for any set of callers and any number *)
(* of rotations.                                                           *)
(*                                                                         *)
(* TypeOK ties p.mu to the callers that hold it.  The rest of the          *)
(* inductive invariant orders the tokens: the cache never holds one newer  *)
(* than the file, and a caller between ReadFile and the second Stat has    *)
(* read one that is no older than the cache, which only it may fill, nor   *)
(* than the file was when it was called.                                   *)
(***************************************************************************)
EXTENDS FileToken, TLAPS

CacheBehindFile == token <= file

ReadInOrder ==
  \A c \in Callers :
    /\ since[c] <= file
    /\ at[c] = "stat" => /\ tok[c] # 0 /\ token <= tok[c]
                         /\ since[c] <= tok[c] /\ tok[c] <= file

(* A pending call is a Get or a ForceRefresh that has not answered yet,    *)
(* and only a Get stats the file first.                                    *)
CallsPending ==
  \A c \in Callers :
    /\ at[c] # "idle" => op[c] \in Ops /\ answer[c] = 0
    /\ at[c] = "locked" => op[c] = "get"

IInv == TypeOK /\ CacheBehindFile /\ ReadInOrder /\ CallsPending

LEMMA InitInv == Init => IInv
<1>. SUFFICES ASSUME Init PROVE IInv
  OBVIOUS
<1>1. TypeOK
  BY NoneAssumption, MaxTokenAssumption DEF Init, TypeOK, Positions, Ops
<1>2. CacheBehindFile /\ ReadInOrder /\ CallsPending
  BY DEF Init, CacheBehindFile, ReadInOrder, CallsPending
<1>. QED
  BY <1>1, <1>2 DEF IInv

(* Only the caller that holds p.mu is between Lock and Unlock.             *)
LEMMA OneHolder ==
  ASSUME TypeOK, NEW c \in Callers, NEW d \in Callers,
         at[c] \notin {"idle", "lock"}, at[d] \notin {"idle", "lock"}
  PROVE  c = d
BY DEF TypeOK

LEMMA StepInv == IInv /\ [Next]_vars => IInv'
<1>. SUFFICES ASSUME IInv, [Next]_vars PROVE IInv'
  OBVIOUS
<1>. USE NoneAssumption, MaxTokenAssumption
<1>1. CASE Rotate
  BY <1>1 DEF Rotate, IInv, TypeOK, CacheBehindFile, ReadInOrder, CallsPending
<1>2. ASSUME NEW c \in Callers, NEW o \in Ops, Call(c, o) PROVE IInv'
  BY <1>2 DEF Call, IInv, TypeOK, CacheBehindFile, ReadInOrder,
                 CallsPending, Positions, Ops
<1>3. ASSUME NEW c \in Callers, Lock(c) PROVE IInv'
  BY <1>3 DEF Lock, IInv, TypeOK, CacheBehindFile, ReadInOrder,
                 CallsPending, Positions, Ops
<1>4. ASSUME NEW c \in Callers, GetHit(c) PROVE IInv'
  BY <1>4 DEF GetHit, Unlock, IInv, TypeOK, CacheBehindFile, ReadInOrder,
                 CallsPending, Positions, Ops
<1>5. ASSUME NEW c \in Callers, GetMiss(c) PROVE IInv'
  BY <1>5 DEF GetMiss, IInv, TypeOK, CacheBehindFile, ReadInOrder,
                 CallsPending, Positions, Ops
<1>6. ASSUME NEW c \in Callers, ReadFile(c) PROVE IInv'
  BY <1>6 DEF ReadFile, IInv, TypeOK, CacheBehindFile, ReadInOrder,
                 CallsPending, Positions, Ops
<1>7. ASSUME NEW c \in Callers, StatAndStore(c) PROVE IInv'
  <2>1. \A d \in Callers : at'[d] # "stat"
    BY <1>7, OneHolder DEF StatAndStore, Unlock, IInv, TypeOK, Positions
  <2>2. TypeOK'
    BY <1>7 DEF StatAndStore, Unlock, IInv, TypeOK, Positions, Ops
  <2>3. CacheBehindFile' /\ ReadInOrder' /\ CallsPending'
    BY <1>7, <2>1 DEF StatAndStore, Unlock, IInv, TypeOK, CacheBehindFile, ReadInOrder,
                      CallsPending
  <2>. QED
    BY <2>2, <2>3 DEF IInv
<1>8. ASSUME NEW c \in Callers, CallFails(c) PROVE IInv'
  BY <1>8 DEF CallFails, Unlock, IInv, TypeOK, CacheBehindFile, ReadInOrder,
                 CallsPending, Positions, Ops
<1>9. CASE UNCHANGED vars
  BY <1>9 DEF vars, IInv, TypeOK, CacheBehindFile, ReadInOrder, CallsPending
<1>. QED
  BY <1>1, <1>2, <1>3, <1>4, <1>5, <1>6, <1>7, <1>8, <1>9 DEF Next, Step

LEMMA Invariant == Spec => []IInv
BY InitInv, StepInv, PTL DEF Spec

(* The types hold in every reachable state, and p.mu is held exactly by    *)
(* the caller that is past Lock (filetoken.go:30-48).                      *)
THEOREM TypeCorrect == Spec => []TypeOK
BY Invariant, PTL DEF IInv

-----------------------------------------------------------------------------
(* Refinement.                                                             *)

LEMMA InitRefines == Init => Source!Init
BY MaxTokenAssumption DEF Init, Source!Init, Source!Idle

(* What callers have pending, as TokenSource sees it.                      *)
PendingCall(c) == IF at[c] = "idle" THEN [op |-> "none", since |-> 0]
                  ELSE [op |-> op[c], since |-> since[c]]
Pending == [c \in Callers |-> PendingCall(c)]

(* A step of one caller that stays within its call is invisible.           *)
LEMMA StepWithinCall ==
  ASSUME IInv, NEW c \in Callers, NEW next \in Positions \ {"idle"}, at[c] # "idle",
         at' = [at EXCEPT ![c] = next],
         UNCHANGED <<file, token, op, since, answer>>
  PROVE  UNCHANGED Source!vars
<1>1. \A d \in Callers : at'[d] = "idle" <=> at[d] = "idle"
  BY DEF IInv, TypeOK
<1>. QED
  BY <1>1 DEF Source!vars

(* The end of a call gives the caller back, as Return and Fail do.         *)
LEMMA CallEnds ==
  ASSUME IInv, NEW c \in Callers, NEW result, Unlock(c, result)
  PROVE  Pending' = [Pending EXCEPT ![c] = Source!Idle]
BY DEF IInv, TypeOK, Unlock, Pending, PendingCall, Source!Idle

LEMMA StepRefines == IInv /\ [Next]_vars => [Source!Next]_(Source!vars)
<1>. SUFFICES ASSUME IInv, [Next]_vars PROVE [Source!Next]_(Source!vars)
  OBVIOUS
<1>0. TypeOK /\ CacheBehindFile /\ ReadInOrder /\ CallsPending
  BY DEF IInv
<1>1. CASE Rotate
  <2>1. Source!Issue
    BY <1>1 DEF Rotate, Source!Issue
  <2>. QED
    BY <2>1 DEF Source!Next
<1>2. ASSUME NEW c \in Callers, NEW o \in Ops, Call(c, o) PROVE Source!Next
  <2>1. Source!Begin(c, o)
    BY <1>0, <1>2 DEF Call, TypeOK, Positions, Source!Begin, Source!Idle
  <2>. QED
    BY <2>1 DEF Source!Next, Source!Ops, Ops
<1>3. ASSUME NEW c \in Callers, Lock(c) \/ GetMiss(c) \/ ReadFile(c)
      PROVE  UNCHANGED Source!vars
  <2>1. PICK next \in Positions \ {"idle"} : at' = [at EXCEPT ![c] = next]
    BY <1>3 DEF Lock, GetMiss, ReadFile, Positions
  <2>2. at[c] # "idle" /\ UNCHANGED <<file, token, op, since, answer>>
    BY <1>3 DEF Lock, GetMiss, ReadFile
  <2>. QED
    BY <2>1, <2>2, StepWithinCall
<1>4. ASSUME NEW c \in Callers, GetHit(c) PROVE Source!Next
  <2>1. op[c] = "get" /\ token \in 1..file
    BY <1>0, <1>4 DEF GetHit, TypeOK, CacheBehindFile, CallsPending
  <2>2. Pending' = [Pending EXCEPT ![c] = Source!Idle]
    BY <1>4, CallEnds DEF GetHit
  <2>3. Source!Return(c, token)
    BY <1>0, <1>4, <2>1, <2>2
    DEF GetHit, Unlock, TypeOK, Source!Return, Source!Idle, Pending, PendingCall
  <2>. QED
    BY <2>1, <2>3 DEF Source!Next, Source!Return
<1>5. ASSUME NEW c \in Callers, StatAndStore(c) PROVE Source!Next
  <2>1. tok[c] \in 1..file /\ token <= tok[c] /\ since[c] <= tok[c]
    BY <1>0, <1>5 DEF StatAndStore, TypeOK, ReadInOrder
  <2>2. Pending' = [Pending EXCEPT ![c] = Source!Idle]
    BY <1>5, CallEnds DEF StatAndStore
  <2>3. Source!Return(c, tok[c])
    BY <1>0, <1>5, <2>1, <2>2
    DEF StatAndStore, Unlock, TypeOK, CallsPending, Ops, Source!Return, Source!Idle,
        Pending, PendingCall
  <2>. QED
    BY <2>1, <2>3 DEF Source!Next, Source!Return
<1>6. ASSUME NEW c \in Callers, CallFails(c) PROVE Source!Next
  <2>1. answer' = answer
    BY <1>0, <1>6 DEF CallFails, Unlock, TypeOK, CallsPending
  <2>2. Pending' = [Pending EXCEPT ![c] = Source!Idle]
    BY <1>6, CallEnds DEF CallFails
  <2>3. Source!Fail(c)
    BY <1>0, <1>6, <2>1, <2>2
    DEF CallFails, TypeOK, CallsPending, Ops, Source!Fail, Source!Idle, Pending, PendingCall
  <2>. QED
    BY <2>3 DEF Source!Next
<1>7. CASE UNCHANGED vars
  BY <1>7 DEF vars, Source!vars
<1>. QED
  BY <1>1, <1>2, <1>3, <1>4, <1>5, <1>6, <1>7 DEF Next, Step

(* FileTokenProvider is a TokenSource, however calls and rotations         *)
(* interleave: its tokens never go back in time and a ForceRefresh is no   *)
(* older than the file was when it was called (token.go:86-92,             *)
(* filetoken.go:30-66).                                                    *)
THEOREM RefinesTokenSource == Spec => ImplementsTokenSource
<1>1. Spec => Source!Init /\ [][Source!Next]_(Source!vars)
  BY InitRefines, StepRefines, Invariant, PTL DEF Spec
<1>. QED
  BY <1>1 DEF ImplementsTokenSource, Source!Spec
=============================================================================
