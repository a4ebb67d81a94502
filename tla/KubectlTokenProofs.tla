------------------------- MODULE KubectlTokenProofs -------------------------
(***************************************************************************)
(* Safety of the kubectl token provider, for any set of callers, any       *)
(* lifetime of the tokens and any timeout of kubectl that fits in the      *)
(* margin between the refresh point and the end of the lifetime.           *)
(*                                                                         *)
(* The inductive invariant adds to the types: the order of the tokens, of  *)
(* which the one a kubectl brings is newer than the call that started it;  *)
(* what a pending call has done; and the two clocks, of which that of the  *)
(* cache lags behind the age of the token by at most one run of kubectl.   *)
(***************************************************************************)
EXTENDS KubectlToken, TLAPS

TokensInOrder ==
  /\ token <= latest
  /\ \A c \in Callers : /\ since[c] <= latest
                        /\ at[c] = "issued" => since[c] < latest

CallsPending ==
  \A c \in Callers : IF at[c] = "idle" THEN op[c] = "none"
                     ELSE op[c] \in Ops /\ answer[c] = 0

ClocksAgree ==
  /\ Fresh => age <= stored + MintTimeout
  /\ mintAge <= elapsed
  /\ (\A c \in Callers : at[c] # "issued") => mintAge = 0

IInv == TypeOK /\ TokensInOrder /\ CallsPending /\ ClocksAgree

LEMMA InitInv == Init => IInv
<1>. SUFFICES ASSUME Init PROVE IInv
  OBVIOUS
<1>. USE NoneAssumption, MaxTokenAssumption, LifetimeAssumption, MarginAssumption
<1>1. TypeOK
  BY DEF Init, TypeOK, Positions, Ops
<1>2. TokensInOrder /\ CallsPending /\ ClocksAgree
  BY DEF Init, TokensInOrder, CallsPending, ClocksAgree, Fresh
<1>. QED
  BY <1>1, <1>2 DEF IInv

(* Only the caller that holds p.mu is between Lock and Unlock.             *)
LEMMA OneHolder ==
  ASSUME TypeOK, NEW c \in Callers, NEW d \in Callers,
         at[c] \notin {"idle", "lock"}, at[d] \notin {"idle", "lock"}
  PROVE  c = d
BY DEF TypeOK

-----------------------------------------------------------------------------
(* Steps of one call.                                                      *)

LEMMA CallInv ==
  ASSUME IInv, NEW c \in Callers, NEW o \in Ops, Call(c, o)
  PROVE  IInv'
<1>. USE MaxTokenAssumption
<1>1. TypeOK'
  BY DEF Call, IInv, TypeOK, clockVars, Positions, Ops
<1>2. TokensInOrder' /\ CallsPending'
  BY DEF Call, IInv, TypeOK, TokensInOrder, CallsPending
<1>3. ClocksAgree'
  BY DEF Call, IInv, TypeOK, ClocksAgree, Fresh, clockVars
<1>. QED
  BY <1>1, <1>2, <1>3 DEF IInv

LEMMA LockInv ==
  ASSUME IInv, NEW c \in Callers, Lock(c)
  PROVE  IInv'
<1>. USE MaxTokenAssumption, NoneAssumption
<1>1. TypeOK'
  BY DEF Lock, IInv, TypeOK, clockVars, Positions
<1>2. TokensInOrder' /\ CallsPending'
  BY DEF Lock, IInv, TypeOK, TokensInOrder, CallsPending
<1>3. ClocksAgree'
  BY DEF Lock, IInv, TypeOK, ClocksAgree, Fresh, clockVars
<1>. QED
  BY <1>1, <1>2, <1>3 DEF IInv

LEMMA GetCachedInv ==
  ASSUME IInv, NEW c \in Callers, GetCached(c)
  PROVE  IInv'
<1>. USE MaxTokenAssumption, NoneAssumption
<1>1. TypeOK'
  BY DEF GetCached, Unlock, IInv, TypeOK, clockVars, Positions, Ops
<1>2. TokensInOrder' /\ CallsPending'
  BY DEF GetCached, Unlock, IInv, TypeOK, TokensInOrder, CallsPending
<1>3. ClocksAgree'
  BY DEF GetCached, Unlock, IInv, TypeOK, ClocksAgree, Fresh, clockVars
<1>. QED
  BY <1>1, <1>2, <1>3 DEF IInv

LEMMA StartMintInv ==
  ASSUME IInv, NEW c \in Callers, StartMint(c)
  PROVE  IInv'
<1>. USE MaxTokenAssumption, NoneAssumption, MarginAssumption
<1>1. TypeOK'
  BY DEF StartMint, IInv, TypeOK, Positions
<1>2. TokensInOrder' /\ CallsPending'
  BY DEF StartMint, IInv, TypeOK, TokensInOrder, CallsPending
<1>3. \A d \in Callers : at[d] # "issued"
  BY OneHolder DEF StartMint, IInv
<1>4. ClocksAgree'
  BY <1>3 DEF StartMint, IInv, TypeOK, ClocksAgree, Fresh
<1>. QED
  BY <1>1, <1>2, <1>4 DEF IInv

LEMMA IssueInv ==
  ASSUME IInv, NEW c \in Callers, Issue(c)
  PROVE  IInv'
<1>. USE MaxTokenAssumption, MarginAssumption
<1>1. TypeOK'
  BY DEF Issue, IInv, TypeOK, Positions
<1>2. TokensInOrder' /\ CallsPending'
  BY DEF Issue, IInv, TypeOK, TokensInOrder, CallsPending
<1>3. ClocksAgree'
  BY DEF Issue, IInv, TypeOK, ClocksAgree, Fresh
<1>. QED
  BY <1>1, <1>2, <1>3 DEF IInv

LEMMA MintDoneInv ==
  ASSUME IInv, NEW c \in Callers, MintDone(c)
  PROVE  IInv'
<1>. USE MaxTokenAssumption, NoneAssumption, MarginAssumption, LifetimeAssumption
<1>1. TypeOK'
  BY DEF MintDone, Unlock, IInv, TypeOK, Positions, Ops
<1>2. TokensInOrder' /\ CallsPending'
  BY DEF MintDone, Unlock, IInv, TypeOK, TokensInOrder, CallsPending
<1>3. ClocksAgree'
  BY DEF MintDone, Unlock, IInv, TypeOK, ClocksAgree, Fresh
<1>. QED
  BY <1>1, <1>2, <1>3 DEF IInv

LEMMA MintFailsInv ==
  ASSUME IInv, NEW c \in Callers, MintFails(c)
  PROVE  IInv'
<1>. USE MaxTokenAssumption, NoneAssumption, MarginAssumption
<1>1. TypeOK'
  BY DEF MintFails, Unlock, IInv, TypeOK, Positions, Ops
<1>2. TokensInOrder' /\ CallsPending'
  BY DEF MintFails, Unlock, IInv, TypeOK, TokensInOrder, CallsPending
<1>3. ClocksAgree'
  BY DEF MintFails, Unlock, IInv, TypeOK, ClocksAgree, Fresh
<1>. QED
  BY <1>1, <1>2, <1>3 DEF IInv

LEMMA TickInv ==
  ASSUME IInv, Tick
  PROVE  IInv'
<1>. USE MarginAssumption, LifetimeAssumption
<1>1. TypeOK'
  BY DEF Tick, IInv, TypeOK, ClocksAgree
<1>2. TokensInOrder' /\ CallsPending'
  BY DEF Tick, IInv, TypeOK, TokensInOrder, CallsPending
<1>3. ClocksAgree'
  BY DEF Tick, IInv, TypeOK, ClocksAgree, Fresh
<1>. QED
  BY <1>1, <1>2, <1>3 DEF IInv

LEMMA StepInv == IInv /\ [Next]_vars => IInv'
<1>. SUFFICES ASSUME IInv, [Next]_vars PROVE IInv'
  OBVIOUS
<1>1. ASSUME NEW c \in Callers, Step(c) PROVE IInv'
  BY <1>1, LockInv, GetCachedInv, StartMintInv, IssueInv, MintDoneInv, MintFailsInv DEF Step
<1>2. CASE UNCHANGED vars
  BY <1>2 DEF vars, IInv, TypeOK, TokensInOrder, CallsPending, ClocksAgree, Fresh
<1>. QED
  BY <1>1, <1>2, CallInv, TickInv DEF Next

LEMMA Invariant == Spec => []IInv
BY InitInv, StepInv, PTL DEF Spec

(* The types hold in every reachable state, and p.mu is held exactly by    *)
(* the caller that is past Lock (token.go:46-84).                          *)
THEOREM TypeCorrect == Spec => []TypeOK
BY Invariant, PTL DEF IInv

(* A token handed out from the cache has not expired, whatever the         *)
(* lifetime, the refresh point and kubectl's timeout are, as long as the   *)
(* last two fit into the first (token.go:46-54, 81-82).                    *)
THEOREM CachedTokensLive == Spec => []CachedTokenLive
<1>1. IInv => CachedTokenLive
  BY MarginAssumption, LifetimeAssumption
  DEF IInv, TypeOK, ClocksAgree, CachedTokenLive, Fresh
<1>. QED
  BY <1>1, Invariant, PTL

(* ForceRefresh answers with a token issued after it was called, also      *)
(* behind a queue of others that refresh (token.go:57-62).                 *)
THEOREM RefreshesAreNew == Spec => RefreshIsNew
<1>. DEFINE NewAnswer(c) ==
       op[c] = "refresh" /\ answer'[c] # answer[c] => answer'[c] > since[c]
<1>1. ASSUME IInv, [Next]_vars, NEW c \in Callers PROVE NewAnswer(c)
  <2>0. TypeOK /\ TokensInOrder /\ CallsPending
    BY <1>1 DEF IInv
  <2>1. ASSUME NEW d \in Callers, NEW o \in Ops, Call(d, o) PROVE NewAnswer(c)
    BY <2>0, <2>1 DEF Call, TypeOK, CallsPending
  <2>2. ASSUME NEW d \in Callers, GetCached(d) PROVE NewAnswer(c)
    BY <2>0, <2>2 DEF GetCached, Unlock, TypeOK
  <2>3. ASSUME NEW d \in Callers, MintDone(d) PROVE NewAnswer(c)
    BY <2>0, <2>3 DEF MintDone, Unlock, TypeOK, TokensInOrder
  <2>4. ASSUME NEW d \in Callers, MintFails(d) PROVE NewAnswer(c)
    BY <2>0, <2>4 DEF MintFails, Unlock, TypeOK, CallsPending
  <2>5. ASSUME answer' = answer PROVE NewAnswer(c)
    BY <2>5
  <2>6. ASSUME NEW d \in Callers, Lock(d) \/ StartMint(d) \/ Issue(d)
        PROVE  answer' = answer
    BY <2>6 DEF Lock, StartMint, Issue
  <2>7. Tick \/ UNCHANGED vars => answer' = answer
    BY DEF Tick, vars
  <2>. QED
    BY <1>1, <2>1, <2>2, <2>3, <2>4, <2>5, <2>6, <2>7 DEF Next, Step
<1>2. IInv /\ [Next]_vars =>
        [\A c \in Callers :
           op[c] = "refresh" /\ answer'[c] # answer[c] => answer'[c] > since[c]]_vars
  BY <1>1
<1>. QED
  BY <1>2, Invariant, PTL DEF Spec, RefreshIsNew

-----------------------------------------------------------------------------
(* Refinement.                                                             *)

LEMMA InitRefines == Init => Source!Init
BY MaxTokenAssumption DEF Init, Source!Init, Source!Idle

(* What callers have pending, as TokenSource sees it.                      *)
PendingCall(c) == IF at[c] = "idle" THEN [op |-> "none", since |-> 0]
                  ELSE [op |-> op[c], since |-> since[c]]
Pending == [c \in Callers |-> PendingCall(c)]

(* A step of one caller that stays within its call does not change it.     *)
LEMMA StepWithinCall ==
  ASSUME IInv, NEW c \in Callers, NEW next \in Positions \ {"idle"}, at[c] # "idle",
         at' = [at EXCEPT ![c] = next], UNCHANGED <<op, since>>
  PROVE  Pending' = Pending
<1>1. \A d \in Callers : at'[d] = "idle" <=> at[d] = "idle"
  BY DEF IInv, TypeOK
<1>. QED
  BY <1>1 DEF Pending, PendingCall

(* The end of a call gives the caller back, as Return and Fail do.         *)
LEMMA CallEnds ==
  ASSUME IInv, NEW c \in Callers, NEW result, Unlock(c, result)
  PROVE  Pending' = [Pending EXCEPT ![c] = Source!Idle]
BY DEF IInv, TypeOK, Unlock, Pending, PendingCall, Source!Idle

LEMMA StepRefines == IInv /\ [Next]_vars => [Source!Next]_(Source!vars)
<1>. SUFFICES ASSUME IInv, [Next]_vars PROVE [Source!Next]_(Source!vars)
  OBVIOUS
<1>0. TypeOK /\ TokensInOrder /\ CallsPending /\ MaxToken \in Nat
  BY MaxTokenAssumption DEF IInv
<1>1. ASSUME NEW c \in Callers, NEW o \in Ops, Call(c, o) PROVE Source!Next
  <2>1. Source!Begin(c, o)
    BY <1>0, <1>1 DEF Call, TypeOK, Positions, Source!Begin, Source!Idle
  <2>. QED
    BY <2>1 DEF Source!Next, Source!Ops, Ops
<1>2. ASSUME NEW c \in Callers, Lock(c) \/ StartMint(c) PROVE UNCHANGED Source!vars
  <2>1. PICK next \in Positions \ {"idle"} : at' = [at EXCEPT ![c] = next]
    BY <1>2 DEF Lock, StartMint, Positions
  <2>2. at[c] # "idle" /\ UNCHANGED <<latest, token, op, since, answer>>
    BY <1>2 DEF Lock, StartMint
  <2>3. Pending' = Pending
    BY <2>1, <2>2, StepWithinCall
  <2>. QED
    BY <2>2, <2>3 DEF Source!vars, Pending, PendingCall
<1>3. ASSUME NEW c \in Callers, Issue(c) PROVE Source!Next
  <2>1. at[c] # "idle" /\ at' = [at EXCEPT ![c] = "issued"] /\ UNCHANGED <<op, since>>
    BY <1>3 DEF Issue
  <2>2. Pending' = Pending
    BY <2>1, StepWithinCall DEF Positions
  <2>3. Source!Issue
    BY <1>3, <2>2 DEF Issue, Source!Issue, Pending, PendingCall
  <2>. QED
    BY <2>3 DEF Source!Next
<1>4. ASSUME NEW c \in Callers, GetCached(c) PROVE Source!Next
  <2>1. op[c] = "get" /\ token \in 1..latest
    BY <1>0, <1>4 DEF GetCached, Fresh, TypeOK, TokensInOrder
  <2>2. Pending' = [Pending EXCEPT ![c] = Source!Idle]
    BY <1>4, CallEnds DEF GetCached
  <2>3. Source!Return(c, token)
    BY <1>0, <1>4, <2>1, <2>2
    DEF GetCached, Unlock, TypeOK, Source!Return, Source!Idle, Pending, PendingCall
  <2>. QED
    BY <2>1, <2>3 DEF Source!Next, Source!Return
<1>5. ASSUME NEW c \in Callers, MintDone(c) PROVE Source!Next
  <2>1. latest \in 1..latest /\ token <= latest /\ since[c] <= latest
    BY <1>0, <1>5 DEF MintDone, TypeOK, TokensInOrder
  <2>2. Pending' = [Pending EXCEPT ![c] = Source!Idle]
    BY <1>5, CallEnds DEF MintDone
  <2>3. Source!Return(c, latest)
    BY <1>0, <1>5, <2>1, <2>2
    DEF MintDone, Unlock, TypeOK, CallsPending, Ops, Source!Return, Source!Idle,
        Pending, PendingCall
  <2>. QED
    BY <2>1, <2>3 DEF Source!Next, Source!Return
<1>6. ASSUME NEW c \in Callers, MintFails(c) PROVE Source!Next
  <2>1. answer' = answer
    BY <1>0, <1>6 DEF MintFails, Unlock, TypeOK, CallsPending
  <2>2. Pending' = [Pending EXCEPT ![c] = Source!Idle]
    BY <1>6, CallEnds DEF MintFails
  <2>3. Source!Fail(c)
    BY <1>0, <1>6, <2>1, <2>2
    DEF MintFails, TypeOK, CallsPending, Ops, Source!Fail, Source!Idle, Pending, PendingCall
  <2>. QED
    BY <2>3 DEF Source!Next
<1>7. CASE Tick \/ UNCHANGED vars
  BY <1>7 DEF Tick, vars, Source!vars
<1>. QED
  BY <1>1, <1>2, <1>3, <1>4, <1>5, <1>6, <1>7 DEF Next, Step

(* TokenProvider is a TokenSource, however many callers queue for it and   *)
(* whichever of their kubectl runs fail (token.go:46-92).                  *)
THEOREM RefinesTokenSource == Spec => ImplementsTokenSource
<1>1. Spec => Source!Init /\ [][Source!Next]_(Source!vars)
  BY InitRefines, StepRefines, Invariant, PTL DEF Spec
<1>. QED
  BY <1>1 DEF ImplementsTokenSource, Source!Spec
=============================================================================
