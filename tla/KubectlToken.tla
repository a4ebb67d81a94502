---------------------------- MODULE KubectlToken ----------------------------
(***************************************************************************)
(* internal/substrate/token.go: TokenProvider, which mints ServiceAccount  *)
(* tokens with `kubectl create token` and caches the last one.             *)
(*                                                                         *)
(* Every call holds p.mu from its first to its last step, the kubectl run  *)
(* included.  Time passes in ticks: the age of a token counts from its     *)
(* issue at the API server, the cache's own clock from the moment the      *)
(* token is stored, which can be a kubectl run later.                      *)
(***************************************************************************)
EXTENDS Naturals

CONSTANTS Callers, None,
          MaxToken,      \* bound on the tokens ever issued
          Lifetime,      \* tokenLifetime, in ticks
          MintTimeout    \* the limit of one kubectl run, in ticks

RefreshAfter == (Lifetime * 8) \div 10

ASSUME NoneAssumption == None \notin Callers
ASSUME MaxTokenAssumption == MaxToken \in Nat
ASSUME LifetimeAssumption == Lifetime \in Nat \ {0}
(* 15 seconds fit in the 12 minutes between 80% and 100% of an hour.       *)
ASSUME MarginAssumption == /\ MintTimeout \in Nat
                           /\ RefreshAfter \in Nat
                           /\ RefreshAfter + MintTimeout <= Lifetime

VARIABLES
  latest,    \* the newest token the API server has issued
  token,     \* p.token, 0 when empty
  stored,    \* ticks since p.expiry was set (capped at RefreshAfter)
  age,       \* age of p.token since its issue (capped at Lifetime)
  mu,        \* the caller that holds p.mu, or None
  at,        \* per caller: where the call is
  op,        \* per caller: which call
  since,     \* history, per caller: latest when the call began
  answer,    \* per caller: what the last call returned, 0 if it failed
  elapsed,   \* running time of the kubectl in progress
  mintAge    \* age of the token that kubectl has been given

clockVars == <<stored, age, elapsed, mintAge>>
vars == <<latest, token, mu, at, op, since, answer, stored, age, elapsed, mintAge>>

Positions == {"idle", "lock", "locked", "minting", "issued"}
Ops == {"get", "refresh"}

Init ==
  /\ latest = 0 /\ token = 0 /\ mu = None
  /\ at = [c \in Callers |-> "idle"]
  /\ op = [c \in Callers |-> "none"]
  /\ since = [c \in Callers |-> 0]
  /\ answer = [c \in Callers |-> 0]
  /\ stored = 0 /\ age = 0 /\ elapsed = 0 /\ mintAge = 0

-----------------------------------------------------------------------------
Call(c, o) ==
  /\ at[c] = "idle"
  /\ at' = [at EXCEPT ![c] = "lock"]
  /\ op' = [op EXCEPT ![c] = o]
  /\ since' = [since EXCEPT ![c] = latest]
  /\ answer' = [answer EXCEPT ![c] = 0]
  /\ UNCHANGED <<latest, token, mu>> /\ UNCHANGED clockVars

Lock(c) ==
  /\ at[c] = "lock" /\ mu = None
  /\ mu' = c
  /\ at' = [at EXCEPT ![c] = "locked"]
  /\ UNCHANGED <<latest, token, op, since, answer>> /\ UNCHANGED clockVars

(* The deferred Unlock, with the result the call returns.                  *)
Unlock(c, result) ==
  /\ mu' = None
  /\ at' = [at EXCEPT ![c] = "idle"]
  /\ op' = [op EXCEPT ![c] = "none"]
  /\ since' = [since EXCEPT ![c] = 0]
  /\ answer' = [answer EXCEPT ![c] = result]

(* Mutant: the token is used up to the end of its lifetime.                *)
FreshForLifetime == token # 0 /\ stored < Lifetime

(* now.Before(p.expiry)                                                    *)
Fresh == token # 0 /\ stored < RefreshAfter

(* Mutant: a ForceRefresh is satisfied with a fresh token in the cache.    *)
GetCachedAlways(c) ==
  /\ at[c] = "locked" /\ Fresh
  /\ Unlock(c, token)
  /\ UNCHANGED <<latest, token>> /\ UNCHANGED clockVars

GetCached(c) ==
  /\ at[c] = "locked" /\ op[c] = "get" /\ Fresh
  /\ Unlock(c, token)
  /\ UNCHANGED <<latest, token>> /\ UNCHANGED clockVars

StartMint(c) ==
  /\ at[c] = "locked" /\ (op[c] = "get" => ~Fresh)
  /\ at' = [at EXCEPT ![c] = "minting"]
  /\ elapsed' = 0
  /\ UNCHANGED <<latest, token, mu, op, since, answer, stored, age, mintAge>>

(* The API server answers kubectl's TokenRequest (external).               *)
Issue(c) ==
  /\ at[c] = "minting" /\ latest < MaxToken
  /\ latest' = latest + 1
  /\ mintAge' = 0
  /\ at' = [at EXCEPT ![c] = "issued"]
  /\ UNCHANGED <<token, mu, op, since, answer, stored, age, elapsed>>

MintDone(c) ==
  /\ at[c] = "issued"
  /\ token' = latest
  /\ stored' = 0 /\ age' = mintAge
  /\ elapsed' = 0 /\ mintAge' = 0
  /\ Unlock(c, latest)
  /\ UNCHANGED latest

(* Mutants: p.mu stays locked on the error path; the cache is emptied      *)
(* before the mint is known to have succeeded.                             *)
MintFailsKeepsLock(c) ==
  /\ at[c] \in {"minting", "issued"}
  /\ at' = [at EXCEPT ![c] = "idle"]
  /\ UNCHANGED <<latest, token, mu, op, since, answer>> /\ UNCHANGED clockVars
MintFailsEmptiesCache(c) ==
  /\ at[c] \in {"minting", "issued"}
  /\ elapsed' = 0 /\ mintAge' = 0
  /\ token' = 0
  /\ Unlock(c, 0)
  /\ UNCHANGED <<latest, stored, age>>

(* kubectl fails, prints nothing or is killed at the timeout, perhaps      *)
(* after the API server has issued a token.                                *)
MintFails(c) ==
  /\ at[c] \in {"minting", "issued"}
  /\ elapsed' = 0 /\ mintAge' = 0
  /\ Unlock(c, 0)
  /\ UNCHANGED <<latest, token, stored, age>>

(* Mutant: kubectl runs without a timeout.                                 *)
TickNoTimeout ==
  /\ elapsed' = elapsed + 1
  /\ UNCHANGED <<latest, token, mu, at, op, since, answer, stored, age, mintAge>>

(* A running kubectl is killed before it can run longer than MintTimeout.  *)
Tick ==
  /\ (\E c \in Callers : at[c] \in {"minting", "issued"}) => elapsed < MintTimeout
  /\ stored' = IF token # 0 /\ stored < RefreshAfter THEN stored + 1 ELSE stored
  /\ age' = IF token # 0 /\ age < Lifetime THEN age + 1 ELSE age
  /\ elapsed' = IF \E c \in Callers : at[c] \in {"minting", "issued"}
                THEN elapsed + 1 ELSE elapsed
  /\ mintAge' = IF \E c \in Callers : at[c] = "issued" THEN mintAge + 1 ELSE mintAge
  /\ UNCHANGED <<latest, token, mu, at, op, since, answer>>

Step(c) == \/ Lock(c) \/ GetCached(c) \/ StartMint(c) \/ Issue(c)
           \/ MintDone(c) \/ MintFails(c)

Next == \/ \E c \in Callers : (\E o \in Ops : Call(c, o)) \/ Step(c)
        \/ Tick

(* A goroutine runs on, kubectl ends (at the latest by its timeout) and    *)
(* sync.Mutex starves no one.                                              *)
Fairness == \A c \in Callers : WF_vars(Step(c)) /\ SF_vars(Lock(c))

Spec == Init /\ [][Next]_vars
FairSpec == Spec /\ Fairness

-----------------------------------------------------------------------------
TypeOK ==
  /\ latest \in 0..MaxToken /\ token \in 0..MaxToken
  /\ mu \in Callers \cup {None}
  /\ at \in [Callers -> Positions]
  /\ \A c \in Callers : (mu = c) = (at[c] \notin {"idle", "lock"})
  /\ op \in [Callers -> Ops \cup {"none"}]
  /\ since \in [Callers -> 0..MaxToken]
  /\ answer \in [Callers -> 0..MaxToken]
  /\ stored \in 0..RefreshAfter /\ age \in 0..Lifetime
  /\ elapsed \in 0..MintTimeout /\ mintAge \in 0..MintTimeout

(* A Get that answers from the cache hands out a token the API server      *)
(* still accepts, although p.expiry is set when kubectl returns and not    *)
(* when the token was issued (token.go:46-54, 81-82).                      *)
CachedTokenLive == Fresh => age < Lifetime

(* ForceRefresh never settles for a token that existed when it was called: *)
(* a rejected token is really replaced, also when several rejected callers *)
(* queue for p.mu (token.go:57-62).                                        *)
RefreshIsNew ==
  [][\A c \in Callers :
       op[c] = "refresh" /\ answer'[c] # answer[c] => answer'[c] > since[c]]_vars

(* Every Get and ForceRefresh returns: p.mu is released on every path, the *)
(* failing ones included (token.go:48-84).                                 *)
CallsReturn == \A c \in Callers : (at[c] # "idle") ~> (at[c] = "idle")

Source == INSTANCE TokenSource WITH
            cache <- token,
            call <- [c \in Callers |->
                       IF at[c] = "idle" THEN [op |-> "none", since |-> 0]
                       ELSE [op |-> op[c], since |-> since[c]]]

(* TokenProvider is a TokenSource: the tokens it returns never go back in  *)
(* time, however calls interleave (token.go:46-92).                        *)
ImplementsTokenSource == Source!Spec
=============================================================================
