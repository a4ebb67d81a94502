----------------------------- MODULE RpcProofs -----------------------------
(***************************************************************************)
(* Safety of the calls the server makes for its users, on both of their    *)
(* ends: the authenticated RPCs, for any number of them at once over any   *)
(* token source that keeps the promise of TokenSource; and, after them,    *)
(* the console's pages of the actors, for any actors, calls and changes.   *)
(* The two are separate systems that share no variable: a theorem is about *)
(* the one or the other.                                                   *)
(***************************************************************************)
EXTENDS RpcAuth, ActorConsole, TLAPS

(* How far an RPC has come: the invoker calls it has made and the call it  *)
(* has pending at the token source.                                        *)
Progress(r) ==
  /\ pc[r] = "idle" => attempt[r] = 0
  /\ pc[r] \in {"rejected", "refresh", "again"} => attempt[r] = 1
  /\ pc[r] \in {"creds", "wire"} => attempt[r] \in {1, 2}
  /\ pc[r] = "creds" => call[r].op = "get"
  /\ pc[r] = "refresh" => call[r].op = "refresh" /\ call[r].since >= rejectedAt[r]

(* From the answer of its ForceRefresh on, the shared cache holds nothing  *)
(* older than the newest token there was at the RPC's rejection.           *)
Refreshing(r) == pc[r] = "again" \/ (pc[r] \in {"creds", "wire"} /\ attempt[r] = 2)

Fresh(r) ==
  /\ rejectedAt[r] <= latest
  /\ Refreshing(r) => cache >= rejectedAt[r]
  /\ pc[r] = "wire" /\ attempt[r] = 2 => sent[r] >= rejectedAt[r]

(* What the server and the handler have seen of an RPC.                    *)
Outcome(r) ==
  /\ executed[r] <= 1
  /\ pc[r] # "done" => executed[r] = 0 /\ result[r] = "none"
  /\ result[r] = "unauthenticated" => fetchFailed[r] \/ dead >= rejectedAt[r]

RpcInv(r) == Progress(r) /\ Fresh(r) /\ Outcome(r)

IInv == AuthTypeOK /\ \A r \in Callers : RpcInv(r)

LEMMA InitInv == AuthInit => IInv
BY MaxTokenAssumption
DEF AuthInit, Init, IInv, AuthTypeOK, RpcInv, Progress, Refreshing, Fresh, Outcome,
    Stages, Results, Idle

-----------------------------------------------------------------------------
(* Types.                                                                  *)

SourceTypeOK ==
  /\ latest \in 0..MaxToken /\ cache \in 0..latest /\ dead \in 0..latest
  /\ call \in [Callers -> [op : Ops, since : 0..MaxToken] \cup {Idle}]
  /\ answer \in [Callers -> 0..MaxToken]

RpcTypeOK ==
  /\ pc \in [Callers -> Stages]
  /\ attempt \in [Callers -> 0..2]
  /\ sent \in [Callers -> 0..MaxToken]
  /\ executed \in [Callers -> Nat]
  /\ rejectedAt \in [Callers -> 0..MaxToken]
  /\ fetchFailed \in [Callers -> BOOLEAN]
  /\ result \in [Callers -> Results]

LEMMA TypeParts == AuthTypeOK <=> SourceTypeOK /\ RpcTypeOK
BY DEF AuthTypeOK, SourceTypeOK, RpcTypeOK

(* Beginning a call at the token source.                                   *)
LEMMA BeginTypes ==
  ASSUME SourceTypeOK, NEW r \in Callers, NEW o \in Ops, Begin(r, o), dead' = dead
  PROVE  /\ SourceTypeOK'
         /\ latest' = latest /\ cache' = cache
         /\ call'[r] = [op |-> o, since |-> latest]
BY MaxTokenAssumption DEF SourceTypeOK, Begin

(* The answer of the source is not older than its cache.                   *)
LEMMA ReturnTypes ==
  ASSUME SourceTypeOK, NEW r \in Callers, NEW t \in 1..latest, Return(r, t), dead' = dead
  PROVE  /\ SourceTypeOK'
         /\ latest' = latest /\ cache' = t /\ t >= cache
         /\ call[r].op = "refresh" => t >= call[r].since
BY MaxTokenAssumption DEF SourceTypeOK, Return

LEMMA FailTypes ==
  ASSUME SourceTypeOK, NEW r \in Callers, Fail(r), dead' = dead
  PROVE  SourceTypeOK' /\ UNCHANGED <<latest, cache>>
BY DEF SourceTypeOK, Fail

-----------------------------------------------------------------------------
(* A step of one RPC.                                                      *)

(* What one RPC and the source do never undoes what holds of another one.  *)
LEMMA OthersKept ==
  ASSUME IInv, AuthTypeOK', NEW d \in Callers,
         cache' >= cache, dead' >= dead, latest' >= latest,
         pc'[d] = pc[d], attempt'[d] = attempt[d], sent'[d] = sent[d],
         executed'[d] = executed[d], rejectedAt'[d] = rejectedAt[d],
         fetchFailed'[d] = fetchFailed[d], result'[d] = result[d], call'[d] = call[d]
  PROVE  RpcInv(d)'
<1>1. RpcInv(d) /\ MaxToken \in Nat
  BY MaxTokenAssumption DEF IInv
<1>2. /\ {latest, cache, dead, latest', cache', dead'} \subseteq Nat
      /\ sent[d] \in Nat /\ rejectedAt[d] \in Nat
  BY <1>1 DEF IInv, AuthTypeOK
<1>3. Progress(d)'
  BY <1>1 DEF RpcInv, Progress
<1>4. Fresh(d)'
  BY <1>1, <1>2 DEF RpcInv, Fresh, Refreshing
<1>5. Outcome(d)'
  BY <1>1, <1>2 DEF RpcInv, Outcome
<1>. QED
  BY <1>3, <1>4, <1>5 DEF RpcInv

LEMMA RpcKeeps ==
  ASSUME IInv, NEW r \in Callers, Rpc(r)
  PROVE  AuthTypeOK' /\ RpcInv(r)' /\ cache' >= cache /\ UNCHANGED <<latest, dead>>
<1>0. /\ SourceTypeOK /\ RpcTypeOK /\ Progress(r) /\ Fresh(r) /\ Outcome(r)
      /\ MaxToken \in Nat
      /\ {latest, cache, dead, sent[r], rejectedAt[r], executed[r]} \subseteq Nat
  BY TypeParts, MaxTokenAssumption DEF IInv, RpcInv, SourceTypeOK, RpcTypeOK
<1>. SUFFICES /\ SourceTypeOK' /\ RpcTypeOK' /\ Progress(r)' /\ Fresh(r)' /\ Outcome(r)'
              /\ cache' >= cache /\ UNCHANGED <<latest, dead>>
  BY DEF AuthTypeOK, SourceTypeOK, RpcTypeOK, RpcInv
<1>. USE <1>0
<1>1. CASE Invoke(r)
  <2>1. /\ SourceTypeOK' /\ UNCHANGED <<latest, cache, dead>>
        /\ call'[r] = [op |-> "get", since |-> latest]
    BY <1>1, BeginTypes DEF Invoke, Ops
  <2>2. attempt[r] \in {0, 1}
    BY <1>1 DEF Invoke, Progress
  <2>3. RpcTypeOK'
    BY <1>1, <2>2 DEF Invoke, RpcTypeOK, Stages
  <2>4. /\ pc'[r] = "creds" /\ attempt'[r] = attempt[r] + 1
        /\ UNCHANGED <<sent, executed, rejectedAt, fetchFailed, result, dead>>
    BY <1>1 DEF Invoke, RpcTypeOK
  <2>5. Progress(r)' /\ Fresh(r)' /\ Outcome(r)'
    BY <1>1, <2>1, <2>2, <2>4 DEF Invoke, Progress, Refreshing, Fresh, Outcome
  <2>. QED
    BY <2>1, <2>3, <2>5
<1>2. CASE GetRequestMetadata(r)
  <2>1. PICK t \in 1..latest : Return(r, t) /\ sent' = [sent EXCEPT ![r] = t]
    BY <1>2 DEF GetRequestMetadata
  <2>2. SourceTypeOK' /\ UNCHANGED <<latest, dead>> /\ cache' = t /\ t >= cache
    BY <1>2, <2>1, ReturnTypes DEF GetRequestMetadata
  <2>3. /\ UNCHANGED <<attempt, executed, rejectedAt, fetchFailed, result>>
        /\ pc' = [pc EXCEPT ![r] = "wire"] /\ pc[r] = "creds" /\ t \in 0..MaxToken
    BY <1>2 DEF GetRequestMetadata, SourceTypeOK
  <2>4. RpcTypeOK' /\ pc'[r] = "wire" /\ sent'[r] = t
    BY <2>1, <2>3 DEF RpcTypeOK, Stages
  <2>5. Progress(r)' /\ Fresh(r)' /\ Outcome(r)'
    BY <2>2, <2>3, <2>4 DEF Progress, Refreshing, Fresh, Outcome
  <2>. QED
    BY <2>2, <2>4, <2>5
<1>3. CASE CredentialsFail(r)
  <2>1. SourceTypeOK' /\ UNCHANGED <<latest, cache, dead>>
    BY <1>3, FailTypes DEF CredentialsFail
  <2>2. fetchFailed' \in [Callers -> BOOLEAN] /\ (fetchFailed'[r] = (attempt[r] = 2))
    BY <1>3 DEF CredentialsFail, RpcTypeOK
  <2>3. RpcTypeOK'
    BY <1>3, <2>1, <2>2
    DEF CredentialsFail, Unauthenticated, SourceTypeOK, RpcTypeOK, Stages, Results
  <2>4. Progress(r)' /\ Fresh(r)'
    BY <1>3, <2>1 DEF CredentialsFail, Unauthenticated, RpcTypeOK, Progress, Refreshing, Fresh
  <2>5. Outcome(r)'
    BY <1>3, <2>1, <2>2 DEF CredentialsFail, Unauthenticated, RpcTypeOK, Progress, Outcome
  <2>. QED
    BY <2>1, <2>3, <2>4, <2>5
<1>4. CASE ServerRejects(r)
  BY <1>4 DEF ServerRejects, Unauthenticated, vars, SourceTypeOK, RpcTypeOK, Stages, Results,
              Progress, Refreshing, Fresh, Outcome
<1>5. CASE ServerExecutes(r)
  BY <1>5 DEF ServerExecutes, Finish, vars, SourceTypeOK, RpcTypeOK, Stages, Results,
              Progress, Refreshing, Fresh, Outcome
<1>6. CASE TransportFails(r)
  BY <1>6 DEF TransportFails, Finish, vars, SourceTypeOK, RpcTypeOK, Stages, Results,
              Progress, Refreshing, Fresh, Outcome
<1>7. CASE ForceRefresh(r)
  <2>1. /\ SourceTypeOK' /\ UNCHANGED <<latest, cache, dead>>
        /\ call'[r] = [op |-> "refresh", since |-> latest]
    BY <1>7, BeginTypes DEF ForceRefresh, Ops
  <2>2. /\ RpcTypeOK' /\ pc[r] = "rejected" /\ pc'[r] = "refresh"
        /\ UNCHANGED <<attempt, sent, executed, rejectedAt, fetchFailed, result>>
    BY <1>7 DEF ForceRefresh, RpcTypeOK, Stages
  <2>3. Progress(r)' /\ Fresh(r)' /\ Outcome(r)'
    BY <2>1, <2>2 DEF Progress, Refreshing, Fresh, Outcome
  <2>. QED
    BY <2>1, <2>2, <2>3
<1>8. CASE Refreshed(r)
  <2>1. PICK t \in 1..latest : Return(r, t)
    BY <1>8 DEF Refreshed
  <2>2. /\ SourceTypeOK' /\ UNCHANGED <<latest, dead>> /\ cache' = t /\ t >= cache
        /\ call[r].op = "refresh" => t >= call[r].since
    BY <1>8, <2>1, ReturnTypes DEF Refreshed
  <2>3. /\ RpcTypeOK' /\ pc[r] = "refresh" /\ pc'[r] = "again"
        /\ UNCHANGED <<attempt, sent, executed, rejectedAt, fetchFailed, result>>
    BY <1>8 DEF Refreshed, RpcTypeOK, Stages
  <2>4. call[r].since \in Nat
    BY DEF SourceTypeOK, Idle
  <2>5. Progress(r)' /\ Fresh(r)' /\ Outcome(r)'
    BY <2>2, <2>3, <2>4 DEF Progress, Refreshing, Fresh, Outcome
  <2>. QED
    BY <2>2, <2>3, <2>5
<1>9. CASE RefreshFails(r)
  <2>1. SourceTypeOK' /\ UNCHANGED <<latest, cache, dead>>
    BY <1>9, FailTypes DEF RefreshFails
  <2>2. fetchFailed' \in [Callers -> BOOLEAN] /\ fetchFailed'[r]
    BY <1>9 DEF RefreshFails, RpcTypeOK
  <2>3. RpcTypeOK'
    BY <1>9, <2>2 DEF RefreshFails, Finish, RpcTypeOK, Stages, Results
  <2>4. Progress(r)' /\ Fresh(r)' /\ Outcome(r)'
    BY <1>9, <2>1, <2>2
    DEF RefreshFails, Finish, RpcTypeOK, Progress, Refreshing, Fresh, Outcome
  <2>. QED
    BY <2>1, <2>3, <2>4
<1>. QED
  BY <1>1, <1>2, <1>3, <1>4, <1>5, <1>6, <1>7, <1>8, <1>9 DEF Rpc

(* A step of one RPC leaves the state of every other one alone.            *)
LEMMA OthersUntouched ==
  ASSUME IInv, NEW r \in Callers, Rpc(r), NEW d \in Callers \ {r}
  PROVE  /\ pc'[d] = pc[d] /\ attempt'[d] = attempt[d] /\ sent'[d] = sent[d]
         /\ executed'[d] = executed[d] /\ rejectedAt'[d] = rejectedAt[d]
         /\ fetchFailed'[d] = fetchFailed[d] /\ result'[d] = result[d]
         /\ call'[d] = call[d]
<1>0. AuthTypeOK
  BY DEF IInv
<1>. USE <1>0 DEF AuthTypeOK
<1>1. CASE Invoke(r) \/ ForceRefresh(r)
  BY <1>1 DEF Invoke, ForceRefresh, Begin
<1>2. CASE GetRequestMetadata(r) \/ Refreshed(r)
  BY <1>2 DEF GetRequestMetadata, Refreshed, Return
<1>3. CASE CredentialsFail(r) \/ RefreshFails(r)
  BY <1>3 DEF CredentialsFail, RefreshFails, Fail, Unauthenticated, Finish
<1>4. CASE ServerRejects(r) \/ ServerExecutes(r) \/ TransportFails(r)
  BY <1>4 DEF ServerRejects, ServerExecutes, TransportFails, Unauthenticated, Finish, vars
<1>. QED
  BY <1>1, <1>2, <1>3, <1>4 DEF Rpc

-----------------------------------------------------------------------------
LEMMA StepInv == IInv /\ [AuthNext]_allVars => IInv'
<1>. SUFFICES ASSUME IInv, [AuthNext]_allVars PROVE IInv'
  OBVIOUS
<1>0. AuthTypeOK /\ MaxToken \in Nat /\ {latest, cache, dead} \subseteq Nat
  BY MaxTokenAssumption DEF IInv, AuthTypeOK
<1>1. ASSUME NEW r \in Callers, Rpc(r) PROVE IInv'
  <2>1. AuthTypeOK' /\ RpcInv(r)' /\ cache' >= cache /\ dead' >= dead /\ latest' >= latest
    BY <1>0, <1>1, RpcKeeps
  <2>2. ASSUME NEW d \in Callers \ {r} PROVE RpcInv(d)'
    BY <1>1, <2>1, OthersUntouched, OthersKept
  <2>. QED
    BY <2>1, <2>2 DEF IInv
<1>2. CASE TokenIssued \/ TokenDies \/ UNCHANGED allVars
  <2>1. AuthTypeOK'
    BY <1>0, <1>2 DEF TokenIssued, TokenDies, Issue, vars, rpcVars, allVars, AuthTypeOK
  <2>2. /\ cache' >= cache /\ dead' >= dead /\ latest' >= latest
        /\ UNCHANGED <<call, rpcVars>>
    BY <1>0, <1>2 DEF TokenIssued, TokenDies, Issue, vars, rpcVars, allVars
  <2>3. ASSUME NEW d \in Callers PROVE RpcInv(d)'
    BY <2>1, <2>2, OthersKept DEF rpcVars
  <2>. QED
    BY <2>1, <2>3 DEF IInv
<1>. QED
  BY <1>1, <1>2 DEF AuthNext

LEMMA Invariant == AuthSpec => []IInv
BY InitInv, StepInv, PTL DEF AuthSpec

(* The state of the client is well typed; in particular no RPC is invoked  *)
(* a third time (token.go:110-120).                                        *)
THEOREM TypeCorrect == AuthSpec => []AuthTypeOK
<1>1. IInv => AuthTypeOK
  BY DEF IInv
<1>. QED
  BY <1>1, Invariant, PTL

(* However many RPCs share the source, the retry runs none of them twice   *)
(* on the server (token.go:110-120).                                       *)
THEOREM NeverExecutedTwice == AuthSpec => []ExecutedOnce
<1>1. IInv => ExecutedOnce
  BY DEF IInv, RpcInv, Outcome, ExecutedOnce
<1>. QED
  BY <1>1, Invariant, PTL

(* The token of a retry is as new as the newest one at the rejection,      *)
(* although Get answers it from the cache that all RPCs share.             *)
THEOREM RetriesAreFresh == AuthSpec => []RetryIsFresh
<1>1. IInv => RetryIsFresh
  BY DEF IInv, RpcInv, Fresh, RetryIsFresh
<1>. QED
  BY <1>1, Invariant, PTL

(* A handler sees Unauthenticated only when fetching a token failed or     *)
(* every token known at the first rejection is dead.                       *)
THEOREM UnauthenticatedOnlyIfJustified == AuthSpec => []UnauthenticatedJustified
<1>1. IInv => UnauthenticatedJustified
  BY DEF IInv, RpcInv, Outcome, UnauthenticatedJustified
<1>. QED
  BY <1>1, Invariant, PTL
-----------------------------------------------------------------------------
(***************************************************************************)
(* The pages of the actors.                                                *)
(***************************************************************************)
ActorRow == [status : Statuses, at : Nat]
ActorCalls == [kind : RowActions \cup {"create"}, name : Names,
               from : Views, mounted : BOOLEAN, change : Nat]

ActorTypes ==
  /\ status \in [Names -> Statuses] /\ changes \in Nat /\ view \in Views
  /\ DOMAIN query = Views /\ DOMAIN fetch = Views
  /\ DOMAIN acted = Views /\ calls \subseteq ActorCalls
  /\ \A v \in Views :
       /\ query[v] \in [rows : [Covered(v) -> ActorRow],
                        loaded : BOOLEAN, failed : BOOLEAN]
       /\ acted[v] \in [Covered(v) -> Nat]

(* A fetch reads each actor once; when it has read all of them, what it      *)
(* brings is a list of them.                                                 *)
PagesRead ==
  \A v \in Views :
    /\ fetch[v].stage \in {"idle", "reading", "answered"}
    /\ fetch[v].stage # "idle" =>
         /\ fetch[v].todo \subseteq Covered(v)
         /\ DOMAIN fetch[v].rows = Covered(v) \ fetch[v].todo
         /\ \A n \in Covered(v) \ fetch[v].todo : fetch[v].rows[n] \in ActorRow
    /\ fetch[v].stage = "answered" =>
         fetch[v].todo = {} /\ fetch[v].rows \in [Covered(v) -> ActorRow]

(* What is reported has happened; a row that has been read by a fetch on its *)
(* way, like one of the view on show when none is, is not older than the last*)
(* change reported on it in that view.                                       *)
ActorFresh ==
  /\ \A c \in calls : c.change <= changes
  /\ \A v \in Views : \A n \in Covered(v) :
       /\ acted[v][n] <= changes
       /\ fetch[v].stage # "idle" /\ n \notin fetch[v].todo
            => fetch[v].rows[n].at >= acted[v][n]
       /\ v = view /\ fetch[v].stage = "idle"
          /\ query[v].loaded /\ ~query[v].failed
            => query[v].rows[n].at >= acted[v][n]

ActorInv == ActorTypes /\ PagesRead /\ ActorFresh

LEMMA FetchingFacts ==
  ASSUME NEW v
  PROVE  /\ Fetching(v).stage = "reading"
         /\ Fetching(v).todo = Covered(v)
         /\ DOMAIN Fetching(v).rows = {}
BY DEF Fetching

LEMMA ViewFacts ==
  /\ List \in Views
  /\ \A v \in Views : Covered(v) \subseteq Names
BY DEF Views, Covered

(* Fetches that are begun disturb nothing; a change may be reported on a view*)
(* where one is, or on one that is off show and at rest; and a view comes on *)
(* show with a fetch.                                                        *)
LEMMA FetchesBegin ==
  ASSUME ActorInv, UNCHANGED <<changes, query>>,
         \A c \in calls' : c.change <= changes,
         \A v \in Views :
           \/ /\ fetch'[v] = fetch[v] /\ acted'[v] = acted[v]
              /\ v = view' => v = view \/ fetch[v].stage # "idle"
           \/ /\ fetch'[v] = fetch[v] /\ fetch[v].stage = "idle" /\ v # view'
              /\ \A n \in Covered(v) : acted'[v][n] <= changes
           \/ /\ fetch'[v] = Fetching(v)
              /\ \A n \in Covered(v) : acted'[v][n] <= changes
  PROVE  PagesRead' /\ ActorFresh'
<1>1. changes' = changes /\ query' = query
  OBVIOUS
<1>2. PagesRead'
  BY FetchingFacts DEF ActorInv, PagesRead
<1>3. ActorFresh'
  BY <1>1, FetchingFacts DEF ActorInv, ActorFresh
<1>. QED
  BY <1>2, <1>3

(* A step that only moves calls, or nothing.                                 *)
LEMMA ActorsKeep ==
  ASSUME ActorInv, UNCHANGED <<status, changes, view, query, fetch, acted>>,
         calls' \subseteq ActorCalls, \A c \in calls' : c.change <= changes
  PROVE  ActorInv'
<1>1. PagesRead' /\ ActorFresh'
  BY FetchesBegin
<1>2. ActorTypes'
  BY DEF ActorInv, ActorTypes
<1>. QED
  BY <1>1, <1>2 DEF ActorInv

LEMMA ActorInitInv == ActorInit => ActorInv
<1>. SUFFICES ASSUME ActorInit PROVE ActorInv
  OBVIOUS
<1>1. NoRow \in ActorRow /\ "SUSPENDED" \in Statuses /\ "none" \in Statuses
  BY DEF NoRow, ActorRow, Statuses, Resumable
<1>2. ActorTypes
  <2>1. \A v \in Views :
          /\ [n \in Covered(v) |-> NoRow] \in [Covered(v) -> ActorRow]
          /\ [n \in Covered(v) |-> 0] \in [Covered(v) -> Nat]
    BY <1>1
  <2>2. /\ status \in [Names -> Statuses] /\ changes \in Nat
        /\ view \in Views /\ calls \subseteq ActorCalls
    BY <1>1, ViewFacts DEF ActorInit
  <2>3. /\ DOMAIN query = Views /\ DOMAIN fetch = Views
        /\ DOMAIN acted = Views
    BY DEF ActorInit
  <2>4. \A v \in Views :
          /\ query[v] \in [rows : [Covered(v) -> ActorRow],
                           loaded : BOOLEAN, failed : BOOLEAN]
          /\ acted[v] \in [Covered(v) -> Nat]
    BY <2>1 DEF ActorInit
  <2>. QED
    BY <2>2, <2>3, <2>4 DEF ActorTypes
<1>3. \A v \in Views :
        \/ fetch[v] = Fetching(v)
        \/ fetch[v] = NoFetch /\ fetch[v].stage = "idle"
  BY DEF ActorInit, NoFetch
<1>4. PagesRead
  BY <1>3, FetchingFacts DEF PagesRead
<1>5. ActorFresh
  <2>1. /\ calls = {} /\ changes = 0
        /\ \A v \in Views :
             /\ ~query[v].loaded
             /\ \A n \in Covered(v) : acted[v][n] = 0
    BY DEF ActorInit
  <2>. QED
    BY <1>3, <2>1, FetchingFacts DEF ActorFresh
<1>. QED
  BY <1>2, <1>4, <1>5 DEF ActorInv
(* Reading: one page of a list, or the whole of it.                          *)
LEMMA ActorReading ==
  ASSUME ActorInv,
         \/ Poll
         \/ \E v \in Views :
              FetchPage(v) \/ FetchArrives(v) \/ FetchFails(v)
  PROVE  ActorInv'
<1>. /\ ActorTypes /\ PagesRead /\ ActorFresh
     /\ \A c \in calls : c.change <= changes
  BY DEF ActorInv, ActorFresh
<1>1. CASE Poll
  <2>1. /\ fetch' = [fetch EXCEPT ![view] = Fetching(view)]
        /\ UNCHANGED <<status, changes, view, query, calls, acted>>
    BY <1>1 DEF Poll, control
  <2>2. /\ DOMAIN fetch' = Views
        /\ \A v \in Views : fetch'[v] = fetch[v] \/ fetch'[v] = Fetching(v)
    BY <2>1 DEF ActorTypes
  <2>3. PagesRead' /\ ActorFresh'
    BY <2>1, <2>2, FetchesBegin DEF ActorFresh
  <2>4. ActorTypes'
    BY <2>1, <2>2 DEF ActorTypes
  <2>. QED
    BY <2>3, <2>4 DEF ActorInv
<1>2. ASSUME NEW v \in Views, FetchPage(v) PROVE ActorInv'
  <2>1. PICK n \in fetch[v].todo :
          fetch' = [fetch EXCEPT ![v] =
            [stage |-> IF fetch[v].todo \ {n} = {} THEN "answered" ELSE "reading",
             todo |-> fetch[v].todo \ {n},
             rows |-> [m \in {n} \cup DOMAIN fetch[v].rows |->
                         IF m = n THEN Row(n) ELSE fetch[v].rows[m]]]]
    BY <1>2 DEF FetchPage
  <2>2. /\ fetch[v].stage = "reading"
        /\ UNCHANGED <<status, changes, view, query, calls, acted>>
    BY <1>2 DEF FetchPage, control
  <2>. DEFINE rest == fetch[v].todo \ {n}
              rows == [m \in {n} \cup DOMAIN fetch[v].rows |->
                         IF m = n THEN Row(n) ELSE fetch[v].rows[m]]
  <2>3. /\ n \in Covered(v) /\ n \in Names
        /\ {n} \cup DOMAIN fetch[v].rows = Covered(v) \ rest
        /\ rest \subseteq Covered(v)
    BY <2>1, <2>2, ViewFacts DEF PagesRead
  <2>4. Row(n) \in ActorRow /\ Row(n).at = changes
    BY <2>3 DEF Row, ActorRow, ActorTypes
  <2>5. /\ rows \in [Covered(v) \ rest -> ActorRow]
        /\ rows[n] = Row(n)
        /\ \A m \in Covered(v) \ rest : m # n => rows[m] = fetch[v].rows[m]
    BY <2>2, <2>3, <2>4 DEF PagesRead
  <2>6. /\ DOMAIN fetch' = Views
        /\ fetch'[v].stage = IF rest = {} THEN "answered" ELSE "reading"
        /\ fetch'[v].todo = rest /\ fetch'[v].rows = rows
        /\ \A w \in Views \ {v} : fetch'[w] = fetch[w]
    BY <2>1 DEF ActorTypes
  <2>7. \A m \in Covered(v) \ rest : m # n => m \notin fetch[v].todo
    OBVIOUS
  <2>. HIDE DEF rest, rows
  <2>8. PagesRead'
    BY <2>3, <2>5, <2>6 DEF PagesRead
  <2>9. ActorFresh'
    <3>1. \A m \in Covered(v) \ rest : rows[m].at >= acted[v][m]
      BY <2>2, <2>3, <2>4, <2>5, <2>7 DEF ActorFresh, ActorTypes
    <3>. QED
      BY <2>2, <2>6, <3>1 DEF ActorFresh
  <2>10. ActorTypes'
    BY <2>2, <2>6 DEF ActorTypes
  <2>. QED
    BY <2>8, <2>9, <2>10 DEF ActorInv
<1>3. ASSUME NEW v \in Views, FetchArrives(v) \/ FetchFails(v)
      PROVE  ActorInv'
  <2>1. /\ fetch' = [fetch EXCEPT ![v] = NoFetch]
        /\ UNCHANGED <<status, changes, view, calls, acted>>
    BY <1>3 DEF FetchArrives, FetchFails, control
  <2>2. /\ DOMAIN fetch' = Views /\ fetch'[v].stage = "idle"
        /\ \A w \in Views \ {v} : fetch'[w] = fetch[w]
    BY <2>1 DEF ActorTypes, NoFetch
  <2>3. /\ DOMAIN query' = Views
        /\ \A w \in Views \ {v} : query'[w] = query[w]
        /\ query'[v] \in [rows : [Covered(v) -> ActorRow],
                          loaded : BOOLEAN, failed : BOOLEAN]
        /\ query'[v].loaded /\ ~query'[v].failed =>
             \A n \in Covered(v) : query'[v].rows[n].at >= acted[v][n]
    <3>1. CASE FetchArrives(v)
      <4>. DEFINE new == [rows |-> fetch[v].rows, loaded |-> TRUE, failed |-> FALSE]
      <4>1. fetch[v].stage = "answered" /\ query' = [query EXCEPT ![v] = new]
        BY <3>1 DEF FetchArrives
      <4>2. /\ new \in [rows : [Covered(v) -> ActorRow],
                        loaded : BOOLEAN, failed : BOOLEAN]
            /\ \A n \in Covered(v) : new.rows[n].at >= acted[v][n]
        BY <4>1 DEF PagesRead, ActorFresh
      <4>. HIDE DEF new
      <4>. QED
        BY <4>1, <4>2 DEF ActorTypes
    <3>2. CASE FetchFails(v)
      <4>1. query' = [query EXCEPT ![v].failed = TRUE]
        BY <3>2 DEF FetchFails
      <4>. QED
        BY <4>1 DEF ActorTypes
    <3>. QED
      BY <1>3, <3>1, <3>2
  <2>4. PagesRead'
    BY <2>2 DEF PagesRead
  <2>5. ActorFresh'
    BY <2>1, <2>2, <2>3 DEF ActorFresh
  <2>6. ActorTypes'
    BY <2>1, <2>2, <2>3 DEF ActorTypes
  <2>. QED
    BY <2>4, <2>5, <2>6 DEF ActorInv
<1>. QED
  BY <1>1, <1>2, <1>3
LEMMA UnmountedCalls ==
  ASSUME NEW S \in SUBSET ActorCalls, \A c \in S : c.change <= changes
  PROVE  /\ Unmounted(S) \subseteq ActorCalls
         /\ \A c \in Unmounted(S) : c.change <= changes
<1>1. \A c \in S : /\ [c EXCEPT !.mounted = FALSE] \in ActorCalls
                   /\ [c EXCEPT !.mounted = FALSE].change = c.change
  BY DEF ActorCalls
<1>. QED
  BY <1>1 DEF Unmounted

LEMMA ActorSends ==
  ASSUME ActorInv, NEW n \in Names, NEW kind \in RowActions \cup {"create"},
         Send(n, kind)
  PROVE  ActorInv'
<1>. DEFINE new == [kind |-> kind, name |-> n, from |-> view, mounted |-> TRUE, change |-> 0]
<1>1. /\ calls' = calls \cup {new}
      /\ UNCHANGED <<status, changes, view, query, fetch, acted>>
  BY DEF Send, control
<1>2. new \in ActorCalls /\ new.change <= changes
  BY DEF ActorCalls, ActorInv, ActorTypes
<1>. HIDE DEF new
<1>. QED
  BY <1>1, <1>2, ActorsKeep DEF ActorInv, ActorTypes, ActorFresh

LEMMA ActorUser ==
  ASSUME ActorInv,
         \/ \E v \in Views : Visit(v)
         \/ \E n \in Names : \/ Create(n)
                             \/ \E kind \in RowActions : Act(n, kind)
  PROVE  ActorInv'
<1>1. ASSUME NEW v \in Views, Visit(v) PROVE ActorInv'
  <2>1. /\ view' = v /\ fetch' = Mounted(v, fetch)
        /\ calls' = Unmounted(calls)
        /\ UNCHANGED <<status, changes, query, acted>>
    BY <1>1 DEF Visit, control
  <2>2. /\ DOMAIN fetch' = Views
        /\ \A w \in Views :
             \/ fetch'[w] = Fetching(w)
             \/ fetch'[w] = fetch[w] /\ (w = v => fetch[w].stage # "idle")
    BY <2>1 DEF Mounted, ActorInv, ActorTypes
  <2>3. calls' \subseteq ActorCalls /\ \A c \in calls' : c.change <= changes
    BY <2>1, UnmountedCalls DEF ActorInv, ActorTypes, ActorFresh
  <2>4. PagesRead' /\ ActorFresh'
    BY <2>1, <2>2, <2>3, FetchesBegin DEF ActorInv, ActorFresh
  <2>5. ActorTypes'
    BY <2>1, <2>2, <2>3 DEF ActorInv, ActorTypes
  <2>. QED
    BY <2>4, <2>5 DEF ActorInv
<1>2. ASSUME NEW n \in Names, Create(n) PROVE ActorInv'
  BY <1>2, ActorSends DEF Create
<1>3. ASSUME NEW n \in Names, NEW kind \in RowActions, Act(n, kind)
      PROVE  ActorInv'
  BY <1>3, ActorSends DEF Act
<1>. QED
  BY <1>1, <1>2, <1>3

(* The control plane: a call takes effect, or an actor changes by itself.    *)
LEMMA ActorControl ==
  ASSUME ActorInv,
         (\E c \in calls : Executed(c)) \/ (\E n \in Names : Drifts(n))
  PROVE  ActorInv'
<1>. /\ ActorTypes /\ PagesRead /\ ActorFresh
  BY DEF ActorInv
<1>1. PICK m \in Names, new \in Statuses : Become(m, new)
  <2>1. ASSUME NEW c \in calls, Executed(c)
        PROVE  \E n \in Names, new \in Statuses : Become(n, new)
    <3>1. PICK new \in Outcomes(c.kind, status[c.name]) : Become(c.name, new)
      BY <2>1 DEF Executed
    <3>2. new \in Statuses
      BY <3>1 DEF Outcomes, Statuses, Resumable
    <3>. QED
      BY <3>1, <3>2 DEF ActorTypes, ActorCalls
  <2>2. ASSUME NEW n \in Names, Drifts(n)
        PROVE  \E new \in Statuses : Become(n, new)
    <3>1. PICK new \in Drift(status[n]) : Become(n, new)
      BY <2>2 DEF Drifts
    <3>2. new \in Statuses
      BY <3>1 DEF Drift, Statuses, Resumable
    <3>. QED
      BY <3>1, <3>2
  <2>. QED
    BY <2>1, <2>2
<1>2. /\ changes' = changes + 1 /\ changes \in Nat /\ status' \in [Names -> Statuses]
      /\ UNCHANGED <<view, query, fetch, acted>>
  BY <1>1 DEF Become, Executed, Drifts, ActorTypes
<1>3. calls' \subseteq ActorCalls /\ \A c \in calls' : c.change <= changes'
  <2>1. \A c \in calls : c \in ActorCalls /\ c.change <= changes'
    BY <1>2 DEF ActorTypes, ActorCalls, ActorFresh
  <2>2. ASSUME NEW c \in calls, Executed(c)
        PROVE  calls' \subseteq ActorCalls /\ \A d \in calls' : d.change <= changes'
    <3>1. calls' = (calls \ {c}) \cup {[c EXCEPT !.change = changes']}
      BY <2>2 DEF Executed
    <3>2. /\ [c EXCEPT !.change = changes'] \in ActorCalls
          /\ [c EXCEPT !.change = changes'].change = changes' /\ changes' <= changes'
      BY <1>2, <2>1 DEF ActorCalls
    <3>. QED
      BY <2>1, <3>1, <3>2
  <2>3. ASSUME NEW n \in Names, Drifts(n) PROVE calls' = calls
    BY <2>3 DEF Drifts
  <2>. QED
    BY <2>1, <2>2, <2>3
<1>4. ActorTypes'
  BY <1>2, <1>3 DEF ActorTypes
<1>5. PagesRead'
  BY <1>2 DEF PagesRead
<1>6. ActorFresh'
  <2>1. \A v \in Views : \A n \in Covered(v) : acted[v][n] <= changes'
    BY <1>2 DEF ActorTypes, ActorFresh
  <2>. QED
    BY <1>2, <1>3, <2>1 DEF ActorFresh
<1>. QED
  BY <1>4, <1>5, <1>6 DEF ActorInv

(* The end of a call that succeeded: of the views whose queries are          *)
(* invalidated, the one on show reads again, and one off show and at rest    *)
(* will when it is shown.                                                    *)
LEMMA SuccessReported ==
  ASSUME ActorInv, NEW c \in calls, NEW views \in SUBSET Views,
         Reported(c, views), UNCHANGED <<status, changes, query>>,
         \/ view' = view /\ fetch' = Invalidated(views)
         \/ view' = List /\ fetch' = Mounted(List, Invalidated(views)),
         calls' \in {calls \ {c}, Unmounted(calls \ {c})}
  PROVE  ActorInv'
<1>. /\ ActorTypes /\ PagesRead /\ ActorFresh
  BY DEF ActorInv
<1>1. /\ calls \ {c} \in SUBSET ActorCalls /\ \A d \in calls \ {c} : d.change <= changes
      /\ c.change \in Nat /\ c.change <= changes
  BY DEF ActorTypes, ActorCalls, ActorFresh
<1>2. calls' \subseteq ActorCalls /\ \A d \in calls' : d.change <= changes
  BY <1>1, UnmountedCalls
<1>. DEFINE f == Invalidated(views)
<1>3. /\ DOMAIN f = Views
      /\ \A v \in Views : f[v] = fetch[v] \/ f[v] = Fetching(v)
      /\ view \in views /\ ReadAgain(view) => f[view] = Fetching(view)
  BY DEF Invalidated, ReadAgain, ActorTypes
<1>. HIDE DEF f
<1>4. /\ DOMAIN acted' = Views
      /\ \A v \in Views :
           /\ acted'[v] \in [Covered(v) -> Nat]
           /\ \A n \in Covered(v) : acted'[v][n] <= changes
           /\ ~(v \in views /\ ReadAgain(v)) => acted'[v] = acted[v]
  BY <1>1 DEF Reported, ActorTypes, ActorFresh
<1>5. /\ DOMAIN fetch' = Views
      /\ \A v \in Views :
           \/ fetch'[v] = Fetching(v)
           \/ /\ fetch'[v] = fetch[v]
              /\ v = view' => v = view \/ fetch[v].stage # "idle"
              /\ v = view => ~(v \in views /\ ReadAgain(v))
  BY <1>3, FetchingFacts DEF Mounted, f
<1>6. \A v \in Views :
        \/ /\ fetch'[v] = fetch[v] /\ acted'[v] = acted[v]
           /\ v = view' => v = view \/ fetch[v].stage # "idle"
        \/ /\ fetch'[v] = fetch[v] /\ fetch[v].stage = "idle" /\ v # view'
           /\ \A n \in Covered(v) : acted'[v][n] <= changes
        \/ /\ fetch'[v] = Fetching(v)
           /\ \A n \in Covered(v) : acted'[v][n] <= changes
  BY <1>4, <1>5 DEF ReadAgain
<1>7. PagesRead' /\ ActorFresh'
  BY <1>2, <1>6, FetchesBegin
<1>8. ActorTypes'
  BY <1>2, <1>4, <1>5, ViewFacts DEF ActorTypes
<1>. QED
  BY <1>7, <1>8 DEF ActorInv

(* A call ends: a row action, a creation, or an error.                       *)
LEMMA ActorEnds ==
  ASSUME ActorInv, NEW c \in calls,
         ActionSucceeds(c) \/ CreateSucceeds(c) \/ Fails(c)
  PROVE  ActorInv'
<1>1. /\ calls \ {c} \in SUBSET ActorCalls /\ \A d \in calls \ {c} : d.change <= changes
      /\ {List} \in SUBSET Views /\ {List, c.name} \in SUBSET Views
  BY DEF ActorInv, ActorTypes, ActorCalls, ActorFresh, Views
<1>2. CASE Fails(c)
  <2>1. calls' = calls \ {c} /\ UNCHANGED <<status, changes, view, query, fetch, acted>>
    BY <1>2 DEF Fails, control
  <2>. QED
    BY <1>1, <2>1, ActorsKeep
<1>3. CASE ActionSucceeds(c)
  <2>1. /\ UNCHANGED <<status, changes, query>> /\ Reported(c, {List, c.name})
        /\ calls' \in {calls \ {c}, Unmounted(calls \ {c})}
        /\ \/ view' = view /\ fetch' = Invalidated({List, c.name})
           \/ view' = List /\ fetch' = Mounted(List, Invalidated({List, c.name}))
    BY <1>3 DEF ActionSucceeds, control
  <2>. QED
    BY <1>1, <2>1, SuccessReported
<1>4. CASE CreateSucceeds(c)
  <2>1. /\ UNCHANGED <<status, changes, query>> /\ Reported(c, {List})
        /\ calls' = calls \ {c} /\ view' = view /\ fetch' = Invalidated({List})
    BY <1>4 DEF CreateSucceeds, control
  <2>. QED
    BY <1>1, <2>1, SuccessReported
<1>. QED
  BY <1>2, <1>3, <1>4

LEMMA ActorStutter == ActorInv /\ UNCHANGED actorVars => ActorInv'
<1>. SUFFICES ASSUME ActorInv, UNCHANGED actorVars PROVE ActorInv'
  OBVIOUS
<1>. QED
  BY ActorsKeep DEF actorVars, control, ActorInv, ActorTypes, ActorFresh

-----------------------------------------------------------------------------
(* The inductive invariant of the pages of the actors: types, what fetches   *)
(* have read so far, and no row on its way or shown that is older than what  *)
(* was reported on it.                                                       *)
THEOREM SpecActorInv == ActorSpec => []ActorInv
<1>1. ActorInit => ActorInv
  BY ActorInitInv
<1>2. ActorInv /\ [ActorNext]_actorVars => ActorInv'
  <2>. SUFFICES ASSUME ActorInv, ActorNext PROVE ActorInv'
    BY ActorStutter
  <2>. QED
    BY ActorReading, ActorUser, ActorControl, ActorEnds DEF ActorNext
<1>. QED
  BY <1>1, <1>2, PTL DEF ActorSpec

(* Once no fetch is under way, the view on show is not older than any action *)
(* reported on it, of its own page, of another page or, on the list, of the  *)
(* creation dialog, although the rows of a list are read one page after      *)
(* another and polls, visits and calls interleave (ActorActions.tsx:74-82,   *)
(* CreateActorDialog.tsx:94-100).                                            *)
THEOREM ViewsNotOlderThanActions == ActorSpec => []ViewNotOlderThanAction
<1>1. ActorInv => ViewNotOlderThanAction
  BY DEF ActorInv, ActorTypes, ActorFresh,
         ViewNotOlderThanAction, Shown
<1>. QED
  BY <1>1, SpecActorInv, PTL
=============================================================================
