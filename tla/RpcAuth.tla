------------------------------- MODULE RpcAuth -------------------------------
(***************************************************************************)
(* The authenticated substrate client: unary RPCs that carry a token from  *)
(* a TokenSource (perRPCCreds) through unauthenticatedRetryInterceptor     *)
(* (token.go:94-121, client.go:30-54).                                     *)
(*                                                                         *)
(* Many handlers issue RPCs at once over one source.  The source is the    *)
(* abstract TokenSource, so what holds here holds of both providers that   *)
(* implement it.  The server accepts the tokens newer than `dead`: tokens  *)
(* expire, or are revoked, oldest first, and the newest one may be dead.   *)
(***************************************************************************)
EXTENDS TokenSource

VARIABLES
  dead,        \* the newest token the server rejects
  pc,          \* per RPC: where it is
  attempt,     \* per RPC: number of invoker calls begun
  sent,        \* per RPC: the token on the wire, 0 if none
  executed,    \* history, per RPC: how often the server ran it
  rejectedAt,  \* history, per RPC: latest when the first attempt was rejected
  fetchFailed, \* history, per RPC: the source failed its last fetch
  result       \* per RPC: how it ended

rpcVars == <<pc, attempt, sent, executed, rejectedAt, fetchFailed, result>>
allVars == <<latest, cache, call, answer, dead, pc, attempt, sent, executed,
             rejectedAt, fetchFailed, result>>

Stages == {"idle", "creds", "wire", "rejected", "refresh", "again", "done"}
Results == {"none", "ok", "error", "unauthenticated"}

AuthInit ==
  /\ Init
  /\ dead \in 0..latest
  /\ pc = [r \in Callers |-> "idle"]
  /\ attempt = [r \in Callers |-> 0]
  /\ sent = [r \in Callers |-> 0]
  /\ executed = [r \in Callers |-> 0]
  /\ rejectedAt = [r \in Callers |-> 0]
  /\ fetchFailed = [r \in Callers |-> FALSE]
  /\ result = [r \in Callers |-> "none"]

(* An invoker call begins: grpc asks the credentials for their metadata.   *)
Invoke(r) ==
  /\ pc[r] \in {"idle", "again"}
  /\ Begin(r, "get")
  /\ attempt' = [attempt EXCEPT ![r] = @ + 1]
  /\ pc' = [pc EXCEPT ![r] = "creds"]
  /\ UNCHANGED <<dead, sent, executed, rejectedAt, fetchFailed, result>>

GetRequestMetadata(r) ==
  /\ pc[r] = "creds"
  /\ \E token \in 1..latest : /\ Return(r, token)
                              /\ sent' = [sent EXCEPT ![r] = token]
  /\ pc' = [pc EXCEPT ![r] = "wire"]
  /\ UNCHANGED <<dead, attempt, executed, rejectedAt, fetchFailed, result>>

(* Mutant: every rejection is retried.                                     *)
UnauthenticatedAlwaysRetried(r) ==
  /\ sent' = [sent EXCEPT ![r] = 0]
  /\ pc' = [pc EXCEPT ![r] = "rejected"]
  /\ rejectedAt' = [rejectedAt EXCEPT ![r] = latest]
  /\ UNCHANGED result

(* The invoker returns codes.Unauthenticated: the first time the           *)
(* interceptor refreshes, the second time the RPC has failed.              *)
Unauthenticated(r) ==
  /\ sent' = [sent EXCEPT ![r] = 0]
  /\ IF attempt[r] = 1
     THEN /\ pc' = [pc EXCEPT ![r] = "rejected"]
          /\ rejectedAt' = [rejectedAt EXCEPT ![r] = latest]
          /\ UNCHANGED result
     ELSE /\ pc' = [pc EXCEPT ![r] = "done"]
          /\ result' = [result EXCEPT ![r] = "unauthenticated"]
          /\ UNCHANGED rejectedAt

(* grpc reports a failing credential source as Unauthenticated itself.     *)
CredentialsFail(r) ==
  /\ pc[r] = "creds"
  /\ Fail(r)
  /\ fetchFailed' = [fetchFailed EXCEPT ![r] = attempt[r] = 2]
  /\ Unauthenticated(r)
  /\ UNCHANGED <<dead, attempt, executed>>

ServerRejects(r) ==
  /\ pc[r] = "wire" /\ sent[r] <= dead
  /\ Unauthenticated(r)
  /\ UNCHANGED vars /\ UNCHANGED <<dead, attempt, executed, fetchFailed>>

Finish(r, outcome) ==
  /\ pc' = [pc EXCEPT ![r] = "done"]
  /\ sent' = [sent EXCEPT ![r] = 0]
  /\ result' = [result EXCEPT ![r] = outcome]

(* Mutant: the interceptor retries after any error.                        *)
ServerExecutesRetried(r) ==
  /\ pc[r] = "wire" /\ sent[r] > dead
  /\ executed' = [executed EXCEPT ![r] = @ + 1]
  /\ IF attempt[r] = 1 THEN Unauthenticated(r) ELSE Finish(r, "ok") /\ UNCHANGED rejectedAt
  /\ UNCHANGED vars /\ UNCHANGED <<dead, attempt, fetchFailed>>

(* The server runs the RPC; the reply is a success or another status, or   *)
(* is lost on the way back.                                                *)
ServerExecutes(r) ==
  /\ pc[r] = "wire" /\ sent[r] > dead
  /\ executed' = [executed EXCEPT ![r] = @ + 1]
  /\ \E outcome \in {"ok", "error"} : Finish(r, outcome)
  /\ UNCHANGED vars /\ UNCHANGED <<dead, attempt, rejectedAt, fetchFailed>>

(* The connection fails before the server sees the RPC.                    *)
TransportFails(r) ==
  /\ pc[r] = "wire"
  /\ Finish(r, "error")
  /\ UNCHANGED vars
  /\ UNCHANGED <<dead, attempt, executed, rejectedAt, fetchFailed>>

(* Mutant: the interceptor calls Get, which may answer from the cache.     *)
ForceRefreshByGet(r) ==
  /\ pc[r] = "rejected"
  /\ Begin(r, "get")
  /\ pc' = [pc EXCEPT ![r] = "refresh"]
  /\ UNCHANGED <<dead, attempt, sent, executed, rejectedAt, fetchFailed, result>>

ForceRefresh(r) ==
  /\ pc[r] = "rejected"
  /\ Begin(r, "refresh")
  /\ pc' = [pc EXCEPT ![r] = "refresh"]
  /\ UNCHANGED <<dead, attempt, sent, executed, rejectedAt, fetchFailed, result>>

Refreshed(r) ==
  /\ pc[r] = "refresh"
  /\ \E token \in 1..latest : Return(r, token)
  /\ pc' = [pc EXCEPT ![r] = "again"]
  /\ UNCHANGED <<dead, attempt, sent, executed, rejectedAt, fetchFailed, result>>

(* Mutant: a failed refresh is tried again.                                *)
RefreshFailsRetried(r) ==
  /\ pc[r] = "refresh"
  /\ Fail(r)
  /\ pc' = [pc EXCEPT ![r] = "rejected"]
  /\ UNCHANGED <<dead, attempt, sent, executed, rejectedAt, fetchFailed, result>>

(* The original error is what the caller sees.                             *)
RefreshFails(r) ==
  /\ pc[r] = "refresh"
  /\ Fail(r)
  /\ fetchFailed' = [fetchFailed EXCEPT ![r] = TRUE]
  /\ Finish(r, "unauthenticated")
  /\ UNCHANGED <<dead, attempt, executed, rejectedAt>>

(* Tokens come into existence and die (external).                          *)
TokenIssued == Issue /\ UNCHANGED dead /\ UNCHANGED rpcVars

TokenDies ==
  /\ dead < latest
  /\ dead' = dead + 1
  /\ UNCHANGED vars /\ UNCHANGED rpcVars

Rpc(r) == \/ Invoke(r) \/ GetRequestMetadata(r) \/ CredentialsFail(r)
          \/ ServerRejects(r) \/ ServerExecutes(r) \/ TransportFails(r)
          \/ ForceRefresh(r) \/ Refreshed(r) \/ RefreshFails(r)

AuthNext == \/ \E r \in Callers : Rpc(r)
            \/ TokenIssued
            \/ TokenDies

(* The client's own steps go on: kubectl and file reads return, so that the*)
(* source answers.  An attempt on the wire need not end: neither the       *)
(* handlers, which pass r.Context(), nor dial (client.go:30-54) set a      *)
(* deadline or a keepalive.                                                *)
AuthSpec == AuthInit /\ [][AuthNext]_allVars
AuthFairSpec ==
  /\ AuthSpec
  /\ \A r \in Callers : WF_allVars(pc[r] \notin {"idle", "wire"} /\ Rpc(r))

-----------------------------------------------------------------------------
AuthTypeOK ==
  /\ latest \in 0..MaxToken /\ cache \in 0..latest /\ dead \in 0..latest
  /\ call \in [Callers -> [op : Ops, since : 0..MaxToken] \cup {Idle}]
  /\ answer \in [Callers -> 0..MaxToken]
  /\ pc \in [Callers -> Stages]
  /\ attempt \in [Callers -> 0..2]
  /\ sent \in [Callers -> 0..MaxToken]
  /\ executed \in [Callers -> Nat]
  /\ rejectedAt \in [Callers -> 0..MaxToken]
  /\ fetchFailed \in [Callers -> BOOLEAN]
  /\ result \in [Callers -> Results]

(* The retry never runs an RPC twice on the server: creating an actor or   *)
(* resuming one is not idempotent (token.go:110-120).                      *)
ExecutedOnce == \A r \in Callers : executed[r] <= 1

(* The token of the second attempt is not older than the newest one there  *)
(* was when the first was rejected, although the retry asks the shared     *)
(* cache for it and other RPCs refresh that cache (token.go:116-119).      *)
RetryIsFresh ==
  \A r \in Callers :
    pc[r] = "wire" /\ attempt[r] = 2 => sent[r] >= rejectedAt[r]

(* As long as the newest token is accepted and can be fetched, no handler  *)
(* sees Unauthenticated: an RPC ends so only if its last fetch failed, or   *)
(* every token up to the newest one of the first rejection is dead.        *)
UnauthenticatedJustified ==
  \A r \in Callers :
    result[r] = "unauthenticated" => fetchFailed[r] \/ dead >= rejectedAt[r]

(* An RPC whose attempts are answered, or fail on the way, ends, whatever  *)
(* becomes of the others on the same source: the interceptor neither       *)
(* retries for ever nor waits for a refresh without end (token.go:110-120).*)
RpcEnds ==
  \A r \in Callers :
    ((pc[r] = "wire") ~> (pc[r] # "wire")) => ((pc[r] # "idle") ~> (pc[r] = "done"))
==============================================================================
