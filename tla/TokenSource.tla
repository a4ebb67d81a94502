---------------------------- MODULE TokenSource ----------------------------
(***************************************************************************)
(* The promise of substrate.TokenSource (token.go:86-92), which both       *)
(* TokenProvider and FileTokenProvider keep and the RPC interceptor relies *)
(* on.  Tokens are numbered in the order they come into existence; 0 is    *)
(* no token.                                                               *)
(*                                                                         *)
(* A call may return any token that is not older than what earlier calls   *)
(* returned; a ForceRefresh moreover returns one that is not older than    *)
(* the newest token that existed when it was called.  A failed call leaves *)
(* the cache alone.                                                        *)
(***************************************************************************)
EXTENDS Naturals

CONSTANTS Callers,   \* goroutines that ask for tokens
          MaxToken   \* bound on the tokens ever issued

ASSUME MaxTokenAssumption == MaxToken \in Nat

VARIABLES latest,    \* the newest token in existence
          cache,     \* the token the source holds
          call,      \* per caller: the pending operation, and latest at its call
          answer     \* per caller: what its last call returned, 0 if it failed

vars == <<latest, cache, call, answer>>

Ops == {"get", "refresh"}
Idle == [op |-> "none", since |-> 0]

Init == /\ latest \in 0..MaxToken /\ cache = 0
        /\ call = [c \in Callers |-> Idle]
        /\ answer = [c \in Callers |-> 0]

(* kubectl or the kubelet brings a new token into existence.               *)
Issue == /\ latest < MaxToken
         /\ latest' = latest + 1
         /\ UNCHANGED <<cache, call, answer>>

Begin(c, op) ==
  /\ call[c] = Idle
  /\ call' = [call EXCEPT ![c] = [op |-> op, since |-> latest]]
  /\ answer' = [answer EXCEPT ![c] = 0]
  /\ UNCHANGED <<latest, cache>>

Return(c, t) ==
  /\ call[c] # Idle
  /\ t # 0 /\ t >= cache
  /\ call[c].op = "refresh" => t >= call[c].since
  /\ cache' = t
  /\ answer' = [answer EXCEPT ![c] = t]
  /\ call' = [call EXCEPT ![c] = Idle]
  /\ UNCHANGED latest

Fail(c) ==
  /\ call[c] # Idle
  /\ call' = [call EXCEPT ![c] = Idle]
  /\ UNCHANGED <<latest, cache, answer>>

Next == \/ Issue
        \/ \E c \in Callers : \/ \E op \in Ops : Begin(c, op)
                              \/ \E t \in 1..latest : Return(c, t)
                              \/ Fail(c)

Spec == Init /\ [][Next]_vars
=============================================================================
