------------------------------ MODULE FileToken ------------------------------
(***************************************************************************)
(* internal/substrate/filetoken.go: FileTokenProvider, which caches the    *)
(* projected ServiceAccount token together with the mtime of its file.     *)
(*                                                                         *)
(* The kubelet replaces the file at any moment, each time with a newer     *)
(* token and a newer mtime, so token n is the one in the file while its    *)
(* mtime is n.  The kubelet does not know p.mu: a rotation may fall        *)
(* between any two system calls of a Get or a ForceRefresh.                *)
(***************************************************************************)
EXTENDS Naturals

CONSTANTS Callers, None,
          MaxToken       \* bound on the rotations

ASSUME NoneAssumption == None \notin Callers
ASSUME MaxTokenAssumption == MaxToken \in Nat \ {0}

VARIABLES
  file,     \* the token in the file, and the file's mtime
  token,    \* p.token, 0 when empty
  mtime,    \* p.mtime
  mu,       \* the caller that holds p.mu, or None
  at,       \* per caller: where the call is
  op,       \* per caller: which call
  tok,      \* per caller: the local variable of readLocked
  since,    \* history, per caller: file when the call began
  answer    \* per caller: what the last call returned, 0 if it failed

vars == <<file, token, mtime, mu, at, op, tok, since, answer>>

Positions == {"idle", "lock", "locked", "read", "stat"}
Ops == {"get", "refresh"}

Init ==
  /\ file = 1 /\ token = 0 /\ mtime = 0 /\ mu = None
  /\ at = [c \in Callers |-> "idle"]
  /\ op = [c \in Callers |-> "none"]
  /\ tok = [c \in Callers |-> 0]
  /\ since = [c \in Callers |-> 0]
  /\ answer = [c \in Callers |-> 0]

-----------------------------------------------------------------------------
(* The kubelet swaps in a new token (external).                            *)
Rotate ==
  /\ file < MaxToken
  /\ file' = file + 1
  /\ UNCHANGED <<token, mtime, mu, at, op, tok, since, answer>>

Call(c, o) ==
  /\ at[c] = "idle"
  /\ at' = [at EXCEPT ![c] = "lock"]
  /\ op' = [op EXCEPT ![c] = o]
  /\ since' = [since EXCEPT ![c] = file]
  /\ answer' = [answer EXCEPT ![c] = 0]
  /\ UNCHANGED <<file, token, mtime, mu, tok>>

(* Mutant: p.mu is not taken.                                              *)
LockNot(c) ==
  /\ at[c] = "lock"
  /\ at' = [at EXCEPT ![c] = IF op[c] = "get" THEN "locked" ELSE "read"]
  /\ UNCHANGED <<file, token, mtime, mu, op, tok, since, answer>>

(* ForceRefresh goes straight to readLocked, Get stats the file first.     *)
Lock(c) ==
  /\ at[c] = "lock" /\ mu = None
  /\ mu' = c
  /\ at' = [at EXCEPT ![c] = IF op[c] = "get" THEN "locked" ELSE "read"]
  /\ UNCHANGED <<file, token, mtime, op, tok, since, answer>>

(* The deferred Unlock, with the result the call returns.                  *)
Unlock(c, result) ==
  /\ mu' = None
  /\ at' = [at EXCEPT ![c] = "idle"]
  /\ op' = [op EXCEPT ![c] = "none"]
  /\ tok' = [tok EXCEPT ![c] = 0]
  /\ since' = [since EXCEPT ![c] = 0]
  /\ answer' = [answer EXCEPT ![c] = result]

(* os.Stat reports the mtime the cache was filled under.                   *)
GetHit(c) ==
  /\ at[c] = "locked" /\ token # 0 /\ file = mtime
  /\ Unlock(c, token)
  /\ UNCHANGED <<file, token, mtime>>

GetMiss(c) ==
  /\ at[c] = "locked" /\ ~(token # 0 /\ file = mtime)
  /\ at' = [at EXCEPT ![c] = "read"]
  /\ UNCHANGED <<file, token, mtime, mu, op, tok, since, answer>>

ReadFile(c) ==
  /\ at[c] = "read"
  /\ tok' = [tok EXCEPT ![c] = file]
  /\ at' = [at EXCEPT ![c] = "stat"]
  /\ UNCHANGED <<file, token, mtime, mu, op, since, answer>>

(* The second os.Stat: the mtime of the file as it is by now.              *)
StatAndStore(c) ==
  /\ at[c] = "stat"
  /\ token' = tok[c]
  /\ mtime' = file
  /\ Unlock(c, tok[c])
  /\ UNCHANGED file

(* A system call fails, or the file is empty.                              *)
CallFails(c) ==
  /\ at[c] \in {"locked", "read", "stat"}
  /\ Unlock(c, 0)
  /\ UNCHANGED <<file, token, mtime>>

Step(c) == \/ Lock(c) \/ GetHit(c) \/ GetMiss(c) \/ ReadFile(c)
           \/ StatAndStore(c) \/ CallFails(c)

Next == \/ Rotate
        \/ \E c \in Callers : (\E o \in Ops : Call(c, o)) \/ Step(c)

Spec == Init /\ [][Next]_vars

-----------------------------------------------------------------------------
TypeOK ==
  /\ file \in 1..MaxToken /\ token \in 0..MaxToken /\ mtime \in 0..MaxToken
  /\ mu \in Callers \cup {None}
  /\ at \in [Callers -> Positions]
  /\ \A c \in Callers : (mu = c) = (at[c] \notin {"idle", "lock"})
  /\ op \in [Callers -> Ops \cup {"none"}]
  /\ tok \in [Callers -> 0..MaxToken]
  /\ since \in [Callers -> 0..MaxToken]
  /\ answer \in [Callers -> 0..MaxToken]

Source == INSTANCE TokenSource WITH
            latest <- file, cache <- token,
            call <- [c \in Callers |->
                       IF at[c] = "idle" THEN [op |-> "none", since |-> 0]
                       ELSE [op |-> op[c], since |-> since[c]]]

(* FileTokenProvider is a TokenSource: tokens never go back in time and a  *)
(* ForceRefresh is as new as the file was when it was called, wherever the *)
(* rotations fall (filetoken.go:30-66, token.go:86-92).                    *)
ImplementsTokenSource == Source!Spec

==============================================================================
