----------------------------- MODULE GatewayAdmin -----------------------------
(***************************************************************************)
(* Administration of the LLM gateway: the master key that the LiteLLM      *)
(* client resolves lazily and shares between requests (gateway/client.go), *)
(* the status and the model registry behind it, and the page that shows    *)
(* them (GatewayPage.tsx, RegisterModelDialog.tsx).                        *)
(*                                                                         *)
(* LiteLLM and the Kubernetes API are external.  A master key is the       *)
(* version of the Secret it was written in, models are numbered as they    *)
(* are registered, 0 is none.  Every request is a call that takes the key  *)
(* and then talks to LiteLLM; "other" stands for the requests of other     *)
(* pages and for those this page no longer waits for.                      *)
(***************************************************************************)
EXTENDS Naturals

CONSTANTS Versions,     \* bound on the versions of the master key
          MaxModels     \* bound on the models ever registered

ASSUME AdminBounds == Versions \in Nat \ {0} /\ MaxModels \in Nat \ {0}

VARIABLES
  models,    \* LiteLLM: its registered models
  minted,    \* LiteLLM: number of models ever registered
  env,       \* server: LITELLM_MASTER_KEY, 0 if unset
  cache,     \* Client.cache, 0 if empty
  holder,    \* Client.mu: the call that holds it
  call,      \* the calls in progress
  here,      \* page: it is on show
  info,      \* page: the gatewayInfo query has data
  rows,      \* page: the gatewayModels query
  deleted    \* history: models whose deletion was reported to the user

litellm == <<models, minted>>
client == <<env, cache, holder>>
queries == <<info, rows>>
vars == <<litellm, client, call, here, queries, deleted>>

Ops == {"startup", "info", "models", "register", "delete", "other"}
Models == 1..MaxModels
Nobody == "nobody"
EnvKeys == {0, 1}  \* bound: one key in the environment
Stages == {"idle", "entering", "reading", "sent", "answered"}
Call == [stage : Stages, key : 0..Versions, model : 0..MaxModels,
         ids : SUBSET Models, probe : BOOLEAN]

Idle == [stage |-> "idle", key |-> 0, model |-> 0, ids |-> {}, probe |-> FALSE]
Begun == [Idle EXCEPT !.stage = "entering"]
Answered == [Idle EXCEPT !.stage = "answered"]

(* Nothing is served before ResolveMasterKey has returned.                 *)
Serving == call["startup"].stage = "idle"

Init ==
  /\ models = {} /\ minted = 0
  /\ env \in EnvKeys /\ cache = 0 /\ holder = Nobody
  /\ call = [o \in Ops |-> IF o = "startup" THEN Begun ELSE Idle]
  /\ here = FALSE /\ info = FALSE
  /\ rows = [ids |-> {}, loaded |-> FALSE, failed |-> FALSE]
  /\ deleted = {}

-----------------------------------------------------------------------------
(* The master key: Client.masterKey, called by every request.              *)

AtKey(o) == call[o].stage = "entering" /\ (o = "startup" \/ Serving)
Holding(o) == call[o].stage = "reading" /\ holder = o

(* The call has its key; ResolveMasterKey only wanted the key.             *)
Keyed(o, key) ==
  [call EXCEPT ![o] = IF o = "startup" THEN Idle
                      ELSE [@ EXCEPT !.stage = "sent", !.key = key]]

(* A call fails: the list that made it is in error, a registration is      *)
(* reported as failed; a failed info request leaves its query as it was.   *)
(* Info ignores the error of its second request.                           *)
Failed(o) ==
  IF o = "info" /\ call[o].probe
  THEN /\ call' = [call EXCEPT ![o] = Answered]
       /\ UNCHANGED <<here, queries>>
  ELSE /\ call' = [call EXCEPT ![o] = Idle]
       /\ rows' = [rows EXCEPT !.failed = @ \/ o = "models"]
       /\ UNCHANGED <<here, info>>

FromEnv(o) ==
  /\ AtKey(o) /\ env # 0
  /\ call' = Keyed(o, env)
  /\ UNCHANGED <<litellm, client, here, queries, deleted>>

FromCache(o) ==
  /\ AtKey(o) /\ env = 0 /\ holder = Nobody
  /\ cache # 0
  /\ call' = Keyed(o, cache)
  /\ UNCHANGED <<litellm, client, here, queries, deleted>>

(* Mutant: the cache is not looked at again once the mutex is held.        *)
StartReadAgain(o) ==
  /\ AtKey(o) /\ env = 0 /\ holder = Nobody
  /\ call' = [call EXCEPT ![o].stage = "reading"]
  /\ holder' = o
  /\ UNCHANGED <<litellm, env, cache, here, queries, deleted>>

(* The mutex is held for the whole read of the Secret.                     *)
StartRead(o) ==
  /\ AtKey(o) /\ env = 0 /\ holder = Nobody
  /\ cache = 0
  /\ call' = [call EXCEPT ![o].stage = "reading"]
  /\ holder' = o
  /\ UNCHANGED <<litellm, env, cache, here, queries, deleted>>

(* The Secret litellm/litellm-secrets holds any version: it may have been  *)
(* rotated since it was last read.                                         *)
SecretRead(o) ==
  /\ Holding(o)
  /\ cache' \in 1..Versions /\ holder' = Nobody
  /\ call' = Keyed(o, cache')
  /\ UNCHANGED <<litellm, env, here, queries, deleted>>

(* Mutant: a failed read returns without unlocking.                        *)
ReadFailsLocked(o) ==
  /\ Holding(o)
  /\ Failed(o)
  /\ UNCHANGED <<litellm, client, deleted>>

(* There is no Kubernetes client, the API fails or is late (10 s), or the  *)
(* Secret has no usable key: nothing is cached, the next call tries again. *)
ReadFails(o) ==
  /\ Holding(o)
  /\ holder' = Nobody
  /\ Failed(o)
  /\ UNCHANGED <<litellm, env, cache, deleted>>

-----------------------------------------------------------------------------
(* Requests to LiteLLM, which may take any key or refuse it.               *)

Sent(o) == call[o].stage = "sent"

(* Mutant: the version is asked for until there is one.                    *)
InfoServedUntilVersion ==
  /\ Sent("info")
  /\ call' = [call EXCEPT !["info"] = [Begun EXCEPT !.probe = TRUE]]
  /\ UNCHANGED <<litellm, client, here, queries, deleted>>

(* /health/liveliness, then the whole of do() again for /version.          *)
InfoServed ==
  /\ Sent("info")
  /\ call' = [call EXCEPT !["info"] =
                IF @.probe THEN Answered
                ELSE [Begun EXCEPT !.probe = TRUE]]
  /\ UNCHANGED <<litellm, client, here, queries, deleted>>

ModelsServed ==
  /\ Sent("models")
  /\ call' = [call EXCEPT !["models"] =
                [Answered EXCEPT !.ids = models]]
  /\ UNCHANGED <<litellm, client, here, queries, deleted>>

RegisterServed ==
  /\ Sent("register") /\ minted < MaxModels
  /\ minted' = minted + 1
  /\ models' = models \cup {minted'}
  /\ call' = [call EXCEPT !["register"] =
                [Answered EXCEPT !.model = minted']]
  /\ UNCHANGED <<client, here, queries, deleted>>

DeleteServed ==
  /\ Sent("delete") /\ call["delete"].model \in models
  /\ models' = models \ {call["delete"].model}
  /\ call' = [call EXCEPT !["delete"].stage = "answered", !["delete"].key = 0]
  /\ UNCHANGED <<minted, client, here, queries, deleted>>

OtherServed ==
  /\ Sent("other")
  /\ call' = [call EXCEPT !["other"] = Answered]
  /\ UNCHANGED <<litellm, client, here, queries, deleted>>

(* LiteLLM refuses, is unreachable or late, the answer is lost, or the     *)
(* server is not up yet.                                                   *)
Drops(o) ==
  /\ \/ call[o].stage \in {"sent", "answered"}
     \/ call[o].stage = "entering" /\ ~AtKey(o)
  /\ Failed(o)
  /\ UNCHANGED <<litellm, client, deleted>>

-----------------------------------------------------------------------------
(* The page.                                                               *)

(* What a query shows: its data outlives a failed info request, but not a  *)
(* failed list.                                                            *)
Reachable == here /\ info
Rows == IF Reachable /\ rows.loaded /\ ~rows.failed THEN rows.ids ELSE {}

BegunIf(condition, o) == IF condition /\ call[o].stage = "idle" THEN Begun ELSE call[o]

(* Mounting the page fetches what is not being fetched; a fetch begun by   *)
(* an earlier visit is joined, not repeated.                               *)
Visit ==
  /\ ~here
  /\ here' = TRUE
  /\ call' = [call EXCEPT !["info"] = BegunIf(TRUE, "info"),
                          !["models"] = BegunIf(info, "models")]
  /\ UNCHANGED <<litellm, client, queries, deleted>>

(* Calls go on without the page.                                           *)
Leave ==
  /\ here
  /\ here' = FALSE
  /\ UNCHANGED <<litellm, client, call, queries, deleted>>

(* Mutant: the models are not polled.                                      *)
PollNever == FALSE

Poll ==
  /\ Reachable /\ call["models"].stage = "idle"
  /\ call' = [call EXCEPT !["models"] = Begun]
  /\ UNCHANGED <<litellm, client, here, queries, deleted>>

InfoArrives ==
  /\ call["info"].stage = "answered"
  /\ info' = TRUE
  /\ call' = [call EXCEPT !["info"] = Idle,
                          !["models"] = BegunIf(here, "models")]
  /\ UNCHANGED <<litellm, client, here, rows, deleted>>

ModelsArrive ==
  /\ call["models"].stage = "answered"
  /\ rows' = [ids |-> call["models"].ids, loaded |-> TRUE, failed |-> FALSE]
  /\ call' = [call EXCEPT !["models"] = Idle]
  /\ UNCHANGED <<litellm, client, here, info, deleted>>

(* The call o succeeded and invalidates the models: shown, they are        *)
(* fetched anew, and the server finishes the old request for nobody.       *)
Invalidating(o) ==
  LET again == Reachable /\ (rows.loaded \/ call["models"].stage = "idle")
      left == again /\ call["models"].stage = "reading"
  IN /\ call' = [call EXCEPT ![o] = Idle,
                   !["models"] = IF again THEN Begun ELSE @,
                   !["other"] = IF left THEN call["models"] ELSE @]
     /\ holder' = IF left THEN "other" ELSE holder

(* Bound: one mutation of the page at a time.                              *)
NoMutation == call["register"].stage = "idle" /\ call["delete"].stage = "idle"

Register ==
  /\ Reachable /\ NoMutation
  /\ call' = [call EXCEPT !["register"] = Begun]
  /\ UNCHANGED <<litellm, client, here, queries, deleted>>

RegisterArrives ==
  /\ call["register"].stage = "answered"
  /\ Invalidating("register")
  /\ UNCHANGED <<litellm, env, cache, here, queries, deleted>>

Delete(m) ==
  /\ m \in Rows /\ NoMutation
  /\ call' = [call EXCEPT !["delete"] = [Begun EXCEPT !.model = m]]
  /\ UNCHANGED <<litellm, client, here, queries, deleted>>

DeleteArrives ==
  /\ call["delete"].stage = "answered"
  /\ deleted' = deleted \cup {call["delete"].model}
  /\ Invalidating("delete")
  /\ UNCHANGED <<litellm, env, cache, here, queries>>

-----------------------------------------------------------------------------
(* The surroundings.                                                       *)

OtherBegins ==
  /\ call["other"].stage = "idle"
  /\ call' = [call EXCEPT !["other"] = Begun]
  /\ UNCHANGED <<litellm, client, here, queries, deleted>>

OtherArrives ==
  /\ call["other"].stage = "answered"
  /\ call' = [call EXCEPT !["other"] = Idle]
  /\ UNCHANGED <<litellm, client, here, queries, deleted>>

ModelDeletedElsewhere(m) ==
  /\ m \in models /\ models' = models \ {m}
  /\ UNCHANGED <<minted, client, call, here, queries, deleted>>

(* The server is killed and started again: the key is forgotten and every  *)
(* call of the page fails.                                                 *)
Restart ==
  /\ env' \in EnvKeys /\ cache' = 0 /\ holder' = Nobody
  /\ call' = [o \in Ops |-> IF o = "startup" THEN Begun ELSE Idle]
  /\ rows' = [rows EXCEPT !.failed = @ \/ call["models"].stage # "idle"]
  /\ UNCHANGED <<litellm, here, info, deleted>>

TakesKey(o) == FromEnv(o) \/ FromCache(o) \/ StartRead(o)
Reads(o) == SecretRead(o) \/ ReadFails(o)
Served == InfoServed \/ ModelsServed \/ RegisterServed \/ DeleteServed \/ OtherServed
Arrives == InfoArrives \/ ModelsArrive \/ RegisterArrives \/ DeleteArrives \/ OtherArrives
User == Visit \/ Leave \/ Register \/ \E m \in Models : Delete(m)
Surroundings == OtherBegins \/ Restart
                \/ \E m \in Models : ModelDeletedElsewhere(m)

Next == \/ \E o \in Ops : TakesKey(o) \/ Reads(o) \/ Drops(o)
        \/ Served \/ Arrives \/ Poll \/ User \/ Surroundings

(* Every request has a deadline, so a read, a request and an answer end;   *)
(* sync.Mutex hands over to a waiting goroutine at last; polls are timed.  *)
Fairness ==
  /\ \A o \in Ops \ {"startup"} : SF_vars(TakesKey(o)) /\ WF_vars(Reads(o) \/ Drops(o))
  /\ WF_vars(Poll)

Spec == Init /\ [][Next]_vars
FairSpec == Spec /\ Fairness
-----------------------------------------------------------------------------
(* Types, and the mutex is held by nobody but the call that reads the      *)
(* Secret (client.go:85-86).                                               *)
AdminTypeOK ==
  /\ models \subseteq Models /\ minted \in 0..MaxModels
  /\ env \in EnvKeys /\ cache \in 0..Versions
  /\ call \in [Ops -> Call]
  /\ holder # Nobody => holder \in Ops /\ call[holder].stage = "reading"
  /\ here \in BOOLEAN /\ info \in BOOLEAN
  /\ rows \in [ids : SUBSET Models, loaded : BOOLEAN, failed : BOOLEAN]
  /\ deleted \subseteq 0..MaxModels

(* All requests between two restarts carry one master key, although the    *)
(* Secret changes while some of them resolve it (client.go:81-107).        *)
OneMasterKey ==
  \A o \in Ops : call[o].key # 0 =>
    call[o].key = IF env # 0 THEN env ELSE cache

(* No request waits for ever, for the mutex or for an answer: neither the  *)
(* status, which is two requests in a row, nor any other request           *)
(* (client.go:81-145, 190-204).                                            *)
CallsEnd == \A o \in {"info", "other"} : call[o].stage # "idle" ~> call[o].stage = "idle"

(* A model reported as deleted leaves the page for good, also when a       *)
(* fetch of an earlier visit brings it back (GatewayPage.tsx:75-82,        *)
(* 103-118).                                                               *)
DeletedLeaves == \A m \in Models : m \in deleted ~> [](m \notin Rows)
=============================================================================
