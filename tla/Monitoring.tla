----------------------------- MODULE Monitoring -----------------------------
(***************************************************************************)
(* The LLM usage on the Monitoring page: the overview that                 *)
(* handleMetricsOverview puts together from the control plane and, in four *)
(* calls one after the other, from LiteLLM (monitoring.go, client.go), and *)
(* the page that polls it and, while the gateway is reachable, the spend   *)
(* logs (MonitoringPage.tsx).                                              *)
(*                                                                         *)
(* LiteLLM serves requests and keys are deleted while the overview is put  *)
(* together, and LiteLLM and the control plane come and go: all of this is *)
(* external.  A request costs 1.  Answers of LiteLLM are taken to fit in   *)
(* the 4 MiB that are read of them (client.go:137): a longer one does not  *)
(* decode.  The sections on nodes and pods, the counts of the substrate    *)
(* section and the reads of the Kubernetes API behind all three are left   *)
(* out.                                                                    *)
(***************************************************************************)
EXTENDS Naturals, Sequences, FiniteSets

CONSTANTS VirtualKeys, \* LiteLLM's virtual keys
          Models,      \* its models
          Window,      \* the spend logs an overview asks for
          MaxRequests  \* bound on the requests LiteLLM serves

ASSUME WindowAssumption == Window \in Nat \ {0}
ASSUME RequestsAssumption == MaxRequests \in Nat

VARIABLES
  gwUp,     \* LiteLLM answers, and its master key is known
  subUp,    \* the control plane answers
  log,      \* LiteLLM: the requests it served, oldest first
  listed,   \* LiteLLM: the keys it lists
  collect,  \* server: the overview being put together
  overview, \* page: the metricsOverview query
  fetch,    \* the fetch of the spend logs
  spend     \* page: the spendLogs query

world == <<gwUp, subUp, log, listed>>
usageVars == <<world, collect, overview, fetch, spend>>

Requests == [key : VirtualKeys, model : Models]
Stages == {"idle", "substrate", "spend", "logs", "keys", "models", "answered"}

(* What a listing of names (keys, or models) reports of each: all that was *)
(* ever spent on it.                                                       *)
Spent(col, name) == Cardinality({i \in DOMAIN log : log[i][col] = name})
Lifetime(col, names) == [name \in names |-> Spent(col, name)]

(* The newest n requests.                                                  *)
Newest(n) == IF Len(log) <= n THEN log ELSE SubSeq(log, Len(log) - n + 1, Len(log))

-----------------------------------------------------------------------------
(* collectGatewayMetrics.                                                  *)

Count(logs, col, name) == Cardinality({i \in DOMAIN logs : logs[i][col] = name})

(* Mutant: only what LiteLLM lists gets a row.                             *)
GroupedListed(col, lifetime, logs) ==
  [name \in DOMAIN lifetime |->
     [spend |-> lifetime[name] + Count(logs, col, name),
      requests |-> Count(logs, col, name)]]

(* One row for each key (model) listed or used in the logs: it starts with *)
(* the lifetime spend listed and adds the requests of the logs.            *)
Grouped(col, lifetime, logs) ==
  [name \in DOMAIN lifetime \cup {logs[i][col] : i \in DOMAIN logs} |->
     [spend |-> (IF name \in DOMAIN lifetime THEN lifetime[name] ELSE 0)
                + Count(logs, col, name),
      requests |-> Count(logs, col, name)]]

NoRows == [name \in {} |-> 0]
Unreachable == [reachable |-> FALSE, totalRequests |-> 0,
                byKey |-> NoRows, byModel |-> NoRows]

Section(c) ==
  [reachable |-> TRUE, totalRequests |-> Len(c.logs),
   byKey |-> Grouped("key", c.keys, c.logs),
   byModel |-> Grouped("model", c.models, c.logs)]

NotCollecting == [stage |-> "idle", logs |-> <<>>, keys |-> NoRows,
                  models |-> NoRows, gateway |-> Unreachable]

UsageInit ==
  /\ gwUp \in BOOLEAN /\ subUp \in BOOLEAN
  /\ log = <<>> /\ listed = VirtualKeys
  /\ collect = [NotCollecting EXCEPT !.stage = "substrate"]
  /\ overview = [gateway |-> Unreachable, loaded |-> FALSE, failed |-> FALSE]
  /\ fetch = "idle"
  /\ spend = [loaded |-> FALSE, failed |-> FALSE]

-----------------------------------------------------------------------------
(* The overview.                                                           *)

(* Mutant: no refetchInterval while the gateway is unreachable.            *)
PollOverviewIfReachable ==
  /\ collect.stage = "idle" /\ overview.gateway.reachable
  /\ collect' = [NotCollecting EXCEPT !.stage = "substrate"]
  /\ UNCHANGED <<world, overview, fetch, spend>>

(* refetchInterval, in every state of the query.                           *)
PollOverview ==
  /\ collect.stage = "idle"
  /\ collect' = [NotCollecting EXCEPT !.stage = "substrate"]
  /\ UNCHANGED <<world, overview, fetch, spend>>

(* collectSubstrateMetrics, where an error of the control plane is the     *)
(* answer to the whole request, and the reads of the Kubernetes API in it  *)
(* (287-293) and after it (110-111), whose errors only empty their section.*)
SubstrateCollected ==
  /\ collect.stage = "substrate" /\ subUp
  /\ collect' = [collect EXCEPT !.stage = "spend"]
  /\ UNCHANGED <<world, overview, fetch, spend>>

SubstrateFails ==
  /\ collect.stage = "substrate" /\ ~subUp
  /\ overview' = [overview EXCEPT !.failed = TRUE]
  /\ collect' = NotCollecting
  /\ UNCHANGED <<world, fetch, spend>>

(* The total spend and the budget; what they are is left out.              *)
SpendRead ==
  /\ collect.stage = "spend" /\ gwUp
  /\ collect' = [collect EXCEPT !.stage = "logs"]
  /\ UNCHANGED <<world, overview, fetch, spend>>

LogsRead ==
  /\ collect.stage = "logs" /\ gwUp
  /\ collect' = [collect EXCEPT !.stage = "keys", !.logs = Newest(Window)]
  /\ UNCHANGED <<world, overview, fetch, spend>>

KeysRead ==
  /\ collect.stage = "keys" /\ gwUp
  /\ collect' = [collect EXCEPT !.stage = "models",
                                !.keys = Lifetime("key", listed)]
  /\ UNCHANGED <<world, overview, fetch, spend>>

ModelsRead ==
  /\ collect.stage = "models" /\ gwUp
  /\ LET c == [collect EXCEPT !.models = Lifetime("model", Models)] IN
     collect' = [NotCollecting EXCEPT !.stage = "answered", !.gateway = Section(c)]
  /\ UNCHANGED <<world, overview, fetch, spend>>

(* A failure of any of the four calls: the section is that of a gateway    *)
(* out of reach, whatever was read before.                                 *)
GatewayFails ==
  /\ collect.stage \in {"spend", "logs", "keys", "models"} /\ ~gwUp
  /\ collect' = [NotCollecting EXCEPT !.stage = "answered"]
  /\ UNCHANGED <<world, overview, fetch, spend>>

OverviewArrives ==
  /\ collect.stage = "answered"
  /\ overview' = [gateway |-> collect.gateway, loaded |-> TRUE, failed |-> FALSE]
  /\ collect' = NotCollecting
  /\ UNCHANGED <<world, fetch, spend>>

-----------------------------------------------------------------------------
(* The spend logs, enabled by the overview the page has, even when the     *)
(* latest fetch of it failed: handleMetricsSpendLogs reads the logs, then  *)
(* the keys for their aliases.                                             *)

PollLogs ==
  /\ fetch = "idle" /\ overview.gateway.reachable
  /\ fetch' = "logs"
  /\ UNCHANGED <<world, collect, overview, spend>>

AliasesNext ==
  /\ fetch = "logs" /\ gwUp
  /\ fetch' = "keys"
  /\ UNCHANGED <<world, collect, overview, spend>>

LogsArrive ==
  /\ fetch = "keys" /\ gwUp
  /\ spend' = [loaded |-> TRUE, failed |-> FALSE]
  /\ fetch' = "idle"
  /\ UNCHANGED <<world, collect, overview>>

LogsFail ==
  /\ fetch # "idle" /\ ~gwUp
  /\ spend' = [spend EXCEPT !.failed = TRUE]
  /\ fetch' = "idle"
  /\ UNCHANGED <<world, collect, overview>>

UsageShown == overview.loaded /\ ~overview.failed /\ overview.gateway.reachable
LogsShown == UsageShown /\ spend.loaded /\ ~spend.failed

-----------------------------------------------------------------------------
(* LiteLLM and the control plane (external).                               *)

GatewayToggles ==
  /\ gwUp' = ~gwUp
  /\ UNCHANGED <<subUp, log, listed, collect, overview, fetch, spend>>

SubstrateToggles ==
  /\ subUp' = ~subUp
  /\ UNCHANGED <<gwUp, log, listed, collect, overview, fetch, spend>>

Served(r) ==
  /\ gwUp /\ r.key \in listed /\ Len(log) < MaxRequests
  /\ log' = Append(log, r)
  /\ UNCHANGED <<gwUp, subUp, listed, collect, overview, fetch, spend>>

VirtualKeyDeleted(k) ==
  /\ gwUp /\ k \in listed
  /\ listed' = listed \ {k}
  /\ UNCHANGED <<gwUp, subUp, log, collect, overview, fetch, spend>>

Collecting == \/ SubstrateCollected \/ SpendRead \/ LogsRead \/ KeysRead
              \/ ModelsRead \/ OverviewArrives
ReadingLogs == AliasesNext \/ LogsArrive

UsageNext ==
  \/ PollOverview \/ Collecting \/ SubstrateFails \/ GatewayFails
  \/ PollLogs \/ ReadingLogs \/ LogsFail
  \/ GatewayToggles \/ SubstrateToggles
  \/ \E r \in Requests : Served(r)
  \/ \E k \in VirtualKeys : VirtualKeyDeleted(k)

(* The timers of the page fire, and a service that is up answers.  A call  *)
(* to one that is down may hang until it is up again: nothing is assumed   *)
(* of failures.  The reads of the Kubernetes API, on which every overview  *)
(* waits, are assumed to end, in an answer or an error.                    *)
Fairness == /\ WF_usageVars(PollOverview) /\ WF_usageVars(Collecting)
            /\ WF_usageVars(PollLogs) /\ WF_usageVars(ReadingLogs)

UsageSpec == UsageInit /\ [][UsageNext]_usageVars /\ Fairness

-----------------------------------------------------------------------------
(* The requests of the rows add up to total: each request can be counted  *)
(* in one row, and in no other.                                            *)
AddUp(rows, total) ==
  \E row \in [1..total -> DOMAIN rows] : \A name \in DOMAIN rows :
    rows[name].requests = Cardinality({i \in 1..total : row[i] = name})

Consistent(g) == /\ AddUp(g.byKey, g.totalRequests)
                 /\ AddUp(g.byModel, g.totalRequests)
                 /\ ~g.reachable => g = Unreachable

(* The usage on the page adds up although its parts were read one after    *)
(* the other: each request of the window is in one row of either table, of *)
(* a key deleted in between too, and a gateway that failed half way leaves *)
(* nothing (monitoring.go:298-299, 332-345, 355-376).                      *)
UsageAddsUp == Consistent(overview.gateway)

(* Usage and logs are back on the page by themselves once the gateway and  *)
(* the control plane stay up, whatever failed before, and as long as the   *)
(* Kubernetes API lets no read hang (MonitoringPage.tsx:105-121).          *)
UsageComesBack == <>[](gwUp /\ subUp) => <>[]LogsShown

=============================================================================
