---------------------------- MODULE ActorConsole ----------------------------
(***************************************************************************)
(* Actors as one browser tab sees and drives them: the list of actors      *)
(* (ActorsPage.tsx), the page of one actor (ActorDetailPage.tsx), their    *)
(* actions (ActorActions.tsx) and the creation dialog                      *)
(* (CreateActorDialog.tsx), through the handlers (server.go) and the       *)
(* substrate client that reads the list page by page (client.go).          *)
(*                                                                         *)
(* The control plane is external: it accepts or refuses what it is asked,  *)
(* and actors change by themselves and through others.  React Query is     *)
(* modelled as the pages use it: a view shows its query's rows, polls it   *)
(* while it is shown, and has one fetch of it at a time; leaving a view    *)
(* does not cancel its fetch, and coming back takes it up again;           *)
(* invalidation restarts the fetch of the shown view once it has data.     *)
(***************************************************************************)
EXTENDS Naturals, FiniteSets

CONSTANTS Names,      \* names of actors
          MaxChanges, \* bound on the changes of the control plane
          MaxCalls    \* bound on the mutations in flight

ASSUME BoundsAssumption == MaxChanges \in Nat /\ MaxCalls \in Nat

VARIABLES
  status,   \* control plane: per name the actor's status, "none" if there is none
  changes,  \* control plane: number of changes so far
  view,     \* the list, or the actor whose page is shown
  query,    \* per view: rows with the change they were read after, and state
  fetch,    \* per view: the fetch in progress
  calls,    \* mutations in flight
  acted     \* history, per view and name: the latest own change reported on it

control == <<status, changes>>
actorVars == <<control, view, query, fetch, calls, acted>>

List == "list"
Views == {List} \cup Names
Covered(v) == IF v = List THEN Names ELSE {v}

Resumable == {"SUSPENDED", "PAUSED", "CRASHED"}
Statuses == Resumable \cup
            {"none", "RUNNING", "RESUMING", "SUSPENDING", "PAUSING"}
RowActions == {"resume", "suspend", "pause", "delete"}

Row(n) == [status |-> status[n], at |-> changes]
NoRow == [status |-> "none", at |-> 0]
NoFetch == [stage |-> "idle", todo |-> {}, rows |-> <<>>]
Fetching(v) == [stage |-> "reading", todo |-> Covered(v), rows |-> <<>>]

ActorInit ==
  /\ status \in [Names -> {"none", "SUSPENDED"}]
  /\ changes = 0
  /\ view = List
  /\ query = [v \in Views |-> [rows |-> [n \in Covered(v) |-> NoRow],
                               loaded |-> FALSE, failed |-> FALSE]]
  /\ fetch = [v \in Views |-> IF v = List THEN Fetching(v) ELSE NoFetch]
  /\ calls = {}
  /\ acted = [v \in Views |-> [n \in Covered(v) |-> 0]]

-----------------------------------------------------------------------------
(* Reading: GET /api/actors and GET /api/actors/{atespace}/{name}.         *)

(* Mutant: no refetchInterval once a fetch has failed.                     *)
PollUnlessFailed ==
  /\ fetch[view].stage = "idle" /\ ~query[view].failed
  /\ fetch' = [fetch EXCEPT ![view] = Fetching(view)]
  /\ UNCHANGED <<control, view, query, calls, acted>>

Poll ==
  /\ fetch[view].stage = "idle"
  /\ fetch' = [fetch EXCEPT ![view] = Fetching(view)]
  /\ UNCHANGED <<control, view, query, calls, acted>>

(* ListActors follows the page tokens: what a page holds is read when that *)
(* page is served, so the rows of one list are not of one moment.          *)
FetchPage(v) ==
  /\ fetch[v].stage = "reading"
  /\ \E n \in fetch[v].todo :
       /\ v = List \/ status[n] # "none"
       /\ LET todo == fetch[v].todo \ {n} IN
          fetch' = [fetch EXCEPT ![v] =
            [stage |-> IF todo = {} THEN "answered" ELSE "reading",
             todo |-> todo,
             rows |-> [m \in {n} \cup DOMAIN fetch[v].rows |->
                         IF m = n THEN Row(n) ELSE fetch[v].rows[m]]]]
  /\ UNCHANGED <<control, view, query, calls, acted>>

FetchArrives(v) ==
  /\ fetch[v].stage = "answered"
  /\ query' = [query EXCEPT ![v] = [rows |-> fetch[v].rows,
                                    loaded |-> TRUE, failed |-> FALSE]]
  /\ fetch' = [fetch EXCEPT ![v] = NoFetch]
  /\ UNCHANGED <<control, view, calls, acted>>

(* An error of any page fails the whole list, an actor that is gone its    *)
(* page; the view says so instead of showing the rows it has.              *)
FetchFails(v) ==
  /\ fetch[v].stage = "reading"
  /\ query' = [query EXCEPT ![v].failed = TRUE]
  /\ fetch' = [fetch EXCEPT ![v] = NoFetch]
  /\ UNCHANGED <<control, view, calls, acted>>

Shown == query[view].loaded /\ ~query[view].failed
ShownStatus(n) == query[view].rows[n].status

-----------------------------------------------------------------------------
(* Moving between the pages, and the actions of a row.                     *)

(* A query that comes into view is fetched, unless a fetch is under way.   *)
Mounted(v, fetches) ==
  IF fetches[v].stage = "idle" THEN [fetches EXCEPT ![v] = Fetching(v)] ELSE fetches

(* The components that issued the calls are gone: nothing is pending there.*)
Unmounted(inFlight) == {[c EXCEPT !.mounted = FALSE] : c \in inFlight}

Visit(v) ==
  /\ v # view
  /\ v = List \/ (view = List /\ Shown /\ ShownStatus(v) # "none")
  /\ view' = v
  /\ fetch' = Mounted(v, fetch)
  /\ calls' = Unmounted(calls)
  /\ UNCHANGED <<control, query, acted>>

Enabled(n, kind) ==
  CASE kind = "resume" -> ShownStatus(n) \in Resumable
    [] kind \in {"suspend", "pause"} -> ShownStatus(n) = "RUNNING"
    [] kind = "delete" -> ShownStatus(n) # "none"

Pending(n) == \E c \in calls : c.mounted /\ c.name = n /\ c.kind # "create"

Send(n, kind) ==
  /\ Cardinality(calls) < MaxCalls
  /\ calls' = calls \cup {[kind |-> kind, name |-> n, from |-> view,
                           mounted |-> TRUE, change |-> 0]}
  /\ UNCHANGED <<control, view, query, fetch, acted>>

Act(n, kind) ==
  /\ n \in Covered(view) /\ Shown
  /\ Enabled(n, kind) /\ ~Pending(n)
  /\ Send(n, kind)

(* The dialog is on the list, whatever the list shows.                     *)
Create(n) ==
  /\ view = List
  /\ ~\E c \in calls : c.mounted /\ c.kind = "create"
  /\ Send(n, "create")

-----------------------------------------------------------------------------
(* The control plane (external).                                           *)

Become(n, new) ==
  /\ changes < MaxChanges
  /\ status' = [status EXCEPT ![n] = new]
  /\ changes' = changes + 1

Outcomes(kind, old) ==
  CASE kind = "resume" /\ old \in Resumable -> {"RESUMING"}
    [] kind = "suspend" /\ old = "RUNNING" -> {"SUSPENDING"}
    [] kind = "pause" /\ old = "RUNNING" -> {"PAUSING"}
    [] kind = "delete" /\ old = "SUSPENDED" -> {"none"}
    [] kind = "create" /\ old = "none" -> {"SUSPENDED", "RESUMING"}
    [] OTHER -> {}

Drift(old) ==
  CASE old = "RESUMING" -> {"RUNNING", "CRASHED"}
    [] old = "RUNNING" -> {"CRASHED", "SUSPENDING"}
    [] old = "SUSPENDING" -> {"SUSPENDED"}
    [] old = "PAUSING" -> {"PAUSED"}
    [] old = "SUSPENDED" -> {"RESUMING", "none"}
    [] old = "none" -> {"SUSPENDED"}
    [] OTHER -> {"RESUMING"}

Executed(c) ==
  /\ c.change = 0
  /\ \E new \in Outcomes(c.kind, status[c.name]) : Become(c.name, new)
  /\ calls' = (calls \ {c}) \cup {[c EXCEPT !.change = changes']}
  /\ UNCHANGED <<view, query, fetch, acted>>

Drifts(n) ==
  /\ \E new \in Drift(status[n]) : Become(n, new)
  /\ UNCHANGED <<view, query, fetch, calls, acted>>

-----------------------------------------------------------------------------
(* The end of a mutation.                                                  *)

(* Mutant: success only shows a message.                                   *)
InvalidatedNot(views) == fetch

(* The queries of these views are invalidated: the fetch of the shown one  *)
(* is started, or started again if there are data; what is under way for   *)
(* another goes on.                                                        *)
Invalidated(views) ==
  IF view \in views /\ (fetch[view].stage = "idle" \/ query[view].loaded)
  THEN [fetch EXCEPT ![view] = Fetching(view)] ELSE fetch

(* The views that read the actor after this report, now or when next shown.*)
ReadAgain(v) == fetch[v].stage = "idle" \/ (v = view /\ query[v].loaded)

Reported(c, views) ==
  acted' = [v \in Views |-> [n \in Covered(v) |->
              IF n = c.name /\ v \in views /\ ReadAgain(v) /\ acted[v][n] < c.change
              THEN c.change ELSE acted[v][n]]]

(* An action of a row: ["actors"] and the actor's own query.  A page of    *)
(* one actor, left meanwhile or not, goes to the list when its actor was   *)
(* deleted (onDeleted).                                                    *)
ActionSucceeds(c) ==
  LET restarted == Invalidated({List, c.name})
      leave == c.kind = "delete" /\ c.from # List
  IN
  /\ c.kind # "create" /\ c.change # 0
  /\ IF leave
     THEN /\ view' = List
          /\ fetch' = Mounted(List, restarted)
          /\ calls' = IF view = List THEN calls \ {c} ELSE Unmounted(calls \ {c})
     ELSE /\ view' = view
          /\ fetch' = restarted
          /\ calls' = calls \ {c}
  /\ Reported(c, {List, c.name})
  /\ UNCHANGED <<control, query>>

(* A creation: ["actors"] alone, so that a page of the new actor that is   *)
(* on show by then keeps its fetch.                                        *)
CreateSucceeds(c) ==
  /\ c.kind = "create" /\ c.change # 0
  /\ fetch' = Invalidated({List})
  /\ calls' = calls \ {c}
  /\ Reported(c, {List})
  /\ UNCHANGED <<control, view, query>>

(* Refused, or the answer was lost: a message, and the next poll tells.    *)
Fails(c) ==
  /\ calls' = calls \ {c}
  /\ UNCHANGED <<control, view, query, fetch, acted>>

ActorNext ==
  \/ Poll
  \/ \E v \in Views : FetchPage(v) \/ FetchArrives(v) \/ FetchFails(v) \/ Visit(v)
  \/ \E n \in Names : Create(n) \/ Drifts(n) \/ \E kind \in RowActions : Act(n, kind)
  \/ \E c \in calls : Executed(c) \/ ActionSucceeds(c) \/ CreateSucceeds(c) \/ Fails(c)

ActorSpec == ActorInit /\ [][ActorNext]_actorVars

(* The tab polls the shown view every 5 s, and answers come in.            *)
ActorFairSpec ==
  /\ ActorSpec
  /\ WF_actorVars(Poll)
  /\ \A v \in Views : WF_actorVars(FetchPage(v)) /\ WF_actorVars(FetchArrives(v))

-----------------------------------------------------------------------------
(* What a view with data shows, once no fetch of it is under way, was read *)
(* after every own change reported on it took effect: polls that were under*)
(* way do not bring the old state back.  An action is reported on the list *)
(* and on the actor's page, a creation on the list alone, and neither on a *)
(* view whose fetch goes on because it is not on show or has no data yet   *)
(* (ActorActions.tsx:74-82, CreateActorDialog.tsx:94-100).                 *)
ViewNotOlderThanAction ==
  Shown /\ fetch[view].stage = "idle" =>
    \A n \in Covered(view) : query[view].rows[n].at >= acted[view][n]

(* A list that stays in view ends up showing the actors as they are, after *)
(* whatever errors there were (ActorsPage.tsx:46-53).                      *)
ShownConverges ==
  <>[](view = List) /\ <>[][~FetchFails(List)]_actorVars
    => <>[](Shown /\ \A n \in Names : ShownStatus(n) = status[n])
=============================================================================
