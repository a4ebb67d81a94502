--------------------------- MODULE ResourceConsole ---------------------------
(***************************************************************************)
(* The pages that list, create and delete resources, in one browser tab:   *)
(* Secrets, Templates, Worker Pools and Atespaces, through the handlers    *)
(* (server.go) to Kubernetes (kube/client.go) and the control plane.  The  *)
(* Secrets page lists one namespace, typed by the user; the dialog that    *)
(* creates a template offers the Secrets of the namespace typed there, out *)
(* of the same cache.                                                      *)
(*                                                                         *)
(* Kubernetes and the control plane are external: they accept or refuse    *)
(* what they are asked, and others change resources too.  React Query is   *)
(* modelled as the pages use it: a query has one fetch at a time, leaving  *)
(* it does not cancel its fetch, whoever comes to it takes that fetch up   *)
(* or starts one, and invalidation restarts the fetches of the queries in  *)
(* view that have data.  What a form holds is whatever its user typed.     *)
(***************************************************************************)
EXTENDS Naturals, FiniteSets

CONSTANTS Pages,            \* the pages: the kinds of resources
          Objects,          \* the resources there may be: [kind, ns]
          Initial,          \* those there are at first
          Namespaces,       \* the namespaces the user may type
          DefaultNamespace, \* the one the Secrets page starts with
          MaxChanges,       \* bound on the changes of resources
          MaxCalls          \* bound on the mutations in flight

ASSUME ObjectsAssumption ==
  /\ Pages \subseteq {"secret", "template", "pool", "atespace"}
  /\ Objects \subseteq [kind : Pages, ns : Namespaces] /\ Initial \subseteq Objects
  /\ DefaultNamespace \in Namespaces
  /\ "template" \in Pages => "secret" \in Pages  \* the dialog offers Secrets
ASSUME BoundsAssumption == MaxChanges \in Nat /\ MaxCalls \in Nat

VARIABLES
  exists,   \* cluster: the resources there are
  changes,  \* cluster: number of changes so far
  page,     \* the page shown
  typed,    \* Secrets page: the namespace typed
  dialog,   \* creation dialog: shown, and the namespace typed in it
  confirm,  \* the resource a deletion is to be confirmed of
  query,    \* cache: per key the items, the change they were read after, and state
  fetch,    \* per key: the fetch in progress and the namespace it asks for
  calls,    \* mutations in flight
  reported  \* history, per key: the latest own change reported while in view

cluster == <<exists, changes>>
screen == <<page, typed, dialog, confirm>>
vars == <<cluster, screen, query, fetch, calls, reported>>

None == ""
NoObject == [kind |-> None, ns |-> None]
Closed == [open |-> FALSE, ns |-> None]

(* Mutant: the namespace is missing from the query's key.                  *)
KeyOfKind(kind, ns) == [kind |-> kind, ns |-> None]

(* The query keys: ["secrets", ns], ["actortemplates"], ["workerpools"]    *)
(* and ["atespaces"].                                                      *)
Key(kind, ns) == [kind |-> kind, ns |-> IF kind = "secret" THEN ns ELSE None]

Keys == [kind : Pages, ns : Namespaces \cup {None}]

(* The queries in view: that of the page and, for its Secret references,   *)
(* that of the template dialog; without a namespace they are disabled.     *)
View(kind, ns) ==
  IF kind = "secret" /\ ns = None THEN {} ELSE {[key |-> Key(kind, ns), ns |-> ns]}
OnPage(p, ns) == View(p, IF p = "secret" THEN ns ELSE None)
InDialog(p, d) == IF p = "template" /\ d.open THEN View("secret", d.ns) ELSE {}
InView == OnPage(page, typed) \cup InDialog(page, dialog)

NoFetch == [stage |-> "idle", ns |-> None, items |-> {}, at |-> 0]
Asking(ns) == [NoFetch EXCEPT !.stage = "asked", !.ns = ns]

(* The queries of views are fetched unless a fetch is under way.           *)
Mounted(views) ==
  [k \in Keys |->
     IF fetch[k].stage = "idle" /\ \E v \in views : v.key = k
     THEN Asking((CHOOSE v \in views : v.key = k).ns) ELSE fetch[k]]

Init ==
  /\ exists = Initial /\ changes = 0
  /\ page \in Pages /\ typed = DefaultNamespace
  /\ dialog = Closed /\ confirm = NoObject
  /\ query = [k \in Keys |-> [items |-> {}, at |-> 0,
                              loaded |-> FALSE, failed |-> FALSE]]
  /\ fetch = [k \in Keys |->
                IF \E v \in OnPage(page, typed) : v.key = k
                THEN Asking((CHOOSE v \in OnPage(page, typed) : v.key = k).ns)
                ELSE NoFetch]
  /\ calls = {}
  /\ reported = [k \in Keys |-> 0]

-----------------------------------------------------------------------------
(* Reading.                                                                *)

(* refetchInterval: the page polls its list, the dialog does not.          *)
Poll ==
  /\ \E v \in OnPage(page, typed) : fetch[v.key].stage = "idle"
  /\ fetch' = Mounted(OnPage(page, typed))
  /\ UNCHANGED <<cluster, screen, query, calls, reported>>

(* The list is read: all of the kind, or the Secrets of the namespace that *)
(* was asked for.                                                          *)
Listed(kind, ns) == {o \in exists : o.kind = kind /\ (kind = "secret" => o.ns = ns)}

Respond(k) ==
  /\ fetch[k].stage = "asked"
  /\ fetch' = [fetch EXCEPT ![k].stage = "answered", ![k].at = changes,
                            ![k].items = Listed(k.kind, fetch[k].ns)]
  /\ UNCHANGED <<cluster, screen, query, calls, reported>>

Arrives(k) ==
  /\ fetch[k].stage = "answered"
  /\ query' = [query EXCEPT ![k] = [items |-> fetch[k].items, at |-> fetch[k].at,
                                    loaded |-> TRUE, failed |-> FALSE]]
  /\ fetch' = [fetch EXCEPT ![k] = NoFetch]
  /\ UNCHANGED <<cluster, screen, calls, reported>>

(* 503 without cluster access, and every other error.                      *)
FetchFails(k) ==
  /\ fetch[k].stage = "asked"
  /\ query' = [query EXCEPT ![k].failed = TRUE]
  /\ fetch' = [fetch EXCEPT ![k] = NoFetch]
  /\ UNCHANGED <<cluster, screen, calls, reported>>

Shown(k) == query[k].loaded /\ ~query[k].failed
Rows == UNION {query[v.key].items : v \in {w \in OnPage(page, typed) : Shown(w.key)}}

-----------------------------------------------------------------------------
(* The user.                                                               *)

(* Another page: its components are new, those of the last one are gone    *)
(* with their pending mutations and dialogs; the calls go on.              *)
Visit(p) ==
  /\ p # page
  /\ page' = p /\ typed' = DefaultNamespace
  /\ dialog' = Closed /\ confirm' = NoObject
  /\ fetch' = Mounted(OnPage(p, DefaultNamespace))
  /\ calls' = {[c EXCEPT !.mounted = FALSE] : c \in calls}
  /\ UNCHANGED <<cluster, query, reported>>

NothingOpen == ~dialog.open /\ confirm = NoObject

TypeNamespace(ns) ==
  /\ page = "secret" /\ NothingOpen /\ ns # typed
  /\ typed' = ns
  /\ fetch' = Mounted(OnPage(page, ns))
  /\ UNCHANGED <<cluster, page, dialog, confirm, query, calls, reported>>

OpenDialog ==
  /\ NothingOpen
  /\ dialog' = [Closed EXCEPT !.open = TRUE]
  /\ UNCHANGED <<cluster, page, typed, confirm, query, fetch, calls, reported>>

(* The namespace of a template to create: its Secrets are fetched.         *)
TypeDialogNamespace(ns) ==
  /\ page = "template" /\ dialog.open /\ ns # dialog.ns
  /\ dialog' = [dialog EXCEPT !.ns = ns]
  /\ fetch' = Mounted(InDialog(page, dialog'))
  /\ UNCHANGED <<cluster, page, typed, confirm, query, calls, reported>>

CloseDialog ==
  /\ dialog.open
  /\ dialog' = Closed
  /\ UNCHANGED <<cluster, page, typed, confirm, query, fetch, calls, reported>>

(* mutation.isPending: it survives the dialog, not the page.               *)
Pending(op) == \E c \in calls : c.op = op /\ c.mounted

Send(op, o) ==
  /\ Cardinality(calls) < MaxCalls
  /\ calls' = calls \cup {[op |-> op, object |-> o, mounted |-> TRUE, change |-> 0]}

(* A complete form is sent with the namespace and name typed; an           *)
(* incomplete one is not.                                                  *)
SubmitForm(o) ==
  /\ dialog.open /\ o.kind = page /\ ~Pending("create")
  /\ page = "template" => o.ns = dialog.ns
  /\ Send("create", o)
  /\ UNCHANGED <<cluster, screen, query, fetch, reported>>

(* So is a manifest that parses, with the namespace and name it has in its *)
(* metadata; the fields above must be filled in nevertheless.              *)
SubmitManifest(o) ==
  /\ dialog.open /\ o.kind = page /\ ~Pending("create")
  /\ page \in {"template", "pool"}
  /\ page = "template" => dialog.ns # None
  /\ Send("create", o)
  /\ UNCHANGED <<cluster, screen, query, fetch, reported>>

(* The bin of a Secret or an atespace is disabled while a deletion is      *)
(* pending, the menu of a template or a pool is not.                       *)
AskDelete(o) ==
  /\ NothingOpen /\ o \in Rows
  /\ page \in {"secret", "atespace"} => ~Pending("delete")
  /\ confirm' = o
  /\ UNCHANGED <<cluster, page, typed, dialog, query, fetch, calls, reported>>

CancelDelete ==
  /\ confirm # NoObject
  /\ confirm' = NoObject
  /\ UNCHANGED <<cluster, page, typed, dialog, query, fetch, calls, reported>>

(* The confirmation closes when its button is pressed.                     *)
ConfirmDelete ==
  /\ confirm # NoObject /\ ~Pending("delete")
  /\ Send("delete", confirm)
  /\ confirm' = NoObject
  /\ UNCHANGED <<cluster, page, typed, dialog, query, fetch, reported>>

-----------------------------------------------------------------------------
(* The cluster (external).                                                 *)

Change(op, o) ==
  /\ changes < MaxChanges /\ changes' = changes + 1
  /\ IF op = "create" THEN o \notin exists /\ exists' = exists \cup {o}
                      ELSE o \in exists /\ exists' = exists \ {o}

Executed(c) ==
  /\ c.change = 0
  /\ Change(c.op, c.object)
  /\ calls' = (calls \ {c}) \cup {[c EXCEPT !.change = changes']}
  /\ UNCHANGED <<screen, query, fetch, reported>>

OthersChange ==
  /\ \E op \in {"create", "delete"}, o \in Objects : Change(op, o)
  /\ UNCHANGED <<screen, query, fetch, calls, reported>>

-----------------------------------------------------------------------------
(* The end of a mutation.                                                  *)

(* Mutant: only fetches that are not under way are begun.                  *)
InvalidatedIdle(kind) == Mounted({v \in InView : v.key.kind = kind})

(* invalidateQueries: all keys of the kind, those in view are refetched.   *)
Invalidated(kind) ==
  [k \in Keys |->
     IF k.kind = kind /\ (fetch[k].stage = "idle" \/ query[k].loaded)
        /\ \E v \in InView : v.key = k
     THEN Asking((CHOOSE v \in InView : v.key = k).ns) ELSE fetch[k]]

(* onSuccess closes the creation dialog or the confirmation, whatever it   *)
(* shows by then; a page that is gone only invalidates.                    *)
Succeeds(c) ==
  /\ c.change # 0
  /\ fetch' = Invalidated(c.object.kind)
  /\ dialog' = IF c.mounted /\ c.op = "create" THEN Closed ELSE dialog
  /\ confirm' = IF c.mounted /\ c.op = "delete" THEN NoObject ELSE confirm
  /\ calls' = calls \ {c}
  /\ reported' = [k \in Keys |->
       IF k.kind = c.object.kind /\ query[k].loaded /\ reported[k] < c.change
          /\ \E v \in InView : v.key = k
       THEN c.change ELSE reported[k]]
  /\ UNCHANGED <<cluster, page, typed, query>>

(* Refused, or the answer was lost: a message, the dialog stays.           *)
Fails(c) ==
  /\ calls' = calls \ {c}
  /\ UNCHANGED <<cluster, screen, query, fetch, reported>>

Next ==
  \/ Poll \/ OpenDialog \/ CloseDialog \/ CancelDelete \/ ConfirmDelete
  \/ OthersChange
  \/ \E k \in Keys : Respond(k) \/ Arrives(k) \/ FetchFails(k)
  \/ \E p \in Pages : Visit(p)
  \/ \E ns \in Namespaces \cup {None} : TypeNamespace(ns) \/ TypeDialogNamespace(ns)
  \/ \E o \in Objects : SubmitForm(o) \/ SubmitManifest(o) \/ AskDelete(o)
  \/ \E c \in calls : Executed(c) \/ Succeeds(c) \/ Fails(c)

Spec == Init /\ [][Next]_vars

-----------------------------------------------------------------------------
(* Secrets shown or offered under a namespace are of that namespace: a     *)
(* late answer for the namespace typed before does not get there           *)
(* (SecretsPage.tsx:252-258, CreateTemplateDialog.tsx:83-91).              *)
RowsOfNamespace ==
  \A v \in InView : \A o \in query[v.key].items :
    o.kind = v.key.kind /\ (o.kind = "secret" => o.ns = v.ns)

(* What a list with data shows after a creation or deletion was reported   *)
(* on it, once no fetch of it is under way, was read after that took       *)
(* effect, on the page and among the Secrets the dialog offers             *)
(* (SecretsPage.tsx:76, 262-267, TemplatesPage.tsx:95-100).                *)
ListNotOlderThanReport ==
  \A v \in InView :
    Shown(v.key) /\ fetch[v.key].stage = "idle"
      => query[v.key].at >= reported[v.key]
=============================================================================
