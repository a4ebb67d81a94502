---------------------------- MODULE ConsoleProofs ----------------------------
(***************************************************************************)
(* Safety of the resource pages of the browser tab, for any resources,     *)
(* namespaces and number of changes: whatever the user does, and whenever  *)
(* fetches and mutations end and the cluster changes.                      *)
(***************************************************************************)
EXTENDS ResourceConsole, TLAPS

Typed == Namespaces \cup {None}
Fetches == [stage : {"idle", "asked", "answered"}, ns : Typed,
            items : SUBSET Objects, at : Nat]
Cached == [items : SUBSET Objects, at : Nat, loaded : BOOLEAN, failed : BOOLEAN]
Calls == [op : {"create", "delete"}, object : Objects, mounted : BOOLEAN, change : Nat]

ConsoleTypes ==
  /\ exists \subseteq Objects /\ changes \in Nat
  /\ page \in Pages /\ typed \in Typed
  /\ dialog \in [open : BOOLEAN, ns : Typed] /\ confirm \in Objects \cup {NoObject}
  /\ query \in [Keys -> Cached] /\ fetch \in [Keys -> Fetches]
  /\ calls \subseteq Calls /\ reported \in [Keys -> Nat]

(* A fetch asks for the namespace of the key it is stored under, and what it *)
(* brings is stored under no other.                                          *)
Belongs(items, k) ==
  \A o \in items : o.kind = k.kind /\ (k.kind = "secret" => o.ns = k.ns)

ContentInv ==
  \A k \in Keys :
    /\ fetch[k].stage # "idle" /\ k.kind = "secret" => fetch[k].ns = k.ns
    /\ fetch[k].stage = "answered" => Belongs(fetch[k].items, k)
    /\ Belongs(query[k].items, k)

(* What is reported has happened; an answer on its way, like what is shown   *)
(* when none is, was read after the last change reported, in view or not.    *)
FreshInv ==
  /\ \A c \in calls : c.change <= changes
  /\ \A k \in Keys :
       /\ reported[k] <= changes
       /\ fetch[k].stage = "answered" => fetch[k].at >= reported[k]
       /\ fetch[k].stage = "idle" /\ Shown(k) => query[k].at >= reported[k]

IInv == ConsoleTypes /\ ContentInv /\ FreshInv

-----------------------------------------------------------------------------
(* The view of a query asks for the namespace of its key.                    *)
IsView(v) ==
  v.key \in Keys /\ v.ns \in Typed /\ (v.key.kind = "secret" => v.ns = v.key.ns)

LEMMA ViewsOfPage ==
  ASSUME NEW p \in Pages, NEW ns \in Typed, NEW v \in OnPage(p, ns)
  PROVE  IsView(v)
<1>. DEFINE shown == IF p = "secret" THEN ns ELSE None
<1>1. v = [key |-> Key(p, shown), ns |-> shown]
  BY DEF OnPage, View
<1>2. Key(p, shown) = [kind |-> p, ns |-> shown] /\ shown \in Typed
  BY DEF Key, Typed
<1>. HIDE DEF shown
<1>. QED
  BY <1>1, <1>2 DEF IsView, Keys, Typed

LEMMA ViewsOfDialog ==
  ASSUME NEW p \in Pages, NEW d \in [open : BOOLEAN, ns : Typed], NEW v \in InDialog(p, d)
  PROVE  IsView(v)
<1>1. p = "template" /\ v = [key |-> Key("secret", d.ns), ns |-> d.ns]
  BY DEF InDialog, View
<1>2. Key("secret", d.ns) = [kind |-> "secret", ns |-> d.ns] /\ d.ns \in Typed
  BY DEF Key
<1>. QED
  BY <1>1, <1>2, ObjectsAssumption DEF IsView, Keys, Typed

LEMMA ViewsInView ==
  ASSUME ConsoleTypes, NEW v \in InView PROVE IsView(v)
BY ViewsOfPage, ViewsOfDialog DEF InView, ConsoleTypes

(* A fetch begun anew, for the namespace of its key.                         *)
Restarted(k) ==
  \E ns \in Typed : fetch'[k] = Asking(ns) /\ (k.kind = "secret" => ns = k.ns)

LEMMA AskingFacts ==
  ASSUME NEW ns \in Typed
  PROVE  Asking(ns) \in Fetches /\ Asking(ns).stage = "asked" /\ Asking(ns).ns = ns
BY DEF Asking, NoFetch, Fetches

(* The queries of views that are begun.                                      *)
LEMMA MountedRestarts ==
  ASSUME ConsoleTypes, NEW views, \A v \in views : IsView(v), fetch' = Mounted(views)
  PROVE  /\ fetch' \in [Keys -> Fetches]
         /\ \A k \in Keys : fetch'[k] = fetch[k] \/ Restarted(k)
<1>1. ASSUME NEW k \in Keys
      PROVE  fetch'[k] = fetch[k] \/ Restarted(k)
  <2>1. CASE fetch[k].stage = "idle" /\ \E v \in views : v.key = k
    <3>. DEFINE v == CHOOSE w \in views : w.key = k
    <3>1. fetch'[k] = Asking(v.ns)
      BY <2>1 DEF Mounted
    <3>2. v \in views /\ v.key = k
      BY <2>1
    <3>. HIDE DEF v
    <3>. QED
      BY <3>1, <3>2 DEF Restarted, IsView
  <2>2. CASE ~(fetch[k].stage = "idle" /\ \E v \in views : v.key = k)
    BY <2>2 DEF Mounted
  <2>. QED
    BY <2>1, <2>2
<1>2. \A k \in Keys : fetch'[k] \in Fetches
  BY <1>1, AskingFacts DEF ConsoleTypes, Restarted
<1>. QED
  BY <1>1, <1>2 DEF Mounted

(* The queries of a kind that are invalidated: those in view that have data  *)
(* are all fetched again.                                                    *)
LEMMA InvalidatedRestarts ==
  ASSUME ConsoleTypes, NEW kind, fetch' = Invalidated(kind)
  PROVE  /\ fetch' \in [Keys -> Fetches]
         /\ \A k \in Keys : fetch'[k] = fetch[k] \/ Restarted(k)
         /\ \A k \in Keys :
              k.kind = kind /\ query[k].loaded /\ (\E v \in InView : v.key = k)
                => Restarted(k)
<1>1. ASSUME NEW k \in Keys, k.kind = kind, fetch[k].stage = "idle" \/ query[k].loaded,
             \E v \in InView : v.key = k
      PROVE  Restarted(k)
  <2>. DEFINE v == CHOOSE w \in InView : w.key = k
  <2>1. fetch'[k] = Asking(v.ns)
    BY <1>1 DEF Invalidated
  <2>2. v \in InView /\ v.key = k
    BY <1>1
  <2>. HIDE DEF v
  <2>. QED
    BY <2>1, <2>2, ViewsInView DEF Restarted, IsView
<1>2. \A k \in Keys : fetch'[k] = fetch[k] \/ Restarted(k)
  BY <1>1 DEF Invalidated
<1>3. \A k \in Keys : fetch'[k] \in Fetches
  BY <1>2, AskingFacts DEF ConsoleTypes, Restarted
<1>. QED
  BY <1>1, <1>2, <1>3 DEF Invalidated

(* Fetches that are begun anew disturb nothing, and a change may be reported *)
(* where one is.                                                             *)
LEMMA RestartsKeep ==
  ASSUME IInv, UNCHANGED <<changes, query>>,
         \A c \in calls' : c.change <= changes,
         \A k \in Keys : \/ fetch'[k] = fetch[k] /\ reported'[k] = reported[k]
                         \/ Restarted(k) /\ reported'[k] <= changes
  PROVE  ContentInv' /\ FreshInv'
<1>1. changes' = changes /\ query' = query /\ \A k \in Keys : Shown(k)' = Shown(k)
  BY DEF Shown
<1>2. \A k \in Keys : Restarted(k) => /\ fetch'[k].stage = "asked"
                                      /\ k.kind = "secret" => fetch'[k].ns = k.ns
  BY AskingFacts DEF Restarted
<1>3. ContentInv'
  BY <1>1, <1>2 DEF IInv, ContentInv, Belongs
<1>4. FreshInv'
  BY <1>1, <1>2 DEF IInv, FreshInv
<1>. QED
  BY <1>3, <1>4
LEMMA InitInv == Init => IInv
<1>. SUFFICES ASSUME Init PROVE IInv
  OBVIOUS
<1>. DEFINE views == OnPage(page, typed)
<1>1. page \in Pages /\ typed \in Typed /\ \A v \in views : IsView(v)
  BY ViewsOfPage, ObjectsAssumption DEF Init, Typed
<1>2. ASSUME NEW k \in Keys
      PROVE  \/ fetch[k] = NoFetch
             \/ \E ns \in Typed : /\ fetch[k] = Asking(ns)
                                  /\ k.kind = "secret" => ns = k.ns
  <2>1. CASE \E v \in views : v.key = k
    <3>. DEFINE v == CHOOSE w \in views : w.key = k
    <3>1. fetch[k] = Asking(v.ns)
      BY <2>1 DEF Init
    <3>2. v \in views /\ v.key = k
      BY <2>1
    <3>. HIDE DEF v
    <3>. QED
      BY <1>1, <3>1, <3>2 DEF IsView
  <2>2. CASE ~\E v \in views : v.key = k
    BY <2>2 DEF Init
  <2>. QED
    BY <2>1, <2>2
<1>3. NoFetch \in Fetches /\ NoFetch.stage = "idle"
  BY DEF NoFetch, Fetches, Typed
<1>4. ASSUME NEW k \in Keys
      PROVE  /\ fetch[k] \in Fetches /\ fetch[k].stage \in {"idle", "asked"}
             /\ fetch[k].stage # "idle" /\ k.kind = "secret" => fetch[k].ns = k.ns
  BY <1>2, <1>3, AskingFacts
<1>5. /\ fetch \in [Keys -> Fetches] /\ reported = [k \in Keys |-> 0] /\ calls = {}
      /\ query \in [Keys -> Cached] /\ changes = 0 /\ exists \subseteq Objects
      /\ \A k \in Keys : query[k].items = {} /\ ~query[k].loaded
  <2>1. fetch = [k \in Keys |-> fetch[k]]
    BY DEF Init
  <2>2. fetch \in [Keys -> Fetches]
    BY <1>4, <2>1
  <2>3. [items |-> {}, at |-> 0, loaded |-> FALSE, failed |-> FALSE] \in Cached
    BY DEF Cached
  <2>. QED
    BY <2>2, <2>3, ObjectsAssumption DEF Init
<1>6. ConsoleTypes
  BY <1>1, <1>5 DEF Init, ConsoleTypes, Closed, Typed
<1>7. ContentInv
  BY <1>4, <1>5 DEF ContentInv, Belongs
<1>8. FreshInv
  BY <1>4, <1>5 DEF FreshInv, Shown
<1>. QED
  BY <1>6, <1>7, <1>8 DEF IInv

LEMMA ReadingSteps ==
  ASSUME IInv, Poll \/ \E k \in Keys : Respond(k) \/ Arrives(k) \/ FetchFails(k)
  PROVE  IInv'
<1>. ConsoleTypes
  BY DEF IInv
<1>1. CASE Poll
  <2>1. /\ fetch' = Mounted(OnPage(page, typed))
        /\ UNCHANGED <<cluster, screen, query, calls, reported>>
    BY <1>1 DEF Poll
  <2>2. \A v \in OnPage(page, typed) : IsView(v)
    BY ViewsOfPage DEF ConsoleTypes
  <2>3. /\ fetch' \in [Keys -> Fetches]
        /\ \A k \in Keys : fetch'[k] = fetch[k] \/ Restarted(k)
    BY <2>1, <2>2, MountedRestarts
  <2>4. ConsoleTypes'
    BY <2>1, <2>3 DEF ConsoleTypes, cluster, screen
  <2>5. ContentInv' /\ FreshInv'
    BY <2>1, <2>3, RestartsKeep DEF IInv, FreshInv, cluster
  <2>. QED
    BY <2>4, <2>5 DEF IInv
<1>2. ASSUME NEW k \in Keys, Respond(k) PROVE IInv'
  <2>1. /\ fetch[k] \in Fetches /\ fetch[k].stage = "asked"
        /\ fetch' = [fetch EXCEPT ![k].stage = "answered", ![k].at = changes,
                                  ![k].items = Listed(k.kind, fetch[k].ns)]
        /\ UNCHANGED <<cluster, screen, query, calls, reported>>
        /\ changes' = changes /\ query' = query /\ calls' = calls /\ reported' = reported
    BY <1>2 DEF Respond, ConsoleTypes, cluster
  <2>2. /\ Listed(k.kind, fetch[k].ns) \in SUBSET Objects
        /\ Belongs(Listed(k.kind, fetch[k].ns), k)
    BY <2>1 DEF Listed, ConsoleTypes, Belongs, IInv, ContentInv
  <2>3. /\ fetch' \in [Keys -> Fetches]
        /\ fetch'[k].stage = "answered" /\ fetch'[k].at = changes
        /\ fetch'[k].ns = fetch[k].ns
        /\ Belongs(fetch'[k].items, k)
        /\ \A other \in Keys \ {k} : fetch'[other] = fetch[other]
    BY <2>1, <2>2 DEF ConsoleTypes, Fetches
  <2>4. ConsoleTypes'
    BY <2>1, <2>3 DEF ConsoleTypes, cluster, screen
  <2>5. ContentInv'
    BY <2>1, <2>3 DEF IInv, ContentInv
  <2>6. FreshInv'
    BY <2>1, <2>3 DEF IInv, FreshInv, Shown
  <2>. QED
    BY <2>4, <2>5, <2>6 DEF IInv
<1>3. ASSUME NEW k \in Keys, Arrives(k) \/ FetchFails(k) PROVE IInv'
  <2>1. /\ fetch' = [fetch EXCEPT ![k] = NoFetch]
        /\ fetch[k] \in Fetches /\ query[k] \in Cached
        /\ UNCHANGED <<cluster, screen, calls, reported>>
        /\ changes' = changes /\ calls' = calls /\ reported' = reported
    BY <1>3 DEF Arrives, FetchFails, ConsoleTypes, cluster
  <2>2. NoFetch \in Fetches /\ NoFetch.stage = "idle"
    BY DEF NoFetch, Fetches, Typed
  <2>3. /\ fetch' \in [Keys -> Fetches] /\ fetch'[k].stage = "idle"
        /\ \A other \in Keys \ {k} : fetch'[other] = fetch[other]
    BY <2>1, <2>2 DEF ConsoleTypes
  <2>4. /\ query' \in [Keys -> Cached]
        /\ \A other \in Keys \ {k} : query'[other] = query[other]
        /\ Belongs(query'[k].items, k)
        /\ query'[k].loaded /\ ~query'[k].failed => query'[k].at >= reported[k]
    <3>1. CASE Arrives(k)
      <4>. DEFINE row == [items |-> fetch[k].items, at |-> fetch[k].at,
                          loaded |-> TRUE, failed |-> FALSE]
      <4>1. fetch[k].stage = "answered" /\ query' = [query EXCEPT ![k] = row]
        BY <3>1 DEF Arrives
      <4>2. row \in Cached /\ Belongs(row.items, k) /\ row.at >= reported[k]
        BY <2>1, <4>1 DEF Cached, Fetches, IInv, ContentInv, FreshInv
      <4>. HIDE DEF row
      <4>. QED
        BY <4>1, <4>2 DEF ConsoleTypes
    <3>2. CASE FetchFails(k)
      <4>1. query' = [query EXCEPT ![k].failed = TRUE]
        BY <3>2 DEF FetchFails
      <4>2. /\ query' \in [Keys -> Cached]
            /\ query'[k].items = query[k].items /\ query'[k].failed
            /\ \A other \in Keys \ {k} : query'[other] = query[other]
        BY <2>1, <4>1 DEF ConsoleTypes, Cached
      <4>. QED
        BY <4>2 DEF IInv, ContentInv
    <3>. QED
      BY <1>3, <3>1, <3>2
  <2>5. ConsoleTypes'
    BY <2>1, <2>3, <2>4 DEF ConsoleTypes, cluster, screen
  <2>6. ContentInv'
    BY <2>3, <2>4 DEF IInv, ContentInv
  <2>7. FreshInv'
    BY <2>1, <2>3, <2>4 DEF IInv, FreshInv, Shown
  <2>. QED
    BY <2>5, <2>6, <2>7 DEF IInv
<1>. QED
  BY <1>1, <1>2, <1>3
(* A step of the user that fetches nothing.                                  *)
LEMMA UserOnly ==
  ASSUME IInv, UNCHANGED <<cluster, page, typed, query, fetch, reported>>,
         dialog' \in [open : BOOLEAN, ns : Typed], confirm' \in Objects \cup {NoObject},
         calls' \subseteq Calls, \A c \in calls' : c.change <= changes
  PROVE  IInv'
<1>1. /\ changes' = changes /\ query' = query /\ fetch' = fetch /\ reported' = reported
  BY DEF cluster
<1>2. ContentInv' /\ FreshInv'
  BY <1>1, RestartsKeep DEF IInv, FreshInv
<1>3. ConsoleTypes'
  BY DEF IInv, ConsoleTypes, cluster
<1>. QED
  BY <1>2, <1>3 DEF IInv

(* A step of the user that brings other queries into view.                   *)
LEMMA UserLooks ==
  ASSUME IInv, NEW views, \A v \in views : IsView(v), fetch' = Mounted(views),
         UNCHANGED <<cluster, query, reported>>, page' \in Pages, typed' \in Typed,
         dialog' \in [open : BOOLEAN, ns : Typed], confirm' \in Objects \cup {NoObject},
         calls' \subseteq Calls, \A c \in calls' : c.change <= changes
  PROVE  IInv'
<1>1. /\ fetch' \in [Keys -> Fetches]
      /\ \A k \in Keys : fetch'[k] = fetch[k] \/ Restarted(k)
  BY MountedRestarts DEF IInv
<1>2. changes' = changes /\ query' = query /\ reported' = reported
  BY DEF cluster
<1>3. ContentInv' /\ FreshInv'
  BY <1>1, <1>2, RestartsKeep DEF IInv, FreshInv
<1>4. ConsoleTypes'
  BY <1>1 DEF IInv, ConsoleTypes, cluster
<1>. QED
  BY <1>3, <1>4 DEF IInv

LEMMA CallsSent ==
  ASSUME IInv, NEW op \in {"create", "delete"}, NEW o \in Objects, Send(op, o)
  PROVE  calls' \subseteq Calls /\ \A c \in calls' : c.change <= changes
<1>. DEFINE new == [op |-> op, object |-> o, mounted |-> TRUE, change |-> 0]
<1>1. new \in Calls /\ new.change <= changes
  BY DEF Calls, IInv, ConsoleTypes
<1>2. calls' = calls \cup {new}
  BY DEF Send
<1>. HIDE DEF new
<1>. QED
  BY <1>1, <1>2 DEF IInv, ConsoleTypes, FreshInv

LEMMA LookingSteps ==
  ASSUME IInv,
         \/ \E p \in Pages : Visit(p)
         \/ \E ns \in Typed : TypeNamespace(ns) \/ TypeDialogNamespace(ns)
  PROVE  IInv'
<1>1. Closed \in [open : BOOLEAN, ns : Typed] /\ DefaultNamespace \in Typed
  BY ObjectsAssumption DEF Closed, Typed
<1>2. /\ page \in Pages /\ typed \in Typed /\ calls \subseteq Calls
      /\ dialog \in [open : BOOLEAN, ns : Typed] /\ confirm \in Objects \cup {NoObject}
      /\ \A c \in calls : c.change <= changes
  BY DEF IInv, ConsoleTypes, FreshInv
<1>3. ASSUME NEW p \in Pages, Visit(p) PROVE IInv'
  <2>1. /\ page' = p /\ typed' = DefaultNamespace /\ dialog' = Closed
        /\ confirm' = NoObject /\ fetch' = Mounted(OnPage(p, DefaultNamespace))
        /\ calls' = {[c EXCEPT !.mounted = FALSE] : c \in calls}
        /\ UNCHANGED <<cluster, query, reported>>
    BY <1>3 DEF Visit
  <2>2. \A v \in OnPage(p, DefaultNamespace) : IsView(v)
    BY <1>1, ViewsOfPage
  <2>3. \A c \in calls : /\ [c EXCEPT !.mounted = FALSE] \in Calls
                         /\ [c EXCEPT !.mounted = FALSE].change = c.change
    BY <1>2 DEF Calls
  <2>4. calls' \subseteq Calls /\ \A c \in calls' : c.change <= changes
    BY <1>2, <2>1, <2>3
  <2>. QED
    BY <1>1, <2>1, <2>2, <2>4, UserLooks
<1>4. ASSUME NEW ns \in Typed, TypeNamespace(ns) PROVE IInv'
  <2>1. /\ typed' = ns /\ fetch' = Mounted(OnPage(page, ns))
        /\ page' = page /\ dialog' = dialog /\ confirm' = confirm /\ calls' = calls
        /\ UNCHANGED <<cluster, query, reported>>
    BY <1>4 DEF TypeNamespace
  <2>2. \A v \in OnPage(page, ns) : IsView(v)
    BY <1>2, ViewsOfPage
  <2>. QED
    BY <1>2, <2>1, <2>2, UserLooks
<1>5. ASSUME NEW ns \in Typed, TypeDialogNamespace(ns) PROVE IInv'
  <2>1. /\ dialog' = [dialog EXCEPT !.ns = ns] /\ fetch' = Mounted(InDialog(page, dialog'))
        /\ page' = page /\ typed' = typed /\ confirm' = confirm /\ calls' = calls
        /\ UNCHANGED <<cluster, query, reported>>
    BY <1>5 DEF TypeDialogNamespace
  <2>2. PICK d \in [open : BOOLEAN, ns : Typed] : dialog' = d
    BY <1>2, <2>1
  <2>3. \A v \in InDialog(page, d) : IsView(v)
    BY <1>2, ViewsOfDialog
  <2>. QED
    BY <1>2, <2>1, <2>2, <2>3, UserLooks
<1>. QED
  BY <1>3, <1>4, <1>5

LEMMA UserSteps ==
  ASSUME IInv,
         \/ OpenDialog \/ CloseDialog \/ CancelDelete \/ ConfirmDelete
         \/ \E o \in Objects : SubmitForm(o) \/ SubmitManifest(o) \/ AskDelete(o)
  PROVE  IInv'
<1>1. /\ calls \subseteq Calls /\ confirm \in Objects \cup {NoObject}
      /\ dialog \in [open : BOOLEAN, ns : Typed] /\ \A c \in calls : c.change <= changes
  BY DEF IInv, ConsoleTypes, FreshInv
<1>2. /\ Closed \in [open : BOOLEAN, ns : Typed]
      /\ [Closed EXCEPT !.open = TRUE] \in [open : BOOLEAN, ns : Typed]
  BY DEF Closed, Typed
<1>3. CASE OpenDialog \/ CloseDialog \/ CancelDelete
  <2>1. /\ UNCHANGED <<cluster, page, typed, query, fetch, reported>> /\ calls' = calls
        /\ dialog' \in {dialog, Closed, [Closed EXCEPT !.open = TRUE]}
        /\ confirm' \in {confirm, NoObject}
    BY <1>3 DEF OpenDialog, CloseDialog, CancelDelete
  <2>. QED
    BY <1>1, <1>2, <2>1, UserOnly
<1>4. CASE ConfirmDelete
  <2>1. /\ UNCHANGED <<cluster, page, typed, query, fetch, reported>> /\ dialog' = dialog
        /\ confirm' = NoObject /\ confirm \in Objects /\ Send("delete", confirm)
    BY <1>1, <1>4 DEF ConfirmDelete
  <2>. QED
    BY <1>1, <2>1, CallsSent, UserOnly
<1>5. ASSUME NEW o \in Objects, SubmitForm(o) \/ SubmitManifest(o) PROVE IInv'
  <2>1. /\ UNCHANGED <<cluster, screen, query, fetch, reported>> /\ Send("create", o)
        /\ dialog' = dialog /\ confirm' = confirm /\ page' = page /\ typed' = typed
    BY <1>5 DEF SubmitForm, SubmitManifest, screen
  <2>. QED
    BY <1>1, <2>1, CallsSent, UserOnly
<1>6. ASSUME NEW o \in Objects, AskDelete(o) PROVE IInv'
  <2>1. /\ UNCHANGED <<cluster, page, typed, query, fetch, reported>> /\ calls' = calls
        /\ dialog' = dialog /\ confirm' = o
    BY <1>6 DEF AskDelete
  <2>. QED
    BY <1>1, <2>1, UserOnly
<1>. QED
  BY <1>3, <1>4, <1>5, <1>6

(* A change of the cluster, by a call or by others.                          *)
LEMMA ClusterSteps ==
  ASSUME IInv, OthersChange \/ \E c \in calls : Executed(c)
  PROVE  IInv'
<1>1. PICK op \in {"create", "delete"}, o \in Objects : Change(op, o)
  BY DEF OthersChange, Executed, IInv, ConsoleTypes, Calls
<1>2. changes' = changes + 1 /\ changes \in Nat /\ exists' \subseteq Objects
  BY <1>1 DEF Change, IInv, ConsoleTypes
<1>3. UNCHANGED <<screen, query, fetch, reported>>
  BY DEF OthersChange, Executed
<1>4. calls' \subseteq Calls /\ \A c \in calls' : c.change <= changes'
  <2>1. \A c \in calls : c \in Calls /\ c.change \in Nat /\ c.change <= changes
    BY DEF IInv, ConsoleTypes, Calls, FreshInv
  <2>2. CASE OthersChange
    BY <1>2, <2>1, <2>2 DEF OthersChange
  <2>3. ASSUME NEW c \in calls, Executed(c)
        PROVE  calls' \subseteq Calls /\ \A d \in calls' : d.change <= changes'
    <3>1. calls' = (calls \ {c}) \cup {[c EXCEPT !.change = changes']}
      BY <2>3 DEF Executed
    <3>2. /\ [c EXCEPT !.change = changes'] \in Calls
          /\ [c EXCEPT !.change = changes'].change = changes'
      BY <1>2, <2>1 DEF Calls
    <3>3. changes' <= changes' /\ \A d \in calls : d \in Calls /\ d.change <= changes'
      BY <1>2, <2>1
    <3>. QED
      BY <3>1, <3>2, <3>3
  <2>. QED
    BY <2>2, <2>3
<1>5. ConsoleTypes'
  BY <1>2, <1>3, <1>4 DEF IInv, ConsoleTypes, screen
<1>6. ContentInv'
  BY <1>3 DEF IInv, ContentInv
<1>7. FreshInv'
  BY <1>2, <1>3, <1>4 DEF IInv, ConsoleTypes, FreshInv, Shown
<1>. QED
  BY <1>5, <1>6, <1>7 DEF IInv

(* The end of a call.  What a success reports is fetched again.              *)
LEMMA EndingSteps ==
  ASSUME IInv, NEW c \in calls, Succeeds(c) \/ Fails(c)
  PROVE  IInv'
<1>1. /\ calls' = calls \ {c} /\ UNCHANGED <<cluster, page, typed, query>>
      /\ c.change \in Nat /\ c.change <= changes
      /\ calls' \subseteq Calls /\ \A d \in calls' : d.change <= changes
  BY DEF Succeeds, Fails, screen, IInv, ConsoleTypes, FreshInv, Calls
<1>2. CASE Succeeds(c)
  <2>1. /\ fetch' = Invalidated(c.object.kind)
        /\ dialog' \in {dialog, Closed} /\ confirm' \in {confirm, NoObject}
    BY <1>2 DEF Succeeds
  <2>2. ASSUME NEW k \in Keys
        PROVE  /\ reported'[k] \in {reported[k], c.change}
               /\ reported'[k] # reported[k] =>
                    k.kind = c.object.kind /\ query[k].loaded /\ \E v \in InView : v.key = k
    BY <1>2 DEF Succeeds
  <2>3. /\ fetch' \in [Keys -> Fetches]
        /\ \A k \in Keys : fetch'[k] = fetch[k] \/ Restarted(k)
        /\ \A k \in Keys : reported'[k] # reported[k] => Restarted(k)
    BY <2>1, <2>2, InvalidatedRestarts DEF IInv
  <2>4. /\ reported' \in [Keys -> Nat]
        /\ \A k \in Keys : reported'[k] <= changes
    <3>1. reported' = [k \in Keys |-> reported'[k]]
      BY <1>2 DEF Succeeds
    <3>2. \A k \in Keys : reported'[k] \in Nat /\ reported'[k] <= changes
      BY <1>1, <2>2 DEF IInv, ConsoleTypes, FreshInv
    <3>. QED
      BY <3>1, <3>2
  <2>5. ContentInv' /\ FreshInv'
    BY <1>1, <2>3, <2>4, RestartsKeep DEF cluster
  <2>6. Closed \in [open : BOOLEAN, ns : Typed]
    BY DEF Closed, Typed
  <2>7. ConsoleTypes'
    BY <1>1, <2>1, <2>3, <2>4, <2>6 DEF IInv, ConsoleTypes, cluster
  <2>. QED
    BY <2>5, <2>7 DEF IInv
<1>3. CASE Fails(c)
  <2>1. UNCHANGED <<cluster, screen, query, fetch, reported>>
    BY <1>3 DEF Fails
  <2>2. dialog' = dialog /\ confirm' = confirm
    BY <2>1 DEF screen
  <2>. QED
    BY <1>1, <2>1, <2>2, UserOnly DEF IInv, ConsoleTypes
<1>. QED
  BY <1>2, <1>3

LEMMA StutterInv == IInv /\ UNCHANGED vars => IInv'
<1>. SUFFICES ASSUME IInv, UNCHANGED vars PROVE IInv'
  OBVIOUS
<1>. QED
  BY UserOnly DEF vars, screen, IInv, ConsoleTypes, FreshInv

-----------------------------------------------------------------------------
(* The inductive invariant holds of every state: types, every fetch and      *)
(* every list stored under the key it belongs to, and none on its way or     *)
(* shown that is older than what was reported on it.                         *)
THEOREM SpecIInv == Spec => []IInv
<1>1. Init => IInv
  BY InitInv
<1>2. IInv /\ [Next]_vars => IInv'
  <2>. SUFFICES ASSUME IInv, Next PROVE IInv'
    BY StutterInv
  <2>. QED
    BY ReadingSteps, LookingSteps, UserSteps, ClusterSteps, EndingSteps DEF Next, Typed
<1>. QED
  BY <1>1, <1>2, PTL DEF Spec

(* Whatever was typed before and whatever is answered late, the Secrets that *)
(* are shown or offered under a namespace are of that namespace              *)
(* (SecretsPage.tsx:252-258, CreateTemplateDialog.tsx:83-91).                *)
THEOREM RowsAreOfNamespace == Spec => []RowsOfNamespace
<1>1. IInv => RowsOfNamespace
  <2>. SUFFICES ASSUME IInv, NEW v \in InView, NEW o \in query[v.key].items
                PROVE  o.kind = v.key.kind /\ (o.kind = "secret" => o.ns = v.ns)
    BY DEF RowsOfNamespace
  <2>. QED
    BY ViewsInView DEF IInv, ContentInv, Belongs, IsView
<1>. QED
  BY <1>1, SpecIInv, PTL

(* A list with data in view is not older than a creation or deletion that    *)
(* was reported on it, however fetches, page changes and mutations           *)
(* interleave (SecretsPage.tsx:76, 262-267, TemplatesPage.tsx:95-100).       *)
THEOREM ListsNotOlderThanReports == Spec => []ListNotOlderThanReport
<1>1. IInv => ListNotOlderThanReport
  BY ViewsInView DEF IInv, FreshInv, IsView, ListNotOlderThanReport
<1>. QED
  BY <1>1, SpecIInv, PTL
=============================================================================
