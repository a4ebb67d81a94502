----------------------------- MODULE GatewayKeys -----------------------------
(***************************************************************************)
(* Virtual keys of the LLM gateway, from the browser to LiteLLM: the page  *)
(* that is visited and left, polls and deletes keys (GatewayPage.tsx), the *)
(* dialog on it that generates one and saves it as a Secret                *)
(* (GenerateKeyDialog.tsx), their handlers (server.go) and the LiteLLM     *)
(* client that pages through /key/list (gateway/client.go).                *)
(*                                                                         *)
(* LiteLLM and the Kubernetes API are external.  Keys are numbered in the  *)
(* order they are minted, 0 is none; a Secret is a name that is taken.     *)
(* React Query is modelled as the page uses it: one fetch of a query at a  *)
(* time, which goes on when the page is left; invalidation restarts the    *)
(* fetch of a page on show once there is data; the calls of a page that is *)
(* left go on and call its hooks, but no longer change its state.          *)
(***************************************************************************)
EXTENDS Naturals, Sequences, SequencesExt

CONSTANTS MaxKeys,      \* bound on the keys ever minted
          PageSize,     \* keys on a page of /key/list, 100 in the code
          Calls,        \* bound on the generations in flight at once
          SecretNames   \* names the user may give the Secret

ASSUME BoundsAssumption == MaxKeys \in Nat \ {0} /\ PageSize \in Nat \ {0}

VARIABLES
  live,      \* LiteLLM: its keys, in the order it lists them
  minted,    \* LiteLLM: number of keys it ever minted
  secrets,   \* Kubernetes: the names of its Secrets
  here,      \* page: it is on show
  info,      \* page: the gatewayInfo query has data, LiteLLM is reachable
  query,     \* page: state of the gatewayKeys query
  list,      \* the ListKeys call in progress
  del,       \* the deletion in progress (bound: one)
  open, generated, saved,   \* dialog: shown, the key it shows, the badge
  gen,       \* the generations in progress
  save,      \* the Secret creation in progress (bound: one)
  deleted,   \* history: keys whose deletion was reported to the user
  latest     \* history: the dialog shows the answer to its last submission

gateway == <<live, minted>>
page == <<here, info, query, list, del, deleted>>
dialog == <<open, generated, saved, gen, latest>>
storage == <<secrets, save>>
vars == <<gateway, page, dialog, storage>>

Keys == 1..MaxKeys
LiveKeys == ToSet(live)

NoList == [stage |-> "idle", full |-> FALSE, number |-> 0, keys |-> {},
           atStart |-> {}, quiet |-> FALSE, old |-> FALSE]
NoDel == [stage |-> "idle", key |-> 0]
NoCall == [stage |-> "idle", key |-> 0, mine |-> FALSE, last |-> FALSE]
NoSave == [stage |-> "idle", name |-> CHOOSE n \in SecretNames : TRUE,
           mine |-> FALSE]

Init ==
  /\ live = <<>> /\ minted = 0
  /\ secrets = {}
  /\ here = FALSE /\ info = FALSE
  /\ query = [rows |-> {}, loaded |-> FALSE, failed |-> FALSE, old |-> FALSE]
  /\ list = NoList /\ del = NoDel /\ save = NoSave
  /\ gen = [c \in Calls |-> NoCall]
  /\ open = FALSE /\ generated = 0 /\ saved = FALSE
  /\ deleted = {} /\ latest = TRUE

-----------------------------------------------------------------------------
(* Listing: GET /api/gateway/keys, ListKeys and listKeys.                  *)

StartedList == [stage |-> "paging", full |-> TRUE, number |-> 1, keys |-> {},
                atStart |-> LiveKeys, quiet |-> TRUE, old |-> FALSE]

(* The page asks for keys while LiteLLM is reachable, and shows them       *)
(* unless the latest fetch failed.                                         *)
Reachable == here /\ info
Rows == IF Reachable /\ query.loaded /\ ~query.failed THEN query.rows ELSE {}

BegunIf(condition) ==
  list' = IF condition /\ list.stage = "idle" THEN StartedList ELSE list

(* A visit fetches the keys, or joins the fetch of an earlier visit.       *)
Visit ==
  /\ ~here
  /\ here' = TRUE
  /\ BegunIf(info)
  /\ UNCHANGED <<gateway, info, query, del, deleted, dialog, storage>>

(* Leaving unmounts page and dialog: their calls go on for nobody.         *)
Leave ==
  /\ here
  /\ here' = FALSE
  /\ open' = FALSE /\ generated' = 0 /\ saved' = FALSE
  /\ gen' = [c \in Calls |-> [gen[c] EXCEPT !.mine = FALSE, !.last = FALSE]]
  /\ save' = [save EXCEPT !.mine = FALSE]
  /\ UNCHANGED <<gateway, info, query, list, del, deleted, latest, secrets>>

(* The status of the gateway arrives for the first time.                   *)
InfoArrives ==
  /\ ~info
  /\ info' = TRUE
  /\ BegunIf(here)
  /\ UNCHANGED <<gateway, here, query, del, deleted, dialog, storage>>

(* refetchInterval: the next poll.                                         *)
Poll ==
  /\ Reachable /\ list.stage = "idle"
  /\ list' = StartedList
  /\ UNCHANGED <<gateway, here, info, query, del, deleted, dialog, storage>>

(* Mutant: the query is left to its polling.                               *)
InvalidateNot == UNCHANGED list

(* invalidateQueries: on show, the fetch in progress is cancelled and a    *)
(* new one begun; a first fetch, without data to fall back on, and the     *)
(* fetch of a page that was left go on, from now on known to be old.       *)
Invalidate ==
  list' = IF Reachable /\ (list.stage = "idle" \/ query.loaded) THEN StartedList
          ELSE [list EXCEPT !.old = @ \/ list.stage # "idle"]

KeyPage(number) ==
  {live[i] : i \in {j \in 1..Len(live) : (j - 1) \div PageSize = number - 1}}

TotalPages == (Len(live) + PageSize - 1) \div PageSize

(* Mutant: the last page is taken for the one before it.                   *)
ListPageShort ==
  /\ list.stage = "paging"
  /\ LET found == KeyPage(list.number)
         done == found = {} \/ list.number + 1 >= TotalPages
     IN list' = [list EXCEPT !.keys = @ \cup found,
                             !.number = IF done THEN @ ELSE @ + 1,
                             !.stage = IF done THEN "answered" ELSE @]
  /\ UNCHANGED <<gateway, here, info, query, del, deleted, dialog, storage>>

(* One page arrives; the last one ends the call.                           *)
ListPage ==
  /\ list.stage = "paging"
  /\ LET found == KeyPage(list.number)
         done == found = {} \/ list.number >= TotalPages
     IN list' = [list EXCEPT !.keys = @ \cup found,
                             !.number = IF done THEN @ ELSE @ + 1,
                             !.stage = IF done THEN "answered" ELSE @]
  /\ UNCHANGED <<gateway, here, info, query, del, deleted, dialog, storage>>

(* LiteLLM answered with an error status (KindUpstream): the call begins   *)
(* again without return_full_object, from the first page.                  *)
ListFallsBack ==
  /\ list.stage = "paging" /\ list.full
  /\ list' = [list EXCEPT !.full = FALSE, !.number = 1, !.keys = {}]
  /\ UNCHANGED <<gateway, here, info, query, del, deleted, dialog, storage>>

(* Any other error, or an error of the bare listing, fails the call: the   *)
(* pages read so far are dropped.                                          *)
ListFails ==
  /\ list.stage = "paging"
  /\ list' = NoList
  /\ query' = [query EXCEPT !.failed = TRUE]
  /\ UNCHANGED <<gateway, here, info, del, deleted, dialog, storage>>

ListArrives ==
  /\ list.stage = "answered"
  /\ query' = [rows |-> list.keys, loaded |-> TRUE, failed |-> FALSE, old |-> list.old]
  /\ list' = NoList
  /\ UNCHANGED <<gateway, here, info, del, deleted, dialog, storage>>

-----------------------------------------------------------------------------
(* Deleting: the confirmed deletion of a row, DELETE /api/gateway/keys.    *)

Removed(key) ==
  /\ \/ \E i \in DOMAIN live : live[i] = key /\ live' = RemoveAt(live, i)
     \/ key \notin LiveKeys /\ live' = live
  /\ list' = [list EXCEPT !.quiet = FALSE, !.atStart = {}]

Delete(key) ==
  /\ ~open
  /\ key \in Rows /\ del.stage = "idle"
  /\ del' = [stage |-> "sent", key |-> key]
  /\ UNCHANGED <<gateway, here, info, query, list, deleted, dialog, storage>>

KeyDeleted ==
  /\ del.stage = "sent"
  /\ Removed(del.key)
  /\ del' = [del EXCEPT !.stage = "done"]
  /\ UNCHANGED <<minted, here, info, query, deleted, dialog, storage>>

(* The report is a toast, which also appears when the page was left.       *)
DeleteSucceeds ==
  /\ del.stage = "done"
  /\ del' = NoDel
  /\ deleted' = deleted \cup {del.key}
  /\ Invalidate
  /\ UNCHANGED <<gateway, here, info, query, dialog, storage>>

(* LiteLLM refuses, is unreachable, or its answer is lost.                 *)
DeleteFails ==
  /\ del.stage # "idle"
  /\ del' = NoDel
  /\ UNCHANGED <<gateway, here, info, query, list, deleted, dialog, storage>>

(* A key is deleted elsewhere, or expires.                                 *)
OtherDeletes ==
  /\ \E key \in LiveKeys : Removed(key)
  /\ UNCHANGED <<minted, here, info, query, del, deleted, dialog, storage>>

-----------------------------------------------------------------------------
(* Generating: POST /api/gateway/keys.                                     *)

OpenDialog ==
  /\ Reachable /\ ~open
  /\ open' = TRUE /\ generated' = 0 /\ saved' = FALSE
  /\ UNCHANGED <<gateway, page, gen, latest, storage>>

(* Cancel, Done or Escape: the dialog stays mounted, and its calls stay    *)
(* its own.                                                                *)
CloseDialog ==
  /\ open
  /\ open' = FALSE
  /\ UNCHANGED <<gateway, page, generated, saved, gen, latest, storage>>

(* The dialog that is mounted waits for the answer of c.                   *)
Pending(c) == gen[c].mine /\ gen[c].stage # "idle"

(* Mutant: the button is enabled while a generation is pending.            *)
CanGenerateAgain == generated = 0

CanGenerate == generated = 0 /\ \A c \in Calls : ~Pending(c)

Generate(c) ==
  /\ open /\ CanGenerate
  /\ gen[c].stage = "idle"
  /\ gen' = [d \in Calls |->
               IF d = c THEN [stage |-> "sent", key |-> 0, mine |-> TRUE, last |-> TRUE]
               ELSE [gen[d] EXCEPT !.last = FALSE]]
  /\ UNCHANGED <<gateway, page, open, generated, saved, latest, storage>>

(* LiteLLM mints the key and lists it somewhere among the others.          *)
Mint ==
  /\ minted' = minted + 1
  /\ \E i \in 1..Len(live) + 1 : live' = InsertAt(live, i, minted')

KeyMinted(c) ==
  /\ gen[c].stage = "sent" /\ minted < MaxKeys
  /\ Mint
  /\ gen' = [gen EXCEPT ![c].stage = "done", ![c].key = minted']
  /\ UNCHANGED <<page, open, generated, saved, latest, storage>>

(* The key of a dialog that is closed is cleared by its next opening; that *)
(* of a dialog that is gone is shown by none.                              *)
KeyArrives(c) ==
  /\ gen[c].stage = "done"
  /\ gen' = [gen EXCEPT ![c] = NoCall]
  /\ IF gen[c].mine THEN generated' = gen[c].key /\ latest' = gen[c].last
                     ELSE UNCHANGED <<generated, latest>>
  /\ Invalidate
  /\ UNCHANGED <<gateway, here, info, query, del, deleted, open, saved, storage>>

(* The call fails before the key is minted, or its answer is lost or late  *)
(* (10 s): LiteLLM keeps a key nobody knows, which the next list shows.    *)
GenerateFails(c) ==
  /\ gen[c].stage # "idle"
  /\ gen' = [gen EXCEPT ![c] = NoCall]
  /\ UNCHANGED <<gateway, page, open, generated, saved, latest, storage>>

-----------------------------------------------------------------------------
(* Saving the shown key: POST /api/secrets.                                *)

CanSave == open /\ generated # 0 /\ ~saved /\ save.stage = "idle"

SaveSecret(name) ==
  /\ CanSave
  /\ save' = [stage |-> "sent", name |-> name, mine |-> TRUE]
  /\ UNCHANGED <<gateway, page, dialog, secrets>>

SecretCreated ==
  /\ save.stage = "sent" /\ save.name \notin secrets
  /\ secrets' = secrets \cup {save.name}
  /\ save' = [save EXCEPT !.stage = "done"]
  /\ UNCHANGED <<gateway, page, dialog>>

(* 409 for a name that is taken, another error, or a lost answer.          *)
SaveFails ==
  /\ save.stage # "idle"
  /\ save' = NoSave
  /\ UNCHANGED <<gateway, page, dialog, secrets>>

(* onSuccess marks the dialog, whatever it shows by now, unless it is gone. *)
SaveSucceeds ==
  /\ save.stage = "done"
  /\ save' = NoSave
  /\ saved' = (saved \/ save.mine)
  /\ UNCHANGED <<gateway, page, open, generated, gen, latest, secrets>>

(* The Secret is deleted, on the Secrets page or elsewhere.                *)
SecretDeleted(name) ==
  /\ name \in secrets
  /\ secrets' = secrets \ {name}
  /\ UNCHANGED <<gateway, page, dialog, save>>

Listing == Poll \/ ListPage \/ ListFallsBack \/ ListFails \/ ListArrives
Moving == Visit \/ Leave \/ InfoArrives
Deleting == (\E key \in Keys : Delete(key)) \/ KeyDeleted \/ DeleteSucceeds
            \/ DeleteFails \/ OtherDeletes
Generating == OpenDialog \/ CloseDialog
              \/ \E c \in Calls : Generate(c) \/ KeyMinted(c) \/ KeyArrives(c)
                                   \/ GenerateFails(c)
Saving == \/ \E name \in SecretNames : SaveSecret(name) \/ SecretDeleted(name)
          \/ SecretCreated \/ SaveFails \/ SaveSucceeds

Next == Listing \/ Moving \/ Deleting \/ Generating \/ Saving

Spec == Init /\ [][Next]_vars

-----------------------------------------------------------------------------
(* The key the dialog shows is the answer to the submission made last, and *)
(* not that of an earlier one which arrives late, whatever was closed,     *)
(* reopened, left and visited again in between                             *)
(* (GenerateKeyDialog.tsx:58-86, 113-115).                                 *)
ShowsLatestSubmission == generated # 0 => latest

(* A key the user was told is deleted is on the page only while the list   *)
(* is fetched anew; or, until the next fetch, if a fetch that was already  *)
(* under way when the deletion was reported to a page that had been left   *)
(* brings it back (GatewayPage.tsx:65-92).                                 *)
DeletedStaysGone == list.stage = "idle" /\ ~query.old => Rows \cap deleted = {}

(* A listing during which no key is deleted has every key there was when   *)
(* it began, across pages, mints and the fallback (client.go:218-259).     *)
ListComplete ==
  list.stage = "answered" /\ list.quiet => list.atStart \subseteq list.keys

=============================================================================
