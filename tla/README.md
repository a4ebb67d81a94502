# A TLA+ model of substrate-control

substrate-control is a web console for an actor platform ("substrate") and an LLM
gateway (LiteLLM): a Go server that serves a React frontend and a JSON API, and that
calls the substrate control plane over gRPC, the Kubernetes API and LiteLLM on its
behalf. This directory holds TLA+ modules for the parts of it that have behaviour
worth checking, the TLC configurations that check small instances of them, and
TLAPS proofs, for every value of the parameters, of each safety property the runs check.

`PROJECT.json` is the index: components, runs, the mutation each property was seen to
catch, the source lines behind every definition, hazards, findings and theorems.

```
tlc -workers 2 -config PortForward.cfg MCPortForward      # model-check one instance
tlapm PortForwardProofs.tla                               # check the proofs of one module
```

## 1. The system

```
 browser tab                       server process                         outside
+------------------+   HTTP   +-----------------------+
| pages, dialogs,  | <------> | api.Server handlers   | -- gRPC + token --> ate-api-server
| React Query      |          |  substrate client ----|--.                  (control plane)
| cache            |          |  kube client ---------|--|----------------> Kubernetes API
+------------------+          |  gateway client ------|--|-- HTTP --------> LiteLLM
                              |  routerproxy ---------|--|-- HTTP --------> atenet-router
                              | main, pforward -------|--'-- child -------> kubectl port-forward
                              +-----------------------+      file/child --> tokens
```

Handlers keep no state. The state of the program is in four places: the goroutines of
the port-forward manager, the token caches, the cached master key of the gateway, and
the browser's query cache with the forms and mutations around it. Everything else is a
call that reads or changes the state of somebody else, which is why most of the
hazards are about when calls are made and in which order their answers come back.

### 1.1 Components

| Component | State | Operations | Interacts with | Correct means | Status |
|---|---|---|---|---|---|
| Port-forward manager, `internal/pforward` | loop, backoff, the kubectl child, its stdout pipe, one scanner goroutine per attempt, the `ready` channel, the verdict of an attempt | Start, WaitReady, Stop, run, runOnce, scanner | main starts and stops it; kubectl prints, dies | one child at a time; the latch is closed once and only after a report; a restart after every end until stopped, and then an end; the backoff schedule; no scanner is left over | modelled |
| Token providers, `internal/substrate/token.go`, `filetoken.go` | cached token, expiry or mtime, mutex | Get, ForceRefresh | every RPC; kubectl; kubelet | tokens never go back in time, a refresh is really new, a cached token is alive, the mutex is released | modelled |
| RPC authentication, `token.go`, `client.go` | per RPC: attempt, token | perRPCCreds, retry interceptor | a token source shared by all RPCs | no RPC runs twice; the retry's token is newer than the rejection; Unauthenticated only for a reason | modelled |
| Server process, `cmd/server/main.go` | mode, signal context, deferred calls, shutdown goroutine | startup, signal, shutdown, exit | manager, substrate client, HTTP server | serves or exits, ends on a signal at any point, keeps the forward while it serves | modelled |
| LLM gateway keys, `gateway/client.go`, `GatewayPage`, `GenerateKeyDialog` | page of keys, dialog, saved badge | list, generate, delete, save as Secret | LiteLLM, Kubernetes | the dialog shows the key of its latest submission, deleted keys stay gone, listings are complete | partly |
| Actor console, `ActorsPage`, `ActorDetailPage`, `ActorActions`, `CreateActorDialog` | two kinds of cached queries, pending mutations | poll, visit, resume, suspend, pause, delete, create | control plane | a view that a report has read again does not fall back behind it; a list converges | partly |
| Resource pages (Secrets, Templates, Worker Pools, Atespaces) | query cache by kind and namespace, dialogs, confirmation | list, create by form or manifest, delete | Kubernetes, control plane | rows belong to the namespace on show; lists do not fall back | partly |
| Monitoring, `api/monitoring.go`, `MonitoringPage` | overview, spend logs | collect, group, poll | control plane, LiteLLM, metrics | usage adds up, and comes back by itself | partly |
| Gateway administration, `gateway/client.go`, `GatewayPage`, `RegisterModelDialog` | cached master key and its mutex; status and model queries | masterKey, Info, ListModels, RegisterModel, DeleteModel, visit, poll | Kubernetes, LiteLLM, every other gateway request | all requests carry one key; none waits for ever; a deleted model leaves the page | modelled |
| Forms: the creation dialogs of templates, pools, actors, Secrets, atespaces, keys and models, the task panel | inputs, selects, rows, the lists they offer | open, edit, preset, submit, close | the pages' queries, the handlers | what is shown is sent and nothing else; a Secret and its key were offered together; the handlers accept it | modelled, with the components they belong to |
| Actor tasks, `ActorTaskPanel`, `routerproxy` | the requests of the panel in flight, the answer kept | send, Forward | atenet-router | as the other forms | partly |
| API server shell, Kubernetes client | none | routing, decoding, conversion | all handlers | | with their callers |
| Workers page, frontend shell, embedded assets, example agent, generated API, deployment | | | | | not modelled (section 7) |

### 1.2 What is hard here

* **Goroutines of two attempts.** A scanner of the last kubectl may still run when the
  next one is supervised; both close `m.ready`, and `runOnce` judges an attempt by a
  channel its scanner may not have closed yet (`pforward.go:144-177`).
* **Cancellation.** A signal can arrive before the listener exists, while a kubectl is
  being started, or while the backoff timer fires; `Stop` does not wait.
* **Rotation between two system calls.** The token file is read and then statted
  (`filetoken.go:51-59`); the kubelet replaces it in between.
* **Shared caches.** Rejected RPCs all refresh the one token cache, and each retry asks
  that cache again (`token.go:110-120`).
* **Answers out of order.** A poll that read before an action may arrive after its
  success; a namespace typed since; a dialog closed and opened since.
* **Half-done work.** A listing that fails on its third page starts over in another form;
  LiteLLM fails between two of four calls; the answer to a key generation is lost.
* **Listing by offset** while keys are minted and deleted.
* **A mutex over a network read.** Every gateway request may wait for the one that reads the
  Secret with the master key, and the Secret may be rotated meanwhile (`client.go:81-107`).
* **State that is hidden, not gone.** A form keeps what another tab, provider, mode or list
  displayed; some of it is sent, some is not, and it depends on each field.

`PROJECT.json` lists each at its line under "hazards" with the property that watches it, or
the reason why there is none.

## 2. The modules

| Module | Code | State and actions |
|---|---|---|
| `PortForward` | `pforward.go` | `pc, cur, backoff` are the loop goroutine (`run`, `runOnce`); `child, pipe, held, scan, marked` one attempt each: process, pipe, scanner's buffer, scanner goroutine and `attemptReady`; `ready` counts closings of `m.ready`, `mu` is `m.mu`. The caller's `Start`, `Stop`, `WaitReady` and the cancelled context are actions of their own; the kill by `exec.CommandContext` is one too (`KillChild`). |
| `Supervisor` | what `main.go` relies on | down, starting, up, stopped, with a latch. No start is begun after a cancellation; one that was begun before it may still come up. |
| `PortForwardRefines` | | the mapping from `PortForward` to `Supervisor`. |
| `TokenSource` | interface `TokenSource`, `token.go:86-92` | tokens are numbered by age; a call may return any token not older than the cache, a ForceRefresh none older than what existed when it was called. |
| `KubectlToken` | `TokenProvider` | mutex, position of every caller, the two clocks: age of the token since its issue, and time since `p.expiry` was set. |
| `FileToken` | `FileTokenProvider` | mutex, position of every caller between its system calls, file and cache. |
| `RpcAuth` | `perRPCCreds`, `unauthenticatedRetryInterceptor` | EXTENDS `TokenSource`: many RPCs over one source whose tokens die, oldest first. |
| `ServerLifecycle` | `main.go` | `pc` of main, signal context, shutdown goroutine, around INSTANCE `Supervisor`. |
| `GatewayKeys` | `client.go:210-345`, handlers, `GatewayPage`, `GenerateKeyDialog` | LiteLLM's keys, the paged listing, the page visited and left (`here`), one deletion and one save in flight, and several generations, as leaving the page forgets a pending one. |
| `ActorConsole` | actor pages, handlers, `substrate/client.go` | per view a query and a fetch; rows carry the number of the change they were read after. |
| `ResourceConsole` | resource pages, handlers, `kube/client.go` | the query cache by key, the page's and the dialog's views of it. |
| `Monitoring` | `monitoring.go`, `MonitoringPage` | the overview being put together, the page's two queries. |
| `GatewayAdmin` | `client.go:46-145, 190-204, 371-442`, handlers, `GatewayPage` | `cache`, `holder` are `Client.cache` and `Client.mu`; `call` has one request of each kind, on its way through key, LiteLLM and answer; `info` and `rows` are the page's queries. `"other"` is any other request, also one whose page has given it up. |
| `FormValues` | what the dialogs share, `k8s.ts` | the texts an input takes, rows that become a JSON object, `Number`, and pasted documents by the shapes `specFromYaml` tells apart. |
| `TemplateForm`, `PoolForm`, `ActorForm`, `GatewayForms`, `SmallForms` | the dialogs, `presets.ts`, `ActorTaskPanel` | operators only: the blank state of a form, its controls, when it is complete, and the request it sends, as a set of entries. |
| `Forms` | the same | the tab that shows one of these forms: it is opened, edited, submitted, closed, answered, while the lists behind it arrive. |
| `*Proofs` | | theorems about one or two of the modules above, section 5. |
| `MC*` | | instances for TLC. |

How they compose: `PortForward` implements `Supervisor`, and `ServerLifecycle` runs main
around `Supervisor`; `KubectlToken` and `FileToken` implement `TokenSource`, and `RpcAuth` is
the client around `TokenSource`. So what is checked of the process and of RPCs holds with
either implementation under it. `Forms` instantiates the modules of the dialogs. The other
five console modules are end to end: browser, handler, client and the outside, because
their hazards are about the whole round trip; in them a request has no contents but what
the order of answers can spoil, and the contents are the matter of `Forms`.

Definitions called *mutant* are plausible bugs of the definition that follows them. They
are used nowhere; PROJECT.json names the property that each of them breaks when it takes
the place of the original.

### External behaviour assumed

* **kubectl** may print anything, any number of times, and end at any moment. A killed
  child ends. An OS pipe holds a bounded number of lines and blocks its writer. A line may be longer
  than `bufio.Scanner` takes, which ends the scanner (`ScanEnds`).
* **React Query** (v5, defaults of `main.tsx`): one fetch per key at a time; a fetch goes on
  when its view is left and is taken up by the next one; `invalidateQueries` restarts the
  fetch of an active query that has data, and does not restart a first fetch that is
  under way; an answer of a cancelled fetch is dropped; the fetch of a view that is not on show is not
  restarted; a failed fetch keeps the data and
  marks the query failed. `useMutation` forgets its pending state on unmount; the call
  goes on, and hook-level `onSuccess` still runs.
* **LiteLLM** lists keys in a fixed order by page number, mints on every `/key/generate`
  and may lose any answer. Its answers are taken to fit in the 4 MiB that `client.go:137`
  reads.
* **Kubernetes and the control plane** accept or refuse; others change things too.
* **sync.Mutex** does not starve a waiter (since Go 1.9).

## 3. The runs

| Run | Instance | Properties |
|---|---|---|
| `port_forward` | 2 overlapping attempts, pipe of 1 line, backoff 1..3 | types; `OneChild`; `ReadyClosedOnce`; `BackoffSchedule`; `NoFalseReady`; `StopTerminates`; `ScannersEnd`; `KeepsRestarting`; `ImplementsSupervisor` |
| `kubectl_token` | 2 callers, 3 tokens, lifetime 5 (refresh at 4), kubectl timeout 1 | types; `CachedTokenLive`; `RefreshIsNew`; `CallsReturn`; `ImplementsTokenSource` |
| `file_token` | 2 callers, 4 tokens | `ImplementsTokenSource` |
| `rpc_auth` | 2 RPCs, 3 tokens | types; `ExecutedOnce`; `RetryIsFresh`; `RpcEnds` |
| `server_lifecycle` | the three modes | types; `ForwardSupervisedWhileServing`; `ServesOrExits`; `SignalEndsProcess` |
| `server_orphan` | the same | **violated**: `StopTerminatesChild` |
| `gateway_keys` | 2 keys, pages of 1 key, 1 Secret name, 2 generations in flight (symmetric) | `ShowsLatestSubmission`; `DeletedStaysGone`; `ListComplete` |
| `gateway_admin` | 2 versions of the master key, 1 model, one call of each kind | types; `OneMasterKey`; `CallsEnd`; `DeletedLeaves` |
| `actor_console` | 1 actor (two views), 2 changes, 2 mutations in flight | `ViewNotOlderThanAction`; `ShownConverges` |
| `resource_console` | Secrets and Templates pages, 2 namespaces, 1 change, 1 mutation | `RowsOfNamespace`; `ListNotOlderThanReport` |
| `forms` | the 8 forms, 3 to 6 edits of each, 2 requests in flight | `ShownIsSent`; `SentIsShown`; `RefsWereOffered`; `PassesServerChecks` |
| `monitoring` | 2 keys, 2 models, window of 1 log, 2 requests | `UsageAddsUp`; `UsageComesBack` |

Types are checked where a proof rests on them, once per module.

### Why the bounds are enough

* `PortForward`: an attempt's identity is recycled when its scanner has ended, so the loop
  restarts for ever and `Attempts` bounds only the scanners that overlap: two are a
  scanner that is late and the one that is current. A pipe of one line blocks its writer
  at the second. With backoff 1, 2, 3 the delay is doubled, capped and reset. The
  types, the safety properties and the safety part of the refinement are proved for every
  value (section 5).
* Tokens: two callers contend for one mutex, and three tokens give an old one, a refreshed
  one and one more that arrives meanwhile. The mint timeout of one tick fills the margin
  between refresh point and end of lifetime exactly, as tightly as
  `MarginAssumption` lets it.
* `RpcAuth`: a third RPC adds no interaction that two do not have, since RPCs meet only in
  the cache; the theorem has any number.
* `GatewayKeys`: with pages of one key, two keys are two pages: a mint or deletion between
  them, and a failure on the second, are all there is to vary. Two generations in flight are one
  whose page was left and one of the page on show; a late answer needs no third. There is one
  deletion and one save at a time.
* `ActorConsole`: views of different actors share nothing but the control plane, so one
  actor with its list and its page is enough; two changes are an own action and a drift,
  or two actions, in either order. Of two mutations one may be of a page that was left.
* `ResourceConsole`: one change and one mutation, because larger bounds exceed a few
  minutes. The hazard, an answer read before the one change and shown after its success
  was reported, needs no more; and two namespaces are needed for a late answer of the
  one typed before.
* `GatewayAdmin`: two versions tell an old key from a new one. With one model there is one to
  register, list and delete, and a list that is read before the deletion and arrives after it;
  models do not interact. The environment holds one key or none (`EnvKeys`), and the page has one
  mutation at a time (`NoMutation`); `"other"` has one more request, so three to five calls meet at
  the mutex.
* `Forms`: `MaxEdits` (template 5, pool 5, actor 6, key 4, model 6, Secret 6, atespace 3, task 4)
  counts the edits since the form was blank. They are enough to complete each form (a template
  with a preset, or without a probe) with edits to
  spare for the hazards: a tab, a provider or a mode that is changed after something was typed
  under it. A preset fills in a variable with its Secret at once (`blank` and `claude_code` are
  tried). A template has one row per list besides a preset's, the others two, which may share a key
  (`MaxRows`). Most inputs take one text; two where two must differ (namespaces, label values), and
  numerals, zero and no number where the code converts (`MCForms`). A template filled in by hand
  with a readiness probe needs more edits; there `NothingShownIsLost` (section 5), which has any
  number of them, takes over. `MaxWaiting` 2: only the task panel sends while an answer is awaited.
* `Monitoring`: a window of one log and two requests make a log that falls out of the window
  and a key whose lifetime spend exceeds its spend in the window.

`CHECK_DEADLOCK FALSE` is set where the system really stops: a stopped manager, tokens
used up, RPCs all done, a process that has exited.

### Fairness

Only of what the code schedules itself:

* goroutines of the manager, of main and of the token providers run on (WF), the kill of a
  cancelled child is delivered (WF), a waiter for a mutex gets it in the end (SF on the lock:
  the mutex is released and taken by others again and again);
* a kubectl run for a token ends, at the latest by its timeout (`token.go:64`). An attempt
  of an RPC need not end: neither the handlers, which pass `r.Context()`, nor `dial`
  (`client.go:30-54`) set a deadline or a keepalive. `RpcEnds` is therefore a conditional: an RPC
  whose own attempts are answered, or fail on the way, ends, also when those of others hang;
* main's waits before it serves have timeouts; `Accept` is not assumed to fail;
* a gateway request gets the mutex in the end (SF), and its read of the Secret or its request
  ends, by an answer or by the deadline of its HTTP client (WF). Nothing is assumed of the resolution
  at startup: a server may be restarted again and again, so `CallsEnd` speaks of requests only;
* pages poll (`refetchInterval`), and an answer that was given arrives. `ShownConverges`
  holds for lists whose fetches fail finitely often, `UsageComesBack` once both services stay up. That the
  reads of the pages end is an assumption on the servers, as for RPCs: reads of the control plane have
  no deadline, and in the monitoring handler reads of the Kubernetes API come before those of the
  gateway (`monitoring.go:110-111, 287-293`).

Nothing is assumed of kubectl, of the user, of signals, of changes by others, or of failures.

## 4. Where code and text differ

One run is violated. `StopTerminatesChild` states what `pforward.go:71` says: "Stop terminates the
child process". `Stop` cancels a context; a goroutine of os/exec kills kubectl later; main returns
right after its deferred `Stop` (`main.go:193`), and the process may be gone before. kubectl then
keeps the local port. In the run, kubectl is up before the signal arrives.

Six more texts say something other than the code does, which the models show in passing:

* `filetoken.go:14`: "the file is re-read whenever its mtime changes". A rotation between `ReadFile`
  and the second `Stat` (line 59) stores the old token under the new mtime, and every later `Get`
  answers with it until the next rotation or until a rejected RPC forces a refresh.
  `ImplementsTokenSource` still holds: only freshness of a cache hit is lost, not the order of tokens.
* `monitoring.go:332-334`: spend is "summed over the fetched logs", and keys without traffic keep
  their lifetime spend. Rows start with the lifetime spend of every key, and the spend of the
  logs is added on top (line 348).
* `CreateTemplateDialog.tsx:264`: "or use a full manifest with metadata". A manifest with its own
  namespace and name cannot be submitted while the fields above it are empty (lines 168-171), so
  the message is only seen when both are filled in and the manifest names one of them as "".
* `pforward.go:143`: "Keep draining after readiness so kubectl never blocks on a full pipe". The
  scanner stops at a line it cannot hold, and nobody reads the pipe from then on; `ScannersEnd` says
  that no scanner is left over, not that kubectl is always read.
* `client.go:218`: "ListKeys returns all virtual keys". A key deleted between two pages moves the next
  ones to earlier places, and one of them is on neither; `ListComplete` is about listings without a
  deletion.
* `GenerateKeyDialog.tsx:310`: "Saved. Workloads can now reference it". The success of a save marks
  the dialog (line 95), whatever key it shows by then: closed, opened again and with another key
  generated, it says so of that key (`SaveSucceeds`).

`SentIsShown`, `ShownIsSent` and `PassesServerChecks` name the behaviours they except: a selection
that its list no longer holds is sent though the select shows nothing; the API base of a provider
chosen before is sent though its input is not displayed; half a readiness probe and a budget that is
no number above zero are dropped; the port of a probe that is no number is sent as null
(`CreateTemplateDialog.tsx:203`); an empty or a list-valued `spec` is left for the handler to refuse.
`DeletedStaysGone` excepts, until the next fetch, the answer of a fetch that was under way
when the deletion was reported to a page that had been left: the invalidation at `GatewayPage.tsx:90`
does not restart it, and the next visit joins it. `ViewNotOlderThanAction` excepts in the same
way a fetch that goes on: of a view that is not on show, of a view without data, and of the actor's own
page after a creation, which invalidates the list alone (`CreateActorDialog.tsx:98`). Nothing in
the repository promises otherwise.

## 5. What is proved

Every theorem below holds for all values of the constants, from the named assumptions of
the modules alone, which TLC evaluates on every instance:

* bounds are naturals, and positive where the code has at least one (pages of keys, versions,
  models, the window of logs); `None` is not a caller or an attempt (`NoneAssumption`,
  `AttemptsAssumption`);
* `PortForward`: `BackoffAssumption` (`InitialBackoff <= MaxBackoff`), and the table of uncapped
  delays, `DoubledAssumption` and `FailCapSuffices`, described below;
* `KubectlToken`: `MarginAssumption`, that the refresh point plus kubectl's timeout is within the
  lifetime (48 minutes and 15 seconds within an hour);
* `ResourceConsole`: `ObjectsAssumption`, that resources are of the four kinds and of the namespaces;
* `Forms`: `SecretsAssumption` (Secrets are listed as pairs), `PresetsAssumption`, `PagesAssumption`,
  `TextsAssumption` (pasted texts are among the documents told apart, no blank numeral) and
  `PathsAssumption`, which says of strings what the prover does not know: `"/" \o p` is neither
  blank nor `p`.

Each proof has the same shape: an inductive invariant (`Init => IInv`, one case or lemma per action
for `IInv /\ [Next]_vars => IInv'`), then `PTL`. Some proof modules are about two systems that run
side by side (server process and gateway administration, RPCs and actor pages, key page and
usage). Those share no variable, and their definitions are told apart by a prefix (`Lifecycle`,
`Auth`, `Actor`, `Usage`); no theorem speaks of both.

* `PortForwardProofs`: `TypeCorrect`, `AtMostOneChild`, `ReadyNeverReclosed`, `WaitReadyIsHonest`,
  `VerdictNeverFalselyReady`, `BackoffFollowsSchedule`, and `RefinesSupervisor`, the safety part of
  `ImplementsSupervisor`. One child is not inductive: the invariant says that a running child is
  `cur`, and that the loop is in `wait` then. That the latch is closed once rests on who holds
  `m.mu`: a scanner about to close holds it, and found `ready` at 0. Honesty goes back from a
  closed channel over the scanner's buffer and the pipe to a line that was printed. For the
  schedule, the invariant (`DelayDoubled`) ties the delay of the loop to the number of failures
  counted since an attempt was ready: it is the uncapped delay of that many doublings, capped.
  The uncapped delays are a constant, `Doubled`, fixed by their recurrence from `InitialBackoff`
  (`DoubledAssumption`), because the prover has no facts about powers of two; and the count ends
  where the cap has been reached (`FailCapSuffices`), after which doubling and capping changes nothing.
* `KubectlTokenProofs`: `TypeCorrect`, `CachedTokensLive`, `RefreshesAreNew` and `RefinesTokenSource`. The
  invariant adds to the types that tokens are ordered (a kubectl's token is newer than the call that
  started it), and that the age of the cached token exceeds the time since it was
  stored by at most one kubectl run, because the age of the token in progress never exceeds
  kubectl's running time.
* `FileTokenProofs`: `TypeCorrect` and `RefinesTokenSource`. The cache is never newer than the file,
  and a caller between its two system calls has read a token no older than the cache, which
  only it may fill as it holds the mutex, nor than the file was when it was called.
* `RpcProofs`, the RPCs: `TypeCorrect`, `NeverExecutedTwice`, `RetriesAreFresh`,
  `UnauthenticatedOnlyIfJustified`. From the answer of its ForceRefresh on, the shared cache is at
  least as new as the newest token at the RPC's rejection, and other RPCs only ever make it newer
  (`OthersKept`). As the module EXTENDS the abstract `TokenSource`, the two refinement theorems
  above carry this over to both providers. The actor pages: `ViewsNotOlderThanActions`. A view is
  the answer of a fetch, and a fetch reads one actor after the other. The invariant therefore
  speaks of the rows a fetch has read so far (`ActorFresh`): each is at least as recent as the last
  action reported on that actor in that view, since a report restarts the fetch and so takes back
  what it had read, or finds none under way. A view that is not on show keeps its rows, but comes on
  show with a fetch. A creation counts on the list only.
* `ServerProofs`, the master key: `AdminTypes` and `MasterKeyIsOne`. One key is not inductive: the
  invariant adds that while the mutex is held there is no key in the environment or the cache, so
  no request carries one, and that whoever reads the Secret holds the mutex; the read that ends is
  then the only one that can set the cache. The process: `ProcessTypes` and
  `SupervisedWhileServing`, around the abstract `Supervisor`.
* `GatewayProofs`, the keys: `ShownKeysAreLatest`, `DeletedKeysStayGone`, `ListsAreComplete`. A listing that
  ends complete is explained while it is under way (`ListingInv`): unless a key was deleted since it
  began, each key there was at its beginning has been read or is on this page or a later one
  (`Ahead`), which holds across pages of any size because a mint, wherever it lands,
  only moves keys to later places. What was deleted is in no
  list under way but a fetch known to be old (`DeletedInv`): the success of a deletion restarts the
  fetch of a page on show, and a deletion is of a row, so that there is a loaded list whose fetch can
  be restarted. That the dialog shows its latest submission rests on who may still answer
  (`DialogInv`): what the mounted dialog waits for is the answer to the last submission, because what
  is pending disables the button, and leaving the page, which forgets that, also forgets the answer.
  The usage:
  `UsageAlwaysAddsUp`. `AddUp` says that the rows of a table are a partition of the requests (a
  function from the requests to rows, of which each row has its share), so that no sum has to be
  reasoned about: the grouping of the logs by key and by model yields that function at the moment it
  is made, and what is collected stays consistent on its way to the page, or is given up as a whole.
* `ConsoleProofs`, the resource pages: `RowsAreOfNamespace`, `ListsNotOlderThanReports`. Rows belong to
  the key of the cache they are stored under because a fetch keeps the namespace it asked for,
  whatever is typed meanwhile (`ContentInv`). A list is no older than a report because the
  success that is reported restarts the fetch of a list in view, and every later one reads after it
  (`FreshInv`).
* `FormsProofs`: `ReferencesWereOffered`, `NothingShownIsLost`, `NothingHiddenIsSent`, `RequestsPass`,
  for any texts, Secrets, namespaces, lists, edits and numbers of rows. Two invariants carry them.
  `EnvInv`: the variables of a template are a sequence of rows whose Secret and key come together from a
  preset or from a list that has arrived; typing another namespace changes no row, and choosing
  another Secret blanks the key. `FormInv`: the form is one of its page, its selects hold options, the
  inputs that are looked up hold a text a user can type, its lists are sequences. From that, one
  lemma per form compares the request with the screen, entry by entry. That every complete row of
  labels is spoken for although later rows overwrite earlier ones (`RowsHaveEntries`) takes the last
  row of each key, by the well-foundedness of the naturals.

`ImplementsTokenSource` is stated on the safety part of the abstract specification, so its
theorems are the whole of it.

**Model-checked only:** what rests on fairness, which is out of the prover's reach
(`StopTerminates`, `ScannersEnd`, `KeepsRestarting`, the fairness of `Supervisor` in
`ImplementsSupervisor`, `CallsReturn`, `RpcEnds`, `CallsEnd`, `DeletedLeaves`, `ServesOrExits`,
`SignalEndsProcess`, `ShownConverges`, `UsageComesBack`).

## 6. Reading a property

The properties of the console modules relate what is on show to what happened elsewhere, by
history variables that no action reads: the number of the control plane's change after which a row
was read (`at`), the latest own change that was reported where the view is fetched again for it
(`acted`, `reported`), the keys whose deletion was reported (`deleted`), whether a fetch of keys or
the list it brought is older than such a report (`old`), and whether the key on show answers the
last submission (`latest`). The properties about views are stated for the moment when no
fetch of the view is under way: while the refetch that follows an action is pending,
the page does show the old rows. `DeletedLeaves` says the same of models by liveness: a fetch that
an earlier visit began may bring a deleted model back, and the next poll takes it away for good.

The properties of `Forms` are about what a submission would send at any moment it is possible
(`WouldSend`), whether or not the user submits then: the entries of the request against the
entries the controls and rows on the screen stand for (`StandsFor`, `RowEntry`), which are written
from the screen and know nothing of `buildFormSpec`.

## 7. What is not modelled, and why

* Wording, layout, formatting, field-by-field conversions of answers, logging: data no property is about.
* HTTP routing, the SPA fallback, the embedded assets, building the kube client: no state.
* Requests in flight at shutdown: the code promises nothing for them.
* The atespace filter and worker selector of actors; nodes and pods in the overview: each is one
  read, without a second actor.
* The Workers page: one polled list, the query of the actor list without its operations.
* `routerproxy.Forward` and its handler: one request passed on and one answer, cut at a limit, without state.
* The details dialog of Secrets and templates, the paging of atespaces: reads of what is there.
* The example agent: a demonstration workload outside the console.
* The generated protobuf code, vendored UI components, manifests, images, documentation.
* The control plane, Kubernetes, LiteLLM and atenet-router themselves are not in this
  repository; they are external actions of the modules that call them.

## 8. Plan

Order of importance. The connection layer, on which every page depends, came first, with its
proofs; then the process; then the consoles.

1. Done: `PortForward`/`Supervisor`, the token modules, `RpcAuth`, `ServerLifecycle`, `GatewayAdmin`, and
   their proofs; `GatewayKeys`, `ActorConsole`, `ResourceConsole`, `Monitoring`; `Forms` and its dialogs.
2. Done: theorems for each safety property of a run, over all values of the constants.
3. One theorem for the composition: that an RPC over each of the two token providers, rather than over
   `TokenSource`, runs at most once and is retried with a newer token; and that main with the
   `PortForward` it starts, rather than a `Supervisor`, keeps its promise.
4. Wider instances where the time allows: filters, worker selector, nodes and pods, two models.
