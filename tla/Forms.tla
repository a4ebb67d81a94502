-------------------------------- MODULE Forms --------------------------------
(***************************************************************************)
(* The forms of one console tab: from what the user fills in to what is    *)
(* sent, with the lists they offer arriving while they are filled in and   *)
(* the answers arriving while they are shown, hidden or filled in again.   *)
(* The dialogs are TemplateForm, PoolForm, ActorForm, GatewayForms and     *)
(* SmallForms; a page has one of them.                                     *)
(*                                                                         *)
(* The task panel is no dialog: its page always shows it, and Enter sends  *)
(* again while an answer is awaited.                                       *)
(***************************************************************************)
EXTENDS FormValues, FiniteSets, SequencesExt

CONSTANTS Pages, SecretsOf, TemplateParts, ModelLists, AbsolutePaths,
          PresetIds,   \* the presets the user tries
          Spaces,      \* the atespaces there may be
          MaxEdits,    \* bound on the edits of each form between two openings
          MaxRows,     \* bound on the rows of a list, for each form
          MaxWaiting   \* bound on the requests of the task panel in flight

T == INSTANCE TemplateForm
P == INSTANCE PoolForm
A == INSTANCE ActorForm
G == INSTANCE GatewayForms
S == INSTANCE SmallForms

(* Secrets are listed as pairs; the presets and forms are those there are; *)
(* the texts pasted are among the documents.  The rest is true of strings: *)
(* a numeral above zero is not blank, nor is an absolute path, and a slash *)
(* in front of a path makes another one.                                   *)
ASSUME SecretsAssumption ==
  \A ns \in DOMAIN SecretsOf : \A p \in SecretsOf[ns] : p = <<p[1], p[2]>>
ASSUME PresetsAssumption == PresetIds \subseteq DOMAIN T!Presets
ASSUME PagesAssumption ==
  Pages \subseteq {"template", "pool", "actor", "key", "model", "secret", "atespace", "task"}
ASSUME TextsAssumption == Texts["yamlText"] \subseteq DOMAIN Docs /\ "" \notin Counts
ASSUME PathsAssumption ==
  /\ "" \notin AbsolutePaths
  /\ \A path \in Texts["path"] \cup {"/ask"} : "/" \o path \notin {"", path}

VARIABLES
  page,      \* the page shown
  view,      \* what it shows: no form, the form, or the key just generated
  form,      \* the state of the form
  edits,     \* number of edits since it was last blank
  refused,   \* the message under the YAML input is shown
  lists,     \* what the queries behind the form have brought so far
  waiting,   \* the requests of this page without an answer, numbered
  latest,    \* the last of them: the one isPending is about
  outcome    \* task panel: a response is kept, an error is shown

vars == <<page, view, form, edits, refused, lists, waiting, latest, outcome>>

NoLists == [secrets |-> {}, spaces |-> {}, templates |-> {}, failed |-> FALSE]
NoOutcome == [response |-> FALSE, error |-> FALSE]

NoForm == [v |-> <<>>, rows |-> <<>>]

BlankForm(p) ==
  CASE p = "template" -> T!Blank [] p = "pool" -> P!Blank [] p = "actor" -> A!Blank
    [] p = "key" -> G!BlankKey [] p = "model" -> G!BlankModel
    [] p = "secret" -> S!BlankSecret [] p = "atespace" -> S!BlankAtespace
    [] p = "task" -> S!BlankTask [] OTHER -> NoForm

(* The inputs and the selects on the screen, with the values they take.    *)
ShownInputs ==
  CASE page = "template" -> T!Controls(form) [] page = "pool" -> P!Controls(form)
    [] page = "actor" -> A!Controls(form, lists)
    [] page = "key" -> G!KeyControls [] page = "model" -> G!ModelControls(form)
    [] page = "secret" -> S!SecretControls [] page = "atespace" -> S!AtespaceControls
    [] page = "task" -> S!TaskControls(form) [] OTHER -> <<>>

ShownSelects ==
  CASE page = "template" -> T!Selects(form) [] page = "pool" -> P!Selects
    [] page = "actor" -> A!Selects(form, lists) [] page = "key" -> G!KeySelects
    [] page = "task" -> S!TaskSelects [] OTHER -> <<>>

RowLists ==
  CASE page = "template" -> T!RowLists(form) [] page = "pool" -> P!RowLists(form)
    [] page = "actor" -> {"labels"} [] page = "secret" -> {"data"} [] OTHER -> {}

Complete ==
  CASE page = "template" -> T!Complete(form) [] page = "pool" -> P!Complete(form)
    [] page = "actor" -> A!Complete(form, lists)
    [] page = "key" -> G!CompleteKey(form) [] page = "model" -> G!CompleteModel(form)
    [] page = "secret" -> S!CompleteSecret(form)
    [] page = "atespace" -> S!CompleteAtespace(form) [] page = "task" -> TRUE

(* What a submission sends: one request, or none if a document is refused. *)
Outgoing ==
  CASE page = "template" -> T!Requests(form) [] page = "pool" -> P!Requests(form)
    [] page = "actor" -> A!Requests(form, lists)
    [] page = "key" -> {G!KeyRequest(form)} [] page = "model" -> {G!ModelRequest(form)}
    [] page = "secret" -> {S!SecretRequest(form)}
    [] page = "atespace" -> {S!AtespaceRequest(form)} [] page = "task" -> {S!TaskRequest(form)}

IsPending == latest \in waiting

-----------------------------------------------------------------------------
Fresh(p) ==
  /\ page' = p /\ view' = IF p = "task" THEN "form" ELSE "closed"
  /\ form' = BlankForm(p) /\ edits' = 0 /\ refused' = FALSE
  /\ lists' = NoLists /\ waiting' = {} /\ latest' = 1 /\ outcome' = NoOutcome

Init ==
  /\ page = "other" /\ view = "closed" /\ form = NoForm
  /\ edits = 0 /\ refused = FALSE /\ lists = NoLists
  /\ waiting = {} /\ latest = 1 /\ outcome = NoOutcome

(* A page is mounted with its form.                                        *)
Visit(p) == page = "other" /\ Fresh(p)

(* It is left, for a page without a form: nothing of it stays, and nobody  *)
(* awaits the answers any more.  Going on to the next form is a Visit.     *)
Leave == page # "other" /\ Fresh("other")

(* The reset effect; the name of an atespace stays.                        *)
Open ==
  /\ page \notin {"task", "other"} /\ view = "closed"
  /\ view' = "form" /\ edits' = 0 /\ refused' = FALSE
  /\ form' = IF page = "atespace" THEN form ELSE BlankForm(page)
  /\ UNCHANGED <<page, lists, waiting, latest, outcome>>

(* Nothing reads a form that is hidden: it is blank from here on, and not  *)
(* from the next opening, except for the name of an atespace.              *)
Hidden == /\ view' = "closed"
          /\ form' = IF page = "atespace" THEN form ELSE BlankForm(page)

(* Cancel, Done, Escape or a click outside.                                *)
Close ==
  /\ page # "task" /\ view # "closed"
  /\ Hidden
  /\ UNCHANGED <<page, edits, refused, lists, waiting, latest, outcome>>

Edited(f) ==
  /\ view = "form" /\ edits < MaxEdits[page] /\ f # form
  /\ form' = f /\ edits' = edits + 1
  /\ UNCHANGED <<page, view, lists, waiting, latest, outcome>>

Type(c, value) ==
  /\ Edited([form EXCEPT !.v[c] = value])
  /\ refused' = (refused /\ c # "yamlText")

Choose(c, value) ==
  /\ Edited([form EXCEPT !.v[c] = value])
  /\ UNCHANGED refused

ApplyPreset(id) ==
  /\ page = "template" /\ id # form.v.presetId
  /\ Edited(T!ApplyPreset(form, id))
  /\ UNCHANGED refused

ApplyProvider(id) ==
  /\ page = "model" /\ id # form.v.provider
  /\ Edited(G!ApplyProvider(form, id))
  /\ UNCHANGED refused

BlankRow(list) ==
  CASE list = "env" -> T!BlankEnv [] list = "volumes" -> T!BlankVolume
    [] list = "data" -> S!BlankData [] OTHER -> BlankLabel

RowControls(list, row) ==
  CASE list = "env" -> T!EnvControls(form, row, lists.secrets)
    [] list = "volumes" -> [name |-> Texts["volumes"] \cup {""}, durableDir |-> BOOLEAN]
    [] OTHER -> [key |-> Texts["key"] \cup {""}, value |-> Texts["value"] \cup {""}]

AddRow(list) ==
  /\ Len(form.rows[list]) < MaxRows[page]
  /\ Edited([form EXCEPT !.rows[list] = Append(@, BlankRow(list))])
  /\ UNCHANGED refused

EditRow(list, i, field, value) ==
  /\ form.rows[list][i][field] # value
  /\ Edited([form EXCEPT !.rows[list][i] =
                IF list = "env" THEN T!UpdateEnv(@, field, value)
                ELSE [@ EXCEPT ![field] = value]])
  /\ UNCHANGED refused

(* A Secret keeps at least one row.                                        *)
RemoveRow(list, i) ==
  /\ list = "data" => Len(form.rows[list]) > 1
  /\ Edited([form EXCEPT !.rows[list] = RemoveAt(@, i)])
  /\ UNCHANGED refused

-----------------------------------------------------------------------------
(* The request a submission starts; the task panel, where it may be one of *)
(* several, hides the error before it.                                     *)
Sending ==
  /\ Cardinality(waiting) < MaxWaiting
  /\ latest' = Min((1..MaxWaiting) \ waiting)
  /\ waiting' = waiting \cup {latest'}
  /\ outcome' = [outcome EXCEPT !.error = FALSE]

(* handleSubmit: a document that is refused is marked, anything else sent. *)
Submit ==
  /\ page # "task" /\ view = "form" /\ Complete /\ ~IsPending
  /\ IF Outgoing = {} THEN refused' = TRUE /\ UNCHANGED <<waiting, latest, outcome>>
                      ELSE Sending /\ UNCHANGED refused
  /\ UNCHANGED <<page, view, form, edits, lists>>

(* The Send button is disabled while the latest request is pending, Enter  *)
(* in the path is not.                                                     *)
SendTask ==
  /\ page = "task"
  /\ Sending
  /\ UNCHANGED <<page, view, form, edits, refused, lists>>

(* onSuccess: a dialog is closed, whatever it shows by now; the key that   *)
(* was generated replaces its form; a task's response its error.           *)
Succeeds(n) ==
  /\ n \in waiting /\ waiting' = waiting \ {n}
  /\ CASE page = "task" -> /\ outcome' = [response |-> TRUE, error |-> FALSE]
                           /\ UNCHANGED <<view, form>>
       [] page = "key" -> /\ view' = IF view = "form" THEN "key" ELSE view
                          /\ UNCHANGED <<form, outcome>>
       [] page = "atespace" -> view' = "closed" /\ form' = BlankForm(page) /\ UNCHANGED outcome
       [] OTHER -> Hidden /\ UNCHANGED outcome
  /\ UNCHANGED <<page, edits, refused, lists, latest>>

(* onError: a toast, and in the task panel a message; the form stays.      *)
Fails(n) ==
  /\ n \in waiting /\ waiting' = waiting \ {n}
  /\ outcome' = [outcome EXCEPT !.error = (page = "task")]
  /\ UNCHANGED <<page, view, form, edits, refused, lists, latest>>

-----------------------------------------------------------------------------
(* The lists behind the forms.  A fetch that fails brings nothing, except  *)
(* that the templates are then typed by hand.                              *)
Listed(l) == /\ l # lists /\ lists' = l
             /\ UNCHANGED <<page, view, form, edits, refused, waiting, latest, outcome>>

SecretsArrive ==
  /\ page = "template" /\ view = "form" /\ form.v.namespace \in DOMAIN SecretsOf
  /\ Listed([lists EXCEPT !.secrets = @ \cup {form.v.namespace}])

SpacesArrive(names) == page = "actor" /\ Listed([lists EXCEPT !.spaces = names])

TemplatesArrive(names) ==
  page = "actor" /\ Listed([lists EXCEPT !.templates = names, !.failed = FALSE])

TemplatesFail == page = "actor" /\ Listed([lists EXCEPT !.failed = TRUE])

EditAnyRow ==
  \E list \in RowLists :
    \/ AddRow(list)
    \/ \E i \in 1..Len(form.rows[list]) :
         \/ RemoveRow(list, i)
         \/ LET controls == RowControls(list, form.rows[list][i])
            IN \E field \in DOMAIN controls : \E value \in controls[field] :
                 EditRow(list, i, field, value)

Edit ==
  \/ \E c \in DOMAIN ShownInputs : \E value \in ShownInputs[c] : Type(c, value)
  \/ \E c \in DOMAIN ShownSelects : \E value \in ShownSelects[c] : Choose(c, value)
  \/ \E id \in PresetIds : ApplyPreset(id)
  \/ \E id \in DOMAIN G!ProviderPrefix : ApplyProvider(id)
  \/ EditAnyRow

ListsMove ==
  \/ SecretsArrive \/ TemplatesFail
  \/ \E names \in SUBSET Spaces : SpacesArrive(names)
  \/ \E names \in SUBSET DOMAIN TemplateParts : TemplatesArrive(names)

Next ==
  \/ \E p \in Pages : Visit(p)
  \/ Leave \/ Open \/ Close \/ Edit \/ Submit \/ SendTask \/ ListsMove
  \/ \E n \in 1..MaxWaiting : Succeeds(n) \/ Fails(n)

Spec == Init /\ [][Next]_vars
-----------------------------------------------------------------------------
WouldSend == view = "form" /\ Complete

(* A control that is blank or makes no difference to the request.          *)
SaysNothing(c) ==
  \/ c \in {"mode", "provider"}
  \/ c \notin {"path", "prefix", "model"} /\ form.v[c] = ""
  \/ c = "template" /\ form.v[c] = A!MANUAL_TEMPLATE
  \/ c = "atespace" /\ form.v[c] = A!CUSTOM_ATESPACE
  \/ c = "duration" /\ form.v[c] = G!NO_EXPIRY

(* The entries of a request a control on the screen stands for.            *)
StandsFor(c) ==
  LET value == form.v[c] IN
  IF SaysNothing(c) THEN {} ELSE
  CASE c = "path" -> {<<"path", S!NormalizedPath(value)>>}
    [] c \in {"prefix", "model"} -> {<<"model", form.v.prefix, form.v.model>>}
    [] c = "customAtespace" -> {<<"atespace", value>>}
    [] c = "templateNamespace" -> {<<"actorTemplateNamespace", value>>}
    [] c = "templateName" -> {<<"actorTemplateName", value>>}
    [] c = "template" -> {<<"actorTemplateNamespace", TemplateParts[value][1]>>,
                          <<"actorTemplateName", TemplateParts[value][2]>>}
    [] c = "models" -> {<<"models", m>> : m \in ModelLists[value]}
    [] c = "yamlText" -> {<<"spec", value>>}
    [] OTHER -> {<<c, value>>}

(* A select whose value is not among its options shows nothing.            *)
ShownControls ==
  DOMAIN ShownInputs \cup {c \in DOMAIN ShownSelects : form.v[c] \in ShownSelects[c]}

(* A row that has all it needs, and the entry it stands for.               *)
RowEntry(list, row) ==
  CASE list = "env" -> IF row.name = "" THEN {}
                       ELSE IF row.mode = "literal" THEN {<<"env", row.name, row.value>>}
                       ELSE IF row.secretName = "" \/ row.secretKey = "" THEN {}
                       ELSE {<<"envRef", row.name, row.secretName, row.secretKey>>}
    [] list = "volumes" -> IF row.name = "" THEN {} ELSE {<<list, row.name, row.durableDir>>}
    [] OTHER -> IF row.key = "" \/ row.value = "" THEN {} ELSE {<<list, row.key, row.value>>}

RowEntries(list) ==
  UNION {RowEntry(list, form.rows[list][i]) : i \in 1..Len(form.rows[list])}

(* Everything on the screen that can be sent is in the request: no field   *)
(* is lost to a test of another one, no row to a test of its list, and a   *)
(* key with two values is sent with one.  Not sent are half a probe, a port*)
(* that is no number (null is sent for it), a budget that is no number     *)
(* above zero, and the namespace and name a manifest overrides             *)
(* (CreateTemplateDialog.tsx:160-246,                                      *)
(* CreatePoolDialog.tsx:106-142, CreateActorDialog.tsx:108-145).           *)
ShownIsSent ==
  WouldSend => \A r \in Outgoing :
    /\ \A c \in ShownControls :
         \/ StandsFor(c) \subseteq r
         \/ c \in {"readyzPath", "readyzPort"}
              /\ (form.v.readyzPath = "" \/ form.v.readyzPort = "")
         \/ c = "readyzPort" /\ form.v[c] \notin Numbers
         \/ c = "maxBudget" /\ form.v[c] \notin Counts
         \/ c \in {"namespace", "name"} /\ form.v.mode = "yaml"
    /\ \A list \in RowLists : \A e \in RowEntries(list) :
         e \in r \/ (list # "env" /\ \E other \in RowEntries(list) :
                      other # e /\ other \in r /\ other[2] = e[2])

(* Nothing is sent that is not on the screen: nothing of the other tab, of *)
(* an input that is not displayed, or of a list that is gone.  The known   *)
(* exceptions are a selection the list no longer holds, the API base of a  *)
(* provider chosen before and the null for a port that is no number        *)
(* (CreateActorDialog.tsx:108-145, RegisterModelDialog.tsx:78-105,         *)
(* CreateTemplateDialog.tsx:199-206).                                      *)
SentIsShown ==
  WouldSend => \A r \in Outgoing : \A e \in r :
    \/ \E c \in ShownControls : e \in StandsFor(c)
    \/ \E list \in RowLists : e \in RowEntries(list)
    \/ "mode" \in DOMAIN form.v /\ form.v.mode = "yaml"
         /\ LET doc == Docs[form.v.yamlText]
            IN e \in {<<"namespace", doc.namespace>>, <<"name", doc.name>>}
                 \cup {<<"labels", l[1], l[2]>> : l \in doc.labels}
    \/ \E c \in DOMAIN ShownSelects \ ShownControls : e \in StandsFor(c)
    \/ page = "model" /\ e = <<"apiBase", form.v.apiBase>>
    \/ page = "template" /\ form.v.readyzPort \notin Numbers /\ e = <<"readyzPort", "null">>

(* The Secret and the key a variable refers to were offered together by a  *)
(* list the dialog had, or come with a preset: changing the Secret, the    *)
(* namespace or the mode leaves no key of another Secret behind            *)
(* (CreateTemplateDialog.tsx:150-158, 448-524).                            *)
RefsWereOffered ==
  page = "template" => \A i \in 1..Len(form.rows.env) :
    LET row == form.rows.env[i]
    IN row.secretName # "" /\ row.secretKey # "" =>
         <<row.secretName, row.secretKey>> \in
            T!PresetRefs \cup UNION {SecretsOf[ns] : ns \in lists.secrets}

(* What the handlers ask of a request before they act on it.               *)
HasText(r, fields) == \A field \in fields : \E e \in r : e[1] = field /\ e[2] # ""

Accepted(r) ==
  CASE page \in {"template", "pool"} -> /\ HasText(r, {"namespace", "name"})
                                        /\ \A e \in r : e[1] = "spec" => Docs[e[2]].spec = "some"
    [] page = "secret" -> HasText(r, {"namespace", "name"}) /\ \E e \in r : e[1] = "data"
    [] page = "actor" -> HasText(r, {"atespace", "name"})
    [] page = "atespace" -> HasText(r, {"name"})
    [] page = "key" -> HasText(r, {"keyAlias"})
    [] page = "model" -> /\ HasText(r, {"modelName", "apiKey"})
                         /\ \E e \in r : e[1] = "model" /\ (e[2] # "" \/ e[3] # "")
    [] page = "task" -> /\ <<"path", form.v.path>> \in r => form.v.path \in AbsolutePaths
                        /\ HasText(r, {"method", "path"})

(* What the forms let through passes the checks of the handlers: a 400     *)
(* tells of nothing the form could have said.  The exception is a document *)
(* whose spec is empty or a list (server.go:176-606, k8s.ts:16-46).        *)
PassesServerChecks ==
  WouldSend => \A r \in Outgoing :
    \/ Accepted(r)
    \/ \E e \in r : e[1] = "spec" /\ Docs[e[2]].spec \in {"empty", "list"}
=============================================================================
