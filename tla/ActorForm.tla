----------------------------- MODULE ActorForm ------------------------------
(***************************************************************************)
(* The Create Actor dialog (CreateActorDialog.tsx).  Its selects offer the *)
(* atespaces and the templates that two queries list, polled by other      *)
(* pages or fetched again, and it falls back to inputs while there are     *)
(* none.                                                                   *)
(***************************************************************************)
EXTENDS FormValues

CONSTANTS
  TemplateParts   \* namespace and name of each "namespace/name" of a template

CUSTOM_ATESPACE == "__custom__"
MANUAL_TEMPLATE == "__manual__"

Blank ==
  [v |-> [atespace |-> "", customAtespace |-> "", name |-> "", template |-> "",
          templateNamespace |-> "", templateName |-> ""],
   rows |-> [labels |-> <<>>]]

(* lists: the atespaces and the templates that arrived, and whether the    *)
(* latest fetch of the templates failed.                                   *)
ManualTemplate(f, lists) == lists.failed \/ f.v.template = MANUAL_TEMPLATE

CustomAtespace(f, lists) == lists.spaces = {} \/ f.v.atespace = CUSTOM_ATESPACE

(* What is on the screen.                                                  *)
Controls(f, lists) ==
  Inputs({"name"}
         \cup (IF CustomAtespace(f, lists) THEN {"customAtespace"} ELSE {})
         \cup (IF ManualTemplate(f, lists) THEN {"templateNamespace", "templateName"}
                                           ELSE {}))

Selects(f, lists) ==
  [c \in {d \in {"atespace", "template"} :
            IF d = "atespace" THEN lists.spaces # {} ELSE ~lists.failed} |->
     IF c = "atespace" THEN lists.spaces \cup {CUSTOM_ATESPACE}
     ELSE lists.templates \cup {MANUAL_TEMPLATE}]

(* Mutant: the choice counts while there is no list to choose from.        *)
ResolvedAtespaceOfChoice(f, lists) ==
  IF f.v.atespace \in {"", CUSTOM_ATESPACE} THEN f.v.customAtespace ELSE f.v.atespace

ResolvedAtespace(f, lists) ==
  IF CustomAtespace(f, lists) THEN f.v.customAtespace ELSE f.v.atespace

(* template.split("/"), of nothing if no template is chosen.               *)
ResolvedTemplate(f, lists) ==
  IF ManualTemplate(f, lists) THEN <<f.v.templateNamespace, f.v.templateName>>
  ELSE IF f.v.template = "" THEN <<"", "">> ELSE TemplateParts[f.v.template]

(* canSubmit, but for a creation that is pending.                          *)
Complete(f, lists) ==
  /\ ResolvedAtespace(f, lists) # "" /\ f.v.name # ""
  /\ \A i \in {1, 2} : ResolvedTemplate(f, lists)[i] # ""

(* handleSubmit.                                                           *)
Requests(f, lists) ==
  {{<<"atespace", ResolvedAtespace(f, lists)>>, <<"name", f.v.name>>,
    <<"actorTemplateNamespace", ResolvedTemplate(f, lists)[1]>>,
    <<"actorTemplateName", ResolvedTemplate(f, lists)[2]>>}
   \cup Entries("labels", f.rows.labels)}
=============================================================================
