------------------------------ MODULE PoolForm ------------------------------
(***************************************************************************)
(* The Create Pool dialog (CreatePoolDialog.tsx): what it shows, when it   *)
(* can be submitted and the request it sends.                              *)
(***************************************************************************)
EXTENDS FormValues

Resources == {"requestsCpu", "requestsMemory", "limitsCpu", "limitsMemory"}

Blank ==
  [v |-> [mode |-> "form", namespace |-> "", name |-> "", replicas |-> "2",
          ateomImage |-> "", sandboxClass |-> "", sandboxConfigName |-> "",
          requestsCpu |-> "", requestsMemory |-> "", limitsCpu |-> "",
          limitsMemory |-> "", yamlText |-> ""],
   rows |-> [labels |-> <<>>, nodeSelector |-> <<>>]]

(* What is on the screen.                                                  *)
Controls(f) ==
  IF f.v.mode = "form"
  THEN Inputs({"namespace", "name", "replicas", "ateomImage", "sandboxClass",
               "sandboxConfigName"} \cup Resources)
  ELSE Inputs({"namespace", "name", "yamlText"})

Selects == [mode |-> {"form", "yaml"}]

RowLists(f) == IF f.v.mode = "form" THEN {"labels", "nodeSelector"} ELSE {}

(* canSubmit, but for a creation that is pending; a pool has at least one  *)
(* worker.                                                                 *)
Complete(f) ==
  /\ f.v.namespace # "" /\ f.v.name # ""
  /\ IF f.v.mode = "yaml" THEN f.v.yamlText # ""
     ELSE f.v.ateomImage # "" /\ f.v.replicas \in Counts

(* buildFormSpec, with the namespace, the name and the labels beside it.   *)
FormRequest(f) ==
  Required(f, {"namespace", "name", "ateomImage", "replicas"})
  \cup Optional(f, {"sandboxClass", "sandboxConfigName"} \cup Resources)
  \cup Entries("labels", f.rows.labels)
  \cup Entries("nodeSelector", f.rows.nodeSelector)

(* handleSubmit: the request, or none if the document is refused.  The     *)
(* labels of a manifest go with its spec, those of the form's rows do not. *)
Requests(f) ==
  IF f.v.mode = "yaml"
  THEN {r \cup {<<"labels", l[1], l[2]>> : l \in Docs[f.v.yamlText].labels} :
          r \in Manifest(f)}
  ELSE {FormRequest(f)}
=============================================================================
