----------------------------- MODULE SmallForms -----------------------------
(***************************************************************************)
(* The short forms: Create Secret (SecretsPage.tsx), Create Atespace       *)
(* (AtespacesPage.tsx) and the task panel of an actor (ActorTaskPanel.tsx).*)
(***************************************************************************)
EXTENDS FormValues

CONSTANTS
  AbsolutePaths   \* the paths of Texts that begin with "/"

BlankData == [key |-> "", value |-> ""]

(* The namespace of the page, default if that is blank; one row of data.   *)
BlankSecret ==
  [v |-> [namespace |-> "default", name |-> ""], rows |-> [data |-> <<BlankData>>]]

SecretControls == Inputs({"namespace", "name"})

CompleteSecret(f) ==
  /\ f.v.namespace # "" /\ f.v.name # ""
  /\ \E i \in 1..Len(f.rows.data) : CompleteLabel(f.rows.data[i])

SecretRequest(f) ==
  Required(f, {"namespace", "name"}) \cup Entries("data", f.rows.data)

-----------------------------------------------------------------------------
BlankAtespace == [v |-> [name |-> ""], rows |-> <<>>]
AtespaceControls == Inputs({"name"})
CompleteAtespace(f) == f.v.name # ""
AtespaceRequest(f) == Required(f, {"name"})

-----------------------------------------------------------------------------
BlankTask == [v |-> [method |-> "POST", path |-> "/ask", body |-> ""], rows |-> <<>>]

TaskControls(f) ==
  Inputs({"path"} \cup IF f.v.method = "POST" THEN {"body"} ELSE {})
TaskSelects == [method |-> {"GET", "POST"}]

NormalizedPath(path) ==
  CASE path = "" -> "/" [] path \in AbsolutePaths -> path [] OTHER -> "/" \o path

(* handleSend.                                                             *)
TaskRequest(f) ==
  {<<"method", f.v.method>>, <<"path", NormalizedPath(f.v.path)>>}
  \cup IF f.v.method = "POST" THEN Optional(f, {"body"}) ELSE {}
=============================================================================
