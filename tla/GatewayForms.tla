---------------------------- MODULE GatewayForms ----------------------------
(***************************************************************************)
(* Two dialogs of the Gateway page: Generate Key (GenerateKeyDialog.tsx,   *)
(* the form before the key is there) and Register Model                    *)
(* (RegisterModelDialog.tsx).                                              *)
(***************************************************************************)
EXTENDS FormValues

CONSTANTS
  ModelLists   \* the models each text of the models input names

NO_EXPIRY == "none"

BlankKey ==
  [v |-> [keyAlias |-> "", duration |-> NO_EXPIRY, models |-> "", maxBudget |-> ""],
   rows |-> <<>>]

KeyControls == Inputs({"keyAlias", "models", "maxBudget"})
KeySelects == [duration |-> {"24h", "7d", "30d", NO_EXPIRY}]

CompleteKey(f) == f.v.keyAlias # ""

(* models.split(","), its blank items dropped.                             *)
ModelEntries(text) ==
  IF text = "" THEN {} ELSE {<<"models", m>> : m \in ModelLists[text]}

(* handleGenerate: a budget that is no number above zero, 0.5 being one, is*)
(* left out.                                                               *)
KeyRequest(f) ==
  {<<"keyAlias", f.v.keyAlias>>}
  \cup (IF f.v.duration = NO_EXPIRY THEN {} ELSE {<<"duration", f.v.duration>>})
  \cup ModelEntries(f.v.models)
  \cup (IF f.v.maxBudget \in Counts THEN {<<"maxBudget", f.v.maxBudget>>} ELSE {})

-----------------------------------------------------------------------------
(* The model input holds "prefix/rest"; prefix is what stands before its   *)
(* first slash, the slash included.                                        *)
ProviderPrefix ==
  [anthropic |-> "anthropic/", openai |-> "openai/", gemini |-> "gemini/",
   deepseek |-> "deepseek/", compatible |-> ""]

BlankModel ==
  [v |-> [modelName |-> "", provider |-> "anthropic", prefix |-> "anthropic/",
          model |-> "", apiKey |-> "", apiBase |-> ""],
   rows |-> <<>>]

(* What is on the screen.                                                  *)
ModelControls(f) ==
  Inputs({"modelName", "prefix", "model", "apiKey"}
         \cup IF f.v.provider = "compatible" THEN {"apiBase"} ELSE {})

(* applyProvider: only the prefix is rewritten.                            *)
ApplyProvider(f, id) ==
  [f EXCEPT !.v.provider = id, !.v.prefix = ProviderPrefix[id]]

CompleteModel(f) ==
  /\ f.v.modelName # "" /\ (f.v.prefix # "" \/ f.v.model # "") /\ f.v.apiKey # ""
  /\ f.v.provider = "compatible" => f.v.apiBase # ""

(* handleSubmit: the API base is sent whatever the provider is by now.     *)
ModelRequest(f) ==
  Required(f, {"modelName", "apiKey"}) \cup {<<"model", f.v.prefix, f.v.model>>}
  \cup Optional(f, {"apiBase"})
=============================================================================
