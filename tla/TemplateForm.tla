---------------------------- MODULE TemplateForm ----------------------------
(***************************************************************************)
(* The Create Template dialog (CreateTemplateDialog.tsx): what it shows,   *)
(* when it can be submitted and the request it sends.  loaded is the set   *)
(* of namespaces whose Secrets have arrived.                               *)
(***************************************************************************)
EXTENDS FormValues

CONSTANTS
  SecretsOf   \* the <<secret, key>> pairs of each namespace

Pinned == "pinned"   \* PINNED_PAUSE_IMAGE

BlankEnv == [name |-> "", mode |-> "literal", value |-> "",
             secretName |-> "", secretKey |-> ""]
BlankVolume == [name |-> "", durableDir |-> TRUE]

Blank ==
  [v |-> [presetId |-> "blank", mode |-> "form", namespace |-> "", name |-> "",
          pauseImage |-> Pinned, sandboxClass |-> "", containerName |-> "",
          containerImage |-> "", containerCommand |-> "", readyzPath |-> "",
          readyzPort |-> "", onPause |-> "Full", onCommit |-> "Full",
          location |-> "", yamlText |-> ""],
   rows |-> [env |-> <<>>, labels |-> <<>>, volumes |-> <<>>]]

-----------------------------------------------------------------------------
(* Presets (lib/presets.ts); the last three variables, literals like the   *)
(* second, are left out.                                                   *)
Preset(container, apiKey, baseUrl, workload) ==
  [containerName |-> container,
   env |-> <<[BlankEnv EXCEPT !.name = apiKey, !.mode = "secret",
                              !.secretName = "litellm-key", !.secretKey = "api-key"],
             [BlankEnv EXCEPT !.name = baseUrl, !.value = "http://litellm.litellm.svc:4000"]>>,
   labels |-> <<[key |-> "workload", value |-> workload]>>]

Presets ==
  [blank |-> [containerName |-> "", env |-> <<>>, labels |-> <<>>],
   claude_code |-> Preset("claude", "ANTHROPIC_API_KEY", "ANTHROPIC_BASE_URL",
                          "claude-multiplex"),
   codex |-> Preset("codex", "OPENAI_API_KEY", "OPENAI_BASE_URL", "codex")]

PresetRefs == {<<row.secretName, row.secretKey>> : row \in
                 {Presets[id].env[1] : id \in DOMAIN Presets \ {"blank"}}}

(* applyPreset: back to the form, the container, the probe, the variables  *)
(* and the labels replaced; the rest of the form stays.                    *)
ApplyPreset(f, id) ==
  [v |-> [f.v EXCEPT !.presetId = id, !.mode = "form",
                     !.containerName = Presets[id].containerName,
                     !.containerImage = "", !.containerCommand = "",
                     !.readyzPath = "", !.readyzPort = ""],
   rows |-> [f.rows EXCEPT !.env = Presets[id].env, !.labels = Presets[id].labels]]

-----------------------------------------------------------------------------
(* What is on the screen: the fields above the tabs, and those of the      *)
(* chosen tab.                                                             *)
Controls(f) ==
  IF f.v.mode = "form"
  THEN Inputs({"namespace", "name", "pauseImage", "sandboxClass", "containerName",
               "containerImage", "containerCommand", "readyzPath", "readyzPort",
               "location"})
  ELSE Inputs({"namespace", "name", "yamlText"})

Selects(f) ==
  IF f.v.mode = "form"
  THEN [mode |-> {"form", "yaml"}, onPause |-> {"Full", "Data"}, onCommit |-> {"Full", "Data"}]
  ELSE [mode |-> {"form", "yaml"}]

RowLists(f) == IF f.v.mode = "form" THEN {"env", "labels", "volumes"} ELSE {}

(* secrets: those of the namespace in the form, once they are there.       *)
Secrets(f, loaded) ==
  IF f.v.namespace \in loaded THEN SecretsOf[f.v.namespace] ELSE {}

SecretKeys(f, loaded, secretName) ==
  {pair[2] : pair \in {p \in Secrets(f, loaded) : p[1] = secretName}}

(* A variable shows a value, or a Secret and a key of it.                  *)
EnvControls(f, row, loaded) ==
  LET names == Texts["env.name"] \cup {""}
      modes == {"literal", "secret"}
  IN IF row.mode = "literal"
     THEN [name |-> names, mode |-> modes, value |-> Texts["env.value"] \cup {""}]
     ELSE [name |-> names, mode |-> modes,
           secretName |-> {p[1] : p \in Secrets(f, loaded)},
           secretKey |-> SecretKeys(f, loaded, row.secretName)]

(* Mutant: the key of another Secret is kept.                              *)
UpdateEnvKeepingKey(row, field, value) == [row EXCEPT ![field] = value]

(* updateEnv: choosing a Secret forgets the key of the one before.         *)
UpdateEnv(row, field, value) ==
  IF field = "secretName" THEN [row EXCEPT !.secretName = value, !.secretKey = ""]
  ELSE [row EXCEPT ![field] = value]

-----------------------------------------------------------------------------
(* Mutant: variables do not make a container.                              *)
ContainerTouchedByFields(f) ==
  \E c \in {"containerName", "containerImage", "containerCommand",
            "readyzPath", "readyzPort"} : f.v[c] # ""

ContainerTouched(f) ==
  \/ \E c \in {"containerName", "containerImage", "containerCommand",
               "readyzPath", "readyzPort"} : f.v[c] # ""
  \/ \E i \in 1..Len(f.rows.env) : f.rows.env[i].name # ""

(* canSubmit, but for a creation that is pending.                          *)
Complete(f) ==
  /\ f.v.namespace # "" /\ f.v.name # ""
  /\ IF f.v.mode = "yaml" THEN f.v.yamlText # ""
     ELSE /\ f.v.pauseImage # "" /\ f.v.location # ""
          /\ ContainerTouched(f) => f.v.containerName # "" /\ f.v.containerImage # ""

CompleteEnv(row) ==
  row.name # "" /\ (row.mode = "literal" \/ (row.secretName # "" /\ row.secretKey # ""))

EnvEntry(row) ==
  IF row.mode = "literal" THEN <<"env", row.name, row.value>>
  ELSE <<"envRef", row.name, row.secretName, row.secretKey>>

Readyz(f) ==
  IF f.v.readyzPath # "" /\ f.v.readyzPort # ""
  THEN {<<"readyzPath", f.v.readyzPath>>, <<"readyzPort", Number(f.v.readyzPort)>>}
  ELSE {}

Container(f) ==
  Required(f, {"containerName", "containerImage"}) \cup Optional(f, {"containerCommand"})
  \cup Readyz(f)
  \cup {EnvEntry(f.rows.env[i]) : i \in {j \in 1..Len(f.rows.env) : CompleteEnv(f.rows.env[j])}}

Volumes(f) ==
  {<<"volumes", f.rows.volumes[i].name, f.rows.volumes[i].durableDir>> :
     i \in {j \in 1..Len(f.rows.volumes) : f.rows.volumes[j].name # ""}}

(* buildFormSpec, with the namespace and the name beside it.               *)
FormRequest(f) ==
  Required(f, {"namespace", "name", "pauseImage", "onPause", "onCommit", "location"})
  \cup Optional(f, {"sandboxClass"})
  \cup (IF ContainerTouched(f) THEN Container(f) ELSE {})
  \cup Entries("labels", f.rows.labels)
  \cup Volumes(f)

(* handleSubmit: the request, or none if the document is refused.          *)
Requests(f) == IF f.v.mode = "yaml" THEN Manifest(f) ELSE {FormRequest(f)}
=============================================================================
