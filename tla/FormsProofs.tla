----------------------------- MODULE FormsProofs -----------------------------
(***************************************************************************)
(* What the forms send, for any texts, Secrets, templates, presets, number *)
(* of edits and rows, and whatever else the tab shows before: everything   *)
(* on the screen is sent, nothing else is, and the handlers accept it.     *)
(* First, the variables of a new template refer to Secrets and keys the    *)
(* user was offered.                                                       *)
(***************************************************************************)
EXTENDS Forms, SequenceTheorems, WellFoundedInduction, TLAPS

EnvFields == {"name", "mode", "value", "secretName", "secretKey"}
Pairs == UNION {SecretsOf[ns] : ns \in DOMAIN SecretsOf}
PresetTexts == {"litellm-key", "api-key", "http://litellm.litellm.svc:4000",
                "ANTHROPIC_API_KEY", "ANTHROPIC_BASE_URL",
                "OPENAI_API_KEY", "OPENAI_BASE_URL"}
EnvValues == {"", "literal", "secret"} \cup PresetTexts
             \cup Texts["env.name"] \cup Texts["env.value"]
             \cup {p[1] : p \in Pairs} \cup {p[2] : p \in Pairs}
EnvRows == [name : EnvValues, mode : EnvValues, value : EnvValues,
            secretName : EnvValues, secretKey : EnvValues]

(* A variable with a Secret and a key of it: they were offered together.     *)
Offered(row, loaded) ==
  row.secretName # "" /\ row.secretKey # "" =>
    <<row.secretName, row.secretKey>> \in
      T!PresetRefs \cup UNION {SecretsOf[ns] : ns \in loaded}

OfferedRows(loaded) == {row \in EnvRows : Offered(row, loaded)}

EnvOK(f, loaded) ==
  /\ DOMAIN f = {"v", "rows"} /\ DOMAIN f.rows = {"env", "labels", "volumes"}
  /\ f.rows.env \in Seq(OfferedRows(loaded))

EnvInv ==
  /\ DOMAIN lists = {"secrets", "spaces", "templates", "failed"}
  /\ lists.secrets \subseteq DOMAIN SecretsOf
  /\ page = "template" => EnvOK(form, lists.secrets)

-----------------------------------------------------------------------------
LEMMA BlankOK == \A loaded : EnvOK(T!Blank, loaded)
<1>1. T!Blank.rows.env = <<>> /\ DOMAIN T!Blank = {"v", "rows"}
      /\ DOMAIN T!Blank.rows = {"env", "labels", "volumes"}
  BY DEF T!Blank
<1>. QED
  BY <1>1 DEF EnvOK

LEMMA BlankEnvOK == \A loaded : T!BlankEnv \in OfferedRows(loaded)
BY DEF OfferedRows, T!BlankEnv, EnvRows, EnvFields, EnvValues, Offered

(* What a preset brings is a reference of a preset.                          *)
LEMMA PresetsOK ==
  ASSUME NEW id \in DOMAIN T!Presets, NEW loaded
  PROVE  T!Presets[id].env \in Seq(OfferedRows(loaded))
<1>. DEFINE
  Ref(name) == [T!BlankEnv EXCEPT !.name = name, !.mode = "secret",
                  !.secretName = "litellm-key", !.secretKey = "api-key"]
  Url(name) == [T!BlankEnv EXCEPT !.name = name,
                                  !.value = "http://litellm.litellm.svc:4000"]
<1>1. DOMAIN T!Presets = {"blank", "claude_code", "codex"}
  BY DEF T!Presets
<1>2. /\ T!Presets["blank"].env = <<>>
      /\ T!Presets["claude_code"].env = <<Ref("ANTHROPIC_API_KEY"), Url("ANTHROPIC_BASE_URL")>>
      /\ T!Presets["codex"].env = <<Ref("OPENAI_API_KEY"), Url("OPENAI_BASE_URL")>>
  BY DEF T!Presets, T!Preset
<1>3. \A name \in PresetTexts :
        /\ Ref(name) \in EnvRows /\ Url(name) \in EnvRows
        /\ Ref(name).secretName = "litellm-key" /\ Ref(name).secretKey = "api-key"
        /\ Url(name).secretName = ""
  BY DEF T!BlankEnv, EnvRows, EnvFields, EnvValues, PresetTexts
<1>4. <<"litellm-key", "api-key">> \in T!PresetRefs
  <2>1. T!Presets["codex"].env[1] = Ref("OPENAI_API_KEY")
    BY <1>2
  <2>2. "codex" \in DOMAIN T!Presets \ {"blank"}
    BY <1>1
  <2>3. Ref("OPENAI_API_KEY") \in {T!Presets[i].env[1] : i \in DOMAIN T!Presets \ {"blank"}}
    BY <2>1, <2>2
  <2>4. /\ Ref("OPENAI_API_KEY").secretName = "litellm-key"
        /\ Ref("OPENAI_API_KEY").secretKey = "api-key"
    BY <1>3 DEF PresetTexts
  <2>. HIDE DEF Ref
  <2>. QED
    BY <2>3, <2>4 DEF T!PresetRefs
<1>. HIDE DEF Ref, Url
<1>5. \A name \in PresetTexts :
        Ref(name) \in OfferedRows(loaded) /\ Url(name) \in OfferedRows(loaded)
  BY <1>3, <1>4 DEF Offered, OfferedRows
<1>6. CASE id = "blank"
  <2>1. T!Presets[id].env = <<>>
    BY <1>2, <1>6
  <2>. QED
    BY <2>1
<1>7. CASE id # "blank"
  <2>1. PICK m, n \in PresetTexts : T!Presets[id].env = <<Ref(m), Url(n)>>
    BY <1>1, <1>2, <1>7 DEF PresetTexts
  <2>2. Ref(m) \in OfferedRows(loaded) /\ Url(n) \in OfferedRows(loaded)
    BY <1>5
  <2>. QED
    BY <2>1, <2>2
<1>. QED
  BY <1>6, <1>7

(* What the controls of a variable offer: a key only of the Secret that is   *)
(* chosen, in the namespace that is filled in.                               *)
LEMMA EnvControlsOffer ==
  ASSUME NEW f, NEW row \in EnvRows, NEW loaded \in SUBSET DOMAIN SecretsOf,
         NEW field \in DOMAIN T!EnvControls(f, row, loaded),
         NEW value \in T!EnvControls(f, row, loaded)[field]
  PROVE  /\ field \in EnvFields /\ value \in EnvValues
         /\ field = "secretKey" =>
              <<row.secretName, value>> \in UNION {SecretsOf[ns] : ns \in loaded}
<1>. DEFINE controls == T!EnvControls(f, row, loaded)
            names == Texts["env.name"] \cup {""}
            modes == {"literal", "secret"}
            values == Texts["env.value"] \cup {""}
            secrets == {p[1] : p \in T!Secrets(f, loaded)}
            keys == T!SecretKeys(f, loaded, row.secretName)
<1>1. \/ controls = [name |-> names, mode |-> modes, value |-> values]
      \/ controls = [name |-> names, mode |-> modes, secretName |-> secrets, secretKey |-> keys]
  BY DEF T!EnvControls
<1>2. field \in DOMAIN controls /\ value \in controls[field]
  OBVIOUS
<1>3. \/ field = "name" /\ value \in names
      \/ field = "mode" /\ value \in modes
      \/ field = "value" /\ value \in values
      \/ field = "secretName" /\ value \in secrets
      \/ field = "secretKey" /\ value \in keys
  <2>. HIDE DEF controls, names, modes, values, secrets, keys
  <2>1. CASE controls = [name |-> names, mode |-> modes, value |-> values]
    BY <1>2, <2>1
  <2>2. CASE controls = [name |-> names, mode |-> modes,
                         secretName |-> secrets, secretKey |-> keys]
    BY <1>2, <2>2
  <2>. QED
    BY <1>1, <2>1, <2>2
<1>4. \A p \in T!Secrets(f, loaded) :
        p \in Pairs /\ p = <<p[1], p[2]>> /\ p \in UNION {SecretsOf[ns] : ns \in loaded}
  BY SecretsAssumption DEF T!Secrets, Pairs
<1>5. CASE field \in {"name", "mode", "value"}
  BY <1>3, <1>5 DEF EnvFields, EnvValues
<1>6. CASE field = "secretName"
  BY <1>3, <1>4, <1>6 DEF EnvFields, EnvValues
<1>7. CASE field = "secretKey"
  <2>1. PICK p \in T!Secrets(f, loaded) : p[1] = row.secretName /\ p[2] = value
    BY <1>3, <1>7 DEF T!SecretKeys
  <2>. QED
    BY <1>4, <1>7, <2>1 DEF EnvFields, EnvValues
<1>. QED
  BY <1>3, <1>5, <1>6, <1>7

LEMMA UpdateEnvOK ==
  ASSUME NEW loaded, NEW row \in OfferedRows(loaded),
         NEW field \in EnvFields, NEW value \in EnvValues,
         field = "secretKey" =>
           <<row.secretName, value>> \in UNION {SecretsOf[ns] : ns \in loaded}
  PROVE  T!UpdateEnv(row, field, value) \in OfferedRows(loaded)
<1>. SUFFICES /\ T!UpdateEnv(row, field, value) \in EnvRows
              /\ Offered(T!UpdateEnv(row, field, value), loaded)
  BY DEF OfferedRows
<1>. row \in EnvRows /\ Offered(row, loaded)
  BY DEF OfferedRows
<1>1. CASE field = "secretName"
  <2>. DEFINE named == [row EXCEPT !.secretName = value]
  <2>1. named \in EnvRows
    BY <1>1 DEF EnvRows
  <2>2. T!UpdateEnv(row, field, value) = [named EXCEPT !.secretKey = ""]
    BY <1>1 DEF T!UpdateEnv
  <2>. HIDE DEF named
  <2>3. "" \in EnvValues
    BY DEF EnvValues
  <2>4. [named EXCEPT !.secretKey = ""] \in EnvRows
    BY <2>1, <2>3 DEF EnvRows
  <2>5. [named EXCEPT !.secretKey = ""].secretKey = ""
    BY <2>1 DEF EnvRows
  <2>. QED
    BY <2>2, <2>4, <2>5 DEF Offered
<1>2. CASE field # "secretName"
  <2>1. T!UpdateEnv(row, field, value) = [row EXCEPT ![field] = value]
    BY <1>2 DEF T!UpdateEnv
  <2>2. [row EXCEPT ![field] = value] \in EnvRows
    BY DEF EnvRows, EnvFields
  <2>3. CASE field = "secretKey"
    <3>1. /\ [row EXCEPT ![field] = value].secretName = row.secretName
          /\ [row EXCEPT ![field] = value].secretKey = value
      BY <2>3 DEF EnvRows
    <3>. QED
      BY <2>1, <2>2, <2>3, <3>1 DEF Offered
  <2>4. CASE field # "secretKey"
    <3>1. /\ [row EXCEPT ![field] = value].secretName = row.secretName
          /\ [row EXCEPT ![field] = value].secretKey = row.secretKey
      BY <1>2, <2>4 DEF EnvRows
    <3>. QED
      BY <2>1, <2>2, <3>1 DEF Offered
  <2>. QED
    BY <2>3, <2>4
<1>. QED
  BY <1>1, <1>2
-----------------------------------------------------------------------------
(* A step that brings no list and gives the template form its blank state.   *)
LEMMA BlankStep ==
  ASSUME EnvInv, lists' \in {lists, NoLists},
         page' = "template" => form' = T!Blank
  PROVE  EnvInv'
BY BlankOK DEF EnvInv, NoLists

(* A step that leaves its rows alone.                                        *)
LEMMA RowsKept ==
  ASSUME EnvInv, UNCHANGED <<page, lists>>,
         page = "template" => DOMAIN form' = {"v", "rows"} /\ form'.rows = form.rows
  PROVE  EnvInv'
BY DEF EnvInv, EnvOK

LEMMA BlankTemplate == BlankForm("template") = T!Blank
BY DEF BlankForm

LEMMA OpensAndCloses ==
  ASSUME EnvInv, \/ \E p \in Pages : Visit(p)
                 \/ Leave \/ Open \/ Close
                 \/ \E n \in 1..MaxWaiting : Succeeds(n) \/ Fails(n)
  PROVE  EnvInv'
<1>1. ASSUME NEW p, Fresh(p) PROVE EnvInv'
  BY <1>1, BlankStep, BlankTemplate DEF Fresh
<1>2. ASSUME Hidden, UNCHANGED <<page, lists>> PROVE EnvInv'
  BY <1>2, BlankStep, BlankTemplate DEF Hidden
<1>3. CASE Open
  BY <1>3, BlankStep, BlankTemplate DEF Open
<1>4. ASSUME NEW n, Succeeds(n) PROVE EnvInv'
  <2>. UNCHANGED <<page, lists>>
    BY <1>4 DEF Succeeds
  <2>1. CASE page = "template"
    <3>1. Hidden
      BY <1>4, <2>1 DEF Succeeds
    <3>. QED
      BY <3>1, <1>2
  <2>2. CASE page # "template"
    BY <2>2, RowsKept
  <2>. QED
    BY <2>1, <2>2
<1>5. ASSUME NEW n, Fails(n) PROVE EnvInv'
  BY <1>5 DEF Fails, EnvInv
<1>. QED
  BY <1>1, <1>2, <1>3, <1>4, <1>5 DEF Visit, Leave, Close

(* Inputs, selects and presets.                                              *)
LEMMA FieldSteps ==
  ASSUME EnvInv, \/ \E c, value : Type(c, value) \/ Choose(c, value)
                 \/ \E id \in PresetIds : ApplyPreset(id)
                 \/ \E id : ApplyProvider(id)
  PROVE  EnvInv'
<1>1. ASSUME NEW c, NEW value, Type(c, value) \/ Choose(c, value) PROVE EnvInv'
  <2>1. form' = [form EXCEPT !.v[c] = value] /\ UNCHANGED <<page, lists>>
    BY <1>1 DEF Type, Choose, Edited
  <2>2. page = "template" => DOMAIN form = {"v", "rows"}
    BY DEF EnvInv, EnvOK
  <2>3. page = "template" => DOMAIN form' = {"v", "rows"} /\ form'.rows = form.rows
    BY <2>1, <2>2
  <2>. QED
    BY <2>1, <2>3, RowsKept
<1>2. ASSUME NEW id \in PresetIds, ApplyPreset(id) PROVE EnvInv'
  <2>. DEFINE preset == T!Presets[id]
  <2>1. /\ form' = T!ApplyPreset(form, id) /\ page = "template"
        /\ UNCHANGED <<page, lists>>
    BY <1>2 DEF ApplyPreset, Edited
  <2>2. /\ DOMAIN form' = {"v", "rows"}
        /\ form'.rows = [form.rows EXCEPT !.env = preset.env, !.labels = preset.labels]
    BY <2>1 DEF T!ApplyPreset
  <2>3. DOMAIN form.rows = {"env", "labels", "volumes"}
    BY <2>1 DEF EnvInv, EnvOK
  <2>4. DOMAIN form'.rows = {"env", "labels", "volumes"} /\ form'.rows.env = preset.env
    BY <2>2, <2>3
  <2>5. EnvOK(form', lists.secrets)
    BY <2>2, <2>4, PresetsOK, PresetsAssumption DEF EnvOK
  <2>. QED
    BY <2>1, <2>5 DEF EnvInv
<1>3. ASSUME NEW id, ApplyProvider(id) PROVE EnvInv'
  BY <1>3, RowsKept DEF ApplyProvider, Edited
<1>. QED
  BY <1>1, <1>2, <1>3

-----------------------------------------------------------------------------
(* What editing the rows of a list does to the variables.                    *)
LEMMA EnvRowsKept ==
  ASSUME EnvInv, page = "template", UNCHANGED <<page, lists>>,
         NEW list \in {"env", "labels", "volumes"}, NEW rows,
         form' = [form EXCEPT !.rows[list] = rows],
         list = "env" => rows \in Seq(OfferedRows(lists.secrets))
  PROVE  EnvInv'
<1>1. /\ DOMAIN form = {"v", "rows"} /\ DOMAIN form.rows = {"env", "labels", "volumes"}
  BY DEF EnvInv, EnvOK
<1>2. /\ DOMAIN form' = {"v", "rows"}
      /\ form'.rows = [form.rows EXCEPT ![list] = rows]
  BY <1>1
<1>3. /\ DOMAIN form'.rows = {"env", "labels", "volumes"}
      /\ form'.rows.env = IF list = "env" THEN rows ELSE form.rows.env
  BY <1>1, <1>2
<1>4. EnvOK(form', lists.secrets)
  BY <1>2, <1>3 DEF EnvInv, EnvOK
<1>. QED
  BY <1>4 DEF EnvInv

LEMMA RowSteps == EnvInv /\ EditAnyRow => EnvInv'
<1>. SUFFICES ASSUME EnvInv, NEW list \in RowLists,
                     \/ AddRow(list)
                     \/ \E i \in 1..Len(form.rows[list]) :
                          \/ RemoveRow(list, i)
                          \/ LET controls == RowControls(list, form.rows[list][i])
                             IN \E field \in DOMAIN controls : \E value \in controls[field] :
                                  EditRow(list, i, field, value)
              PROVE  EnvInv'
  BY DEF EditAnyRow
<1>1. UNCHANGED <<page, lists>>
  BY DEF AddRow, RemoveRow, EditRow, Edited
<1>. DEFINE env == form.rows.env
<1>2. CASE page # "template"
  BY <1>1, <1>2, RowsKept
<1>3. CASE page = "template"
  <2>1. list \in {"env", "labels", "volumes"}
    BY <1>3 DEF RowLists, T!RowLists
  <2>2. /\ env \in Seq(OfferedRows(lists.secrets))
        /\ DOMAIN form = {"v", "rows"} /\ DOMAIN form.rows = {"env", "labels", "volumes"}
    BY <1>3 DEF EnvInv, EnvOK
  <2>3. CASE AddRow(list)
    <3>. DEFINE rows == Append(form.rows[list], BlankRow(list))
    <3>1. form' = [form EXCEPT !.rows[list] = rows]
      BY <2>3 DEF AddRow, Edited
    <3>2. ASSUME list = "env" PROVE rows \in Seq(OfferedRows(lists.secrets))
      <4>1. rows = Append(env, T!BlankEnv)
        BY <3>2 DEF BlankRow
      <4>. QED
        BY <2>2, <4>1, BlankEnvOK
    <3>. QED
      BY <1>1, <1>3, <2>1, <3>1, <3>2, EnvRowsKept
  <2>4. ASSUME NEW i \in 1..Len(form.rows[list]), RemoveRow(list, i) PROVE EnvInv'
    <3>. DEFINE rows == RemoveAt(form.rows[list], i)
    <3>1. form' = [form EXCEPT !.rows[list] = rows]
      BY <2>4 DEF RemoveRow, Edited
    <3>2. ASSUME list = "env" PROVE rows \in Seq(OfferedRows(lists.secrets))
      <4>1. i \in 1..Len(env) /\ rows = SubSeq(env, 1, i - 1) \o SubSeq(env, i + 1, Len(env))
        BY <3>2 DEF RemoveAt
      <4>2. /\ SubSeq(env, 1, i - 1) \in Seq(OfferedRows(lists.secrets))
            /\ SubSeq(env, i + 1, Len(env)) \in Seq(OfferedRows(lists.secrets))
        BY <2>2, <4>1
      <4>. QED
        BY <4>1, <4>2
    <3>. QED
      BY <1>1, <1>3, <2>1, <3>1, <3>2, EnvRowsKept
  <2>5. ASSUME NEW i \in 1..Len(form.rows[list]),
               NEW field \in DOMAIN RowControls(list, form.rows[list][i]),
               NEW value \in RowControls(list, form.rows[list][i])[field],
               EditRow(list, i, field, value)
        PROVE  EnvInv'
    <3>. DEFINE row == IF list = "env" THEN T!UpdateEnv(form.rows[list][i], field, value)
                       ELSE [form.rows[list][i] EXCEPT ![field] = value]
                rows == [form.rows[list] EXCEPT ![i] = row]
    <3>1. form' = [form EXCEPT !.rows[list] = rows]
      BY <2>1, <2>2, <2>5 DEF EditRow, Edited
    <3>2. ASSUME list = "env" PROVE rows \in Seq(OfferedRows(lists.secrets))
      <4>1. env[i] \in OfferedRows(lists.secrets) /\ env[i] \in EnvRows
        BY <2>2, <3>2 DEF OfferedRows
      <4>2. RowControls(list, form.rows[list][i]) = T!EnvControls(form, env[i], lists.secrets)
        BY <3>2 DEF RowControls
      <4>3. /\ field \in EnvFields /\ value \in EnvValues
            /\ field = "secretKey" =>
                 <<env[i].secretName, value>> \in UNION {SecretsOf[ns] : ns \in lists.secrets}
        BY <4>1, <4>2, EnvControlsOffer DEF EnvInv
      <4>4. row = T!UpdateEnv(env[i], field, value)
        BY <3>2
      <4>5. row \in OfferedRows(lists.secrets)
        BY <4>1, <4>3, <4>4, UpdateEnvOK
      <4>6. rows = [env EXCEPT ![i] = row]
        BY <3>2
      <4>7. env \in Seq(OfferedRows(lists.secrets)) /\ i \in 1..Len(env)
        BY <2>2, <3>2
      <4>. HIDE DEF env, row, rows
      <4>. QED
        BY <4>5, <4>6, <4>7
    <3>. QED
      BY <1>1, <1>3, <2>1, <3>1, <3>2, EnvRowsKept
  <2>. QED
    BY <2>3, <2>4, <2>5
<1>. QED
  BY <1>2, <1>3

(* Lists that arrive only add to what was offered; the form stays.           *)
LEMMA ListSteps == EnvInv /\ ListsMove => EnvInv'
<1>. SUFFICES ASSUME EnvInv, ListsMove PROVE EnvInv'
  OBVIOUS
<1>1. DOMAIN lists = {"secrets", "spaces", "templates", "failed"}
  BY DEF EnvInv
<1>2. CASE SecretsArrive
  <2>1. /\ lists' = [lists EXCEPT !.secrets = @ \cup {form.v.namespace}]
        /\ form.v.namespace \in DOMAIN SecretsOf /\ UNCHANGED <<page, form>>
    BY <1>2 DEF SecretsArrive, Listed
  <2>2. /\ DOMAIN lists' = {"secrets", "spaces", "templates", "failed"}
        /\ lists'.secrets = lists.secrets \cup {form.v.namespace}
    BY <1>1, <2>1
  <2>3. OfferedRows(lists.secrets) \subseteq OfferedRows(lists'.secrets)
    BY <2>2 DEF Offered, OfferedRows
  <2>4. Seq(OfferedRows(lists.secrets)) \subseteq Seq(OfferedRows(lists'.secrets))
    BY <2>3
  <2>. QED
    BY <2>1, <2>2, <2>4 DEF EnvInv, EnvOK
<1>3. CASE ~SecretsArrive
  <2>1. /\ page = "actor" /\ UNCHANGED page
        /\ DOMAIN lists' = {"secrets", "spaces", "templates", "failed"}
        /\ lists'.secrets = lists.secrets
    BY <1>1, <1>3 DEF ListsMove, SpacesArrive, TemplatesArrive, TemplatesFail, Listed
  <2>. QED
    BY <2>1 DEF EnvInv
<1>. QED
  BY <1>2, <1>3

-----------------------------------------------------------------------------
LEMMA InitInv == Init => EnvInv
BY DEF Init, EnvInv, NoLists

LEMMA StepInv == EnvInv /\ [Next]_vars => EnvInv'
<1>. SUFFICES ASSUME EnvInv, [Next]_vars PROVE EnvInv'
  OBVIOUS
<1>1. CASE Edit
  BY <1>1, FieldSteps, RowSteps DEF Edit
<1>2. CASE Submit \/ SendTask \/ UNCHANGED vars
  BY <1>2 DEF Submit, SendTask, vars, EnvInv
<1>. QED
  BY <1>1, <1>2, OpensAndCloses, ListSteps DEF Next

(* The form has its rows, and their references were offered.                 *)
THEOREM SpecEnvInv == Spec => []EnvInv
BY InitInv, StepInv, PTL DEF Spec

(* No sequence of edits, of presets, of namespaces typed and of Secrets that *)
(* arrive meanwhile leaves a variable with a key of another Secret           *)
(* (CreateTemplateDialog.tsx:150-158, 448-524).                              *)
THEOREM ReferencesWereOffered == Spec => []RefsWereOffered
<1>1. EnvInv => RefsWereOffered
  <2>. SUFFICES ASSUME EnvInv, page = "template", NEW i \in 1..Len(form.rows.env)
                PROVE  Offered(form.rows.env[i], lists.secrets)
    BY DEF RefsWereOffered, Offered
  <2>. QED
    BY DEF EnvInv, EnvOK, OfferedRows
<1>. QED
  BY <1>1, SpecEnvInv, PTL

-----------------------------------------------------------------------------
(* Entries: what Object.fromEntries makes of rows, against the rows.         *)
IsRows(rows) == rows \in Seq(Range(rows))

LEMMA RowsOfSeq == \A rowset : \A rows \in Seq(rowset) : IsRows(rows)
BY DEF IsRows, Range

LEMMA EntriesAreRows ==
  ASSUME NEW name, NEW rows, NEW e \in Entries(name, rows)
  PROVE  \E i \in 1..Len(rows) :
           CompleteLabel(rows[i]) /\ e = <<name, rows[i].key, rows[i].value>>
BY DEF Entries

(* Every complete row has the last complete one of its key among them.       *)
LEMMA RowsHaveEntries ==
  ASSUME NEW name, NEW rows, IsRows(rows),
         NEW i \in 1..Len(rows), CompleteLabel(rows[i])
  PROVE  \E j \in 1..Len(rows) :
           /\ CompleteLabel(rows[j]) /\ rows[j].key = rows[i].key
           /\ <<name, rows[j].key, rows[j].value>> \in Entries(name, rows)
<1>. DEFINE Same(k) == CompleteLabel(rows[k]) /\ rows[k].key = rows[i].key
            behind == {n \in Nat : n < Len(rows) /\ Same(Len(rows) - n)}
<1>1. Len(rows) \in Nat
  BY DEF IsRows
<1>2. Len(rows) - i \in behind
  BY <1>1
<1>3. PICK n \in behind : \A m \in behind : ~(m < n)
  <2>1. PICK n \in behind : \A m \in behind : <<m, n>> \notin OpToRel(<, Nat)
    BY <1>2, NatLessThanWellFounded, WFMin
  <2>. QED
    BY <2>1 DEF OpToRel
<1>. DEFINE j == Len(rows) - n
<1>4. j \in 1..Len(rows) /\ Same(j)
  BY <1>1, <1>3
<1>5. ASSUME NEW k \in j + 1..Len(rows), CompleteLabel(rows[k]) PROVE rows[k].key # rows[j].key
  <2>1. Len(rows) - k < n /\ Len(rows) - k \in Nat /\ Len(rows) - k < Len(rows)
        /\ Len(rows) - (Len(rows) - k) = k
    BY <1>1, <1>3
  <2>2. ~ Same(k)
    BY <1>3, <2>1
  <2>. QED
    BY <1>4, <1>5, <2>2
<1>. HIDE DEF j
<1>6. <<name, rows[j].key, rows[j].value>> \in Entries(name, rows)
  BY <1>4, <1>5 DEF Entries
<1>. QED
  BY <1>4, <1>6

LEMMA SameEntries ==
  \A name, rows : /\ T!Entries(name, rows) = Entries(name, rows)
                  /\ P!Entries(name, rows) = Entries(name, rows)
                  /\ A!Entries(name, rows) = Entries(name, rows)
                  /\ S!Entries(name, rows) = Entries(name, rows)
BY DEF T!Entries, P!Entries, A!Entries, S!Entries, Entries,
       T!CompleteLabel, P!CompleteLabel, A!CompleteLabel, S!CompleteLabel, CompleteLabel

-----------------------------------------------------------------------------
(* What the state of each form is: the values of its selects and of the two  *)
(* inputs that are looked up or normalised, and its lists of rows.           *)
AllPages == {"template", "pool", "actor", "key", "model", "secret", "atespace", "task"}

FieldsOf(p) ==
  CASE p = "template" -> {"mode", "onPause", "onCommit", "yamlText"}
    [] p = "pool" -> {"mode", "yamlText"} [] p = "key" -> {"duration"}
    [] p = "task" -> {"method", "path"} [] OTHER -> {}

ValuesOf(c) ==
  CASE c = "mode" -> {"form", "yaml"} [] c = "duration" -> {"24h", "7d", "30d", "none"}
    [] c = "method" -> {"GET", "POST"} [] c = "path" -> Texts["path"] \cup {"", "/ask"}
    [] c = "yamlText" -> Texts["yamlText"] \cup {""} [] OTHER -> {"Full", "Data"}

ListsOf(p) ==
  CASE p = "template" -> {"env", "labels", "volumes"} [] p = "pool" -> {"labels", "nodeSelector"}
    [] p = "actor" -> {"labels"} [] p = "secret" -> {"data"} [] OTHER -> {}

FormOK(p, f) ==
  /\ DOMAIN f = {"v", "rows"}
  /\ \A c \in FieldsOf(p) : c \in DOMAIN f.v /\ f.v[c] \in ValuesOf(c)
  /\ \A list \in ListsOf(p) : list \in DOMAIN f.rows /\ IsRows(f.rows[list])

FormInv ==
  /\ page \in AllPages \cup {"other"}
  /\ page = "other" => view = "closed"
  /\ FormOK(page, form)

LEMMA Shapes ==
  /\ FieldsOf("template") = {"mode", "onPause", "onCommit", "yamlText"}
  /\ FieldsOf("pool") = {"mode", "yamlText"}
  /\ FieldsOf("key") = {"duration"} /\ FieldsOf("task") = {"method", "path"}
  /\ \A p \in {"actor", "model", "secret", "atespace", "other"} : FieldsOf(p) = {}
  /\ ListsOf("template") = {"env", "labels", "volumes"}
  /\ ListsOf("pool") = {"labels", "nodeSelector"}
  /\ ListsOf("actor") = {"labels"} /\ ListsOf("secret") = {"data"}
  /\ \A p \in {"key", "model", "atespace", "task", "other"} : ListsOf(p) = {}
BY DEF FieldsOf, ListsOf

LEMMA Values ==
  /\ ValuesOf("mode") = {"form", "yaml"}
  /\ ValuesOf("onPause") = {"Full", "Data"} /\ ValuesOf("onCommit") = {"Full", "Data"}
  /\ ValuesOf("duration") = {"24h", "7d", "30d", "none"}
  /\ ValuesOf("method") = {"GET", "POST"}
  /\ ValuesOf("path") = Texts["path"] \cup {"", "/ask"}
  /\ ValuesOf("yamlText") = Texts["yamlText"] \cup {""}
BY DEF ValuesOf

LEMMA BlankForms ==
  /\ BlankForm("pool") = P!Blank /\ BlankForm("actor") = A!Blank
  /\ BlankForm("key") = G!BlankKey /\ BlankForm("model") = G!BlankModel
  /\ BlankForm("secret") = S!BlankSecret /\ BlankForm("atespace") = S!BlankAtespace
  /\ BlankForm("task") = S!BlankTask /\ BlankForm("other") = NoForm
BY DEF BlankForm

LEMMA BlankFormOK == ASSUME NEW shown \in AllPages \cup {"other"}
  PROVE  FormOK(shown, BlankForm(shown))
<1>1. IsRows(<<>>)
  <2>1. <<>> \in Seq({})
    OBVIOUS
  <2>. QED
    BY <2>1, RowsOfSeq
<1>2. FormOK("template", T!Blank)
  <2>. DEFINE blank == T!Blank
  <2>1. /\ DOMAIN blank = {"v", "rows"}
        /\ {"mode", "onPause", "onCommit", "yamlText"} \subseteq DOMAIN blank.v
        /\ blank.v.mode = "form"
        /\ blank.v.onPause = "Full"
        /\ blank.v.onCommit = "Full"
        /\ blank.v.yamlText = ""
        /\ {"env", "labels", "volumes"} \subseteq DOMAIN blank.rows
    BY DEF T!Blank
  <2>2. IsRows(blank.rows.env) /\ IsRows(blank.rows.labels) /\ IsRows(blank.rows.volumes)
    BY <1>1 DEF T!Blank
  <2>. HIDE DEF blank
  <2>3. FormOK("template", blank)
    BY <2>1, <2>2, Shapes, Values DEF FormOK
  <2>. QED
    BY <2>3 DEF blank
<1>3. FormOK("pool", P!Blank)
  <2>. DEFINE blank == P!Blank
  <2>1. /\ DOMAIN blank = {"v", "rows"}
        /\ {"mode", "yamlText"} \subseteq DOMAIN blank.v
        /\ blank.v.mode = "form"
        /\ blank.v.yamlText = ""
        /\ {"labels", "nodeSelector"} \subseteq DOMAIN blank.rows
    BY DEF P!Blank
  <2>2. IsRows(blank.rows.labels) /\ IsRows(blank.rows.nodeSelector)
    BY <1>1 DEF P!Blank
  <2>. HIDE DEF blank
  <2>3. FormOK("pool", blank)
    BY <2>1, <2>2, Shapes, Values DEF FormOK
  <2>. QED
    BY <2>3 DEF blank
<1>4. FormOK("actor", A!Blank)
  <2>. DEFINE blank == A!Blank
  <2>1. /\ DOMAIN blank = {"v", "rows"}
        /\ {"labels"} \subseteq DOMAIN blank.rows
    BY DEF A!Blank
  <2>2. IsRows(blank.rows.labels)
    BY <1>1 DEF A!Blank
  <2>. HIDE DEF blank
  <2>3. FormOK("actor", blank)
    BY <2>1, <2>2, Shapes, Values DEF FormOK
  <2>. QED
    BY <2>3 DEF blank
<1>5. FormOK("key", G!BlankKey)
  <2>. DEFINE blank == G!BlankKey
  <2>1. /\ DOMAIN blank = {"v", "rows"}
        /\ {"duration"} \subseteq DOMAIN blank.v
        /\ blank.v.duration = "none"
    BY DEF G!BlankKey, G!NO_EXPIRY
  <2>. HIDE DEF blank
  <2>2. FormOK("key", blank)
    BY <1>1, <2>1, Shapes, Values DEF FormOK
  <2>. QED
    BY <2>2 DEF blank
<1>6. FormOK("model", G!BlankModel)
  BY Shapes DEF FormOK, G!BlankModel
<1>7. FormOK("secret", S!BlankSecret)
  <2>. DEFINE blank == S!BlankSecret
  <2>1. /\ DOMAIN blank = {"v", "rows"} /\ {"data"} \subseteq DOMAIN blank.rows
        /\ blank.rows.data = <<S!BlankData>>
    BY DEF S!BlankSecret
  <2>2. <<S!BlankData>> \in Seq({S!BlankData})
    OBVIOUS
  <2>3. IsRows(blank.rows.data)
    BY <2>1, <2>2, RowsOfSeq
  <2>. HIDE DEF blank
  <2>4. FormOK("secret", blank)
    BY <2>1, <2>3, Shapes DEF FormOK
  <2>. QED
    BY <2>4 DEF blank
<1>8. FormOK("atespace", S!BlankAtespace)
  BY Shapes DEF FormOK, S!BlankAtespace
<1>9. FormOK("task", S!BlankTask)
  <2>. DEFINE blank == S!BlankTask
  <2>1. /\ DOMAIN blank = {"v", "rows"}
        /\ {"method", "path"} \subseteq DOMAIN blank.v
        /\ blank.v.method = "POST"
        /\ blank.v.path = "/ask"
    BY DEF S!BlankTask
  <2>. HIDE DEF blank
  <2>2. FormOK("task", blank)
    BY <1>1, <2>1, Shapes, Values DEF FormOK
  <2>. QED
    BY <2>2 DEF blank
<1>10. FormOK("other", NoForm)
  BY Shapes DEF FormOK, NoForm
<1>. QED
  BY <1>2, <1>3, <1>4, <1>5, <1>6, <1>7, <1>8, <1>9, <1>10, BlankTemplate, BlankForms
  DEF AllPages

-----------------------------------------------------------------------------
(* Edits keep the form one of its page.                                      *)
LEMMA FieldKept ==
  ASSUME NEW p, NEW f, FormOK(p, f), NEW c, NEW value,
         c \in FieldsOf(p) => value \in ValuesOf(c)
  PROVE  FormOK(p, [f EXCEPT !.v[c] = value])
<1>. DEFINE g == [f EXCEPT !.v[c] = value]
<1>1. DOMAIN f = {"v", "rows"}
  BY DEF FormOK
<1>2. DOMAIN g = {"v", "rows"} /\ g.rows = f.rows /\ g.v = [f.v EXCEPT ![c] = value]
  BY <1>1
<1>. HIDE DEF g
<1>3. ASSUME NEW d \in FieldsOf(p) PROVE d \in DOMAIN g.v /\ g.v[d] \in ValuesOf(d)
  <2>1. d \in DOMAIN f.v /\ f.v[d] \in ValuesOf(d)
    BY DEF FormOK
  <2>2. CASE d = c
    BY <1>2, <2>1, <2>2
  <2>3. CASE d # c
    BY <1>2, <2>1, <2>3
  <2>. QED
    BY <2>2, <2>3
<1>4. FormOK(p, g)
  BY <1>2, <1>3 DEF FormOK
<1>. QED
  BY <1>4 DEF g

LEMMA RowsReplaced ==
  ASSUME NEW p, NEW f, FormOK(p, f), NEW list, NEW rows, IsRows(rows)
  PROVE  FormOK(p, [f EXCEPT !.rows[list] = rows])
<1>. DEFINE g == [f EXCEPT !.rows[list] = rows]
<1>1. DOMAIN f = {"v", "rows"}
  BY DEF FormOK
<1>2. DOMAIN g = {"v", "rows"} /\ g.v = f.v /\ g.rows = [f.rows EXCEPT ![list] = rows]
  BY <1>1
<1>. HIDE DEF g
<1>3. ASSUME NEW other \in ListsOf(p) PROVE other \in DOMAIN g.rows /\ IsRows(g.rows[other])
  <2>1. other \in DOMAIN f.rows /\ IsRows(f.rows[other])
    BY DEF FormOK
  <2>2. CASE other = list
    BY <1>2, <2>1, <2>2
  <2>3. CASE other # list
    BY <1>2, <2>1, <2>3
  <2>. QED
    BY <2>2, <2>3
<1>4. FormOK(p, g)
  BY <1>2, <1>3 DEF FormOK
<1>. QED
  BY <1>4 DEF g

(* The inputs on the screen, page by page: each takes any text.              *)
LEMMA InputsAre ==
  \A names : /\ T!Inputs(names) = Inputs(names) /\ P!Inputs(names) = Inputs(names)
             /\ A!Inputs(names) = Inputs(names) /\ G!Inputs(names) = Inputs(names)
             /\ S!Inputs(names) = Inputs(names)
BY DEF T!Inputs, P!Inputs, A!Inputs, G!Inputs, S!Inputs, Inputs

InputNames ==
  CASE page = "template" ->
         IF form.v.mode = "form"
         THEN {"namespace", "name", "pauseImage", "sandboxClass", "containerName",
               "containerImage", "containerCommand", "readyzPath", "readyzPort", "location"}
         ELSE {"namespace", "name", "yamlText"}
    [] page = "pool" ->
         IF form.v.mode = "form"
         THEN {"namespace", "name", "replicas", "ateomImage", "sandboxClass",
               "sandboxConfigName"} \cup P!Resources
         ELSE {"namespace", "name", "yamlText"}
    [] page = "actor" ->
         {"name"} \cup (IF A!CustomAtespace(form, lists) THEN {"customAtespace"} ELSE {})
                \cup (IF A!ManualTemplate(form, lists)
                      THEN {"templateNamespace", "templateName"} ELSE {})
    [] page = "key" -> {"keyAlias", "models", "maxBudget"}
    [] page = "model" -> {"modelName", "prefix", "model", "apiKey"}
                         \cup IF form.v.provider = "compatible" THEN {"apiBase"} ELSE {}
    [] page = "secret" -> {"namespace", "name"} [] page = "atespace" -> {"name"}
    [] page = "task" -> {"path"} \cup IF form.v.method = "POST" THEN {"body"} ELSE {}
    [] OTHER -> {}

LEMMA ShownInputsAre == ASSUME FormInv PROVE ShownInputs = Inputs(InputNames)
<1>1. CASE page = "template"
  BY <1>1, InputsAre DEF ShownInputs, InputNames, T!Controls
<1>2. CASE page = "pool"
  BY <1>2, InputsAre DEF ShownInputs, InputNames, P!Controls
<1>3. CASE page = "actor"
  BY <1>3, InputsAre DEF ShownInputs, InputNames, A!Controls
<1>4. CASE page = "key"
  BY <1>4, InputsAre DEF ShownInputs, InputNames, G!KeyControls
<1>5. CASE page = "model"
  BY <1>5, InputsAre DEF ShownInputs, InputNames, G!ModelControls
<1>6. CASE page = "secret"
  BY <1>6, InputsAre DEF ShownInputs, InputNames, S!SecretControls
<1>7. CASE page = "atespace"
  BY <1>7, InputsAre DEF ShownInputs, InputNames, S!AtespaceControls
<1>8. CASE page = "task"
  BY <1>8, InputsAre DEF ShownInputs, InputNames, S!TaskControls
<1>9. CASE page = "other"
  <2>1. ShownInputs = <<>> /\ InputNames = {}
    BY <1>9 DEF ShownInputs, InputNames
  <2>2. Inputs({}) = <<>>
    BY DEF Inputs
  <2>. QED
    BY <2>1, <2>2
<1>. QED
  BY <1>1, <1>2, <1>3, <1>4, <1>5, <1>6, <1>7, <1>8, <1>9 DEF FormInv, AllPages

LEMMA InputNamesAre == ASSUME FormInv PROVE DOMAIN ShownInputs = InputNames
BY ShownInputsAre DEF Inputs

LEMMA InputsOffer ==
  ASSUME FormInv, NEW c \in DOMAIN ShownInputs, NEW value \in ShownInputs[c],
         c \in FieldsOf(page)
  PROVE  value \in ValuesOf(c)
<1>1. c \in InputNames /\ value \in Texts[c] \cup {""}
  BY ShownInputsAre DEF Inputs
<1>2. c \in {"yamlText", "path"}
  <2>1. CASE page = "template"
    BY <1>1, <2>1, Shapes DEF InputNames
  <2>2. CASE page = "pool"
    BY <1>1, <2>2, Shapes DEF InputNames, P!Resources
  <2>3. CASE page = "key"
    BY <1>1, <2>3, Shapes DEF InputNames
  <2>4. CASE page = "task"
    BY <1>1, <2>4, Shapes DEF InputNames
  <2>. QED
    BY <2>1, <2>2, <2>3, <2>4, Shapes DEF FormInv, AllPages
<1>. QED
  BY <1>1, <1>2, Values

(* The selects on the screen, page by page, and that what they offer are     *)
(* values of their fields.                                                   *)
SelectNames ==
  CASE page = "template" ->
         IF form.v.mode = "form" THEN {"mode", "onPause", "onCommit"} ELSE {"mode"}
    [] page = "pool" -> {"mode"}
    [] page = "actor" -> (IF lists.spaces = {} THEN {} ELSE {"atespace"})
                         \cup (IF lists.failed THEN {} ELSE {"template"})
    [] page = "key" -> {"duration"} [] page = "task" -> {"method"} [] OTHER -> {}

LEMMA SelectsAre ==
  /\ page = "template" => ShownSelects = T!Selects(form)
  /\ page = "pool" => ShownSelects = P!Selects
  /\ page = "actor" => ShownSelects = A!Selects(form, lists)
  /\ page = "key" => ShownSelects = G!KeySelects
  /\ page = "task" => ShownSelects = S!TaskSelects
  /\ page \in {"model", "secret", "atespace", "other"} => ShownSelects = <<>>
BY DEF ShownSelects

LEMMA SelectsOffer ==
  ASSUME FormInv
  PROVE  /\ DOMAIN ShownSelects = SelectNames
         /\ page # "actor" => \A c \in SelectNames : ShownSelects[c] = ValuesOf(c)
<1>. DEFINE tabs == {"form", "yaml"}
            states == {"Full", "Data"}
            periods == {"24h", "7d", "30d", "none"}
            methods == {"GET", "POST"}
<1>. HIDE DEF tabs, states, periods, methods
<1>0. /\ ValuesOf("mode") = tabs
      /\ ValuesOf("onPause") = states /\ ValuesOf("onCommit") = states
      /\ ValuesOf("duration") = periods /\ ValuesOf("method") = methods
  BY Values DEF tabs, states, periods, methods
<1>1. CASE page = "template"
  <2>1. CASE form.v.mode = "form"
    <3>1. ShownSelects = [mode |-> tabs, onPause |-> states, onCommit |-> states]
      BY <1>1, <2>1, SelectsAre DEF T!Selects, tabs, states
    <3>2. SelectNames = {"mode", "onPause", "onCommit"}
      BY <1>1, <2>1 DEF SelectNames
    <3>. QED
      BY <1>0, <3>1, <3>2
  <2>2. CASE form.v.mode # "form"
    <3>1. ShownSelects = [mode |-> tabs]
      BY <1>1, <2>2, SelectsAre DEF T!Selects, tabs
    <3>2. SelectNames = {"mode"}
      BY <1>1, <2>2 DEF SelectNames
    <3>. QED
      BY <1>0, <3>1, <3>2
  <2>. QED
    BY <2>1, <2>2
<1>2. CASE page = "pool"
  <2>1. ShownSelects = [mode |-> tabs] /\ SelectNames = {"mode"}
    BY <1>2, SelectsAre DEF P!Selects, SelectNames, tabs
  <2>. QED
    BY <1>0, <2>1
<1>3. CASE page = "actor"
  BY <1>3, SelectsAre DEF SelectNames, A!Selects
<1>4. CASE page = "key"
  <2>1. ShownSelects = [duration |-> periods] /\ SelectNames = {"duration"}
    BY <1>4, SelectsAre DEF G!KeySelects, G!NO_EXPIRY, SelectNames, periods
  <2>. QED
    BY <1>0, <2>1
<1>5. CASE page = "task"
  <2>1. ShownSelects = [method |-> methods] /\ SelectNames = {"method"}
    BY <1>5, SelectsAre DEF S!TaskSelects, SelectNames, methods
  <2>. QED
    BY <1>0, <2>1
<1>6. CASE page \in {"model", "secret", "atespace", "other"}
  BY <1>6, SelectsAre DEF SelectNames
<1>. QED
  BY <1>1, <1>2, <1>3, <1>4, <1>5, <1>6 DEF FormInv, AllPages

-----------------------------------------------------------------------------
(* The invariant is inductive.                                               *)
LEMMA FormSteps ==
  ASSUME FormInv, EnvInv,
         \/ \E c \in DOMAIN ShownInputs : \E value \in ShownInputs[c] : Type(c, value)
         \/ \E c \in DOMAIN ShownSelects : \E value \in ShownSelects[c] : Choose(c, value)
         \/ \E id \in PresetIds : ApplyPreset(id)
         \/ \E id \in DOMAIN G!ProviderPrefix : ApplyProvider(id)
  PROVE  FormInv'
<1>1. ASSUME NEW c \in DOMAIN ShownInputs, NEW value \in ShownInputs[c], Type(c, value)
      PROVE  FormInv'
  <2>1. form' = [form EXCEPT !.v[c] = value] /\ UNCHANGED <<page, view>>
    BY <1>1 DEF Type, Edited
  <2>2. c \in FieldsOf(page) => value \in ValuesOf(c)
    BY InputsOffer
  <2>. QED
    BY <2>1, <2>2, FieldKept DEF FormInv
<1>2. ASSUME NEW c \in DOMAIN ShownSelects, NEW value \in ShownSelects[c], Choose(c, value)
      PROVE  FormInv'
  <2>1. form' = [form EXCEPT !.v[c] = value] /\ UNCHANGED <<page, view>>
    BY <1>2 DEF Choose, Edited
  <2>2. c \in FieldsOf(page) => value \in ValuesOf(c)
    BY SelectsOffer, Shapes
  <2>. QED
    BY <2>1, <2>2, FieldKept DEF FormInv
<1>3. ASSUME NEW id \in PresetIds, ApplyPreset(id) PROVE FormInv'
  <2>. DEFINE preset == T!Presets[id]
  <2>1. /\ form' = T!ApplyPreset(form, id) /\ page = "template" /\ UNCHANGED <<page, view>>
    BY <1>3 DEF ApplyPreset, Edited
  <2>2. /\ DOMAIN form' = {"v", "rows"}
        /\ form'.rows = [form.rows EXCEPT !.env = preset.env, !.labels = preset.labels]
        /\ form'.v = [form.v EXCEPT !.presetId = id, !.mode = "form",
                                    !.containerName = preset.containerName,
                                    !.containerImage = "", !.containerCommand = "",
                                    !.readyzPath = "", !.readyzPort = ""]
    BY <2>1 DEF T!ApplyPreset
  <2>3. IsRows(preset.env)
    BY PresetsAssumption, PresetsOK, RowsOfSeq
  <2>4. IsRows(preset.labels)
    <3>. DEFINE Label(v) == [key |-> "workload", value |-> v]
    <3>1. /\ T!Presets["blank"].labels = <<>>
          /\ T!Presets["claude_code"].labels = <<Label("claude-multiplex")>>
          /\ T!Presets["codex"].labels = <<Label("codex")>>
      BY DEF T!Presets, T!Preset
    <3>2. id \in {"blank", "claude_code", "codex"}
      BY PresetsAssumption DEF T!Presets
    <3>. HIDE DEF Label
    <3>3. \A v : IsRows(<<Label(v)>>)
      <4>1. \A v : <<Label(v)>> \in Seq({Label(v)})
        OBVIOUS
      <4>. QED
        BY <4>1, RowsOfSeq
    <3>4. IsRows(<<>>)
      <4>1. <<>> \in Seq({})
        OBVIOUS
      <4>. QED
        BY <4>1, RowsOfSeq
    <3>. QED
      BY <3>1, <3>2, <3>3, <3>4
  <2>. HIDE DEF preset
  <2>5. \A list \in {"env", "labels", "volumes"} :
          list \in DOMAIN form'.rows /\ IsRows(form'.rows[list])
    <3>1. \A list \in {"env", "labels", "volumes"} :
            list \in DOMAIN form.rows /\ IsRows(form.rows[list])
      BY <2>1, Shapes DEF FormInv, FormOK
    <3>. QED
      BY <2>2, <2>3, <2>4, <3>1
  <2>6. \A c \in {"mode", "onPause", "onCommit", "yamlText"} :
          c \in DOMAIN form'.v /\ form'.v[c] \in ValuesOf(c)
    <3>1. \A c \in {"mode", "onPause", "onCommit", "yamlText"} :
            c \in DOMAIN form.v /\ form.v[c] \in ValuesOf(c)
      BY <2>1, Shapes DEF FormInv, FormOK
    <3>. DEFINE chosen == [form.v EXCEPT !.presetId = id, !.mode = "form"]
                named == [chosen EXCEPT !.containerName = preset.containerName,
                                        !.containerImage = "", !.containerCommand = ""]
    <3>2. /\ chosen.mode = "form" /\ DOMAIN chosen = DOMAIN form.v
          /\ \A c \in {"onPause", "onCommit", "yamlText"} : chosen[c] = form.v[c]
      BY <3>1
    <3>3. form'.v = [named EXCEPT !.readyzPath = "", !.readyzPort = ""]
      BY <2>2
    <3>. HIDE DEF chosen
    <3>4. /\ named.mode = "form" /\ DOMAIN named = DOMAIN form.v
          /\ \A c \in {"onPause", "onCommit", "yamlText"} : named[c] = form.v[c]
      BY <3>1, <3>2
    <3>. HIDE DEF named
    <3>5. /\ form'.v.mode = "form" /\ DOMAIN form'.v = DOMAIN form.v
          /\ \A c \in {"onPause", "onCommit", "yamlText"} : form'.v[c] = form.v[c]
      BY <3>1, <3>3, <3>4
    <3>. QED
      BY <3>1, <3>5, Values
  <2>7. FormOK("template", form')
    BY <2>2, <2>5, <2>6, Shapes DEF FormOK
  <2>. QED
    BY <2>1, <2>7 DEF FormInv
<1>4. ASSUME NEW id \in DOMAIN G!ProviderPrefix, ApplyProvider(id) PROVE FormInv'
  <2>1. page = "model" /\ UNCHANGED <<page, view>> /\ form' = G!ApplyProvider(form, id)
    BY <1>4 DEF ApplyProvider, Edited
  <2>2. DOMAIN form = {"v", "rows"}
    BY DEF FormInv, FormOK
  <2>3. DOMAIN form' = {"v", "rows"}
    BY <2>1, <2>2 DEF G!ApplyProvider
  <2>4. FormOK("model", form')
    BY <2>3, Shapes DEF FormOK
  <2>. QED
    BY <2>1, <2>4 DEF FormInv
<1>. QED
  BY <1>1, <1>2, <1>3, <1>4

LEMMA ListEdits == FormInv /\ EditAnyRow => FormInv'
<1>. SUFFICES ASSUME FormInv, NEW list \in RowLists,
                     \/ AddRow(list)
                     \/ \E i \in 1..Len(form.rows[list]) :
                          \/ RemoveRow(list, i)
                          \/ LET controls == RowControls(list, form.rows[list][i])
                             IN \E field \in DOMAIN controls : \E value \in controls[field] :
                                  EditRow(list, i, field, value)
              PROVE  FormInv'
  BY DEF EditAnyRow
<1>. DEFINE rows == form.rows[list]
<1>1. IsRows(rows) /\ DOMAIN form = {"v", "rows"} /\ list \in DOMAIN form.rows
  <2>1. list \in ListsOf(page)
    BY Shapes DEF RowLists, T!RowLists, P!RowLists, FormInv, AllPages
  <2>. QED
    BY <2>1 DEF FormInv, FormOK
<1>2. ASSUME NEW new, IsRows(new), form' = [form EXCEPT !.rows[list] = new],
             UNCHANGED <<page, view>>
      PROVE  FormInv'
  BY <1>2, RowsReplaced DEF FormInv
<1>3. ASSUME NEW row PROVE rows \in Seq(Range(rows) \cup {row})
  BY <1>1 DEF IsRows
<1>4. CASE AddRow(list)
  <2>. DEFINE row == BlankRow(list)
  <2>. HIDE DEF row
  <2>1. form' = [form EXCEPT !.rows[list] = Append(rows, row)] /\ UNCHANGED <<page, view>>
    BY <1>4 DEF AddRow, Edited, row
  <2>. HIDE DEF rows
  <2>2. Append(rows, row) \in Seq(Range(rows) \cup {row})
    <3>. DEFINE range == Range(rows) \cup {row}
    <3>1. rows \in Seq(range) /\ row \in range
      BY <1>3
    <3>. HIDE DEF range
    <3>2. Append(rows, row) \in Seq(range)
      BY <3>1
    <3>. QED
      BY <3>2 DEF range
  <2>. QED
    BY <1>2, <2>1, <2>2, RowsOfSeq
<1>5. ASSUME NEW i \in 1..Len(rows), RemoveRow(list, i) PROVE FormInv'
  <2>1. form' = [form EXCEPT !.rows[list] = RemoveAt(rows, i)] /\ UNCHANGED <<page, view>>
    BY <1>5 DEF RemoveRow, Edited
  <2>. HIDE DEF rows
  <2>2. RemoveAt(rows, i) \in Seq(Range(rows))
    <3>1. /\ SubSeq(rows, 1, i - 1) \in Seq(Range(rows))
          /\ SubSeq(rows, i + 1, Len(rows)) \in Seq(Range(rows))
      BY <1>1 DEF IsRows
    <3>. QED
      BY <3>1 DEF RemoveAt
  <2>. QED
    BY <1>2, <2>1, <2>2, RowsOfSeq
<1>6. ASSUME NEW i \in 1..Len(rows), NEW field, NEW value, EditRow(list, i, field, value)
      PROVE  FormInv'
  <2>. DEFINE row == IF list = "env" THEN T!UpdateEnv(rows[i], field, value)
                     ELSE [rows[i] EXCEPT ![field] = value]
              new == [rows EXCEPT ![i] = row]
  <2>1. form' = [form EXCEPT !.rows[list] = new] /\ UNCHANGED <<page, view>>
    BY <1>1, <1>6 DEF EditRow, Edited
  <2>2. new \in Seq(Range(rows) \cup {row})
    <3>. DEFINE range == Range(rows) \cup {row}
    <3>. HIDE DEF rows, row
    <3>1. rows \in Seq(range) /\ row \in range
      BY <1>3
    <3>. HIDE DEF range
    <3>2. new \in Seq(range)
      BY <1>6, <3>1
    <3>. QED
      BY <3>2 DEF range
  <2>. HIDE DEF new, row, rows
  <2>. QED
    BY <1>2, <2>1, <2>2, RowsOfSeq
<1>. QED
  BY <1>4, <1>5, <1>6

LEMMA FormOpensAndCloses ==
  ASSUME FormInv, \/ \E p \in Pages : Visit(p)
                  \/ Leave \/ Open \/ Close
                  \/ \E n \in 1..MaxWaiting : Succeeds(n) \/ Fails(n)
  PROVE  FormInv'
<1>1. ASSUME NEW p \in Pages \cup {"other"}, Fresh(p) PROVE FormInv'
  <2>1. p \in AllPages \cup {"other"}
    BY PagesAssumption DEF AllPages
  <2>2. page' = p /\ form' = BlankForm(p) /\ p = "other" => view' = "closed"
    BY <1>1 DEF Fresh
  <2>. QED
    BY <1>1, <2>1, BlankFormOK DEF FormInv, Fresh
<1>2. ASSUME form' \in {form, BlankForm(page)}, UNCHANGED page,
             page = "other" => view' = "closed"
      PROVE  FormInv'
  BY <1>2, BlankFormOK DEF FormInv
<1>3. CASE Open
  BY <1>2, <1>3 DEF Open
<1>4. CASE Close
  BY <1>2, <1>4 DEF Close, Hidden
<1>5. ASSUME NEW n, Succeeds(n) PROVE FormInv'
  <2>1. UNCHANGED page /\ form' \in {form, BlankForm(page)}
    <3>1. CASE page \in {"task", "key", "atespace"}
      BY <1>5, <3>1 DEF Succeeds
    <3>2. CASE page \notin {"task", "key", "atespace"}
      BY <1>5, <3>2 DEF Succeeds, Hidden
    <3>. QED
      BY <3>1, <3>2
  <2>2. page = "other" => view' = "closed"
    BY <1>5 DEF Succeeds, Hidden
  <2>. QED
    BY <1>2, <2>1, <2>2
<1>6. ASSUME NEW n, Fails(n) PROVE FormInv'
  BY <1>6 DEF Fails, FormInv
<1>. QED
  BY <1>1, <1>3, <1>4, <1>5, <1>6 DEF Visit, Leave

LEMMA FormStays == FormInv /\ UNCHANGED <<page, view, form>> => FormInv'
BY DEF FormInv

LEMMA FormInductive == FormInv /\ EnvInv /\ [Next]_vars => FormInv'
<1>. SUFFICES ASSUME FormInv, EnvInv, [Next]_vars PROVE FormInv'
  OBVIOUS
<1>1. CASE Edit
  BY <1>1, FormSteps, ListEdits DEF Edit
<1>2. CASE Submit \/ SendTask \/ ListsMove \/ UNCHANGED vars
  BY <1>2, FormStays DEF Submit, SendTask, vars, ListsMove, SecretsArrive, SpacesArrive,
                         TemplatesArrive, TemplatesFail, Listed
<1>. QED
  BY <1>1, <1>2, FormOpensAndCloses DEF Next

(* The form on the screen is one of its page, with the values its controls   *)
(* offer and proper lists of rows.                                           *)
THEOREM SpecFormInv == Spec => []FormInv
<1>1. Init => FormInv
  <2>1. FormOK("other", NoForm)
    BY BlankFormOK, BlankForms
  <2>. QED
    BY <2>1 DEF Init, FormInv
<1>. QED
  BY <1>1, FormInductive, SpecEnvInv, PTL DEF Spec

-----------------------------------------------------------------------------
(* What the controls say.                                                    *)
Special == {"mode", "provider", "path", "prefix", "model", "template", "atespace",
            "duration", "customAtespace", "templateNamespace", "templateName",
            "models", "yamlText"}

LEMMA PlainControls ==
  \A c : c \notin Special =>
    StandsFor(c) = IF form.v[c] = "" THEN {} ELSE {<<c, form.v[c]>>}
BY DEF StandsFor, SaysNothing, Special

LEMMA SpecialControls ==
  /\ StandsFor("mode") = {}
  /\ StandsFor("path") = {<<"path", S!NormalizedPath(form.v.path)>>}
  /\ \A c \in {"prefix", "model"} : StandsFor(c) = {<<"model", form.v.prefix, form.v.model>>}
  /\ StandsFor("template") =
       IF form.v.template \in {"", A!MANUAL_TEMPLATE} THEN {}
       ELSE {<<"actorTemplateNamespace", TemplateParts[form.v.template][1]>>,
             <<"actorTemplateName", TemplateParts[form.v.template][2]>>}
  /\ StandsFor("atespace") = IF form.v.atespace \in {"", A!CUSTOM_ATESPACE} THEN {}
                             ELSE {<<"atespace", form.v.atespace>>}
  /\ StandsFor("duration") = IF form.v.duration \in {"", G!NO_EXPIRY} THEN {}
                             ELSE {<<"duration", form.v.duration>>}
  /\ StandsFor("customAtespace") = IF form.v.customAtespace = "" THEN {}
                                   ELSE {<<"atespace", form.v.customAtespace>>}
  /\ StandsFor("templateNamespace") =
       IF form.v.templateNamespace = "" THEN {}
       ELSE {<<"actorTemplateNamespace", form.v.templateNamespace>>}
  /\ StandsFor("templateName") = IF form.v.templateName = "" THEN {}
                                 ELSE {<<"actorTemplateName", form.v.templateName>>}
  /\ StandsFor("models") = IF form.v.models = "" THEN {}
                           ELSE {<<"models", m>> : m \in ModelLists[form.v.models]}
  /\ StandsFor("yamlText") = IF form.v.yamlText = "" THEN {} ELSE {<<"spec", form.v.yamlText>>}
<1>1. /\ SaysNothing("mode") /\ ~SaysNothing("path")
      /\ \A c \in {"prefix", "model"} : ~SaysNothing(c)
      /\ SaysNothing("template") <=> form.v.template \in {"", A!MANUAL_TEMPLATE}
      /\ SaysNothing("atespace") <=> form.v.atespace \in {"", A!CUSTOM_ATESPACE}
      /\ SaysNothing("duration") <=> form.v.duration \in {"", G!NO_EXPIRY}
      /\ \A c \in {"customAtespace", "templateNamespace", "templateName", "models",
                    "yamlText"} : SaysNothing(c) <=> form.v[c] = ""
  BY DEF SaysNothing
<1>2. /\ StandsFor("mode") = {}
      /\ StandsFor("path") = {<<"path", S!NormalizedPath(form.v.path)>>}
      /\ \A c \in {"prefix", "model"} : StandsFor(c) = {<<"model", form.v.prefix, form.v.model>>}
  BY <1>1 DEF StandsFor
<1>3. /\ StandsFor("template") =
           IF SaysNothing("template") THEN {}
           ELSE {<<"actorTemplateNamespace", TemplateParts[form.v.template][1]>>,
                 <<"actorTemplateName", TemplateParts[form.v.template][2]>>}
      /\ StandsFor("atespace") = IF SaysNothing("atespace") THEN {}
                                 ELSE {<<"atespace", form.v.atespace>>}
      /\ StandsFor("duration") = IF SaysNothing("duration") THEN {}
                                 ELSE {<<"duration", form.v.duration>>}
  BY DEF StandsFor
<1>4. /\ StandsFor("customAtespace") = IF SaysNothing("customAtespace") THEN {}
                                       ELSE {<<"atespace", form.v.customAtespace>>}
      /\ StandsFor("templateNamespace") =
           IF SaysNothing("templateNamespace") THEN {}
           ELSE {<<"actorTemplateNamespace", form.v.templateNamespace>>}
      /\ StandsFor("templateName") = IF SaysNothing("templateName") THEN {}
                                     ELSE {<<"actorTemplateName", form.v.templateName>>}
  BY DEF StandsFor
<1>5. /\ StandsFor("models") = IF SaysNothing("models") THEN {}
                               ELSE {<<"models", m>> : m \in ModelLists[form.v.models]}
      /\ StandsFor("yamlText") = IF SaysNothing("yamlText") THEN {}
                                 ELSE {<<"spec", form.v.yamlText>>}
  BY DEF StandsFor
<1>. QED
  BY <1>1, <1>2, <1>3, <1>4, <1>5

-----------------------------------------------------------------------------
(* The three properties, of one request.                                     *)
AllSaid(r) ==
  /\ \A c \in ShownControls :
       \/ StandsFor(c) \subseteq r
       \/ c \in {"readyzPath", "readyzPort"}
            /\ (form.v.readyzPath = "" \/ form.v.readyzPort = "")
       \/ c = "readyzPort" /\ form.v[c] \notin Numbers
       \/ c = "maxBudget" /\ form.v[c] \notin Counts
       \/ c \in {"namespace", "name"} /\ form.v.mode = "yaml"
  /\ \A list \in RowLists : \A e \in RowEntries(list) :
       e \in r \/ (list # "env" /\ \E other \in RowEntries(list) :
                    other # e /\ other \in r /\ other[2] = e[2])

OnScreen(e) ==
  \/ \E c \in ShownControls : e \in StandsFor(c)
  \/ \E list \in RowLists : e \in RowEntries(list)
  \/ "mode" \in DOMAIN form.v /\ form.v.mode = "yaml"
       /\ LET doc == Docs[form.v.yamlText]
          IN e \in {<<"namespace", doc.namespace>>, <<"name", doc.name>>}
               \cup {<<"labels", l[1], l[2]>> : l \in doc.labels}
  \/ \E c \in DOMAIN ShownSelects \ ShownControls : e \in StandsFor(c)
  \/ page = "model" /\ e = <<"apiBase", form.v.apiBase>>
  \/ page = "template" /\ form.v.readyzPort \notin Numbers /\ e = <<"readyzPort", "null">>

Passes(r) == Accepted(r) \/ \E e \in r : e[1] = "spec" /\ Docs[e[2]].spec \in {"empty", "list"}

LEMMA OfControls ==
  ASSUME FormInv
  PROVE  /\ ShownControls \subseteq InputNames \cup SelectNames
         /\ \A c \in InputNames \cup SelectNames : \A e \in StandsFor(c) : OnScreen(e)
BY InputNamesAre, SelectsOffer DEF ShownControls, OnScreen

(* Rows of labels, of data and of the node selector.                         *)
LabelLists == {"labels", "nodeSelector", "data"}

LEMMA LabelEntries ==
  \A list \in LabelLists :
    RowEntries(list) = {<<list, form.rows[list][i].key, form.rows[list][i].value>> :
                          i \in {j \in 1..Len(form.rows[list]) : CompleteLabel(form.rows[list][j])}}
<1>. SUFFICES ASSUME NEW list \in LabelLists
              PROVE  RowEntries(list) =
                       {<<list, form.rows[list][i].key, form.rows[list][i].value>> :
                          i \in {j \in 1..Len(form.rows[list]) : CompleteLabel(form.rows[list][j])}}
  OBVIOUS
<1>1. \A row : RowEntry(list, row) =
                 IF CompleteLabel(row) THEN {<<list, row.key, row.value>>} ELSE {}
  BY DEF RowEntry, LabelLists, CompleteLabel
<1>. QED
  BY <1>1 DEF RowEntries

LEMMA LabelsOnScreen ==
  ASSUME NEW list \in LabelLists \cap RowLists
  PROVE  \A e \in Entries(list, form.rows[list]) : OnScreen(e)
<1>1. Entries(list, form.rows[list]) \subseteq RowEntries(list)
  BY LabelEntries, EntriesAreRows
<1>. QED
  BY <1>1 DEF OnScreen

LEMMA LabelsSaid ==
  ASSUME NEW list \in LabelLists \cap RowLists, IsRows(form.rows[list]),
         NEW r, Entries(list, form.rows[list]) \subseteq r, NEW e \in RowEntries(list)
  PROVE  e \in r \/ (list # "env" /\ \E other \in RowEntries(list) :
                        other # e /\ other \in r /\ other[2] = e[2])
<1>. DEFINE rows == form.rows[list]
<1>1. PICK i \in 1..Len(rows) :
        CompleteLabel(rows[i]) /\ e = <<list, rows[i].key, rows[i].value>>
  BY LabelEntries
<1>2. PICK j \in 1..Len(rows) :
        /\ CompleteLabel(rows[j]) /\ rows[j].key = rows[i].key
        /\ <<list, rows[j].key, rows[j].value>> \in Entries(list, rows)
  BY <1>1, RowsHaveEntries
<1>. DEFINE other == <<list, rows[j].key, rows[j].value>>
<1>3. other \in RowEntries(list) /\ other \in r
  BY <1>2, LabelEntries
<1>4. other[2] = e[2] /\ list # "env"
  BY <1>1, <1>2 DEF LabelLists
<1>. QED
  BY <1>3, <1>4

(* A list with a complete row sends one.                                     *)
LEMMA SomeEntry ==
  ASSUME NEW name, NEW rows, IsRows(rows), NEW i \in 1..Len(rows), CompleteLabel(rows[i])
  PROVE  \E e \in Entries(name, rows) : e[1] = name
<1>1. PICK j \in 1..Len(rows) : <<name, rows[j].key, rows[j].value>> \in Entries(name, rows)
  BY RowsHaveEntries
<1>. QED
  BY <1>1

-----------------------------------------------------------------------------
(* Form by form.                                                             *)
LEMMA AtespaceForm ==
  ASSUME FormInv, page = "atespace", Complete, NEW r \in Outgoing
  PROVE  AllSaid(r) /\ (\A e \in r : OnScreen(e)) /\ Passes(r)
<1>1. r = {<<"name", form.v.name>>} /\ form.v.name # ""
  BY DEF Outgoing, Complete, S!AtespaceRequest, S!CompleteAtespace, S!Required
<1>2. InputNames = {"name"} /\ SelectNames = {} /\ RowLists = {}
  BY DEF InputNames, SelectNames, RowLists
<1>3. StandsFor("name") = {<<"name", form.v.name>>}
  BY <1>1, PlainControls DEF Special
<1>4. AllSaid(r)
  BY <1>1, <1>2, <1>3, OfControls DEF AllSaid
<1>5. \A e \in r : OnScreen(e)
  BY <1>1, <1>2, <1>3, OfControls
<1>6. Passes(r)
  BY <1>1 DEF Passes, Accepted, HasText
<1>. QED
  BY <1>4, <1>5, <1>6

LEMMA SecretForm ==
  ASSUME FormInv, page = "secret", Complete, NEW r \in Outgoing
  PROVE  AllSaid(r) /\ (\A e \in r : OnScreen(e)) /\ Passes(r)
<1>. DEFINE rows == form.rows.data
            namespace == <<"namespace", form.v.namespace>>
            name == <<"name", form.v.name>>
<1>1. r = {namespace, name} \cup Entries("data", rows)
  <2>1. S!Required(form, {"namespace", "name"}) = {namespace, name}
    BY DEF S!Required
  <2>. QED
    BY <2>1, SameEntries DEF Outgoing, S!SecretRequest
<1>2. /\ form.v.namespace # "" /\ form.v.name # ""
      /\ \E i \in 1..Len(rows) : CompleteLabel(rows[i])
  BY DEF Complete, S!CompleteSecret, S!CompleteLabel, CompleteLabel
<1>3. InputNames = {"namespace", "name"} /\ SelectNames = {} /\ RowLists = {"data"}
  BY DEF InputNames, SelectNames, RowLists
<1>4. StandsFor("namespace") = {namespace} /\ StandsFor("name") = {name}
  BY <1>2, PlainControls DEF Special
<1>5. IsRows(rows) /\ "data" \in LabelLists \cap RowLists
  BY <1>3, Shapes DEF FormInv, FormOK, LabelLists
<1>6. AllSaid(r)
  <2>1. \A c \in ShownControls : StandsFor(c) \subseteq r
    BY <1>1, <1>3, <1>4, OfControls
  <2>2. Entries("data", form.rows["data"]) \subseteq r
    BY <1>1
  <2>3. \A e \in RowEntries("data") :
          e \in r \/ ("data" # "env" /\ \E other \in RowEntries("data") :
                          other # e /\ other \in r /\ other[2] = e[2])
    BY <1>5, <2>2, LabelsSaid
  <2>. QED
    BY <1>3, <2>1, <2>3 DEF AllSaid
<1>7. \A e \in r : OnScreen(e)
  BY <1>1, <1>3, <1>4, <1>5, OfControls, LabelsOnScreen
<1>8. Passes(r)
  <2>1. namespace[1] = "namespace" /\ namespace[2] # "" /\ name[1] = "name" /\ name[2] # ""
    BY <1>2
  <2>2. \E e \in r : e[1] = "data"
    BY <1>1, <1>2, <1>5, SomeEntry
  <2>3. HasText(r, {"namespace", "name"})
    BY <1>1, <2>1 DEF HasText
  <2>. QED
    BY <2>2, <2>3 DEF Passes, Accepted
<1>. QED
  BY <1>6, <1>7, <1>8

LEMMA KeyForm ==
  ASSUME FormInv, page = "key", Complete, NEW r \in Outgoing
  PROVE  AllSaid(r) /\ (\A e \in r : OnScreen(e)) /\ Passes(r)
<1>. DEFINE alias == <<"keyAlias", form.v.keyAlias>>
            expiry == IF form.v.duration = "none" THEN {}
                      ELSE {<<"duration", form.v.duration>>}
            named == IF form.v.models = "" THEN {}
                     ELSE {<<"models", m>> : m \in ModelLists[form.v.models]}
            budget == IF form.v.maxBudget \in Counts THEN {<<"maxBudget", form.v.maxBudget>>}
                      ELSE {}
<1>1. r = {alias} \cup expiry \cup named \cup budget
  BY DEF Outgoing, G!KeyRequest, G!ModelEntries, G!NO_EXPIRY
<1>2. form.v.keyAlias # "" /\ form.v.duration # ""
  BY Shapes, Values DEF Complete, G!CompleteKey, FormInv, FormOK
<1>3. /\ InputNames = {"keyAlias", "models", "maxBudget"}
      /\ SelectNames = {"duration"} /\ RowLists = {}
  BY DEF InputNames, SelectNames, RowLists
<1>4. /\ StandsFor("keyAlias") = {alias} /\ StandsFor("models") = named
      /\ StandsFor("duration") = expiry
  BY <1>2, PlainControls, SpecialControls DEF Special, G!NO_EXPIRY
<1>5. \/ budget = StandsFor("maxBudget")
      \/ budget = {} /\ form.v.maxBudget \notin Counts
  BY PlainControls, TextsAssumption DEF Special
<1>6. alias[1] = "keyAlias" /\ alias[2] # ""
  BY <1>2
<1>. HIDE DEF alias, expiry, named, budget
<1>7. AllSaid(r)
  <2>1. \A c \in ShownControls :
          StandsFor(c) \subseteq r \/ (c = "maxBudget" /\ form.v[c] \notin Counts)
    BY <1>1, <1>3, <1>4, <1>5, OfControls
  <2>. QED
    BY <1>3, <2>1 DEF AllSaid
<1>8. \A e \in r : OnScreen(e)
  BY <1>1, <1>3, <1>4, <1>5, OfControls
<1>9. Passes(r)
  <2>1. HasText(r, {"keyAlias"})
    BY <1>1, <1>6 DEF HasText
  <2>. QED
    BY <2>1 DEF Passes, Accepted
<1>. QED
  BY <1>7, <1>8, <1>9

LEMMA ModelForm ==
  ASSUME FormInv, page = "model", Complete, NEW r \in Outgoing
  PROVE  AllSaid(r) /\ (\A e \in r : OnScreen(e)) /\ Passes(r)
<1>. DEFINE name == <<"modelName", form.v.modelName>>
            key == <<"apiKey", form.v.apiKey>>
            model == <<"model", form.v.prefix, form.v.model>>
            base == IF form.v.apiBase = "" THEN {} ELSE {<<"apiBase", form.v.apiBase>>}
<1>1. r = {name, key, model} \cup base
  <2>1. G!Required(form, {"modelName", "apiKey"}) = {name, key}
    BY DEF G!Required
  <2>2. G!Optional(form, {"apiBase"}) = base
    BY DEF G!Optional
  <2>. QED
    BY <2>1, <2>2 DEF Outgoing, G!ModelRequest
<1>2. /\ form.v.modelName # "" /\ form.v.apiKey # ""
      /\ form.v.prefix # "" \/ form.v.model # ""
  BY DEF Complete, G!CompleteModel
<1>3. /\ InputNames \subseteq {"modelName", "prefix", "model", "apiKey", "apiBase"}
      /\ {"modelName", "prefix", "apiKey"} \subseteq InputNames
      /\ SelectNames = {} /\ RowLists = {}
  BY DEF InputNames, SelectNames, RowLists
<1>4. /\ StandsFor("modelName") = {name} /\ StandsFor("apiKey") = {key}
      /\ StandsFor("prefix") = {model} /\ StandsFor("model") = {model}
      /\ StandsFor("apiBase") = base
  BY <1>2, PlainControls, SpecialControls DEF Special
<1>5. \A e \in base : OnScreen(e)
  BY DEF OnScreen
<1>6. /\ name[1] = "modelName" /\ name[2] # "" /\ key[1] = "apiKey" /\ key[2] # ""
      /\ model[1] = "model" /\ (model[2] # "" \/ model[3] # "")
  BY <1>2
<1>. HIDE DEF name, key, model, base
<1>7. AllSaid(r)
  BY <1>1, <1>3, <1>4, OfControls DEF AllSaid
<1>8. \A e \in r : OnScreen(e)
  BY <1>1, <1>3, <1>4, <1>5, OfControls
<1>9. Passes(r)
  <2>1. HasText(r, {"modelName", "apiKey"})
    BY <1>1, <1>6 DEF HasText
  <2>2. \E e \in r : e[1] = "model" /\ (e[2] # "" \/ e[3] # "")
    BY <1>1, <1>6
  <2>. QED
    BY <2>1, <2>2 DEF Passes, Accepted
<1>. QED
  BY <1>7, <1>8, <1>9

LEMMA TaskForm ==
  ASSUME FormInv, page = "task", NEW r \in Outgoing
  PROVE  AllSaid(r) /\ (\A e \in r : OnScreen(e)) /\ Passes(r)
<1>. DEFINE method == <<"method", form.v.method>>
            path == <<"path", S!NormalizedPath(form.v.path)>>
            body == IF form.v.body = "" THEN {} ELSE {<<"body", form.v.body>>}
<1>1. r = {method, path} \cup IF form.v.method = "POST" THEN body ELSE {}
  <2>1. S!Optional(form, {"body"}) = body
    BY DEF S!Optional
  <2>. QED
    BY <2>1 DEF Outgoing, S!TaskRequest
<1>2. /\ form.v.method \in {"GET", "POST"}
      /\ form.v.path \in Texts["path"] \cup {"", "/ask"}
  BY Shapes, Values DEF FormInv, FormOK
<1>3. /\ InputNames = {"path"} \cup IF form.v.method = "POST" THEN {"body"} ELSE {}
      /\ SelectNames = {"method"} /\ RowLists = {}
  BY DEF InputNames, SelectNames, RowLists
<1>4. /\ StandsFor("method") = {method} /\ StandsFor("path") = {path}
      /\ StandsFor("body") = body
  BY <1>2, PlainControls, SpecialControls DEF Special
<1>5. /\ S!NormalizedPath(form.v.path) # ""
      /\ S!NormalizedPath(form.v.path) = form.v.path => form.v.path \in AbsolutePaths
  BY <1>2, PathsAssumption DEF S!NormalizedPath
<1>6. path = <<"path", form.v.path>> => form.v.path \in AbsolutePaths
  BY <1>5
<1>7. \A e \in body : e[1] # "path"
  <2>1. <<"body", form.v.body>>[1] = "body"
    OBVIOUS
  <2>. QED
    BY <2>1
<1>8. method[1] = "method" /\ method[2] # "" /\ path[1] = "path" /\ path[2] # ""
  BY <1>2, <1>5
<1>. HIDE DEF method, path, body
<1>9. AllSaid(r)
  BY <1>1, <1>3, <1>4, OfControls DEF AllSaid
<1>10. \A e \in r : OnScreen(e)
  BY <1>1, <1>3, <1>4, OfControls
<1>11. Passes(r)
  <2>1. <<"path", form.v.path>> \in r => form.v.path \in AbsolutePaths
    <3>. DEFINE asked == <<"path", form.v.path>>
    <3>1. asked[1] = "path"
      OBVIOUS
    <3>. HIDE DEF asked
    <3>2. asked \in r => asked = path
      BY <1>1, <1>7, <1>8, <3>1
    <3>. QED
      BY <1>6, <3>2 DEF asked
  <2>2. HasText(r, {"method", "path"})
    BY <1>1, <1>8 DEF HasText
  <2>. QED
    BY <2>1, <2>2 DEF Passes, Accepted
<1>. QED
  BY <1>9, <1>10, <1>11

LEMMA ActorForm ==
  ASSUME FormInv, page = "actor", Complete, NEW r \in Outgoing
  PROVE  AllSaid(r) /\ (\A e \in r : OnScreen(e)) /\ Passes(r)
<1>. DEFINE space == <<"atespace", A!ResolvedAtespace(form, lists)>>
            name == <<"name", form.v.name>>
            namespace == <<"actorTemplateNamespace", A!ResolvedTemplate(form, lists)[1]>>
            template == <<"actorTemplateName", A!ResolvedTemplate(form, lists)[2]>>
            shown == InputNames \cup SelectNames
<1>1. r = {space, name, namespace, template} \cup Entries("labels", form.rows.labels)
  BY SameEntries DEF Outgoing, A!Requests
<1>2. /\ A!ResolvedAtespace(form, lists) # "" /\ form.v.name # ""
      /\ A!ResolvedTemplate(form, lists)[1] # "" /\ A!ResolvedTemplate(form, lists)[2] # ""
  BY DEF Complete, A!Complete
<1>3. /\ InputNames = {"name"} \cup (IF A!CustomAtespace(form, lists) THEN {"customAtespace"}
                                   ELSE {})
                     \cup (IF A!ManualTemplate(form, lists)
                           THEN {"templateNamespace", "templateName"} ELSE {})
      /\ SelectNames = (IF lists.spaces = {} THEN {} ELSE {"atespace"})
                       \cup (IF lists.failed THEN {} ELSE {"template"})
      /\ RowLists = {"labels"}
  BY DEF InputNames, SelectNames, RowLists
<1>4. StandsFor("name") = {name}
  BY <1>2, PlainControls DEF Special
<1>5. /\ \E c \in shown : space \in StandsFor(c)
      /\ \A c \in shown \cap {"atespace", "customAtespace"} : StandsFor(c) \subseteq {space}
  <2>1. CASE A!CustomAtespace(form, lists)
    <3>1. A!ResolvedAtespace(form, lists) = form.v.customAtespace
      BY <2>1 DEF A!ResolvedAtespace
    <3>2. StandsFor("customAtespace") = {space} /\ "customAtespace" \in shown
      BY <1>2, <1>3, <2>1, <3>1, SpecialControls
    <3>3. "atespace" \in shown => StandsFor("atespace") = {}
      BY <1>3, <2>1, SpecialControls DEF A!CustomAtespace
    <3>. QED
      BY <3>2, <3>3
  <2>2. CASE ~A!CustomAtespace(form, lists)
    <3>1. A!ResolvedAtespace(form, lists) = form.v.atespace
      BY <2>2 DEF A!ResolvedAtespace
    <3>2. StandsFor("atespace") = {space} /\ "atespace" \in shown
      BY <1>2, <1>3, <2>2, <3>1, SpecialControls DEF A!CustomAtespace
    <3>3. "customAtespace" \notin shown
      BY <1>3, <2>2
    <3>. QED
      BY <3>2, <3>3
  <2>. QED
    BY <2>1, <2>2
<1>6. /\ \E c \in shown : namespace \in StandsFor(c)
      /\ \E c \in shown : template \in StandsFor(c)
      /\ \A c \in shown \cap {"template", "templateNamespace", "templateName"} :
           StandsFor(c) \subseteq {namespace, template}
  <2>1. CASE A!ManualTemplate(form, lists)
    <3>1. /\ A!ResolvedTemplate(form, lists)[1] = form.v.templateNamespace
          /\ A!ResolvedTemplate(form, lists)[2] = form.v.templateName
      BY <2>1 DEF A!ResolvedTemplate
    <3>2. /\ StandsFor("templateNamespace") = {namespace} /\ "templateNamespace" \in shown
          /\ StandsFor("templateName") = {template} /\ "templateName" \in shown
      BY <1>2, <1>3, <2>1, <3>1, SpecialControls
    <3>3. "template" \in shown => StandsFor("template") = {}
      BY <1>3, <2>1, SpecialControls DEF A!ManualTemplate
    <3>. QED
      BY <3>2, <3>3
  <2>2. CASE ~A!ManualTemplate(form, lists)
    <3>1. form.v.template # "" /\ A!ResolvedTemplate(form, lists) = TemplateParts[form.v.template]
      BY <1>2, <2>2 DEF A!ResolvedTemplate
    <3>2. StandsFor("template") = {namespace, template} /\ "template" \in shown
      BY <1>3, <2>2, <3>1, SpecialControls DEF A!ManualTemplate
    <3>3. "templateNamespace" \notin shown /\ "templateName" \notin shown
      BY <1>3, <2>2
    <3>. QED
      BY <3>2, <3>3
  <2>. QED
    BY <2>1, <2>2
<1>7. IsRows(form.rows["labels"]) /\ "labels" \in LabelLists \cap RowLists
  BY <1>3, Shapes DEF FormInv, FormOK, LabelLists
<1>8. name[1] = "name" /\ name[2] # "" /\ space[1] = "atespace" /\ space[2] # ""
  BY <1>2
<1>9. shown \subseteq {"name", "atespace", "customAtespace", "template",
                      "templateNamespace", "templateName"} /\ "name" \in shown
  BY <1>3
<1>. HIDE DEF space, name, namespace, template, shown
<1>10. AllSaid(r)
  <2>1. \A c \in shown : StandsFor(c) \subseteq r
    <3>. SUFFICES ASSUME NEW c \in shown PROVE StandsFor(c) \subseteq {space, name, namespace, template}
      BY <1>1
    <3>1. CASE c = "name"
      BY <1>4, <3>1
    <3>2. CASE c \in {"atespace", "customAtespace"}
      BY <1>5, <3>2
    <3>3. CASE c \in {"template", "templateNamespace", "templateName"}
      BY <1>6, <3>3
    <3>. QED
      BY <1>9, <3>1, <3>2, <3>3
  <2>2. Entries("labels", form.rows["labels"]) \subseteq r
    BY <1>1
  <2>3. \A e \in RowEntries("labels") :
          e \in r \/ ("labels" # "env" /\ \E other \in RowEntries("labels") :
                          other # e /\ other \in r /\ other[2] = e[2])
    BY <1>7, <2>2, LabelsSaid
  <2>. QED
    BY <1>3, <2>1, <2>3, OfControls DEF AllSaid, shown
<1>11. \A e \in r : OnScreen(e)
  <2>1. \A e \in {space, name, namespace, template} : OnScreen(e)
    BY <1>4, <1>5, <1>6, <1>9, OfControls DEF shown
  <2>2. \A e \in Entries("labels", form.rows["labels"]) : OnScreen(e)
    BY <1>7, LabelsOnScreen
  <2>. QED
    BY <1>1, <2>1, <2>2
<1>12. Passes(r)
  <2>1. HasText(r, {"atespace", "name"})
    BY <1>1, <1>8 DEF HasText
  <2>. QED
    BY <2>1 DEF Passes, Accepted
<1>. QED
  BY <1>10, <1>11, <1>12

-----------------------------------------------------------------------------
(* The YAML tab of the two dialogs that have one.                            *)
LEMMA SameManifests ==
  T!Manifest(form) = Manifest(form) /\ P!Manifest(form) = Manifest(form) /\ P!Docs = Docs
<1>1. T!Docs = Docs /\ P!Docs = Docs
  BY DEF T!Docs, P!Docs, Docs, T!Doc, P!Doc, Doc, T!Undefined, P!Undefined, Undefined
<1>. QED
  BY <1>1 DEF T!Manifest, P!Manifest, Manifest, T!Parses, P!Parses, Parses, T!Or, P!Or, Or,
              T!Undefined, P!Undefined, Undefined

LEMMA DocFields ==
  \A shape, spec, namespace, name :
    /\ Doc(shape, spec, namespace, name).shape = shape
    /\ Doc(shape, spec, namespace, name).spec = spec
BY DEF Doc

LEMMA DocsParse ==
  \A d \in DOMAIN Docs : Parses(Docs[d]) => Docs[d].spec \in {"some", "empty", "list"}
<1>1. Docs.scalar.shape = "other"
  BY DocFields DEF Docs
<1>2. Docs.bare.spec = "some"
  BY DocFields DEF Docs
<1>3. Docs.braces.spec = "empty"
  BY DocFields DEF Docs
<1>4. Docs.full.spec = "some"
  BY DocFields DEF Docs
<1>5. Docs.unnamed.spec = "some"
  BY DocFields DEF Docs
<1>6. Docs.anonymous.spec = "some"
  <2>1. PICK blank : blank = ""
    OBVIOUS
  <2>2. Docs.anonymous = Doc("manifest", "some", "ns9", blank)
    BY <2>1 DEF Docs
  <2>. QED
    BY <2>2, DocFields
<1>7. Docs.hollow.spec = "empty"
  BY DocFields DEF Docs
<1>8. Docs.listed.spec = "list"
  BY DocFields DEF Docs
<1>9. Docs.specless.shape = "manifest" /\ Docs.specless.spec = "none"
  BY DocFields DEF Docs
<1>10. DOMAIN Docs = {"scalar", "bare", "braces", "full", "unnamed", "anonymous",
                      "specless", "hollow", "listed"}
  BY DEF Docs
<1>. QED
  BY <1>1, <1>2, <1>3, <1>4, <1>5, <1>6, <1>7, <1>8, <1>9, <1>10 DEF Parses

LEMMA ManifestForm ==
  ASSUME FormInv, page \in {"template", "pool"}, Complete, form.v.mode = "yaml",
         NEW sent \in Manifest(form), NEW r, sent \subseteq r,
         r \subseteq sent \cup {<<"labels", l[1], l[2]>> : l \in Docs[form.v.yamlText].labels}
  PROVE  AllSaid(r) /\ (\A e \in r : OnScreen(e)) /\ Passes(r)
<1>. DEFINE doc == Docs[form.v.yamlText]
            namespace == <<"namespace", Or(doc.namespace, form.v.namespace)>>
            name == <<"name", Or(doc.name, form.v.name)>>
            spec == <<"spec", form.v.yamlText>>
            labels == {<<"labels", l[1], l[2]>> : l \in doc.labels}
<1>1. /\ sent = {namespace, name, spec} /\ Parses(doc)
      /\ Or(doc.namespace, form.v.namespace) # "" /\ Or(doc.name, form.v.name) # ""
  BY DEF Manifest
<1>2. form.v.namespace # "" /\ form.v.name # "" /\ form.v.yamlText # ""
  BY DEF Complete, T!Complete, P!Complete
<1>3. /\ InputNames = {"namespace", "name", "yamlText"} /\ SelectNames = {"mode"}
      /\ RowLists = {}
  BY DEF InputNames, SelectNames, RowLists, T!RowLists, P!RowLists
<1>4. /\ StandsFor("namespace") = {<<"namespace", form.v.namespace>>}
      /\ StandsFor("name") = {<<"name", form.v.name>>}
      /\ StandsFor("yamlText") = {spec} /\ StandsFor("mode") = {}
  BY <1>2, PlainControls, SpecialControls DEF Special
<1>5. "mode" \in DOMAIN form.v /\ doc.spec \in {"some", "empty", "list"}
  <2>1. /\ "mode" \in DOMAIN form.v /\ form.v["yamlText"] \in ValuesOf("yamlText")
    BY Shapes DEF FormInv, FormOK
  <2>2. form.v.yamlText \in DOMAIN Docs
    BY <1>2, <2>1, Values, TextsAssumption
  <2>. QED
    BY <1>1, <2>1, <2>2, DocsParse
<1>6. /\ namespace[1] = "namespace" /\ namespace[2] # ""
      /\ name[1] = "name" /\ name[2] # ""
      /\ spec[1] = "spec" /\ spec[2] = form.v.yamlText
      /\ \A e \in labels : e[1] = "labels"
  <2>1. \A e \in labels : \E l \in doc.labels : e = <<"labels", l[1], l[2]>>
    OBVIOUS
  <2>2. \A key, value : <<"labels", key, value>>[1] = "labels"
    OBVIOUS
  <2>3. \A e \in labels : e[1] = "labels"
    <3>. HIDE DEF labels, doc
    <3>. QED
      BY <2>1, <2>2
  <2>. QED
    BY <1>1, <2>3
<1>7. AllSaid(r)
  <2>1. spec \in r
    BY <1>1
  <2>. QED
    BY <1>3, <1>4, <2>1, OfControls DEF AllSaid
<1>8. \A e \in r : OnScreen(e)
  <2>1. OnScreen(spec)
    BY <1>3, <1>4, OfControls
  <2>2. \A e \in labels : OnScreen(e)
    BY <1>5 DEF OnScreen
  <2>3. OnScreen(namespace)
    <3>1. CASE doc.namespace = Undefined
      BY <1>3, <1>4, <3>1, OfControls DEF Or
    <3>2. CASE doc.namespace # Undefined
      <4>1. namespace = <<"namespace", doc.namespace>>
        BY <3>2 DEF Or
      <4>. QED
        BY <1>5, <4>1 DEF OnScreen
    <3>. QED
      BY <3>1, <3>2
  <2>4. OnScreen(name)
    <3>1. CASE doc.name = Undefined
      BY <1>3, <1>4, <3>1, OfControls DEF Or
    <3>2. CASE doc.name # Undefined
      <4>1. name = <<"name", doc.name>>
        BY <3>2 DEF Or
      <4>. QED
        BY <1>5, <4>1 DEF OnScreen
    <3>. QED
      BY <3>1, <3>2
  <2>5. r \subseteq {namespace, name, spec} \cup labels
    BY <1>1
  <2>. HIDE DEF namespace, name, spec, labels
  <2>. QED
    BY <2>1, <2>2, <2>3, <2>4, <2>5
<1>9. Passes(r)
  <2>1. r \subseteq {namespace, name, spec} \cup labels /\ {namespace, name, spec} \subseteq r
    BY <1>1
  <2>. HIDE DEF namespace, name, spec, labels
  <2>2. CASE doc.spec = "some"
    <3>1. HasText(r, {"namespace", "name"})
      BY <1>6, <2>1 DEF HasText
    <3>2. \A e \in r : e[1] = "spec" => e[2] = form.v.yamlText
      BY <1>6, <2>1
    <3>. QED
      BY <2>2, <3>1, <3>2 DEF Passes, Accepted
  <2>3. CASE doc.spec \in {"empty", "list"}
    BY <1>6, <2>1, <2>3 DEF Passes
  <2>. QED
    BY <1>5, <2>2, <2>3
<1>. QED
  BY <1>7, <1>8, <1>9

-----------------------------------------------------------------------------
(* The form tab: fields that must be filled in and fields that may be.       *)
LEMMA SameFields ==
  \A names : /\ T!Required(form, names) = Required(form, names)
             /\ P!Required(form, names) = Required(form, names)
             /\ T!Optional(form, names) = Optional(form, names)
             /\ P!Optional(form, names) = Optional(form, names)
BY DEF T!Required, P!Required, Required, T!Optional, P!Optional, Optional

LEMMA Fields ==
  ASSUME NEW names, names \cap Special = {}
  PROVE  /\ \A c \in names : StandsFor(c) \subseteq Optional(form, names)
         /\ \A e \in Optional(form, names) : e[1] \in names /\ e \in StandsFor(e[1])
         /\ (\A c \in names : form.v[c] # "") => Required(form, names) = Optional(form, names)
<1>1. \A c \in names : StandsFor(c) = IF form.v[c] = "" THEN {} ELSE {<<c, form.v[c]>>}
  BY PlainControls
<1>2. \A c : <<c, form.v[c]>>[1] = c
  OBVIOUS
<1>3. \A c \in names : StandsFor(c) \subseteq Optional(form, names)
  BY <1>1 DEF Optional
<1>4. ASSUME NEW e \in Optional(form, names) PROVE e[1] \in names /\ e \in StandsFor(e[1])
  <2>1. PICK c \in names : form.v[c] # "" /\ e = <<c, form.v[c]>>
    BY DEF Optional
  <2>2. e[1] = c /\ e \in StandsFor(c)
    BY <1>1, <1>2, <2>1
  <2>. QED
    BY <2>2
<1>5. (\A c \in names : form.v[c] # "") => Required(form, names) = Optional(form, names)
  BY DEF Required, Optional
<1>. QED
  BY <1>3, <1>4, <1>5

LEMMA EntriesNamed == \A name, rows : \A e \in Entries(name, rows) : e[1] = name
<1>1. \A name, key, value : <<name, key, value>>[1] = name
  OBVIOUS
<1>. QED
  BY <1>1 DEF Entries

LEMMA PoolForms ==
  ASSUME FormInv, page = "pool", Complete, form.v.mode = "form", NEW r \in Outgoing
  PROVE  AllSaid(r) /\ (\A e \in r : OnScreen(e)) /\ Passes(r)
<1>. DEFINE required == {"namespace", "name", "ateomImage", "replicas"}
            optional == {"sandboxClass", "sandboxConfigName", "requestsCpu",
                         "requestsMemory", "limitsCpu", "limitsMemory"}
            needed == Optional(form, required)
            given == Optional(form, optional)
            labels == Entries("labels", form.rows["labels"])
            selector == Entries("nodeSelector", form.rows["nodeSelector"])
<1>1. \A c \in required : form.v[c] # ""
  BY TextsAssumption DEF Complete, P!Complete
<1>2. required \cap Special = {} /\ optional \cap Special = {}
  BY DEF Special
<1>3. Required(form, required) = needed
  BY <1>1, <1>2, Fields
<1>4. r = needed \cup given \cup labels \cup selector
  <2>1. {"sandboxClass", "sandboxConfigName"} \cup P!Resources = optional
    BY DEF P!Resources
  <2>2. r = P!FormRequest(form)
    BY DEF Outgoing, P!Requests
  <2>. HIDE DEF optional
  <2>. QED
    BY <1>3, <2>1, <2>2, SameFields, SameEntries DEF P!FormRequest
<1>5. /\ InputNames = required \cup optional /\ SelectNames = {"mode"}
      /\ RowLists = {"labels", "nodeSelector"}
  BY DEF InputNames, SelectNames, RowLists, P!RowLists, P!Resources
<1>6. \A list \in RowLists : list \in LabelLists \cap RowLists /\ IsRows(form.rows[list])
  BY <1>5, Shapes DEF FormInv, FormOK, LabelLists
<1>7. /\ \A c \in required : StandsFor(c) \subseteq needed
      /\ \A c \in optional : StandsFor(c) \subseteq given
      /\ \A e \in needed : e[1] \in required /\ e \in StandsFor(e[1])
      /\ \A e \in given : e[1] \in optional /\ e \in StandsFor(e[1])
  BY <1>2, Fields
<1>8. AllSaid(r)
  <2>1. \A c \in ShownControls : StandsFor(c) \subseteq r
    <3>. HIDE DEF required, optional, needed, given, labels, selector
    <3>. QED
      BY <1>4, <1>5, <1>7, OfControls, SpecialControls
  <2>2. \A list \in RowLists : Entries(list, form.rows[list]) \subseteq r
    BY <1>4, <1>5
  <2>3. \A list \in RowLists : \A e \in RowEntries(list) :
          e \in r \/ (list # "env" /\ \E other \in RowEntries(list) :
                       other # e /\ other \in r /\ other[2] = e[2])
    BY <1>6, <2>2, LabelsSaid
  <2>. QED
    BY <2>1, <2>3 DEF AllSaid
<1>9. \A e \in r : OnScreen(e)
  <2>1. \A e \in labels \cup selector : OnScreen(e)
    BY <1>5, <1>6, LabelsOnScreen
  <2>. HIDE DEF required, optional, needed, given, labels, selector
  <2>2. \A e \in needed \cup given : OnScreen(e)
    BY <1>5, <1>7, OfControls
  <2>. QED
    BY <1>4, <2>1, <2>2
<1>10. Passes(r)
  <2>1. \A e \in labels \cup selector : e[1] # "spec"
    BY EntriesNamed
  <2>2. "spec" \notin required \cup optional
    OBVIOUS
  <2>3. HasText(r, {"namespace", "name"})
    <3>1. \A c \in {"namespace", "name"} : <<c, form.v[c]>> \in needed
      BY <1>1 DEF Optional
    <3>2. \A c : <<c, form.v[c]>>[1] = c /\ <<c, form.v[c]>>[2] = form.v[c]
      OBVIOUS
    <3>3. \A c \in {"namespace", "name"} : form.v[c] # ""
      BY <1>1
    <3>. HIDE DEF needed
    <3>. QED
      BY <1>4, <3>1, <3>2, <3>3 DEF HasText
  <2>. HIDE DEF required, optional, needed, given, labels, selector
  <2>4. \A e \in r : e[1] # "spec"
    BY <1>4, <1>7, <2>1, <2>2
  <2>. QED
    BY <2>3, <2>4 DEF Passes, Accepted
<1>. QED
  BY <1>8, <1>9, <1>10

LEMMA EnvEntries ==
  RowEntries("env") = {T!EnvEntry(form.rows.env[i]) :
                         i \in {j \in 1..Len(form.rows.env) : T!CompleteEnv(form.rows.env[j])}}
<1>1. \A row : RowEntry("env", row) = IF T!CompleteEnv(row) THEN {T!EnvEntry(row)} ELSE {}
  BY DEF RowEntry, T!CompleteEnv, T!EnvEntry
<1>. QED
  BY <1>1 DEF RowEntries

LEMMA VolumeEntries == RowEntries("volumes") = T!Volumes(form)
<1>1. \A row : RowEntry("volumes", row) =
                 IF row.name = "" THEN {} ELSE {<<"volumes", row.name, row.durableDir>>}
  BY DEF RowEntry
<1>. QED
  BY <1>1 DEF RowEntries, T!Volumes

LEMMA TemplateForms ==
  ASSUME FormInv, page = "template", Complete, form.v.mode = "form", NEW r \in Outgoing
  PROVE  AllSaid(r) /\ (\A e \in r : OnScreen(e)) /\ Passes(r)
<1>. DEFINE required == {"namespace", "name", "pauseImage", "onPause", "onCommit", "location"}
            image == {"containerName", "containerImage"}
            needed == Optional(form, required)
            class == Optional(form, {"sandboxClass"})
            container == Optional(form, image)
            command == Optional(form, {"containerCommand"})
            probe == T!Readyz(form)
            env == RowEntries("env")
            labels == Entries("labels", form.rows["labels"])
            volumes == RowEntries("volumes")
            touched == T!ContainerTouched(form)
<1>1. /\ \A c \in required : form.v[c] # ""
      /\ touched => \A c \in image : form.v[c] # ""
  <2>1. form.v.onPause \in {"Full", "Data"} /\ form.v.onCommit \in {"Full", "Data"}
    BY Shapes, Values DEF FormInv, FormOK
  <2>. QED
    BY <2>1 DEF Complete, T!Complete
<1>2. /\ required \cap Special = {} /\ image \cap Special = {}
      /\ {"sandboxClass"} \cap Special = {} /\ {"containerCommand"} \cap Special = {}
  BY DEF Special
<1>3. /\ Required(form, required) = needed
      /\ touched => Required(form, image) = container
  BY <1>1, <1>2, Fields
<1>4. r = needed \cup class \cup (IF touched THEN container \cup command \cup probe \cup env ELSE {})
            \cup labels \cup volumes
  <2>1. r = T!FormRequest(form)
    BY DEF Outgoing, T!Requests
  <2>2. touched => T!Container(form) = container \cup command \cup probe \cup env
    BY <1>3, SameFields, EnvEntries DEF T!Container
  <2>. HIDE DEF touched, container, command, probe, env
  <2>. QED
    BY <1>3, <2>1, <2>2, SameFields, SameEntries, VolumeEntries DEF T!FormRequest, touched
<1>5. /\ InputNames = {"namespace", "name", "pauseImage", "sandboxClass", "containerName",
                       "containerImage", "containerCommand", "readyzPath", "readyzPort", "location"}
      /\ SelectNames = {"mode", "onPause", "onCommit"}
      /\ RowLists = {"env", "labels", "volumes"}
  BY DEF InputNames, SelectNames, RowLists, T!RowLists
<1>6. "labels" \in LabelLists \cap RowLists /\ IsRows(form.rows["labels"])
  BY <1>5, Shapes DEF FormInv, FormOK, LabelLists
<1>7. /\ \A c \in required : StandsFor(c) \subseteq needed
      /\ \A e \in needed : e[1] \in required /\ e \in StandsFor(e[1])
      /\ \A c \in image : StandsFor(c) \subseteq container
      /\ \A e \in container : e[1] \in image /\ e \in StandsFor(e[1])
      /\ StandsFor("sandboxClass") \subseteq class
      /\ \A e \in class : e[1] = "sandboxClass" /\ e \in StandsFor(e[1])
      /\ StandsFor("containerCommand") \subseteq command
      /\ \A e \in command : e[1] = "containerCommand" /\ e \in StandsFor(e[1])
  BY <1>2, Fields
<1>8. /\ form.v.readyzPath # "" /\ form.v.readyzPort # "" =>
           /\ StandsFor("readyzPath") \subseteq probe
           /\ form.v.readyzPort \in Numbers => StandsFor("readyzPort") \subseteq probe
           /\ \A e \in probe :
                \/ e \in StandsFor("readyzPath") \cup StandsFor("readyzPort")
                \/ form.v.readyzPort \notin Numbers /\ e = <<"readyzPort", "null">>
      /\ form.v.readyzPath = "" \/ form.v.readyzPort = "" => probe = {}
  <2>1. /\ StandsFor("readyzPath") =
             IF form.v.readyzPath = "" THEN {} ELSE {<<"readyzPath", form.v.readyzPath>>}
        /\ StandsFor("readyzPort") =
             IF form.v.readyzPort = "" THEN {} ELSE {<<"readyzPort", form.v.readyzPort>>}
    BY PlainControls DEF Special
  <2>2. CASE form.v.readyzPath # "" /\ form.v.readyzPort # ""
    <3>1. probe = {<<"readyzPath", form.v.readyzPath>>, <<"readyzPort",
                     IF form.v.readyzPort \in Numbers THEN form.v.readyzPort ELSE "null">>}
      BY <2>2 DEF T!Readyz, T!Number
    <3>2. <<"readyzPath", form.v.readyzPath>> \in StandsFor("readyzPath")
      BY <2>1, <2>2
    <3>3. <<"readyzPort", form.v.readyzPort>> \in StandsFor("readyzPort")
      BY <2>1, <2>2
    <3>. QED
      BY <2>1, <2>2, <3>1, <3>2, <3>3
  <2>3. CASE form.v.readyzPath = "" \/ form.v.readyzPort = ""
    BY <2>3 DEF T!Readyz
  <2>. QED
    BY <2>2, <2>3
<1>9. /\ \A c \in image \cup {"containerCommand", "readyzPath", "readyzPort"} :
           StandsFor(c) # {} => touched
      /\ env # {} => touched
  <2>1. \A c \in {"containerName", "containerImage", "containerCommand", "readyzPath",
                  "readyzPort"} : StandsFor(c) # {} => form.v[c] # ""
    BY PlainControls, SpecialControls DEF Special
  <2>2. ASSUME env # {} PROVE \E i \in 1..Len(form.rows.env) : form.rows.env[i].name # ""
    BY <2>2, EnvEntries DEF T!CompleteEnv
  <2>. QED
    BY <2>1, <2>2 DEF T!ContainerTouched
<1>10. AllSaid(r)
  <2>1. \A c \in ShownControls :
          \/ StandsFor(c) \subseteq r
          \/ c \in {"readyzPath", "readyzPort"}
               /\ (form.v.readyzPath = "" \/ form.v.readyzPort = "")
          \/ c = "readyzPort" /\ form.v[c] \notin Numbers
    <3>. SUFFICES ASSUME NEW c \in ShownControls
                  PROVE  \/ StandsFor(c) \subseteq r
                         \/ c \in {"readyzPath", "readyzPort"}
                              /\ (form.v.readyzPath = "" \/ form.v.readyzPort = "")
                         \/ c = "readyzPort" /\ form.v[c] \notin Numbers
      OBVIOUS
    <3>0. c \in required \cup image \cup {"mode", "sandboxClass", "containerCommand",
                                         "readyzPath", "readyzPort"}
      BY <1>5, OfControls
    <3>1. CASE c \in required
      BY <1>4, <1>7, <3>1
    <3>2. CASE c = "mode"
      BY <3>2, SpecialControls
    <3>3. CASE c = "sandboxClass"
      BY <1>4, <1>7, <3>3
    <3>. HIDE DEF touched, needed, class, container, command, probe, env, labels, volumes
    <3>4. CASE c \in image \cup {"containerCommand"}
      BY <1>4, <1>7, <1>9, <3>4
    <3>5. CASE c \in {"readyzPath", "readyzPort"}
      BY <1>4, <1>8, <1>9, <3>5
    <3>. QED
      BY <3>0, <3>1, <3>2, <3>3, <3>4, <3>5
  <2>2. labels \subseteq r
    BY <1>4
  <2>3. \A e \in RowEntries("labels") :
          e \in r \/ ("labels" # "env" /\ \E other \in RowEntries("labels") :
                          other # e /\ other \in r /\ other[2] = e[2])
    BY <1>6, <2>2, LabelsSaid
  <2>4. RowEntries("env") \subseteq r /\ RowEntries("volumes") \subseteq r
    <3>. HIDE DEF touched, needed, class, container, command, probe, labels
    <3>. QED
      BY <1>4, <1>9
  <2>. QED
    BY <1>5, <2>1, <2>3, <2>4 DEF AllSaid
<1>11. \A e \in r : OnScreen(e)
  <2>1. \A e \in labels : OnScreen(e)
    BY <1>6, LabelsOnScreen
  <2>2. \A e \in env \cup volumes : OnScreen(e)
    BY <1>5 DEF OnScreen
  <2>3. required \cup image \cup {"sandboxClass", "containerCommand", "readyzPath", "readyzPort"}
          \subseteq InputNames \cup SelectNames
    BY <1>5
  <2>. HIDE DEF required, image, touched, needed, class, container, command, probe, env,
                labels, volumes
  <2>4. \A e \in needed \cup class \cup container \cup command : OnScreen(e)
    BY <1>7, <2>3, OfControls
  <2>5. \A e \in probe : OnScreen(e)
    <3>1. page = "template" /\ form.v.readyzPort \notin Numbers
            => OnScreen(<<"readyzPort", "null">>)
      BY DEF OnScreen
    <3>. QED
      BY <1>8, <2>3, <3>1, OfControls
  <2>. QED
    BY <1>4, <2>1, <2>2, <2>4, <2>5
<1>12. Passes(r)
  <2>1. \A e \in labels : e[1] # "spec"
    BY EntriesNamed
  <2>2. \A e \in env \cup volumes \cup probe : e[1] # "spec"
    <3>1. \A a, b, c : /\ <<"env", a, b>>[1] = "env" /\ <<"envRef", a, b, c>>[1] = "envRef"
                       /\ <<"volumes", a, b>>[1] = "volumes"
                       /\ <<"readyzPath", a>>[1] = "readyzPath"
                       /\ <<"readyzPort", a>>[1] = "readyzPort"
      OBVIOUS
    <3>2. \A e \in env : e[1] # "spec"
      BY <3>1, EnvEntries DEF T!EnvEntry
    <3>3. \A e \in volumes : e[1] # "spec"
      BY <3>1, VolumeEntries DEF T!Volumes
    <3>4. \A e \in probe : e[1] # "spec"
      BY <3>1 DEF T!Readyz
    <3>. QED
      BY <3>2, <3>3, <3>4
  <2>3. "spec" \notin required \cup image
    OBVIOUS
  <2>4. HasText(r, {"namespace", "name"})
    <3>1. \A c \in {"namespace", "name"} : <<c, form.v[c]>> \in needed
      BY <1>1 DEF Optional
    <3>2. \A c : <<c, form.v[c]>>[1] = c /\ <<c, form.v[c]>>[2] = form.v[c]
      OBVIOUS
    <3>3. \A c \in {"namespace", "name"} : form.v[c] # ""
      BY <1>1
    <3>. HIDE DEF needed, class, container, command, probe, env, labels, volumes, touched
    <3>. QED
      BY <1>4, <3>1, <3>2, <3>3 DEF HasText
  <2>. HIDE DEF required, image, touched, needed, class, container, command, probe, env,
                labels, volumes
  <2>5. \A e \in r : e[1] # "spec"
    BY <1>4, <1>7, <2>1, <2>2, <2>3
  <2>. QED
    BY <2>4, <2>5 DEF Passes, Accepted
<1>. QED
  BY <1>10, <1>11, <1>12

-----------------------------------------------------------------------------
LEMMA Sends ==
  ASSUME FormInv, WouldSend, NEW r \in Outgoing
  PROVE  AllSaid(r) /\ (\A e \in r : OnScreen(e)) /\ Passes(r)
<1>. Complete /\ page \in AllPages
  BY DEF WouldSend, FormInv
<1>1. CASE page \in {"template", "pool"}
  <2>1. form.v.mode \in {"form", "yaml"}
    BY <1>1, Shapes, Values DEF FormInv, FormOK
  <2>2. CASE form.v.mode = "yaml"
    <3>1. PICK sent \in Manifest(form) :
            r = sent \/ r = sent \cup {<<"labels", l[1], l[2]>> : l \in Docs[form.v.yamlText].labels}
      <4>1. CASE page = "template"
        BY <2>2, <4>1, SameManifests DEF Outgoing, T!Requests
      <4>2. CASE page = "pool"
        BY <2>2, <4>2, SameManifests DEF Outgoing, P!Requests
      <4>. QED
        BY <1>1, <4>1, <4>2
    <3>2. /\ sent \subseteq r
          /\ r \subseteq sent \cup {<<"labels", l[1], l[2]>> : l \in Docs[form.v.yamlText].labels}
      BY <3>1
    <3>. QED
      BY <1>1, <2>2, <3>2, ManifestForm
  <2>. QED
    BY <1>1, <2>1, <2>2, TemplateForms, PoolForms
<1>. QED
  BY <1>1, ActorForm, KeyForm, ModelForm, SecretForm, AtespaceForm, TaskForm DEF AllPages

(* Every field and row on the screen that says something is in the request   *)
(* (CreateTemplateDialog.tsx:160-246 and the other forms).                   *)
THEOREM NothingShownIsLost == Spec => []ShownIsSent
<1>1. FormInv => ShownIsSent
  BY Sends DEF ShownIsSent, AllSaid
<1>. QED
  BY <1>1, SpecFormInv, PTL

(* Nothing is sent of a tab, an input or a list that is not displayed, but   *)
(* for the known exceptions (CreateActorDialog.tsx:108-145).                 *)
THEOREM NothingHiddenIsSent == Spec => []SentIsShown
<1>1. FormInv => SentIsShown
  BY Sends DEF SentIsShown, OnScreen
<1>. QED
  BY <1>1, SpecFormInv, PTL

(* What a form lets through passes the checks of the handlers, unless it is  *)
(* a document whose spec is empty or a list (server.go:176-606).             *)
THEOREM RequestsPass == Spec => []PassesServerChecks
<1>1. FormInv => PassesServerChecks
  BY Sends DEF PassesServerChecks, Passes
<1>. QED
  BY <1>1, SpecFormInv, PTL
=============================================================================
