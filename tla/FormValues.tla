----------------------------- MODULE FormValues -----------------------------
(***************************************************************************)
(* What the console's forms have in common: the values a user can put in   *)
(* their controls, rows of labels that become a JSON object, numbers, and  *)
(* the pasted YAML that two of them take instead of their fields           *)
(* (lib/k8s.ts, lib/presets.ts).                                           *)
(*                                                                         *)
(* A form is a record: v gives the value of every input and select, rows   *)
(* the sequence of records of every list of rows.  A text stands for what  *)
(* trim leaves of it, "" for an empty or blank one.  A request is the set  *)
(* of its entries, tuples that begin with the name of the field.           *)
(***************************************************************************)
EXTENDS Naturals, Sequences, TLC

CONSTANTS
  Texts,      \* the texts a user types into each input
  Numbers,    \* the numerals among them
  Counts      \* the numerals of numbers above zero

Undefined == "undefined"

(* An input offers every text, a select its options.                       *)
Inputs(names) == [c \in names |-> Texts[c] \cup {""}]

Number(text) == IF text \in Numbers THEN text ELSE "null"

(* A field that is sent only when it is not blank.                         *)
Optional(f, names) == {<<c, f.v[c]>> : c \in {d \in names : f.v[d] # ""}}

Required(f, names) == {<<c, f.v[c]>> : c \in names}

BlankLabel == [key |-> "", value |-> ""]

CompleteLabel(row) == row.key # "" /\ row.value # ""

(* Object.fromEntries of the complete rows: of the rows with one key the   *)
(* last one counts.                                                        *)
Entries(name, rows) ==
  {<<name, rows[i].key, rows[i].value>> :
     i \in {j \in 1..Len(rows) :
              /\ CompleteLabel(rows[j])
              /\ \A k \in j + 1..Len(rows) :
                   CompleteLabel(rows[k]) => rows[k].key # rows[j].key}}

-----------------------------------------------------------------------------
(* Pasted documents, by the shape specFromYaml tells apart: not a mapping  *)
(* (or no YAML), a bare spec, or a manifest.  spec is "some", "empty" ({}),*)
(* "list" or "none"; a name is a text, "" or not a string; labels are the  *)
(* pairs of strings.                                                       *)
Doc(shape, spec, namespace, name) ==
  [shape |-> shape, spec |-> spec, namespace |-> namespace, name |-> name,
   labels |-> IF shape = "manifest" THEN {<<"k9", "v9">>} ELSE {}]

Docs ==
  [scalar |-> Doc("other", "none", Undefined, Undefined),
   bare |-> Doc("bare", "some", Undefined, Undefined),
   braces |-> Doc("bare", "empty", Undefined, Undefined),
   full |-> Doc("manifest", "some", "ns9", "n9"),
   unnamed |-> Doc("manifest", "some", Undefined, Undefined),
   anonymous |-> Doc("manifest", "some", "ns9", ""),
   specless |-> Doc("manifest", "none", "ns9", "n9"),
   hollow |-> Doc("manifest", "empty", "ns9", "n9"),
   listed |-> Doc("manifest", "list", "ns9", "n9")]

(* specFromYaml throws for anything but a mapping, and for a manifest      *)
(* whose spec is null or no object; a list is an object.                   *)
Parses(doc) == doc.shape = "bare" \/ (doc.shape = "manifest" /\ doc.spec # "none")

Or(text, default) == IF text = Undefined THEN default ELSE text

(* Mutant: the name of the manifest is taken as it is.                     *)
ManifestUnchecked(f) ==
  LET doc == Docs[f.v.yamlText]
      namespace == Or(doc.namespace, f.v.namespace)
      name == Or(doc.name, f.v.name)
  IN {{<<"namespace", namespace>>, <<"name", name>>, <<"spec", f.v.yamlText>>} :
        x \in IF Parses(doc) THEN {1} ELSE {}}

(* The request of a document, none if it is refused with a message: it     *)
(* does not parse, or leaves the namespace or the name empty.              *)
Manifest(f) ==
  LET doc == Docs[f.v.yamlText]
      namespace == Or(doc.namespace, f.v.namespace)
      name == Or(doc.name, f.v.name)
  IN {{<<"namespace", namespace>>, <<"name", name>>, <<"spec", f.v.yamlText>>} :
        x \in IF Parses(doc) /\ namespace # "" /\ name # "" THEN {1} ELSE {}}
=============================================================================
