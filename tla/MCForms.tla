------------------------------- MODULE MCForms -------------------------------
(* Values for TLC: one text for most inputs, two where two must differ.    *)
EXTENDS Forms

MCPages == {"template", "pool", "actor", "key", "model", "secret", "atespace", "task"}

MCTexts ==
  [c \in {"name", "sandboxClass", "containerName", "containerImage",
          "containerCommand", "location", "ateomImage", "sandboxConfigName",
          "requestsCpu", "requestsMemory", "limitsCpu", "limitsMemory",
          "customAtespace", "templateNamespace", "templateName", "keyAlias",
          "modelName", "model", "apiKey", "apiBase", "body", "readyzPath",
          "env.name", "env.value", "volumes"} |-> {"x"}]
  @@ [namespace |-> {"ns1", "ns2"}, key |-> {"k"}, value |-> {"x", "y"},
      readyzPort |-> {"80", "http"}, replicas |-> {"0", "2"},
      maxBudget |-> {"0", "2", "ten"}, models |-> {",", "m1, m2"},
      prefix |-> {"openai/", "other/"}, path |-> {"ask", "/ask"},
      pauseImage |-> {}, yamlText |-> DOMAIN Docs \ {"braces", "unnamed"}]

MCNumbers == {"0", "2", "80"}
MCCounts == {"2", "80"}
MCSecretsOf == [ns1 |-> {<<"s1", "k1">>, <<"s2", "k2">>}, ns2 |-> {<<"s1", "k2">>}]
MCTemplateParts == ("ns1/t1" :> <<"ns1", "t1">>)
MCModelLists == ("," :> {}) @@ ("m1, m2" :> {"m1", "m2"})
MCMaxEdits ==
  [template |-> 5, pool |-> 5, actor |-> 6, key |-> 4, model |-> 6, secret |-> 6,
   atespace |-> 3, task |-> 4]

MCMaxRows == [p \in MCPages |-> IF p = "template" THEN 1 ELSE 2]
=============================================================================
