-------------------------- MODULE MCResourceConsole --------------------------
(* A Secret and a template, in two namespaces.                             *)
EXTENDS ResourceConsole

MCPages == {"secret", "template"}
MCNamespaces == {"default", "team"}
MCObjects == {[kind |-> "secret", ns |-> "default"],
              [kind |-> "template", ns |-> "team"]}
MCInitial == {o \in MCObjects : o.kind = "template"}
=============================================================================
