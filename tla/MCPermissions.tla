---------------------------- MODULE MCPermissions ----------------------------
(* Specs whose transitions toggle every feature and move every namespace.  *)
EXTENDS Permissions

MCExtraRoles == {"x1"}
MCGroups == {"g1", "g2"}

Plain == [on |-> {"gateway"}, mcp |-> Everywhere, type |-> "kuadrant", wf |-> "wf1",
          extra |-> {}, tools |-> {}, console |-> {}]
Full == [on |-> Features, mcp |-> Everywhere, type |-> "kuadrant", wf |-> "wf1",
         extra |-> {"x1"}, tools |-> {<<"sre", "g1">>, <<"sre", "g2">>, <<"x1", "g1">>},
         console |-> {}]
Namespaced == [Full EXCEPT !.mcp = "mcp1", !.tools = {<<"sre", "g1">>}]
Moving == [Namespaced EXCEPT !.mcp = "mcp2", !.type = "envoy", !.wf = "wf2",
                             !.console = {{}}, !.tools = {<<"sre", "g2">>, <<"cicd", "g1">>}]
Bare == [Plain EXCEPT !.on = {}, !.tools = {<<"sre", "g1">>, <<"cicd", "g2">>}]

MCSpecs == {Plain, Full, Namespaced, Moving, Bare}
MCCreated == {Plain}
MCUpgraded == {Namespaced}
=============================================================================
