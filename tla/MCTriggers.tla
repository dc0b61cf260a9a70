----------------------------- MODULE MCTriggers -----------------------------
(* A CR that uses little, and one with the gateway that uses telemetry,     *)
(* fleet and the CAs.                                                      *)
EXTENDS Triggers

CONSTANTS s1, s2, m1

MCSlots == {"postgresql", "policy", "mcpGateway", "monitoringCA", "internalCA", "ansibleToken"}

With(ref, features) ==
  [ref |-> [s \in MCSlots |-> IF s \in DOMAIN ref THEN ref[s] ELSE None],
   features |-> features]

MCSpecs ==
  {With([postgresql |-> s1, policy |-> m1, internalCA |-> s2, ansibleToken |-> s2], {}),
   With([postgresql |-> s1, policy |-> m1, mcpGateway |-> s1, monitoringCA |-> s2, internalCA |-> s2],
        {"network", "fleet", "gateway"})}
=============================================================================
