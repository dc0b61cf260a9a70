-------------------------- MODULE MCMaterialRollout --------------------------
(* Small instance of MaterialRollout for TLC. *)
EXTENDS MaterialRollout

MCBuilders == <<"datastorage", "kubernaut-agent", "gateway", "apifrontend">>
MCChanging == {"postgresql", "valkey", "signing", "monitoring", "otlp-gateway"}
==============================================================================
