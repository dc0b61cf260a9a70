--------------------------- MODULE MCAuditHashKey ---------------------------
(* Small instances of AuditHashKey: two Secret names, keys the operator    
   may generate and keys the administrator writes (OwnKeys).              *)
EXTENDS AuditHashKey
=============================================================================
