---------------------------- MODULE MCClusterRBAC ----------------------------
(* ClusterRBAC for TLC.                                                    *)
EXTENDS ClusterRBAC
=============================================================================
