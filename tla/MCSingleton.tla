---------------------------- MODULE MCSingleton ----------------------------
(* Singleton for TLC.                                                     *)
EXTENDS Singleton
=============================================================================
