---------------------------- MODULE MCEngineLoop ----------------------------
(* EngineLoop on small instances.                                          *)
EXTENDS EngineLoop
==============================================================================
