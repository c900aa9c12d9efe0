--------------------------- MODULE MCModuleLoader ---------------------------
(***************************************************************************)
(* ModuleLoader for every host and build, with a few calls.                *)
(***************************************************************************)
EXTENDS ModuleLoader

CONSTANTS c1, c2, c3

MCCalls == {c1, c2, c3}

MCConfigs == Config
=============================================================================
