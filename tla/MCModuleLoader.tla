--------------------------- MODULE MCModuleLoader ---------------------------
(* Two modules besides the main one; import lists of at most two names.    *)
EXTENDS ModuleLoader
=============================================================================
