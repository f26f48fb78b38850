------------------------- MODULE MCPluginLifecycle -------------------------
(* PluginLifecycle on small instances; the .cfg files give the constants.    *)
EXTENDS PluginLifecycle
=============================================================================
