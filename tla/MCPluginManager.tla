--------------------------- MODULE MCPluginManager ---------------------------
(* Small instances of PluginManager: a preinstalled plugin with a table and a  *)
(* plugin that reads it.                                                       *)
EXTENDS PluginManager

MCNeeds == [p \in Plugins |-> IF p \in Producers THEN {} ELSE Producers]
=============================================================================
