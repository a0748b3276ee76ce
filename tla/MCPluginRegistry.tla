-------------------------- MODULE MCPluginRegistry --------------------------
(* Values of Name and Source for TLC.                                        *)
EXTENDS PluginRegistry

\* One object's name is taken again by the next, and by an agent's plugin.
SharedName == [i \in Ids |-> CHOOSE n \in Names : TRUE]

\* Every CRD has a source of its own.
OwnSource == [i \in Crds |-> i]
=============================================================================
