----------------------------- MODULE MCAgentLink -----------------------------
(* An agent whose tunnel does not get through and that pulls two actions of   *)
(* any kind, and one that has a tunnel and no actions: each half alone with   *)
(* the restarts they share.                                                   *)
EXTENDS AgentLink, Sequences

NoActions == <<"absent", "absent">>
MixedKinds == {<<"plain", "absent">>, <<"plain", "plain">>, <<"plain", "garbled">>, <<"plain", "poison">>, <<"poison", "plain">>}
AllKinds == MixedKinds \cup {NoActions}

MixedSetups ==
  [pulls : {TRUE}, upgrades : {FALSE}, kind : MixedKinds]
  \cup [pulls : {FALSE}, upgrades : {TRUE}, kind : {NoActions}]
=============================================================================
