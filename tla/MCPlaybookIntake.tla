-------------------------- MODULE MCPlaybookIntake --------------------------
(* A playbook that is saved in several forms, and one that it runs as a child. *)
EXTENDS PlaybookIntake, Sequences

CONSTANTS parent, child, ann, bob, ops, hourly, never

Bare == [by |-> {}, any |-> FALSE, event |-> FALSE, schedule |-> <<>>, children |-> {}]

\* The parent is triggered by the event and has a child, or is approved by one
\* of two, or by both and on another schedule and one that cron refuses.
MixedForms == [p \in Playbooks |->
  IF p = child THEN {[Bare EXCEPT !.by = {ann}]}
  ELSE { [Bare EXCEPT !.event = TRUE, !.schedule = <<hourly>>, !.children = {child}],
         [Bare EXCEPT !.event = TRUE, !.by = {ann}, !.any = TRUE],
         [Bare EXCEPT !.by = {ann, ops}, !.schedule = <<never, hourly>>] }]

OpsMembers == [t \in Teams |-> {bob}]
=============================================================================
