----------------------------- MODULE StepRunner -----------------------------
(***************************************************************************)
(* What a playbook run promises to who started it, without consumers,      *)
(* transactions, agents or timers: it executes one step at a time, never   *)
(* goes back to an earlier step, and once done begins nothing more.        *)
(***************************************************************************)
EXTENDS Naturals

CONSTANTS Runs
VARIABLES
  Lengths,   \* Lengths[r]: number of steps of the run (it never changes)
  phase,     \* phase[r]: "new", "idle" (between steps), "busy", "done"
  position   \* position[r]: the step begun last, 0 before the first

vars == <<Lengths, phase, position>>

Init == /\ Lengths \in [Runs -> Nat]
        /\ phase = [r \in Runs |-> "new"]
        /\ position = [r \in Runs |-> 0]

Accept(r) == /\ phase[r] = "new"
             /\ phase' = [phase EXCEPT ![r] = "idle"]
             /\ UNCHANGED <<Lengths, position>>

Begin(r, s) == /\ phase[r] = "idle"
               /\ s >= position[r]
               /\ position' = [position EXCEPT ![r] = s]
               /\ phase' = [phase EXCEPT ![r] = "busy"]
               /\ UNCHANGED Lengths

Finish(r) == /\ phase[r] = "busy"
             /\ phase' = [phase EXCEPT ![r] = "idle"]
             /\ UNCHANGED <<Lengths, position>>

End(r) == /\ phase[r] # "done"
          /\ phase' = [phase EXCEPT ![r] = "done"]
          /\ UNCHANGED <<Lengths, position>>

Next == \E r \in Runs :
          \/ Accept(r) \/ Finish(r) \/ End(r)
          \/ \E s \in 1 .. Lengths[r] : Begin(r, s)

Spec == Init /\ [][Next]_vars
=============================================================================
