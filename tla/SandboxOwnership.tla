------------------------- MODULE SandboxOwnership -------------------------
(***************************************************************************)
(* What the sandbox boundary promises to its caller, without saying how.   *)
(* A sandbox is unborn, then held by exactly one session, then either gone *)
(* for good or abandoned: its removal could not be confirmed.  Nothing is  *)
(* acquired while another sandbox is held or abandoned, and a session may  *)
(* report success only for a sandbox that is gone.                         *)
(***************************************************************************)
CONSTANTS Sandboxes

VARIABLES fate,     \* what has become of each sandbox
          verdict   \* how the last session ended, "open" while one runs

vars == <<fate, verdict>>

Fates == {"unborn", "held", "abandoned", "gone"}

Init == /\ fate = [s \in Sandboxes |-> "unborn"]
        /\ verdict = "failure"

\* A session starts only when nothing is held or abandoned.
Begin == /\ verdict # "open"
         /\ \A t \in Sandboxes : fate[t] \in {"unborn", "gone"}
         /\ verdict' = "open"
         /\ UNCHANGED fate

Acquire(s) == /\ verdict = "open"
              /\ fate[s] = "unborn"
              /\ \A t \in Sandboxes : fate[t] \in {"unborn", "gone"}
              /\ fate' = [fate EXCEPT ![s] = "held"]
              /\ UNCHANGED verdict

\* Removal is confirmed, at once or by a later attempt.
Release(s) == /\ verdict = "open"
              /\ fate[s] \in {"held", "abandoned"}
              /\ fate' = [fate EXCEPT ![s] = "gone"]
              /\ UNCHANGED verdict

\* Removal was attempted and could not be confirmed; a failed session may end
\* in the same step.
Abandon(s) == /\ verdict = "open"
              /\ fate[s] = "held"
              /\ fate' = [fate EXCEPT ![s] = "abandoned"]
              /\ verdict' \in {"open", "failure"}

Fail == /\ verdict' = "failure"
        /\ UNCHANGED fate

Succeed == /\ verdict = "open"
           /\ \E s \in Sandboxes : fate[s] = "gone"
           /\ \A s \in Sandboxes : fate[s] \in {"unborn", "gone"}
           /\ verdict' = "success"
           /\ UNCHANGED fate

Next == \/ Begin \/ Fail \/ Succeed
        \/ \E s \in Sandboxes : Acquire(s) \/ Release(s) \/ Abandon(s)

Spec == Init /\ [][Next]_vars
=============================================================================
