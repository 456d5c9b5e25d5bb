---------------------- MODULE SandboxLifecycleProofs ----------------------
(***************************************************************************)
(* TLAPS proofs about SandboxLifecycle, for every set of sandboxes.        *)
(***************************************************************************)
EXTENDS SandboxLifecycle, TLAPS

\* Where the session's own sandbox stands at every await.
SandboxAtPc ==
    /\ pc # "idle" => sandbox \in Sandboxes
    /\ task = "running" => pc \in {"reclaim", "publish_reclaim", "retry", "destroy"}
    /\ pc = "admit" => states[sandbox] = "absent"
    /\ pc \in CreateSteps => states[sandbox] = "pending"
    /\ pc = "body" => states[sandbox] \in {"active", "cleanup_unsafe", "cleaned"}
    /\ pc = "reclaim" =>
          /\ task \in {"running"} \cup Ended
          /\ states[sandbox] = IF task = "removed" THEN "cleaned" ELSE "pending"
    /\ pc = "publish_reclaim" =>
          /\ task \in {"running"} \cup Ended
          /\ states[sandbox] = IF task = "removed" THEN "cleaned" ELSE "active"
    /\ pc \in {"retry", "destroy"} =>
          /\ task \in {"running", "removed", "failed"}
          /\ states[sandbox] \in {"active", "cleanup_unsafe", "cleaned"}
          /\ task = "removed" => states[sandbox] = "cleaned"

\* Every other sandbox is unborn or confirmed removed, and so is the session's
\* own when the caller may open the next one.
OthersClean ==
    /\ \A s \in Sandboxes : s # sandbox => ~Unclean(s)
    /\ pc = "idle" /\ result \in {"none", "normal"} =>
            \A s \in Sandboxes : ~Unclean(s)

\* The provider's cleanup loop: it runs for a failure, and only the teardown
\* aborts its task.
ReclaimFacts ==
    /\ pc \in {"reclaim", "retry", "publish_reclaim"} => primary \in Failures
    /\ pc \in {"reclaim", "publish_reclaim"} /\ task = "aborted" =>
            overtaken /\ teardown

\* A cancellation that reached the session is still to be seen in it.
CancellationKept ==
    /\ pc \in {"admit", "body"} \cup CreateSteps => ~delivered
    /\ pc = "publish_reclaim" /\ delivered => overtaken \/ primary = "cancelled"
    /\ pc = "destroy" /\ delivered => body # "none" \/ cancelled
    /\ pc = "idle" /\ result \in {"none", "normal"} => ~delivered

IInv == /\ TypeOK /\ SandboxAtPc /\ OthersClean /\ ReclaimFacts
        /\ CancellationKept /\ ConfirmedRemoval /\ FailClosed

\* The inductive invariant holds before the first session.
LEMMA InitIInv == Init => IInv
BY DEF Init, IInv, TypeOK, SandboxAtPc, OthersClean, ReclaimFacts, CancellationKept,
       ConfirmedRemoval, FailClosed, Unclean, ProviderStates, ControlPoints, Results,
       TaskStates, Events, CreateSteps

\* Every step of a session, of its removal task and of a cancellation keeps it.
LEMMA StepIInv == IInv /\ [Next]_vars => IInv'
<1> SUFFICES ASSUME IInv, [Next]_vars PROVE IInv'
  OBVIOUS
<1> USE SandboxAssumption DEF IInv, Failures, Ended, CreateSteps, Unclean
<1>1. CASE Admitted
  <2> USE <1>1 DEF Admitted, sessionVars
  <2>1. TypeOK'
    BY DEF TypeOK, SandboxAtPc, ProviderStates, ControlPoints, Results, TaskStates, Events
  <2>2. SandboxAtPc'
    BY DEF TypeOK, SandboxAtPc, ProviderStates
  <2>3. OthersClean' /\ ConfirmedRemoval'
    BY DEF TypeOK, SandboxAtPc, OthersClean, ConfirmedRemoval, FailClosed
  <2>4. ReclaimFacts' /\ CancellationKept'
    BY DEF TypeOK, SandboxAtPc, ReclaimFacts, CancellationKept
  <2>5. FailClosed'
    BY DEF TypeOK, SandboxAtPc, OthersClean, ReclaimFacts, FailClosed
  <2>6. QED
    BY <2>1, <2>2, <2>3, <2>4, <2>5
<1>2. CASE StepSucceeds
  <2> USE <1>2 DEF StepSucceeds, NextSteps, sessionVars
  <2>1. TypeOK'
    BY DEF TypeOK, SandboxAtPc, ProviderStates, ControlPoints, Results, TaskStates, Events
  <2>2. SandboxAtPc'
    BY DEF TypeOK, SandboxAtPc, ProviderStates
  <2>3. OthersClean' /\ ConfirmedRemoval'
    BY DEF TypeOK, SandboxAtPc, OthersClean, ConfirmedRemoval, FailClosed
  <2>4. ReclaimFacts' /\ CancellationKept'
    BY DEF TypeOK, SandboxAtPc, ReclaimFacts, CancellationKept
  <2>5. FailClosed'
    BY DEF TypeOK, SandboxAtPc, OthersClean, ReclaimFacts, FailClosed
  <2>6. QED
    BY <2>1, <2>2, <2>3, <2>4, <2>5
<1>3. CASE Created
  <2> USE <1>3 DEF Created, NextSteps, sessionVars
  <2>1. TypeOK'
    <3>1. alive' \subseteq Sandboxes /\ states' \in [Sandboxes -> ProviderStates]
      BY DEF TypeOK, SandboxAtPc, ProviderStates
    <3>2. pc' \in ControlPoints /\ task' \in TaskStates /\ result' \in Results
      BY DEF TypeOK, ControlPoints, Results, TaskStates
    <3>3. log' \subseteq Events
      BY DEF TypeOK, Events
    <3>4. /\ sandbox' \in Sandboxes \cup {NoSandbox}
          /\ primary' \in Failures \cup {"none"} /\ body' \in Failures \cup {"none"}
      BY DEF TypeOK
    <3>5. /\ overtaken' \in BOOLEAN /\ cancelled' \in BOOLEAN /\ audit' \in BOOLEAN
          /\ delivered' \in BOOLEAN /\ teardown' \in BOOLEAN
      BY DEF TypeOK
    <3>6. QED
      BY <3>1, <3>2, <3>3, <3>4, <3>5 DEF TypeOK
  <2>2. SandboxAtPc'
    BY DEF TypeOK, SandboxAtPc, ProviderStates
  <2>3. OthersClean' /\ ConfirmedRemoval'
    BY DEF TypeOK, SandboxAtPc, OthersClean, ConfirmedRemoval, FailClosed
  <2>4. ReclaimFacts' /\ CancellationKept'
    BY DEF TypeOK, SandboxAtPc, ReclaimFacts, CancellationKept
  <2>5. FailClosed'
    BY DEF TypeOK, SandboxAtPc, OthersClean, ReclaimFacts, FailClosed
  <2>6. QED
    BY <2>1, <2>2, <2>3, <2>4, <2>5
<1>4. CASE ReclaimEnds
  <2> USE <1>4 DEF ReclaimEnds, Recorded, Leave, MarkUnsafe, sessionVars
  <2>1. TypeOK'
    <3>1. alive' \subseteq Sandboxes /\ states' \in [Sandboxes -> ProviderStates]
      BY DEF TypeOK, SandboxAtPc, ProviderStates
    <3>2. pc' \in ControlPoints /\ task' \in TaskStates /\ result' \in Results
      BY DEF TypeOK, ControlPoints, Results, TaskStates
    <3>3. log' \subseteq Events
      BY DEF TypeOK, Events
    <3>4. /\ sandbox' \in Sandboxes \cup {NoSandbox}
          /\ primary' \in Failures \cup {"none"} /\ body' \in Failures \cup {"none"}
      BY DEF TypeOK
    <3>5. /\ overtaken' \in BOOLEAN /\ cancelled' \in BOOLEAN /\ audit' \in BOOLEAN
          /\ delivered' \in BOOLEAN /\ teardown' \in BOOLEAN
      BY DEF TypeOK
    <3>6. QED
      BY <3>1, <3>2, <3>3, <3>4, <3>5 DEF TypeOK
  <2>2. SandboxAtPc'
    BY DEF TypeOK, SandboxAtPc, ProviderStates
  <2>3. OthersClean' /\ ConfirmedRemoval'
    BY DEF TypeOK, SandboxAtPc, OthersClean, ConfirmedRemoval, FailClosed
  <2>4. ReclaimFacts' /\ CancellationKept'
    BY DEF TypeOK, SandboxAtPc, ReclaimFacts, CancellationKept
  <2>5. FailClosed'
    BY DEF TypeOK, SandboxAtPc, OthersClean, ReclaimFacts, FailClosed
  <2>6. QED
    BY <2>1, <2>2, <2>3, <2>4, <2>5
<1>5. CASE RetryEnds
  <2> USE <1>5 DEF RetryEnds, Recorded, Leave, sessionVars
  <2>1. TypeOK'
    BY DEF TypeOK, SandboxAtPc, ProviderStates, ControlPoints, Results, TaskStates, Events
  <2>2. SandboxAtPc'
    BY DEF TypeOK, SandboxAtPc, ProviderStates
  <2>3. OthersClean' /\ ConfirmedRemoval'
    BY DEF TypeOK, SandboxAtPc, OthersClean, ConfirmedRemoval, FailClosed
  <2>4. ReclaimFacts' /\ CancellationKept'
    BY DEF TypeOK, SandboxAtPc, ReclaimFacts, CancellationKept
  <2>5. FailClosed'
    BY DEF TypeOK, SandboxAtPc, OthersClean, ReclaimFacts, FailClosed
  <2>6. QED
    BY <2>1, <2>2, <2>3, <2>4, <2>5
<1>6. CASE PublishReclaimEnds
  <2> USE <1>6 DEF PublishReclaimEnds, Recorded, MarkUnsafe, sessionVars
  <2>1. TypeOK'
    <3>1. alive' \subseteq Sandboxes /\ states' \in [Sandboxes -> ProviderStates]
      BY DEF TypeOK, SandboxAtPc, ProviderStates
    <3>2. pc' \in ControlPoints /\ task' \in TaskStates /\ result' \in Results
      BY DEF TypeOK, ControlPoints, Results, TaskStates
    <3>3. log' \subseteq Events
      BY DEF TypeOK, Events
    <3>4. /\ sandbox' \in Sandboxes \cup {NoSandbox}
          /\ primary' \in Failures \cup {"none"} /\ body' \in Failures \cup {"none"}
      BY DEF TypeOK
    <3>5. /\ overtaken' \in BOOLEAN /\ cancelled' \in BOOLEAN /\ audit' \in BOOLEAN
          /\ delivered' \in BOOLEAN /\ teardown' \in BOOLEAN
      BY DEF TypeOK
    <3>6. QED
      BY <3>1, <3>2, <3>3, <3>4, <3>5 DEF TypeOK
  <2>2. SandboxAtPc'
    BY DEF TypeOK, SandboxAtPc, ProviderStates
  <2>3. OthersClean' /\ ConfirmedRemoval'
    BY DEF TypeOK, SandboxAtPc, OthersClean, ConfirmedRemoval, FailClosed
  <2>4. ReclaimFacts' /\ CancellationKept'
    BY DEF TypeOK, SandboxAtPc, ReclaimFacts, CancellationKept
  <2>5. FailClosed'
    BY DEF TypeOK, SandboxAtPc, OthersClean, ReclaimFacts, FailClosed
  <2>6. QED
    BY <2>1, <2>2, <2>3, <2>4, <2>5
<1>7. CASE DestroyEnds
  <2> USE <1>7 DEF DestroyEnds, Recorded, Leave, Outcome, sessionVars
  <2>1. TypeOK'
    BY DEF TypeOK, SandboxAtPc, ProviderStates, ControlPoints, Results, TaskStates, Events
  <2>2. SandboxAtPc'
    BY DEF TypeOK, SandboxAtPc, ProviderStates
  <2>3. OthersClean' /\ ConfirmedRemoval'
    BY DEF TypeOK, SandboxAtPc, OthersClean, ConfirmedRemoval, FailClosed
  <2>4. ReclaimFacts' /\ CancellationKept'
    BY DEF TypeOK, SandboxAtPc, ReclaimFacts, CancellationKept
  <2>5. FailClosed'
    BY DEF TypeOK, SandboxAtPc, OthersClean, ReclaimFacts, FailClosed
  <2>6. QED
    BY <2>1, <2>2, <2>3, <2>4, <2>5
<1>8. ASSUME NEW kind \in Failures, Refused(kind) PROVE IInv'
  <2> USE <1>8 DEF Refused, Recorded, Leave, sessionVars
  <2>1. TypeOK'
    BY DEF TypeOK, SandboxAtPc, ProviderStates, ControlPoints, Results, TaskStates, Events
  <2>2. SandboxAtPc'
    BY DEF TypeOK, SandboxAtPc, ProviderStates
  <2>3. OthersClean' /\ ConfirmedRemoval'
    BY DEF TypeOK, SandboxAtPc, OthersClean, ConfirmedRemoval, FailClosed
  <2>4. ReclaimFacts' /\ CancellationKept'
    BY DEF TypeOK, SandboxAtPc, ReclaimFacts, CancellationKept
  <2>5. FailClosed'
    BY DEF TypeOK, SandboxAtPc, OthersClean, ReclaimFacts, FailClosed
  <2>6. QED
    BY <2>1, <2>2, <2>3, <2>4, <2>5
<1>9. ASSUME NEW kind \in Failures, StepFails(kind) PROVE IInv'
  <2> USE <1>9 DEF StepFails, StartReclaim, sessionVars
  <2>1. TypeOK'
    BY DEF TypeOK, SandboxAtPc, ProviderStates, ControlPoints, Results, TaskStates, Events
  <2>2. SandboxAtPc'
    BY DEF TypeOK, SandboxAtPc, ProviderStates
  <2>3. OthersClean' /\ ConfirmedRemoval'
    BY DEF TypeOK, SandboxAtPc, OthersClean, ConfirmedRemoval, FailClosed
  <2>4. ReclaimFacts' /\ CancellationKept'
    BY DEF TypeOK, SandboxAtPc, ReclaimFacts, CancellationKept
  <2>5. FailClosed'
    BY DEF TypeOK, SandboxAtPc, OthersClean, ReclaimFacts, FailClosed
  <2>6. QED
    BY <2>1, <2>2, <2>3, <2>4, <2>5
<1>10. ASSUME NEW kind \in Failures, PublishFails(kind) PROVE IInv'
  <2> USE <1>10 DEF PublishFails, sessionVars
  <2>1. TypeOK'
    BY DEF TypeOK, SandboxAtPc, ProviderStates, ControlPoints, Results, TaskStates, Events
  <2>2. SandboxAtPc'
    BY DEF TypeOK, SandboxAtPc, ProviderStates
  <2>3. OthersClean' /\ ConfirmedRemoval'
    BY DEF TypeOK, SandboxAtPc, OthersClean, ConfirmedRemoval, FailClosed
  <2>4. ReclaimFacts' /\ CancellationKept'
    BY DEF TypeOK, SandboxAtPc, ReclaimFacts, CancellationKept
  <2>5. FailClosed'
    BY DEF TypeOK, SandboxAtPc, OthersClean, ReclaimFacts, FailClosed
  <2>6. QED
    BY <2>1, <2>2, <2>3, <2>4, <2>5
<1>11. ASSUME NEW kind \in Failures \cup {"none"}, BodyEnds(kind) PROVE IInv'
  <2> USE <1>11 DEF BodyEnds, AfterBody, Recorded, sessionVars
  <2>1. TypeOK'
    <3>1. alive' \subseteq Sandboxes /\ states' \in [Sandboxes -> ProviderStates]
      BY DEF TypeOK, SandboxAtPc, ProviderStates
    <3>2. pc' \in ControlPoints /\ task' \in TaskStates /\ result' \in Results
      BY DEF TypeOK, ControlPoints, Results, TaskStates
    <3>3. log' \subseteq Events
      BY DEF TypeOK, Events
    <3>4. /\ sandbox' \in Sandboxes \cup {NoSandbox}
          /\ primary' \in Failures \cup {"none"} /\ body' \in Failures \cup {"none"}
      BY DEF TypeOK
    <3>5. /\ overtaken' \in BOOLEAN /\ cancelled' \in BOOLEAN /\ audit' \in BOOLEAN
          /\ delivered' \in BOOLEAN /\ teardown' \in BOOLEAN
      BY DEF TypeOK
    <3>6. QED
      BY <3>1, <3>2, <3>3, <3>4, <3>5 DEF TypeOK
  <2>2. SandboxAtPc'
    BY DEF TypeOK, SandboxAtPc, ProviderStates
  <2>3. OthersClean' /\ ConfirmedRemoval'
    BY DEF TypeOK, SandboxAtPc, OthersClean, ConfirmedRemoval, FailClosed
  <2>4. ReclaimFacts' /\ CancellationKept'
    BY DEF TypeOK, SandboxAtPc, ReclaimFacts, CancellationKept
  <2>5. FailClosed'
    BY DEF TypeOK, SandboxAtPc, OthersClean, ReclaimFacts, FailClosed
  <2>6. QED
    BY <2>1, <2>2, <2>3, <2>4, <2>5
<1>12. CASE Removes
  <2> USE <1>12 DEF Removes, sessionVars
  <2>1. TypeOK'
    BY DEF TypeOK, SandboxAtPc, ProviderStates, ControlPoints, Results, TaskStates, Events
  <2>2. SandboxAtPc'
    BY DEF TypeOK, SandboxAtPc, ProviderStates
  <2>3. OthersClean' /\ ConfirmedRemoval'
    BY DEF TypeOK, SandboxAtPc, OthersClean, ConfirmedRemoval, FailClosed
  <2>4. ReclaimFacts' /\ CancellationKept'
    BY DEF TypeOK, SandboxAtPc, ReclaimFacts, CancellationKept
  <2>5. FailClosed'
    BY DEF TypeOK, SandboxAtPc, OthersClean, ReclaimFacts, FailClosed
  <2>6. QED
    BY <2>1, <2>2, <2>3, <2>4, <2>5
<1>13. CASE RemovalFails
  <2> USE <1>13 DEF RemovalFails, FailedState, Destroying, sessionVars
  <2>1. TypeOK'
    BY DEF TypeOK, SandboxAtPc, ProviderStates, ControlPoints, Results, TaskStates, Events
  <2>2. SandboxAtPc'
    BY DEF TypeOK, SandboxAtPc, ProviderStates
  <2>3. OthersClean' /\ ConfirmedRemoval'
    BY DEF TypeOK, SandboxAtPc, OthersClean, ConfirmedRemoval, FailClosed
  <2>4. ReclaimFacts' /\ CancellationKept'
    BY DEF TypeOK, SandboxAtPc, ReclaimFacts, CancellationKept
  <2>5. FailClosed'
    BY DEF TypeOK, SandboxAtPc, OthersClean, ReclaimFacts, FailClosed
  <2>6. QED
    BY <2>1, <2>2, <2>3, <2>4, <2>5
<1>14. CASE Cancel
  <2> USE <1>14 DEF Cancel, Waiting, sessionVars
  <2>1. TypeOK'
    <3>1. alive' \subseteq Sandboxes /\ states' \in [Sandboxes -> ProviderStates]
      BY DEF TypeOK, SandboxAtPc, ProviderStates
    <3>2. pc' \in ControlPoints /\ task' \in TaskStates /\ result' \in Results
      BY DEF TypeOK, ControlPoints, Results, TaskStates
    <3>3. log' \subseteq Events
      BY DEF TypeOK, Events
    <3>4. /\ sandbox' \in Sandboxes \cup {NoSandbox}
          /\ primary' \in Failures \cup {"none"} /\ body' \in Failures \cup {"none"}
      BY DEF TypeOK
    <3>5. /\ overtaken' \in BOOLEAN /\ cancelled' \in BOOLEAN /\ audit' \in BOOLEAN
          /\ delivered' \in BOOLEAN /\ teardown' \in BOOLEAN
      BY DEF TypeOK
    <3>6. QED
      BY <3>1, <3>2, <3>3, <3>4, <3>5 DEF TypeOK
  <2>2. SandboxAtPc'
    BY DEF TypeOK, SandboxAtPc, ProviderStates
  <2>3. OthersClean' /\ ConfirmedRemoval'
    BY DEF TypeOK, SandboxAtPc, OthersClean, ConfirmedRemoval, FailClosed
  <2>4. ReclaimFacts' /\ CancellationKept'
    BY DEF TypeOK, SandboxAtPc, ReclaimFacts, CancellationKept
  <2>5. FailClosed'
    BY DEF TypeOK, SandboxAtPc, OthersClean, ReclaimFacts, FailClosed
  <2>6. QED
    BY <2>1, <2>2, <2>3, <2>4, <2>5
<1>15. CASE Teardown
  <2> USE <1>15 DEF Teardown, Waiting, Destroying, sessionVars
  <2>1. TypeOK'
    <3>1. alive' \subseteq Sandboxes /\ states' \in [Sandboxes -> ProviderStates]
      BY DEF TypeOK, SandboxAtPc, ProviderStates
    <3>2. pc' \in ControlPoints /\ task' \in TaskStates /\ result' \in Results
      BY DEF TypeOK, ControlPoints, Results, TaskStates
    <3>3. log' \subseteq Events
      BY DEF TypeOK, Events
    <3>4. /\ sandbox' \in Sandboxes \cup {NoSandbox}
          /\ primary' \in Failures \cup {"none"} /\ body' \in Failures \cup {"none"}
      BY DEF TypeOK
    <3>5. /\ overtaken' \in BOOLEAN /\ cancelled' \in BOOLEAN /\ audit' \in BOOLEAN
          /\ delivered' \in BOOLEAN /\ teardown' \in BOOLEAN
      BY DEF TypeOK
    <3>6. QED
      BY <3>1, <3>2, <3>3, <3>4, <3>5 DEF TypeOK
  <2>2. SandboxAtPc'
    BY DEF TypeOK, SandboxAtPc, ProviderStates
  <2>3. OthersClean' /\ ConfirmedRemoval'
    BY DEF TypeOK, SandboxAtPc, OthersClean, ConfirmedRemoval, FailClosed
  <2>4. ReclaimFacts' /\ CancellationKept'
    BY DEF TypeOK, SandboxAtPc, ReclaimFacts, CancellationKept
  <2>5. FailClosed'
    BY DEF TypeOK, SandboxAtPc, OthersClean, ReclaimFacts, FailClosed
  <2>6. QED
    BY <2>1, <2>2, <2>3, <2>4, <2>5
<1>16. CASE BeginInvocation
  <2> USE <1>16 DEF BeginInvocation, MayBegin, sessionVars
  <2>1. TypeOK'
    BY DEF TypeOK, SandboxAtPc, ProviderStates, ControlPoints, Results, TaskStates, Events
  <2>2. SandboxAtPc'
    BY DEF TypeOK, SandboxAtPc, ProviderStates
  <2>3. OthersClean' /\ ConfirmedRemoval'
    BY DEF TypeOK, SandboxAtPc, OthersClean, ConfirmedRemoval, FailClosed
  <2>4. ReclaimFacts' /\ CancellationKept'
    BY DEF TypeOK, SandboxAtPc, ReclaimFacts, CancellationKept
  <2>5. FailClosed'
    BY DEF TypeOK, SandboxAtPc, OthersClean, ReclaimFacts, FailClosed
  <2>6. QED
    BY <2>1, <2>2, <2>3, <2>4, <2>5
<1>17. ASSUME NEW s \in Sandboxes, Open(s) PROVE IInv'
  <2> USE <1>17 DEF Open, MayOpen, Leave, sessionVars
  <2>1. TypeOK'
    BY DEF TypeOK, SandboxAtPc, ProviderStates, ControlPoints, Results, TaskStates, Events
  <2>2. SandboxAtPc'
    BY DEF TypeOK, SandboxAtPc, ProviderStates
  <2>3. OthersClean' /\ ConfirmedRemoval'
    BY DEF TypeOK, SandboxAtPc, OthersClean, ConfirmedRemoval, FailClosed
  <2>4. ReclaimFacts' /\ CancellationKept'
    BY DEF TypeOK, SandboxAtPc, ReclaimFacts, CancellationKept
  <2>5. FailClosed'
    BY DEF TypeOK, SandboxAtPc, OthersClean, ReclaimFacts, FailClosed
  <2>6. QED
    BY <2>1, <2>2, <2>3, <2>4, <2>5
<1>18. CASE UNCHANGED vars
  <2> USE <1>18 DEF vars, sessionVars
  <2>1. TypeOK'
    BY DEF TypeOK, SandboxAtPc, ProviderStates, ControlPoints, Results, TaskStates, Events
  <2>2. SandboxAtPc'
    BY DEF TypeOK, SandboxAtPc, ProviderStates
  <2>3. OthersClean' /\ ConfirmedRemoval'
    BY DEF TypeOK, SandboxAtPc, OthersClean, ConfirmedRemoval, FailClosed
  <2>4. ReclaimFacts' /\ CancellationKept'
    BY DEF TypeOK, SandboxAtPc, ReclaimFacts, CancellationKept
  <2>5. FailClosed'
    BY DEF TypeOK, SandboxAtPc, OthersClean, ReclaimFacts, FailClosed
  <2>6. QED
    BY <2>1, <2>2, <2>3, <2>4, <2>5
<1>19. QED
  BY <1>1, <1>2, <1>3, <1>4, <1>5, <1>6, <1>7, <1>8, <1>9, <1>10, <1>11, <1>12, <1>13, <1>14, <1>15, <1>16, <1>17, <1>18 DEF Next, MainStep, TaskStep

\* So it holds throughout, for any set of sandboxes.
LEMMA Inductive == Spec => []IInv
<1>1. Init => IInv
  BY InitIInv
<1>2. IInv /\ [Next]_vars => IInv'
  BY StepIInv
<1>3. QED
  BY <1>1, <1>2, PTL DEF Spec

\* Every variable keeps its type.
THEOREM TypeCorrect == Spec => []TypeOK
<1>1. IInv => TypeOK
  BY DEF IInv
<1>2. QED
  BY <1>1, Inductive, PTL

\* What the provider books as removed, or never made, the daemon does not hold:
\* ConfirmedRemoval for any number of sandboxes.
THEOREM RemovalIsConfirmed == Spec => []ConfirmedRemoval
<1>1. IInv => ConfirmedRemoval
  BY DEF IInv
<1>2. QED
  BY <1>1, Inductive, PTL

\* Never two sandboxes unaccounted for, across sessions and invocations.
THEOREM OneUncleanAtMost == Spec => []AtMostOneUnclean
<1>1. IInv => AtMostOneUnclean
  BY DEF IInv, OthersClean, AtMostOneUnclean
<1>2. QED
  BY <1>1, Inductive, PTL

\* A session that leaves its sandbox unconfirmed raises CleanupError, with the
\* exceptions FailClosed names and no other.
THEOREM CleanupFailsClosed == Spec => []FailClosed
<1>1. IInv => FailClosed
  BY DEF IInv
<1>2. QED
  BY <1>1, Inductive, PTL

\* destroy is only called in a state it accepts.
THEOREM DestroyAccepted == Spec => []DestroyIsLegal
<1>1. IInv => DestroyIsLegal
  BY DEF IInv, SandboxAtPc, DestroyIsLegal, Destroying
<1>2. QED
  BY <1>1, Inductive, PTL

\* A cancelled trial creates no further sandbox, whatever failure superseded the
\* cancellation.
THEOREM CancelStopsCreation == Spec => NoCreateAfterCancel
<1> DEFINE Creates == \E s \in Sandboxes : states[s] = "absent" /\ states'[s] = "pending"
<1>1. IInv /\ [Next]_vars => [Creates => ~delivered]_vars
  <2> SUFFICES ASSUME IInv, [Next]_vars, Creates PROVE ~delivered
    OBVIOUS
  <2>1. Admitted \/ UNCHANGED states \/ \E v \in ProviderStates \ {"pending"} :
            states' = [states EXCEPT ![sandbox] = v]
    BY SandboxAssumption DEF IInv, TypeOK, SandboxAtPc, Next, MainStep, TaskStep, vars,
       sessionVars, ProviderStates,
       StepSucceeds, Created, ReclaimEnds, MarkUnsafe, RetryEnds, PublishReclaimEnds,
       DestroyEnds, Refused, StepFails, PublishFails, BodyEnds, Removes, RemovalFails,
       FailedState, Destroying, Cancel, Teardown, BeginInvocation, Open
  <2>2. ~UNCHANGED states
    OBVIOUS
  <2>3. ~\E v \in ProviderStates \ {"pending"} : states' = [states EXCEPT ![sandbox] = v]
    BY DEF IInv, TypeOK
  <2>4. QED
    BY <2>1, <2>2, <2>3 DEF Admitted, IInv, CancellationKept
<1>2. QED
  BY <1>1, Inductive, PTL DEF Spec, NoCreateAfterCancel

\* The refinement mapping, named for the proofs below.
Fate == [s \in Sandboxes |-> FateOf(s)]
Verdict == IF pc # "idle" THEN "open" ELSE IF result = "normal" THEN "success" ELSE "failure"

FateFor(v) == CASE v = "absent" -> "unborn"
                [] v \in {"pending", "active"} -> "held"
                [] v = "cleanup_unsafe" -> "abandoned"
                [] v = "cleaned" -> "gone"

\* Before the first session every sandbox is unborn and nothing has succeeded.
LEMMA MappedInit == Init => Ownership!Init
BY DEF Init, Ownership!Init, FateOf

\* A step changes the fate of the session's sandbox only.
LEMMA FateUpdate ==
    ASSUME IInv, NEW v \in ProviderStates, states' = [states EXCEPT ![sandbox] = v],
           pc # "idle"
    PROVE  Fate' = [Fate EXCEPT ![sandbox] = FateFor(v)]
BY DEF IInv, TypeOK, SandboxAtPc, Fate, FateOf, FateFor, ProviderStates

\* A step that leaves the provider's states alone changes no fate.
LEMMA FateKept == ASSUME UNCHANGED states PROVE UNCHANGED Fate
BY DEF Fate, FateOf

\* A fate is read off the provider's state; the unaccounted sandboxes are those
\* held or abandoned.
LEMMA FateValue ==
    ASSUME IInv, NEW s \in Sandboxes
    PROVE  /\ Fate[s] = FateFor(states[s])
           /\ (Fate[s] \in {"unborn", "gone"}) <=> ~Unclean(s)
BY DEF IInv, TypeOK, Fate, FateOf, FateFor, Unclean, ProviderStates

\* Every step of the lifecycle is a step of the abstract boundary or stutters.
LEMMA MappedStep == IInv /\ [Next]_vars => [Ownership!Next]_(Ownership!vars)
<1> SUFFICES ASSUME IInv, [Next]_vars PROVE [Ownership!Next]_(Ownership!vars)
  OBVIOUS
<1> USE DEF Failures, Ended, CreateSteps
<1> DEFINE SameFate == UNCHANGED Fate
           Stutter == UNCHANGED <<Fate, Verdict>>
<1>a. ASSUME Stutter PROVE [Ownership!Next]_(Ownership!vars)
  BY <1>a DEF Ownership!vars, Fate, Verdict
<1>b. ASSUME SameFate, Verdict' = "failure" PROVE [Ownership!Next]_(Ownership!vars)
  BY <1>b DEF Ownership!Next, Ownership!Fail, Fate, Verdict
<1>c. ASSUME pc # "idle", Fate[sandbox] = "held", Fate' = [Fate EXCEPT ![sandbox] = "abandoned"],
             Verdict' \in {"open", "failure"}
      PROVE [Ownership!Next]_(Ownership!vars)
  <2>1. sandbox \in Sandboxes
    BY <1>c DEF IInv, SandboxAtPc
  <2>2. Ownership!Abandon(sandbox)
    BY <1>c DEF Ownership!Abandon, Fate, Verdict
  <2>3. QED
    BY <2>1, <2>2 DEF Ownership!Next
<1>d. ASSUME pc # "idle", pc' # "idle", Fate[sandbox] \in {"held", "abandoned"},
             Fate' = [Fate EXCEPT ![sandbox] = "gone"]
      PROVE [Ownership!Next]_(Ownership!vars)
  <2>1. sandbox \in Sandboxes
    BY <1>d DEF IInv, SandboxAtPc
  <2>2. Ownership!Release(sandbox)
    BY <1>d DEF Ownership!Release, Fate, Verdict
  <2>3. QED
    BY <2>1, <2>2 DEF Ownership!Next
<1>1. CASE Admitted
  <2>1. sandbox \in Sandboxes /\ Fate' = [Fate EXCEPT ![sandbox] = "held"]
    BY <1>1, FateUpdate DEF Admitted, IInv, SandboxAtPc, ProviderStates, FateFor
  <2>2. \A t \in Sandboxes : ~Unclean(t)
    BY <1>1 DEF Admitted, IInv, SandboxAtPc, OthersClean, Unclean
  <2>3. Fate[sandbox] = "unborn" /\ \A t \in Sandboxes : Fate[t] \in {"unborn", "gone"}
    BY <1>1, <2>1, <2>2, FateValue DEF Admitted, IInv, SandboxAtPc, FateFor
  <2>4. Ownership!Acquire(sandbox)
    BY <1>1, <2>1, <2>3 DEF Ownership!Acquire, Fate, Admitted
  <2>5. QED
    BY <2>1, <2>4 DEF Ownership!Next
<1>2. CASE StepSucceeds
  BY <1>2, <1>a, FateKept DEF StepSucceeds, Verdict, NextSteps
<1>3. CASE Created
  <2>1. Fate' = [Fate EXCEPT ![sandbox] = "held"]
    BY <1>3, FateUpdate DEF Created, ProviderStates, FateFor
  <2>2. Fate[sandbox] = "held" /\ Fate' = Fate
    BY <1>3, <2>1, FateValue DEF Created, IInv, SandboxAtPc, FateFor, Fate
  <2>3. QED
    BY <1>3, <1>a, <2>2 DEF Created, Verdict
<1>4. CASE ReclaimEnds
  <2>1. CASE task = "failed"
    <3>1. Fate' = [Fate EXCEPT ![sandbox] = "abandoned"]
      BY <1>4, <2>1, FateUpdate DEF ReclaimEnds, MarkUnsafe, ProviderStates, FateFor
    <3>2. Fate[sandbox] = "held" /\ pc # "idle"
      BY <1>4, <2>1, FateValue DEF ReclaimEnds, IInv, SandboxAtPc, FateFor
    <3>3. Verdict' \in {"open", "failure"}
      BY <1>4 DEF ReclaimEnds, Leave, Verdict
    <3>4. QED
      BY <3>1, <3>2, <3>3, <1>c
  <2>2. CASE task # "failed"
    BY <1>4, <2>2, <1>b, FateKept DEF ReclaimEnds, MarkUnsafe, Leave, Verdict
  <2>3. QED
    BY <2>1, <2>2
<1>5. CASE RetryEnds
  BY <1>5, <1>b, FateKept DEF RetryEnds, Leave, Verdict
<1>6. CASE PublishReclaimEnds
  <2>1. CASE task = "failed"
    <3>1. Fate' = [Fate EXCEPT ![sandbox] = "abandoned"]
      BY <1>6, <2>1, FateUpdate DEF PublishReclaimEnds, MarkUnsafe, ProviderStates, FateFor
    <3>2. Fate[sandbox] = "held" /\ pc # "idle"
      BY <1>6, <2>1, FateValue DEF PublishReclaimEnds, IInv, SandboxAtPc, FateFor
    <3>3. QED
      BY <1>6, <3>1, <3>2, <1>c DEF PublishReclaimEnds, Verdict
  <2>2. CASE task # "failed"
    BY <1>6, <2>2, <1>a, FateKept DEF PublishReclaimEnds, MarkUnsafe, Verdict
  <2>3. QED
    BY <2>1, <2>2
<1>7. CASE DestroyEnds
  <2>1. CASE result' = "normal"
    <3>1. task = "removed" /\ pc = "destroy" /\ UNCHANGED states /\ pc' = "idle"
      BY <1>7, <2>1 DEF DestroyEnds, Leave, Outcome
    <3>2. sandbox \in Sandboxes /\ Fate[sandbox] = "gone"
      BY <3>1, FateValue DEF IInv, SandboxAtPc, FateFor
    <3>3. \A s \in Sandboxes : Fate[s] \in {"unborn", "gone"}
      BY <3>2, FateValue DEF IInv, OthersClean
    <3>4. Ownership!Succeed
      BY <2>1, <3>1, <3>2, <3>3, FateKept DEF Ownership!Succeed, Fate
    <3>5. QED
      BY <3>4 DEF Ownership!Next
  <2>2. CASE result' # "normal"
    BY <1>7, <2>2, <1>b, FateKept DEF DestroyEnds, Leave, Verdict
  <2>3. QED
    BY <2>1, <2>2
<1>8. ASSUME NEW kind \in Failures, Refused(kind) PROVE [Ownership!Next]_(Ownership!vars)
  BY <1>8, <1>b, FateKept DEF Refused, Leave, Verdict
<1>9. ASSUME NEW kind \in Failures, StepFails(kind) \/ PublishFails(kind)
      PROVE [Ownership!Next]_(Ownership!vars)
  BY <1>9, <1>a, FateKept DEF StepFails, StartReclaim, PublishFails, Verdict
<1>10. ASSUME NEW kind \in Failures \cup {"none"}, BodyEnds(kind)
       PROVE [Ownership!Next]_(Ownership!vars)
  BY <1>10, <1>a, FateKept DEF BodyEnds, AfterBody, Verdict
<1>11. CASE Removes
  <2>1. pc # "idle" /\ pc' = pc
    BY <1>11 DEF Removes, IInv, SandboxAtPc
  <2>2. sandbox \in Sandboxes /\ Fate' = [Fate EXCEPT ![sandbox] = "gone"]
    BY <1>11, <2>1, FateUpdate DEF Removes, IInv, SandboxAtPc, ProviderStates, FateFor
  <2>3. Fate[sandbox] \in {"held", "abandoned", "gone"}
    BY <1>11, <2>2, FateValue DEF Removes, IInv, SandboxAtPc, FateFor
  <2>4. CASE Fate[sandbox] = "gone"
    <3>1. Fate' = Fate
      BY <2>2, <2>4 DEF Fate
    <3>2. QED
      BY <1>11, <2>1, <3>1, <1>a DEF Removes, sessionVars, Verdict
  <2>5. QED
    BY <2>1, <2>2, <2>3, <2>4, <1>d
<1>12. CASE RemovalFails
  <2>1. pc # "idle" /\ pc' = pc /\ sandbox \in Sandboxes
    BY <1>12 DEF RemovalFails, IInv, SandboxAtPc
  <2>2. CASE FailedState = states[sandbox]
    <3>1. UNCHANGED states
      BY <1>12, <2>2 DEF RemovalFails, IInv, TypeOK
    <3>2. QED
      BY <1>12, <2>1, <3>1, <1>a, FateKept DEF Verdict, RemovalFails
  <2>3. CASE FailedState = "cleanup_unsafe" /\ states[sandbox] # "cleanup_unsafe"
    <3>1. Fate' = [Fate EXCEPT ![sandbox] = "abandoned"]
      BY <1>12, <2>1, <2>3, FateUpdate DEF RemovalFails, ProviderStates, FateFor
    <3>2. Fate[sandbox] = "held"
      BY <1>12, <2>1, <2>3, FateValue
         DEF RemovalFails, Destroying, FailedState, IInv, SandboxAtPc, FateFor
    <3>3. QED
      BY <2>1, <3>1, <3>2, <1>c DEF Verdict
  <2>4. QED
    BY <2>2, <2>3 DEF FailedState
<1>13. CASE Cancel
  BY <1>13, <1>a, FateKept DEF Cancel, Verdict
<1>14. CASE Teardown
  <2>1. pc # "idle" /\ pc' = pc
    BY <1>14 DEF Teardown, Waiting
  <2>2. CASE UNCHANGED states
    BY <1>14, <2>1, <2>2, <1>a, FateKept DEF Teardown, Verdict
  <2>3. CASE ~UNCHANGED states
    <3>1. /\ states' = [states EXCEPT ![sandbox] = "cleanup_unsafe"]
          /\ Destroying /\ task = "running" /\ states[sandbox] # "cleaned"
      BY <1>14, <2>3 DEF Teardown
    <3>2. states[sandbox] = "active"
      BY <2>3, <3>1 DEF Destroying, IInv, SandboxAtPc, TypeOK
    <3>3. Fate' = [Fate EXCEPT ![sandbox] = "abandoned"]
      BY <2>1, <3>1, FateUpdate DEF ProviderStates, FateFor
    <3>4. Fate[sandbox] = "held"
      BY <2>1, <3>2, FateValue DEF IInv, SandboxAtPc, FateFor
    <3>5. QED
      BY <2>1, <3>3, <3>4, <1>c DEF Verdict
  <2>4. QED
    BY <2>2, <2>3
<1>15. CASE BeginInvocation
  BY <1>15, <1>b, FateKept DEF BeginInvocation, MayBegin, Verdict
<1>16. ASSUME NEW s \in Sandboxes, Open(s) PROVE [Ownership!Next]_(Ownership!vars)
  <2>1. CASE pc' = "idle"
    BY <1>16, <2>1, <1>b, FateKept DEF Open, Leave, Verdict
  <2>2. CASE pc' # "idle"
    <3>1. \A t \in Sandboxes : Fate[t] \in {"unborn", "gone"}
      BY <1>16, FateValue DEF Open, MayOpen, IInv, OthersClean
    <3>2. Ownership!Begin
      BY <1>16, <2>2, <3>1, FateKept DEF Open, MayOpen, Ownership!Begin, Fate
    <3>3. QED
      BY <3>2 DEF Ownership!Next
  <2>3. QED
    BY <2>1, <2>2
<1>17. CASE UNCHANGED vars
  BY <1>17, <1>a, FateKept DEF vars, Verdict
<1>18. QED
  BY <1>1, <1>2, <1>3, <1>4, <1>5, <1>6, <1>7, <1>8, <1>9, <1>10, <1>11, <1>12,
     <1>13, <1>14, <1>15, <1>16, <1>17 DEF Next, MainStep, TaskStep

\* The lifecycle implements the abstract boundary of SandboxOwnership.
THEOREM LifecycleImplementsOwnership == Spec => ImplementsOwnership
<1>1. Init => Ownership!Init
  BY MappedInit
<1>2. IInv /\ [Next]_vars => [Ownership!Next]_(Ownership!vars)
  BY MappedStep
<1>3. QED
  BY <1>1, <1>2, Inductive, PTL DEF Spec, ImplementsOwnership, Ownership!Spec

\* What the artifact holds at every await: no terminal event before the session
\* ends, and every event passed so far unless a write failed.
Terminal == {"create_failure", "cleanup_retry_success", "cleanup_retry_failure",
             "destroy_success", "destroy_failure", "closed"}
Chain == CASE pc \in {"body", "publish_reclaim"} -> {"create_attempt", "create_success"}
           [] pc = "destroy" -> {"create_attempt", "create_success", "destroy_attempt"}
           [] OTHER -> {}

EvidenceInv ==
    /\ pc # "idle" => Terminal \cap log = {}
    /\ pc # "idle" /\ ~audit => "create_attempt" \in log /\ Chain \subseteq log
    /\ pc \in {"admit", "reclaim", "retry"} \cup CreateSteps => "create_success" \notin log
    /\ EvidenceIsTrue

\* Every step keeps the lifecycle artifact truthful, failed writes included.
LEMMA StepEvidence == IInv /\ EvidenceInv /\ [Next]_vars => EvidenceInv'
<1> SUFFICES ASSUME IInv, EvidenceInv, [Next]_vars PROVE EvidenceInv'
  OBVIOUS
<1> USE SandboxAssumption DEF EvidenceInv, EvidenceIsTrue, Terminal, Chain,
        IInv, TypeOK, SandboxAtPc, Failures, Ended, CreateSteps, sessionVars
<1>1. CASE Admitted \/ StepSucceeds \/ Created
  BY <1>1 DEF Admitted, StepSucceeds, Created, NextSteps
<1>2. CASE ReclaimEnds
  BY <1>2 DEF ReclaimEnds, Recorded, Leave, MarkUnsafe
<1>3. CASE RetryEnds
  BY <1>3 DEF RetryEnds, Recorded, Leave
<1>4. CASE PublishReclaimEnds
  <2>1. CASE pc' = "body"
    BY <1>4, <2>1 DEF PublishReclaimEnds
  <2>2. CASE pc' = "destroy"
    <3>1. PICK kept \in SUBSET {"destroy_attempt"} :
             log' = log \cup kept /\ audit' = (audit \/ kept # {"destroy_attempt"})
      BY <1>4, <2>2 DEF PublishReclaimEnds, Recorded
    <3>2. pc = "publish_reclaim" /\ sandbox' = sandbox
      BY <1>4 DEF PublishReclaimEnds
    <3>3. ~audit' => ~audit /\ "destroy_attempt" \in log'
      BY <3>1
    <3>4. QED
      BY <2>2, <3>1, <3>2, <3>3
  <2>3. QED
    BY <1>4, <2>1, <2>2 DEF PublishReclaimEnds
<1>5. CASE DestroyEnds
  BY <1>5 DEF DestroyEnds, Recorded, Leave, Outcome
<1>6. ASSUME NEW kind \in Failures, Refused(kind) \/ StepFails(kind) \/ PublishFails(kind)
      PROVE EvidenceInv'
  BY <1>6 DEF Refused, Recorded, Leave, StepFails, StartReclaim, PublishFails
<1>7. ASSUME NEW kind \in Failures \cup {"none"}, BodyEnds(kind) PROVE EvidenceInv'
  BY <1>7 DEF BodyEnds, AfterBody, Recorded
<1>8. CASE Removes \/ RemovalFails
  BY <1>8 DEF Removes, RemovalFails, FailedState, Destroying
<1>9. CASE Cancel \/ Teardown
  BY <1>9 DEF Cancel, Teardown, Waiting, Destroying
<1>10. CASE BeginInvocation
  BY <1>10 DEF BeginInvocation, MayBegin
<1>11. ASSUME NEW s \in Sandboxes, Open(s) PROVE EvidenceInv'
  BY <1>11 DEF Open, MayOpen, Leave
<1>12. CASE UNCHANGED vars
  BY <1>12 DEF vars
<1>13. QED
  BY <1>1, <1>2, <1>3, <1>4, <1>5, <1>6, <1>7, <1>8, <1>9, <1>10, <1>11, <1>12
     DEF Next, MainStep, TaskStep

\* The lifecycle artifact tells the truth about creation and removal.
THEOREM EvidenceHolds == Spec => []EvidenceIsTrue
<1>1. Init => EvidenceInv
  BY DEF Init, EvidenceInv, EvidenceIsTrue, CreateSteps
<1>2. IInv /\ EvidenceInv /\ [Next]_vars => EvidenceInv'
  BY StepEvidence
<1>3. EvidenceInv => EvidenceIsTrue
  BY DEF EvidenceInv
<1>4. QED
  BY <1>1, <1>2, <1>3, Inductive, PTL DEF Spec

\* The books on the sandboxes are right: confirmed removals are removals, one
\* sandbox at most is open and destroy() is legal whenever it is called.
THEOREM BooksAreRight == Spec => []SandboxesAreAccounted
<1>1. ConfirmedRemoval /\ AtMostOneUnclean /\ DestroyIsLegal => SandboxesAreAccounted
  BY DEF SandboxesAreAccounted
<1>2. QED
  BY <1>1, RemovalIsConfirmed, OneUncleanAtMost, DestroyAccepted, PTL

-----------------------------------------------------------------------------
(* A session ends: its distance from the end                               *)

\* How many waits of the session are before it: a body that may still fail to
\* publish a port comes back once from the removal of its sandbox.
Waits ==
    CASE pc = "idle" -> 0
      [] pc \in {"retry", "destroy"} -> 1
      [] pc = "reclaim" -> 2
      [] pc = "body" -> IF states[sandbox] = "active" THEN 4 ELSE 2
      [] pc = "publish_reclaim" -> 3
      [] pc = "import_bundle" -> 5
      [] pc = "allow_network" -> 6
      [] pc = "verify_clone" -> 7
      [] pc = "create" -> 8
      [] pc = "admit" -> 9
      [] OTHER -> 0

\* A wait for a removal ends in two steps, the task's and the session's.
Distance == IF task = "running" THEN 2 * Waits + 1 ELSE 2 * Waits

\* Each step of a session or of its removal task brings the session nearer to its
\* end, and no cancellation takes it away.
SessionGetsOn ==
    /\ MainStep \/ TaskStep => Distance' < Distance
    /\ pc # "idle" => Distance' <= Distance

LEMMA WaitsCounted == Waits \in 0..9
BY DEF Waits

LEMMA WaitsCountedNext == Waits' \in 0..9
BY DEF Waits

LEMMA WaitIsTwoSteps ==
    \A i, j \in 0..9 : j < i =>
        /\ 2 * j < 2 * i /\ 2 * j < 2 * i + 1
        /\ 2 * j + 1 < 2 * i /\ 2 * j + 1 < 2 * i + 1
OBVIOUS

\* With one wait less the session is nearer, whatever its removal task does.
LEMMA FewerWaits ==
    ASSUME Waits' < Waits
    PROVE  Distance' < Distance
<1>1. Distance \in {2 * Waits, 2 * Waits + 1}
  BY DEF Distance
<1>2. Distance' \in {2 * Waits', 2 * Waits' + 1}
  BY DEF Distance
<1>3. QED
  BY ONLY <1>1, <1>2, Waits' < Waits, WaitsCounted, WaitsCountedNext, WaitIsTwoSteps

\* Each step of the main task leaves a wait behind.
LEMMA MainNearer ==
    ASSUME IInv, MainStep
    PROVE  Distance' < Distance
<1> SUFFICES Waits' < Waits
  BY FewerWaits
<1> USE DEF Waits, Leave, StartReclaim, AfterBody, CreateSteps, NextSteps
<1>1. CASE Admitted
  BY <1>1 DEF Admitted
<1>2. CASE StepSucceeds
  <2>1. /\ pc \in CreateSteps /\ pc' \in NextSteps(pc) \ {"done"}
    BY <1>2 DEF StepSucceeds
  <2>2. QED
    BY <2>1
<1>3. CASE Created
  <2>1. pc \in {"allow_network", "import_bundle"} /\ pc' \in {"body", "destroy"}
    BY <1>3 DEF Created
  <2>2. QED
    BY <2>1
<1>4. CASE ReclaimEnds \/ RetryEnds
  BY <1>4 DEF ReclaimEnds, RetryEnds
<1>5. CASE PublishReclaimEnds
  <2>1. sandbox' = sandbox /\ (task # "aborted" => states'[sandbox'] # "active")
    <3>1. /\ sandbox' = sandbox /\ sandbox \in Sandboxes
          /\ states \in [Sandboxes -> ProviderStates] /\ task \in Ended
          /\ states[sandbox] = IF task = "removed" THEN "cleaned" ELSE "active"
          /\ MarkUnsafe
      BY <1>5 DEF PublishReclaimEnds, IInv, SandboxAtPc, TypeOK
    <3>2. CASE task = "removed"
      BY <3>1, <3>2 DEF MarkUnsafe
    <3>3. CASE task = "failed"
      BY <3>1, <3>3 DEF MarkUnsafe
    <3>4. QED
      BY <3>1, <3>2, <3>3 DEF Ended
  <2>2. pc = "publish_reclaim" /\ (pc' = "destroy" \/ (pc' = "body" /\ task # "aborted"))
    BY <1>5 DEF PublishReclaimEnds
  <2>3. QED
    BY <2>1, <2>2
<1>6. CASE DestroyEnds
  BY <1>6 DEF DestroyEnds
<1>7. ASSUME NEW kind \in Failures, Refused(kind) \/ StepFails(kind) \/ PublishFails(kind)
      PROVE  Waits' < Waits
  BY <1>7 DEF Refused, StepFails, PublishFails
<1>8. ASSUME NEW kind, BodyEnds(kind) PROVE Waits' < Waits
  BY <1>8 DEF BodyEnds
<1>9. QED
  BY <1>1, <1>2, <1>3, <1>4, <1>5, <1>6, <1>7, <1>8 DEF MainStep

\* The removal task ends once.
LEMMA TaskNearer ==
    ASSUME IInv, TaskStep
    PROVE  Distance' < Distance
<1>1. /\ task = "running" /\ task' \in {"removed", "failed"}
      /\ pc' = pc /\ pc \in {"reclaim", "publish_reclaim", "retry", "destroy"}
  BY DEF TaskStep, Removes, RemovalFails, IInv, SandboxAtPc
<1>2. Waits' = Waits
  BY <1>1 DEF Waits
<1>3. Distance = 2 * Waits + 1 /\ Distance' = 2 * Waits
  BY <1>1, <1>2 DEF Distance
<1>4. QED
  BY ONLY <1>3, WaitsCounted

\* A cancellation lets the session wait where it is.
LEMMA CancelledStays ==
    ASSUME IInv, Cancel \/ Teardown
    PROVE  Distance' <= Distance
<1>1. /\ pc' = pc /\ pc \in {"reclaim", "publish_reclaim", "retry", "destroy"}
      /\ task' = task \/ task' = "aborted"
  BY DEF Cancel, Teardown, Waiting
<1>2. Waits' = Waits
  BY <1>1 DEF Waits
<1>3. Distance \in {2 * Waits, 2 * Waits + 1} /\ Distance' \in {Distance, 2 * Waits}
  BY <1>1, <1>2 DEF Distance
<1>4. QED
  BY ONLY <1>3, WaitsCounted

\* Every session gets on: its steps and those of its removal task bring it nearer
\* to its end, for any sandboxes; that these steps are taken is the fairness.
THEOREM SessionsGetOn == Spec => [](Distance \in 0..19) /\ [][SessionGetsOn]_vars
<1>1. Distance \in 0..19
  BY WaitsCounted DEF Distance
<1>2. IInv /\ [Next]_vars => [SessionGetsOn]_vars
  <2> SUFFICES ASSUME IInv, Next PROVE SessionGetsOn
    OBVIOUS
  <2>1. Distance \in 0..19 /\ Distance' \in 0..19
    <3>1. /\ Distance \in {2 * Waits, 2 * Waits + 1}
          /\ Distance' \in {2 * Waits', 2 * Waits' + 1}
      BY DEF Distance
    <3>2. \A i \in 0..9 : 2 * i \in 0..19 /\ 2 * i + 1 \in 0..19
      OBVIOUS
    <3>3. QED
      BY ONLY <3>1, <3>2, WaitsCounted, WaitsCountedNext
  <2>2. MainStep \/ TaskStep => Distance' < Distance
    BY MainNearer, TaskNearer
  <2>3. Cancel \/ Teardown => Distance' <= Distance
    BY CancelledStays
  <2>4. BeginInvocation \/ (\E s \in Sandboxes : Open(s)) => pc = "idle"
    BY DEF BeginInvocation, MayBegin, Open, MayOpen
  <2>5. Distance' < Distance => Distance' <= Distance
    BY ONLY <2>1
  <2>6. QED
    BY <2>2, <2>3, <2>4, <2>5 DEF Next, SessionGetsOn
<1>3. QED
  BY <1>1, <1>2, Inductive, PTL DEF Spec
=============================================================================
