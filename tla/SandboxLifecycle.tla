------------------------- MODULE SandboxLifecycle -------------------------
(***************************************************************************)
(* One trial's sessions with a disposable sandbox: managed_sandbox of      *)
(* sandbox/lifecycle.py together with the parts of DockerSbxProvider it    *)
(* drives (create, publish_port, destroy and the cleanup of an uncertain   *)
(* failure).  The main task runs the session; removals run in a task of    *)
(* their own, so that a cancellation of the main task cannot stop them.    *)
(*                                                                         *)
(* A command of the sbx CLI ends in success, in a DockerSbxError (non-zero *)
(* exit, time limit, exhausted deadline, I/O error) or in a cancellation;  *)
(* _run_command and _raise_after_process_cleanup give a cancellation       *)
(* precedence over every other failure.  The daemon is external: it holds  *)
(* the sandboxes that really exist.                                        *)
(*                                                                         *)
(* The asyncio loop interleaves at awaits only, so an action is the code   *)
(* between two awaits.                                                     *)
(***************************************************************************)
EXTENDS Naturals, FiniteSets

CONSTANTS Sandboxes,   \* the ids create() may generate, each used once
          NoSandbox    \* no session has started yet

ASSUME SandboxAssumption == NoSandbox \notin Sandboxes

VARIABLES
    alive,       \* the daemon: sandboxes that exist
    states,      \* DockerSbxProvider._sandbox_states, "absent" for no entry
    pc,          \* where the main task waits
    sandbox,     \* the session's sandbox
    primary,     \* primary_error of create() or publish_port()
    overtaken,   \* a cancellation reached the provider's cleanup loop
    body,        \* outcome.body_failure
    cancelled,   \* outcome.cancellations is not empty
    audit,       \* outcome.audit_failures is not empty
    task,        \* the removal task: none, running or how it ended
    log,         \* events written to the lifecycle artifact
    result,      \* how the last session left managed_sandbox
    delivered,   \* history: a cancellation reached the main task in this invocation
    teardown     \* the second interrupt: asyncio.run cancels every task

vars == <<alive, states, pc, sandbox, primary, overtaken, body, cancelled,
          audit, task, log, result, delivered, teardown>>

-----------------------------------------------------------------------------
ProviderStates == {"absent", "pending", "active", "cleanup_unsafe", "cleaned"}

\* The awaits of create() once the id exists, in order; the bundle import runs
\* only when a runtime template is active.
CreateSteps == {"create", "verify_clone", "allow_network", "import_bundle"}
NextSteps(step) ==
    CASE step = "create"        -> {"verify_clone"}
      [] step = "verify_clone"  -> {"allow_network"}
      [] step = "allow_network" -> {"import_bundle", "done"}
      [] step = "import_bundle" -> {"done"}

ControlPoints == CreateSteps \cup
    {"idle", "admit", "reclaim", "retry", "body", "publish_reclaim", "destroy"}

Failures == {"error", "cancelled"}
TaskStates == {"none", "running", "removed", "failed", "aborted"}
Ended == {"removed", "failed", "aborted"}
Results == {"none", "normal", "create_failure", "body_failure", "cancelled",
            "audit_failure", "cleanup_error"}
Events == {"create_attempt", "create_failure", "create_cleanup_unsafe",
           "cleanup_retry_attempt", "cleanup_retry_success",
           "cleanup_retry_failure", "create_success", "provider_failure",
           "destroy_attempt", "destroy_success", "destroy_failure", "closed"}

Unclean(s) == states[s] \in {"pending", "active", "cleanup_unsafe"}

\* Mutant of Recorded: the failure of a write is swallowed.
RecordedSilently(events) ==
    \E kept \in SUBSET events : log' = log \cup kept /\ audit' = audit

\* _record_event: a write that fails is kept as an audit failure and the
\* session goes on; "closed" stands for artifact.close().
Recorded(events) ==
    \E kept \in SUBSET events :
        /\ log' = log \cup kept
        /\ audit' = (audit \/ kept # events)

Leave(res) == /\ pc' = "idle"
              /\ result' = res

sessionVars == <<sandbox, primary, overtaken, body, cancelled>>

Init ==
    /\ alive = {}
    /\ states = [s \in Sandboxes |-> "absent"]
    /\ pc = "idle"
    /\ sandbox = NoSandbox
    /\ primary = "none" /\ body = "none"
    /\ overtaken = FALSE /\ cancelled = FALSE /\ audit = FALSE
    /\ task = "none"
    /\ log = {}
    /\ result = "none"
    /\ delivered = FALSE /\ teardown = FALSE

-----------------------------------------------------------------------------
(* The caller: the nodes of agent/graph.py open their sessions one after   *)
(* another.  A session that raises ends the trial's sandbox work: _boot    *)
(* lets it propagate or reports UNSUPPORTED, the experiment becomes STOP.  *)

\* Mutant of MayOpen: the caller goes on after a failed session.
MayOpenAfterFailure == pc = "idle" /\ ~teardown
MayOpen == pc = "idle" /\ ~teardown /\ result \in {"none", "normal"}

\* managed_sandbox up to provider.create: a failed create_attempt record stops
\* the session before anything exists.
Open(s) ==
    /\ MayOpen
    /\ states[s] = "absent"
    /\ sandbox' = s
    /\ primary' = "none" /\ body' = "none"
    /\ overtaken' = FALSE /\ cancelled' = FALSE
    /\ task' = "none"
    /\ \/ /\ log' = {"create_attempt"} /\ audit' = FALSE
          /\ pc' = "admit" /\ result' = "none"
       \/ /\ log' \in {{}, {"closed"}} /\ audit' = TRUE
          /\ Leave("audit_failure")
    /\ UNCHANGED <<alive, states, delivered, teardown>>

\* begin_invocation refuses a provider that still owns an unconfirmed sandbox.
MayBegin == /\ pc = "idle" /\ result # "none" /\ ~teardown
            /\ \A s \in Sandboxes : ~Unclean(s)

BeginInvocation ==
    /\ MayBegin
    /\ result' = "none" /\ delivered' = FALSE
    /\ UNCHANGED <<alive, states, pc, sessionVars, audit, task, log, teardown>>

-----------------------------------------------------------------------------
(* DockerSbxProvider.create                                                *)

\* The checks before the id exists: template identity, probes, workspace, host
\* HEAD.  A failure leaves no provider state.
Admitted ==
    /\ pc = "admit"
    /\ states' = [states EXCEPT ![sandbox] = "pending"]
    /\ pc' = "create"
    /\ UNCHANGED <<alive, sessionVars, audit, task, log, result, delivered, teardown>>

Refused(kind) ==
    /\ pc = "admit"
    /\ primary' = kind
    /\ delivered' = (delivered \/ kind = "cancelled")
    /\ Recorded({"create_failure", "closed"})
    /\ Leave(IF kind = "cancelled" THEN "cancelled" ELSE "create_failure")
    /\ UNCHANGED <<alive, states, sandbox, overtaken, body, cancelled, task, teardown>>

StepSucceeds ==
    /\ pc \in CreateSteps
    /\ alive' = alive \cup {sandbox}
    /\ pc' \in NextSteps(pc) \ {"done"}
    /\ UNCHANGED <<states, sessionVars, audit, task, log, result, delivered, teardown>>

\* The last step: ACTIVE, then managed_sandbox records create_success and
\* yields only if that record could be written.
Created ==
    /\ pc \in CreateSteps /\ "done" \in NextSteps(pc)
    /\ states' = [states EXCEPT ![sandbox] = "active"]
    /\ \/ /\ pc' = "body"
          /\ log' = log \cup {"create_success"}
          /\ UNCHANGED <<audit, task>>
       \/ /\ pc' = "destroy" /\ task' = "running"
          /\ audit' = TRUE
          /\ log' \in {log, log \cup {"destroy_attempt"}}
    /\ UNCHANGED <<alive, sessionVars, result, delivered, teardown>>

\* Mutant of StartReclaim: nobody starts the cleanup task.
ReclaimNotStarted == pc' = "reclaim" /\ UNCHANGED task
StartReclaim == pc' = "reclaim" /\ task' = "running"

\* A step fails once the id exists: the provider removes what may be there.  A
\* failed or cancelled `sbx create` may or may not have made the sandbox.
StepFails(kind) ==
    /\ pc \in CreateSteps
    /\ alive' \in IF pc = "create" THEN {alive, alive \cup {sandbox}} ELSE {alive}
    /\ primary' = kind
    /\ delivered' = (delivered \/ kind = "cancelled")
    /\ StartReclaim
    /\ UNCHANGED <<states, sandbox, overtaken, body, cancelled, audit, log, result, teardown>>

MarkUnsafe == states' = IF task = "failed"
                        THEN [states EXCEPT ![sandbox] = "cleanup_unsafe"] ELSE states

\* _cleanup_after_uncertain_failure(partial_create=True) and the handler around
\* provider.create.  The context travels on primary_error; a cancellation that
\* arrived during the cleanup is raised in its place, without the context.
ReclaimEnds ==
    LET raised == IF overtaken \/ primary = "cancelled" THEN "cancelled" ELSE "error"
        hasContext == task = "failed" /\ raised = primary
    IN
    /\ pc = "reclaim" /\ task \in Ended
    /\ MarkUnsafe
    /\ \/ /\ hasContext
          /\ Recorded({"create_cleanup_unsafe", "cleanup_retry_attempt"})
          /\ pc' = "retry" /\ task' = "running"
          /\ UNCHANGED result
       \/ /\ ~hasContext
          /\ Recorded({"create_failure", "closed"})
          /\ Leave(IF raised = "cancelled" \/ task = "aborted"
                   THEN "cancelled" ELSE "create_failure")
          /\ UNCHANGED task
    /\ UNCHANGED <<alive, sessionVars, delivered, teardown>>

\* _retry_partial_create_cleanup once its task is done.
RetryEnds ==
    /\ pc = "retry" /\ task \in Ended
    /\ \/ /\ task = "removed"
          /\ Recorded({"cleanup_retry_success", "closed"})
          /\ Leave(IF primary = "cancelled" THEN "cancelled" ELSE "create_failure")
       \/ /\ task # "removed"
          /\ Recorded({"cleanup_retry_failure", "closed"})
          /\ Leave("cleanup_error")
    /\ UNCHANGED <<alive, states, sessionVars, task, delivered, teardown>>

-----------------------------------------------------------------------------
(* The body, and a publish_port that fails inside it                       *)

AfterBody(kind) == pc' = "destroy" /\ task' = "running" /\ UNCHANGED result

\* A cancellation that arrives at one of the body's awaits is a body failure.
BodyEnds(kind) ==
    /\ pc = "body"
    /\ body' = kind
    /\ delivered' = (delivered \/ kind = "cancelled")
    /\ \E evidence \in {{}, {"provider_failure"}} :
          /\ kind = "none" => evidence = {}
          /\ Recorded(evidence \cup {"destroy_attempt"})
    /\ AfterBody(kind)
    /\ UNCHANGED <<alive, states, sandbox, primary, overtaken, cancelled, teardown>>

PublishFails(kind) ==
    /\ pc = "body" /\ states[sandbox] = "active"
    /\ primary' = kind /\ overtaken' = FALSE
    /\ delivered' = (delivered \/ kind = "cancelled")
    /\ pc' = "publish_reclaim" /\ task' = "running"
    /\ UNCHANGED <<alive, states, sandbox, body, cancelled, audit, log, result, teardown>>

\* The error goes back into the body, which may handle a DockerSbxError; a
\* cancellation unwinds it.
PublishReclaimEnds ==
    /\ pc = "publish_reclaim" /\ task \in Ended
    /\ MarkUnsafe
    /\ \/ /\ overtaken \/ primary = "cancelled" \/ task = "aborted"
          /\ body' = "cancelled"
          /\ Recorded({"destroy_attempt"})
          /\ pc' = "destroy" /\ task' = "running"
       \/ /\ ~overtaken /\ primary = "error" /\ task # "aborted"
          /\ pc' = "body" /\ task' = "none"
          /\ UNCHANGED <<body, log, audit>>
    /\ UNCHANGED <<alive, sandbox, primary, overtaken, cancelled, result, delivered, teardown>>

-----------------------------------------------------------------------------
(* The removal task: _force_destroy, alone or below provider.destroy       *)

Destroying == pc \in {"retry", "destroy"}

\* `sbx rm --force` succeeded or reported the sandbox as exactly absent.
Removes ==
    /\ task = "running"
    /\ alive' = alive \ {sandbox}
    /\ states' = [states EXCEPT ![sandbox] = "cleaned"]
    /\ task' = "removed"
    /\ UNCHANGED <<pc, sessionVars, audit, log, result, delivered, teardown>>

\* Mutant of FailedState: a failed `sbx rm` is booked like a successful one.
FailedStateOptimistic == "cleaned"
FailedState == IF Destroying THEN "cleanup_unsafe" ELSE states[sandbox]

\* provider.destroy returns at once for a sandbox that is already CLEANED; any
\* other failure of the command leaves it CLEANUP_UNSAFE.
RemovalFails ==
    /\ task = "running"
    /\ ~(Destroying /\ states[sandbox] = "cleaned")
    /\ alive' \in {alive, alive \ {sandbox}}
    /\ states' = [states EXCEPT ![sandbox] = FailedState]
    /\ task' = "failed"
    /\ UNCHANGED <<pc, sessionVars, audit, log, result, delivered, teardown>>

\* _raise_outcome: a destroy failure comes first, then the body's failure, then
\* a cancellation that arrived during the removal, then an audit failure.
\* Mutants of Outcome: the body's failure first; cancellations are dropped.
OutcomeBodyFirst ==
    CASE body # "none"                         -> "body_failure"
      [] body = "none" /\ task # "removed"     -> "cleanup_error"
      [] OTHER                                 -> "normal"
OutcomeSwallows ==
    CASE task # "removed"                      -> "cleanup_error"
      [] task = "removed" /\ body # "none"     -> "body_failure"
      [] OTHER                                 -> "normal"
Outcome ==
    CASE task # "removed"                      -> "cleanup_error"
      [] task = "removed" /\ body = "error"    -> "body_failure"
      [] task = "removed" /\ body # "error"
         /\ (body = "cancelled" \/ cancelled)  -> "cancelled"
      [] OTHER                                 -> IF audit' THEN "audit_failure" ELSE "normal"

DestroyEnds ==
    /\ pc = "destroy" /\ task \in Ended
    /\ Recorded({IF task = "removed" THEN "destroy_success" ELSE "destroy_failure",
                 "closed"})
    /\ Leave(Outcome)
    /\ UNCHANGED <<alive, states, sessionVars, task, delivered, teardown>>

-----------------------------------------------------------------------------
(* Cancellation of the main task while it waits for a removal task: the    *)
(* wait loop keeps it and goes on waiting.                                 *)
Waiting == {"reclaim", "publish_reclaim", "retry", "destroy"}

Cancel ==
    /\ pc \in Waiting /\ ~teardown
    /\ delivered' = TRUE
    /\ IF pc \in {"reclaim", "publish_reclaim"}
       THEN overtaken' = TRUE /\ UNCHANGED cancelled
       ELSE cancelled' = TRUE /\ UNCHANGED overtaken
    /\ UNCHANGED <<alive, states, pc, sandbox, primary, body, audit, task, log, result, teardown>>

\* The second interrupt cancels the removal task too.  _destroy_boundary
\* uncancels itself and calls destroy again; the provider's own cleanup task
\* has no such loop and ends cancelled.
Teardown ==
    /\ pc \in Waiting /\ delivered /\ ~teardown
    /\ teardown' = TRUE
    /\ IF Destroying
       THEN /\ cancelled' = TRUE /\ UNCHANGED <<overtaken, task>>
            /\ states' = IF task = "running" /\ states[sandbox] # "cleaned"
                         THEN [states EXCEPT ![sandbox] = "cleanup_unsafe"] ELSE states
       ELSE /\ overtaken' = TRUE /\ UNCHANGED <<cancelled, states>>
            /\ task' = IF task = "running" THEN "aborted" ELSE task
    /\ alive' \in IF task = "running" THEN {alive, alive \ {sandbox}} ELSE {alive}
    /\ UNCHANGED <<pc, sandbox, primary, body, audit, log, result, delivered>>

-----------------------------------------------------------------------------
MainStep ==
    \/ Admitted \/ StepSucceeds \/ Created \/ ReclaimEnds \/ RetryEnds
    \/ PublishReclaimEnds \/ DestroyEnds
    \/ \E kind \in Failures : Refused(kind) \/ StepFails(kind) \/ PublishFails(kind)
    \/ \E kind \in Failures \cup {"none"} : BodyEnds(kind)

TaskStep == Removes \/ RemovalFails

Next == MainStep \/ TaskStep \/ Cancel \/ Teardown \/ BeginInvocation
        \/ \E s \in Sandboxes : Open(s)

Spec == Init /\ [][Next]_vars

\* Every sbx command has a time limit and the event loop runs every ready
\* task, so neither the main task nor a removal task stays put for ever; no
\* fairness is assumed of cancellations, of new sessions or of outcomes.
FairSpec == Spec /\ WF_vars(MainStep) /\ WF_vars(TaskStep)

-----------------------------------------------------------------------------
\* Type correctness of every variable.
TypeOK ==
    /\ alive \subseteq Sandboxes
    /\ states \in [Sandboxes -> ProviderStates]
    /\ pc \in ControlPoints
    /\ sandbox \in Sandboxes \cup {NoSandbox}
    /\ primary \in Failures \cup {"none"} /\ body \in Failures \cup {"none"}
    /\ overtaken \in BOOLEAN /\ cancelled \in BOOLEAN /\ audit \in BOOLEAN
    /\ delivered \in BOOLEAN /\ teardown \in BOOLEAN
    /\ task \in TaskStates
    /\ log \subseteq Events
    /\ result \in Results

\* The provider never believes a sandbox removed, or never made, that the
\* daemon still holds; so what begin_invocation accepts is really gone.
ConfirmedRemoval ==
    \A s \in alive : Unclean(s)

\* At no time is more than one sandbox unaccounted for, across sessions and
\* invocations, however sessions are cancelled or fail.
AtMostOneUnclean ==
    \A s, t \in Sandboxes : Unclean(s) /\ Unclean(t) => s = t

\* A session that ends with its sandbox unconfirmed says so by CleanupError:
\* "Cleanup is fail-closed: a cleanup failure remains a failed run"
\* (docs/dev/usage.md:258).  The two exceptions are named: a cancellation that
\* overtook the provider's own cleanup of a failed create, and the teardown of
\* the event loop during that cleanup.
FailClosed ==
    pc = "idle" /\ sandbox # NoSandbox /\ Unclean(sandbox) =>
        \/ result = "cleanup_error"
        \/ result = "cancelled" /\ overtaken /\ (primary = "error" \/ teardown)

\* FailClosed without its exceptions, for a process that received one interrupt
\* only: what tests/unit/sandbox/test_docker_sbx_commands.py:4320 says of a
\* cancelled partial create (managed_sandbox retries its cleanup), and the
\* documented fail-closed cleanup, say of every create.
UncleanIsReported ==
    pc = "idle" /\ sandbox # NoSandbox /\ Unclean(sandbox) /\ ~teardown =>
        result = "cleanup_error"

\* Provider.destroy is called only in a state it accepts, so that its
\* RuntimeError("sandbox is not active") can not stand for a removal.
DestroyIsLegal ==
    Destroying => states[sandbox] \in {"active", "cleanup_unsafe", "cleaned"}

\* The lifecycle artifact is evidence: no work runs in a sandbox whose creation
\* is not recorded, a success event is never there unless removal was
\* confirmed, a session without audit failure that got a sandbox holds exactly
\* one destroy outcome, and a normal end has the complete chain of events
\* docs/dev/usage.md:111 asks of a trustworthy run.
EvidenceIsTrue ==
    /\ pc \in {"body", "publish_reclaim"} => "create_success" \in log
    /\ {"destroy_success", "cleanup_retry_success"} \cap log # {} =>
            states[sandbox] = "cleaned"
    /\ pc = "idle" /\ ~audit /\ "create_success" \in log =>
            ("destroy_success" \in log) # ("destroy_failure" \in log)
    /\ pc = "idle" /\ result = "normal" =>
            {"create_attempt", "create_success", "destroy_attempt",
             "destroy_success", "closed"} \subseteq log

\* The books on the sandboxes are right at all times: what is thought gone is
\* gone, one sandbox at most is open, and destroy() never meets a state in which
\* it would raise in place of removing.
SandboxesAreAccounted ==
    /\ ConfirmedRemoval
    /\ AtMostOneUnclean
    /\ DestroyIsLegal

\* Once a cancellation has reached the trial, even one whose CancelledError was
\* superseded by another failure, no further sandbox is created by it.
NoCreateAfterCancel ==
    [][(\E s \in Sandboxes : states[s] = "absent" /\ states'[s] = "pending")
            => ~delivered]_vars

\* Every session ends, whatever is cancelled and whichever command fails.
SessionEnds == pc # "idle" ~> pc = "idle"

\* A sandbox handed to the body is always removed or declared unsafe.
HandedOutIsReclaimed ==
    \A s \in Sandboxes :
        states[s] = "active" ~> states[s] \in {"cleaned", "cleanup_unsafe"}

\* Both ends are reached: the session's, and the one of the sandbox it handed out.
EverySessionEnds == SessionEnds /\ HandedOutIsReclaimed

-----------------------------------------------------------------------------
FateOf(s) ==
    CASE states[s] = "absent" -> "unborn"
      [] states[s] \in {"pending", "active"} -> "held"
      [] states[s] = "cleanup_unsafe" -> "abandoned"
      [] states[s] = "cleaned" -> "gone"

Ownership == INSTANCE SandboxOwnership WITH
    fate <- [s \in Sandboxes |-> FateOf(s)],
    verdict <- IF pc # "idle" THEN "open"
               ELSE IF result = "normal" THEN "success" ELSE "failure"

\* The lifecycle implements the abstract boundary.
ImplementsOwnership == Ownership!Spec
=============================================================================
