------------------------------ MODULE RunGraph ------------------------------
(***************************************************************************)
(* The run graph of agent/graph.py with its checkpoints, the files it      *)
(* leaves on disk and the interruptions it can be resumed from.            *)
(*                                                                         *)
(* The graph's state is durable at node boundaries: langgraph's saver is   *)
(* external, and a node's update and its checkpoint are one step here.     *)
(* An interruption (cancellation, exception or process kill) between two   *)
(* steps of a node loses the node's locals, keeps its files, and sends the *)
(* resumed run through the same node again.                                *)
(*                                                                         *)
(* Sessions with a sandbox are one step (SandboxLifecycle has their        *)
(* inside).  MaxResumes bounds the resumptions of one run.                 *)
(***************************************************************************)
EXTENDS HardeningPolicy

CONSTANTS
    Plans,        \* the numbers of journeys the planner may return
    MaxJourneys,  \* _MAX_JOURNEYS, 5 in the code
    MaxResumes

ASSUME GraphAssumption == Plans \subseteq 0..MaxJourneys /\ {MaxJourneys, MaxResumes} \subseteq Nat

VARIABLES
    node,         \* the next node, "end" when there is none
    stop,         \* RunState.stop_reason
    visits,       \* length of stage_history
    attempt,      \* boot_attempt
    fingerprint,  \* boot_error_hash
    repeated,     \* repeated_error_count
    journeys,     \* RunState.journeys
    observed,     \* baseline_observation is recorded
    baseline,     \* baseline_journey_results
    experiments,
    current,      \* current_config_hash
    composePath,  \* 0 for the repository's file, n for the n-th accepted one
    provenance,   \* hardened_overlay_provenance is set
    pending,      \* the pending_* fields that the next node reads
    pc,           \* where the running node waits, "down" or "ended"
    slot,         \* attempt_slot of the running node
    warm,         \* this invocation has activated a runtime template
    resumes,      \* resumptions so far
    loopback,     \* the Compose file needs a compatibility overlay
    disk          \* the files of the run

graphVars == <<node, stop, visits, attempt, fingerprint, repeated, journeys,
               observed, baseline, experiments, current, composePath,
               provenance, pending>>
vars == <<graphVars, pc, slot, warm, resumes, loopback, disk>>

-----------------------------------------------------------------------------
Slots == 1..4
Fingerprints == {"e1", "e2"}
Nodes == {"intake", "baseline", "boot", "journeys", "observe",
          "propose_mutation", "experiment", "decide", "report_or_next", "end"}
StopReasons == {"none", "compatibility", "boot_recovery_stopped", "boot_unsupported",
    "image_prepare_failed", "operation_failed", "experiment", "experiment_stopped", "insufficient_coverage",
    "experiment_budget_exhausted", "consecutive_failures", "no_remaining_mutations"}

NothingPending == [results |-> <<>>, mutation |-> <<>>, record |-> <<>>, overlay |-> <<>>]

EmptyDisk ==
    [compatibility |-> FALSE,  \* the compatibility overlay exists
     journeys |-> <<>>,        \* the plan in baseline-journeys.json
     claimed |-> {},           \* attempt directories that exist
     marked |-> {},            \* those with their ownership marker
     used |-> {},              \* history: those a sandbox session wrote to
     overlays |-> {},          \* experiment overlays, by attempt directory
     accepted |-> {},          \* accepted Compose files: [index, config, whole]
     hardened |-> {}]          \* cumulative overlays: [config, whole]

Init ==
    /\ node = "intake" /\ stop = "none" /\ visits = 0
    /\ attempt = 0 /\ fingerprint = "none" /\ repeated = 0
    /\ journeys = 0 /\ observed = FALSE /\ baseline = <<>>
    /\ experiments = <<>> /\ current = {} /\ composePath = 0
    /\ provenance = FALSE /\ pending = NothingPending
    /\ pc = "ready" /\ slot = 0 /\ warm = FALSE /\ resumes = 0
    /\ loopback \in BOOLEAN
    /\ disk = EmptyDisk

At(n) == node = n /\ pc = "ready"

\* A node returns: its update is checkpointed with one more visited stage.  That
\* _visit never raises "stage history limit exceeded" is StageHistoryFits.
Return(next) ==
    /\ visits < 64
    /\ visits' = visits + 1
    /\ node' = next
    /\ pc' = "ready" /\ slot' = 0

\* A node raises: nothing of it is checkpointed and the invocation ends, which
\* also removes its runtime template.
Raise ==
    /\ pc' = "down" /\ slot' = 0 /\ warm' = FALSE
    /\ UNCHANGED <<graphVars, resumes, loopback, disk>>

Stop(reason) ==
    /\ stop' = reason
    /\ Return("report_or_next")

bootVars == <<attempt, fingerprint, repeated>>
planVars == <<journeys, observed, baseline>>
configVars == <<experiments, current, composePath, provenance>>
runVars == <<resumes, loopback>>

-----------------------------------------------------------------------------
(* intake and baseline                                                     *)

Intake ==
    /\ At("intake")
    /\ Return("baseline")
    /\ UNCHANGED <<stop, bootVars, planVars, configVars, pending, warm, runVars, disk>>

\* _plan_or_verify_compatibility with allow_create: the planner may refuse the
\* Compose file, and an overlay that is already there is never reused.
CompatibilityRefused ==
    /\ At("baseline")
    /\ Stop("compatibility")
    /\ UNCHANGED <<bootVars, planVars, configVars, pending, warm, runVars, disk>>

PlanCompatibility ==
    /\ At("baseline")
    /\ loopback => ~disk.compatibility
    /\ disk' = [disk EXCEPT !.compatibility = loopback]
    /\ pc' = "plan_journeys"
    /\ UNCHANGED <<graphVars, slot, warm, runVars>>

\* write_or_verify_baseline_journeys: published once, then only verified.
PlanJourneys(plan) ==
    /\ pc = "plan_journeys"
    /\ disk.journeys \in {<<>>, <<plan>>}
    /\ disk' = [disk EXCEPT !.journeys = <<plan>>]
    /\ pc' = "planned"
    /\ UNCHANGED <<graphVars, slot, warm, runVars>>

PlanChanged(plan) ==
    /\ pc = "plan_journeys"
    /\ disk.journeys \notin {<<>>, <<plan>>}
    /\ Raise

BaselineReturns ==
    /\ pc = "planned"
    /\ journeys' = disk.journeys[1]
    /\ Return("boot")
    /\ UNCHANGED <<stop, bootVars, observed, baseline, configVars, pending, warm, runVars, disk>>

-----------------------------------------------------------------------------
(* _claim_attempt_directory, shared by boot and experiment                 *)

Directory(n) ==
    [purpose |-> IF node = "boot" THEN "baseline" ELSE "experiment",
     index |-> IF node = "boot" THEN attempt + 1 ELSE Len(experiments),
     slot |-> n]

Claiming == At("experiment") \/ (At("boot") /\ attempt < 4)

\* Mutant of FreeSlot: a marked directory is used again.
FreeSlotReused ==
    {n \in Slots : Directory(n) \notin disk.claimed \/ Directory(n) \in disk.marked}

\* The first slot whose directory does not exist, if all before it are marked.
FreeSlot == {n \in Slots :
                /\ Directory(n) \notin disk.claimed
                /\ \A m \in 1..n-1 : Directory(m) \in disk.marked}

Claim ==
    /\ Claiming
    /\ \E n \in FreeSlot :
        /\ slot' = n
        /\ disk' = [disk EXCEPT !.claimed = @ \cup {Directory(n)}]
    /\ pc' = "claimed"
    /\ UNCHANGED <<graphVars, warm, runVars>>

Mark ==
    /\ pc = "claimed"
    /\ disk' = [disk EXCEPT !.marked = @ \cup {Directory(slot)}]
    /\ pc' = "inputs"
    /\ UNCHANGED <<graphVars, slot, warm, runVars>>

\* Every slot is taken, or a directory has no valid marker.
ClaimFails ==
    /\ Claiming
    /\ FreeSlot = {}
    /\ Raise

-----------------------------------------------------------------------------
(* boot                                                                    *)

BootGivesUp ==
    /\ At("boot") /\ attempt = 4
    /\ Stop("boot_recovery_stopped")
    /\ UNCHANGED <<bootVars, planVars, configVars, pending, warm, runVars, disk>>

\* The startup input is unsupported, or the warm-up of the runtime template
\* fails; a template that is active is not prepared again.
BootRefused(reason) ==
    /\ pc = "inputs" /\ node = "boot"
    /\ reason = "image_prepare_failed" => ~warm
    /\ attempt' = attempt + 1
    /\ Stop(reason)
    /\ UNCHANGED <<fingerprint, repeated, planVars, configVars, pending, warm, runVars, disk>>

BootStarts ==
    /\ pc = "inputs" /\ node = "boot"
    /\ warm' = TRUE
    /\ disk' = [disk EXCEPT !.used = @ \cup {Directory(slot)}]
    /\ pc' = "session"
    /\ UNCHANGED <<graphVars, slot, runVars>>

\* The baseline journeys and the observation run in the session that booted.
BootPasses ==
    /\ pc = "session" /\ node = "boot"
    /\ attempt' = attempt + 1
    /\ \E results \in [1..journeys -> Verdicts] :
        pending' = [pending EXCEPT !.results = results]
    /\ Return("journeys")
    /\ UNCHANGED <<stop, fingerprint, repeated, planVars, configVars, warm, runVars, disk>>

BootUnsupported(reason) ==
    /\ pc = "session" /\ node = "boot"
    /\ reason = "compatibility" => loopback
    /\ attempt' = attempt + 1
    /\ Stop(reason)
    /\ UNCHANGED <<fingerprint, repeated, planVars, configVars, pending, warm, runVars, disk>>

\* Mutant of BootFails: the attempt is not counted.
BootFailsUncounted(hash) ==
    /\ pc = "session" /\ node = "boot"
    /\ fingerprint' = hash
    /\ repeated' = 0 /\ attempt' = attempt
    /\ Stop("boot_recovery_stopped") \/ (Return("boot") /\ UNCHANGED stop)
    /\ UNCHANGED <<planVars, configVars, pending, warm, runVars, disk>>

\* A failed boot: too many repetitions of one error stop the recovery, other
\* errors may be retried.
BootFails(hash) ==
    /\ pc = "session" /\ node = "boot"
    /\ attempt' = attempt + 1
    /\ fingerprint' = hash
    /\ repeated' = IF hash = fingerprint THEN repeated + 1 ELSE 0
    /\ \/ Stop("boot_recovery_stopped")
       \/ repeated' <= 2 /\ Return("boot") /\ UNCHANGED stop
    /\ UNCHANGED <<planVars, configVars, pending, warm, runVars, disk>>

-----------------------------------------------------------------------------
(* journeys, observe and propose_mutation                                  *)

Journeys ==
    /\ At("journeys")
    /\ baseline' = pending.results
    /\ pending' = [pending EXCEPT !.results = <<>>]
    /\ Return("observe")
    /\ UNCHANGED <<stop, bootVars, journeys, observed, configVars, warm, runVars, disk>>

Observe ==
    /\ At("observe")
    /\ observed' = TRUE
    /\ Return("propose_mutation")
    /\ UNCHANGED <<stop, bootVars, journeys, baseline, configVars, pending, warm, runVars, disk>>

Propose ==
    LET reason == PolicyStop(baseline, experiments)
        proposals == Proposals(experiments, current)
    IN
    /\ At("propose_mutation")
    /\ \/ /\ reason = "none" /\ proposals # {}
          /\ \E m \in proposals : pending' = [NothingPending EXCEPT !.mutation = <<m>>]
          /\ Return("experiment")
          /\ UNCHANGED stop
       \/ /\ reason # "none" \/ proposals = {}
          /\ pending' = NothingPending
          /\ Stop(IF reason # "none" THEN reason ELSE "no_remaining_mutations")
    /\ UNCHANGED <<bootVars, planVars, configVars, warm, runVars, disk>>

-----------------------------------------------------------------------------
(* experiment: run_experiment of hardening/engine.py within its node       *)

Proposed == pending.mutation[1]

\* Mutant of OnDisk: every experiment starts from the repository's file.
OnDiskOriginal(path) == {}

\* The configuration in the file the run's compose_path names.
OnDisk(path) ==
    IF path = 0 THEN {}
    ELSE UNION {a.config : a \in {a \in disk.accepted : a.index = path /\ a.whole}}

\* _expected_accepted_compose_path: the file of the last kept experiment.
KeptIndices == {i \in DOMAIN experiments : experiments[i].verdict = "keep"}
AcceptedMismatch ==
    composePath # IF KeptIndices = {} THEN 0
                  ELSE IF current = experiments[Max(KeptIndices)].candidate
                       THEN Max(KeptIndices) ELSE -1
ParentMismatch == OnDisk(composePath) # current

StopRecord ==
    [mutation |-> Proposed, parent |-> OnDisk(composePath),
     candidate |-> OnDisk(composePath) \cup {Change(Proposed)},
     boot |-> "unsupported", journeys |-> <<>>, verdict |-> "stop",
     tmp |-> Proposed.service \in TmpWriters]

Recorded(record, made) ==
    /\ pending' = [pending EXCEPT !.record = <<record>>,
                                  !.overlay = <<[of |-> Directory(slot), made |-> made]>>]
    /\ Return("decide")

\* The mutation is a no-op, another error escapes the preparation, or the
\* template of a resumed run can not be prepared: the run stops and the
\* proposal is dropped.
ExperimentAborts ==
    /\ pc = "inputs" /\ node = "experiment"
    /\ \E reason \in {"operation_failed", "image_prepare_failed"} :
        /\ reason = "image_prepare_failed" => ~warm /\ Change(Proposed) \notin Satisfied
        /\ Stop(reason)
    /\ pending' = NothingPending
    /\ UNCHANGED <<bootVars, planVars, configVars, warm, runVars, disk>>

\* STOP before an overlay exists: the accepted file or the parent's hash does
\* not fit, the startup input is unsupported or the overlay can not be written.
ExperimentStops ==
    /\ pc = "inputs" /\ node = "experiment"
    /\ Change(Proposed) \notin Satisfied
    /\ Recorded(StopRecord, FALSE)
    /\ UNCHANGED <<stop, bootVars, planVars, configVars, warm, runVars, disk>>

ExperimentStarts ==
    /\ pc = "inputs" /\ node = "experiment"
    /\ Change(Proposed) \notin Satisfied /\ ~AcceptedMismatch /\ ~ParentMismatch
    /\ warm' = TRUE
    /\ disk' = [disk EXCEPT !.overlays = @ \cup {Directory(slot)},
                            !.used = @ \cup {Directory(slot)}]
    /\ pc' = "session"
    /\ UNCHANGED <<graphVars, slot, runVars>>

ExperimentEnds ==
    /\ pc = "session" /\ node = "experiment"
    /\ \E record \in Records(Proposed, OnDisk(composePath), baseline) :
        Recorded(record, TRUE)
    /\ UNCHANGED <<stop, bootVars, planVars, configVars, warm, runVars, disk>>

\* A CompatibilityError raised inside the session is no verdict of the candidate.
ExperimentIncompatible ==
    /\ pc = "session" /\ node = "experiment" /\ loopback
    /\ Stop("compatibility")
    /\ pending' = NothingPending
    /\ UNCHANGED <<bootVars, planVars, configVars, warm, runVars, disk>>

-----------------------------------------------------------------------------
(* decide                                                                  *)

Tried == pending.record[1]
Target == Len(experiments) + 1

\* What _selected_overlay_relative_path and the check for an experiment_id that
\* was already appended accept.
Decidable ==
    /\ \A i \in DOMAIN experiments : experiments[i].mutation # Tried.mutation
    /\ pending.overlay[1].made <=> pending.overlay[1].of \in disk.overlays
    /\ pending.overlay[1].made \/ Tried.verdict = "stop"

\* The mutation applied to the file on disk is the candidate that was tried.
Follows == OnDisk(composePath) \cup {Change(Tried.mutation)} = Tried.candidate

AcceptedFiles == {a \in disk.accepted : a.index = Target /\ a.config = Tried.candidate}

\* Mutant of DecideReturns: the run keeps the file it had.
DecideReturnsBehind ==
    /\ At("decide") /\ Decidable
    /\ experiments' = Append(experiments, Tried)
    /\ \/ Tried.verdict = "keep" /\ Follows /\ \E a \in AcceptedFiles : a.whole
       \/ Tried.verdict # "keep"
    /\ composePath' = composePath
    /\ current' = Decided(Tried, current)
    /\ stop' = IF Tried.verdict = "stop" THEN "experiment" ELSE stop
    /\ pending' = NothingPending
    /\ Return("report_or_next")
    /\ UNCHANGED <<bootVars, planVars, provenance, warm, runVars, disk>>

\* A KEEP returns once its accepted Compose file is whole, written now or by an
\* execution of the node that was interrupted.
DecideReturns ==
    /\ At("decide") /\ Decidable
    /\ experiments' = Append(experiments, Tried)
    /\ \/ /\ Tried.verdict = "keep" /\ Follows
          /\ \E a \in AcceptedFiles : a.whole
          /\ composePath' = Target
       \/ /\ Tried.verdict # "keep"
          /\ UNCHANGED composePath
    /\ current' = Decided(Tried, current)
    /\ stop' = IF Tried.verdict = "stop" THEN "experiment" ELSE stop
    /\ pending' = NothingPending
    /\ Return("report_or_next")
    /\ UNCHANGED <<bootVars, planVars, provenance, warm, runVars, disk>>

\* _materialize_accepted_compose opens the file, then dumps into it.
Accept ==
    /\ At("decide") /\ Decidable
    /\ Tried.verdict = "keep" /\ Follows /\ AcceptedFiles = {}
    /\ disk' = [disk EXCEPT !.accepted = @ \cup
                    {[index |-> Target, config |-> Tried.candidate, whole |-> FALSE]}]
    /\ pc' = "accepting"
    /\ UNCHANGED <<graphVars, slot, warm, runVars>>

Accepted ==
    /\ pc = "accepting"
    /\ disk' = [disk EXCEPT !.accepted =
                    (@ \ AcceptedFiles) \cup {[a EXCEPT !.whole = TRUE] : a \in AcceptedFiles}]
    /\ pc' = "ready"
    /\ UNCHANGED <<graphVars, slot, warm, runVars>>

\* Mutant of DecideFails: a partial file is neither reused nor rejected.
DecideFailsOnHash ==
    /\ At("decide")
    /\ ~Decidable \/ (Tried.verdict = "keep" /\ ~Follows)
    /\ Raise

\* "experiment record was already appended", a missing overlay, "accepted
\* candidate hash mismatch" or "accepted compose replay hash mismatch".
DecideFails ==
    /\ At("decide")
    /\ \/ ~Decidable
       \/ /\ Tried.verdict = "keep"
          /\ ~Follows \/ \E a \in AcceptedFiles : ~a.whole
    /\ Raise

-----------------------------------------------------------------------------
(* report_or_next                                                          *)

\* The validation of _materialize_hardened_overlay.
ChainValid ==
    /\ OnDisk(0) = {} /\ OnDisk(composePath) = current
    /\ \A i \in DOMAIN experiments :
        LET replay == KeptBefore(experiments, i) IN
        /\ experiments[i].parent = replay
        /\ Change(experiments[i].mutation) \notin replay
        /\ experiments[i].candidate = replay \cup {Change(experiments[i].mutation)}
    /\ KeptIndices # {}
    /\ KeptBefore(experiments, Len(experiments) + 1) = current

HardenedFiles == {h \in disk.hardened : h.config = current}

Continue ==
    /\ At("report_or_next") /\ stop = "none"
    /\ Return("propose_mutation")
    /\ UNCHANGED <<stop, bootVars, planVars, configVars, pending, warm, runVars, disk>>

Harden ==
    /\ At("report_or_next") /\ stop # "none"
    /\ ChainValid /\ HardenedFiles = {}
    /\ disk' = [disk EXCEPT !.hardened = @ \cup {[config |-> current, whole |-> FALSE]}]
    /\ pc' = "hardening"
    /\ UNCHANGED <<graphVars, slot, warm, runVars>>

Hardened ==
    /\ pc = "hardening"
    /\ disk' = [disk EXCEPT !.hardened =
                    (@ \ HardenedFiles) \cup {[config |-> current, whole |-> TRUE]}]
    /\ pc' = "ready"
    /\ UNCHANGED <<graphVars, slot, warm, runVars>>

\* A failed validation, a failed write or a file that does not match only drops
\* the provenance.
Report ==
    /\ At("report_or_next") /\ stop # "none"
    /\ provenance' = (ChainValid /\ HardenedFiles # {} /\ \A h \in HardenedFiles : h.whole)
    /\ visits < 64 /\ visits' = visits + 1
    /\ node' = "end" /\ pc' = "ended" /\ slot' = 0 /\ warm' = FALSE
    /\ UNCHANGED <<stop, bootVars, planVars, experiments, current, composePath,
                   pending, runVars, disk>>

-----------------------------------------------------------------------------
(* Interruptions                                                           *)

Interrupt ==
    /\ pc \notin {"down", "ended"}
    /\ Raise

\* aresume_run: a new invocation runs the checkpointed node again.
Resume ==
    /\ pc = "down" /\ resumes < MaxResumes
    /\ resumes' = resumes + 1
    /\ pc' = "ready"
    /\ UNCHANGED <<graphVars, slot, warm, loopback, disk>>

Advance ==
    \/ Intake \/ CompatibilityRefused \/ PlanCompatibility \/ BaselineReturns
    \/ \E plan \in Plans : PlanJourneys(plan) \/ PlanChanged(plan)
    \/ Claim \/ Mark \/ ClaimFails
    \/ BootGivesUp \/ BootStarts \/ BootPasses
    \/ \E reason \in {"boot_unsupported", "image_prepare_failed"} : BootRefused(reason)
    \/ \E reason \in {"boot_unsupported", "compatibility"} : BootUnsupported(reason)
    \/ \E hash \in Fingerprints : BootFails(hash)
    \/ Journeys \/ Observe \/ Propose
    \/ ExperimentAborts \/ ExperimentStops \/ ExperimentStarts \/ ExperimentEnds
    \/ ExperimentIncompatible
    \/ DecideReturns \/ Accept \/ Accepted \/ DecideFails
    \/ Continue \/ Harden \/ Hardened \/ Report

Next == Advance \/ Interrupt \/ Resume

Spec == Init /\ [][Next]_vars

\* The event loop runs a node that is ready; nothing is assumed of
\* interruptions or of whoever resumes a run.
FairSpec == Spec /\ WF_vars(Advance)

-----------------------------------------------------------------------------
AllPass(results) == \A i \in DOMAIN results : results[i] = "pass"
Unsupported(results) == \E i \in DOMAIN results : results[i] = "unsupported"

\* Mutant of Outcome: the baseline need not pass.
OutcomeLenient ==
    IF \/ stop = "boot_unsupported"
       \/ \E i \in DOMAIN experiments : experiments[i].boot = "unsupported"
    THEN "execution_unsupported"
    ELSE IF stop # "none" /\ ~Stopped(experiments) THEN "completed"
    ELSE "trial_failed"

\* classify_terminal_outcome
Outcome ==
    IF \/ stop = "boot_unsupported"
       \/ Unsupported(baseline)
       \/ \E i \in DOMAIN experiments :
            experiments[i].boot = "unsupported" \/ Unsupported(experiments[i].journeys)
    THEN "execution_unsupported"
    ELSE IF stop # "none" /\ baseline # <<>> /\ AllPass(baseline) /\ ~Stopped(experiments)
    THEN "completed"
    ELSE "trial_failed"

\* Type correctness.
TypeOK ==
    /\ node \in Nodes /\ stop \in StopReasons /\ visits \in 0..64
    /\ attempt \in 0..4 /\ fingerprint \in Fingerprints \cup {"none"} /\ repeated \in 0..3
    /\ journeys \in Plans \cup {0} /\ observed \in BOOLEAN
    /\ \A i \in DOMAIN baseline : baseline[i] \in Verdicts
    /\ \A i \in DOMAIN experiments :
        experiments[i].mutation \in Mutations /\ experiments[i].candidate \in Configs
    /\ current \in Configs /\ composePath \in 0..Len(experiments)
    /\ provenance \in BOOLEAN /\ warm \in BOOLEAN /\ loopback \in BOOLEAN
    /\ pc \in {"ready", "plan_journeys", "planned", "claimed", "inputs", "session",
               "accepting", "hardening", "down", "ended"}
    /\ slot \in 0..4 /\ resumes \in 0..MaxResumes

\* What a node needs of its predecessors it finds after any resumption, in the
\* checkpoint and on disk: an experiment's parent is the file compose_path
\* names, that file is the one the last KEEP accepted, and an overlay that was
\* made is still there.  So no run stops for "parent_hash_mismatch" or
\* "accepted_compose_materialization_failed" unless somebody else changed a file.
DiskMatchesState ==
    /\ node \in {"experiment", "decide", "report_or_next", "end"} =>
            ~AcceptedMismatch /\ ~ParentMismatch
    /\ node = "decide" => Decidable /\ Follows

\* Whenever a run ends with an accepted change, the validation of its complete
\* history succeeds, whatever interruptions it was resumed from; and a cumulative
\* overlay is reported only when it is whole and of the final configuration.
HistoryIsReplayable ==
    /\ node \in {"report_or_next", "end"} /\ stop # "none" /\ KeptIndices # {} => ChainValid
    /\ provenance =>
            ChainValid /\ [config |-> current, whole |-> TRUE] \in disk.hardened

\* A run can always go on from its disk and be replayed from its history: after
\* any interruption nothing of either contradicts the checkpoint.
DiskIsReplayable == DiskMatchesState /\ HistoryIsReplayable

\* A completed run (exit code 0) has seen every baseline journey pass, and every
\* change in its final configuration was kept by an experiment that replayed all
\* of them.
CompletedIsEarned ==
    pc = "ended" /\ Outcome = "completed" =>
        /\ observed /\ baseline # <<>> /\ AllPass(baseline)
        /\ \A change \in OnDisk(composePath) : \E i \in KeptIndices :
            /\ Change(experiments[i].mutation) = change
            /\ Len(experiments[i].journeys) = Len(baseline)
            /\ AllPass(experiments[i].journeys)

\* "Keep or roll back each change based on replayed checks" (README.md:30): a
\* completed run has decided every change it proposed, so it was the policy that
\* ended it.
CompletedWasDecided ==
    pc = "ended" /\ Outcome = "completed" =>
        stop \in {"insufficient_coverage", "experiment_budget_exhausted",
                  "consecutive_failures", "no_remaining_mutations"}

\* The stage history never reaches the limit at which _visit raises: besides the
\* stages of a run that goes straight through, a visit is paid for by a counted
\* boot attempt or by an appended experiment, never by an interruption.
StageHistoryFits ==
    /\ visits <= 7 + attempt + 4 * Len(experiments)
    /\ node # "end" => visits < 64

\* A resumed node writes its evidence into a directory no session wrote to, so
\* the evidence of an interrupted attempt is never overwritten or mixed.
FreshEvidence ==
    [][pc' = "session" /\ pc # "session" => Directory(slot) \notin disk.used]_vars

\* Nothing runs and nothing is decided after a stop reason is checkpointed.
StopIsFinal ==
    [][stop # "none" => /\ stop' = stop /\ experiments' = experiments
                        /\ disk'.claimed = disk.claimed]_vars

\* A step that is repeated after an interruption disturbs nothing: not the evidence
\* of the interrupted attempt, and not a run that had stopped.
RepetitionIsHarmless == FreshEvidence /\ StopIsFinal

\* Every invocation ends: the run is over, or it raised and may be resumed.
InvocationsEnd == <>[](pc \in {"ended", "down"})

-----------------------------------------------------------------------------
Loop == INSTANCE HardeningLoop WITH
    baseline <- IF observed THEN baseline ELSE <<>>,
    stop <- IF stop \in {"compatibility", "boot_recovery_stopped", "boot_unsupported",
                         "image_prepare_failed", "operation_failed"}
            THEN "failed" ELSE stop

\* However it is interrupted and resumed, the run is the hardening loop: no
\* decision is lost, repeated or made on another configuration.
ImplementsLoop == Loop!Spec
=============================================================================
