--------------------------- MODULE HardeningLoop ---------------------------
(***************************************************************************)
(* The hardening loop as agent/graph.py promises it, without nodes,        *)
(* checkpoints, files or crashes: a baseline result, then one decided      *)
(* experiment after another until the run stops.                           *)
(***************************************************************************)
EXTENDS HardeningPolicy

CONSTANTS MaxJourneys   \* bound on the journeys of the baseline

ASSUME JourneysAssumption == MaxJourneys \in Nat

VARIABLES
    observed,     \* the baseline journeys and observation are recorded
    baseline,     \* baseline_journey_results
    experiments,  \* RunState.experiments
    current,      \* current_config_hash
    stop          \* stop_reason

vars == <<observed, baseline, experiments, current, stop>>

BaselineResults == UNION {[1..n -> Verdicts] : n \in 0..MaxJourneys}

PolicyReasons == {"experiment_stopped", "insufficient_coverage",
    "experiment_budget_exhausted", "consecutive_failures", "no_remaining_mutations"}

Init ==
    /\ observed = FALSE /\ baseline = <<>>
    /\ experiments = <<>>
    /\ current = {}
    /\ stop = "none"

Running == stop = "none" /\ observed

Observe ==
    /\ stop = "none" /\ ~observed
    /\ observed' = TRUE
    /\ baseline' \in BaselineResults
    /\ UNCHANGED <<experiments, current, stop>>

\* One proposal, experiment and decision.
Try ==
    /\ Running
    /\ PolicyStop(baseline, experiments) = "none"
    /\ \E mutation \in Proposals(experiments, current) :
        /\ Change(mutation) \notin Satisfied
        /\ \E record \in Records(mutation, current, baseline) :
            /\ experiments' = Append(experiments, record)
            /\ current' = Decided(record, current)
            /\ stop' = IF record.verdict = "stop" THEN "experiment" ELSE "none"
    /\ UNCHANGED <<observed, baseline>>

\* apply_mutation rejects the proposal as already satisfied: the run stops and
\* the proposal is never decided.
Reject ==
    /\ Running
    /\ PolicyStop(baseline, experiments) = "none"
    /\ \E mutation \in Proposals(experiments, current) : Change(mutation) \in Satisfied
    /\ stop' = "failed"
    /\ UNCHANGED <<observed, baseline, experiments, current>>

\* Mutant of Finish: running out of mutations is no reason to stop.
FinishOnPolicy ==
    /\ Running
    /\ PolicyStop(baseline, experiments) # "none"
    /\ stop' = PolicyStop(baseline, experiments)
    /\ UNCHANGED <<observed, baseline, experiments, current>>

\* The policy ends the loop.
Finish ==
    /\ Running
    /\ \/ /\ PolicyStop(baseline, experiments) # "none"
          /\ stop' = PolicyStop(baseline, experiments)
       \/ /\ PolicyStop(baseline, experiments) = "none"
          /\ Proposals(experiments, current) = {}
          /\ stop' = "no_remaining_mutations"
    /\ UNCHANGED <<observed, baseline, experiments, current>>

\* The run stops before its next decision: the boot, its inputs or the
\* preparation of an experiment failed.
GiveUp ==
    /\ stop = "none"
    /\ stop' = "failed"
    /\ UNCHANGED <<observed, baseline, experiments, current>>

Advance == Observe \/ Try \/ Reject \/ Finish
Next == Advance \/ GiveUp

Spec == Init /\ [][Next]_vars

\* The driver awaits node after node until the run stops; nothing is assumed of
\* failures.
FairSpec == Spec /\ WF_vars(Advance)

-----------------------------------------------------------------------------
\* Type correctness.
TypeOK ==
    /\ observed \in BOOLEAN /\ baseline \in BaselineResults
    /\ \A i \in DOMAIN experiments :
        /\ experiments[i].mutation \in Mutations
        /\ experiments[i].parent \in Configs /\ experiments[i].candidate \in Configs
        /\ experiments[i].verdict \in {"keep", "rollback", "stop"}
    /\ current \in Configs
    /\ stop \in {"none", "failed", "experiment"} \cup PolicyReasons

\* _decide never meets an experiment_id it has already appended, and no change
\* is tried twice on the same configuration, whatever the follow-ups after
\* read-only and tmpfs do.
NoExperimentRepeated ==
    \A i, j \in DOMAIN experiments : i # j =>
        /\ experiments[i].mutation # experiments[j].mutation
        /\ ~ /\ experiments[i].parent = experiments[j].parent
             /\ Change(experiments[i].mutation) = Change(experiments[j].mutation)

\* The hash chain _materialize_hardened_overlay validates at the end: replaying
\* the kept changes from the baseline gives every record's parent and the
\* current configuration.
ChainReplays ==
    /\ \A i \in DOMAIN experiments : experiments[i].parent = KeptBefore(experiments, i)
    /\ current = KeptBefore(experiments, Len(experiments) + 1)

\* An accepted change has booted and lost none of the journeys that passed at
\* the baseline.
KeepIsEarned ==
    \A i \in DOMAIN experiments : experiments[i].verdict = "keep" =>
        /\ experiments[i].boot = "pass"
        /\ Len(experiments[i].journeys) = Passed(baseline)
        /\ \A n \in DOMAIN experiments[i].journeys : experiments[i].journeys[n] = "pass"

\* At most eight experiments, never a fourth after three rollbacks in a row, and
\* none after a STOP.
WithinBudget ==
    /\ Len(experiments) <= 8
    /\ \A i \in DOMAIN experiments : i > 3 =>
        \E j \in i-3..i-1 : experiments[j].verdict # "rollback"
    /\ \A i \in DOMAIN experiments : i < Len(experiments) =>
        experiments[i].verdict # "stop"

\* The change of a finding is never tried before one of higher priority, or of
\* the same priority and higher severity, that was still open.
PriorityHonoured ==
    \A i, j \in DOMAIN experiments :
        LET early == experiments[i].mutation
            late == experiments[j].mutation
        IN i < j /\ early.origin = "finding" /\ late.origin = "finding" =>
            /\ RankOf(early.type) <= RankOf(late.type)
            /\ early.type = late.type =>
                Severity(Change(early)) >= Severity(Change(late))

\* A run that ends for want of mutations has tried the change of every finding.
AllFindingsTried ==
    stop = "no_remaining_mutations" =>
        \A f \in Findings : f.kind \in DOMAIN MutationOf =>
            ChangeOf(f) \in Attempted(experiments)

\* The search for changes neither repeats nor forgets: within its budget it tries
\* the change of every finding, each once and the most important first.
SearchIsOrderly ==
    /\ NoExperimentRepeated
    /\ WithinBudget
    /\ PriorityHonoured
    /\ AllFindingsTried

\* The final configuration is the baseline with the earned changes and no others.
FinalIsEarned == ChainReplays /\ KeepIsEarned

\* The loop comes to an end, for any outcomes of its experiments.
Ends == <>(stop # "none")
=============================================================================
