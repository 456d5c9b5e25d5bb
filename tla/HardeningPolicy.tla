-------------------------- MODULE HardeningPolicy --------------------------
(***************************************************************************)
(* The pure decisions of hardening/policy.py and the outcomes of one       *)
(* candidate run in hardening/engine.py.                                   *)
(*                                                                         *)
(* A Compose configuration is the set of changes applied to the baseline:  *)
(* equal sets stand for equal configuration hashes.  A service is a        *)
(* natural number, which gives the lexical order of service names.         *)
(***************************************************************************)
EXTENDS Naturals, Sequences, FiniteSets, FiniteSetsExt

CONSTANTS
    Findings,    \* RunState.risk_findings: [kind, service, severity]
    Satisfied,   \* changes <<type, service>> apply_mutation rejects as no-ops
    TmpWriters   \* services whose baseline observation shows a change in /tmp

Verdicts == {"pass", "fail", "unsupported"}

MutationOf ==
    [privileged         |-> "drop_privileged",
     docker_socket_rw   |-> "remove_docker_socket",
     root_user          |-> "set_non_root",
     root_user_possible |-> "drop_all_caps",
     cap_add            |-> "drop_all_caps",
     writable_rootfs    |-> "set_read_only",
     host_network       |-> "bridge_network"]

Priority == <<"drop_privileged", "remove_docker_socket", "set_non_root",
              "drop_all_caps", "set_read_only", "bridge_network">>

Services == {f.service : f \in Findings}
MutationTypes == {Priority[i] : i \in DOMAIN Priority} \cup {"add_tmpfs"}
Origins == {"finding", "after_read_only", "after_tmpfs"}
Changes == MutationTypes \X Services
Configs == SUBSET Changes

\* A mutation's origin and its change make up its mutation_id, which is the
\* experiment_id of its record.
Mutations == [type : MutationTypes, service : Services, origin : Origins]
Change(m) == <<m.type, m.service>>

ASSUME PolicyAssumption ==
    /\ IsFiniteSet(Findings)
    /\ \A f \in Findings : f.service \in Nat /\ f.severity \in 0..100

-----------------------------------------------------------------------------
(* propose_mutation                                                        *)

\* Mutant of Attempted: only kept changes count.
AttemptedKept(experiments) ==
    {Change(experiments[i].mutation) :
        i \in {i \in DOMAIN experiments : experiments[i].verdict = "keep"}}
Attempted(experiments) ==
    {Change(experiments[i].mutation) : i \in DOMAIN experiments}

ChangeOf(f) == <<MutationOf[f.kind], f.service>>

Candidates(experiments) ==
    {ChangeOf(f) : f \in {f \in Findings : f.kind \in DOMAIN MutationOf}}
        \ Attempted(experiments)

Severity(change) ==
    Max({f.severity : f \in {f \in Findings :
            f.kind \in DOMAIN MutationOf /\ ChangeOf(f) = change}})

RankOf(type) == CHOOSE i \in DOMAIN Priority : Priority[i] = type

\* The sort key (priority, -severity, service), compared.
Precedes(c, d) ==
    \/ RankOf(c[1]) < RankOf(d[1])
    \/ RankOf(c[1]) = RankOf(d[1]) /\ Severity(c) > Severity(d)
    \/ RankOf(c[1]) = RankOf(d[1]) /\ Severity(c) = Severity(d) /\ c[2] < d[2]

First(candidates) ==
    CHOOSE c \in candidates : \A d \in candidates \ {c} : Precedes(c, d)

\* A rolled-back read-only root filesystem that wrote below /tmp is followed by
\* a tmpfs on /tmp, unless that was tried or the configuration has moved on.
CanAddTmpfs(experiments, current) ==
    /\ experiments # <<>>
    /\ LET latest == experiments[Len(experiments)] IN
        /\ latest.mutation.type = "set_read_only"
        /\ latest.verdict = "rollback"
        /\ latest.tmp
        /\ latest.parent = current
        /\ <<"add_tmpfs", latest.mutation.service>> \notin Attempted(experiments)

\* Once that tmpfs is kept, the read-only change is tried again on top of it.
CanRetryReadOnly(experiments, current) ==
    /\ Len(experiments) >= 2
    /\ LET readOnly == experiments[Len(experiments) - 1]
           tmpfs == experiments[Len(experiments)]
           service == readOnly.mutation.service
       IN
        /\ readOnly.mutation.type = "set_read_only"
        /\ readOnly.verdict = "rollback"
        /\ tmpfs.mutation = [type |-> "add_tmpfs", service |-> service,
                             origin |-> "after_read_only"]
        /\ tmpfs.verdict = "keep"
        /\ tmpfs.parent = readOnly.parent
        /\ current = tmpfs.candidate
        /\ readOnly.tmp
        /\ \A i \in DOMAIN experiments :
              Change(experiments[i].mutation) = <<"set_read_only", service>> =>
                experiments[i].parent # tmpfs.candidate

Stopped(experiments) ==
    \E i \in DOMAIN experiments : experiments[i].verdict = "stop"
Uncovered(results) == \A i \in DOMAIN results : results[i] # "pass"

Exhausted(experiments) == Len(experiments) >= 8

Streak(experiments) ==
    /\ Len(experiments) >= 3
    /\ \A i \in Len(experiments)-2..Len(experiments) :
          experiments[i].verdict = "rollback"

\* The early returns of propose_mutation, in order.
PolicyStop(results, experiments) ==
    IF Stopped(experiments) THEN "experiment_stopped"
    ELSE IF Uncovered(results) THEN "insufficient_coverage"
    ELSE IF Exhausted(experiments) THEN "experiment_budget_exhausted"
    ELSE IF Streak(experiments) THEN "consecutive_failures"
    ELSE "none"

\* The mutations propose_mutation can return here: none or one.
Proposals(experiments, current) ==
    LET latest == experiments[Len(experiments)].mutation.service IN
    IF CanAddTmpfs(experiments, current)
    THEN {[type |-> "add_tmpfs", service |-> latest, origin |-> "after_read_only"]}
    ELSE IF CanRetryReadOnly(experiments, current)
    THEN {[type |-> "set_read_only", service |-> latest, origin |-> "after_tmpfs"]}
    ELSE IF Candidates(experiments) = {} THEN {}
    ELSE LET c == First(Candidates(experiments)) IN
         {[type |-> c[1], service |-> c[2], origin |-> "finding"]}

-----------------------------------------------------------------------------
(* decide_candidate and _run_candidate                                     *)

\* The decision, or "none" while the replay goes on.
DecideCandidate(boot, journeys, expected) ==
    LET bad == {i \in DOMAIN journeys : journeys[i] # "pass"} IN
    CASE boot = "fail" -> "rollback"
      [] boot = "unsupported" -> "stop"
      [] boot = "pass" /\ expected = 0 -> "stop"
      [] OTHER ->
            IF bad # {} THEN IF journeys[Min(bad)] = "fail" THEN "rollback" ELSE "stop"
            ELSE IF Len(journeys) = expected THEN "keep" ELSE "none"

\* The journeys of the baseline that passed, replayed one at a time until the
\* first decision.
Replays(expected) ==
    {js \in UNION {[1..n -> Verdicts] : n \in 1..expected} :
        /\ DecideCandidate("pass", js, expected) # "none"
        /\ \A n \in 1..Len(js)-1 :
              DecideCandidate("pass", SubSeq(js, 1, n), expected) = "none"}

\* What _run_candidate can return: a decision after the boot, a decision of the
\* replay, or STOP when a stage (materialization, boot, observation, publish,
\* one journey's replay) raises.  "observed" says that the record holds an
\* observation of the candidate.
CandidateOutcomes(expected) ==
    {[boot |-> boot, journeys |-> <<>>, observed |-> FALSE,
      verdict |-> DecideCandidate(boot, <<>>, expected)] :
            boot \in {v \in Verdicts : DecideCandidate(v, <<>>, expected) # "none"}}
    \cup {[boot |-> "pass", journeys |-> js, observed |-> TRUE,
           verdict |-> DecideCandidate("pass", js, expected)] : js \in Replays(expected)}
    \cup {[boot |-> boot, journeys |-> <<>>, observed |-> FALSE, verdict |-> "stop"] :
            boot \in {"pass", "unsupported"}}
    \cup {[boot |-> "pass", journeys |-> [i \in 1..n |-> "pass"], observed |-> TRUE,
           verdict |-> "stop"] : n \in 0..expected - 1}

\* _has_tmp_change over the record's two observations.
TmpSeen(service, observed) ==
    IF service \in TmpWriters THEN {TRUE} ELSE IF observed THEN BOOLEAN ELSE {FALSE}

Passed(results) == Cardinality({i \in DOMAIN results : results[i] = "pass"})

\* The records run_experiment can return for a mutation on a configuration.
Records(mutation, current, results) ==
    UNION {{[mutation |-> mutation, parent |-> current,
             candidate |-> current \cup {Change(mutation)},
             boot |-> o.boot, journeys |-> o.journeys, verdict |-> o.verdict,
             tmp |-> tmp] : tmp \in TmpSeen(mutation.service, o.observed)} :
           o \in CandidateOutcomes(Passed(results))}

-----------------------------------------------------------------------------
(* What a decided experiment does to the configuration                     *)

\* Mutant of Decided: the candidate of a rolled-back experiment stays.
DecidedAnyway(record, current) ==
    IF record.verdict # "stop" THEN record.candidate ELSE current
Decided(record, current) ==
    IF record.verdict = "keep" THEN record.candidate ELSE current

\* The configuration that replaying the kept experiments before the n-th gives.
KeptBefore(experiments, n) ==
    {Change(experiments[i].mutation) :
        i \in {i \in 1..n-1 : experiments[i].verdict = "keep"}}
=============================================================================
