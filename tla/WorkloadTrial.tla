--------------------------- MODULE WorkloadTrial ---------------------------
(***************************************************************************)
(* What is done with a workload once its sandbox is equipped: it is booted *)
(* (ComposeBoot), journeys are replayed against it (HttpJourney) and it is *)
(* observed (Observation).  The baseline of the run graph (agent/graph.py) *)
(* replays every journey and observes then; a hardening experiment         *)
(* (hardening/engine.py) observes first, stops at the first journey that   *)
(* does not pass and decides by hardening/policy.py.                       *)
(*                                                                         *)
(* Meanwhile the containers live their own lives.                          *)
(***************************************************************************)
EXTENDS Naturals, Sequences, FiniteSets

CONSTANTS Services, Probed, Urls, MaxRedirects,
          Plans,       \* the journey plans: sequences of journeys
          MaxChanges   \* bound on what happens to the containers during a boot, and after it

\* A step of a journey plan: the tool that replays it, its request, what it has to
\* do with the bearer token and what it asserts (domain/models.py).
JourneySteps == [tool: STRING, method: STRING, auth: {"none", "capture", "use"},
                 asserts: SUBSET STRING, url: STRING]

ASSUME ServicesAssumption == IsFiniteSet(Services)
ASSUME RedirectsAssumption == MaxRedirects \in Nat
ASSUME PlansAssumption == Plans \subseteq Seq(Seq(JourneySteps))

VARIABLES
    kind,      \* "baseline" or "experiment"
    phase,     \* "boot", "recover", "publish", "journeys", "observation", "done", "raised"
    plan,      \* the journeys
    results,   \* the outcomes of the journeys replayed
    record,    \* the experiment's verdict
    changes,
    \* the containers, and the boot
    status, container, evidence, secrets, template, at, up, first, last, rechecked,
    document, stages, verdict,
    \* the journey under way
    journey, step, url, visited, token, answer, files, passed, outcome,
    \* the observation
    recorded, doing, todo, ledger, audit, snapshot

Boot == INSTANCE ComposeBoot
Http == INSTANCE HttpJourney
Observe == INSTANCE Observation

containers == <<status, container>>
bootVars == <<evidence, secrets, template, at, up, first, last, rechecked,
              document, stages, verdict>>
journeyVars == <<journey, step, url, visited, token, answer, files, passed, outcome>>
observationVars == <<recorded, doing, todo, ledger, audit, snapshot>>
trialVars == <<kind, phase, plan, results, record>>
vars == <<trialVars, changes, containers, bootVars, journeyVars, observationVars>>

-----------------------------------------------------------------------------
Init ==
    /\ kind \in {"baseline", "experiment"} /\ phase = "boot"
    /\ plan \in Plans /\ results = <<>> /\ record = "none" /\ changes = 0
    /\ status = [s \in Services |-> "absent"]
    /\ container = [s \in Services |-> 1]
    /\ Boot!BootInit(kind = "baseline")
    /\ Http!NoJourney
    /\ Observe!ObservationInit(IF kind = "baseline" THEN {TRUE} ELSE BOOLEAN)

-----------------------------------------------------------------------------
(* The containers                                                          *)

Became(s, next) == status' = [status EXCEPT ![s] = next]

\* A health check succeeds for the first time.
Healthy == /\ \E s \in Services : status[s] = "starting" /\ Became(s, "ready")
           /\ UNCHANGED <<trialVars, changes, container, bootVars, journeyVars, observationVars>>

\* A health check fails, a process ends or is restarted by its policy, or the
\* container is replaced by another one.
Change ==
    /\ changes < MaxChanges /\ changes' = changes + 1
    /\ \E s \in Services :
         /\ status[s] # "absent"
         /\ \/ status[s] \in {"starting", "ready"} /\ s \in Probed /\ Became(s, "unhealthy")
               /\ UNCHANGED container
            \/ status[s] \in {"starting", "ready", "unhealthy"} /\ Became(s, "exited")
               /\ UNCHANGED container
            \/ status[s] = "exited" /\ Became(s, IF s \in Probed THEN "starting" ELSE "ready")
               /\ UNCHANGED container
            \/ container' = [container EXCEPT ![s] = @ + 1]
               /\ Became(s, IF s \in Probed THEN "starting" ELSE "ready")
    /\ phase \in {"boot", "observation"}
    /\ UNCHANGED <<trialVars, bootVars, journeyVars, observationVars>>

-----------------------------------------------------------------------------
(* The phases                                                              *)

\* An exception: the node of the run graph raises; an experiment stops, unless
\* it is a cancellation or a failed cleanup.
Raised == \/ phase' = "raised" /\ UNCHANGED record
          \/ kind = "experiment" /\ phase' = "done" /\ record' = "STOP"

\* Mutant of Decision: a journey that could not be replayed is none that failed.
DecisionOfFailures(outcomes) ==
    IF verdict = "fail" THEN "ROLLBACK"
    ELSE IF plan = <<>> THEN "STOP"
    ELSE IF \E i \in DOMAIN outcomes : outcomes[i] = "fail" THEN "ROLLBACK"
    ELSE IF Len(outcomes) = Len(plan) THEN "KEEP" ELSE "none"

\* decide_candidate over the results so far.
Decision(outcomes) ==
    IF verdict = "fail" THEN "ROLLBACK"
    ELSE IF plan = <<>> THEN "STOP"
    ELSE IF \E i \in DOMAIN outcomes : outcomes[i] # "pass"
    THEN LET bad == CHOOSE i \in DOMAIN outcomes :
                      outcomes[i] # "pass" /\ \A j \in 1..(i - 1) : outcomes[j] = "pass"
         IN IF outcomes[bad] = "fail" THEN "ROLLBACK" ELSE "STOP"
    ELSE IF Len(outcomes) = Len(plan) THEN "KEEP" ELSE "none"

Booting ==
    /\ phase = "boot" /\ Boot!BootStep
    /\ UNCHANGED <<trialVars, changes, journeyVars, observationVars>>

\* What the boot used is gone with it; its document and verdict stay.
ForgetBoot == /\ up' = Boot!Broken /\ first' = Boot!NotListed /\ last' = Boot!NotListed
              /\ rechecked' = FALSE /\ stages' = <<>> /\ secrets' = FALSE
              /\ UNCHANGED <<evidence, template, at, document, verdict>>

Booted ==
    /\ phase = "boot" /\ at \in {"returned", "raised"} /\ ForgetBoot
    /\ \/ at = "raised" /\ Raised
       \/ /\ at = "returned" /\ kind = "baseline" /\ UNCHANGED record
          /\ phase' = IF verdict = "fail" THEN "recover"
                      ELSE IF plan = <<>> THEN "observation" ELSE "publish"
       \/ /\ at = "returned" /\ kind = "experiment" /\ record' = Decision(<<>>)
          /\ phase' = IF Decision(<<>>) = "none" THEN "observation" ELSE "done"
    /\ changes' = 0
    /\ UNCHANGED <<kind, plan, results, containers, journeyVars, observationVars>>

\* After the failed boot of a baseline: the recovery enters the document.
Recovering ==
    /\ phase = "recover" /\ Boot!Recover
    /\ phase' = IF at' = "raised" THEN "raised" ELSE "done"
    /\ UNCHANGED <<kind, plan, results, record, changes, journeyVars, observationVars>>

\* publish_port, and the first journey.
Publish ==
    /\ phase = "publish"
    /\ \/ Raised /\ UNCHANGED journeyVars
       \/ phase' = "journeys" /\ Http!Opens(plan[1]) /\ UNCHANGED record
    /\ UNCHANGED <<kind, plan, results, changes, containers, bootVars, observationVars>>

Replaying ==
    /\ phase = "journeys" /\ Http!JourneyStep
    /\ UNCHANGED <<trialVars, changes, containers, bootVars, observationVars>>

\* The baseline replays them all; an experiment as long as nothing is decided.
JourneyEnds ==
    /\ phase = "journeys" /\ outcome # "none"
    /\ LET outcomes == Append(results, outcome)
           decision == Decision(outcomes)
           more == IF kind = "baseline" THEN Len(outcomes) < Len(plan) ELSE decision = "none"
       IN \/ /\ outcome = "raised" /\ Raised
             /\ UNCHANGED <<results, journeyVars>>
          \/ /\ outcome # "raised" /\ results' = outcomes
             /\ record' = IF kind = "baseline" THEN record ELSE decision
             /\ phase' = IF more THEN "journeys"
                         ELSE IF kind = "baseline" THEN "observation" ELSE "done"
             /\ IF more THEN Http!Opens(plan[Len(outcomes) + 1])
                ELSE /\ journey' = <<>> /\ step' = 0 /\ url' = "none" /\ visited' = {}
                     /\ token' = 0 /\ answer' = Http!NoAnswer /\ files' = <<>>
                     /\ passed' = 0 /\ outcome' = "none"
    /\ UNCHANGED <<kind, plan, changes, containers, bootVars, observationVars>>

Observing ==
    /\ phase = "observation" /\ Observe!ObservationStep
    /\ UNCHANGED <<trialVars, changes, at, up, first, last, rechecked, document, stages,
                   evidence, secrets, verdict, journeyVars>>

Observed ==
    /\ phase = "observation" /\ doing \in {"returned", "raised"}
    /\ \/ doing = "raised" /\ Raised
       \/ /\ doing = "returned" /\ UNCHANGED record
          /\ phase' = IF kind = "baseline" THEN "done" ELSE "publish"
    /\ UNCHANGED <<kind, plan, results, changes, containers, bootVars, journeyVars,
                   observationVars>>

Step == \/ Booting \/ Booted \/ Recovering \/ Publish \/ Replaying \/ JourneyEnds
        \/ Observing \/ Observed

Next == Step \/ Healthy \/ Change
Spec == Init /\ [][Next]_vars

\* Every command and request has a timeout, and no step waits for a container.
Fairness == WF_vars(Step)
FairSpec == Spec /\ Fairness

-----------------------------------------------------------------------------
(* Properties                                                              *)

\* A boot that passes has seen, in one listing, a container of every service
\* running and healthy; when it had to look twice, the containers of the first
\* look (boot.py: exit status, listing and recheck together).
PassIsReady ==
    phase = "boot" /\ verdict = "pass" =>
        /\ DOMAIN last = Services
        /\ \A s \in Services : last[s].status = "ready"
        /\ rechecked => \A s \in DOMAIN first : last[s].id = first[s].id

\* The document of a boot tells what the boot did: its commands are those that
\* were begun, in their order and none twice, all of them when the boot returned,
\* and the verdict is the one that was returned (boot_evidence.py).
StageName(row) == CASE row[1] = "up_initial" -> "up" [] row[1] = "ps_initial" -> "ps"
                    [] OTHER -> row[1]
EvidenceIsExecution ==
    phase = "boot" /\ evidence =>
        LET told == [i \in DOMAIN document.commands |-> StageName(document.commands[i])]
        IN /\ Len(told) <= Len(stages) /\ told = SubSeq(stages, 1, Len(told))
           /\ \A i \in DOMAIN told : document.commands[i][2] = "exception" => i = Len(told)
           /\ at = "returned" => /\ document.state = "whole" /\ document.final = verdict
                                 /\ Len(told) = Len(stages)
           /\ document.final # "none" => at \in {"returned", "raised"}

\* The ledger of an observation is a sequence of finished operations, of which
\* only the last may have failed or be unfinished; a snapshot that is returned
\* has a ledger of nothing but successes and a whole audit (observer.py).
LedgerIsPaired ==
    /\ \A i \in DOMAIN ledger :
         /\ i % 2 = 1 => ledger[i][2] = "start" \/ (ledger[i][2] = "torn" /\ i = Len(ledger))
         /\ i % 2 = 0 => /\ ledger[i][1] = ledger[i - 1][1]
                         /\ ledger[i][2] # "start"
                         /\ ledger[i][2] # "success" => i = Len(ledger)
    /\ doing = "returned" =>
         /\ audit = "whole"
         /\ recorded => /\ ledger[Len(ledger)] = <<Observe!Op("audit"), "success">>
                        /\ \A s \in DOMAIN snapshot :
                             <<[name |-> "top", of |-> s, id |-> snapshot[s]], "success">>
                                 \in {ledger[i] : i \in DOMAIN ledger}
    /\ <<Observe!Op("audit"), "success">> \in {ledger[i] : i \in DOMAIN ledger} => audit = "whole"

\* The token a step uses is the one of the last step that was to capture one,
\* and that step has whole evidence of a whole response with success and of
\* assertions that held (http_runner.py: taken over after evidence and judgement).
TokenIsEarned ==
    LET captures == {i \in 1..(step - 1) : journey[i].auth = "capture"}
    IN phase = "journeys" /\ outcome = "none" /\ step > 0 =>
         /\ Cardinality(captures) > 0 <=> token # 0
         /\ token # 0 => /\ token \in captures /\ \A i \in captures : i <= token
                         /\ files[token].state = "whole" /\ files[token].failure = "none"
                         /\ files[token].response.status = "success"
                         /\ files[token].response.body = "whole"
         /\ Cardinality(visited) <= MaxRedirects + 1

\* A hardening is kept only for a boot that passed, an observation and every
\* journey of the plan passed; it is rolled back only for a boot or a journey
\* that failed, the last one replayed; a journey passes only with evidence of
\* every step (engine.py, policy.py, http_runner.py).
RecordIsEarned ==
    /\ record = "KEEP" => /\ verdict = "pass" /\ doing = "returned" /\ audit = "whole"
                          /\ Len(results) = Len(plan) /\ plan # <<>>
                          /\ \A i \in DOMAIN results : results[i] = "pass"
    /\ record = "ROLLBACK" =>
         verdict = "fail" \/ (/\ results # <<>> /\ results[Len(results)] = "fail"
                              /\ \A i \in 1..(Len(results) - 1) : results[i] = "pass")
    /\ phase = "journeys" /\ outcome = "pass" =>
         /\ Len(files) = Len(journey)
         /\ \A i \in DOMAIN files : files[i].state = "whole" /\ files[i].failure = "none"
    /\ kind = "baseline" /\ phase = "done" /\ verdict = "pass" =>
         Len(results) = Len(plan) /\ doing = "returned"

\* Every trial comes to an end, whatever the containers and the port answer.
TrialEnds == <>(phase \in {"done", "raised"})
=============================================================================
