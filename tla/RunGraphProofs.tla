--------------------------- MODULE RunGraphProofs ---------------------------
(***************************************************************************)
(* TLAPS proofs about RunGraph, for any findings, plans and number of      *)
(* resumptions.                                                            *)
(***************************************************************************)
EXTENDS RunGraph, TLAPS, SequenceTheorems, FiniteSetTheorems

-----------------------------------------------------------------------------
(* Where the control may be                                                *)

DiskFields == {"compatibility", "journeys", "claimed", "marked", "used",
               "overlays", "accepted", "hardened"}

\* Which node may wait where; a stop reason leaves only the report.
Control ==
    /\ DOMAIN disk = DiskFields
    /\ pc \in {"plan_journeys", "planned"} => node = "baseline"
    /\ pc \in {"claimed", "inputs", "session"} => node \in {"boot", "experiment"}
    /\ pc = "accepting" => node = "decide"
    /\ pc = "hardening" => node = "report_or_next"
    /\ node = "end" <=> pc = "ended"
    /\ stop # "none" => node \in {"report_or_next", "end"}

\* The control facts hold when the run starts.
LEMMA InitControl == Init => Control
BY DEF Init, Control, EmptyDisk, DiskFields

\* Every step of the run keeps them, interruptions and resumptions included.
LEMMA StepControl == Control /\ [Next]_vars => Control'
<1> SUFFICES ASSUME Control, [Next]_vars PROVE Control'
  OBVIOUS
<1> USE DEF Control, At, Return, Stop, Raise, graphVars, bootVars, planVars,
        configVars, runVars
<1>1. CASE Intake \/ CompatibilityRefused \/ PlanCompatibility \/ BaselineReturns
  BY <1>1 DEF Intake, CompatibilityRefused, PlanCompatibility, BaselineReturns
<1>2. ASSUME NEW plan \in Plans, PlanJourneys(plan) \/ PlanChanged(plan) PROVE Control'
  BY <1>2 DEF PlanJourneys, PlanChanged
<1>3. CASE Claim \/ Mark \/ ClaimFails
  BY <1>3 DEF Claim, Mark, ClaimFails, Claiming
<1>4. CASE BootGivesUp \/ BootStarts \/ BootPasses
  BY <1>4 DEF BootGivesUp, BootStarts, BootPasses
<1>5. ASSUME NEW reason \in {"boot_unsupported", "image_prepare_failed", "compatibility"},
             BootRefused(reason) \/ BootUnsupported(reason)
      PROVE Control'
  BY <1>5 DEF BootRefused, BootUnsupported
<1>6. ASSUME NEW hash \in Fingerprints, BootFails(hash) PROVE Control'
  BY <1>6 DEF BootFails
<1>7. CASE Journeys \/ Observe \/ Propose
  BY <1>7 DEF Journeys, Observe, Propose
<1>8. CASE ExperimentAborts \/ ExperimentStops \/ ExperimentStarts
  BY <1>8 DEF ExperimentAborts, ExperimentStops, ExperimentStarts, Recorded
<1>9. CASE ExperimentEnds \/ ExperimentIncompatible
  BY <1>9 DEF ExperimentEnds, ExperimentIncompatible, Recorded
<1>10. CASE DecideReturns \/ Accept \/ Accepted \/ DecideFails
  BY <1>10 DEF DecideReturns, Accept, Accepted, DecideFails
<1>11. CASE Continue \/ Harden \/ Hardened \/ Report
  BY <1>11 DEF Continue, Harden, Hardened, Report
<1>12. CASE Interrupt \/ Resume
  BY <1>12 DEF Interrupt, Resume
<1>13. CASE UNCHANGED vars
  BY <1>13 DEF vars
<1>14. QED
  BY <1>1, <1>2, <1>3, <1>4, <1>5, <1>6, <1>7, <1>8, <1>9, <1>10, <1>11, <1>12, <1>13
     DEF Next, Advance

\* The control facts hold in every run.
LEMMA ControlHolds == Spec => []Control
<1>1. Init => Control
  BY InitControl
<1>2. Control /\ [Next]_vars => Control'
  BY StepControl
<1>3. QED
  BY <1>1, <1>2, PTL DEF Spec

\* The steps that a checkpointed stop reason leaves.
LEMMA AfterStop ==
    Control /\ stop # "none" /\ [Next]_vars =>
        Harden \/ Hardened \/ Report \/ Interrupt \/ Resume \/ UNCHANGED vars
<1> SUFFICES ASSUME Control, stop # "none", [Next]_vars
             PROVE Harden \/ Hardened \/ Report \/ Interrupt \/ Resume \/ UNCHANGED vars
  OBVIOUS
<1>1. ~(Intake \/ CompatibilityRefused \/ PlanCompatibility \/ BaselineReturns)
  BY DEF Control, Intake, CompatibilityRefused, PlanCompatibility, BaselineReturns, At
<1>2. \A plan \in Plans : ~PlanJourneys(plan) /\ ~PlanChanged(plan)
  BY DEF Control, PlanJourneys, PlanChanged
<1>3. ~(Claim \/ Mark \/ ClaimFails \/ BootGivesUp \/ BootStarts \/ BootPasses)
  BY DEF Control, Claim, Mark, ClaimFails, Claiming, At, BootGivesUp, BootStarts, BootPasses
<1>4. \A reason : ~BootRefused(reason) /\ ~BootUnsupported(reason)
  BY DEF Control, BootRefused, BootUnsupported
<1>5. \A hash : ~BootFails(hash)
  BY DEF Control, BootFails
<1>6. ~(Journeys \/ Observe \/ Propose)
  BY DEF Control, Journeys, Observe, Propose, At
<1>7. ~(ExperimentAborts \/ ExperimentStops \/ ExperimentStarts \/ ExperimentEnds
        \/ ExperimentIncompatible)
  BY DEF Control, ExperimentAborts, ExperimentStops, ExperimentStarts, ExperimentEnds,
         ExperimentIncompatible
<1>8. ~(DecideReturns \/ Accept \/ Accepted \/ DecideFails \/ Continue)
  BY DEF Control, DecideReturns, Accept, Accepted, DecideFails, Continue, At
<1>9. QED
  BY <1>1, <1>2, <1>3, <1>4, <1>5, <1>6, <1>7, <1>8 DEF Next, Advance

\* Once a stop reason is checkpointed nothing more is claimed or decided.
THEOREM StopFinal == Spec => StopIsFinal
<1>1. ASSUME Control, [Next]_vars
      PROVE [stop # "none" => /\ stop' = stop /\ experiments' = experiments
                              /\ disk'.claimed = disk.claimed]_vars
  <2>1. CASE stop = "none"
    BY <2>1
  <2>2. CASE stop # "none"
    <3>1. Harden \/ Hardened \/ Report \/ Interrupt \/ Resume \/ UNCHANGED vars
      BY <1>1, <2>2, AfterStop
    <3>2. stop' = stop /\ experiments' = experiments
      BY <3>1 DEF Harden, Hardened, Report, Interrupt, Resume, Raise, graphVars, vars
    <3>3. disk'.claimed = disk.claimed
      BY <1>1, <3>1 DEF Control, DiskFields, Harden, Hardened, Report, Interrupt, Resume,
                        Raise, vars
    <3>4. QED
      BY <3>2, <3>3
  <2>3. QED
    BY <2>1, <2>2
<1>2. QED
  BY <1>1, ControlHolds, PTL DEF Spec, StopIsFinal

-----------------------------------------------------------------------------
(* The stage history                                                       *)

\* How many stages a run may have visited when it reaches each node: boot
\* attempts and appended experiments pay for what is repeated.
Spent ==
    LET spent == attempt + 4 * Len(experiments) IN
    /\ visits \in Nat
    /\ node = "intake" => visits = 0
    /\ node = "baseline" => visits <= 1
    /\ node \in {"boot", "journeys"} => visits <= 2 + attempt
    /\ node = "observe" => visits <= 3 + attempt
    /\ node = "propose_mutation" => visits <= 4 + spent
    /\ node = "experiment" => visits <= 5 + spent
    /\ node \in {"decide", "report_or_next"} => visits <= 6 + spent
    /\ node = "report_or_next" /\ stop = "none" => visits <= 3 + spent
    /\ visits <= 7 + spent

\* Boot attempts are limited by _MAX_BOOT_RETRIES, experiments by the policy's
\* budget.
Bounded ==
    /\ \E S : experiments \in Seq(S)
    /\ attempt \in 0..4
    /\ node = "boot" /\ pc \in {"claimed", "inputs", "session"} => attempt < 4
    /\ Len(experiments) <= 8
    /\ node \in {"experiment", "decide"} => Len(experiments) < 8

VisitsInv == Control /\ Spent /\ Bounded

\* A run starts with an empty stage history.
LEMMA InitVisits == Init => VisitsInv
<1> SUFFICES ASSUME Init PROVE VisitsInv
  OBVIOUS
<1>1. experiments \in Seq({}) /\ Len(experiments) = 0
  BY EmptySeq DEF Init
<1>2. QED
  BY <1>1, InitControl DEF Init, VisitsInv, Spent, Bounded

\* The policy proposes only below its budget.
LEMMA ProposesBelowBudget ==
    ASSUME PolicyStop(baseline, experiments) = "none", Len(experiments) \in Nat
    PROVE  Len(experiments) < 8
BY DEF PolicyStop, Exhausted

\* Appending the tried experiment keeps the history a sequence, one longer.
LEMMA AppendHistory ==
    ASSUME \E S : experiments \in Seq(S), NEW record
    PROVE  /\ \E S : Append(experiments, record) \in Seq(S)
           /\ Len(Append(experiments, record)) = Len(experiments) + 1
           /\ Len(experiments) \in Nat
<1>1. PICK S : experiments \in Seq(S)
  OBVIOUS
<1> DEFINE T == S \cup {record}
<1>2. experiments \in Seq(T)
  BY <1>1
<1>3. Append(experiments, record) \in Seq(T)
      /\ Len(Append(experiments, record)) = Len(experiments) + 1
  BY <1>2, AppendProperties
<1>4. QED
  BY <1>1, <1>3, LenProperties

\* Every step pays for the stage it visits.
LEMMA StepVisits == VisitsInv /\ [Next]_vars => VisitsInv'
<1> SUFFICES ASSUME VisitsInv, [Next]_vars PROVE (Spent /\ Bounded)'
  BY StepControl DEF VisitsInv
<1>1. Len(experiments) \in Nat /\ attempt \in Nat /\ visits \in Nat
  BY LenProperties DEF VisitsInv, Bounded, Spent
<1> USE <1>1 DEF VisitsInv, Control, Spent, Bounded, At, Return, Stop, Raise, graphVars,
        bootVars, planVars, configVars, runVars
<1>2. CASE Intake \/ CompatibilityRefused \/ PlanCompatibility \/ BaselineReturns
  <2>1. CASE Intake
    BY <2>1 DEF Intake
  <2>2. CASE CompatibilityRefused
    BY <2>2 DEF CompatibilityRefused
  <2>3. CASE PlanCompatibility
    BY <2>3 DEF PlanCompatibility
  <2>4. CASE BaselineReturns
    BY <2>4 DEF BaselineReturns
  <2>5. QED
    BY ONLY <1>2, <2>1, <2>2, <2>3, <2>4
<1>3. ASSUME NEW plan \in Plans, PlanJourneys(plan) \/ PlanChanged(plan)
      PROVE  (Spent /\ Bounded)'
  <2>1. CASE PlanJourneys(plan)
    BY <2>1 DEF PlanJourneys
  <2>2. CASE PlanChanged(plan)
    BY <2>2 DEF PlanChanged
  <2>3. QED
    BY ONLY <1>3, <2>1, <2>2
<1>4. CASE Claim \/ Mark \/ ClaimFails
  <2>1. CASE Claim
    BY <2>1 DEF Claim, Claiming
  <2>2. CASE Mark
    BY <2>2 DEF Mark
  <2>3. CASE ClaimFails
    BY <2>3 DEF ClaimFails, Claiming
  <2>4. QED
    BY ONLY <1>4, <2>1, <2>2, <2>3
<1>5. CASE BootGivesUp \/ BootStarts \/ BootPasses
  <2>1. CASE BootGivesUp
    BY <2>1 DEF BootGivesUp
  <2>2. CASE BootStarts
    BY <2>2 DEF BootStarts
  <2>3. CASE BootPasses
    <3>1. Spent'
      <4>1. visits <= 2 + attempt
        BY ONLY <2>3, VisitsInv DEF BootPasses, VisitsInv, Spent
      <4>2. /\ visits' = visits + 1 /\ attempt' = attempt + 1
            /\ node' = "journeys" /\ UNCHANGED experiments
        BY ONLY <2>3 DEF BootPasses, Return, configVars
      <4>3. QED
        BY ONLY <1>1, <4>1, <4>2 DEF Spent
    <3>2. Bounded'
      BY <2>3 DEF BootPasses
    <3>3. QED
      BY <3>1, <3>2
  <2>4. QED
    BY <1>5, <2>1, <2>2, <2>3
<1>6. ASSUME NEW reason, BootRefused(reason) \/ BootUnsupported(reason)
      PROVE  (Spent /\ Bounded)'
  <2>1. CASE BootRefused(reason)
    BY <2>1 DEF BootRefused
  <2>2. CASE BootUnsupported(reason)
    BY <2>2 DEF BootUnsupported
  <2>3. QED
    BY <1>6, <2>1, <2>2
<1>7. ASSUME NEW hash, BootFails(hash) PROVE (Spent /\ Bounded)'
  BY <1>7 DEF BootFails
<1>8. CASE Journeys \/ Observe
  <2>1. CASE Journeys
    BY <2>1 DEF Journeys
  <2>2. CASE Observe
    BY <2>2 DEF Observe
  <2>3. QED
    BY <1>8, <2>1, <2>2
<1>9. CASE Propose
  <2>1. PolicyStop(baseline, experiments) = "none" => Len(experiments) < 8
    BY ProposesBelowBudget
  <2>2. /\ visits' = visits + 1 /\ UNCHANGED <<attempt, experiments>>
        /\ \/ node' = "experiment" /\ Len(experiments) < 8
           \/ node' = "report_or_next" /\ stop' # "none"
    <3>1. CASE node' = "experiment"
      BY ONLY <1>9, <2>1, <3>1 DEF Propose, Return, Stop, bootVars, configVars
    <3>2. CASE node' # "experiment"
      BY ONLY <1>9, <2>1, <3>2 DEF Propose, Return, Stop, bootVars, configVars, PolicyStop
    <3>3. QED
      BY ONLY <3>1, <3>2
  <2>3. visits <= 4 + attempt + 4 * Len(experiments) /\ pc' = "ready"
    BY ONLY <1>9, VisitsInv DEF Propose, At, Return, Stop, VisitsInv, Spent
  <2>4. Spent'
    BY ONLY <1>1, <2>2, <2>3 DEF Spent
  <2>5. Bounded'
    BY ONLY <2>2, <2>3, VisitsInv DEF Bounded, VisitsInv
  <2>6. QED
    BY ONLY <2>4, <2>5
<1>10. CASE ExperimentAborts \/ ExperimentStops \/ ExperimentStarts
  <2>1. CASE ExperimentAborts
    BY <2>1 DEF ExperimentAborts
  <2>2. CASE ExperimentStops
    BY <2>2 DEF ExperimentStops, Recorded
  <2>3. CASE ExperimentStarts
    BY <2>3 DEF ExperimentStarts
  <2>4. QED
    BY <1>10, <2>1, <2>2, <2>3
<1>11. CASE ExperimentEnds \/ ExperimentIncompatible
  <2>1. CASE ExperimentEnds
    BY <2>1 DEF ExperimentEnds, Recorded
  <2>2. CASE ExperimentIncompatible
    BY <2>2 DEF ExperimentIncompatible
  <2>3. QED
    BY <1>11, <2>1, <2>2
<1>12. CASE DecideReturns
  <2>1. /\ \E S : experiments' \in Seq(S)
        /\ Len(experiments') = Len(experiments) + 1
    BY <1>12, AppendHistory DEF DecideReturns
  <2>2. /\ node = "decide" /\ node' = "report_or_next" /\ visits' = visits + 1
        /\ attempt' = attempt /\ pc' = "ready"
    BY <1>12 DEF DecideReturns
  <2>3. visits' <= 3 + attempt' + 4 * Len(experiments')
    BY <2>1, <2>2
  <2>4. Spent'
    BY <2>1, <2>2, <2>3
  <2>5. Bounded'
    BY <2>1, <2>2
  <2>6. QED
    BY <2>4, <2>5
<1>13. CASE Accept \/ Accepted \/ DecideFails
  <2>1. CASE Accept
    BY <2>1 DEF Accept
  <2>2. CASE Accepted
    BY <2>2 DEF Accepted
  <2>3. CASE DecideFails
    BY <2>3 DEF DecideFails
  <2>4. QED
    BY ONLY <1>13, <2>1, <2>2, <2>3
<1>14. CASE Continue \/ Harden \/ Hardened \/ Report
  <2>1. CASE Continue
    BY <2>1 DEF Continue
  <2>2. CASE Harden
    BY <2>2 DEF Harden
  <2>3. CASE Hardened
    BY <2>3 DEF Hardened
  <2>4. CASE Report
    BY <2>4 DEF Report
  <2>5. QED
    BY <1>14, <2>1, <2>2, <2>3, <2>4
<1>15. CASE Interrupt \/ Resume
  <2>1. CASE Interrupt
    BY <2>1 DEF Interrupt
  <2>2. CASE Resume
    BY <2>2 DEF Resume
  <2>3. QED
    BY ONLY <1>15, <2>1, <2>2
<1>16. CASE UNCHANGED vars
  BY <1>16 DEF vars
<1>17. QED
  BY <1>2, <1>3, <1>4, <1>5, <1>6, <1>7, <1>8, <1>9, <1>10, <1>11, <1>12, <1>13,
     <1>14, <1>15, <1>16 DEF Next, Advance

\* No run reaches the limit at which _visit raises: at most 4 boots and 8
\* experiments make at most 43 stages.
THEOREM StageHistoryBound == Spec => []StageHistoryFits
<1>1. Init => VisitsInv
  BY InitVisits
<1>2. VisitsInv /\ [Next]_vars => VisitsInv'
  BY StepVisits
<1>3. VisitsInv => StageHistoryFits
  <2> SUFFICES ASSUME VisitsInv PROVE StageHistoryFits
    OBVIOUS
  <2>1. Len(experiments) \in Nat
    BY LenProperties DEF VisitsInv, Bounded
  <2>2. QED
    BY <2>1 DEF VisitsInv, Spent, Bounded, StageHistoryFits
<1>4. QED
  BY <1>1, <1>2, <1>3, PTL DEF Spec

-----------------------------------------------------------------------------
(* Attempt directories                                                     *)

\* A directory is claimed before a session writes to it, and the one a node
\* holds before its session has not been written to.
Owned ==
    /\ disk.used \subseteq disk.claimed
    /\ pc \in {"claimed", "inputs"} =>
          Directory(slot) \in disk.claimed /\ Directory(slot) \notin disk.used

\* Nothing is claimed when the run starts.
LEMMA InitOwned == Init => Owned
BY DEF Init, Owned, EmptyDisk

\* Every step keeps the claims ahead of the sessions.
LEMMA StepOwned == Control /\ Owned /\ [Next]_vars => Owned'
<1> SUFFICES ASSUME Control, Owned, [Next]_vars PROVE Owned'
  OBVIOUS
<1> USE DEF Control, DiskFields, Owned, At, Return, Stop, Raise, graphVars, bootVars,
        planVars, configVars, runVars, Directory
<1>1. CASE Intake \/ CompatibilityRefused \/ PlanCompatibility \/ BaselineReturns
  BY <1>1 DEF Intake, CompatibilityRefused, PlanCompatibility, BaselineReturns
<1>2. ASSUME NEW plan \in Plans, PlanJourneys(plan) \/ PlanChanged(plan) PROVE Owned'
  BY <1>2 DEF PlanJourneys, PlanChanged
<1>3. CASE Claim
  BY <1>3 DEF Claim, FreeSlot
<1>4. CASE Mark \/ ClaimFails
  BY <1>4 DEF Mark, ClaimFails
<1>5. CASE BootGivesUp \/ BootStarts \/ BootPasses
  BY <1>5 DEF BootGivesUp, BootStarts, BootPasses
<1>6. ASSUME NEW reason, BootRefused(reason) \/ BootUnsupported(reason) PROVE Owned'
  BY <1>6 DEF BootRefused, BootUnsupported
<1>7. ASSUME NEW hash, BootFails(hash) PROVE Owned'
  BY <1>7 DEF BootFails
<1>8. CASE Journeys \/ Observe \/ Propose
  BY <1>8 DEF Journeys, Observe, Propose
<1>9. CASE ExperimentAborts \/ ExperimentStops \/ ExperimentStarts
  <2>1. CASE ExperimentAborts
    BY <2>1 DEF ExperimentAborts
  <2>2. CASE ExperimentStops
    BY <2>2 DEF ExperimentStops, Recorded
  <2>3. CASE ExperimentStarts
    BY <2>3 DEF ExperimentStarts
  <2>4. QED
    BY <1>9, <2>1, <2>2, <2>3
<1>10. CASE ExperimentEnds \/ ExperimentIncompatible
  BY <1>10 DEF ExperimentEnds, ExperimentIncompatible, Recorded
<1>11. CASE DecideReturns \/ Accept \/ Accepted \/ DecideFails
  BY <1>11 DEF DecideReturns, Accept, Accepted, DecideFails
<1>12. CASE Continue \/ Harden \/ Hardened \/ Report
  BY <1>12 DEF Continue, Harden, Hardened, Report
<1>13. CASE Interrupt \/ Resume
  BY <1>13 DEF Interrupt, Resume
<1>14. CASE UNCHANGED vars
  BY <1>14 DEF vars
<1>15. QED
  BY <1>1, <1>2, <1>3, <1>4, <1>5, <1>6, <1>7, <1>8, <1>9, <1>10, <1>11, <1>12, <1>13,
     <1>14 DEF Next, Advance

\* A session never starts in a directory an earlier session wrote to.
THEOREM EvidenceIsFresh == Spec => FreshEvidence
<1>1. ASSUME Control, Owned, [Next]_vars
      PROVE [pc' = "session" /\ pc # "session" => Directory(slot) \notin disk.used]_vars
  <2> SUFFICES ASSUME pc' = "session", pc # "session" PROVE Directory(slot) \notin disk.used
    OBVIOUS
  <2>1. pc = "inputs"
    BY <1>1 DEF Next, Advance, At, Return, Stop, Raise, Recorded, vars, Intake,
       CompatibilityRefused, PlanCompatibility, BaselineReturns, PlanJourneys, PlanChanged,
       Claim, Mark, ClaimFails, BootGivesUp, BootRefused, BootStarts, BootPasses,
       BootUnsupported, BootFails, Journeys, Observe, Propose, ExperimentAborts,
       ExperimentStops, ExperimentStarts, ExperimentEnds, ExperimentIncompatible,
       DecideReturns, Accept, Accepted, DecideFails, Continue, Harden, Hardened, Report,
       Interrupt, Resume
  <2>2. QED
    BY <1>1, <2>1 DEF Owned
<1>2. Init => Owned
  BY InitOwned
<1>3. Control /\ Owned /\ [Next]_vars => Owned'
  BY StepOwned
<1>4. QED
  BY <1>1, <1>2, <1>3, ControlHolds, PTL DEF Spec, FreshEvidence

\* A step repeated after an interruption reuses no evidence and starts nothing in a
\* run that had stopped.
THEOREM RepetitionHarmless == Spec => RepetitionIsHarmless
<1>1. QED
  BY EvidenceIsFresh, StopFinal DEF RepetitionIsHarmless

-----------------------------------------------------------------------------
(* The run implements the loop                                             *)

\* The proofs about HardeningLoop, under the mapping of Loop.
LoopProofs == INSTANCE HardeningLoopProofs WITH
    baseline <- IF observed THEN baseline ELSE <<>>,
    stop <- IF stop \in {"compatibility", "boot_recovery_stopped", "boot_unsupported",
                         "image_prepare_failed", "operation_failed"}
            THEN "failed" ELSE stop

\* The baseline is observed once, after its journeys, and before the first proposal.
Phase ==
    /\ observed =>
          node \in {"propose_mutation", "experiment", "decide", "report_or_next", "end"}
    /\ node \in {"propose_mutation", "experiment", "decide"} => observed
    /\ node = "report_or_next" /\ stop = "none" => observed
    /\ ~observed => experiments = <<>> /\ current = {} /\ composePath = 0
    /\ baseline # <<>> => observed \/ node = "observe"

\* The plan and its results, wherever they are.
Results ==
    /\ DOMAIN pending = {"results", "mutation", "record", "overlay"}
    /\ journeys \in 0..MaxJourneys
    /\ disk.journeys # <<>> => \E plan \in Plans : disk.journeys = <<plan>>
    /\ pc = "planned" => disk.journeys # <<>>
    /\ node = "journeys" => pending.results \in [1..journeys -> Verdicts]
    /\ node = "observe" \/ observed => baseline \in [1..journeys -> Verdicts]

\* What the policy may propose in this state, and the record it may lead to.
Proposable(m) ==
    /\ PolicyStop(baseline, experiments) = "none"
    /\ m \in Proposals(experiments, current)
Recordable(r) ==
    \E m : Proposable(m) /\ Change(m) \notin Satisfied /\ r \in Records(m, current, baseline)

InHand ==
    /\ node = "experiment" => \E m : Proposable(m) /\ pending.mutation = <<m>>
    /\ node = "experiment" /\ pc = "session" => Change(Proposed) \notin Satisfied
    /\ node = "decide" => \E r : Recordable(r) /\ pending.record = <<r>>

\* The accepted files: the one compose_path names is whole and is the current
\* configuration, a later one is the candidate being decided.
Files ==
    /\ \A a \in disk.accepted : a \in [index : Nat, config : {a.config}, whole : BOOLEAN]
    /\ composePath \in 0..Len(experiments)
    /\ composePath = 0 => current = {}
    /\ composePath # 0 => \E a \in disk.accepted : a.index = composePath /\ a.whole
    /\ \A a \in disk.accepted :
          /\ a.index # 0
          /\ a.index = composePath => a.config = current
          /\ a.index > Len(experiments) =>
                node = "decide" /\ a.index = Target /\ a.config = Tried.candidate

RunInv == VisitsInv /\ Phase /\ Results /\ InHand /\ Files

LEMMA InitRun == Init => RunInv
<1> SUFFICES ASSUME Init PROVE RunInv
  OBVIOUS
<1>1. VisitsInv
  BY InitVisits
<1>2. Phase /\ InHand
  BY DEF Init, Phase, InHand
<1>3. Results
  BY GraphAssumption DEF Init, Results, NothingPending, EmptyDisk
<1>4. Files
  BY DEF Init, Files, EmptyDisk
<1>5. QED
  BY <1>1, <1>2, <1>3, <1>4 DEF RunInv

LEMMA StepPhase == Control /\ Phase /\ [Next]_vars => Phase'
<1> SUFFICES ASSUME Control, Phase, [Next]_vars PROVE Phase'
  OBVIOUS
<1> USE DEF Control, Phase, At, Return, Stop, Raise, graphVars, bootVars, planVars,
        configVars, runVars
<1>1. CASE Intake \/ CompatibilityRefused \/ PlanCompatibility \/ BaselineReturns
  BY <1>1 DEF Intake, CompatibilityRefused, PlanCompatibility, BaselineReturns
<1>2. ASSUME NEW plan \in Plans, PlanJourneys(plan) \/ PlanChanged(plan) PROVE Phase'
  BY <1>2 DEF PlanJourneys, PlanChanged
<1>3. CASE Claim \/ Mark \/ ClaimFails
  BY <1>3 DEF Claim, Mark, ClaimFails, Claiming
<1>4. CASE BootGivesUp \/ BootStarts \/ BootPasses
  BY <1>4 DEF BootGivesUp, BootStarts, BootPasses
<1>5. ASSUME NEW reason \in {"boot_unsupported", "image_prepare_failed", "compatibility"}, BootRefused(reason) PROVE Phase'
  BY <1>5 DEF BootRefused
<1>6. ASSUME NEW reason \in {"boot_unsupported", "image_prepare_failed", "compatibility"}, BootUnsupported(reason) PROVE Phase'
  BY <1>6 DEF BootUnsupported
<1>7. ASSUME NEW hash, BootFails(hash) PROVE Phase'
  BY <1>7 DEF BootFails
<1>8. CASE Journeys \/ Observe \/ Propose
  BY <1>8 DEF Journeys, Observe, Propose
<1>9. CASE ExperimentAborts \/ ExperimentStops \/ ExperimentStarts
  BY <1>9 DEF ExperimentAborts, ExperimentStops, ExperimentStarts, Recorded
<1>10. CASE ExperimentEnds \/ ExperimentIncompatible
  BY <1>10 DEF ExperimentEnds, ExperimentIncompatible, Recorded
<1>11. CASE DecideReturns
  BY <1>11 DEF DecideReturns
<1>12. CASE Accept \/ Accepted \/ DecideFails
  BY <1>12 DEF Accept, Accepted, DecideFails
<1>13. CASE Continue \/ Harden \/ Hardened \/ Report
  BY <1>13 DEF Continue, Harden, Hardened, Report
<1>14. CASE Interrupt \/ Resume
  BY <1>14 DEF Interrupt, Resume
<1>15. CASE UNCHANGED vars
  BY <1>15 DEF vars
<1>16. QED
  BY <1>1, <1>2, <1>3, <1>4, <1>5, <1>6, <1>7, <1>8, <1>9, <1>10, <1>11, <1>12, <1>13,
     <1>14, <1>15 DEF Next, Advance

LEMMA StepResults == Control /\ Phase /\ Results /\ [Next]_vars => Results'
<1> SUFFICES ASSUME Control, Phase, Results, [Next]_vars PROVE Results'
  OBVIOUS
<1> USE GraphAssumption DEF Control, DiskFields, Phase, Results, NothingPending, At, Return,
        Stop, Raise, graphVars, bootVars, planVars, configVars, runVars
<1>1. CASE Intake
  BY <1>1 DEF Intake
<1>2. CASE CompatibilityRefused
  BY <1>2 DEF CompatibilityRefused
<1>3. CASE PlanCompatibility
  BY <1>3 DEF PlanCompatibility
<1>4. CASE BaselineReturns
  BY <1>4 DEF BaselineReturns
<1>5. ASSUME NEW plan \in Plans, PlanJourneys(plan) PROVE Results'
  BY <1>5 DEF PlanJourneys
<1>6. ASSUME NEW plan \in Plans, PlanChanged(plan) PROVE Results'
  BY <1>6 DEF PlanChanged
<1>7. CASE Claim
  BY <1>7 DEF Claim, Claiming
<1>8. CASE Mark
  BY <1>8 DEF Mark
<1>9. CASE ClaimFails
  BY <1>9 DEF ClaimFails
<1>10. CASE BootGivesUp
  BY <1>10 DEF BootGivesUp
<1>11. CASE BootStarts
  BY <1>11 DEF BootStarts
<1>12. CASE BootPasses
  BY <1>12 DEF BootPasses
<1>13. ASSUME NEW reason, BootRefused(reason) PROVE Results'
  BY <1>13 DEF BootRefused
<1>14. ASSUME NEW reason, BootUnsupported(reason) PROVE Results'
  BY <1>14 DEF BootUnsupported
<1>15. ASSUME NEW hash, BootFails(hash) PROVE Results'
  BY <1>15 DEF BootFails
<1>16. CASE Journeys
  BY <1>16 DEF Journeys
<1>17. CASE Observe
  BY <1>17 DEF Observe
<1>18. CASE Propose
  BY <1>18 DEF Propose
<1>19. CASE ExperimentAborts
  BY <1>19 DEF ExperimentAborts
<1>20. CASE ExperimentStops
  BY <1>20 DEF ExperimentStops, Recorded
<1>21. CASE ExperimentStarts
  BY <1>21 DEF ExperimentStarts
<1>22. CASE ExperimentEnds
  BY <1>22 DEF ExperimentEnds, Recorded
<1>23. CASE ExperimentIncompatible
  BY <1>23 DEF ExperimentIncompatible
<1>24. CASE DecideReturns
  BY <1>24 DEF DecideReturns
<1>25. CASE Accept
  BY <1>25 DEF Accept
<1>26. CASE Accepted
  BY <1>26 DEF Accepted
<1>27. CASE DecideFails
  BY <1>27 DEF DecideFails
<1>28. CASE Continue
  BY <1>28 DEF Continue
<1>29. CASE Harden
  BY <1>29 DEF Harden
<1>30. CASE Hardened
  BY <1>30 DEF Hardened
<1>31. CASE Report
  BY <1>31 DEF Report
<1>32. CASE Interrupt \/ Resume
  BY <1>32 DEF Interrupt, Resume
<1>33. CASE UNCHANGED vars
  BY <1>33 DEF vars
<1>34. QED
  BY <1>1, <1>2, <1>3, <1>4, <1>5, <1>6, <1>7, <1>8, <1>9, <1>10, <1>11, <1>12, <1>13,
     <1>14, <1>15, <1>16, <1>17, <1>18, <1>19, <1>20, <1>21, <1>22, <1>23, <1>24, <1>25, <1>26,
     <1>27, <1>28, <1>29, <1>30, <1>31, <1>32, <1>33 DEF Next, Advance

\* Only three steps put something into the hand of the next node.
LEMMA HandedOver ==
    Control /\ [Next]_vars =>
        \/ /\ UNCHANGED graphVars
           /\ node = "experiment" /\ pc' = "session" =>
                 pc = "session" \/ Change(Proposed) \notin Satisfied
        \/ node' \notin {"experiment", "decide"}
        \/ Propose \/ ExperimentStops \/ ExperimentEnds
<1> DEFINE Quiet == \/ /\ UNCHANGED graphVars
                       /\ node = "experiment" /\ pc' = "session" =>
                             pc = "session" \/ Change(Proposed) \notin Satisfied
                    \/ node' \notin {"experiment", "decide"}
<1> SUFFICES ASSUME Control, [Next]_vars
             PROVE  Quiet \/ Propose \/ ExperimentStops \/ ExperimentEnds
  OBVIOUS
<1> USE DEF Control, At, Return, Stop, Raise, graphVars, bootVars, planVars, configVars, runVars
<1>1. CASE Intake \/ CompatibilityRefused \/ PlanCompatibility \/ BaselineReturns
  BY <1>1 DEF Intake, CompatibilityRefused, PlanCompatibility, BaselineReturns
<1>2. ASSUME NEW plan \in Plans, PlanJourneys(plan) \/ PlanChanged(plan) PROVE Quiet
  BY <1>2 DEF PlanJourneys, PlanChanged
<1>3. CASE Claim \/ Mark \/ ClaimFails
  BY <1>3 DEF Claim, Mark, ClaimFails, Claiming
<1>4. CASE BootGivesUp \/ BootStarts \/ BootPasses
  BY <1>4 DEF BootGivesUp, BootStarts, BootPasses
<1>5. ASSUME NEW reason, BootRefused(reason) \/ BootUnsupported(reason) PROVE Quiet
  BY <1>5 DEF BootRefused, BootUnsupported
<1>6. ASSUME NEW hash, BootFails(hash) PROVE Quiet
  BY <1>6 DEF BootFails
<1>7. CASE Journeys \/ Observe
  BY <1>7 DEF Journeys, Observe
<1>8. CASE ExperimentAborts \/ ExperimentStarts \/ ExperimentIncompatible
  BY <1>8 DEF ExperimentAborts, ExperimentStarts, ExperimentIncompatible
<1>9. CASE Accept \/ Accepted \/ DecideFails
  BY <1>9 DEF Accept, Accepted, DecideFails
<1>10. CASE DecideReturns
  BY <1>10 DEF DecideReturns
<1>11. CASE Continue \/ Harden \/ Hardened \/ Report
  BY <1>11 DEF Continue, Harden, Hardened, Report
<1>12. CASE Interrupt \/ Resume
  BY <1>12 DEF Interrupt, Resume
<1>13. CASE UNCHANGED vars
  BY <1>13 DEF vars
<1>14. QED
  BY <1>1, <1>2, <1>3, <1>4, <1>5, <1>6, <1>7, <1>8, <1>9, <1>10, <1>11, <1>12, <1>13 DEF
     Next, Advance

\* The files and what they are compared with change in three steps of decide.
LEMMA FilesKept ==
    Control /\ [Next]_vars =>
        \/ DecideReturns \/ Accept \/ Accepted
        \/ /\ UNCHANGED <<experiments, current, composePath>>
           /\ disk'.accepted = disk.accepted
           /\ node = "decide" => UNCHANGED <<node, pending>>
<1> DEFINE Quiet == /\ UNCHANGED <<experiments, current, composePath>>
                    /\ disk'.accepted = disk.accepted
                    /\ node = "decide" => UNCHANGED <<node, pending>>
<1> SUFFICES ASSUME Control, [Next]_vars PROVE Quiet \/ DecideReturns \/ Accept \/ Accepted
  OBVIOUS
<1> USE DEF Control, DiskFields, At, Return, Stop, Raise, graphVars, bootVars, planVars,
        configVars, runVars
<1>1. CASE Intake \/ CompatibilityRefused \/ PlanCompatibility \/ BaselineReturns
  BY <1>1 DEF Intake, CompatibilityRefused, PlanCompatibility, BaselineReturns
<1>2. ASSUME NEW plan \in Plans, PlanJourneys(plan) \/ PlanChanged(plan) PROVE Quiet
  BY <1>2 DEF PlanJourneys, PlanChanged
<1>3. CASE Claim \/ Mark \/ ClaimFails
  BY <1>3 DEF Claim, Mark, ClaimFails, Claiming
<1>4. CASE BootGivesUp \/ BootStarts \/ BootPasses
  BY <1>4 DEF BootGivesUp, BootStarts, BootPasses
<1>5. ASSUME NEW reason, BootRefused(reason) \/ BootUnsupported(reason) PROVE Quiet
  BY <1>5 DEF BootRefused, BootUnsupported
<1>6. ASSUME NEW hash, BootFails(hash) PROVE Quiet
  BY <1>6 DEF BootFails
<1>7. CASE Journeys \/ Observe \/ Propose
  BY <1>7 DEF Journeys, Observe, Propose
<1>8. CASE ExperimentAborts \/ ExperimentStops \/ ExperimentStarts
  BY <1>8 DEF ExperimentAborts, ExperimentStops, ExperimentStarts, Recorded
<1>9. CASE ExperimentEnds \/ ExperimentIncompatible
  BY <1>9 DEF ExperimentEnds, ExperimentIncompatible, Recorded
<1>10. CASE DecideFails
  BY <1>10 DEF DecideFails
<1>11. CASE Continue \/ Harden \/ Hardened \/ Report
  BY <1>11 DEF Continue, Harden, Hardened, Report
<1>12. CASE Interrupt \/ Resume
  BY <1>12 DEF Interrupt, Resume
<1>13. CASE UNCHANGED vars
  BY <1>13 DEF vars
<1>14. QED
  BY <1>1, <1>2, <1>3, <1>4, <1>5, <1>6, <1>7, <1>8, <1>9, <1>10, <1>11, <1>12, <1>13 DEF
     Next, Advance

\* The file that compose_path names holds the current configuration.
LEMMA FileIsCurrent == Files => OnDisk(composePath) = current
<1> SUFFICES ASSUME Files PROVE OnDisk(composePath) = current
  OBVIOUS
<1>1. CASE composePath = 0
  BY <1>1 DEF Files, OnDisk
<1>2. CASE composePath # 0
  <2> DEFINE named == {a \in disk.accepted : a.index = composePath /\ a.whole}
  <2>1. named # {} /\ \A a \in named : a.config = current
    BY <1>2 DEF Files
  <2>2. {a.config : a \in named} = {current}
    BY <2>1
  <2>3. OnDisk(composePath) = UNION {a.config : a \in named}
    BY <1>2 DEF OnDisk
  <2>4. QED
    BY <2>2, <2>3
<1>3. QED
  BY <1>1, <1>2

\* A preparation that fails leaves a record run_experiment can return.
LEMMA StopIsRecorded ==
    ASSUME OnDisk(composePath) = current, NEW m, pending.mutation = <<m>>
    PROVE  StopRecord \in Records(m, current, baseline)
<1> DEFINE o == [boot |-> "unsupported", journeys |-> <<>>, observed |-> FALSE, verdict |-> "stop"]
           tmp == m.service \in TmpWriters
<1>1. o \in CandidateOutcomes(Passed(baseline))
  <2>1. o \in {[boot |-> boot, journeys |-> <<>>, observed |-> FALSE, verdict |-> "stop"] :
                  boot \in {"pass", "unsupported"}}
    OBVIOUS
  <2>2. QED
    BY <2>1 DEF CandidateOutcomes
<1>2. tmp \in TmpSeen(m.service, o.observed)
  <2>1. CASE m.service \in TmpWriters
    <3>1. tmp = TRUE
      BY <2>1
    <3>2. QED
      BY <2>1, <3>1 DEF TmpSeen
  <2>2. CASE m.service \notin TmpWriters
    <3>1. tmp = FALSE /\ o.observed = FALSE
      BY <2>2
    <3>2. QED
      BY <2>2, <3>1 DEF TmpSeen
  <2>3. QED
    BY <2>1, <2>2
<1>3. StopRecord = [mutation |-> m, parent |-> current, candidate |-> current \cup {Change(m)},
                    boot |-> o.boot, journeys |-> o.journeys, verdict |-> o.verdict,
                    tmp |-> tmp]
  BY DEF StopRecord, Proposed
<1> HIDE DEF o, tmp
<1>4. StopRecord \in {[mutation |-> m, parent |-> current,
                       candidate |-> current \cup {Change(m)},
                       boot |-> o.boot, journeys |-> o.journeys, verdict |-> o.verdict,
                       tmp |-> t] : t \in TmpSeen(m.service, o.observed)}
  BY <1>2, <1>3
<1>5. QED
  BY <1>1, <1>4 DEF Records

LEMMA StepInHand ==
    Control /\ Results /\ InHand /\ Files /\ [Next]_vars => InHand'
<1> SUFFICES ASSUME Control, Results, InHand, Files, [Next]_vars PROVE InHand'
  OBVIOUS
<1>1. ASSUME UNCHANGED <<baseline, experiments, current>>, NEW x
      PROVE  Proposable(x)' = Proposable(x) /\ Recordable(x)' = Recordable(x)
  BY <1>1 DEF Proposable, Recordable
<1>2. CASE /\ UNCHANGED graphVars
           /\ node = "experiment" /\ pc' = "session" =>
                 pc = "session" \/ Change(Proposed) \notin Satisfied
  BY <1>1, <1>2 DEF InHand, graphVars, Proposed
<1>3. CASE node' \notin {"experiment", "decide"}
  BY <1>3 DEF InHand
<1>4. CASE Propose
  <2>1. UNCHANGED <<baseline, experiments, current>> /\ pc' = "ready"
        /\ node' \in {"experiment", "report_or_next"}
    BY <1>4 DEF Propose, Return, Stop, planVars, configVars
  <2>2. ASSUME node' = "experiment"
        PROVE  \E m : Proposable(m) /\ pending' = [NothingPending EXCEPT !.mutation = <<m>>]
    BY <1>4, <2>2 DEF Propose, Proposable, Return, Stop
  <2>3. QED
    BY <1>1, <2>1, <2>2 DEF InHand, NothingPending
<1>5. CASE ExperimentStops
  <2>1. /\ UNCHANGED <<baseline, experiments, current>> /\ node = "experiment" /\ node' = "decide"
        /\ pending'.record = <<StopRecord>> /\ pc' = "ready" /\ Change(Proposed) \notin Satisfied
    BY <1>5 DEF ExperimentStops, Recorded, Return, planVars, configVars, Results
  <2>2. PICK m : Proposable(m) /\ pending.mutation = <<m>>
    BY <2>1 DEF InHand
  <2>3. Recordable(StopRecord)
    BY <2>1, <2>2, FileIsCurrent, StopIsRecorded DEF Recordable, Proposed
  <2>4. QED
    BY <1>1, <2>1, <2>3 DEF InHand
<1>6. CASE ExperimentEnds
  <2>1. PICK r \in Records(Proposed, OnDisk(composePath), baseline) : Recorded(r, TRUE)
    BY <1>6 DEF ExperimentEnds
  <2>2. /\ UNCHANGED <<baseline, experiments, current>> /\ node = "experiment" /\ node' = "decide"
        /\ pending'.record = <<r>> /\ pc' = "ready"
    BY <1>6, <2>1 DEF ExperimentEnds, Recorded, Return, planVars, configVars, Results
  <2>3. PICK m : Proposable(m) /\ pending.mutation = <<m>>
    BY <2>2 DEF InHand
  <2>4. Recordable(r)
    BY <1>6, <2>1, <2>3, FileIsCurrent DEF Recordable, Proposed, ExperimentEnds, InHand
  <2>5. QED
    BY <1>1, <2>2, <2>4 DEF InHand
<1>7. QED
  BY <1>2, <1>3, <1>4, <1>5, <1>6, HandedOver

LEMMA StepFiles ==
    ASSUME Control, Bounded, Phase, InHand, Files, [Next]_vars
    PROVE  Files'
<1> DEFINE L == Len(experiments)
<1>1. L \in Nat /\ Target = L + 1
  BY LenProperties DEF Bounded, Target
<1>2. CASE /\ UNCHANGED <<experiments, current, composePath>>
           /\ disk'.accepted = disk.accepted
           /\ node = "decide" => UNCHANGED <<node, pending>>
  <2>1. ASSUME NEW a \in disk.accepted, a.index > L
        PROVE  node' = "decide" /\ a.index = Target' /\ a.config = Tried'.candidate
    BY <1>2, <2>1 DEF Files, Target, Tried
  <2>2. QED
    BY <1>2, <2>1 DEF Files
<1>3. CASE Accept
  <2> DEFINE new == [index |-> Target, config |-> Tried.candidate, whole |-> FALSE]
  <2>1. /\ UNCHANGED <<experiments, current, composePath, node, pending>> /\ node = "decide"
        /\ disk'.accepted = disk.accepted \cup {new}
    BY <1>3 DEF Accept, At, graphVars, Control, DiskFields
  <2>2. Target' = Target /\ Tried' = Tried /\ new.index # composePath
    BY <1>1, <2>1 DEF Target, Tried, Files
  <2>3. ASSUME NEW a \in disk'.accepted
        PROVE  /\ a \in [index : Nat, config : {a.config}, whole : BOOLEAN] /\ a.index # 0
               /\ a.index = composePath => a.config = current
               /\ a.index > L => a.index = Target /\ a.config = Tried.candidate
    <3>1. CASE a = new
      BY <1>1, <2>2, <3>1
    <3>2. CASE a \in disk.accepted
      BY <3>2 DEF Files
    <3>3. QED
      BY <2>1, <3>1, <3>2
  <2>4. composePath # 0 => \E a \in disk'.accepted : a.index = composePath /\ a.whole
    BY <2>1 DEF Files
  <2>5. QED
    BY <2>1, <2>2, <2>3, <2>4 DEF Files
<1>4. CASE Accepted
  <2>1. /\ UNCHANGED <<experiments, current, composePath, node, pending>> /\ node = "decide"
        /\ disk'.accepted = (disk.accepted \ AcceptedFiles)
                               \cup {[a EXCEPT !.whole = TRUE] : a \in AcceptedFiles}
    BY <1>4 DEF Accepted, graphVars, Control, DiskFields
  <2>2. Target' = Target /\ Tried' = Tried
    BY <2>1 DEF Target, Tried
  <2>3. ASSUME NEW a \in disk'.accepted
        PROVE  \E b \in disk.accepted : a.index = b.index /\ a.config = b.config
                    /\ a \in [index : Nat, config : {a.config}, whole : BOOLEAN]
    <3>1. CASE a \in disk.accepted
      BY <3>1 DEF Files
    <3>2. CASE \E b \in AcceptedFiles : a = [b EXCEPT !.whole = TRUE]
      <4>1. PICK b \in disk.accepted : a = [b EXCEPT !.whole = TRUE]
        BY <3>2 DEF AcceptedFiles
      <4>2. b \in [index : Nat, config : {b.config}, whole : BOOLEAN]
        BY DEF Files
      <4>3. QED
        BY <4>1, <4>2
    <3>3. QED
      BY <2>1, <3>1, <3>2
  <2>4. ASSUME composePath # 0
        PROVE  \E a \in disk'.accepted : a.index = composePath /\ a.whole
    <3>1. PICK a \in disk.accepted : a.index = composePath /\ a.whole
      BY <2>4 DEF Files
    <3>2. a \notin AcceptedFiles
      BY <1>1, <3>1 DEF AcceptedFiles, Files
    <3>3. QED
      BY <2>1, <3>1, <3>2
  <2>5. QED
    BY <2>1, <2>2, <2>3, <2>4 DEF Files
<1>5. CASE DecideReturns
  <2>1. /\ node = "decide" /\ disk' = disk /\ experiments' = Append(experiments, Tried)
        /\ current' = Decided(Tried, current)
        /\ \/ /\ Tried.verdict = "keep" /\ composePath' = Target
              /\ \E a \in AcceptedFiles : a.whole
           \/ Tried.verdict # "keep" /\ composePath' = composePath
    BY <1>5 DEF DecideReturns, At
  <2>2. Len(experiments') = L + 1
    BY <2>1, AppendHistory DEF Bounded
  <2>3. \A a \in disk.accepted : a.index <= L + 1
    BY <1>1 DEF Files
  <2>4. CASE Tried.verdict = "keep"
    <3>1. current' = Tried.candidate /\ composePath' = L + 1
      BY <1>1, <2>1, <2>4 DEF Decided
    <3>2. \E a \in disk'.accepted : a.index = composePath' /\ a.whole
      BY <2>1, <2>4 DEF AcceptedFiles
    <3>3. \A a \in disk.accepted : a.index = L + 1 => a.config = Tried.candidate
      BY <1>1 DEF Files
    <3>4. QED
      BY <1>1, <2>1, <2>2, <2>3, <3>1, <3>2, <3>3 DEF Files
  <2>5. CASE Tried.verdict # "keep"
    <3>1. current' = current /\ composePath' = composePath
      BY <2>1, <2>5 DEF Decided
    <3>2. QED
      BY <1>1, <2>1, <2>2, <2>3, <3>1 DEF Files
  <2>6. QED
    BY <2>4, <2>5
<1>6. QED
  BY <1>2, <1>3, <1>4, <1>5, FilesKept

\* The facts about the run hold in every run.
LEMMA RunHolds == Spec => []RunInv
<1>1. RunInv /\ [Next]_vars => RunInv'
  BY StepVisits, StepPhase, StepResults, StepInHand, StepFiles DEF RunInv, VisitsInv
<1>2. QED
  BY <1>1, InitRun, PTL DEF Spec

\* The loop decides with the operators of this module.
LEMMA SameDecisions ==
    /\ \A es, c : Loop!Proposals(es, c) = Proposals(es, c)
    /\ \A b, es : Loop!PolicyStop(b, es) = PolicyStop(b, es)
    /\ \A m, c, b : Loop!Records(m, c, b) = Records(m, c, b)
    /\ \A r, c : Loop!Decided(r, c) = Decided(r, c)
    /\ \A m : Loop!Change(m) = Change(m)
    /\ Loop!Verdicts = Verdicts
<1>1. \A es, c : Loop!Proposals(es, c) = Proposals(es, c)
  BY DEF Loop!Proposals, Loop!CanAddTmpfs, Loop!CanRetryReadOnly, Loop!Candidates, Loop!First,
     Loop!Precedes, Loop!Severity, Loop!RankOf, Loop!Attempted, Loop!ChangeOf,
     Loop!MutationOf, Loop!Priority, Loop!Change, Loop!Max, Proposals, CanAddTmpfs,
     CanRetryReadOnly, Candidates, First, Precedes, Severity, RankOf, Attempted, ChangeOf,
     MutationOf, Priority, Change, Max
<1>2. \A b, es : Loop!PolicyStop(b, es) = PolicyStop(b, es)
  BY DEF Loop!PolicyStop, Loop!Stopped, Loop!Uncovered, Loop!Exhausted, Loop!Streak,
     PolicyStop, Stopped, Uncovered, Exhausted, Streak
<1>3. \A m, c, b : Loop!Records(m, c, b) = Records(m, c, b)
  BY DEF Loop!Records, Loop!CandidateOutcomes, Loop!DecideCandidate, Loop!Replays,
     Loop!TmpSeen, Loop!Passed, Loop!Verdicts, Loop!Change, Loop!Min, Loop!Cardinality,
     Records, CandidateOutcomes, DecideCandidate, Replays, TmpSeen, Passed, Verdicts, Change,
     Min, Cardinality
<1>4. QED
  BY <1>1, <1>2, <1>3 DEF Loop!Decided, Loop!Change, Loop!Verdicts, Decided, Change, Verdicts

\* The stop reasons the loop does not tell apart.
FailReasons == {"compatibility", "boot_recovery_stopped", "boot_unsupported",
                "image_prepare_failed", "operation_failed"}
MappedStop == IF stop \in FailReasons THEN "failed" ELSE stop
MappedBaseline == IF observed THEN baseline ELSE <<>>

\* A step the loop does not see, and one at which it gives up.
Unseen ==
    /\ UNCHANGED <<stop, observed, experiments, current>>
    /\ UNCHANGED baseline \/ ~observed
GivenUp ==
    /\ stop = "none" /\ stop' \in FailReasons
    /\ UNCHANGED <<observed, baseline, experiments, current>>

LEMMA SeenSteps ==
    Control /\ Phase /\ [Next]_vars =>
        Unseen \/ GivenUp \/ Observe \/ Propose \/ DecideReturns
<1> SUFFICES ASSUME Control, Phase, [Next]_vars
             PROVE  Unseen \/ GivenUp \/ Observe \/ Propose \/ DecideReturns
  OBVIOUS
<1> USE DEF Control, Phase, Unseen, GivenUp, FailReasons, At, Return, Stop, Raise, graphVars,
        bootVars, planVars, configVars, runVars
<1>1. CASE Intake \/ CompatibilityRefused \/ PlanCompatibility \/ BaselineReturns
  BY <1>1 DEF Intake, CompatibilityRefused, PlanCompatibility, BaselineReturns
<1>2. ASSUME NEW plan \in Plans, PlanJourneys(plan) \/ PlanChanged(plan) PROVE Unseen \/ GivenUp
  BY <1>2 DEF PlanJourneys, PlanChanged
<1>3. CASE Claim \/ Mark \/ ClaimFails
  BY <1>3 DEF Claim, Mark, ClaimFails, Claiming
<1>4. CASE BootGivesUp \/ BootStarts \/ BootPasses
  BY <1>4 DEF BootGivesUp, BootStarts, BootPasses
<1>5. ASSUME NEW reason \in {"boot_unsupported", "image_prepare_failed", "compatibility"}, BootRefused(reason) PROVE Unseen \/ GivenUp
  BY <1>5 DEF BootRefused
<1>6. ASSUME NEW reason \in {"boot_unsupported", "image_prepare_failed", "compatibility"}, BootUnsupported(reason) PROVE Unseen \/ GivenUp
  BY <1>6 DEF BootUnsupported
<1>7. ASSUME NEW hash, BootFails(hash) PROVE Unseen \/ GivenUp
  BY <1>7 DEF BootFails
<1>8. CASE Journeys
  BY <1>8 DEF Journeys
<1>9. CASE ExperimentAborts \/ ExperimentStops \/ ExperimentStarts
  BY <1>9 DEF ExperimentAborts, ExperimentStops, ExperimentStarts, Recorded
<1>10. CASE ExperimentEnds \/ ExperimentIncompatible
  BY <1>10 DEF ExperimentEnds, ExperimentIncompatible, Recorded
<1>11. CASE Accept \/ Accepted \/ DecideFails
  BY <1>11 DEF Accept, Accepted, DecideFails
<1>12. CASE Continue \/ Harden \/ Hardened \/ Report
  BY <1>12 DEF Continue, Harden, Hardened, Report
<1>13. CASE Interrupt \/ Resume
  BY <1>13 DEF Interrupt, Resume
<1>14. CASE UNCHANGED vars
  BY <1>14 DEF vars
<1>15. QED
  BY <1>1, <1>2, <1>3, <1>4, <1>5, <1>6, <1>7, <1>8, <1>9, <1>10, <1>11, <1>12, <1>13,
     <1>14 DEF Next, Advance

LEMMA MappedInit == Init => Loop!Init
BY DEF Init, Loop!Init

\* Every step of the run is a step of the loop or none of its business.
LEMMA MappedStep == RunInv /\ [Next]_vars => [Loop!Next]_(Loop!vars)
<1> SUFFICES ASSUME RunInv, [Next]_vars PROVE [Loop!Next]_(Loop!vars)
  OBVIOUS
<1>1. Control /\ Phase /\ Results /\ InHand /\ Files
  BY DEF RunInv, VisitsInv
<1>2. CASE Unseen
  BY <1>2 DEF Unseen, Loop!vars
<1>3. CASE GivenUp
  BY <1>3 DEF GivenUp, FailReasons, Loop!Next, Loop!GiveUp
<1>4. CASE Observe
  <2>1. /\ stop = "none" /\ ~observed /\ observed' = TRUE
        /\ UNCHANGED <<stop, baseline, experiments, current>> /\ node = "observe"
    BY <1>1, <1>4 DEF Control, Phase, Observe, At, configVars
  <2>2. baseline' \in Loop!BaselineResults
    <3>1. baseline \in [1..journeys -> Verdicts] /\ journeys \in 0..MaxJourneys
      BY <1>1, <2>1 DEF Results
    <3>2. QED
      BY <2>1, <3>1, SameDecisions DEF Loop!BaselineResults
  <2>3. Loop!Observe
    BY <2>1, <2>2 DEF Loop!Observe
  <2>4. QED
    BY <2>3 DEF Loop!Next, Loop!Advance
<1>5. CASE Propose
  <2>1. stop = "none" /\ observed /\ UNCHANGED <<observed, baseline, experiments, current>>
    BY <1>1, <1>5 DEF Control, Phase, Propose, At, planVars, configVars
  <2>2. CASE UNCHANGED stop
    BY <2>1, <2>2 DEF Loop!vars
  <2>3. CASE /\ PolicyStop(baseline, experiments) # "none" \/ Proposals(experiments, current) = {}
             /\ stop' = IF PolicyStop(baseline, experiments) # "none"
                        THEN PolicyStop(baseline, experiments) ELSE "no_remaining_mutations"
    <3>1. stop' \notin FailReasons
      BY <2>3 DEF PolicyStop, FailReasons
    <3>2. Loop!Running
      BY <2>1 DEF Loop!Running
    <3>3. Loop!Finish
      BY <2>1, <2>3, <3>1, <3>2, SameDecisions DEF Loop!Finish, FailReasons
    <3>4. QED
      BY <3>3 DEF Loop!Next, Loop!Advance
  <2>4. QED
    BY <1>5, <2>2, <2>3 DEF Propose, Stop
<1>6. CASE DecideReturns
  <2>1. /\ stop = "none" /\ observed /\ UNCHANGED <<observed, baseline>>
        /\ experiments' = Append(experiments, Tried) /\ current' = Decided(Tried, current)
        /\ stop' = IF Tried.verdict = "stop" THEN "experiment" ELSE stop
        /\ node = "decide"
    BY <1>1, <1>6 DEF Control, Phase, DecideReturns, At, planVars
  <2>2. Recordable(Tried)
    BY <1>1, <2>1 DEF InHand, Tried
  <2>3. PICK m : /\ PolicyStop(baseline, experiments) = "none"
                 /\ m \in Proposals(experiments, current)
                 /\ Change(m) \notin Satisfied /\ Tried \in Records(m, current, baseline)
    BY <2>2 DEF Recordable, Proposable
  <2> HIDE DEF Tried
  <2>4. Loop!Running
    BY <2>1 DEF Loop!Running
  <2>5. Loop!Try
    BY <2>1, <2>3, <2>4, SameDecisions DEF Loop!Try
  <2>6. QED
    BY <2>5 DEF Loop!Next, Loop!Advance
<1>7. QED
  BY <1>1, <1>2, <1>3, <1>4, <1>5, <1>6, SeenSteps

\* However it is interrupted and resumed, the run is the hardening loop
\* (agent/graph.py), for any findings, plans and number of resumptions.
THEOREM RunImplementsLoop == Spec => ImplementsLoop
<1>1. Init => Loop!Init
  BY MappedInit
<1>2. RunInv /\ [Next]_vars => [Loop!Next]_(Loop!vars)
  BY MappedStep
<1>3. QED
  BY <1>1, <1>2, RunHolds, PTL DEF Spec, ImplementsLoop, Loop!Spec

-----------------------------------------------------------------------------
(* What the loop promises of the run                                       *)

LEMMA LoopAssumptions == LoopProofs!PolicyAssumption /\ LoopProofs!JourneysAssumption
<1>1. LoopProofs!IsFiniteSet(Findings)
  BY PolicyAssumption DEF LoopProofs!IsFiniteSet, IsFiniteSet
<1>2. LoopProofs!JourneysAssumption
  BY GraphAssumption DEF LoopProofs!JourneysAssumption
<1>3. QED
  BY <1>1, <1>2, PolicyAssumption DEF LoopProofs!PolicyAssumption

LEMMA SameInit == Loop!Init => LoopProofs!Init
BY DEF Loop!Init, LoopProofs!Init

LEMMA SameLemmas ==
    /\ \A es, c : LoopProofs!Proposals(es, c) = Proposals(es, c)
    /\ \A m, c, b : LoopProofs!Records(m, c, b) = Records(m, c, b)
    /\ \A m : LoopProofs!Change(m) = Change(m)
    /\ \A es, i : LoopProofs!KeptBefore(es, i) = KeptBefore(es, i)
    /\ \A b : LoopProofs!Passed(b) = Passed(b)
    /\ \A b, es : LoopProofs!PolicyStop(b, es) = PolicyStop(b, es)
    /\ \A r, c : LoopProofs!Decided(r, c) = Decided(r, c)
    /\ LoopProofs!Verdicts = Verdicts
<1>1. \A es, c : LoopProofs!Proposals(es, c) = Proposals(es, c)
  BY DEF LoopProofs!Proposals, LoopProofs!CanAddTmpfs, LoopProofs!CanRetryReadOnly,
     LoopProofs!Candidates, LoopProofs!First, LoopProofs!Precedes, LoopProofs!Severity,
     LoopProofs!RankOf, LoopProofs!Attempted, LoopProofs!ChangeOf, LoopProofs!MutationOf,
     LoopProofs!Priority, LoopProofs!Change, LoopProofs!Max, Proposals, CanAddTmpfs,
     CanRetryReadOnly, Candidates, First, Precedes, Severity, RankOf, Attempted, ChangeOf,
     MutationOf, Priority, Change, Max
<1>2. \A m, c, b : LoopProofs!Records(m, c, b) = Records(m, c, b)
  BY DEF LoopProofs!Records, LoopProofs!CandidateOutcomes, LoopProofs!DecideCandidate,
     LoopProofs!Replays, LoopProofs!TmpSeen, LoopProofs!Passed, LoopProofs!Verdicts,
     LoopProofs!Change, LoopProofs!Min, LoopProofs!Cardinality, Records, CandidateOutcomes,
     DecideCandidate, Replays, TmpSeen, Passed, Verdicts, Change, Min, Cardinality
<1>3. QED
  BY <1>1, <1>2 DEF LoopProofs!Change, LoopProofs!KeptBefore, LoopProofs!Passed,
     LoopProofs!Cardinality, LoopProofs!PolicyStop, LoopProofs!Stopped, LoopProofs!Uncovered,
     LoopProofs!Exhausted, LoopProofs!Streak, LoopProofs!Decided, LoopProofs!Verdicts, Change,
     KeptBefore, Passed, Cardinality, PolicyStop, Stopped, Uncovered, Exhausted, Streak,
     Decided, Verdicts

LEMMA SameNext == [Loop!Next]_(Loop!vars) => [LoopProofs!Next]_(LoopProofs!vars)
<1> SUFFICES ASSUME [Loop!Next]_(Loop!vars) PROVE [LoopProofs!Next]_(LoopProofs!vars)
  OBVIOUS
<1>1. CASE Loop!Observe
  <2>1. LoopProofs!Observe
    BY <1>1, SameDecisions, SameLemmas
       DEF Loop!Observe, LoopProofs!Observe, Loop!BaselineResults, LoopProofs!BaselineResults
  <2>2. QED
    BY <2>1 DEF LoopProofs!Next, LoopProofs!Advance
<1>2. CASE Loop!Try
  <2>1. LoopProofs!Try
    BY <1>2, SameDecisions, SameLemmas DEF Loop!Try, LoopProofs!Try, Loop!Running, LoopProofs!Running
  <2>2. QED
    BY <2>1 DEF LoopProofs!Next, LoopProofs!Advance
<1>3. CASE Loop!Reject
  <2>1. LoopProofs!Reject
    BY <1>3, SameDecisions, SameLemmas
       DEF Loop!Reject, LoopProofs!Reject, Loop!Running, LoopProofs!Running
  <2>2. QED
    BY <2>1 DEF LoopProofs!Next, LoopProofs!Advance
<1>4. CASE Loop!Finish
  <2>1. LoopProofs!Finish
    BY <1>4, SameDecisions, SameLemmas
       DEF Loop!Finish, LoopProofs!Finish, Loop!Running, LoopProofs!Running
  <2>2. QED
    BY <2>1 DEF LoopProofs!Next, LoopProofs!Advance
<1>5. CASE Loop!GiveUp
  <2>1. LoopProofs!GiveUp
    BY <1>5 DEF Loop!GiveUp, LoopProofs!GiveUp
  <2>2. QED
    BY <2>1 DEF LoopProofs!Next
<1>6. CASE UNCHANGED Loop!vars
  BY <1>6 DEF Loop!vars, LoopProofs!vars
<1>7. QED
  BY <1>1, <1>2, <1>3, <1>4, <1>5, <1>6 DEF Loop!Next, Loop!Advance

\* The loop's inductive invariant holds of the run.
LEMMA LoopHolds == Spec => []LoopProofs!LoopInv
<1>1. LoopProofs!Spec => []LoopProofs!LoopInv
  BY LoopAssumptions, LoopProofs!LoopInvariant
<1>2. RunInv /\ [Next]_vars => [LoopProofs!Next]_(LoopProofs!vars)
  BY MappedStep, SameNext
<1>3. Init => LoopProofs!Init
  BY MappedInit, SameInit
<1>4. QED
  BY <1>1, <1>2, <1>3, RunHolds, PTL DEF Spec, LoopProofs!Spec

-----------------------------------------------------------------------------
(* Disk, history and outcome                                               *)

\* An overlay exists for the records that say so.
Overlays ==
    /\ disk.overlays \subseteq disk.used
    /\ pc = "session" /\ node = "experiment" => Directory(slot) \in disk.overlays
    /\ node = "decide" =>
          /\ pending.overlay[1].made <=> pending.overlay[1].of \in disk.overlays
          /\ pending.overlay[1].made \/ Tried.verdict = "stop"

\* compose_path names the file of the last kept experiment.
LastKept ==
    /\ \A i \in DOMAIN experiments : experiments[i].verdict = "keep" => i <= composePath
    /\ composePath # 0 => /\ experiments[composePath].verdict = "keep"
                          /\ experiments[composePath].candidate = current

\* Provenance is reported with a whole overlay of the final configuration.
Reported ==
    /\ \A h \in disk.hardened : h \in [config : {h.config}, whole : BOOLEAN]
    /\ provenance => /\ node = "end" /\ stop # "none" /\ KeptIndices # {}
                     /\ [config |-> current, whole |-> TRUE] \in disk.hardened

DiskInv == Overlays /\ LastKept /\ Reported

LEMMA InitDisk == Init => DiskInv
<1> SUFFICES ASSUME Init PROVE DiskInv
  OBVIOUS
<1>1. Overlays /\ Reported
  BY DEF Init, EmptyDisk, Overlays, Reported
<1>2. LastKept
  BY DEF Init, LastKept
<1>3. QED
  BY <1>1, <1>2 DEF DiskInv

LEMMA StepOverlays ==
    Control /\ Owned /\ Results /\ Overlays /\ [Next]_vars => Overlays'
<1> SUFFICES ASSUME Control, Owned, Results, Overlays, [Next]_vars PROVE Overlays'
  OBVIOUS
<1> USE DEF Control, DiskFields, Overlays, Tried, At, Return, Stop, Raise, graphVars, bootVars,
        planVars, configVars, runVars, Directory
<1>1. CASE Intake \/ CompatibilityRefused \/ BaselineReturns
  BY <1>1 DEF Intake, CompatibilityRefused, BaselineReturns
<1>2. CASE PlanCompatibility
  BY <1>2 DEF PlanCompatibility
<1>3. ASSUME NEW plan \in Plans, PlanJourneys(plan) \/ PlanChanged(plan) PROVE Overlays'
  BY <1>3 DEF PlanJourneys, PlanChanged
<1>4. CASE Claim
  BY <1>4 DEF Claim, Claiming
<1>5. CASE Mark
  BY <1>5 DEF Mark
<1>6. CASE ClaimFails
  BY <1>6 DEF ClaimFails
<1>7. CASE BootGivesUp \/ BootPasses
  BY <1>7 DEF BootGivesUp, BootPasses
<1>8. CASE BootStarts
  BY <1>8 DEF BootStarts
<1>9. ASSUME NEW reason, BootRefused(reason) PROVE Overlays'
  BY <1>9 DEF BootRefused
<1>10. ASSUME NEW reason, BootUnsupported(reason) PROVE Overlays'
  BY <1>10 DEF BootUnsupported
<1>11. ASSUME NEW hash, BootFails(hash) PROVE Overlays'
  BY <1>11 DEF BootFails
<1>12. CASE Journeys
  BY <1>12 DEF Journeys
<1>13. CASE Observe
  BY <1>13 DEF Observe
<1>14. CASE Propose
  BY <1>14 DEF Propose
<1>15. CASE ExperimentAborts
  BY <1>15 DEF ExperimentAborts
<1>16. CASE ExperimentStops
  <2>1. /\ pending'.overlay = <<[of |-> Directory(slot), made |-> FALSE]>>
        /\ pending'.record = <<StopRecord>> /\ disk' = disk
        /\ node = "experiment" /\ node' = "decide" /\ pc = "inputs" /\ pc' = "ready"
    BY <1>16 DEF ExperimentStops, Recorded, Results
  <2>2. Directory(slot) \notin disk.overlays
    BY <2>1 DEF Owned
  <2>3. StopRecord.verdict = "stop"
    BY DEF StopRecord
  <2> HIDE DEF Directory
  <2>4. QED
    BY <2>1, <2>2, <2>3
<1>17. CASE ExperimentStarts
  BY <1>17 DEF ExperimentStarts
<1>18. CASE ExperimentEnds
  <2>1. /\ pending'.overlay = <<[of |-> Directory(slot), made |-> TRUE]>> /\ disk' = disk
        /\ node = "experiment" /\ node' = "decide" /\ pc = "session" /\ pc' = "ready"
    BY <1>18 DEF ExperimentEnds, Recorded, Results
  <2>2. Directory(slot) \in disk.overlays
    BY <2>1
  <2> HIDE DEF Directory
  <2>3. QED
    BY <2>1, <2>2
<1>19. CASE ExperimentIncompatible
  BY <1>19 DEF ExperimentIncompatible
<1>20. CASE DecideReturns
  BY <1>20 DEF DecideReturns
<1>21. CASE Accept
  BY <1>21 DEF Accept
<1>22. CASE Accepted
  BY <1>22 DEF Accepted
<1>23. CASE DecideFails
  BY <1>23 DEF DecideFails
<1>24. CASE Continue \/ Harden \/ Hardened \/ Report
  BY <1>24 DEF Continue, Harden, Hardened, Report
<1>25. CASE Interrupt \/ Resume
  BY <1>25 DEF Interrupt, Resume
<1>26. CASE UNCHANGED vars
  BY <1>26 DEF vars
<1>27. QED
  BY <1>1, <1>2, <1>3, <1>4, <1>5, <1>6, <1>7, <1>8, <1>9, <1>10, <1>11, <1>12, <1>13,
     <1>14, <1>15, <1>16, <1>17, <1>18, <1>19, <1>20, <1>21, <1>22, <1>23, <1>24, <1>25, <1>26
     DEF Next, Advance

LEMMA StepLastKept ==
    ASSUME Control, Bounded, Files, LastKept, [Next]_vars
    PROVE  LastKept'
<1>1. CASE UNCHANGED <<experiments, current, composePath>>
  BY <1>1 DEF LastKept
<1>2. CASE DecideReturns
  <2> DEFINE L == Len(experiments)
  <2>1. PICK S : experiments \in Seq(S)
    BY DEF Bounded
  <2>2. experiments \in Seq(S \cup {Tried}) /\ Tried \in S \cup {Tried}
    BY <2>1
  <2>3. /\ L \in Nat /\ experiments' = Append(experiments, Tried)
        /\ DOMAIN experiments = 1..L /\ DOMAIN experiments' = 1..L + 1
        /\ \A i \in 1..L : experiments'[i] = experiments[i]
        /\ experiments'[L + 1] = Tried
    BY <1>2, <2>2, AppendProperties, LenProperties DEF DecideReturns
  <2>4. CASE Tried.verdict = "keep"
    <3>1. composePath' = L + 1 /\ current' = Tried.candidate
      BY <1>2, <2>4 DEF DecideReturns, Decided, Target
    <3>2. QED
      BY <2>3, <2>4, <3>1 DEF LastKept
  <2>5. CASE Tried.verdict # "keep"
    <3>1. composePath' = composePath /\ current' = current
      BY <1>2, <2>5 DEF DecideReturns, Decided
    <3>2. composePath \in 0..L
      BY DEF Files
    <3>3. QED
      BY <2>3, <2>5, <3>1, <3>2 DEF LastKept
  <2>6. QED
    BY <2>4, <2>5
<1>3. CASE Accept \/ Accepted
  BY <1>1, <1>3 DEF Accept, Accepted, graphVars
<1>4. QED
  BY <1>1, <1>2, <1>3, FilesKept

\* Provenance is decided by the report, after which nothing changes.
LEMMA ProvenanceKept ==
    Control /\ [Next]_vars =>
        \/ Report \/ Harden \/ Hardened
        \/ /\ UNCHANGED provenance /\ disk'.hardened = disk.hardened
           /\ node = "end" => UNCHANGED <<node, stop, experiments, current>>
<1> DEFINE Quiet == /\ UNCHANGED provenance /\ disk'.hardened = disk.hardened
                    /\ node = "end" => UNCHANGED <<node, stop, experiments, current>>
<1> SUFFICES ASSUME Control, [Next]_vars PROVE Quiet \/ Report \/ Harden \/ Hardened
  OBVIOUS
<1> USE DEF Control, DiskFields, At, Return, Stop, Raise, graphVars, bootVars, planVars,
        configVars, runVars
<1>1. CASE Intake \/ CompatibilityRefused \/ PlanCompatibility \/ BaselineReturns
  BY <1>1 DEF Intake, CompatibilityRefused, PlanCompatibility, BaselineReturns
<1>2. ASSUME NEW plan \in Plans, PlanJourneys(plan) \/ PlanChanged(plan) PROVE Quiet
  BY <1>2 DEF PlanJourneys, PlanChanged
<1>3. CASE Claim \/ Mark \/ ClaimFails
  BY <1>3 DEF Claim, Mark, ClaimFails, Claiming
<1>4. CASE BootGivesUp \/ BootStarts \/ BootPasses
  BY <1>4 DEF BootGivesUp, BootStarts, BootPasses
<1>5. ASSUME NEW reason, BootRefused(reason) PROVE Quiet
  BY <1>5 DEF BootRefused
<1>6. ASSUME NEW reason, BootUnsupported(reason) PROVE Quiet
  BY <1>6 DEF BootUnsupported
<1>7. ASSUME NEW hash, BootFails(hash) PROVE Quiet
  BY <1>7 DEF BootFails
<1>8. CASE Journeys \/ Observe \/ Propose
  BY <1>8 DEF Journeys, Observe, Propose
<1>9. CASE ExperimentAborts \/ ExperimentStops \/ ExperimentStarts
  BY <1>9 DEF ExperimentAborts, ExperimentStops, ExperimentStarts, Recorded
<1>10. CASE ExperimentEnds \/ ExperimentIncompatible
  BY <1>10 DEF ExperimentEnds, ExperimentIncompatible, Recorded
<1>11. CASE DecideReturns
  BY <1>11 DEF DecideReturns
<1>12. CASE Accept \/ Accepted \/ DecideFails
  BY <1>12 DEF Accept, Accepted, DecideFails
<1>13. CASE Continue
  BY <1>13 DEF Continue
<1>14. CASE Interrupt \/ Resume
  BY <1>14 DEF Interrupt, Resume
<1>15. CASE UNCHANGED vars
  BY <1>15 DEF vars
<1>16. QED
  BY <1>1, <1>2, <1>3, <1>4, <1>5, <1>6, <1>7, <1>8, <1>9, <1>10, <1>11, <1>12, <1>13,
     <1>14, <1>15 DEF Next, Advance

LEMMA StepReported ==
    ASSUME Control, Reported, [Next]_vars
    PROVE  Reported'
<1>1. CASE /\ UNCHANGED provenance /\ disk'.hardened = disk.hardened
           /\ node = "end" => UNCHANGED <<node, stop, experiments, current>>
  BY <1>1 DEF Reported, KeptIndices
<1>2. CASE Report
  <2>1. /\ disk' = disk /\ UNCHANGED <<stop, experiments, current>> /\ node' = "end"
        /\ stop # "none"
        /\ provenance' => /\ KeptIndices # {} /\ HardenedFiles # {}
                          /\ \A h \in HardenedFiles : h.whole
    BY <1>2 DEF Report, ChainValid, At
  <2>2. ASSUME provenance' PROVE [config |-> current, whole |-> TRUE] \in disk.hardened
    <3>1. PICK h \in disk.hardened : h.config = current /\ h.whole
      BY <2>1, <2>2 DEF HardenedFiles
    <3>2. h = [config |-> current, whole |-> TRUE]
      BY <3>1 DEF Reported
    <3>3. QED
      BY <3>1, <3>2
  <2>3. KeptIndices' = KeptIndices
    BY <2>1 DEF KeptIndices
  <2>4. QED
    BY <2>1, <2>2, <2>3 DEF Reported
<1>3. CASE Harden
  <2>1. /\ ~provenance /\ UNCHANGED provenance
        /\ disk'.hardened = disk.hardened \cup {[config |-> current, whole |-> FALSE]}
    BY <1>3 DEF Harden, Reported, At, graphVars, Control, DiskFields
  <2>2. ASSUME NEW h \in disk'.hardened
        PROVE  h \in [config : {h.config}, whole : BOOLEAN]
    <3>1. CASE h \in disk.hardened
      BY <3>1 DEF Reported
    <3>2. CASE h = [config |-> current, whole |-> FALSE]
      BY <3>2
    <3>3. QED
      BY <2>1, <3>1, <3>2
  <2>3. QED
    BY <2>1, <2>2 DEF Reported
<1>4. CASE Hardened
  <2>1. /\ ~provenance /\ UNCHANGED provenance
        /\ disk'.hardened = (disk.hardened \ HardenedFiles)
                                \cup {[config |-> current, whole |-> TRUE]}
    BY <1>4 DEF Hardened, Reported, graphVars, Control, DiskFields
  <2>2. ASSUME NEW h \in disk'.hardened
        PROVE  h \in [config : {h.config}, whole : BOOLEAN]
    <3>1. CASE h \in disk.hardened
      BY <3>1 DEF Reported
    <3>2. CASE h = [config |-> current, whole |-> TRUE]
      BY <3>2
    <3>3. QED
      BY <2>1, <3>1, <3>2 DEF HardenedFiles
  <2>3. QED
    BY <2>1, <2>2 DEF Reported
<1>5. QED
  BY <1>1, <1>2, <1>3, <1>4, ProvenanceKept

\* All that is known of a run.
FullInv == RunInv /\ Owned /\ DiskInv /\ LoopProofs!LoopInv

LEMMA FullHolds == Spec => []FullInv
<1>1. RunInv /\ Owned /\ DiskInv /\ [Next]_vars => DiskInv'
  BY StepOverlays, StepLastKept, StepReported DEF RunInv, VisitsInv, DiskInv
<1>2. Control /\ Owned /\ [Next]_vars => Owned'
  BY StepOwned
<1>3. RunInv => Control
  BY DEF RunInv, VisitsInv
<1>4. QED
  BY <1>1, <1>2, <1>3, InitDisk, InitOwned, RunHolds, LoopHolds, PTL DEF Spec, FullInv

\* The history of a run with a kept change passes its final validation.
LEMMA HistoryValid == FullInv /\ KeptIndices # {} => ChainValid
<1> SUFFICES ASSUME FullInv, KeptIndices # {} PROVE ChainValid
  OBVIOUS
<1>1. OnDisk(composePath) = current /\ OnDisk(0) = {}
  BY FileIsCurrent DEF FullInv, RunInv, OnDisk
<1>2. LoopProofs!ChainReplays /\ LoopProofs!NothingKeptTwice(experiments)
  BY DEF FullInv, LoopProofs!LoopInv
<1>3. /\ \A i \in DOMAIN experiments : experiments[i].parent = KeptBefore(experiments, i)
      /\ current = KeptBefore(experiments, Len(experiments) + 1)
  BY <1>2, SameLemmas DEF LoopProofs!ChainReplays
<1>4. \A i \in DOMAIN experiments :
        Change(experiments[i].mutation) \notin KeptBefore(experiments, i)
  BY <1>2, SameLemmas DEF LoopProofs!NothingKeptTwice
<1>5. ASSUME NEW i \in DOMAIN experiments
      PROVE  experiments[i].candidate =
                experiments[i].parent \cup {Change(experiments[i].mutation)}
  <2>1. experiments[i] \in LoopProofs!RecordSet
    BY ElementOfSeq DEF FullInv, LoopProofs!LoopInv
  <2>2. QED
    BY <2>1, SameLemmas DEF LoopProofs!RecordSet
<1>6. QED
  BY <1>1, <1>3, <1>4, <1>5 DEF ChainValid

\* The record in hand can be decided: it is of a new experiment, on this file.
LEMMA RecordFits == FullInv /\ node = "decide" => Decidable /\ Follows
<1> SUFFICES ASSUME FullInv, node = "decide" PROVE Decidable /\ Follows
  OBVIOUS
<1> DEFINE es == experiments
           config == current
           fs == Append(es, Tried)
<1>1. PICK m : m \in Proposals(es, config) /\ Tried \in Records(m, config, baseline)
  BY DEF FullInv, RunInv, InHand, Recordable, Proposable, Tried
<1>2. /\ es \in Seq(LoopProofs!RecordSet) /\ config \in LoopProofs!Configs
      /\ LoopProofs!OriginsHold(es) /\ LoopProofs!FirstOfTheOpen(es)
      /\ LoopProofs!Unrepeated(es)
  BY DEF FullInv, LoopProofs!LoopInv
<1>3. LoopProofs!Passed(baseline) \in Nat
  <2>1. observed
    BY DEF FullInv, RunInv, Phase
  <2>2. QED
    BY <2>1 DEF FullInv, LoopProofs!LoopInv
<1>4. m \in LoopProofs!Proposals(es, config)
      /\ Tried \in LoopProofs!Records(m, config, baseline)
  BY <1>1, SameLemmas
<1> HIDE DEF es, config
<1>5. /\ m \in LoopProofs!Mutations
      /\ \/ LoopProofs!FollowsReadOnly(m, es) \/ LoopProofs!FollowsTmpfs(m, es, config)
         \/ LoopProofs!AnswersFinding(m, es)
  BY <1>2, <1>4, LoopAssumptions, LoopProofs!ProposalIs
<1>6. /\ Tried \in LoopProofs!RecordSet /\ Tried.mutation = m /\ Tried.parent = config
      /\ Tried.candidate = config \cup {LoopProofs!Change(m)}
  BY <1>2, <1>3, <1>4, <1>5, LoopAssumptions, LoopProofs!RecordTyped
<1>7. LoopProofs!Unrepeated(fs)
  BY <1>2, <1>5, <1>6, LoopAssumptions, LoopProofs!GrownOrigins
<1>8. \A i \in DOMAIN es : es[i].mutation # Tried.mutation
  <2>1. /\ Len(es) \in Nat /\ DOMAIN es = 1..Len(es) /\ DOMAIN fs = 1..Len(es) + 1
        /\ \A i \in 1..Len(es) : fs[i] = es[i]
        /\ fs[Len(es) + 1] = Tried
    BY <1>2, <1>6, AppendProperties, LenProperties
  <2> HIDE DEF fs
  <2>2. QED
    BY <1>7, <2>1 DEF LoopProofs!Unrepeated
<1>9. Decidable
  BY <1>8 DEF es, Decidable, FullInv, DiskInv, Overlays
<1>10. Follows
  BY <1>6, FileIsCurrent, SameLemmas DEF config, Follows, FullInv, RunInv
<1>11. QED
  BY <1>9, <1>10

\* compose_path is what _expected_accepted_compose_path computes.
LEMMA PathFits == FullInv => ~AcceptedMismatch
<1> SUFFICES ASSUME FullInv PROVE ~AcceptedMismatch
  OBVIOUS
<1>1. LastKept /\ composePath \in 0..Len(experiments) /\ Len(experiments) \in Nat
      /\ DOMAIN experiments = 1..Len(experiments)
  BY LenProperties DEF FullInv, RunInv, DiskInv, Files, VisitsInv, Bounded
<1>2. CASE composePath = 0
  <2>1. KeptIndices = {}
    BY <1>1, <1>2 DEF KeptIndices, LastKept
  <2>2. QED
    BY <1>2, <2>1 DEF AcceptedMismatch
<1>3. CASE composePath # 0
  <2>1. composePath \in KeptIndices /\ \A i \in KeptIndices : composePath >= i /\ i \in Nat
    BY <1>1, <1>3 DEF KeptIndices, LastKept
  <2>2. \A x \in KeptIndices : (\A y \in KeptIndices : x >= y) => x = composePath
    BY <2>1
  <2>3. Max(KeptIndices) = composePath
    BY <2>1, <2>2 DEF Max
  <2>4. QED
    BY <1>1, <1>3, <2>1, <2>3 DEF AcceptedMismatch, LastKept
<1>4. QED
  BY <1>2, <1>3

\* After any interruption neither the files nor the history contradict the
\* checkpoint (agent/graph.py _experiment, _decide, _materialize_hardened_overlay),
\* for any findings, plans and number of resumptions.
THEOREM DiskStaysReplayable == Spec => []DiskIsReplayable
<1>1. FullInv => DiskIsReplayable
  <2> SUFFICES ASSUME FullInv PROVE DiskIsReplayable
    OBVIOUS
  <2>1. DiskMatchesState
    BY PathFits, RecordFits, FileIsCurrent DEF DiskMatchesState, ParentMismatch, FullInv, RunInv
  <2>2. HistoryIsReplayable
    BY HistoryValid DEF HistoryIsReplayable, FullInv, DiskInv, Reported
  <2>3. QED
    BY <2>1, <2>2 DEF DiskIsReplayable
<1>2. QED
  BY <1>1, FullHolds, PTL

\* A run that reports success (run_outcome.py) has passed its baseline, and each
\* change in its final file was kept by an experiment that replayed all of it.
THEOREM CompletionIsEarned == Spec => []CompletedIsEarned
<1>1. FullInv => CompletedIsEarned
  <2> SUFFICES ASSUME FullInv, pc = "ended", Outcome = "completed"
               PROVE  /\ observed /\ baseline # <<>> /\ AllPass(baseline)
                      /\ \A change \in OnDisk(composePath) : \E i \in KeptIndices :
                            /\ Change(experiments[i].mutation) = change
                            /\ Len(experiments[i].journeys) = Len(baseline)
                            /\ AllPass(experiments[i].journeys)
    BY DEF CompletedIsEarned
  <2>1. baseline # <<>> /\ AllPass(baseline)
    BY DEF Outcome
  <2>2. observed
    BY <2>1 DEF FullInv, RunInv, VisitsInv, Control, Phase
  <2>3. Passed(baseline) = Len(baseline)
    <3>1. baseline \in [1..journeys -> Verdicts] /\ journeys \in Nat
      BY <2>2, GraphAssumption DEF FullInv, RunInv, Results
    <3>2. {i \in DOMAIN baseline : baseline[i] = "pass"} = 1..journeys
      BY <2>1, <3>1 DEF AllPass
    <3>3. Cardinality(1..journeys) = journeys
      BY <3>1, FS_Interval
    <3>4. Len(baseline) = journeys
      <4>1. baseline \in Seq(Verdicts)
        BY <3>1
      <4>2. DOMAIN baseline = 1..Len(baseline) /\ Len(baseline) \in Nat
        BY <4>1, LenProperties
      <4>3. 1..Len(baseline) = 1..journeys
        BY <3>1, <4>2
      <4>4. QED
        BY <3>1, <4>2, <4>3
    <3>5. QED
      BY <3>2, <3>3, <3>4 DEF Passed
  <2>4. ASSUME NEW change \in OnDisk(composePath)
        PROVE  \E i \in KeptIndices : /\ Change(experiments[i].mutation) = change
                                      /\ Len(experiments[i].journeys) = Len(baseline)
                                      /\ AllPass(experiments[i].journeys)
    <3>1. change \in KeptBefore(experiments, Len(experiments) + 1)
      BY FileIsCurrent, SameLemmas
         DEF FullInv, RunInv, LoopProofs!LoopInv, LoopProofs!ChainReplays
    <3>2. DOMAIN experiments = 1..Len(experiments) /\ Len(experiments) \in Nat
      BY LenProperties DEF FullInv, RunInv, VisitsInv, Bounded
    <3>3. PICK i \in KeptIndices : Change(experiments[i].mutation) = change
      BY <3>1, <3>2 DEF KeptBefore, KeptIndices
    <3>4. LoopProofs!Earned(experiments[i], baseline)
      BY <2>2 DEF FullInv, LoopProofs!LoopInv, KeptIndices
    <3>5. /\ Len(experiments[i].journeys) = Passed(baseline)
          /\ AllPass(experiments[i].journeys)
      BY <3>4, SameLemmas DEF LoopProofs!Earned, KeptIndices, AllPass
    <3>6. QED
      BY <2>3, <3>3, <3>5
  <2>5. QED
    BY <2>1, <2>2, <2>4
<1>2. QED
  BY <1>1, FullHolds, PTL

-----------------------------------------------------------------------------
(* An invocation ends: what is ahead of it                                 *)

\* The steps a node that is ready may take before it returns or raises: a node
\* that publishes a file goes through "ready" once more.
FromReady ==
    IF node \in {"boot", "experiment"} THEN 4
    ELSE IF \/ node = "baseline"
            \/ node = "decide" /\ AcceptedFiles = {}
            \/ node = "report_or_next" /\ HardenedFiles = {}
    THEN 3 ELSE 1

\* The steps the running node may still take.
InNode ==
    IF pc \in {"down", "ended"} THEN 0
    ELSE IF pc \in {"planned", "session"} THEN 1
    ELSE IF pc \in {"plan_journeys", "inputs", "accepting", "hardening"} THEN 2
    ELSE IF pc = "claimed" THEN 3
    ELSE FromReady

\* The steps a run may still take before it is over or has to be resumed: those of
\* the running node, and four for each stage the history has room for.
Ahead == 4 * (64 - visits) + InNode

\* Each step leads nearer to the end of the run, except that resuming a run, which
\* is counted, gives a node that was interrupted all of its steps again.
GetsOn ==
    \/ resumes' = resumes /\ Ahead' < Ahead
    \/ resumes' = resumes + 1 /\ visits' = visits

\* A file that is being published is on the disk.
Publishing == pc = "accepting" => AcceptedFiles # {}

CountInv == RunInv /\ Publishing /\ resumes \in 0..MaxResumes

\* The published file stays the one that is being decided.
LEMMA StepPublishing ==
    ASSUME Control, Bounded, Files, Publishing, [Next]_vars
    PROVE  Publishing'
<1>1. CASE Accept
  <2> DEFINE new == [index |-> Target, config |-> Tried.candidate, whole |-> FALSE]
  <2>1. disk'.accepted = disk.accepted \cup {new} /\ UNCHANGED <<experiments, pending>>
    BY <1>1 DEF Accept, graphVars, Control, DiskFields
  <2>2. new \in AcceptedFiles'
    BY <2>1 DEF AcceptedFiles, Target, Tried
  <2>3. QED
    BY <2>2 DEF Publishing
<1>2. CASE UNCHANGED vars
  BY <1>2 DEF vars, graphVars, Publishing, AcceptedFiles, Target, Tried
<1>3. CASE Next /\ ~Accept
  <2> USE DEF Return, Stop, Raise
  <2>1. pc' # "accepting"
    <3>1. CASE Intake \/ CompatibilityRefused \/ PlanCompatibility \/ BaselineReturns
      BY <3>1 DEF Intake, CompatibilityRefused, PlanCompatibility, BaselineReturns
    <3>2. ASSUME NEW plan \in Plans, PlanJourneys(plan) \/ PlanChanged(plan)
          PROVE  pc' # "accepting"
      BY <3>2 DEF PlanJourneys, PlanChanged
    <3>3. CASE Claim \/ Mark \/ ClaimFails \/ BootGivesUp \/ BootStarts \/ BootPasses
      BY <3>3 DEF Claim, Mark, ClaimFails, BootGivesUp, BootStarts, BootPasses
    <3>4. ASSUME NEW reason, BootRefused(reason) \/ BootUnsupported(reason)
          PROVE  pc' # "accepting"
      BY <3>4 DEF BootRefused, BootUnsupported
    <3>5. ASSUME NEW hash, BootFails(hash) PROVE pc' # "accepting"
      BY <3>5 DEF BootFails
    <3>6. CASE Journeys \/ Observe \/ Propose
      BY <3>6 DEF Journeys, Observe, Propose
    <3>7. CASE ExperimentAborts \/ ExperimentStops \/ ExperimentStarts \/ ExperimentEnds
               \/ ExperimentIncompatible
      BY <3>7 DEF ExperimentAborts, ExperimentStops, ExperimentStarts, ExperimentEnds,
                  ExperimentIncompatible, Recorded
    <3>8. CASE DecideReturns \/ Accepted \/ DecideFails
      BY <3>8 DEF DecideReturns, Accepted, DecideFails
    <3>9. CASE Continue \/ Harden \/ Hardened \/ Report \/ Interrupt \/ Resume
      BY <3>9 DEF Continue, Harden, Hardened, Report, Interrupt, Resume
    <3>10. QED
      BY <1>3, <3>1, <3>2, <3>3, <3>4, <3>5, <3>6, <3>7, <3>8, <3>9 DEF Next, Advance
  <2>2. QED
    BY <2>1 DEF Publishing
<1>4. QED
  BY <1>1, <1>2, <1>3

\* Resumptions are counted and bounded.
LEMMA StepResumes ==
    ASSUME resumes \in 0..MaxResumes, [Next]_vars
    PROVE  /\ resumes' \in 0..MaxResumes
           /\ ~Resume => resumes' = resumes
<1> USE DEF Return, Stop, Raise, runVars
<1>1. CASE Intake \/ CompatibilityRefused \/ PlanCompatibility \/ BaselineReturns
  BY <1>1 DEF Intake, CompatibilityRefused, PlanCompatibility, BaselineReturns
<1>2. ASSUME NEW plan \in Plans, PlanJourneys(plan) \/ PlanChanged(plan)
      PROVE  resumes' = resumes
  BY <1>2 DEF PlanJourneys, PlanChanged
<1>3. CASE Claim \/ Mark \/ ClaimFails \/ BootGivesUp \/ BootStarts \/ BootPasses
  BY <1>3 DEF Claim, Mark, ClaimFails, BootGivesUp, BootStarts, BootPasses
<1>4. ASSUME NEW reason, BootRefused(reason) \/ BootUnsupported(reason)
      PROVE  resumes' = resumes
  BY <1>4 DEF BootRefused, BootUnsupported
<1>5. ASSUME NEW hash, BootFails(hash) PROVE resumes' = resumes
  BY <1>5 DEF BootFails
<1>6. CASE Journeys \/ Observe \/ Propose
  BY <1>6 DEF Journeys, Observe, Propose
<1>7. CASE ExperimentAborts \/ ExperimentStops \/ ExperimentStarts \/ ExperimentEnds
           \/ ExperimentIncompatible
  BY <1>7 DEF ExperimentAborts, ExperimentStops, ExperimentStarts, ExperimentEnds,
              ExperimentIncompatible
<1>8. CASE DecideReturns \/ Accept \/ Accepted \/ DecideFails
  BY <1>8 DEF DecideReturns, Accept, Accepted, DecideFails
<1>9. CASE Continue \/ Harden \/ Hardened \/ Report \/ Interrupt
  BY <1>9 DEF Continue, Harden, Hardened, Report, Interrupt
<1>10. CASE Resume
  BY <1>10, GraphAssumption DEF Resume
<1>11. CASE UNCHANGED vars
  BY <1>11 DEF vars
<1>12. QED
  BY <1>1, <1>2, <1>3, <1>4, <1>5, <1>6, <1>7, <1>8, <1>9, <1>10, <1>11 DEF Next, Advance

\* The facts the measure needs hold in every run.
LEMMA CountHolds == Spec => []CountInv
<1>1. Init => CountInv
  BY InitRun, GraphAssumption DEF Init, CountInv, Publishing
<1>2. CountInv /\ [Next]_vars => CountInv'
  <2> SUFFICES ASSUME CountInv, [Next]_vars PROVE CountInv'
    OBVIOUS
  <2>1. RunInv'
    BY StepVisits, StepPhase, StepResults, StepInHand, StepFiles
       DEF CountInv, RunInv, VisitsInv
  <2>2. QED
    BY <2>1, StepPublishing, StepResumes DEF CountInv, RunInv, VisitsInv
<1>3. QED
  BY <1>1, <1>2, PTL DEF Spec

\* A node has between one and four steps to take, and the history room for it.
LEMMA InNodeBounds ==
    ASSUME CountInv
    PROVE  /\ InNode \in 0..4 /\ visits \in 0..64 /\ Ahead \in Nat
           /\ pc \notin {"down", "ended"} => InNode > 0
<1>1. visits \in 0..64
  BY LenProperties DEF CountInv, RunInv, VisitsInv, Spent, Bounded
<1>2. InNode \in 0..4 /\ (pc \notin {"down", "ended"} => InNode > 0)
  BY DEF InNode, FromReady
<1>3. QED
  BY <1>1, <1>2 DEF Ahead

\* A stage is worth all steps of a node.
LEMMA StageOrStep ==
    \A v \in Int, i \in 0..4, j \in 0..4 :
        /\ i > 0 => 4 * (64 - (v + 1)) + j < 4 * (64 - v) + i
        /\ j < i => 4 * (64 - v) + j < 4 * (64 - v) + i
OBVIOUS

\* A node that returns has left one stage behind, which pays for all steps of the
\* next node.
LEMMA ReturnsNearer ==
    ASSUME CountInv, pc \notin {"down", "ended"}, visits' = visits + 1
    PROVE  Ahead' < Ahead
<1>1. InNode \in 0..4 /\ InNode > 0 /\ visits \in Int
  BY InNodeBounds
<1>2. InNode' \in 0..4
  BY DEF InNode, FromReady
<1>3. 4 * (64 - (visits + 1)) + InNode' < 4 * (64 - visits) + InNode
  BY ONLY <1>1, <1>2, StageOrStep
<1>4. QED
  BY <1>3 DEF Ahead

\* A node that goes on has fewer steps left of its own.
LEMMA GoesOnNearer ==
    ASSUME CountInv, visits' = visits, InNode' \in 0..4, InNode' < InNode
    PROVE  Ahead' < Ahead
<1>1. InNode \in 0..4 /\ visits \in Int
  BY InNodeBounds
<1>2. 4 * (64 - visits) + InNode' < 4 * (64 - visits) + InNode
  BY <1>1, StageOrStep
<1>3. QED
  BY <1>2 DEF Ahead

\* A node that raises has no steps left.
LEMMA RaisesNearer ==
    ASSUME CountInv, pc \notin {"down", "ended"}, Raise
    PROVE  Ahead' < Ahead
<1>1. InNode > 0 /\ InNode \in 0..4
  BY InNodeBounds
<1>2. InNode' = 0 /\ visits' = visits
  BY DEF Raise, InNode, graphVars
<1>3. QED
  BY <1>1, <1>2, GoesOnNearer

\* The steps of the baseline and of the claimed directories.
LEMMA WaitingNearer ==
    ASSUME CountInv,
           \/ PlanCompatibility \/ Claim \/ Mark \/ BootStarts \/ ExperimentStarts
           \/ \E plan \in Plans : PlanJourneys(plan)
    PROVE  Ahead' < Ahead
<1> USE DEF InNode, FromReady, At, graphVars
<1>1. CASE PlanCompatibility
  <2>1. visits' = visits /\ InNode' = 2 /\ InNode = 3
    BY <1>1 DEF PlanCompatibility
  <2>2. QED
    BY <2>1, GoesOnNearer
<1>2. CASE \E plan \in Plans : PlanJourneys(plan)
  <2>1. visits' = visits /\ InNode' = 1 /\ InNode = 2
    BY <1>2 DEF PlanJourneys
  <2>2. QED
    BY <2>1, GoesOnNearer
<1>3. CASE Claim
  <2>1. visits' = visits /\ InNode' = 3 /\ InNode = 4
    BY <1>3 DEF Claim, Claiming
  <2>2. QED
    BY <2>1, GoesOnNearer
<1>4. CASE Mark
  <2>1. visits' = visits /\ InNode' = 2 /\ InNode = 3
    BY <1>4 DEF Mark
  <2>2. QED
    BY <2>1, GoesOnNearer
<1>5. CASE BootStarts \/ ExperimentStarts
  <2>1. visits' = visits /\ InNode' = 1 /\ InNode = 2
    BY <1>5 DEF BootStarts, ExperimentStarts
  <2>2. QED
    BY <2>1, GoesOnNearer
<1>6. QED
  BY <1>1, <1>2, <1>3, <1>4, <1>5

\* Publishing the accepted file: once it is whole it is not published again.
LEMMA AcceptNearer ==
    ASSUME CountInv, Accept \/ Accepted
    PROVE  Ahead' < Ahead
<1>1. CASE Accept
  <2>1. visits' = visits /\ InNode' = 2 /\ InNode = 3
    BY <1>1 DEF Accept, At, graphVars, InNode, FromReady
  <2>2. QED
    BY <2>1, GoesOnNearer
<1>2. CASE Accepted
  <2>1. /\ UNCHANGED <<experiments, pending, node, visits>> /\ node = "decide"
        /\ pc = "accepting" /\ pc' = "ready"
        /\ disk'.accepted = (disk.accepted \ AcceptedFiles)
                               \cup {[a EXCEPT !.whole = TRUE] : a \in AcceptedFiles}
    BY <1>2 DEF Accepted, graphVars, CountInv, RunInv, VisitsInv, Control, DiskFields
  <2>2. PICK a \in AcceptedFiles : TRUE
    BY <2>1 DEF CountInv, Publishing
  <2>3. a \in [index : Nat, config : {a.config}, whole : BOOLEAN]
        /\ a.index = Target /\ a.config = Tried.candidate
    BY <2>2 DEF AcceptedFiles, CountInv, RunInv, Files
  <2> DEFINE b == [a EXCEPT !.whole = TRUE]
  <2>4. b.index = a.index /\ b.config = a.config /\ b \in disk'.accepted
    BY <2>1, <2>3
  <2>5. Target' = Target /\ Tried' = Tried
    BY <2>1 DEF Target, Tried
  <2>6. b \in AcceptedFiles'
    BY <2>3, <2>4, <2>5 DEF AcceptedFiles
  <2>7. AcceptedFiles' # {}
    BY <2>6
  <2>8. InNode' = 1 /\ InNode = 2
    BY <2>1, <2>7 DEF InNode, FromReady
  <2>9. QED
    BY <2>1, <2>8, GoesOnNearer
<1>3. QED
  BY <1>1, <1>2

\* Publishing the cumulative overlay, likewise.
LEMMA HardenNearer ==
    ASSUME CountInv, Harden \/ Hardened
    PROVE  Ahead' < Ahead
<1>1. CASE Harden
  <2>1. visits' = visits /\ InNode' = 2 /\ InNode = 3
    BY <1>1 DEF Harden, At, graphVars, InNode, FromReady
  <2>2. QED
    BY <2>1, GoesOnNearer
<1>2. CASE Hardened
  <2> DEFINE new == [config |-> current, whole |-> TRUE]
  <2>1. /\ UNCHANGED <<current, node, visits>> /\ node = "report_or_next"
        /\ pc = "hardening" /\ pc' = "ready" /\ new \in disk'.hardened
    BY <1>2 DEF Hardened, graphVars, CountInv, RunInv, VisitsInv, Control, DiskFields
  <2>2. new \in HardenedFiles'
    BY <2>1 DEF HardenedFiles
  <2>3. HardenedFiles' # {}
    BY <2>2
  <2>4. InNode' = 1 /\ InNode = 2
    BY <2>1, <2>3 DEF InNode, FromReady
  <2>5. QED
    BY <2>1, <2>4, GoesOnNearer
<1>3. QED
  BY <1>1, <1>2

\* The nodes that return to the graph.
LEMMA NodesReturn ==
    ASSUME CountInv,
           \/ Intake \/ CompatibilityRefused \/ BaselineReturns
           \/ BootGivesUp \/ BootPasses
           \/ \E reason : BootRefused(reason) \/ BootUnsupported(reason)
           \/ \E hash : BootFails(hash)
           \/ Journeys \/ Observe \/ Propose
           \/ ExperimentAborts \/ ExperimentStops \/ ExperimentEnds
           \/ ExperimentIncompatible \/ DecideReturns \/ Continue \/ Report
    PROVE  Ahead' < Ahead
<1> USE DEF Return, Stop, At
<1>1. pc \notin {"down", "ended"} /\ visits' = visits + 1
  <2>1. CASE Intake \/ CompatibilityRefused \/ BaselineReturns \/ BootGivesUp \/ BootPasses
    BY <2>1 DEF Intake, CompatibilityRefused, BaselineReturns, BootGivesUp, BootPasses
  <2>2. CASE \E reason : BootRefused(reason) \/ BootUnsupported(reason)
    BY <2>2 DEF BootRefused, BootUnsupported
  <2>3. CASE \E hash : BootFails(hash)
    BY <2>3 DEF BootFails
  <2>4. CASE Journeys \/ Observe \/ Propose
    BY <2>4 DEF Journeys, Observe, Propose
  <2>5. CASE ExperimentAborts \/ ExperimentStops \/ ExperimentEnds \/ ExperimentIncompatible
    BY <2>5 DEF ExperimentAborts, ExperimentStops, ExperimentEnds, ExperimentIncompatible,
                Recorded
  <2>6. CASE DecideReturns \/ Continue \/ Report
    BY <2>6 DEF DecideReturns, Continue, Report
  <2>7. QED
    BY <2>1, <2>2, <2>3, <2>4, <2>5, <2>6
<1>2. QED
  BY ONLY <1>1, CountInv, ReturnsNearer

\* An invocation of a run ends: every step of it leads nearer to its end, through
\* all nodes and repeated boots and experiments, and a run is resumed at most
\* MaxResumes times.
THEOREM RunGetsOn ==
    Spec => /\ [](Ahead \in Nat /\ resumes \in 0..MaxResumes)
            /\ [][GetsOn]_vars
<1>1. CountInv => Ahead \in Nat /\ resumes \in 0..MaxResumes
  BY InNodeBounds DEF CountInv
<1>2. CountInv /\ [Next]_vars => [GetsOn]_vars
  <2> SUFFICES ASSUME CountInv, Next PROVE GetsOn
    OBVIOUS
  <2>1. CASE Resume
    BY <2>1 DEF Resume, GetsOn, graphVars
  <2>2. CASE ~Resume
    <3>1. resumes' = resumes
      BY <2>2, StepResumes DEF CountInv
    <3>2. CASE ClaimFails \/ DecideFails \/ Interrupt \/ \E plan \in Plans : PlanChanged(plan)
      <4>1. pc \notin {"down", "ended"} /\ Raise
        BY <3>2 DEF ClaimFails, Claiming, DecideFails, Interrupt, PlanChanged, At
      <4>2. QED
        BY <3>1, <4>1, RaisesNearer DEF GetsOn
    <3>3. CASE \/ PlanCompatibility \/ Claim \/ Mark \/ BootStarts \/ ExperimentStarts
               \/ \E plan \in Plans : PlanJourneys(plan)
      BY <3>1, <3>3, WaitingNearer DEF GetsOn
    <3>4. CASE Accept \/ Accepted \/ Harden \/ Hardened
      BY <3>1, <3>4, AcceptNearer, HardenNearer DEF GetsOn
    <3>5. CASE \/ Intake \/ CompatibilityRefused \/ BaselineReturns
               \/ BootGivesUp \/ BootPasses
               \/ \E reason : BootRefused(reason) \/ BootUnsupported(reason)
               \/ \E hash : BootFails(hash)
               \/ Journeys \/ Observe \/ Propose
               \/ ExperimentAborts \/ ExperimentStops \/ ExperimentEnds
               \/ ExperimentIncompatible \/ DecideReturns \/ Continue \/ Report
      BY <3>1, <3>5, NodesReturn DEF GetsOn
    <3>6. QED
      BY <2>2, <3>2, <3>3, <3>4, <3>5 DEF Next, Advance
  <2>3. QED
    BY <2>1, <2>2
<1>3. QED
  BY <1>1, <1>2, CountHolds, PTL DEF Spec
=============================================================================
