------------------------- MODULE LocalConsoleProofs -------------------------
(***************************************************************************)
(* TLAPS proofs about LocalConsole, for any jobs, any bound on the history *)
(* and any number of starts of the console.                                *)
(***************************************************************************)
EXTENDS LocalConsole, SequenceTheorems, TLAPS

\* What the console knows of a job at each await of _run.
JobAt(j) ==
    /\ active = j <=> task[j] \in Own
    /\ task[j] \in Own => state[j] = "running" /\ j \in Range(history)
    /\ task[j] \in {"none", "spawning"} => child[j] = "none" /\ sent[j] = 0
    /\ task[j] = "none" => state[j] = "none" /\ ~requested[j] /\ control[j] = "none"
    /\ task[j] = "draining" => child[j] = "exited"
    /\ task[j] = "done" => child[j] \notin Alive
    /\ control[j] = "stopped" \/ state[j] \notin {"none", "running"} => task[j] = "done"
    /\ state[j] = "none" => task[j] = "none"

\* When a job was asked to stop, and what its command was sent.
Signalled(j) ==
    /\ sent[j] <= 1
    /\ sent[j] = 1 => requested[j]
    /\ requested[j] /\ task[j] = "waiting" /\ child[j] \in Alive => sent[j] = 1
    /\ service = "serving" /\ active = j /\ requested[j] => control[j] = "stopping"

\* What an interrupt leaves of a command's claim to have completed.
Claim(j) ==
    /\ taken[j] => child[j] \notin {"none", "starting", "record", "recorded"}
    /\ child[j] = "handle" => verdict[j] # "completed"
    /\ taken[j] /\ child[j] = "ending" => verdict[j] # "completed"
    /\ code[j] = "zero" => ~taken[j] /\ child[j] = "exited"
    /\ state[j] = "completed" =>
            code[j] = "zero" /\ evidence[j] = "completed" /\ report[j]

\* Who occupies the console.
Occupied ==
    /\ checking => active = NoJob
    /\ service \in {"down", "starting"} => active = NoJob

Consistent == Occupied /\ \A j \in Jobs : JobAt(j) /\ Signalled(j) /\ Claim(j)

IInv == TypeOK /\ Consistent

-----------------------------------------------------------------------------
(* Types                                                                   *)

\* Trimming keeps the newest job and the bound.
LEMMA KeptHistory ==
    ASSUME NEW h \in Seq(Jobs), NEW j \in Jobs
    PROVE  /\ Kept(Append(h, j)) \in Seq(Jobs)
           /\ Len(Kept(Append(h, j))) <= MaxHistory
           /\ j \in Range(Kept(Append(h, j)))
<1> DEFINE s == Append(h, j)
           n == Len(h) + 1
<1>1. s \in Seq(Jobs) /\ Len(s) = n /\ s[n] = j /\ Len(h) \in Nat
  BY AppendProperties, LenProperties
<1>2. MaxHistory \in Nat \ {0}
  BY ConsoleAssumption
<1>3. CASE n <= MaxHistory
  <2>1. Kept(s) = s
    BY <1>1, <1>3 DEF Kept
  <2>2. n \in DOMAIN s
    BY <1>1, LenProperties
  <2>3. j \in Range(s)
    BY <1>1, <2>2 DEF Range
  <2>4. QED
    BY <1>1, <1>3, <2>1, <2>3
<1>4. CASE ~(n <= MaxHistory)
  <2> DEFINE t == SubSeq(s, n - MaxHistory + 1, n)
  <2>1. Kept(s) = t
    BY <1>1, <1>4 DEF Kept
  <2>2. /\ t \in Seq(Jobs) /\ Len(t) = MaxHistory
        /\ t[MaxHistory] = s[n]
    BY <1>1, <1>2, <1>4, SubSeqProperties
  <2>3. MaxHistory \in DOMAIN t
    BY <1>2, <2>2, LenProperties
  <2>4. j \in Range(t)
    BY <1>1, <2>2, <2>3 DEF Range
  <2>5. Len(t) <= MaxHistory
    BY <1>2, <2>2
  <2> HIDE DEF s, t
  <2>6. Kept(s) \in Seq(Jobs) /\ Len(Kept(s)) <= MaxHistory /\ j \in Range(Kept(s))
    BY <2>1, <2>2, <2>4, <2>5
  <2>7. QED
    BY <2>6 DEF s
<1>5. QED
  BY <1>3, <1>4

\* A console that was never started is well typed.
LEMMA InitType == Init => TypeOK
<1> SUFFICES ASSUME Init PROVE TypeOK
  OBVIOUS
<1>1. history \in Seq(Jobs) /\ Len(history) <= MaxHistory
  BY ConsoleAssumption, EmptySeq DEF Init
<1>2. serves \in 0..MaxServes /\ active \in Jobs \cup {NoJob}
  BY ConsoleAssumption DEF Init
<1>3. /\ sent \in [Jobs -> Nat]
      /\ requested \in [Jobs -> BOOLEAN] /\ taken \in [Jobs -> BOOLEAN]
      /\ printed \in [Jobs -> BOOLEAN] /\ report \in [Jobs -> BOOLEAN]
  BY DEF Init, Each
<1>4. /\ state \in [Jobs -> {"none", "running", "completed", "failed", "unknown"}]
      /\ control \in [Jobs -> {"none", "stopping", "stopped"}]
      /\ task \in [Jobs -> Own \cup {"none", "done", "lost"}]
      /\ child \in [Jobs -> Alive \cup {"none", "exited"}]
  BY DEF Init, Each
<1>5. /\ verdict \in [Jobs -> Verdicts] /\ evidence \in [Jobs -> Verdicts \cup {"none"}]
      /\ code \in [Jobs -> {"none", "zero", "nonzero"}]
  BY DEF Init, Each, Verdicts
<1>6. QED
  BY <1>1, <1>2, <1>3, <1>4, <1>5 DEF Init, TypeOK

\* What the inspect command does and what is done to it.
CommandStep(j) == InspectStep(j) \/ Interrupted(j) \/ Killed(j)

ChildTyped ==
    /\ child \in [Jobs -> Alive \cup {"none", "exited"}]
    /\ verdict \in [Jobs -> Verdicts]
    /\ evidence \in [Jobs -> Verdicts \cup {"none"}]
    /\ code \in [Jobs -> {"none", "zero", "nonzero"}]
    /\ taken \in [Jobs -> BOOLEAN] /\ printed \in [Jobs -> BOOLEAN]
    /\ report \in [Jobs -> BOOLEAN]

\* The command touches its own variables only, and keeps their types.
LEMMA CommandTypes ==
    ASSUME TypeOK, NEW j \in Jobs, CommandStep(j)
    PROVE  ChildTyped' /\ UNCHANGED <<consoleVars, jobVars, sent>>
<1>1. ChildTyped
  BY DEF TypeOK, ChildTyped
<1>2. /\ {"trial", "record", "recorded", "handle", "starting", "ending"} \subseteq Alive
      /\ {"completed", "failed", "interrupted"} \subseteq Verdicts
  BY DEF Alive, InTry, Verdicts
<1>3. \/ child' = child
      \/ \E c \in Alive \cup {"exited"} : child' = [child EXCEPT ![j] = c]
  BY <1>2 DEF CommandStep, InspectStep, Begins, TrialEnds, TrialRaises, Writes, WriteFails,
              Returns, Exits, Interrupted, Killed, Exit, Handle
<1>4. \/ code' = code
      \/ \E c \in {"zero", "nonzero"} : code' = [code EXCEPT ![j] = c]
  BY DEF CommandStep, InspectStep, Begins, TrialEnds, TrialRaises, Writes, WriteFails,
         Returns, Exits, Interrupted, Killed, Exit, Handle
<1>5. verdict' = verdict \/ \E v \in Verdicts : verdict' = [verdict EXCEPT ![j] = v]
  BY <1>2 DEF CommandStep, InspectStep, Begins, TrialEnds, TrialRaises, Writes, WriteFails,
              Returns, Exits, Interrupted, Killed, Handle
<1>6. \/ evidence' = evidence
      \/ \E e \in Verdicts \cup {"none"} : evidence' = [evidence EXCEPT ![j] = e]
  <2>1. verdict[j] \in Verdicts
    BY <1>1 DEF ChildTyped
  <2>2. QED
    BY <2>1 DEF CommandStep, InspectStep, Begins, TrialEnds, TrialRaises, Writes, WriteFails,
                Returns, Exits, Interrupted, Killed, CutShort
<1>7. /\ taken' = taken \/ taken' = [taken EXCEPT ![j] = TRUE]
      /\ printed' = printed \/ printed' = [printed EXCEPT ![j] = TRUE]
      /\ report' = report \/ report' = [report EXCEPT ![j] = TRUE]
  BY DEF CommandStep, InspectStep, Begins, TrialEnds, TrialRaises, Writes, WriteFails,
         Returns, Exits, Interrupted, Killed
<1>8. UNCHANGED <<consoleVars, jobVars, sent>>
  BY DEF CommandStep, InspectStep, Begins, TrialEnds, TrialRaises, Writes, WriteFails,
         Returns, Exits, Interrupted, Killed, Apart
<1>9. child' \in [Jobs -> Alive \cup {"none", "exited"}]
  BY <1>1, <1>3 DEF ChildTyped
<1>10. verdict' \in [Jobs -> Verdicts] /\ evidence' \in [Jobs -> Verdicts \cup {"none"}]
  BY <1>1, <1>5, <1>6 DEF ChildTyped
<1>11. code' \in [Jobs -> {"none", "zero", "nonzero"}]
  BY <1>1, <1>4 DEF ChildTyped
<1>12. /\ taken' \in [Jobs -> BOOLEAN] /\ printed' \in [Jobs -> BOOLEAN]
       /\ report' \in [Jobs -> BOOLEAN]
  BY <1>1, <1>7 DEF ChildTyped
<1>13. QED
  BY <1>8, <1>9, <1>10, <1>11, <1>12 DEF ChildTyped

\* Every step keeps the types.
LEMMA StepType == TypeOK /\ [Next]_vars => TypeOK'
<1> SUFFICES ASSUME TypeOK, [Next]_vars PROVE TypeOK'
  OBVIOUS
<1> USE ConsoleAssumption DEF TypeOK, consoleVars, jobVars, childVars, Apart
<1>1. CASE Serve \/ Started \/ DoctorAdmitted \/ DoctorEnds
  <2>1. CASE Serve
    BY <2>1 DEF Serve
  <2>2. CASE Started
    BY <2>2 DEF Started
  <2>3. CASE DoctorAdmitted
    BY <2>3 DEF DoctorAdmitted
  <2>4. CASE DoctorEnds
    BY <2>4 DEF DoctorEnds
  <2>5. QED
    BY ONLY <1>1, <2>1, <2>2, <2>3, <2>4
<1>2. ASSUME Forget PROVE history' \in Seq(Jobs) /\ Len(history') <= MaxHistory
  BY <1>2, EmptySeq DEF Forget
<1>3. CASE Kill
  <2>1. Forget
    BY <1>3 DEF Kill
  <2>2. task' \in [Jobs -> Own \cup {"none", "done", "lost"}]
    BY <1>3 DEF Kill
  <2>3. child' \in [Jobs -> Alive \cup {"none", "exited"}]
    BY <1>3 DEF Kill, Alive
  <2>4. QED
    BY <1>2, <1>3, <2>1, <2>2, <2>3 DEF Kill, Forget
<1>4. CASE Shutdown \/ ShutdownEnds
  <2>1. CASE Shutdown
    <3>1. sent' \in [Jobs -> Nat] /\ requested' \in [Jobs -> BOOLEAN]
      <4>1. CASE active = NoJob
        BY <2>1, <4>1 DEF Shutdown
      <4>2. CASE active # NoJob
        <5>1. active \in Jobs /\ requested' = [requested EXCEPT ![active] = TRUE]
          BY <2>1, <4>2 DEF Shutdown
        <5>2. sent' = sent \/ sent' = [sent EXCEPT ![active] = @ + 1]
          BY <2>1, <4>2 DEF Shutdown, Signal
        <5>3. QED
          BY <5>1, <5>2
      <4>3. QED
        BY <4>1, <4>2
    <3>2. QED
      BY <2>1, <3>1 DEF Shutdown
  <2>2. CASE ShutdownEnds
    BY <1>2, <2>2 DEF ShutdownEnds, Forget
  <2>3. QED
    BY ONLY <1>4, <2>1, <2>2
<1>5. ASSUME NEW j \in Jobs, Submit(j) PROVE TypeOK'
  <2>1. history' \in Seq(Jobs) /\ Len(history') <= MaxHistory
    BY <1>5, KeptHistory DEF Submit
  <2>2. QED
    BY <1>5, <2>1 DEF Submit, Own
<1>6. ASSUME NEW j \in Jobs, Stop(j) PROVE TypeOK'
  BY <1>6 DEF Stop, Signal
<1>7. ASSUME NEW j \in Jobs, RunStep(j) PROVE TypeOK'
  <2>1. Projected(j) \in {"completed", "failed"}
    BY DEF Projected
  <2>2. CASE Spawns(j)
    BY <2>2 DEF Spawns, Own, Alive
  <2>3. CASE SpawnFails(j)
    BY <2>3 DEF SpawnFails, Finish
  <2>4. CASE Reaped(j)
    BY <2>4 DEF Reaped, Own
  <2>5. CASE JobEnds(j)
    BY <2>1, <2>5 DEF JobEnds, Finish
  <2>6. QED
    BY ONLY <1>7, <2>2, <2>3, <2>4, <2>5 DEF RunStep
<1>8. ASSUME NEW j \in Jobs, CommandStep(j) PROVE TypeOK'
  <2>1. ChildTyped' /\ UNCHANGED <<consoleVars, jobVars, sent>>
    BY <1>8, CommandTypes
  <2>2. QED
    BY <2>1 DEF ChildTyped
<1>9. CASE UNCHANGED vars
  BY <1>9 DEF vars
<1>10. QED
  BY ONLY <1>1, <1>3, <1>4, <1>5, <1>6, <1>7, <1>8, <1>9, [Next]_vars DEF Next, CommandStep

-----------------------------------------------------------------------------
(* The invariant                                                           *)

\* Nothing is active in a console that was never started.
LEMMA InitIInv == Init => IInv
BY InitType, ConsoleAssumption DEF Init, IInv, Consistent, Occupied, JobAt, Signalled, Claim,
   Each, Own, Alive, InTry

\* A job nothing happens to keeps its invariant while the console keeps its own job.
LEMMA JobKept ==
    ASSUME NEW q \in Jobs, JobAt(q), Signalled(q), Claim(q),
           task'[q] = task[q], state'[q] = state[q], control'[q] = control[q],
           requested'[q] = requested[q],
           child'[q] = child[q], sent'[q] = sent[q], taken'[q] = taken[q],
           verdict'[q] = verdict[q], evidence'[q] = evidence[q], report'[q] = report[q],
           code'[q] = code[q],
           active' = q <=> active = q,
           task[q] \in Own => q \in Range(history'),
           service' = "serving" => service = "serving" \/ active # q
    PROVE  JobAt(q)' /\ Signalled(q)' /\ Claim(q)'
BY DEF JobAt, Signalled, Claim

\* Steps of the console that touch no job.
LEMMA ConsoleStep ==
    ASSUME IInv, Serve \/ Started \/ DoctorAdmitted \/ DoctorEnds
    PROVE  Occupied' /\ \A q \in Jobs : JobAt(q)' /\ Signalled(q)' /\ Claim(q)'
<1>1. UNCHANGED <<jobVars, childVars, history, active>>
  BY DEF Serve, Started, DoctorAdmitted, DoctorEnds
<1>2. service' = "serving" => service = "serving" \/ active = NoJob
  BY DEF IInv, Consistent, Occupied, Serve, Started, DoctorAdmitted, DoctorEnds
<1>3. Occupied'
  BY <1>1 DEF IInv, Consistent, Occupied, Serve, Started, DoctorAdmitted, DoctorEnds, Idle
<1>4. ASSUME NEW q \in Jobs PROVE JobAt(q)' /\ Signalled(q)' /\ Claim(q)'
  <2>1. q # NoJob
    BY ConsoleAssumption
  <2>2. JobAt(q) /\ Signalled(q) /\ Claim(q)
    BY DEF IInv, Consistent
  <2>3. QED
    BY <1>1, <1>2, <2>1, <2>2, JobKept DEF JobAt, jobVars, childVars
<1>5. QED
  BY <1>3, <1>4

\* A console that is gone owns no job.
LEMMA GoneStep ==
    ASSUME IInv, Kill \/ ShutdownEnds
    PROVE  Occupied' /\ \A q \in Jobs : JobAt(q)' /\ Signalled(q)' /\ Claim(q)'
<1>1. Forget
  BY DEF Kill, ShutdownEnds
<1>2. Occupied'
  BY <1>1 DEF Forget, Occupied
<1>3. ASSUME NEW q \in Jobs PROVE JobAt(q)' /\ Signalled(q)' /\ Claim(q)'
  <2>1. q # NoJob /\ JobAt(q) /\ Signalled(q) /\ Claim(q) /\ TypeOK
    BY ConsoleAssumption DEF IInv, Consistent
  <2>2. CASE Kill
    <3>1. /\ task'[q] = IF task[q] \in Own THEN "lost" ELSE task[q]
          /\ child'[q] = child[q] \/ (task[q] = "spawning" /\ child'[q] = "starting")
          /\ UNCHANGED <<state, control, requested, sent, taken, verdict, evidence, report, code>>
      <4>1. task'[q] = IF task[q] \in Own THEN "lost" ELSE task[q]
        BY <2>2 DEF Kill
      <4>2. child'[q] = child[q] \/ (task[q] = "spawning" /\ child'[q] = "starting")
        <5>1. CASE child' = child
          BY <5>1
        <5>2. CASE child' = [k \in Jobs |-> IF task[k] = "spawning" THEN "starting"
                                            ELSE child[k]]
          BY <5>2
        <5>3. QED
          BY <2>2, <5>1, <5>2 DEF Kill
      <4>3. QED
        BY <2>2, <4>1, <4>2 DEF Kill
    <3>2. active' = NoJob /\ service' = "down"
      BY <1>1 DEF Forget
    <3>3. JobAt(q)'
      BY <2>1, <3>1, <3>2 DEF JobAt, Own
    <3>4. Signalled(q)'
      BY <2>1, <3>1, <3>2 DEF JobAt, Signalled, Own
    <3>5. Claim(q)'
      BY <2>1, <3>1 DEF JobAt, Claim, Own
    <3>6. QED
      BY <3>3, <3>4, <3>5
  <2>3. CASE ShutdownEnds
    <3>1. UNCHANGED <<jobVars, childVars>> /\ (active = q => task[q] = "done")
      BY <2>3 DEF ShutdownEnds
    <3>2. active # q
      BY <2>1, <3>1 DEF JobAt, Own
    <3>3. active' = NoJob /\ service' = "down"
      BY <1>1 DEF Forget
    <3>4. task[q] \notin Own
      BY <2>1, <3>2 DEF JobAt
    <3>5. QED
      BY <2>1, <3>1, <3>2, <3>3, <3>4, JobKept DEF jobVars, childVars
  <2>4. QED
    BY <2>2, <2>3
<1>4. QED
  BY <1>2, <1>3

\* A job that is submitted is the only one, and is in the history.
LEMMA SubmitStep ==
    ASSUME IInv, NEW j \in Jobs, Submit(j)
    PROVE  Occupied' /\ \A q \in Jobs : JobAt(q)' /\ Signalled(q)' /\ Claim(q)'
<1>1. /\ active = NoJob /\ ~checking /\ service = "serving" /\ service' = service
      /\ active' = j /\ checking' = checking /\ state[j] = "none"
      /\ UNCHANGED <<control, requested, childVars>>
  BY DEF Submit, Idle
<1>2. j \in Range(history')
  BY KeptHistory DEF Submit, IInv, TypeOK
<1>3. Occupied'
  BY <1>1 DEF Occupied
<1>4. ASSUME NEW q \in Jobs PROVE JobAt(q)' /\ Signalled(q)' /\ Claim(q)'
  <2>1. q # NoJob /\ JobAt(q) /\ Signalled(q) /\ Claim(q)
    BY ConsoleAssumption DEF IInv, Consistent
  <2>2. CASE q = j
    <3>1. state'[q] = "running" /\ task'[q] = "spawning"
      BY <2>2 DEF Submit, IInv, TypeOK
    <3>2. task[q] = "none"
      BY <1>1, <2>1, <2>2, <3>1 DEF JobAt
    <3>3. JobAt(q)'
      BY <1>1, <1>2, <2>1, <2>2, <3>1, <3>2 DEF JobAt, Own, childVars
    <3>4. Signalled(q)' /\ Claim(q)'
      BY <1>1, <2>1, <3>1, <3>2 DEF JobAt, Signalled, Claim, childVars
    <3>5. QED
      BY <3>3, <3>4
  <2>3. CASE q # j
    <3>1. state'[q] = state[q] /\ task'[q] = task[q]
      BY <2>3 DEF Submit, IInv, TypeOK
    <3>2. task[q] \notin Own
      BY <1>1, <2>1 DEF JobAt
    <3>3. QED
      BY <1>1, <2>1, <2>3, <3>1, <3>2, JobKept DEF childVars
  <2>4. QED
    BY <2>2, <2>3
<1>5. QED
  BY <1>3, <1>4

\* A request to stop, by stop or by shutdown, sends the one signal or leaves it
\* to the process that is being created.
LEMMA RequestStep ==
    ASSUME IInv, NEW j \in Jobs, active = j,
           requested' = [requested EXCEPT ![j] = TRUE],
           IF requested[j] THEN UNCHANGED sent ELSE Signal(j),
           control' \in {control, [control EXCEPT ![j] = "stopping"]},
           service' = "serving" => control'[j] = "stopping" /\ service = "serving",
           service' \in {"serving", "stopping"},
           UNCHANGED <<checking, history, active, state, task, child, taken, verdict,
                       evidence, report, code>>
    PROVE  Occupied' /\ \A q \in Jobs : JobAt(q)' /\ Signalled(q)' /\ Claim(q)'
<1>1. j # NoJob
  BY ConsoleAssumption
<1>2. ASSUME NEW q \in Jobs PROVE JobAt(q)' /\ Signalled(q)' /\ Claim(q)'
  <2>1. JobAt(q) /\ Signalled(q) /\ Claim(q) /\ TypeOK
    BY DEF IInv, Consistent
  <2>2. sent[q] \in Nat
    BY <2>1 DEF TypeOK
  <2>3. CASE q = j
    <3>1. requested'[q] = TRUE /\ control'[q] \in {control[q], "stopping"}
      BY <2>1, <2>3 DEF TypeOK
    <3>2. sent'[q] = IF ~requested[q] /\ task[q] = "waiting" /\ child[q] \in Alive
                     THEN sent[q] + 1 ELSE sent[q]
      BY <2>1, <2>3 DEF Signal, TypeOK
    <3>3. task[q] \in Own
      BY <2>1, <2>3 DEF JobAt
    <3>4. JobAt(q)'
      BY <2>1, <2>3, <3>1, <3>2, <3>3 DEF JobAt, Own
    <3>5. Signalled(q)'
      BY <2>1, <2>2, <2>3, <3>1, <3>2 DEF Signalled
    <3>6. Claim(q)'
      BY <2>1 DEF Claim
    <3>7. QED
      BY <3>4, <3>5, <3>6
  <2>4. CASE q # j
    <3>1. requested'[q] = requested[q] /\ control'[q] = control[q]
      BY <2>1, <2>4 DEF TypeOK
    <3>2. sent'[q] = sent[q]
      BY <2>1, <2>4 DEF Signal, TypeOK
    <3>3. task[q] \notin Own /\ active # q
      BY <2>1, <2>4 DEF JobAt
    <3>4. QED
      BY <2>1, <3>1, <3>2, <3>3, JobKept
  <2>5. QED
    BY <2>3, <2>4
<1>3. Occupied'
  BY <1>1 DEF IInv, Consistent, Occupied
<1>4. QED
  BY <1>2, <1>3

\* Steps of _run.
LEMMA RunStepKeeps ==
    ASSUME IInv, NEW j \in Jobs, RunStep(j)
    PROVE  Occupied' /\ \A q \in Jobs : JobAt(q)' /\ Signalled(q)' /\ Claim(q)'
<1>1. /\ task[j] \in Own /\ active = j /\ JobAt(j) /\ Signalled(j) /\ Claim(j) /\ TypeOK
      /\ j # NoJob
  BY ConsoleAssumption
     DEF IInv, Consistent, JobAt, RunStep, Spawns, SpawnFails, Reaped, JobEnds, Own
<1>2. /\ service' = service /\ checking' = checking /\ history' = history
      /\ requested' = requested
      /\ UNCHANGED <<taken, verdict, evidence, report, code>>
  BY DEF RunStep, Spawns, SpawnFails, Reaped, JobEnds, Finish, consoleVars, childVars
<1>3. active' \in {j, NoJob}
  BY <1>1 DEF RunStep, Spawns, SpawnFails, Reaped, JobEnds, Finish, consoleVars
<1>4. Occupied'
  BY <1>1, <1>2, <1>3 DEF IInv, Consistent, Occupied
<1>5. ASSUME NEW q \in Jobs \ {j} PROVE JobAt(q)' /\ Signalled(q)' /\ Claim(q)'
  <2>1. JobAt(q) /\ Signalled(q) /\ Claim(q) /\ active # q /\ active' # q
    BY <1>1, <1>3, ConsoleAssumption DEF IInv, Consistent
  <2>2. task'[q] = task[q] /\ state'[q] = state[q] /\ control'[q] = control[q]
    BY <1>1 DEF TypeOK, RunStep, Spawns, SpawnFails, Reaped, JobEnds, Finish
  <2>3. child'[q] = child[q] /\ sent'[q] = sent[q]
    BY <1>1 DEF TypeOK, RunStep, Spawns, SpawnFails, Reaped, JobEnds, Finish, childVars
  <2>4. task[q] \notin Own
    BY <2>1 DEF JobAt
  <2>5. QED
    BY <1>2, <2>1, <2>2, <2>3, <2>4, JobKept
<1>6. JobAt(j)' /\ Signalled(j)' /\ Claim(j)'
  <2>1. CASE Spawns(j)
    <3>1. /\ task[j] = "spawning" /\ task'[j] = "waiting" /\ child'[j] = "starting"
          /\ sent'[j] = IF requested[j] THEN sent[j] + 1 ELSE sent[j]
          /\ active' = active /\ state' = state /\ control' = control
      BY <1>1, <2>1 DEF Spawns, TypeOK, consoleVars
    <3>2. child[j] = "none" /\ sent[j] = 0
      BY <1>1, <3>1 DEF JobAt
    <3>3. JobAt(j)'
      BY <1>1, <1>2, <3>1 DEF JobAt, Own
    <3>4. Signalled(j)' /\ Claim(j)'
      BY <1>1, <1>2, <3>1, <3>2 DEF Signalled, Claim
    <3>5. QED
      BY <3>3, <3>4
  <2>2. CASE Reaped(j)
    <3>1. /\ task'[j] = "draining" /\ child[j] = "exited"
          /\ active' = active /\ state' = state /\ control' = control
          /\ child' = child /\ sent' = sent
      BY <1>1, <2>2 DEF Reaped, TypeOK, consoleVars, childVars
    <3>2. QED
      BY <1>1, <1>2, <3>1 DEF JobAt, Signalled, Claim, Own, Alive, InTry
  <2>3. ASSUME NEW outcome \in {"completed", "failed", "unknown"}, Finish(j, outcome),
               child[j] \notin Alive,
               outcome = "completed" => /\ code[j] = "zero"
                                        /\ evidence[j] = "completed" /\ report[j]
        PROVE  JobAt(j)' /\ Signalled(j)' /\ Claim(j)'
    <3>1. /\ task'[j] = "done" /\ state'[j] = outcome
          /\ control'[j] = IF requested[j] THEN "stopped" ELSE control[j]
          /\ active' = NoJob /\ child' = child /\ sent' = sent
      BY <1>1, <2>3 DEF Finish, TypeOK, childVars
    <3>2. JobAt(j)'
      BY <1>1, <2>3, <3>1 DEF JobAt, Own
    <3>3. Signalled(j)'
      BY <1>1, <1>2, <3>1 DEF Signalled
    <3>4. Claim(j)'
      BY <1>1, <1>2, <2>3, <3>1 DEF Claim
    <3>5. QED
      BY <3>2, <3>3, <3>4
  <2>4. CASE SpawnFails(j)
    <3>1. child[j] \notin Alive
      BY <1>1, <2>4 DEF SpawnFails, JobAt, Alive, InTry
    <3>2. QED
      BY <2>3, <2>4, <3>1 DEF SpawnFails
  <2>5. CASE JobEnds(j)
    <3>1. child[j] \notin Alive
      BY <1>1, <2>5 DEF JobEnds, JobAt, Alive, InTry
    <3>2. QED
      BY <2>3, <2>5, <3>1 DEF JobEnds, Projected
  <2>6. QED
    BY <2>1, <2>2, <2>4, <2>5 DEF RunStep
<1>7. QED
  BY <1>4, <1>5, <1>6

\* Steps of the inspect command: after an interrupt it never claims completion.
LEMMA CommandStepKeeps ==
    ASSUME IInv, NEW j \in Jobs, CommandStep(j)
    PROVE  Occupied' /\ \A q \in Jobs : JobAt(q)' /\ Signalled(q)' /\ Claim(q)'
<1>1. TypeOK /\ ChildTyped /\ JobAt(j) /\ Signalled(j) /\ Claim(j)
  BY DEF IInv, Consistent, TypeOK, ChildTyped
<1>2. UNCHANGED <<consoleVars, jobVars, sent>>
  BY <1>1, CommandTypes
<1>3. child[j] \in Alive
  BY DEF CommandStep, InspectStep, Begins, TrialEnds, TrialRaises, Writes, WriteFails,
         Returns, Exits, Interrupted, Killed, Writing, Alive, InTry
<1>4. task[j] \in {"waiting", "lost"} /\ state[j] # "completed"
  BY <1>1, <1>3 DEF JobAt, Alive, InTry, TypeOK, Own
<1>5. Occupied'
  BY <1>2 DEF IInv, Consistent, Occupied, consoleVars
<1>6. ASSUME NEW q \in Jobs \ {j} PROVE JobAt(q)' /\ Signalled(q)' /\ Claim(q)'
  <2>1. JobAt(q) /\ Signalled(q) /\ Claim(q)
    BY DEF IInv, Consistent
  <2>2. /\ child'[q] = child[q] /\ taken'[q] = taken[q] /\ verdict'[q] = verdict[q]
        /\ evidence'[q] = evidence[q] /\ report'[q] = report[q] /\ code'[q] = code[q]
    BY <1>1 DEF ChildTyped, CommandStep, InspectStep, Begins, TrialEnds, TrialRaises, Writes,
                WriteFails, Returns, Exits, Interrupted, Killed, Exit, Handle, CutShort
  <2>3. QED
    BY <1>2, <2>1, <2>2, JobKept DEF consoleVars, jobVars, JobAt
<1>7. child'[j] \in (Alive \cup {"exited"}) /\ (child'[j] \in Alive => child[j] \in Alive)
  BY <1>1, <1>3, CommandTypes
     DEF ChildTyped, CommandStep, InspectStep, Begins, TrialEnds, TrialRaises, Writes,
         WriteFails, Returns, Exits, Interrupted, Killed, Exit, Handle, Alive, InTry
<1>8. JobAt(j)' /\ Signalled(j)'
  BY <1>1, <1>2, <1>3, <1>4, <1>7 DEF JobAt, Signalled, consoleVars, jobVars, Own
<1>9. Claim(j)'
  <2> USE <1>1, <1>2, <1>3, <1>4 DEF ChildTyped, Claim, jobVars
  <2>1. CASE Begins(j)
    BY <2>1 DEF Begins, Exit
  <2>2. CASE TrialEnds(j)
    BY <2>2 DEF TrialEnds
  <2>3. CASE TrialRaises(j)
    BY <2>3 DEF TrialRaises, Handle
  <2>4. CASE Writes(j)
    BY <2>4 DEF Writes, Writing
  <2>5. CASE WriteFails(j)
    BY <2>5 DEF WriteFails, Exit, Handle, Writing
  <2>6. CASE Returns(j)
    BY <2>6 DEF Returns
  <2>7. CASE Exits(j)
    BY <2>7 DEF Exits, Exit
  <2>8. CASE Interrupted(j)
    BY <2>8 DEF Interrupted, Exit, Handle, InTry
  <2>9. CASE Killed(j)
    BY <2>9 DEF Killed, Exit
  <2>10. QED
    BY ONLY <2>1, <2>2, <2>3, <2>4, <2>5, <2>6, <2>7, <2>8, <2>9, CommandStep(j)
       DEF CommandStep, InspectStep
<1>10. QED
  BY <1>5, <1>6, <1>8, <1>9

\* Every step keeps what the console knows consistent.
LEMMA StepConsistent == IInv /\ [Next]_vars => Consistent'
<1> SUFFICES ASSUME IInv, [Next]_vars
             PROVE  Occupied' /\ \A q \in Jobs : JobAt(q)' /\ Signalled(q)' /\ Claim(q)'
  BY DEF Consistent
<1>1. CASE Serve \/ Started \/ DoctorAdmitted \/ DoctorEnds
  BY <1>1, ConsoleStep
<1>2. CASE Kill \/ ShutdownEnds
  BY <1>2, GoneStep
<1>3. CASE Shutdown
  <2>1. CASE active = NoJob
    <3>1. UNCHANGED <<checking, history, active, jobVars, childVars>> /\ service' = "stopping"
      BY <1>3, <2>1, ConsoleAssumption DEF Shutdown, jobVars, childVars
    <3>2. Occupied'
      BY <3>1 DEF IInv, Consistent, Occupied
    <3>3. ASSUME NEW q \in Jobs PROVE JobAt(q)' /\ Signalled(q)' /\ Claim(q)'
      <4>1. JobAt(q) /\ Signalled(q) /\ Claim(q)
        BY DEF IInv, Consistent
      <4>2. QED
        BY <3>1, <4>1, JobKept DEF JobAt, jobVars, childVars
    <3>4. QED
      BY <3>2, <3>3
  <2>2. CASE active # NoJob
    <3>1. active \in Jobs
      BY <2>2 DEF IInv, TypeOK
    <3>2. /\ requested' = [requested EXCEPT ![active] = TRUE]
          /\ IF requested[active] THEN UNCHANGED sent ELSE Signal(active)
          /\ service' = "stopping"
          /\ UNCHANGED <<checking, history, active, state, control, task, child, taken,
                         verdict, evidence, report, code>>
      BY <1>3, <2>2 DEF Shutdown
    <3>3. QED
      BY <3>1, <3>2, RequestStep
  <2>3. QED
    BY <2>1, <2>2
<1>4. ASSUME NEW j \in Jobs, Submit(j) PROVE Consistent'
  BY <1>4, SubmitStep DEF Consistent
<1>5. ASSUME NEW j \in Jobs, Stop(j) PROVE Consistent'
  <2>1. ~requested[j]
    BY <1>5 DEF Stop, IInv, Consistent, Signalled
  <2>2. /\ active = j /\ requested' = [requested EXCEPT ![j] = TRUE] /\ Signal(j)
        /\ control' = [control EXCEPT ![j] = "stopping"] /\ control'[j] = "stopping"
        /\ service = "serving" /\ service' = service
        /\ UNCHANGED <<checking, history, active, state, task, child, taken, verdict,
                       evidence, report, code>>
    BY <1>5 DEF Stop, IInv, TypeOK, consoleVars
  <2>3. QED
    BY <2>1, <2>2, RequestStep DEF Consistent
<1>6. ASSUME NEW j \in Jobs, RunStep(j) PROVE Consistent'
  BY <1>6, RunStepKeeps DEF Consistent
<1>7. ASSUME NEW j \in Jobs, CommandStep(j) PROVE Consistent'
  BY <1>7, CommandStepKeeps DEF Consistent
<1>8. CASE UNCHANGED vars
  <2>1. UNCHANGED <<consoleVars, jobVars, childVars>>
    BY <1>8 DEF vars
  <2>2. Occupied'
    BY <2>1 DEF IInv, Consistent, Occupied, consoleVars
  <2>3. ASSUME NEW q \in Jobs PROVE JobAt(q)' /\ Signalled(q)' /\ Claim(q)'
    <3>1. JobAt(q) /\ Signalled(q) /\ Claim(q)
      BY DEF IInv, Consistent
    <3>2. QED
      BY <2>1, <3>1 DEF JobAt, Signalled, Claim, consoleVars, jobVars, childVars
  <2>4. QED
    BY <2>2, <2>3
<1>9. QED
  BY ONLY <1>1, <1>2, <1>3, <1>4, <1>5, <1>6, <1>7, <1>8, [Next]_vars
     DEF Next, CommandStep, Consistent

\* Every step keeps the invariant.
LEMMA StepIInv == IInv /\ [Next]_vars => IInv'
BY StepType, StepConsistent DEF IInv

\* The invariant holds in every reachable state.
LEMMA Invariant == Spec => []IInv
BY InitIInv, StepIInv, PTL DEF Spec

-----------------------------------------------------------------------------
(* The properties                                                          *)

\* Every variable keeps its type, and the history its bound.
THEOREM TypeCorrect == Spec => []TypeOK
<1>1. IInv => TypeOK
  BY DEF IInv
<1>2. QED
  BY <1>1, Invariant, PTL

\* A console has one trial at most, which it can find and stop, and none beside a
\* check of the doctor.
THEOREM OneTrialPerConsole == Spec => []SingleFlight
<1>1. IInv => SingleFlight
  <2> SUFFICES ASSUME IInv, NEW j \in Jobs,
                      task[j] \in Own \/ (child[j] \in Alive /\ task[j] # "lost")
               PROVE  active = j /\ ~checking /\ j \in Range(history)
    BY DEF SingleFlight
  <2>1. JobAt(j) /\ task[j] \in Own \cup {"none", "done", "lost"} /\ j # NoJob
    BY ConsoleAssumption DEF IInv, Consistent, TypeOK
  <2>2. task[j] \in Own
    BY <2>1 DEF JobAt, Own, Alive, InTry
  <2>3. QED
    BY <2>1, <2>2 DEF IInv, Consistent, Occupied, JobAt
<1>2. QED
  BY <1>1, Invariant, PTL

\* A command gets exactly the one SIGINT that a stop or a shutdown asks for.
THEOREM OneInterrupt == Spec => []InterruptedOnce
<1>1. IInv => InterruptedOnce
  BY DEF IInv, Consistent, InterruptedOnce, Signalled
<1>2. QED
  BY <1>1, Invariant, PTL

\* A stopped job and an ended one have no process.
THEOREM StoppedHasNoProcess == Spec => []StoppedIsReaped
<1>1. IInv => StoppedIsReaped
  BY DEF IInv, Consistent, StoppedIsReaped, JobAt, Own
<1>2. QED
  BY <1>1, Invariant, PTL

\* An interrupted trial is never shown as completed.
THEOREM CompletionIsEarned == Spec => []CompletedIsEarned
<1>1. IInv => CompletedIsEarned
  BY DEF IInv, Consistent, CompletedIsEarned, Claim
<1>2. QED
  BY <1>1, Invariant, PTL

\* One signal stops a job, and a job shown as stopped has no process left.
THEOREM StopsAreClean == Spec => []StopIsClean
<1>1. InterruptedOnce /\ StoppedIsReaped => StopIsClean
  BY DEF StopIsClean
<1>2. QED
  BY <1>1, OneInterrupt, StoppedHasNoProcess, PTL

-----------------------------------------------------------------------------
(* A job ends: what is ahead of it                                         *)

\* The steps before a command until it exits; an interrupt leads to its handler.
CommandAhead(point) ==
    CASE point = "starting" -> 6 [] point = "trial" -> 5 [] point = "record" -> 4
      [] point = "recorded" -> 3 [] point = "handle" -> 2 [] point = "ending" -> 1
      [] OTHER -> 0

\* The steps before _run; when it spawns, the whole command is still to come.
RunAhead(await) ==
    CASE await = "spawning" -> 9 [] await = "waiting" -> 2 [] await = "draining" -> 1
      [] OTHER -> 0

JobAhead(j) == RunAhead(task[j]) + CommandAhead(child[j])

\* While a job keeps the console busy either _run or its command has a next step.
JobKnowsNext ==
    \A j \in Jobs : active = j =>
        \/ task[j] \in {"spawning", "draining"}
        \/ task[j] = "waiting" /\ child[j] \in Alive \cup {"exited"}

\* Every step of a job or of its command brings it nearer to its end, and nothing
\* that happens to it, to other jobs or to the console takes it away again.
JobGetsOn ==
    \A j \in Jobs : /\ RunStep(j) \/ InspectStep(j) => JobAhead(j)' < JobAhead(j)
                    /\ ~Submit(j) => JobAhead(j)' <= JobAhead(j)

Spawned == \A j \in Jobs : task[j] = "waiting" => child[j] # "none"

LEMMA AheadCounts ==
    /\ \A c \in Alive \cup {"none", "exited"} : CommandAhead(c) \in 0..6
    /\ \A r \in Own \cup {"none", "done", "lost"} : RunAhead(r) \in 0..9
BY DEF CommandAhead, RunAhead, Alive, InTry, Own

\* The points a step of the command leads to; the console is left alone.
LEMMA CommandMoves ==
    ASSUME TypeOK, NEW j \in Jobs, InspectStep(j)
    PROVE  /\ task' = task
           /\ \A q \in Jobs \ {j} : child'[q] = child[q]
           /\ \/ child[j] = "starting" /\ child'[j] \in {"trial", "record", "exited"}
              \/ child[j] = "trial" /\ child'[j] \in {"record", "handle"}
              \/ child[j] = "record" /\ child'[j] \in {"recorded", "handle", "exited"}
              \/ child[j] = "handle" /\ child'[j] \in {"ending", "exited"}
              \/ child[j] = "recorded" /\ child'[j] = "ending"
              \/ child[j] = "ending" /\ child'[j] = "exited"
<1> USE DEF TypeOK, Apart, jobVars, Exit, Handle, Writing
<1>1. CASE Begins(j)
  BY <1>1 DEF Begins
<1>2. CASE TrialEnds(j)
  BY <1>2 DEF TrialEnds
<1>3. CASE TrialRaises(j)
  BY <1>3 DEF TrialRaises
<1>4. CASE Writes(j)
  BY <1>4 DEF Writes
<1>5. CASE WriteFails(j)
  BY <1>5 DEF WriteFails
<1>6. CASE Returns(j)
  BY <1>6 DEF Returns
<1>7. CASE Exits(j)
  BY <1>7 DEF Exits
<1>8. QED
  BY <1>1, <1>2, <1>3, <1>4, <1>5, <1>6, <1>7 DEF InspectStep

\* The awaits a step of _run leads to; the command starts when it is spawned.
LEMMA RunMoves ==
    ASSUME IInv, NEW j \in Jobs, RunStep(j)
    PROVE  /\ \A q \in Jobs \ {j} : task'[q] = task[q] /\ child'[q] = child[q]
           /\ \/ /\ task[j] = "spawning" /\ task'[j] = "waiting"
                 /\ child[j] = "none" /\ child'[j] = "starting"
              \/ /\ task[j] \in {"spawning", "draining"} /\ task'[j] = "done"
                 /\ child'[j] = child[j]
              \/ /\ task[j] = "waiting" /\ task'[j] = "draining"
                 /\ child'[j] = child[j]
<1> USE DEF IInv, TypeOK, Consistent, JobAt, childVars
<1>1. CASE Spawns(j)
  BY <1>1 DEF Spawns
<1>2. CASE SpawnFails(j)
  BY <1>2 DEF SpawnFails, Finish
<1>3. CASE Reaped(j)
  BY <1>3 DEF Reaped
<1>4. CASE JobEnds(j)
  BY <1>4 DEF JobEnds, Finish
<1>5. QED
  BY <1>1, <1>2, <1>3, <1>4 DEF RunStep

\* What may happen to a job that takes no step: its command is interrupted or
\* killed, or its console is gone.
LEMMA OtherMoves ==
    ASSUME IInv, [Next]_vars, NEW j \in Jobs,
           ~Submit(j), ~RunStep(j), ~InspectStep(j)
    PROVE  \/ task'[j] = task[j] /\ child'[j] = child[j]
           \/ /\ task'[j] = task[j]
              /\ \/ child[j] \in {"record", "recorded"} /\ child'[j] = "handle"
                 \/ child[j] \in Alive /\ child'[j] = "exited"
           \/ /\ task[j] \in Own /\ task'[j] = "lost"
              /\ child'[j] = child[j] \/ (task[j] = "spawning" /\ child'[j] = "starting")
<1> USE DEF IInv, TypeOK, Apart, jobVars, childVars, consoleVars
<1>1. CASE Serve \/ Started \/ DoctorAdmitted \/ DoctorEnds \/ Shutdown \/ ShutdownEnds
  BY <1>1 DEF Serve, Started, DoctorAdmitted, DoctorEnds, Shutdown, ShutdownEnds
<1>2. CASE Kill
  <2>1. task'[j] = IF task[j] \in Own THEN "lost" ELSE task[j]
    BY <1>2 DEF Kill
  <2>2. child'[j] = child[j] \/ (task[j] = "spawning" /\ child'[j] = "starting")
    <3>1. CASE child' = child
      BY <3>1
    <3>2. CASE child' = [k \in Jobs |-> IF task[k] = "spawning" THEN "starting" ELSE child[k]]
      BY <3>2
    <3>3. QED
      BY <1>2, <3>1, <3>2 DEF Kill
  <2>3. QED
    BY <2>1, <2>2 DEF Own
<1>3. ASSUME NEW i \in Jobs, Submit(i) \/ Stop(i)
      PROVE  task'[j] = task[j] /\ child'[j] = child[j]
  BY <1>3 DEF Submit, Stop
<1>4. ASSUME NEW i \in Jobs, RunStep(i) \/ InspectStep(i)
      PROVE  task'[j] = task[j] /\ child'[j] = child[j]
  BY <1>4, RunMoves, CommandMoves
<1>5. ASSUME NEW i \in Jobs, Interrupted(i) \/ Killed(i)
      PROVE  /\ task' = task
             /\ \/ child'[j] = child[j]
                \/ child[j] \in {"record", "recorded"} /\ child'[j] = "handle"
                \/ child[j] \in Alive /\ child'[j] = "exited"
  BY <1>5 DEF Interrupted, Killed, Handle, Exit, InTry, Alive
<1>6. CASE UNCHANGED vars
  BY <1>6 DEF vars
<1>7. QED
  BY <1>1, <1>2, <1>3, <1>4, <1>5, <1>6 DEF Next

\* No command that _run waits for is missing.
LEMMA StepSpawned == IInv /\ Spawned /\ [Next]_vars => Spawned'
<1> SUFFICES ASSUME IInv, Spawned, [Next]_vars, NEW j \in Jobs, task'[j] = "waiting"
             PROVE  child'[j] # "none"
  BY DEF Spawned
<1>1. CASE Submit(j)
  BY <1>1 DEF Submit, IInv, TypeOK
<1>2. CASE RunStep(j)
  BY <1>2, RunMoves
<1>3. CASE InspectStep(j)
  BY <1>3, CommandMoves DEF IInv, Spawned
<1>4. CASE ~Submit(j) /\ ~RunStep(j) /\ ~InspectStep(j)
  BY <1>4, OtherMoves DEF Spawned
<1>5. QED
  BY <1>1, <1>2, <1>3, <1>4

LEMMA NearerJob ==
    ASSUME IInv, [Next]_vars
    PROVE  JobGetsOn
<1> SUFFICES ASSUME NEW j \in Jobs
             PROVE  /\ RunStep(j) \/ InspectStep(j) => JobAhead(j)' < JobAhead(j)
                    /\ ~Submit(j) => JobAhead(j)' <= JobAhead(j)
  BY DEF JobGetsOn
<1>1. /\ task[j] \in Own \cup {"none", "done", "lost"}
      /\ child[j] \in Alive \cup {"none", "exited"}
      /\ task[j] = "spawning" => child[j] = "none"
  BY DEF IInv, TypeOK, Consistent, JobAt
<1>2. JobAhead(j) \in Nat
  BY <1>1, AheadCounts DEF JobAhead
<1>3. RunStep(j) => JobAhead(j)' < JobAhead(j)
  BY <1>1, AheadCounts, RunMoves DEF JobAhead, RunAhead, CommandAhead, Own, Alive, InTry
<1>4. InspectStep(j) => JobAhead(j)' < JobAhead(j)
  <2>1. ASSUME InspectStep(j)
        PROVE  task'[j] = task[j] /\ CommandAhead(child'[j]) < CommandAhead(child[j])
    BY <2>1, CommandMoves DEF CommandAhead, IInv
  <2>2. ASSUME InspectStep(j)
        PROVE  CommandAhead(child'[j]) \in 0..6
    BY <2>2, CommandMoves DEF CommandAhead, IInv
  <2>3. QED
    BY <1>1, <2>1, <2>2, AheadCounts DEF JobAhead
<1>5. ASSUME ~Submit(j), ~RunStep(j), ~InspectStep(j)
      PROVE  JobAhead(j)' <= JobAhead(j)
  <2>1. CASE task'[j] = task[j] /\ child'[j] = child[j]
    BY <1>2, <2>1 DEF JobAhead
  <2>2. CASE /\ task'[j] = task[j]
             /\ \/ child[j] \in {"record", "recorded"} /\ child'[j] = "handle"
                \/ child[j] \in Alive /\ child'[j] = "exited"
    <3>1. CommandAhead(child'[j]) <= CommandAhead(child[j]) /\ CommandAhead(child'[j]) \in 0..6
      BY <2>2 DEF CommandAhead, Alive, InTry
    <3>2. QED
      BY <1>1, <2>2, <3>1, AheadCounts DEF JobAhead
  <2>3. CASE /\ task[j] \in Own /\ task'[j] = "lost"
             /\ child'[j] = child[j] \/ (task[j] = "spawning" /\ child'[j] = "starting")
    BY <1>1, <2>3, AheadCounts DEF JobAhead, RunAhead, CommandAhead, Own, Alive, InTry
  <2>4. QED
    BY <1>5, <2>1, <2>2, <2>3, OtherMoves
<1>6. RunStep(j) \/ InspectStep(j) => JobAhead(j)' <= JobAhead(j)
  <2>1. ASSUME RunStep(j) \/ InspectStep(j)
        PROVE  JobAhead(j)' \in Nat
    <3>1. /\ task'[j] \in Own \cup {"none", "done", "lost"}
          /\ child'[j] \in Alive \cup {"none", "exited"}
      BY StepType DEF IInv, TypeOK
    <3>2. QED
      BY <3>1, AheadCounts DEF JobAhead
  <2>2. QED
    BY <1>2, <1>3, <1>4, <2>1
<1>7. QED
  BY <1>3, <1>4, <1>5, <1>6

\* A submitted job ends unless its steps stop being taken: at most 9 are before it,
\* there is a next one as long as it keeps the console busy, and neither a stop, a
\* kill, another job nor a console that is gone makes them more (CliRunner._run and
\* the inspect command): what JobsEnd needs besides fairness.
THEOREM JobsGetOn ==
    Spec => /\ [](\A j \in Jobs : JobAhead(j) \in 0..9)
            /\ []JobKnowsNext
            /\ [][JobGetsOn]_vars
<1>1. IInv => \A j \in Jobs : JobAhead(j) \in 0..9
  <2> SUFFICES ASSUME IInv, NEW j \in Jobs PROVE JobAhead(j) \in 0..9
    OBVIOUS
  <2>1. /\ task[j] \in Own \cup {"none", "done", "lost"}
        /\ child[j] \in Alive \cup {"none", "exited"}
        /\ task[j] = "spawning" => child[j] = "none"
    BY DEF IInv, TypeOK, Consistent, JobAt
  <2>2. CommandAhead(child[j]) \in 0..6 /\ RunAhead(task[j]) \in 0..9
    BY <2>1, AheadCounts
  <2>3. CASE task[j] = "spawning"
    BY <2>1, <2>3 DEF JobAhead, RunAhead, CommandAhead
  <2>4. CASE task[j] # "spawning"
    <3>1. RunAhead(task[j]) \in 0..2
      BY <2>1, <2>4 DEF RunAhead, Own
    <3>2. QED
      BY <2>2, <3>1 DEF JobAhead
  <2>5. QED
    BY <2>3, <2>4
<1>2. IInv /\ Spawned => JobKnowsNext
  BY DEF IInv, TypeOK, Consistent, JobAt, Spawned, JobKnowsNext, Own
<1>3. Init => Spawned
  BY DEF Init, Each, Spawned
<1>4. IInv /\ [Next]_vars => [JobGetsOn]_vars
  BY NearerJob
<1>5. QED
  BY <1>1, <1>2, <1>3, <1>4, StepSpawned, Invariant, PTL DEF Spec
=============================================================================
