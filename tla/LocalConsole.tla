---------------------------- MODULE LocalConsole ----------------------------
(***************************************************************************)
(* The local console: CliRunner of local_web/runner.py, the admission of   *)
(* jobs and of the doctor in local_web/app.py, and the inspect command of  *)
(* cli.py, which runs a job as a child process in a session of its own.    *)
(*                                                                         *)
(* The console's handlers interleave at awaits only; the child and the     *)
(* doctor's thread run beside them.  A signal that was sent is taken at    *)
(* any later moment of the child, or never if it exits before.             *)
(***************************************************************************)
EXTENDS Naturals, Sequences, SequencesExt

CONSTANTS Jobs,        \* job ids, each generated once
          NoJob,       \* _active is None
          MaxHistory,  \* _MAX_HISTORY
          MaxServes    \* bound on the starts of the console

ASSUME ConsoleAssumption ==
    NoJob \notin Jobs /\ MaxHistory \in Nat \ {0} /\ MaxServes \in Nat

VARIABLES
    service,    \* the console process and its lifespan
    serves,     \* its starts so far
    ready,      \* verified_ready(startup_report)
    checking,   \* doctor_running
    history,    \* the keys of _jobs, in order
    active,     \* _active
    state,      \* _Job.state
    control,    \* _Job.control
    requested,  \* _Job.shutdown_requested
    task,       \* where _run waits, "lost" when its console is gone
    child,      \* where the inspect command is
    sent,       \* how many SIGINTs the console has sent it
    taken,      \* the command has received one
    printed,    \* its run_id line is out
    verdict,    \* the outcome the command is about to record
    evidence,   \* attempt-result.json, "none" when it is absent or cut short
    report,     \* both files of the trial's report are there
    code        \* exit code of the command

consoleVars == <<service, serves, ready, checking, history, active>>
jobVars == <<state, control, requested, task>>
childVars == <<child, sent, taken, printed, verdict, evidence, report, code>>
vars == <<consoleVars, jobVars, childVars>>

-----------------------------------------------------------------------------
Verdicts == {"completed", "failed", "interrupted"}
InTry == {"trial", "record", "recorded"}
Alive == InTry \cup {"starting", "handle", "ending"}
Own == {"spawning", "waiting", "draining"}

Each(value) == [j \in Jobs |-> value]

Init ==
    /\ service = "down" /\ serves = 0 /\ ready = FALSE /\ checking = FALSE
    /\ history = <<>> /\ active = NoJob
    /\ state = Each("none") /\ control = Each("none")
    /\ requested = Each(FALSE) /\ task = Each("none")
    /\ child = Each("none") /\ sent = Each(0) /\ taken = Each(FALSE)
    /\ printed = Each(FALSE) /\ verdict = Each("failed")
    /\ evidence = Each("none") /\ report = Each(FALSE) /\ code = Each("none")

-----------------------------------------------------------------------------
(* The console process                                                     *)

Serve ==
    /\ service = "down" /\ serves < MaxServes
    /\ service' = "starting" /\ serves' = serves + 1
    /\ UNCHANGED <<ready, checking, history, active, jobVars, childVars>>

\* lifespan: ensure_ready verifies the required services, or raises.
Started ==
    /\ service = "starting"
    /\ \/ service' = "serving" /\ ready' \in BOOLEAN
       \/ service' = "down" /\ UNCHANGED ready
    /\ UNCHANGED <<serves, checking, history, active, jobVars, childVars>>

\* Mutant of Idle: only another check keeps the doctor from running.
IdleUnchecked == ~checking
Idle == active = NoJob /\ ~checking

\* doctor_route, before and after its thread.
DoctorAdmitted ==
    /\ service = "serving" /\ Idle
    /\ checking' = TRUE
    /\ UNCHANGED <<service, serves, ready, history, active, jobVars, childVars>>

DoctorEnds ==
    /\ checking
    /\ checking' = FALSE
    /\ ready' \in BOOLEAN
    /\ UNCHANGED <<service, serves, history, active, jobVars, childVars>>

\* What is left in memory of a console that is gone.
Forget ==
    /\ service' = "down" /\ ready' = FALSE /\ checking' = FALSE
    /\ history' = <<>> /\ active' = NoJob
    /\ UNCHANGED serves

\* The process is killed, or the terminal it runs in is closed; the child is in
\* a session of its own and goes on.
Kill ==
    /\ service # "down"
    /\ Forget
    /\ task' = [j \in Jobs |-> IF task[j] \in Own THEN "lost" ELSE task[j]]
    /\ \/ UNCHANGED child
       \/ child' = [j \in Jobs |-> IF task[j] = "spawning" THEN "starting" ELSE child[j]]
    /\ UNCHANGED <<state, control, requested, sent, taken, printed, verdict, evidence,
                   report, code>>

-----------------------------------------------------------------------------
(* CliRunner                                                               *)

\* _trim_history: the active job is the newest one, so the oldest are popped.
Kept(jobs) ==
    IF Len(jobs) <= MaxHistory THEN jobs
    ELSE SubSeq(jobs, Len(jobs) - MaxHistory + 1, Len(jobs))

Submit(j) ==
    /\ service = "serving" /\ ready /\ Idle
    /\ state[j] = "none"
    /\ state' = [state EXCEPT ![j] = "running"]
    /\ task' = [task EXCEPT ![j] = "spawning"]
    /\ active' = j
    /\ history' = Kept(Append(history, j))
    /\ UNCHANGED <<service, serves, ready, checking, control, requested, childVars>>

\* process.send_signal(SIGINT): nothing is sent before the process exists, after
\* its return code is known, or to a process that has exited.
Signal(j) ==
    sent' = IF task[j] = "waiting" /\ child[j] \in Alive
            THEN [sent EXCEPT ![j] = @ + 1] ELSE sent

Stop(j) ==
    /\ service = "serving"
    /\ j \in Range(history) /\ active = j /\ control[j] = "none"
    /\ requested' = [requested EXCEPT ![j] = TRUE]
    /\ control' = [control EXCEPT ![j] = "stopping"]
    /\ Signal(j)
    /\ UNCHANGED <<consoleVars, state, task, child, taken, printed, verdict, evidence,
                   report, code>>

\* lifespan's exit, once the requests in flight are answered: shutdown.
Shutdown ==
    /\ service = "serving" /\ ~checking
    /\ service' = "stopping"
    /\ \/ active = NoJob /\ UNCHANGED <<requested, sent>>
       \/ /\ active # NoJob
          /\ requested' = [requested EXCEPT ![active] = TRUE]
          /\ IF requested[active] THEN UNCHANGED sent ELSE Signal(active)
    /\ UNCHANGED <<serves, ready, checking, history, active, state, control, task, child,
                   taken, printed, verdict, evidence, report, code>>

\* Its await of the task returns.
ShutdownEnds ==
    /\ service = "stopping"
    /\ \A j \in Jobs : active = j => task[j] = "done"
    /\ Forget
    /\ UNCHANGED <<jobVars, childVars>>

\* Mutant of Spawns: the signal is not sent.
SpawnsForgetful(j) ==
    /\ task[j] = "spawning"
    /\ task' = [task EXCEPT ![j] = "waiting"]
    /\ child' = [child EXCEPT ![j] = "starting"]
    /\ UNCHANGED <<consoleVars, state, control, requested, sent, taken, printed, verdict,
                   evidence, report, code>>

\* _run: the process exists, and gets the signal a stop could not send.
Spawns(j) ==
    /\ task[j] = "spawning"
    /\ task' = [task EXCEPT ![j] = "waiting"]
    /\ child' = [child EXCEPT ![j] = "starting"]
    /\ sent' = IF requested[j] THEN [sent EXCEPT ![j] = @ + 1] ELSE sent
    /\ UNCHANGED <<consoleVars, state, control, requested, taken, printed, verdict,
                   evidence, report, code>>

\* The finally clause of _run.
Finish(j, outcome) ==
    /\ state' = [state EXCEPT ![j] = outcome]
    /\ task' = [task EXCEPT ![j] = "done"]
    /\ control' = IF requested[j] THEN [control EXCEPT ![j] = "stopped"] ELSE control
    /\ active' = IF active = j THEN NoJob ELSE active
    /\ UNCHANGED <<service, serves, ready, checking, history, requested, childVars>>

\* Mutant of SpawnFails: the exception leaves the job active.
SpawnFailsBusy(j) ==
    /\ task[j] = "spawning"
    /\ state' = [state EXCEPT ![j] = "unknown"]
    /\ task' = [task EXCEPT ![j] = "done"]
    /\ UNCHANGED <<consoleVars, control, requested, childVars>>

SpawnFails(j) ==
    /\ task[j] = "spawning"
    /\ Finish(j, "unknown")

\* process.wait() returns.
Reaped(j) ==
    /\ task[j] = "waiting" /\ child[j] = "exited"
    /\ task' = [task EXCEPT ![j] = "draining"]
    /\ UNCHANGED <<consoleVars, state, control, requested, childVars>>

\* Mutant of Projected: the return code of the process is not looked at.
ProjectedByEvidence(j) ==
    IF printed[j] /\ evidence[j] = "completed" /\ report[j] THEN "completed" ELSE "failed"

\* _project_terminal_evidence: a run_id, the evidence of that run, both report
\* files and the return code must agree.
Projected(j) ==
    IF printed[j] /\ evidence[j] = "completed" /\ report[j] /\ code[j] = "zero"
    THEN "completed" ELSE "failed"

\* The outputs are drained and the evidence is projected.
JobEnds(j) ==
    /\ task[j] = "draining"
    /\ Finish(j, Projected(j))

-----------------------------------------------------------------------------
(* The inspect command                                                     *)

\* What a step of the command leaves alone.
Apart == <<consoleVars, jobVars>>

Exit(j, exitCode) ==
    /\ child' = [child EXCEPT ![j] = "exited"]
    /\ code' = [code EXCEPT ![j] = exitCode]

Handle(j, outcome) ==
    /\ child' = [child EXCEPT ![j] = "handle"]
    /\ verdict' = [verdict EXCEPT ![j] = outcome]
    /\ UNCHANGED code

\* A run directory and the run_id line; without a directory there is no evidence,
\* and without a start time there is evidence but no line.
Begins(j) ==
    /\ child[j] = "starting"
    /\ \/ /\ child' = [child EXCEPT ![j] = "trial"]
          /\ printed' = [printed EXCEPT ![j] = TRUE]
          /\ UNCHANGED code
       \/ /\ child' = [child EXCEPT ![j] = "record"]
          /\ UNCHANGED <<printed, code>>
       \/ Exit(j, "nonzero") /\ UNCHANGED printed
    /\ UNCHANGED <<Apart, sent, taken, verdict, evidence, report>>

\* asyncio.run returns and the report is rendered.
TrialEnds(j) ==
    /\ child[j] = "trial" /\ ~taken[j]
    /\ child' = [child EXCEPT ![j] = "record"]
    /\ \E outcome \in {"completed", "failed"} :
        verdict' = [verdict EXCEPT ![j] = outcome]
    /\ report' = [report EXCEPT ![j] = TRUE]
    /\ UNCHANGED <<Apart, sent, taken, printed, evidence, code>>

\* The trial or its report raises: an interrupted trial when it has cleaned up,
\* whose cleanup may also fail.  A failure's report plays no part in Projected.
TrialRaises(j) ==
    /\ child[j] = "trial"
    /\ Handle(j, "failed") \/ (taken[j] /\ Handle(j, "interrupted"))
    /\ UNCHANGED <<Apart, sent, taken, printed, evidence, report>>

\* _persist_attempt_evidence truncates the file, then writes: what is cut short
\* leaves the old evidence or none that can be parsed.
Writing == {"record", "handle"}

Writes(j) ==
    /\ child[j] \in Writing
    /\ child' = [child EXCEPT ![j] = IF @ = "record" THEN "recorded" ELSE "ending"]
    /\ evidence' = [evidence EXCEPT ![j] = verdict[j]]
    /\ UNCHANGED <<Apart, sent, taken, printed, verdict, report, code>>

CutShort(j) ==
    evidence' \in {evidence} \cup IF child[j] \in Writing
                                   THEN {[evidence EXCEPT ![j] = "none"]} ELSE {}

\* In the try a failed write is handled as any exception, or ends the command
\* if it was the evidence of a failure; in a handler it ends the command.
WriteFails(j) ==
    /\ child[j] \in Writing
    /\ CutShort(j)
    /\ \/ child[j] = "record" /\ Handle(j, "failed")
       \/ /\ child[j] = "handle" \/ verdict[j] = "failed"
          /\ Exit(j, "nonzero") /\ UNCHANGED verdict
    /\ UNCHANGED <<Apart, sent, taken, printed, report>>

\* The try is left.
Returns(j) ==
    /\ child[j] = "recorded"
    /\ child' = [child EXCEPT ![j] = "ending"]
    /\ UNCHANGED <<Apart, sent, taken, printed, verdict, evidence, report, code>>

Exits(j) ==
    /\ child[j] = "ending"
    /\ Exit(j, IF verdict[j] = "completed" THEN "zero" ELSE "nonzero")
    /\ UNCHANGED <<Apart, sent, taken, printed, verdict, evidence, report>>

\* SIGINT: asyncio.run cancels the trial; elsewhere KeyboardInterrupt is raised,
\* which the try turns into evidence and which ends the command outside of it.
Interrupted(j) ==
    /\ sent[j] > 0 /\ ~taken[j] /\ child[j] \in Alive
    /\ taken' = [taken EXCEPT ![j] = TRUE]
    /\ \/ child[j] = "trial" /\ UNCHANGED <<child, verdict, code>>
       \/ child[j] \in InTry \ {"trial"} /\ Handle(j, "interrupted")
       \/ child[j] \notin InTry /\ Exit(j, "nonzero") /\ UNCHANGED verdict
    /\ CutShort(j)
    /\ UNCHANGED <<Apart, sent, printed, report>>

\* The command is killed by someone else.
Killed(j) ==
    /\ child[j] \in Alive
    /\ Exit(j, "nonzero")
    /\ CutShort(j)
    /\ UNCHANGED <<Apart, sent, taken, printed, verdict, report>>

-----------------------------------------------------------------------------
RunStep(j) == Spawns(j) \/ SpawnFails(j) \/ Reaped(j) \/ JobEnds(j)

InspectStep(j) ==
    \/ Begins(j) \/ TrialEnds(j) \/ TrialRaises(j)
    \/ Writes(j) \/ WriteFails(j) \/ Returns(j) \/ Exits(j)

Next ==
    \/ Serve \/ Started \/ DoctorAdmitted \/ DoctorEnds \/ Kill \/ Shutdown \/ ShutdownEnds
    \/ \E j \in Jobs :
        Submit(j) \/ Stop(j) \/ RunStep(j) \/ InspectStep(j) \/ Interrupted(j) \/ Killed(j)

Spec == Init /\ [][Next]_vars

\* The event loop serves _run and the shutdown, and every wait of the command has
\* a time limit; nothing is assumed of requests, signals, kills or outcomes.
FairSpec ==
    /\ Spec
    /\ WF_vars(ShutdownEnds)
    /\ \A j \in Jobs : WF_vars(RunStep(j)) /\ WF_vars(InspectStep(j))

-----------------------------------------------------------------------------
\* Type correctness; the history stays within its bound.
TypeOK ==
    /\ service \in {"down", "starting", "serving", "stopping"} /\ serves \in 0..MaxServes
    /\ ready \in BOOLEAN /\ checking \in BOOLEAN
    /\ history \in Seq(Jobs) /\ Len(history) <= MaxHistory
    /\ active \in Jobs \cup {NoJob}
    /\ state \in [Jobs -> {"none", "running", "completed", "failed", "unknown"}]
    /\ control \in [Jobs -> {"none", "stopping", "stopped"}]
    /\ requested \in [Jobs -> BOOLEAN]
    /\ task \in [Jobs -> Own \cup {"none", "done", "lost"}]
    /\ child \in [Jobs -> Alive \cup {"none", "exited"}]
    /\ sent \in [Jobs -> Nat] /\ taken \in [Jobs -> BOOLEAN]
    /\ printed \in [Jobs -> BOOLEAN] /\ verdict \in [Jobs -> Verdicts]
    /\ evidence \in [Jobs -> Verdicts \cup {"none"}]
    /\ report \in [Jobs -> BOOLEAN] /\ code \in [Jobs -> {"none", "zero", "nonzero"}]

\* A console has at most one trial, never beside a doctor's check, and the job it
\* belongs to can be found and stopped: history and _active never lose it.
SingleFlight ==
    \A j \in Jobs :
        task[j] \in Own \/ (child[j] \in Alive /\ task[j] # "lost") =>
            /\ active = j /\ ~checking
            /\ j \in Range(history)

\* A command gets one SIGINT at most, because a second one would tear its cleanup
\* down, and only on request; and a request is never lost, also when it arrives
\* while the process is being created.
InterruptedOnce ==
    \A j \in Jobs :
        /\ sent[j] <= 1
        /\ sent[j] = 1 => requested[j]
        /\ requested[j] /\ task[j] = "waiting" /\ child[j] \in Alive => sent[j] = 1

\* A job that is shown as stopped, or as ended, has no process left.
StoppedIsReaped ==
    \A j \in Jobs :
        control[j] = "stopped" \/ state[j] \notin {"none", "running"} =>
            child[j] \notin Alive /\ active # j

\* Stopping a job is done with one signal and is over when the console says so.
StopIsClean == InterruptedOnce /\ StoppedIsReaped

\* A job shown as completed was not interrupted, and exit code, evidence and
\* report of its command agree that it completed.
CompletedIsEarned ==
    \A j \in Jobs :
        state[j] = "completed" =>
            ~taken[j] /\ code[j] = "zero" /\ evidence[j] = "completed" /\ report[j]

\* No job keeps the console busy for ever, and a shutdown ends.
JobsEnd ==
    /\ \A j \in Jobs : active = j ~> active # j
    /\ service = "stopping" ~> service = "down"

\* "The console is loopback-only and runs one trial at a time" (README.md:72), for
\* the trials of one workspace: a console that was killed leaves its trial behind.
OneTrialAtATime ==
    \A i, j \in Jobs : child[i] \in Alive /\ child[j] \in Alive => i = j
=============================================================================
