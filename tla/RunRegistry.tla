---------------------------- MODULE RunRegistry ----------------------------
(***************************************************************************)
(* The API service of api/app.py with its PostgresRunRegistry: requests    *)
(* that run a trial and record its lifecycle in a row, and a service that  *)
(* is killed and started again.                                            *)
(*                                                                         *)
(* The database is external.  A statement ends in an answer, in an error   *)
(* or in a cancellation of the request's task; in the last two cases, and  *)
(* when the service is killed, it may have been committed or not.          *)
(***************************************************************************)
EXTENDS Naturals

CONSTANTS Runs,        \* run ids, each generated once
          MaxStarts    \* bound on the starts of the service

ASSUME RegistryAssumption == MaxStarts \in Nat

VARIABLES
    row,       \* repotrial_run_registry: [lifecycle, report] of each run
    files,     \* the report directory of each run
    handler,   \* where the request of each run waits
    target,    \* the lifecycle _lifecycle_for chose for a finished trial
    answer,    \* what the client was told
    service,   \* the process and its lifespan
    lost,      \* runs whose last statement in this process got no answer
    starts

vars == <<row, files, handler, target, answer, service, lost, starts>>

-----------------------------------------------------------------------------
Reported == {"COMPLETED", "TRIAL_FAILED", "UNSUPPORTED"}
Lifecycles == {"RUNNING", "INTERNAL_ERROR", "INTERRUPTED"} \cup Reported
Replies == {"answered", "error", "cancelled"}

Row(lifecycle, report) == [lifecycle |-> lifecycle, report |-> report]
Absent == Row("absent", FALSE)

\* The awaits of create_run: the INSERT, the trial, and the UPDATEs.
Statements == {"creating", "completing", "unsupported", "downgrading", "failing",
               "interrupting"}
Live == Statements \cup {"running"}

OutcomeOf(lifecycle) ==
    CASE lifecycle = "COMPLETED"    -> "completed"
      [] lifecycle = "TRIAL_FAILED" -> "trial_failed"
      [] lifecycle = "UNSUPPORTED"  -> "execution_unsupported"
Answers == {"none", "unavailable", "internal_error", "raised"}
           \cup {OutcomeOf(l) : l \in Reported}

\* The row that the statement of a waiting request writes.
Intent(r) ==
    CASE handler[r] = "creating"     -> Row("RUNNING", FALSE)
      [] handler[r] = "completing"   -> Row(target[r], TRUE)
      [] handler[r] = "unsupported"  -> Row("UNSUPPORTED", FALSE)
      [] handler[r] \in {"downgrading", "failing"} -> Row("INTERNAL_ERROR", FALSE)
      [] handler[r] = "interrupting" -> Row("INTERRUPTED", FALSE)

\* An UPDATE of a row that is not there returns no row, which is an error.
Applies(r) == handler[r] = "creating" \/ row[r] # Absent
After(r) == {row[r]} \cup IF handler[r] \in Statements /\ Applies(r)
                          THEN {Intent(r)} ELSE {}

\* _fetch_one
Executed(r, reply) ==
    /\ \/ reply = "answered" /\ Applies(r) /\ row' = [row EXCEPT ![r] = Intent(r)]
       \/ reply # "answered" /\ row' \in {[row EXCEPT ![r] = v] : v \in After(r)}
    /\ lost' = IF reply = "answered" THEN lost \ {r} ELSE lost \cup {r}

Goto(r, next) == handler' = [handler EXCEPT ![r] = next] /\ UNCHANGED answer

\* The request ends and tells its client, or its CancelledError propagates.
Reply(r, said) == /\ handler' = [handler EXCEPT ![r] = "ended"]
                  /\ answer' = [answer EXCEPT ![r] = said]

Init ==
    /\ row = [r \in Runs |-> Absent]
    /\ files = [r \in Runs |-> "none"]
    /\ handler = [r \in Runs |-> "none"]
    /\ target = [r \in Runs |-> "COMPLETED"]
    /\ answer = [r \in Runs |-> "none"]
    /\ service = "down" /\ lost = {} /\ starts = 0

-----------------------------------------------------------------------------
(* POST /runs                                                              *)

\* The service is ready and its registry healthy; a refused request leaves
\* nothing behind.
Post(r) ==
    /\ service = "ready" /\ handler[r] = "none"
    /\ Goto(r, "creating")
    /\ UNCHANGED <<row, files, target, service, lost, starts>>

CreateReturns(r, reply) ==
    /\ handler[r] = "creating"
    /\ Executed(r, reply)
    /\ \/ reply = "answered" /\ Goto(r, "running")
       \/ reply = "error" /\ Reply(r, "unavailable")
       \/ reply = "cancelled" /\ Goto(r, "interrupting")
    /\ UNCHANGED <<files, target, service, starts>>

\* Mutant of TrialEnds: the report is rendered after the row is written.
TrialEndsUnrendered(r) ==
    /\ handler[r] = "running"
    /\ target' \in {[target EXCEPT ![r] = l] : l \in Reported}
    /\ Goto(r, "completing")
    /\ UNCHANGED <<row, files, answer, service, lost, starts>>

\* The graph returns a final state and its report is rendered before anything
\* is recorded.
TrialEnds(r) ==
    /\ handler[r] = "running"
    /\ files' = [files EXCEPT ![r] = "whole"]
    /\ target' \in {[target EXCEPT ![r] = l] : l \in Reported}
    /\ Goto(r, "completing")
    /\ UNCHANGED <<row, service, lost, starts>>

\* DockerSbxUnsupportedError, a cancellation, or any other exception of the
\* layout, the trial or the rendering.
TrialRaises(r) ==
    /\ handler[r] = "running"
    /\ \E next \in {"unsupported", "interrupting", "failing"} :
        /\ Goto(r, next)
        /\ files' \in {files, [files EXCEPT ![r] = "partial"]}
        /\ next = "unsupported" => files' = files
    /\ UNCHANGED <<row, target, service, lost, starts>>

CompleteReturns(r, reply) ==
    /\ handler[r] = "completing"
    /\ Executed(r, reply)
    /\ \/ reply = "answered" /\ Reply(r, OutcomeOf(target[r]))
       \/ reply = "error" /\ Goto(r, "failing")
       \/ reply = "cancelled" /\ Goto(r, "interrupting")
    /\ UNCHANGED <<files, target, service, starts>>

UnsupportedReturns(r, reply) ==
    /\ handler[r] = "unsupported"
    /\ Executed(r, reply)
    /\ \/ reply = "answered" /\ Reply(r, "execution_unsupported")
       \/ reply = "error" /\ Goto(r, "downgrading")
       \/ reply = "cancelled" /\ Goto(r, "interrupting")
    /\ UNCHANGED <<files, target, service, starts>>

\* _complete_safely below the unsupported response: a registry failure is
\* swallowed, a cancellation is recorded.
DowngradeReturns(r, reply) ==
    /\ handler[r] = "downgrading"
    /\ Executed(r, reply)
    /\ \/ reply # "cancelled" /\ Reply(r, "internal_error")
       \/ reply = "cancelled" /\ Goto(r, "interrupting")
    /\ UNCHANGED <<files, target, service, starts>>

\* _complete_safely in the last handler: a cancellation propagates from it
\* without another statement.
FailureReturns(r, reply) ==
    /\ handler[r] = "failing"
    /\ Executed(r, reply)
    /\ Reply(r, IF reply = "cancelled" THEN "raised" ELSE "internal_error")
    /\ UNCHANGED <<files, target, service, starts>>

\* _interrupt_after_cancellation: best effort, then the cancellation goes on.
InterruptReturns(r, reply) ==
    /\ handler[r] = "interrupting"
    /\ Executed(r, reply)
    /\ Reply(r, "raised")
    /\ UNCHANGED <<files, target, service, starts>>

-----------------------------------------------------------------------------
(* The service                                                             *)

\* interrupt_running
Swept(v) == IF v.lifecycle = "RUNNING" THEN Row("INTERRUPTED", v.report) ELSE v

\* Mutant of Started: a failed sweep does not keep the graph from being used.
StartedAnyway(reply) == IF reply = "cancelled" THEN "down" ELSE "ready"
\* A failure before or in the sweep leaves a service without a graph, which
\* accepts no run; a cancelled start leaves none.
Started(reply) ==
    CASE reply = "answered" -> "ready"
      [] reply = "error" -> "degraded"
      [] reply = "cancelled" -> "down"

Start(reply) ==
    /\ service = "down" /\ starts < MaxStarts
    /\ starts' = starts + 1
    /\ service' = Started(reply)
    /\ \/ row' = [r \in Runs |-> Swept(row[r])]
       \/ reply # "answered" /\ row' = row
    /\ lost' = {}
    /\ UNCHANGED <<files, handler, target, answer>>

\* The process is killed: its requests end without an answer, and what they had
\* sent to the database is committed or not.
Kill ==
    /\ service # "down"
    /\ service' = "down"
    /\ handler' = [r \in Runs |-> IF handler[r] \in Live THEN "killed" ELSE handler[r]]
    /\ \E after \in [Runs -> UNION {After(r) : r \in Runs}] :
        /\ \A r \in Runs : after[r] \in After(r)
        /\ row' = after
    /\ UNCHANGED <<files, target, answer, lost, starts>>

Request(r) ==
    \/ Post(r) \/ TrialEnds(r) \/ TrialRaises(r)
    \/ \E reply \in Replies :
        \/ CreateReturns(r, reply) \/ CompleteReturns(r, reply)
        \/ UnsupportedReturns(r, reply) \/ DowngradeReturns(r, reply)
        \/ FailureReturns(r, reply) \/ InterruptReturns(r, reply)

Next == Kill \/ (\E reply \in Replies : Start(reply)) \/ (\E r \in Runs : Request(r))

Spec == Init /\ [][Next]_vars

-----------------------------------------------------------------------------
\* Type correctness: every row is one _record_from_row accepts.
TypeOK ==
    /\ row \in [Runs -> {Absent} \cup [lifecycle : Lifecycles, report : BOOLEAN]]
    /\ files \in [Runs -> {"none", "partial", "whole"}]
    /\ handler \in [Runs -> Live \cup {"none", "ended", "killed"}]
    /\ target \in [Runs -> Reported]
    /\ answer \in [Runs -> Answers]
    /\ service \in {"down", "ready", "degraded"}
    /\ lost \subseteq Runs /\ starts \in 0..MaxStarts

\* A row that offers a report is the row of a finished trial whose report was
\* rendered whole, and a trial that finished supported always offers it, also
\* after cancellations, lost answers, kills and sweeps.
ReportIsThere ==
    \A r \in Runs :
        /\ row[r].report => row[r].lifecycle \in Reported /\ files[r] = "whole"
        /\ row[r].lifecycle \in {"COMPLETED", "TRIAL_FAILED"} => row[r].report

\* "The semantic unsupported response requires a matching registry row"
\* (api/app.py:239), and so do the other outcomes: what a client was told of its
\* trial is what GET /runs/{run_id} says from then on, across restarts.
AnswerIsRecorded ==
    \A r \in Runs : \A l \in Reported :
        answer[r] = OutcomeOf(l) => row[r].lifecycle = l

\* While the service accepts runs, a row that is RUNNING belongs to a request of
\* this process that is still being handled, or to one whose last statement was
\* failed or cancelled; a restart leaves none behind.
RunningIsAccounted ==
    service = "ready" =>
        \A r \in Runs : row[r].lifecycle = "RUNNING" => handler[r] \in Live \/ r \in lost

\* A terminal row is only ever withdrawn, by the request that wrote it and
\* before that request has answered; an interrupted one is final.
OnlyWithdrawn ==
    \A r \in Runs :
        row[r].lifecycle \in Lifecycles \ {"RUNNING"} /\ row'[r] # row[r] =>
            /\ row[r].lifecycle # "INTERRUPTED"
            /\ handler[r] \in Statements /\ answer[r] = "none"
            /\ row'[r] \in {Row("INTERRUPTED", FALSE), Row("INTERNAL_ERROR", FALSE)}

\* What a client learns of its trial is true and stays available: the answer it
\* got is the row it can read, and a report that the row offers is there.
AnswersAreTrue == ReportIsThere /\ AnswerIsRecorded

\* No row is left behind and none is rewritten, across any number of restarts.
RowsAreAccounted == [][RunningIsAccounted' /\ OnlyWithdrawn]_vars
=============================================================================
