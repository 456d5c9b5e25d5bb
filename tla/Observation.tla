---------------------------- MODULE Observation ----------------------------
(***************************************************************************)
(* One collection of observations: _collect_observation of                 *)
(* trial/observer.py with the ledger of trial/observation_evidence.py.     *)
(*                                                                         *)
(* Every collector is a start row, a command in the sandbox and a terminal *)
(* row, each durable before the collection goes on; the audit file is one  *)
(* more such operation.  The containers go on living meanwhile.            *)
(***************************************************************************)
EXTENDS Naturals, Sequences, FiniteSets, SequencesExt

CONSTANT Services

VARIABLES
    status,     \* of each service's container
    container,  \* its identity
    template,   \* image bindings have to be prepared
    recorded,   \* a ledger is kept: a recorder was given
    doing,      \* "idle", "start", "run", "end", "returned" or "raised"
    todo,       \* the operations left, the one under way first
    ledger,     \* rows of the ledger file
    audit,      \* the audit file: "absent", "partial" or "whole"
    snapshot    \* what is returned: container seen of each service

-----------------------------------------------------------------------------
Op(name) == [name |-> name, of |-> "none", id |-> 0]
OpsOf(s) == [i \in 1..3 |-> [name |-> <<"inspect", "diff", "top">>[i], of |-> s,
                             id |-> container[s]]]

\* What is left after the discovery: three operations for each container that
\* `ps --all` listed, one container after the other in a fixed order, then the
\* network log and the audit.
Rest == LET listed == SetToSeq({s \in Services : status[s] # "absent"})
        IN [i \in 1..(3 * Len(listed)) |->
              OpsOf(listed[1 + ((i - 1) \div 3)])[1 + ((i - 1) % 3)]]
           \o <<Op("network"), Op("audit")>>

Row(kind) == <<Head(todo), kind>>
NothingSeen == [s \in {} |-> 0]

\* The operation can succeed: the container still exists, and `docker top`
\* wants it to run.
Possible(op) ==
    /\ op.of # "none" => container[op.of] = op.id
    /\ op.name = "top" => status[op.of] \in {"starting", "ready", "unhealthy"}

\* Mutant of Wrote: a row that is not durable is passed over.
WroteSomehow(kind, next) ==
    \/ ledger' = (IF recorded THEN Append(ledger, Row(kind)) ELSE ledger) /\ doing' = next
    \/ recorded /\ UNCHANGED ledger /\ doing' = next

\* A row is whole and durable, or the collection ends with nothing or a part of
\* it: a torn row is the last one.
Wrote(kind, next) ==
    \/ ledger' = (IF recorded THEN Append(ledger, Row(kind)) ELSE ledger) /\ doing' = next
    \/ /\ recorded /\ doing' = "raised"
       /\ ledger' \in {ledger, Append(ledger, Row("torn"))}

\* The terminal row of a failure must not hide the failure.
WroteFailure ==
    /\ doing' = "raised"
    /\ ledger' \in IF recorded THEN {ledger, Append(ledger, Row("torn")), Append(ledger, Row("failure"))}
                               ELSE {ledger}

-----------------------------------------------------------------------------
ObservationInit(keeps) ==
    /\ recorded \in keeps /\ doing = "idle" /\ todo = <<>> /\ ledger = <<>>
    /\ audit = "absent" /\ snapshot = NothingSeen

\* The ledger file is created, the image bindings are prepared.
Opening ==
    /\ doing = "idle"
    /\ \/ doing' = "start"
       \/ doing' = "raised"
    /\ todo' = <<Op("discovery")>>
    /\ UNCHANGED <<recorded, ledger, audit, snapshot, status, container, template>>

Starting ==
    /\ doing = "start"
    /\ Wrote("start", "run")
    /\ UNCHANGED <<recorded, todo, audit, snapshot, status, container, template>>

\* The command succeeds and its output is understood.
Collected ==
    /\ doing = "run" /\ Head(todo).name # "audit" /\ Possible(Head(todo))
    /\ doing' = "end"
    /\ todo' = IF Head(todo).name = "discovery" THEN <<Head(todo)>> \o Rest ELSE todo
    /\ snapshot' = IF Head(todo).name = "inspect"
                   THEN [s \in DOMAIN snapshot \cup {Head(todo).of} |->
                           IF s = Head(todo).of THEN Head(todo).id ELSE snapshot[s]]
                   ELSE snapshot
    /\ UNCHANGED <<recorded, ledger, audit, status, container, template>>

\* _serialize_artifact and _persist_artifact.
Audited ==
    /\ doing = "run" /\ Head(todo).name = "audit"
    /\ audit' = "whole" /\ doing' = "end"
    /\ UNCHANGED <<recorded, todo, ledger, snapshot, status, container, template>>

\* It raises, is cancelled, exits with a failure or cannot be understood; the
\* audit is too large, or written in part.
NotCollected ==
    /\ doing = "run"
    /\ audit' \in {audit} \cup (IF Head(todo).name = "audit" THEN {"partial"} ELSE {})
    /\ WroteFailure
    /\ UNCHANGED <<recorded, todo, snapshot, status, container, template>>

\* The terminal row of a success; after the last one the ledger is closed.
Ending ==
    /\ doing = "end"
    /\ IF Len(todo) = 1
       THEN \/ Wrote("success", "returned")
            \/ recorded /\ ledger' = Append(ledger, Row("success")) /\ doing' = "raised"
       ELSE Wrote("success", "start")
    /\ todo' = Tail(todo)
    /\ UNCHANGED <<recorded, audit, snapshot, status, container, template>>

ObservationStep == Opening \/ Starting \/ Collected \/ Audited \/ NotCollected \/ Ending
=============================================================================
