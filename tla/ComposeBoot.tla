---------------------------- MODULE ComposeBoot ----------------------------
(***************************************************************************)
(* One boot of a workload with docker compose: _boot_compose_with_evidence *)
(* of trial/boot.py and the evidence document of trial/boot_evidence.py.   *)
(*                                                                         *)
(* The containers run on their own: between two commands they come up,     *)
(* fail, stop, restart or are replaced (module WorkloadTrial).  A command  *)
(* may fail, time out or be cancelled; writing the evidence may fail.  The *)
(* variables are those of WorkloadTrial, which composes this module.       *)
(***************************************************************************)
EXTENDS Naturals, Sequences

CONSTANTS Services,
          Probed      \* the services with a health check

VARIABLES
    status,      \* of each service's container
    container,   \* its identity
    evidence,    \* the boot keeps a document: every baseline boot
    secrets,     \* the Compose file declares secrets without a value
    template,    \* an image template is in use: images are verified
    at,          \* the next command, "returned" or "raised"
    up,          \* the result of the last `up`
    first, last, \* what the first and the last `ps` listed
    rechecked,   \* `up` was repeated
    document,    \* the evidence file
    stages,      \* the stages of the boot that have begun
    verdict

-----------------------------------------------------------------------------
\* What `docker compose ps --all` prints: a row per container.
Listing == [s \in {x \in Services : status[x] # "absent"} |->
              [status |-> status[s], id |-> container[s]]]
NotListed == [s \in {} |-> 0]

\* _parse_service_states: some rows, and all of them running and healthy.
AllReady(rows) == DOMAIN rows # {} /\ \A s \in DOMAIN rows : rows[s].status = "ready"

\* _parse_readiness_snapshot refuses an empty listing and a sick container.
Snapshot(rows) == DOMAIN rows # {} /\ \A s \in DOMAIN rows : rows[s].status # "unhealthy"
AllRunning(rows) == \A s \in DOMAIN rows : rows[s].status \in {"starting", "ready"}
SomeProbed(rows) == \E s \in DOMAIN rows \cap Probed : rows[s].status \in {"starting", "ready"}
Ids(rows) == {<<s, rows[s].id>> : s \in DOMAIN rows}

Waiting == [exit |-> 1, reason |-> "readiness"]
Worked == [exit |-> 0, reason |-> "none"]
Broken == [exit |-> 1, reason |-> "other"]

\* _should_recheck_readiness
Recheck(rows) == /\ up = Waiting
                 /\ Snapshot(rows) /\ AllRunning(rows) /\ SomeProbed(rows)

\* _final_ids_match and the readiness of the second look.
\* Mutant of Confirmed: the containers may be other ones.
ConfirmedReplaced ==
    IF rechecked THEN Snapshot(last) /\ AllReady(last) /\ SomeProbed(last) ELSE AllReady(last)

Confirmed ==
    IF rechecked THEN /\ Snapshot(last) /\ AllReady(last) /\ SomeProbed(last)
                      /\ Ids(first) = Ids(last)
    ELSE AllReady(last)

-----------------------------------------------------------------------------
(* The evidence document                                                   *)

NoDocument == [commands |-> <<>>, final |-> "none", recovery |-> "none", state |-> "none"]

With(rows) == [document EXCEPT !.commands = @ \o rows, !.state = "whole"]
Ran(stage) == <<stage, "result">>
Raised(stage) == <<stage, "exception">>

\* _atomic_replace verifies what it wrote: a failure leaves the old or the new
\* document, and a failed _exclusive_create possibly a part of the first one.
Kept(rows) == {document} \cup {With(SubSeq(rows, 1, n)) : n \in 1..Len(rows)}
              \cup (IF document.state = "none" THEN {[NoDocument EXCEPT !.state = "torn"]} ELSE {})

\* Mutant of Logged: a failed write is passed over.
LoggedSomehow(rows, next) ==
    \/ ~evidence /\ at' = next /\ UNCHANGED document
    \/ evidence /\ document' \in Kept(rows) /\ at' = next

\* The rows are written before the boot goes on; a failed write raises.
Logged(rows, next) ==
    \/ ~evidence /\ at' = next /\ UNCHANGED document
    \/ evidence /\ document' = With(rows) /\ at' = next
    \/ evidence /\ document' \in Kept(rows) /\ at' = "raised"

Begun(stage) == stages' = Append(stages, stage)

-----------------------------------------------------------------------------
BootInit(keeps) ==
    /\ evidence = keeps /\ secrets \in BOOLEAN /\ template \in BOOLEAN
    /\ at = "start"
    /\ up = Broken /\ first = NotListed /\ last = NotListed /\ rechecked = FALSE
    /\ document = NoDocument /\ stages = <<>> /\ verdict = "none"

\* The image bindings of the runtime template, then _preflight_compose when
\* secrets are declared; the exit status of `config` is recorded, not judged.
Preflight ==
    /\ at = "start"
    /\ \/ ~secrets /\ at' = "verify" /\ UNCHANGED <<document, stages>>
       \/ template /\ at' = "raised" /\ UNCHANGED <<document, stages>>
       \/ secrets /\ Begun("config") /\ Logged(<<Ran("config")>>, "verify")
       \/ secrets /\ Begun("config") /\ Logged(<<Raised("config")>>, "raised")
    /\ UNCHANGED <<evidence, secrets, template, up, first, last, rechecked, verdict,
                   status, container>>

\* With a template the services and image identities are verified first; a
\* mapping that fails is not recorded, an identity that fails is, as `up`.
VerifyImages ==
    /\ at = "verify"
    /\ \/ at' = "up" /\ UNCHANGED <<document, stages>>
       \/ template /\ at' = "raised" /\ UNCHANGED <<document, stages>>
       \/ template /\ Begun("up") /\ Logged(<<Raised("up")>>, "raised")
    /\ UNCHANGED <<evidence, secrets, template, up, first, last, rechecked, verdict,
                   status, container>>

\* `up -d --wait` creates the containers that do not exist yet and starts those
\* that have ended; `template` and the repetition only forbid to pull and build.
UpStarts ==
    /\ at = "up"
    /\ \E made \in SUBSET Services :
         status' = [s \in Services |-> IF s \notin made \/ status[s] \notin {"absent", "exited"} THEN status[s]
                                       ELSE IF s \in Probed THEN "starting" ELSE "ready"]
    /\ at' = "upping" /\ Begun(IF rechecked THEN "up_recheck" ELSE "up")
    /\ UNCHANGED <<evidence, secrets, template, up, first, last, rechecked, document,
                   verdict, container>>

\* It returns 0 when every service is ready, and otherwise waits in vain, fails
\* or raises.  The first result is recorded together with the listing.
UpReturns ==
    /\ at = "upping"
    /\ \/ /\ up' \in {Waiting, Broken} \cup
                     (IF \A s \in Services : status[s] = "ready" THEN {Worked} ELSE {})
          /\ IF rechecked THEN Logged(<<Ran("up_recheck")>>, "ps") ELSE at' = "ps" /\ UNCHANGED document
       \/ Logged(<<Raised(IF rechecked THEN "up_recheck" ELSE "up")>>, "raised") /\ UNCHANGED up
    /\ UNCHANGED <<evidence, secrets, template, first, last, rechecked, stages, verdict,
                   status, container>>

\* `ps`; an exit status other than 0 lists nothing that counts.
Ps ==
    /\ at = "ps" /\ ~rechecked
    /\ \/ \E rows \in {Listing, NotListed} :
            /\ last' = rows /\ first' = rows
            /\ rechecked' = Recheck(rows)
            /\ IF Recheck(rows) THEN Logged(<<Ran("up_initial"), Ran("ps_initial")>>, "up")
                                ELSE Logged(<<Ran("up"), Ran("ps")>>, "logs")
       \/ Logged(<<Ran("up"), Raised("ps")>>, "raised") /\ UNCHANGED <<first, last, rechecked>>
    /\ Begun("ps")
    /\ UNCHANGED <<evidence, secrets, template, up, verdict, status, container>>

\* The second listing, after the only repetition of `up`.
PsAgain ==
    /\ at = "ps" /\ rechecked
    /\ \/ last' \in {Listing, NotListed} /\ Logged(<<Ran("ps_final")>>, "logs")
       \/ Logged(<<Raised("ps_final")>>, "raised") /\ UNCHANGED last
    /\ Begun("ps_final")
    /\ UNCHANGED <<evidence, secrets, template, up, first, rechecked, verdict, status, container>>

Logs ==
    /\ at = "logs"
    /\ \/ Logged(<<Ran("logs")>>, "judge")
       \/ Logged(<<Raised("logs")>>, "raised")
    /\ Begun("logs")
    /\ UNCHANGED <<evidence, secrets, template, up, first, last, rechecked, verdict,
                   status, container>>

\* The verdict, which finalize() puts into the document before it is returned.
Judge ==
    /\ at = "judge"
    /\ LET judged == IF up = Worked /\ Confirmed THEN "pass" ELSE "fail"
           final == [document EXCEPT !.final = judged]
       IN \/ /\ at' = "returned" /\ verdict' = judged
             /\ document' = IF evidence THEN final ELSE document
          \/ evidence /\ document' \in {document, final} /\ at' = "raised" /\ UNCHANGED verdict
    /\ UNCHANGED <<evidence, secrets, template, up, first, last, rechecked, stages,
                   status, container>>

\* record_recovery_evidence adds what follows from a failed boot.
Recover ==
    /\ at = "returned" /\ verdict = "fail" /\ evidence
    /\ \E disposition \in {"applied", "stopped", "unsupported"} :
         \/ document' = [document EXCEPT !.recovery = disposition] /\ at' = "recovered"
         \/ document' \in {document, [document EXCEPT !.recovery = disposition]} /\ at' = "raised"
    /\ UNCHANGED <<evidence, secrets, template, up, first, last, rechecked, stages, verdict,
                   status, container>>

BootStep == Preflight \/ VerifyImages \/ UpStarts \/ UpReturns \/ Ps \/ PsAgain \/ Logs \/ Judge
=============================================================================
