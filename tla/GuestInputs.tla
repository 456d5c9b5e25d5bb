---------------------------- MODULE GuestInputs ----------------------------
(***************************************************************************)
(* What a trial puts into a sandbox before it boots the workload there:    *)
(* the overlays of trial/compatibility.py and the .env of                  *)
(* trial/startup_inputs.py, for the boot attempts of a run and then for    *)
(* its experiments (agent/graph.py, hardening/engine.py).                  *)
(*                                                                         *)
(* The run's startup identity and the ledger of every attempt are files    *)
(* that outlive the process.  An invocation may be cancelled, may raise or *)
(* be killed between any two steps; the next one repeats the attempt in    *)
(* the next slot.  Other programs may edit the workspace meanwhile, and a  *)
(* command in a sandbox may fail with or without its effect.               *)
(*                                                                         *)
(* MaxResumes bounds the invocations and MaxEdits the edits.  Claiming a   *)
(* slot is one step here (RunGraph has its halves).                        *)
(***************************************************************************)
EXTENDS Naturals, Sequences

CONSTANTS
    Contents,     \* what .env.sample may hold
    OverlaysOf,   \* the overlays of each attempt, in the order of their copies
    Baselines,    \* the first attempts are boots, the others experiments
    MaxSlots,     \* _MAX_ATTEMPT_SLOTS, 4 in the code
    MaxResumes, MaxEdits

OverlayKinds == {"accepted", "compatibility", "candidate"}

ASSUME InputAssumption ==
    /\ OverlaysOf \in Seq(Seq(OverlayKinds)) /\ OverlaysOf # <<>>
    /\ {"none", "unusable", "partial"} \cap Contents = {}
    /\ Baselines \in Nat /\ MaxSlots \in Nat /\ MaxResumes \in Nat /\ MaxEdits \in Nat

VARIABLES
    sample,     \* .env.sample in the workspace
    artifact,   \* the overlay files in the workspace
    required,   \* the Compose file requires the .env
    identity,   \* startup-input-identity.json
    ledgers,    \* per attempt, the startup ledger of each claimed slot
    attempt,    \* the running attempt
    plan,       \* the input planned for it
    pc,         \* the next step
    copied,     \* overlays copied and verified
    guest,      \* the files of the sandbox
    failure,    \* what ends the attempt
    held,       \* the slots whose guest has held the planned .env
    booted,     \* every boot, with what the guest held
    resumes, edits

host == <<sample, artifact, edits>>
records == <<identity, ledgers>>
ghosts == <<held, booted>>
vars == <<host, required, records, attempt, plan, pc, copied, guest, failure,
          ghosts, resumes>>

-----------------------------------------------------------------------------
Attempts == 1..Len(OverlaysOf)
Overlays == OverlaysOf[attempt]
Experiment == attempt > Baselines
Slot == Len(ledgers[attempt])
Ledger == ledgers[attempt][Slot]
Failures == {"refusal", "error", "abort"}

Row(kind) == [kind |-> kind, input |-> plan]

NoGuest == [sample |-> "none", env |-> "none", files |-> [o \in OverlayKinds |-> "none"]]

Init ==
    /\ sample \in Contents \cup {"unusable"}
    /\ artifact = [o \in OverlayKinds |-> "whole"]
    /\ required \in BOOLEAN
    /\ identity = "none"
    /\ ledgers = [a \in Attempts |-> <<>>]
    /\ attempt = 1 /\ plan = "none" /\ pc = "idle" /\ copied = 0
    /\ guest = NoGuest /\ failure = "refusal"
    /\ held = {} /\ booted = {}
    /\ resumes = 0 /\ edits = 0

\* A refusal ends the run, in an experiment any ordinary error does, and what
\* is left raises out of the invocation.
Exit(kind) ==
    /\ pc' = IF kind = "refusal" \/ (kind = "error" /\ Experiment)
             THEN "ended" ELSE "raised"
    /\ guest' = NoGuest

-----------------------------------------------------------------------------
(* On the host                                                             *)

\* The overlays of the run must still be what the run recorded.
Unchanged == \A i \in DOMAIN Overlays : Overlays[i] = "candidate"
                                        \/ artifact[Overlays[i]] = "whole"

Begin ==
    /\ pc = "idle"
    /\ \/ /\ Unchanged /\ Slot < MaxSlots
          /\ ledgers' = [ledgers EXCEPT ![attempt] = Append(@, <<>>)]
          /\ pc' = "plan" /\ UNCHANGED guest
       \/ ~Unchanged /\ Exit("refusal") /\ UNCHANGED ledgers
       \/ Unchanged /\ Slot = MaxSlots /\ Exit("abort") /\ UNCHANGED ledgers
    /\ UNCHANGED <<host, required, identity, attempt, plan, copied, failure, ghosts, resumes>>

\* plan_startup_input: no plan is right only when no identity was written.
PlanInput ==
    /\ pc = "plan"
    /\ plan' = IF required /\ sample # "unusable" THEN sample ELSE "none"
    /\ pc' = CASE required /\ sample = "unusable" -> "reject"
               [] required /\ sample # "unusable" -> "identify"
               [] ~required /\ identity # "none" -> "reject"
               [] OTHER -> "create"
    /\ UNCHANGED <<host, required, records, attempt, copied, guest, failure, ghosts, resumes>>

\* Mutant of Matches: any identity is accepted.
MatchesBlindly == identity # "none"

Matches == identity = plan

\* write_or_verify_startup_input_identity in a boot attempt, which creates the
\* file first; an experiment only verifies it.
Identify ==
    /\ pc = "identify"
    /\ \/ Matches /\ pc' = "history" /\ UNCHANGED identity
       \/ ~Matches /\ (identity # "none" \/ Experiment)
          /\ pc' = "reject" /\ UNCHANGED identity
       \/ identity = "none" /\ ~Experiment
          /\ \/ identity' = "partial" /\ pc' = "inscribe"
             \/ pc' = "reject" /\ UNCHANGED identity
    /\ UNCHANGED <<host, required, ledgers, attempt, plan, copied, guest, failure, ghosts, resumes>>

\* A failed write leaves the file as it is: later attempts do not match it.
Inscribe ==
    /\ pc = "inscribe"
    /\ \/ identity' = plan /\ pc' = "history"
       \/ pc' = "reject" /\ UNCHANGED identity
    /\ UNCHANGED <<host, required, ledgers, attempt, plan, copied, guest, failure, ghosts, resumes>>

\* A complete record: a start row and one terminal row, of the planned input.
Complete(ledger, input) ==
    /\ Len(ledger) = 2
    /\ ledger[1] = [kind |-> "start", input |-> input]
    /\ ledger[2] \in [kind : {"satisfied", "failed"}, input : {input}]

\* Mutant of History: the earlier slots are not read.
HistoryUnread == TRUE

\* verify_startup_input_attempt_history: every earlier slot has its record.
History == \A s \in 1..(Slot - 1) : Complete(ledgers[attempt][s], plan)

CheckHistory ==
    /\ pc = "history"
    /\ pc' = IF History THEN "create" ELSE "reject"
    /\ UNCHANGED <<host, required, records, attempt, plan, copied, guest, failure, ghosts, resumes>>

\* record_startup_input_rejection writes a pair of rows of its own purpose; when
\* it fails, a boot attempt raises.
Reject ==
    /\ pc = "reject"
    /\ \/ /\ ledgers' = [ledgers EXCEPT ![attempt][Slot] = <<Row("planning"), Row("planning")>>]
          /\ Exit("refusal")
       \/ UNCHANGED ledgers /\ Exit("error")
    /\ UNCHANGED <<host, required, identity, attempt, plan, copied, failure, ghosts, resumes>>

-----------------------------------------------------------------------------
(* In the sandbox                                                          *)

\* write_overlay, then managed_sandbox clones the workspace as it is now.
Create ==
    /\ pc = "create"
    /\ \/ /\ artifact' = IF Experiment THEN [artifact EXCEPT !["candidate"] = "whole"]
                         ELSE artifact
          /\ guest' = [NoGuest EXCEPT !.sample = sample]
          /\ copied' = 0 /\ pc' = "copy"
       \/ /\ \E kind \in {"error", "abort"} : Exit(kind)
          /\ UNCHANGED <<artifact, copied>>
    /\ UNCHANGED <<sample, edits, required, records, attempt, plan, failure, ghosts, resumes>>

\* _materialize_guest_overlay reads the host file again, against its hash.
Copy ==
    /\ pc = "copy" /\ copied < Len(Overlays)
    /\ LET o == Overlays[copied + 1] IN
       \/ /\ artifact[o] = "whole"
          /\ guest' = [guest EXCEPT !.files[o] = "whole"] /\ pc' = "check"
       \/ \E kind \in {"refusal", "abort"} : Exit(kind)
    /\ UNCHANGED <<host, required, records, attempt, plan, copied, failure, ghosts, resumes>>

\* _verify_guest_overlay hashes the file in the guest.
Check ==
    /\ pc = "check"
    /\ \/ /\ guest.files[Overlays[copied + 1]] = "whole"
          /\ copied' = copied + 1 /\ pc' = "copy" /\ UNCHANGED guest
       \/ (\E kind \in {"refusal", "abort"} : Exit(kind)) /\ UNCHANGED copied
    /\ UNCHANGED <<host, required, records, attempt, plan, failure, ghosts, resumes>>

Appended(row) == ledgers' = [ledgers EXCEPT ![attempt][Slot] = Append(@, row)]

\* A failed append may leave nothing, part of the row, or the whole row when
\* only the fsync failed.
AppendFails(row) == \/ UNCHANGED ledgers
                    \/ Appended(Row("partial"))
                    \/ Appended(row)

Fails(kind) == pc' = "fail" /\ failure' = kind

\* materialize_startup_input opens the ledger with its start row.
StartLedger ==
    /\ pc = "copy" /\ copied = Len(Overlays)
    /\ \/ ~required /\ pc' = "up" /\ UNCHANGED <<ledgers, failure>>
       \/ required /\ Appended(Row("start")) /\ pc' = "adapter" /\ UNCHANGED failure
       \/ required /\ AppendFails(Row("start")) /\ Fails("refusal")
    /\ UNCHANGED <<host, required, identity, attempt, plan, copied, guest, ghosts, resumes>>

\* Mutant of Adapted: the guest's exit status is not looked at.
AdaptedAnyhow == pc' = "config" /\ UNCHANGED failure

\* The adapter succeeded: exit status 0 and its two lines.
Adapted == guest'.env = plan /\ pc' = "config" /\ UNCHANGED failure

\* The adapter compares the guest's .env.sample with the plan, writes the .env
\* and hashes it.  It may fail half way, and its answer may be lost.
Adapter ==
    /\ pc = "adapter"
    /\ \/ /\ guest.sample = plan
          /\ \E env \in {"none", "partial", plan} : guest' = [guest EXCEPT !.env = env]
       \/ UNCHANGED guest
    /\ \/ Adapted
       \/ \E kind \in Failures : Fails(kind)
    /\ held' = IF guest'.env = plan THEN held \cup {<<attempt, Slot, plan>>} ELSE held
    /\ UNCHANGED <<host, required, records, attempt, plan, copied, booted, resumes>>

\* Compose resolves the configuration, and its services, volumes and bind
\* sources are acceptable, or not.
Resolve ==
    /\ pc = "config"
    /\ \/ pc' = "finish" /\ UNCHANGED failure
       \/ \E kind \in Failures : Fails(kind)
    /\ UNCHANGED <<host, required, records, attempt, plan, copied, guest, ghosts, resumes>>

\* The terminal row; when it cannot be written the attempt has failed.
Finish ==
    /\ pc = "finish"
    /\ \/ Appended(Row("satisfied")) /\ pc' = "up" /\ UNCHANGED failure
       \/ AppendFails(Row("satisfied")) /\ Fails("refusal")
    /\ UNCHANGED <<host, required, identity, attempt, plan, copied, guest, ghosts, resumes>>

\* Mutant of Fail: the attempt starts over in the same sandbox.
FailAgain ==
    /\ pc = "fail"
    /\ pc' = "copy" /\ ledgers' = [ledgers EXCEPT ![attempt][Slot] = <<>>]
    /\ UNCHANGED <<host, required, identity, attempt, plan, copied, guest, failure, ghosts, resumes>>

\* The handlers append a failed row, which may fail too, and raise.
Fail ==
    /\ pc = "fail"
    /\ Appended(Row("failed")) \/ AppendFails(Row("failed"))
    /\ Exit(failure)
    /\ UNCHANGED <<host, required, identity, attempt, plan, copied, failure, ghosts, resumes>>

\* boot_compose runs `up` with these inputs.  The run goes on with the next
\* attempt, ends, or raises.
Up ==
    /\ pc = "up"
    /\ booted' = booted \cup {[attempt |-> attempt, slot |-> Slot, env |-> guest.env,
                               files |-> guest.files]}
    /\ \/ /\ attempt < Len(OverlaysOf)
          /\ attempt' = attempt + 1 /\ pc' = "idle" /\ guest' = NoGuest
       \/ (\E kind \in Failures : Exit(kind)) /\ UNCHANGED attempt
    /\ UNCHANGED <<host, required, records, plan, copied, failure, held, resumes>>

-----------------------------------------------------------------------------
(* The environment                                                         *)

Waiting == {"raised", "down"}

Kill ==
    /\ pc \notin Waiting \cup {"ended"}
    /\ pc' = "down" /\ guest' = NoGuest
    /\ UNCHANGED <<host, required, records, attempt, plan, copied, failure, ghosts, resumes>>

\* The checkpoint of the node before this attempt is where the run goes on.
Resume ==
    /\ pc \in Waiting /\ resumes < MaxResumes
    /\ pc' = "idle" /\ resumes' = resumes + 1
    /\ UNCHANGED <<host, required, records, attempt, plan, copied, guest, failure, ghosts>>

Edit ==
    /\ edits < MaxEdits /\ pc # "ended"
    /\ edits' = edits + 1
    /\ \/ sample' \in Contents \cup {"unusable"} /\ UNCHANGED artifact
       \/ (\E o \in OverlayKinds : artifact' = [artifact EXCEPT ![o] = "changed"])
          /\ UNCHANGED sample
    /\ UNCHANGED <<required, records, attempt, plan, pc, copied, guest, failure, ghosts, resumes>>

Advance == \/ Begin \/ PlanInput \/ Identify \/ Inscribe \/ CheckHistory \/ Reject
           \/ Create \/ Copy \/ Check \/ StartLedger \/ Adapter \/ Resolve
           \/ Finish \/ Fail \/ Up

Next == Advance \/ Kill \/ Resume \/ Edit

Spec == Init /\ [][Next]_vars

\* Every command in a sandbox has a timeout, so a started attempt goes on.
FairSpec == Spec /\ WF_vars(Advance)

-----------------------------------------------------------------------------
(* Properties                                                              *)

Rows == [kind : {"start", "satisfied", "failed", "planning", "partial"},
         input : Contents \cup {"none"}]

\* The values of the variables: every ledger is a sequence of rows.
TypeOK ==
    /\ sample \in Contents \cup {"unusable"}
    /\ artifact \in [OverlayKinds -> {"whole", "changed"}]
    /\ required \in BOOLEAN
    /\ identity \in Contents \cup {"none", "partial"}
    /\ ledgers \in [Attempts -> Seq(Seq(Rows))]
    /\ attempt \in Attempts /\ plan \in Contents \cup {"none"}
    /\ copied \in Nat /\ failure \in Failures
    /\ guest \in [sample : Contents \cup {"none", "unusable"},
                  env : Contents \cup {"none", "partial"},
                  files : [OverlayKinds -> {"none", "whole"}]]
    /\ resumes \in Nat /\ edits \in Nat

\* Every workload of a run boots with the same startup input, the one of its
\* identity, and with every overlay of its attempt, whatever was edited, failed
\* or was repeated: a baseline and an experiment differ in the overlays only.
BootsAreEquipped ==
    \A b \in booted :
        /\ b.env = IF required THEN identity ELSE "none"
        /\ \A i \in DOMAIN OverlaysOf[b.attempt] :
               b.files[OverlaysOf[b.attempt][i]] = "whole"

\* A boot that needs a startup input comes after whole records only: the slots
\* interrupted before it have told how they ended, and its own says satisfied.
BootedOverWholeHistory ==
    required => \A b \in booted :
        /\ \A s \in 1..b.slot : Complete(ledgers[b.attempt][s], b.env)
        /\ ledgers[b.attempt][b.slot][2].kind = "satisfied"

\* A ledger that says satisfied is about a guest that held the planned input,
\* though its answer, its fsync or the process was lost around the row.
SatisfiedIsTrue ==
    \A a \in Attempts : \A s \in DOMAIN ledgers[a] : \A i \in DOMAIN ledgers[a][s] :
        ledgers[a][s][i].kind = "satisfied" => <<a, s, ledgers[a][s][i].input>> \in held

\* Every invocation comes to its end: no failed write or command keeps an
\* attempt going.
InvocationEnds == <>[](pc \in Waiting \cup {"ended"})
=============================================================================
