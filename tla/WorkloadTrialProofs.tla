------------------------ MODULE WorkloadTrialProofs ------------------------
(***************************************************************************)
(* The safety invariants of WorkloadTrial, for every set of services, every*)
(* plan and every number of changes to the containers.                     *)
(*                                                                         *)
(* The three parts it composes have variables of their own, so the         *)
(* inductive invariant is a conjunction of parts that are inductive nearly *)
(* on their own: what the boot has seen, what its document tells, what the *)
(* ledger of the observation holds against the operations left, what the   *)
(* journey has settled, and how far the trial is with them.                *)
(***************************************************************************)
EXTENDS WorkloadTrial, FiniteSetTheorems, SequenceTheorems, WellFoundedInduction, TLAPS

-----------------------------------------------------------------------------
(* The boot                                                                *)

Statuses == {"absent", "starting", "ready", "unhealthy", "exited"}

ContainersTyped == /\ status \in [Services -> Statuses]
                   /\ container \in [Services -> Nat]

BootPlaces == {"start", "verify", "up", "upping", "ps", "logs", "judge", "returned", "raised"}

\* What the last `up` and the last listing are worth at each place of the boot.
BootKnows ==
    /\ at \in BootPlaces
    /\ verdict \in {"none", "pass", "fail"}
    /\ verdict # "none" <=> at = "returned"
    /\ up = Boot!Worked => at \in {"ps", "logs", "judge", "returned", "raised"}
    /\ at = "ps" /\ up = Boot!Worked => \A s \in Services : status[s] # "absent"
    /\ at \in {"logs", "judge"} /\ up = Boot!Worked /\ Boot!AllReady(last) =>
         DOMAIN last = Services
    /\ verdict = "pass" => DOMAIN last = Services /\ Boot!Confirmed

\* One stage may have begun that no row tells of yet: an `up` whose result is not
\* recorded before the listing.
Pending == IF at = "upping" \/ (at = "ps" /\ ~rechecked) THEN 1 ELSE 0

StageNames == {"config", "up", "up_recheck", "ps", "ps_final", "logs"}
Rows == (StageNames \cup {"up_initial", "ps_initial"}) \X {"result", "exception"}
Documents == [commands: Seq(Rows), final: {"none", "pass", "fail"},
              recovery: {"none", "applied", "stopped", "unsupported"},
              state: {"none", "torn", "whole"}]

\* Every row tells of the stage at its place, and only the last of an exception.
Tells(rows) ==
    /\ Len(rows) <= Len(stages)
    /\ \A i \in 1..Len(rows) : /\ StageName(rows[i]) = stages[i]
                               /\ rows[i][2] = "exception" => i = Len(rows)

DocumentTells ==
    /\ document \in Documents /\ stages \in Seq(StageNames)
    /\ Tells(document.commands)
    /\ at # "raised" =>
         /\ Len(stages) = Len(document.commands) + Pending
         /\ \A i \in 1..Len(document.commands) : document.commands[i][2] = "result"
    /\ Pending = 1 => stages[Len(stages)] = IF rechecked THEN "up_recheck" ELSE "up"
    /\ at = "judge" => document.state = "whole"
    /\ at = "returned" => document.state = "whole" /\ document.final = verdict
    /\ document.final # "none" => at \in {"returned", "raised"}

BootIInv == phase = "boot" => BootKnows
DocumentIInv == phase = "boot" => /\ evidence \in BOOLEAN /\ rechecked \in BOOLEAN
                                  /\ evidence => DocumentTells

-----------------------------------------------------------------------------
(* The journey                                                             *)

Failures == {"none", "network_error", "encoding", "redirect", "assertion", "auth_failure"}
Answers == [kind: Failures \cup {"body"}, status: {"none", "success", "error", "redirect"},
            body: {"none", "whole", "truncated"}, token: BOOLEAN]
Evidence == [state: {"whole", "torn"}, failure: Failures, response: Answers]

JourneyTyped ==
    /\ journey \in Seq(JourneySteps) /\ step \in Nat /\ token \in Nat
    /\ answer \in Answers /\ files \in Seq(Evidence)
    /\ answer.kind = "none" => answer = Http!NoAnswer
    /\ outcome \in {"none", "pass", "fail", "unsupported", "raised"}

\* The evidence of a step that was counted.
Good(file, s) == /\ file.state = "whole" /\ file.failure = "none"
                 /\ s.auth = "capture" => /\ file.response.status = "success"
                                          /\ file.response.body = "whole"
AllGood == /\ Len(files) <= Len(journey)
           /\ \A i \in 1..Len(files) : Good(files[i], journey[i])

\* The token is that of the last of the steps before the n-th that captures one.
TokenOfLast(n) ==
    IF token = 0 THEN \A i \in 1..(n - 1) : journey[i].auth # "capture"
    ELSE /\ token \in 1..(n - 1) /\ journey[token].auth = "capture"
         /\ \A i \in 1..(n - 1) : journey[i].auth = "capture" => i <= token

JourneyKnows ==
    /\ outcome = "none" /\ step > 0 =>
         /\ step <= Len(journey) /\ Len(files) = step - 1
         /\ AllGood /\ TokenOfLast(step)
         /\ IsFiniteSet(visited) /\ Cardinality(visited) <= MaxRedirects + 1
    /\ outcome = "pass" => Len(files) = Len(journey) /\ AllGood

JourneyIInv == JourneyTyped /\ JourneyKnows

-----------------------------------------------------------------------------
(* The observation                                                         *)

OpNames == {"discovery", "inspect", "diff", "top", "network", "audit"}
Ops == [name: OpNames, of: Services \cup {"none"}, id: Nat]
LedgerRows == Ops \X {"start", "success", "failure", "torn"}
Top(s, id) == [name |-> "top", of |-> s, id |-> id]

LedgerTyped ==
    /\ recorded \in BOOLEAN
    /\ doing \in {"idle", "start", "run", "end", "returned", "raised"}
    /\ todo \in Seq(Ops) /\ ledger \in Seq(LedgerRows)
    /\ DOMAIN snapshot \subseteq Services /\ snapshot \in [DOMAIN snapshot -> Nat]
    /\ ~recorded => ledger = <<>>
    /\ doing = "idle" => todo = <<>> /\ ledger = <<>> /\ DOMAIN snapshot = {}

\* What follows a listing: an inspection is followed by the top of the same
\* container, and the audit is the end of it.
Ordered(ops) ==
    /\ \A i \in 1..Len(ops) : ops[i].name = "audit" => i = Len(ops)
    /\ \A i \in 1..Len(ops) : ops[i].name = "inspect" =>
         /\ i + 2 <= Len(ops) /\ ops[i].of \in Services
         /\ ops[i + 2] = Top(ops[i].of, ops[i].id)
    /\ \A i \in 1..Len(ops) : ops[i].name = "discovery" => i = 1
Concluded(ops) == ops # <<>> /\ ops[Len(ops)] = Observe!Op("audit")

TodoOrdered ==
    /\ Ordered(todo)
    /\ doing \in {"start", "run"} =>
         \/ todo = <<Observe!Op("discovery")>>
         \/ Concluded(todo) /\ todo[1].name # "discovery"
    /\ doing = "end" => Concluded(todo)
    /\ doing = "end" /\ todo[1].name = "audit" => audit = "whole"
    /\ doing = "returned" => todo = <<>> /\ audit = "whole"

\* The rows come in pairs of the start and the success of one operation.
Clean == \A i \in 1..Len(ledger) :
            IF i % 2 = 1 THEN ledger[i][2] = "start"
            ELSE ledger[i][2] = "success" /\ ledger[i][1] = ledger[i - 1][1]
Unfinished == /\ Len(ledger) % 2 = 1
              /\ ledger[Len(ledger)] = <<todo[1], "start">>

PairsHold ==
    \A i \in 1..Len(ledger) :
       /\ i % 2 = 1 => ledger[i][2] = "start" \/ (ledger[i][2] = "torn" /\ i = Len(ledger))
       /\ i % 2 = 0 => /\ ledger[i][1] = ledger[i - 1][1]
                       /\ ledger[i][2] # "start"
                       /\ ledger[i][2] # "success" => i = Len(ledger)

LedgerPaired ==
    /\ PairsHold
    /\ doing # "raised" => Clean
    /\ doing \in {"start", "returned"} => Len(ledger) % 2 = 0
    /\ doing \in {"run", "end"} /\ recorded => Unfinished

Audit == <<Observe!Op("audit"), "success">>
AuditLast ==
    /\ \A i \in 1..Len(ledger) : ledger[i] = Audit => audit = "whole" /\ doing \in {"returned", "raised"}
    /\ doing = "returned" /\ recorded => ledger # <<>> /\ ledger[Len(ledger)] = Audit

\* What was seen of a container has its last operation in the ledger, or to come.
Accounted(s) ==
    \/ \E i \in 1..Len(todo) : todo[i] = Top(s, snapshot[s])
    \/ \E i \in 1..Len(ledger) : ledger[i] = <<Top(s, snapshot[s]), "success">>
SnapshotAccounted ==
    recorded /\ doing # "raised" => \A s \in DOMAIN snapshot : Accounted(s)

LedgerIInv == LedgerTyped /\ TodoOrdered /\ LedgerPaired /\ AuditLast /\ SnapshotAccounted

-----------------------------------------------------------------------------
(* The trial                                                               *)

Live == {"publish", "journeys", "observation"}

TrialKnows ==
    /\ plan \in Seq(Seq(JourneySteps))
    /\ kind \in {"baseline", "experiment"}
    /\ phase \in {"boot", "recover", "done", "raised"} \cup Live
    /\ results \in Seq({"pass", "fail", "unsupported"})
    /\ phase = "boot" => results = <<>>
    /\ phase # "done" => record = "none"
    /\ kind = "baseline" => record = "none"
    /\ phase \in Live => verdict = "pass"
    /\ phase \in {"publish", "journeys"} => Len(results) < Len(plan)
    /\ phase \in {"publish", "journeys"} /\ kind = "experiment" =>
         doing = "returned" /\ \A i \in 1..Len(results) : results[i] = "pass"
    /\ phase = "observation" =>
         IF kind = "baseline" THEN Len(results) = Len(plan) ELSE results = <<>> /\ plan # <<>>
    /\ phase = "recover" => kind = "baseline" /\ verdict = "fail"

Earned ==
    /\ record = "KEEP" => /\ verdict = "pass" /\ doing = "returned"
                          /\ Len(results) = Len(plan) /\ plan # <<>>
                          /\ \A i \in 1..Len(results) : results[i] = "pass"
    /\ record = "ROLLBACK" =>
         verdict = "fail" \/ (/\ results # <<>> /\ results[Len(results)] = "fail"
                              /\ \A i \in 1..(Len(results) - 1) : results[i] = "pass")
    /\ kind = "baseline" /\ phase = "done" /\ verdict = "pass" =>
         Len(results) = Len(plan) /\ doing = "returned"

TrialIInv == TrialKnows /\ Earned

IInv == /\ ContainersTyped /\ BootIInv /\ DocumentIInv
        /\ JourneyIInv /\ LedgerIInv /\ TrialIInv

-----------------------------------------------------------------------------
(* The steps of the boot                                                   *)

LEMMA LoggedGoes ==
    ASSUME NEW rows, NEW next, Boot!Logged(rows, next)
    PROVE  at' \in {next, "raised"}
BY DEF Boot!Logged

LEMMA ResultsDiffer ==
    /\ Boot!Worked # Boot!Waiting /\ Boot!Worked # Boot!Broken
    /\ Boot!Waiting # Boot!Broken
BY DEF Boot!Worked, Boot!Waiting, Boot!Broken

\* A listing of containers that all exist lists every service.
LEMMA ListingIsWhole ==
    ASSUME ContainersTyped, \A s \in Services : status[s] # "absent"
    PROVE  DOMAIN Boot!Listing = Services
BY DEF Boot!Listing, ContainersTyped

LEMMA BootStepKnows ==
    ASSUME ContainersTyped, BootKnows, Boot!BootStep
    PROVE  ContainersTyped' /\ BootKnows'
<1>0. /\ Boot!Worked # Boot!Waiting /\ Boot!Worked # Boot!Broken
  BY ResultsDiffer
<1>1. CASE Boot!Preflight
  <2>1. at' \in {"verify", "raised"} /\ at = "start"
    BY <1>1, LoggedGoes DEF Boot!Preflight
  <2>2. UNCHANGED <<up, first, last, rechecked, verdict, status, container>>
    BY <1>1 DEF Boot!Preflight
  <2> QED BY <2>1, <2>2 DEF BootKnows, ContainersTyped, BootPlaces, Boot!Worked
<1>2. CASE Boot!VerifyImages
  <2>1. at' \in {"up", "raised"} /\ at = "verify"
    BY <1>2, LoggedGoes DEF Boot!VerifyImages
  <2>2. UNCHANGED <<up, first, last, rechecked, verdict, status, container>>
    BY <1>2 DEF Boot!VerifyImages
  <2> QED BY <2>1, <2>2 DEF BootKnows, ContainersTyped, BootPlaces, Boot!Worked
<1>3. CASE Boot!UpStarts
  <2>1. /\ at = "up" /\ at' = "upping"
        /\ UNCHANGED <<up, first, last, rechecked, verdict, container>>
    BY <1>3 DEF Boot!UpStarts
  <2>2. status' \in [Services -> Statuses]
    BY <1>3 DEF Boot!UpStarts, ContainersTyped, Statuses
  <2> QED BY <2>1, <2>2 DEF BootKnows, ContainersTyped, BootPlaces, Boot!Worked
<1>4. CASE Boot!UpReturns
  <2>1. /\ at = "upping" /\ at' \in {"ps", "raised"}
        /\ UNCHANGED <<first, last, rechecked, verdict, status, container>>
    BY <1>4, LoggedGoes DEF Boot!UpReturns
  <2>2. up' = Boot!Worked => \A s \in Services : status[s] # "absent"
    <3>1. CASE UNCHANGED up
      BY <3>1, <2>1 DEF BootKnows
    <3>2. CASE up' # up
      BY <3>2, <1>0, <1>4 DEF Boot!UpReturns
    <3> QED BY <3>1, <3>2
  <2> QED BY <2>1, <2>2 DEF BootKnows, ContainersTyped, BootPlaces, Boot!Worked
<1>5. CASE Boot!Ps
  <2>1. /\ at = "ps" /\ at' \in {"up", "logs", "raised"}
        /\ UNCHANGED <<up, verdict, status, container>>
    BY <1>5, LoggedGoes DEF Boot!Ps
  <2>2. at' = "up" => up # Boot!Worked
    <3>1. \/ at' = "raised"
          \/ \E rows \in {Boot!Listing, Boot!NotListed} :
               Boot!Recheck(rows) \/ at' \in {"logs", "raised"}
      BY <1>5, LoggedGoes DEF Boot!Ps
    <3> QED BY <3>1, <1>0 DEF Boot!Recheck
  <2>3. at' = "logs" => last' \in {Boot!Listing, Boot!NotListed}
    BY <1>5, LoggedGoes DEF Boot!Ps
  <2>4. ASSUME at' = "logs", up = Boot!Worked, Boot!AllReady(last')
        PROVE  DOMAIN last' = Services
    <3>1. last' # Boot!NotListed
      BY <2>4 DEF Boot!AllReady, Boot!NotListed
    <3> QED BY <3>1, <2>1, <2>3, <2>4, ListingIsWhole DEF BootKnows
  <2>5. verdict' = "none"
    BY <2>1 DEF BootKnows
  <2> QED BY <2>1, <2>2, <2>4, <2>5 DEF BootKnows, ContainersTyped, BootPlaces, Boot!Worked, Boot!AllReady
<1>6. CASE Boot!PsAgain
  <2>1. /\ at = "ps" /\ at' \in {"logs", "raised"}
        /\ UNCHANGED <<up, first, rechecked, verdict, status, container>>
    BY <1>6, LoggedGoes DEF Boot!PsAgain
  <2>3. at' = "logs" => last' \in {Boot!Listing, Boot!NotListed}
    BY <1>6, LoggedGoes DEF Boot!PsAgain
  <2>4. ASSUME at' = "logs", up = Boot!Worked, Boot!AllReady(last')
        PROVE  DOMAIN last' = Services
    <3>1. last' # Boot!NotListed
      BY <2>4 DEF Boot!AllReady, Boot!NotListed
    <3> QED BY <3>1, <2>1, <2>3, <2>4, ListingIsWhole DEF BootKnows
  <2>5. verdict' = "none"
    BY <2>1 DEF BootKnows
  <2> QED BY <2>1, <2>4, <2>5 DEF BootKnows, ContainersTyped, BootPlaces, Boot!Worked, Boot!AllReady
<1>7. CASE Boot!Logs
  <2>1. /\ at = "logs" /\ at' \in {"judge", "raised"}
        /\ UNCHANGED <<up, first, last, rechecked, verdict, status, container>>
    BY <1>7, LoggedGoes DEF Boot!Logs
  <2> QED BY <2>1 DEF BootKnows, ContainersTyped, BootPlaces, Boot!Worked, Boot!AllReady
<1>8. CASE Boot!Judge
  <2>1. /\ at = "judge" /\ at' \in {"returned", "raised"}
        /\ UNCHANGED <<up, first, last, rechecked, status, container>>
    BY <1>8 DEF Boot!Judge
  <2>2. verdict = "none"
    BY <2>1 DEF BootKnows
  <2>3. CASE at' = "raised"
    <3>1. verdict' = "none"
      BY <1>8, <2>2, <2>3 DEF Boot!Judge
    <3> QED BY <2>1, <2>3, <3>1 DEF BootKnows, ContainersTyped, BootPlaces
  <2>4. CASE at' = "returned"
    <3>1. verdict' = IF up = Boot!Worked /\ Boot!Confirmed THEN "pass" ELSE "fail"
      BY <1>8, <2>4 DEF Boot!Judge
    <3>2. Boot!Confirmed => Boot!AllReady(last)
      BY DEF Boot!Confirmed
    <3>3. verdict' = "pass" => DOMAIN last' = Services /\ Boot!Confirmed'
      <4>1. UNCHANGED Boot!Confirmed
        BY <2>1 DEF Boot!Confirmed, Boot!Snapshot, Boot!AllReady, Boot!SomeProbed, Boot!Ids
      <4> QED BY <4>1, <3>1, <3>2, <2>1 DEF BootKnows
    <3> QED BY <2>1, <2>4, <3>1, <3>3 DEF BootKnows, ContainersTyped, BootPlaces
  <2> QED BY <2>1, <2>3, <2>4
<1> QED
  BY <1>1, <1>2, <1>3, <1>4, <1>5, <1>6, <1>7, <1>8 DEF Boot!BootStep

-----------------------------------------------------------------------------
(* The document of the boot                                                *)

\* A list of rows follows what is told: a row for every stage begun since.
Follows(rows) ==
    /\ rows \in Seq(Rows)
    /\ Len(stages') = Len(document.commands) + Len(rows)
    /\ \A i \in 1..Len(rows) :
         /\ StageName(rows[i]) = stages'[Len(document.commands) + i]
         /\ rows[i][2] = "exception" => i = Len(rows)

\* Whatever part of the rows reaches the file, the document tells what was done.
LEMMA LoggedTells ==
    ASSUME NEW rows, NEW next, Boot!Logged(rows, next), evidence,
           DocumentTells, at \notin {"returned", "raised"}, Follows(rows),
           stages' \in Seq(StageNames), rows # <<>>,
           \A i \in 1..Len(stages) : stages'[i] = stages[i],
           next \in {"verify", "up", "ps", "logs", "judge", "raised"},
           next = "ps" => rechecked',
           next # "raised" => \A i \in 1..Len(rows) : rows[i][2] = "result"
    PROVE  DocumentTells'
<1> DEFINE before == document.commands
           n0 == Len(before)
<1>1. /\ before \in Seq(Rows) /\ document \in Documents /\ n0 \in Nat
      /\ document.final = "none" /\ rows \in Seq(Rows) /\ n0 <= Len(stages)
      /\ \A i \in 1..n0 : StageName(before[i]) = stages'[i] /\ before[i][2] = "result"
  <2>1. /\ document \in Documents /\ stages \in Seq(StageNames) /\ Tells(before)
        /\ \A i \in 1..n0 : before[i][2] = "result"
        /\ document.final = "none" /\ rows \in Seq(Rows)
    BY DEF DocumentTells, Follows
  <2>2. before \in Seq(Rows) /\ n0 \in Nat
    BY <2>1 DEF Documents
  <2>3. n0 <= Len(stages) /\ \A i \in 1..n0 : StageName(before[i]) = stages[i]
    BY <2>1 DEF Tells
  <2>4. Len(stages) \in Nat
    BY <2>1
  <2>5. \A i \in 1..n0 : i \in 1..Len(stages)
    BY <2>2, <2>3, <2>4
  <2> QED BY <2>1, <2>2, <2>3, <2>5
<1>01. \A i \in 1..Len(rows) :
         /\ StageName(rows[i]) = stages'[n0 + i]
         /\ rows[i][2] = "exception" => i = Len(rows)
  BY DEF Follows
<1>02. Len(stages') = n0 + Len(rows) /\ Len(rows) \in Nat
  BY DEF Follows
<1>03. before = document.commands /\ n0 = Len(before)
  OBVIOUS
<1> HIDE DEF before, n0
<1>2. at' \in {next, "raised"}
  BY LoggedGoes
<1>3. Pending' = 0
  BY <1>2 DEF Pending
<1> DEFINE Holds(told) ==
             /\ told \in Seq(Rows) /\ Len(told) <= Len(stages')
             /\ \A i \in 1..Len(told) : /\ StageName(told[i]) = stages'[i]
                                        /\ told[i][2] = "exception" => i = Len(told)
<1>4. \A n \in 0..Len(rows) : Holds(before \o SubSeq(rows, 1, n))
  <2> TAKE n \in 0..Len(rows)
  <2> DEFINE part == SubSeq(rows, 1, n)
             told == before \o part
  <2>1. /\ part \in Seq(Rows) /\ Len(part) = n
        /\ \A i \in 1..n : part[i] = rows[i]
    BY <1>1
  <2> HIDE DEF part
  <2>2. told \in Seq(Rows)
    BY <2>1, <1>1 DEF told
  <2>3. Len(told) = n0 + n
    <3>0. before \in Seq(Rows) /\ part \in Seq(Rows)
      BY <2>1, <1>1
    <3>1. Len(before \o part) = Len(before) + Len(part)
      BY <3>0, ConcatProperties
    <3> QED BY <3>1, <2>1, <1>03 DEF told
  <2>4. \A i \in 1..(n0 + n) : told[i] = IF i <= n0 THEN before[i] ELSE part[i - n0]
    BY <2>1, <2>3, <1>1, <1>03, ConcatProperties DEF told
  <2> HIDE DEF told
  <2>5. Len(told) <= Len(stages')
    BY <2>3, <1>1, <1>02
  <2>6. ASSUME NEW i \in 1..Len(told)
        PROVE  StageName(told[i]) = stages'[i] /\ (told[i][2] = "exception" => i = Len(told))
    <3>0. i \in 1..(n0 + n)
      BY <2>3
    <3>1. CASE i <= n0
      <4>1. told[i] = before[i] /\ i \in 1..n0
        BY <3>0, <3>1, <2>4, <1>1
      <4>2. told[i][2] = "result"
        BY <4>1, <1>1
      <4> QED BY <4>1, <4>2, <1>1
    <3>2. CASE ~(i <= n0)
      <4>1. told[i] = part[i - n0] /\ i - n0 \in 1..n
        BY <3>0, <3>2, <2>4, <1>1
      <4>2. i - n0 \in 1..Len(rows) /\ n0 + (i - n0) = i
        BY <4>1, <3>0, <1>1, <1>02
      <4>3. told[i] = rows[i - n0]
        BY <4>1, <2>1
      <4>4. told[i][2] = "exception" => i - n0 = Len(rows)
        BY <4>2, <4>3, <1>01
      <4>5. i - n0 = Len(rows) => i = Len(told)
        <5>1. n \in Nat /\ n <= Len(rows) /\ i \in Nat /\ i - n0 <= n
          BY <4>1, <1>02, <3>0, <1>1
        <5> QED BY <5>1, <2>3, <1>02, <1>1
      <4> QED BY <4>2, <4>3, <4>4, <4>5, <1>01
    <3> QED BY <3>1, <3>2
  <2> QED BY <2>2, <2>5, <2>6 DEF told, part
<1>5. /\ document' \in Documents /\ document'.final = "none"
      /\ Holds(document'.commands)
      /\ at' # "raised" => document'.commands = before \o rows /\ document'.state = "whole"
  <2>1. \A n \in 0..Len(rows) : SubSeq(rows, 1, n) \in Seq(Rows)
    BY <1>1
  <2>2. before \o SubSeq(rows, 1, 0) = before
    BY <1>1
  <2>3. SubSeq(rows, 1, Len(rows)) = rows /\ Len(rows) \in 0..Len(rows)
    BY <1>1
  <2>4. \A new \in Seq(Rows) : /\ Boot!With(new) \in Documents
                               /\ Boot!With(new).commands = before \o new
                               /\ Boot!With(new).final = "none" /\ Boot!With(new).state = "whole"
    <3> TAKE new \in Seq(Rows)
    <3>1. before \o new \in Seq(Rows)
      BY <1>1
    <3> QED BY <3>1, <1>1, <1>03 DEF Boot!With, Documents
  <2>5. CASE document' = Boot!With(rows)
    <3> HIDE DEF Holds
    <3>0. Holds(before \o SubSeq(rows, 1, Len(rows)))
      BY <2>3, <1>4
    <3>1. Holds(before \o rows)
      BY <3>0, <2>3
    <3> QED BY <3>1, <2>5, <2>4, <1>1
  <2>6. CASE document' \in Boot!Kept(rows) /\ at' = "raised"
    <3>1. CASE document' = document
      <4>1. document'.commands = before \o SubSeq(rows, 1, 0) /\ 0 \in 0..Len(rows)
        BY <3>1, <2>2, <1>02, <1>03
      <4>2. Holds(document'.commands)
        BY <4>1, <1>4
      <4> QED BY <4>2, <3>1, <2>6, <1>1
    <3>2. CASE \E n \in 1..Len(rows) : document' = Boot!With(SubSeq(rows, 1, n))
      <4>1. PICK n \in 1..Len(rows) : document' = Boot!With(SubSeq(rows, 1, n))
        BY <3>2
      <4>2. n \in 0..Len(rows)
        BY <1>1
      <4>3. Holds(before \o SubSeq(rows, 1, n)) /\ SubSeq(rows, 1, n) \in Seq(Rows)
        BY <4>2, <2>1, <1>4
      <4> HIDE DEF Holds
      <4> QED BY <4>1, <4>3, <2>4, <2>6
    <3>3. CASE document' = [Boot!NoDocument EXCEPT !.state = "torn"]
      <4>1. document' = [commands |-> <<>>, final |-> "none", recovery |-> "none", state |-> "torn"]
        BY <3>3 DEF Boot!NoDocument
      <4>2. Holds(<<>>)
        BY <1>02, <1>1
      <4>3. document'.commands = <<>> /\ document'.final = "none"
        BY <4>1
      <4>4. document' \in Documents
        <5>1. <<>> \in Seq(Rows)
          OBVIOUS
        <5>3. \A c \in Seq(Rows), f \in {"none", "pass", "fail"}, 
                 r \in {"none", "applied", "stopped", "unsupported"},
                 t \in {"none", "torn", "whole"} :
                [commands |-> c, final |-> f, recovery |-> r, state |-> t] \in Documents
          BY DEF Documents
        <5> QED BY <4>1, <5>1, <5>3
      <4> HIDE DEF Holds
      <4> QED BY <4>2, <4>3, <4>4, <2>6
    <3> QED BY <3>1, <3>2, <3>3, <2>6 DEF Boot!Kept
  <2> QED BY <2>5, <2>6 DEF Boot!Logged
<1>6. ASSUME at' # "raised"
      PROVE  /\ Len(stages') = Len(document'.commands)
             /\ \A i \in 1..Len(document'.commands) : document'.commands[i][2] = "result"
  <2>1. document'.commands = before \o rows /\ next # "raised"
    BY <1>2, <1>5, <1>6
  <2>2. Len(before \o rows) = n0 + Len(rows)
    BY <1>1, <1>03, ConcatProperties
  <2>3. ASSUME NEW i \in 1..(n0 + Len(rows))
        PROVE  (before \o rows)[i][2] = "result"
    <3>1. CASE i <= n0
      <4>1. i \in 1..n0 /\ (before \o rows)[i] = before[i]
        BY <3>1, <2>2, <1>1, <1>03, ConcatProperties
      <4> QED BY <4>1, <1>1
    <3>2. CASE ~(i <= n0)
      <4>1. i - n0 \in 1..Len(rows) /\ (before \o rows)[i] = rows[i - n0]
        BY <3>2, <2>2, <1>1, <1>02, <1>03, ConcatProperties
      <4> QED BY <4>1, <2>1
    <3> QED BY <3>1, <3>2
  <2> QED BY <2>1, <2>2, <2>3, <1>02
<1>7. Tells(document.commands)'
  BY <1>5 DEF Tells
<1>8. at' # "returned" /\ (at' = "judge" => document'.state = "whole")
  BY <1>2, <1>5
<1> QED BY <1>3, <1>5, <1>6, <1>7, <1>8 DEF DocumentTells

\* One row, for the stage that begins with this step or the one still pending.
LEMMA OneRowFollows ==
    ASSUME NEW stage, NEW row \in Rows, DocumentTells, at # "raised",
           stages' = Append(stages, stage), Pending = 0, StageName(row) = stage
    PROVE  Follows(<<row>>)
<1>1. /\ <<row>> \in Seq(Rows) /\ Len(<<row>>) = 1 /\ <<row>>[1] = row
  OBVIOUS
<1>2. /\ Len(stages') = Len(stages) + 1 /\ stages'[Len(stages) + 1] = stage
      /\ Len(stages) \in Nat
  BY DEF DocumentTells
<1>3. Len(stages) = Len(document.commands)
  BY <1>2 DEF DocumentTells
<1>4. \A i \in 1..Len(<<row>>) : i = 1
  BY <1>1
<1> QED BY <1>1, <1>2, <1>3, <1>4 DEF Follows

\* A stage that begins leaves those before it alone.
LEMMA BegunKeeps ==
    ASSUME NEW stage \in StageNames, stages \in Seq(StageNames), stages' = Append(stages, stage)
    PROVE  /\ stages' \in Seq(StageNames)
           /\ \A i \in 1..Len(stages) : stages'[i] = stages[i]
OBVIOUS

\* The common case: a stage begins and its row is written.
LEMMA StageIsTold ==
    ASSUME NEW stage \in StageNames, NEW row \in Rows, NEW next, evidence,
           DocumentTells, at \notin {"returned", "raised"}, Pending = 0,
           stages' = Append(stages, stage), StageName(row) = stage,
           Boot!Logged(<<row>>, next),
           next \in {"verify", "up", "logs", "judge", "raised"},
           next # "raised" => row[2] = "result"
    PROVE  DocumentTells'
<1>1. Follows(<<row>>)
  BY OneRowFollows
<1>2. /\ stages' \in Seq(StageNames)
      /\ \A i \in 1..Len(stages) : stages'[i] = stages[i]
  BY BegunKeeps DEF DocumentTells
<1>3. <<row>> # <<>> /\ \A i \in 1..Len(<<row>>) : <<row>>[i] = row
  OBVIOUS
<1>4. next # "raised" => \A i \in 1..Len(<<row>>) : <<row>>[i][2] = "result"
  BY <1>3
<1> QED BY <1>1, <1>2, <1>3, <1>4, LoggedTells

\* A boot that goes on without a stage.
LEMMA NothingTold ==
    ASSUME DocumentTells, UNCHANGED <<document, stages>>, Pending = 0, Pending' = 0,
           at \notin {"returned", "raised"}, at' \notin {"judge", "returned"}
    PROVE  DocumentTells'
BY DEF DocumentTells, Tells

LEMMA RowsOfStages ==
    ASSUME NEW name \in StageNames \cup {"up_initial", "ps_initial"}
    PROVE  /\ Boot!Ran(name) \in Rows /\ Boot!Raised(name) \in Rows
           /\ Boot!Ran(name)[2] = "result" /\ Boot!Raised(name)[2] = "exception"
           /\ Boot!Ran(name)[1] = name /\ Boot!Raised(name)[1] = name
           /\ name \in StageNames => /\ StageName(Boot!Ran(name)) = name
                                     /\ StageName(Boot!Raised(name)) = name
           /\ name = "up_initial" => StageName(Boot!Ran(name)) = "up"
           /\ name = "ps_initial" => StageName(Boot!Ran(name)) = "ps"
<1>1. /\ Boot!Ran(name) = <<name, "result">> /\ Boot!Raised(name) = <<name, "exception">>
  BY DEF Boot!Ran, Boot!Raised
<1> QED BY <1>1 DEF Rows, StageName, StageNames

\* The listing is recorded together with the first `up`.
LEMMA FirstLookTold ==
    ASSUME DocumentTells, evidence, at = "ps", ~rechecked, stages' = Append(stages, "ps"),
           NEW both \in Seq(Rows), Len(both) = 2, both # <<>>,
           NEW next, Boot!Logged(both, next), next \in {"up", "logs", "raised"},
           StageName(both[1]) = "up", StageName(both[2]) = "ps", both[1][2] = "result",
           next # "raised" => both[2][2] = "result"
    PROVE  DocumentTells'
<1>2. /\ Pending = 1 /\ stages \in Seq(StageNames) /\ document \in Documents
      /\ Len(stages) = Len(document.commands) + 1
      /\ stages[Len(stages)] = "up"
  BY DEF DocumentTells, Pending
<1>3. document.commands \in Seq(Rows)
  BY <1>2 DEF Documents
<1>4. /\ stages' \in Seq(StageNames) /\ Len(stages') = Len(document.commands) + 2
      /\ \A i \in 1..Len(stages) : stages'[i] = stages[i]
      /\ stages'[Len(document.commands) + 1] = "up"
      /\ stages'[Len(document.commands) + 2] = "ps"
  BY <1>2, <1>3 DEF StageNames
<1>5. \A i \in 1..Len(both) : i = 1 \/ i = 2
  OBVIOUS
<1>6. Follows(both)
  <2>1. ASSUME NEW i \in 1..Len(both)
        PROVE  /\ StageName(both[i]) = stages'[Len(document.commands) + i]
               /\ both[i][2] = "exception" => i = Len(both)
    <3>1. CASE i = 1
      BY <3>1, <1>4
    <3>2. CASE i = 2
      BY <3>2, <1>4
    <3> QED BY <3>1, <3>2, <1>5
  <2> QED BY <2>1, <1>4 DEF Follows
<1>7. next # "raised" => \A i \in 1..Len(both) : both[i][2] = "result"
  BY <1>5
<1> QED BY <1>4, <1>6, <1>7, LoggedTells

LEMMA DocumentStepTells ==
    ASSUME DocumentTells, BootKnows, evidence, rechecked \in BOOLEAN, Boot!BootStep
    PROVE  DocumentTells' /\ evidence' = evidence /\ rechecked' \in BOOLEAN
<1>1. CASE Boot!Preflight
  <2>1. /\ UNCHANGED <<evidence, rechecked>> /\ at = "start"
        /\ Pending = 0
    BY <1>1 DEF Boot!Preflight, Pending
  <2>2. CASE /\ UNCHANGED <<document, stages>> /\ at' \in {"verify", "raised"}
    BY <2>1, <2>2, NothingTold DEF Pending
  <2>3. CASE Boot!Begun("config") /\ Boot!Logged(<<Boot!Ran("config")>>, "verify")
    BY <2>1, <2>3, StageIsTold, RowsOfStages DEF Boot!Begun, StageNames
  <2>4. CASE Boot!Begun("config") /\ Boot!Logged(<<Boot!Raised("config")>>, "raised")
    BY <2>1, <2>4, StageIsTold, RowsOfStages DEF Boot!Begun, StageNames
  <2> QED BY <1>1, <2>1, <2>2, <2>3, <2>4 DEF Boot!Preflight
<1>2. CASE Boot!VerifyImages
  <2>1. /\ UNCHANGED <<evidence, rechecked>> /\ at = "verify"
        /\ Pending = 0
    BY <1>2 DEF Boot!VerifyImages, Pending
  <2>2. CASE /\ UNCHANGED <<document, stages>> /\ at' \in {"up", "raised"}
    BY <2>1, <2>2, NothingTold DEF Pending
  <2>3. CASE Boot!Begun("up") /\ Boot!Logged(<<Boot!Raised("up")>>, "raised")
    BY <2>1, <2>3, StageIsTold, RowsOfStages DEF Boot!Begun, StageNames
  <2> QED BY <1>2, <2>1, <2>2, <2>3 DEF Boot!VerifyImages
<1>3. CASE Boot!UpStarts
  <2> DEFINE stage == IF rechecked THEN "up_recheck" ELSE "up"
  <2>1. /\ UNCHANGED <<evidence, rechecked, document>> /\ at = "up" /\ at' = "upping"
        /\ stages' = Append(stages, stage) /\ Pending = 0 /\ Pending' = 1
        /\ stage \in StageNames
    BY <1>3 DEF Boot!UpStarts, Boot!Begun, Pending, StageNames
  <2> HIDE DEF stage
  <2>2. /\ stages \in Seq(StageNames) /\ Len(stages) \in Nat
        /\ Len(stages) = Len(document.commands) + 0
    BY <2>1 DEF DocumentTells
  <2>3. /\ stages' \in Seq(StageNames) /\ Len(stages') = Len(stages) + 1
        /\ \A i \in 1..Len(stages) : stages'[i] = stages[i]
        /\ stages'[Len(stages')] = stage
    BY <2>1, <2>2
  <2>4. Tells(document.commands)'
    BY <2>1, <2>2, <2>3 DEF DocumentTells, Tells
  <2> QED BY <2>1, <2>2, <2>3, <2>4 DEF DocumentTells, stage
<1>4. CASE Boot!UpReturns
  <2> DEFINE stage == IF rechecked THEN "up_recheck" ELSE "up"
  <2>1. /\ UNCHANGED <<evidence, rechecked, stages>> /\ at = "upping"
        /\ Pending = 1 /\ stage \in StageNames
    BY <1>4 DEF Boot!UpReturns, Pending, StageNames
  <2>2. /\ stages \in Seq(StageNames) /\ Len(stages) = Len(document.commands) + 1
        /\ stages[Len(document.commands) + 1] = stage
    BY <2>1 DEF DocumentTells
  <2>3. ASSUME NEW row \in Rows, StageName(row) = stage
        PROVE  Follows(<<row>>)
    <3>1. /\ <<row>> \in Seq(Rows) /\ Len(<<row>>) = 1 /\ <<row>>[1] = row
          /\ \A i \in 1..Len(<<row>>) : i = 1
      OBVIOUS
    <3> QED BY <3>1, <2>1, <2>2, <2>3 DEF Follows
  <2>4. CASE ~rechecked /\ at' = "ps" /\ UNCHANGED document
    <3>1. Pending' = 1
      BY <2>1, <2>4 DEF Pending
    <3> QED BY <3>1, <2>1, <2>2, <2>4 DEF DocumentTells, Tells
  <2>5. CASE rechecked /\ Boot!Logged(<<Boot!Ran("up_recheck")>>, "ps")
    <3>1. /\ Boot!Ran("up_recheck") \in Rows /\ Boot!Ran("up_recheck")[2] = "result"
          /\ StageName(Boot!Ran("up_recheck")) = stage
      BY <2>5, RowsOfStages DEF StageNames
    <3>2. /\ Follows(<<Boot!Ran("up_recheck")>>)
          /\ <<Boot!Ran("up_recheck")>> # <<>>
          /\ \A i \in 1..Len(<<Boot!Ran("up_recheck")>>) :
               <<Boot!Ran("up_recheck")>>[i][2] = "result"
      BY <2>3, <3>1
    <3> QED BY <3>2, <2>1, <2>2, <2>5, LoggedTells
  <2>6. CASE Boot!Logged(<<Boot!Raised(stage)>>, "raised")
    <3> DEFINE told == <<Boot!Raised(stage)>>
    <3>1. Boot!Raised(stage) \in Rows /\ StageName(Boot!Raised(stage)) = stage
      BY <2>1, RowsOfStages
    <3>2. Follows(told) /\ Boot!Logged(told, "raised")
      BY <2>3, <2>6, <3>1
    <3>3. told # <<>>
      OBVIOUS
    <3> HIDE DEF told
    <3> QED BY <3>2, <3>3, <2>1, <2>2, LoggedTells
  <2> QED BY <1>4, <2>1, <2>4, <2>5, <2>6 DEF Boot!UpReturns
<1>5. CASE Boot!Ps
  <2>1. /\ evidence' = evidence /\ at = "ps" /\ ~rechecked /\ stages' = Append(stages, "ps")
    BY <1>5 DEF Boot!Ps, Boot!Begun
  <2>2. rechecked' \in BOOLEAN
    BY <1>5 DEF Boot!Ps, Boot!Recheck
  <2>3. \/ Boot!Logged(<<Boot!Ran("up_initial"), Boot!Ran("ps_initial")>>, "up")
        \/ Boot!Logged(<<Boot!Ran("up"), Boot!Ran("ps")>>, "logs")
        \/ Boot!Logged(<<Boot!Ran("up"), Boot!Raised("ps")>>, "raised")
    BY <1>5 DEF Boot!Ps
  <2>4. CASE Boot!Logged(<<Boot!Ran("up_initial"), Boot!Ran("ps_initial")>>, "up")
    <3> DEFINE one == Boot!Ran("up_initial")
               other == Boot!Ran("ps_initial")
    <3>1. one \in Rows /\ StageName(one) = "up" /\ one[2] = "result"
      BY RowsOfStages DEF StageNames
    <3>2. other \in Rows /\ StageName(other) = "ps" /\ other[2] = "result"
      BY RowsOfStages DEF StageNames
    <3>3. Boot!Logged(<<one, other>>, "up")
      BY <2>4
    <3> HIDE DEF one, other
    <3> DEFINE both == <<one, other>>
    <3>4. both \in Seq(Rows) /\ Len(both) = 2 /\ both[1] = one /\ both[2] = other
      BY <3>1, <3>2
    <3>5. both # <<>> /\ Boot!Logged(both, "up")
      BY <3>3
    <3> HIDE DEF both
    <3> QED BY <2>1, <2>2, <3>1, <3>2, <3>4, <3>5, FirstLookTold
  <2>5. CASE Boot!Logged(<<Boot!Ran("up"), Boot!Ran("ps")>>, "logs")
    <3> DEFINE one == Boot!Ran("up")
               other == Boot!Ran("ps")
    <3>1. one \in Rows /\ StageName(one) = "up" /\ one[2] = "result"
      BY RowsOfStages DEF StageNames
    <3>2. other \in Rows /\ StageName(other) = "ps" /\ other[2] = "result"
      BY RowsOfStages DEF StageNames
    <3>3. Boot!Logged(<<one, other>>, "logs")
      BY <2>5
    <3> HIDE DEF one, other
    <3> DEFINE both == <<one, other>>
    <3>4. both \in Seq(Rows) /\ Len(both) = 2 /\ both[1] = one /\ both[2] = other
      BY <3>1, <3>2
    <3>5. both # <<>> /\ Boot!Logged(both, "logs")
      BY <3>3
    <3> HIDE DEF both
    <3> QED BY <2>1, <2>2, <3>1, <3>2, <3>4, <3>5, FirstLookTold
  <2>6. CASE Boot!Logged(<<Boot!Ran("up"), Boot!Raised("ps")>>, "raised")
    <3> DEFINE one == Boot!Ran("up")
               other == Boot!Raised("ps")
    <3>1. one \in Rows /\ StageName(one) = "up" /\ one[2] = "result"
      BY RowsOfStages DEF StageNames
    <3>2. other \in Rows /\ StageName(other) = "ps"
      BY RowsOfStages DEF StageNames
    <3>3. Boot!Logged(<<one, other>>, "raised")
      BY <2>6
    <3> HIDE DEF one, other
    <3> DEFINE both == <<one, other>>
    <3>4. both \in Seq(Rows) /\ Len(both) = 2 /\ both[1] = one /\ both[2] = other
      BY <3>1, <3>2
    <3>5. both # <<>> /\ Boot!Logged(both, "raised")
      BY <3>3
    <3> HIDE DEF both
    <3> QED BY <2>1, <2>2, <3>1, <3>2, <3>4, <3>5, FirstLookTold
  <2> QED BY <2>1, <2>2, <2>3, <2>4, <2>5, <2>6
<1>6. CASE Boot!PsAgain
  <2>1. /\ UNCHANGED <<evidence, rechecked>> /\ at = "ps" /\ rechecked /\ Pending = 0
        /\ stages' = Append(stages, "ps_final")
        /\ \/ Boot!Logged(<<Boot!Ran("ps_final")>>, "logs")
           \/ Boot!Logged(<<Boot!Raised("ps_final")>>, "raised")
    BY <1>6 DEF Boot!PsAgain, Boot!Begun, Pending
  <2> QED BY <2>1, StageIsTold, RowsOfStages DEF StageNames
<1>7. CASE Boot!Logs
  <2>1. /\ UNCHANGED <<evidence, rechecked>> /\ at = "logs" /\ Pending = 0
        /\ stages' = Append(stages, "logs")
        /\ \/ Boot!Logged(<<Boot!Ran("logs")>>, "judge")
           \/ Boot!Logged(<<Boot!Raised("logs")>>, "raised")
    BY <1>7 DEF Boot!Logs, Boot!Begun, Pending
  <2> QED BY <2>1, StageIsTold, RowsOfStages DEF StageNames
<1>8. CASE Boot!Judge
  <2>1. /\ UNCHANGED <<evidence, rechecked, stages>> /\ at = "judge" /\ Pending = 0
        /\ at' \in {"returned", "raised"} /\ Pending' = 0
    BY <1>8 DEF Boot!Judge, Pending
  <2>2. /\ document'.commands = document.commands /\ document'.state = document.state
        /\ document' \in Documents
        /\ at' = "returned" => document'.final = verdict'
    BY <1>8, <2>1 DEF Boot!Judge, DocumentTells, Documents
  <2> QED BY <2>1, <2>2 DEF DocumentTells, Tells
<1> QED
  BY <1>1, <1>2, <1>3, <1>4, <1>5, <1>6, <1>7, <1>8 DEF Boot!BootStep

-----------------------------------------------------------------------------
(* The steps of the journey                                                *)

LEMMA NoAnswerTyped == Http!NoAnswer \in Answers /\ Http!NoAnswer.kind = "none"
BY DEF Http!NoAnswer, Answers, Failures

LEMMA NoJourneyKnows ==
    ASSUME Http!NoJourney
    PROVE  JourneyIInv
BY NoAnswerTyped DEF Http!NoJourney, JourneyIInv, JourneyTyped, JourneyKnows

LEMMA OpensKnows ==
    ASSUME NEW steps \in Seq(JourneySteps), Http!Opens(steps)
    PROVE  JourneyIInv'
<1>1. /\ journey' = steps /\ token' = 0 /\ files' = <<>> /\ answer' = Http!NoAnswer
      /\ outcome' \in {"unsupported", "fail", "none"} /\ step' \in {0, 1}
  BY DEF Http!Opens
<1>2. JourneyTyped'
  BY <1>1, NoAnswerTyped DEF JourneyTyped
<1>3. ASSUME outcome' = "none", step' > 0
      PROVE  /\ step' = 1 /\ 1 <= Len(steps) /\ visited' = {steps[1].url}
    <2>1. ~Http!Refused(steps) /\ step' = 1 /\ visited' = {steps[1].url}
      BY <1>3 DEF Http!Opens
    <2>2. DOMAIN steps # {}
      BY <2>1 DEF Http!Refused
    <2> QED BY <2>1, <2>2
<1>4. \A u : IsFiniteSet({u}) /\ Cardinality({u}) = 1
  BY FS_Singleton
<1>5. ASSUME outcome' = "none", step' > 0
      PROVE  /\ step' <= Len(journey') /\ Len(files') = step' - 1
             /\ AllGood' /\ TokenOfLast(step)'
             /\ IsFiniteSet(visited') /\ Cardinality(visited') <= MaxRedirects + 1
  <2>1. IsFiniteSet(visited') /\ Cardinality(visited') = 1
    BY <1>3, <1>4, <1>5
  <2>2. AllGood'
    BY <1>1 DEF AllGood
  <2>3. TokenOfLast(step)'
    BY <1>1, <1>3, <1>5 DEF TokenOfLast
  <2> QED BY <2>1, <2>2, <2>3, <1>1, <1>3, <1>5, RedirectsAssumption
<1> QED BY <1>1, <1>2, <1>5 DEF JourneyIInv, JourneyKnows

\* The evidence of the step under way, appended to that of the steps before.
LEMMA GoodAppended ==
    ASSUME JourneyTyped, AllGood, Len(files) = step - 1, step > 0, step <= Len(journey),
           NEW row \in Evidence, Good(row, journey[step]),
           files' = Append(files, row), journey' = journey
    PROVE  Len(files') = step /\ AllGood'
<1>1. /\ files \in Seq(Evidence) /\ step \in Nat /\ Len(files) = step - 1 /\ Len(journey) \in Nat
  BY DEF JourneyTyped
<1>2. Len(files') = step /\ \A i \in 1..step : files'[i] = IF i = step THEN row ELSE files[i]
  BY <1>1
<1>3. \A i \in 1..Len(files) : Good(files[i], journey[i])
  BY DEF AllGood
<1>4. ASSUME NEW i \in 1..step
      PROVE  Good(files'[i], journey[i])
  <2>1. CASE i = step
    BY <2>1, <1>2
  <2>2. CASE i # step
    BY <2>2, <1>1, <1>2, <1>3
  <2> QED BY <2>1, <2>2
<1> QED BY <1>1, <1>2, <1>4 DEF AllGood

LEMMA JourneyStepKnows ==
    ASSUME JourneyIInv, Http!JourneyStep
    PROVE  JourneyIInv'
<1>1. /\ outcome = "none" /\ step > 0 /\ journey' = journey
  BY DEF Http!JourneyStep, Http!Redirected, Http!Answered, Http!Raises, Http!Settled
<1>2. /\ step <= Len(journey) /\ Len(files) = step - 1
      /\ AllGood /\ TokenOfLast(step)
      /\ IsFiniteSet(visited) /\ Cardinality(visited) <= MaxRedirects + 1
      /\ JourneyTyped
  BY <1>1 DEF JourneyIInv, JourneyKnows
<1>3. CASE Http!Redirected
  <2>1. UNCHANGED <<journey, step, token, answer, files, passed, outcome>>
    BY <1>3 DEF Http!Redirected
  <2>2. PICK target : /\ visited' = visited \cup {target} /\ target \notin visited
                      /\ Cardinality(visited) - 1 < MaxRedirects
    <3>1. PICK target \in Urls : Http!Allowed(target) /\ visited' = Http!Visiting(target)
      BY <1>3 DEF Http!Redirected
    <3>2. target \notin visited /\ Cardinality(visited) - 1 < MaxRedirects
      <4>1. target \notin visited /\ Http!Hops < MaxRedirects
        BY <3>1 DEF Http!Allowed
      <4>2. Http!Hops = Cardinality(visited) - 1
        BY DEF Http!Hops, Http!Cardinality, Cardinality
      <4> QED BY <4>1, <4>2
    <3>3. visited' = visited \cup {target}
      BY <3>1 DEF Http!Visiting
    <3> QED BY <3>2, <3>3
  <2>3. IsFiniteSet(visited') /\ Cardinality(visited') = Cardinality(visited) + 1
    BY <2>2, <1>2, FS_AddElement
  <2>4. Cardinality(visited') <= MaxRedirects + 1
    BY <2>2, <2>3, <1>2, RedirectsAssumption, FS_CardinalityType
  <2>5. AllGood' /\ TokenOfLast(step)' /\ JourneyTyped'
    BY <2>1, <1>2 DEF AllGood, TokenOfLast, JourneyTyped
  <2> QED BY <2>1, <2>3, <2>4, <2>5, <1>1, <1>2 DEF JourneyIInv, JourneyKnows
<1>4. CASE Http!Answered
  <2>1. UNCHANGED <<journey, step, visited, token, files, passed, outcome>>
    BY <1>4 DEF Http!Answered
  <2>2. answer' \in Answers /\ answer'.kind # "none"
    <3>1. CASE answer' \in {Http!Failed("network_error"), Http!Failed("encoding"),
                            Http!Failed("redirect")}
      BY <3>1 DEF Http!Failed, Http!NoAnswer, Answers, Failures
    <3>2. ASSUME NEW st \in {"success", "error", "redirect"}, NEW bd \in {"whole", "truncated"},
                 NEW hasToken \in BOOLEAN, answer' = Http!Body(st, bd, hasToken)
          PROVE  answer' \in Answers /\ answer'.kind # "none"
      BY <3>2 DEF Http!Body, Answers
    <3> QED BY <3>1, <3>2, <1>4 DEF Http!Answered
  <2>3. AllGood' /\ TokenOfLast(step)' /\ JourneyTyped'
    BY <2>1, <2>2, <1>2 DEF AllGood, TokenOfLast, JourneyTyped
  <2> QED BY <2>1, <2>3, <1>1, <1>2 DEF JourneyIInv, JourneyKnows
<1>5. CASE Http!Raises
  <2>1. /\ UNCHANGED <<journey, step, url, visited, token, answer, files, passed>>
        /\ outcome' = "raised"
    BY <1>5 DEF Http!Raises
  <2> QED BY <2>1, <1>2 DEF JourneyIInv, JourneyKnows, JourneyTyped
<1>6. CASE Http!Settled
  <2>1. PICK textHolds \in BOOLEAN :
          LET s == journey[step]
              category == IF answer.kind = "body" THEN Http!Category(s, answer, textHolds)
                          ELSE answer.kind
              row == [state |-> "whole", failure |-> category, response |-> answer]
          IN \/ /\ files' \in {files, Append(files, [row EXCEPT !.state = "torn"])}
                /\ outcome' = "fail"
                /\ UNCHANGED <<step, url, visited, token, answer, passed>>
             \/ /\ category # "none"
                /\ files' = Append(files, row) /\ outcome' = "fail"
                /\ UNCHANGED <<step, url, visited, token, answer, passed>>
             \/ /\ category = "none"
                /\ files' = Append(files, row) /\ passed' = passed + 1
                /\ token' = IF s.auth = "capture" THEN step ELSE token
                /\ IF step = Len(journey)
                   THEN outcome' = "pass" /\ UNCHANGED <<step, url, visited, answer>>
                   ELSE /\ step' = step + 1 /\ answer' = Http!NoAnswer /\ UNCHANGED outcome
                        /\ url' = journey[step + 1].url /\ visited' = {journey[step + 1].url}
    BY <1>6 DEF Http!Settled
  <2> DEFINE s == journey[step]
             category == IF answer.kind = "body" THEN Http!Category(s, answer, textHolds)
                         ELSE answer.kind
             row == [state |-> "whole", failure |-> category, response |-> answer]
             torn == [row EXCEPT !.state = "torn"]
  <2>2. answer # Http!NoAnswer /\ answer \in Answers /\ answer.kind # "none"
    BY <1>6, <1>2 DEF Http!Settled, JourneyTyped
  <2>3. category \in Failures
    BY <2>2 DEF Http!Category, Answers, Failures
  <2>4. category = "none" =>
          (s.auth = "capture" => answer.status = "success" /\ answer.body = "whole")
    BY <2>2 DEF Http!Category, Http!Captures
  <2> HIDE DEF category
  <2>5. row \in Evidence /\ torn \in Evidence /\ row.state = "whole" /\ row.failure = category
        /\ row.response = answer
    BY <2>2, <2>3 DEF Evidence
  <2>6. category = "none" => Good(row, s)
    BY <2>4, <2>5 DEF Good
  <2> HIDE DEF row, torn
  <2>7. CASE /\ \/ files' \in {files, Append(files, torn)}
                \/ files' = Append(files, row)
             /\ outcome' = "fail"
             /\ UNCHANGED <<step, url, visited, token, answer, passed>>
    <3>1. files' \in Seq(Evidence)
      BY <2>5, <2>7, <1>2 DEF JourneyTyped
    <3> QED BY <3>1, <2>7, <1>1, <1>2 DEF JourneyIInv, JourneyKnows, JourneyTyped
  <2>8. CASE /\ category = "none"
             /\ files' = Append(files, row)
             /\ token' = IF s.auth = "capture" THEN step ELSE token
             /\ IF step = Len(journey)
                THEN outcome' = "pass" /\ UNCHANGED <<step, url, visited, answer>>
                ELSE /\ step' = step + 1 /\ answer' = Http!NoAnswer /\ UNCHANGED outcome
                     /\ visited' = {journey[step + 1].url}
    <3>1. Len(files') = step /\ AllGood'
      BY <2>5, <2>6, <2>8, <1>1, <1>2, GoodAppended
    <3>2. files' \in Seq(Evidence) /\ step \in Nat /\ token' \in Nat /\ token \in Nat
      BY <2>5, <2>8, <1>2 DEF JourneyTyped
    <3>3. CASE step = Len(journey)
      <4>1. outcome' = "pass" /\ UNCHANGED <<step, visited, answer>>
        BY <2>8, <3>3
      <4> QED BY <4>1, <3>1, <3>2, <3>3, <1>1, <1>2 DEF JourneyIInv, JourneyKnows, JourneyTyped
    <3>4. CASE step # Len(journey)
      <4>1. /\ step' = step + 1 /\ answer' = Http!NoAnswer /\ outcome' = "none"
            /\ visited' = {journey[step + 1].url}
        BY <2>8, <3>4, <1>1
      <4>2. step' <= Len(journey) /\ Len(journey) \in Nat
        BY <4>1, <3>2, <3>4, <1>2 DEF JourneyTyped
      <4>3. IsFiniteSet(visited') /\ Cardinality(visited') <= MaxRedirects + 1
        <5>1. IsFiniteSet(visited') /\ Cardinality(visited') = 1
          BY <4>1, FS_Singleton
        <5> QED BY <5>1, RedirectsAssumption
      <4>4. TokenOfLast(step)'
        <5>1. CASE s.auth = "capture"
          <6>1. token' = step
            BY <5>1, <2>8
          <6> QED BY <6>1, <5>1, <4>1, <3>2, <1>1 DEF TokenOfLast
        <5>2. CASE s.auth # "capture"
          <6>1. token' = token
            BY <5>2, <2>8
          <6>2. \A i \in 1..step : i # step => i \in 1..(step - 1)
            BY <3>2
          <6> QED BY <6>1, <6>2, <5>2, <4>1, <3>2, <1>1, <1>2 DEF TokenOfLast
        <5> QED BY <5>1, <5>2
      <4>5. JourneyTyped'
        BY <4>1, <3>2, <1>1, <1>2, NoAnswerTyped DEF JourneyTyped
      <4> QED BY <4>1, <4>2, <4>3, <4>4, <4>5, <3>1, <3>2, <1>1 DEF JourneyIInv, JourneyKnows
    <3> QED BY <3>3, <3>4
  <2> QED BY <2>1, <2>7, <2>8 DEF category, row, torn
<1> QED BY <1>3, <1>4, <1>5, <1>6 DEF Http!JourneyStep

-----------------------------------------------------------------------------
(* The operations of an observation                                        *)

LEMMA ListedOnce ==
    ASSUME NEW present \in SUBSET Services
    PROVE  Observe!SetToSeq(present) \in Seq(present)
<1>1. IsFiniteSet(present)
  BY ServicesAssumption, FS_Subset
<1>2. Cardinality(present) \in Nat /\ ExistsBijection(1..Cardinality(present), present)
  BY <1>1, FS_CardinalityType
<1>3. \E f \in [1..Cardinality(present) -> present] :
         \A a, b \in DOMAIN f : f[a] = f[b] => a = b
  BY <1>2 DEF ExistsBijection, Bijection, Injection, IsInjective
<1>4. Observe!Cardinality(present) = Cardinality(present)
  BY DEF Observe!Cardinality, Cardinality
<1>5. Observe!SetToSeq(present) \in [1..Cardinality(present) -> present]
  BY <1>3, <1>4 DEF Observe!SetToSeq, Observe!IsInjective
<1> QED BY <1>2, <1>5

LEMMA OpTyped ==
    ASSUME NEW name \in OpNames
    PROVE  /\ Observe!Op(name) \in Ops /\ Observe!Op(name).name = name
           /\ Observe!Op(name).of = "none" /\ Observe!Op(name).id = 0
BY DEF Observe!Op, Ops

LEMMA OpsOfTyped ==
    ASSUME ContainersTyped, NEW s \in Services, NEW k \in 1..3
    PROVE  /\ Observe!OpsOf(s)[k] \in Ops
           /\ Observe!OpsOf(s)[k].name = <<"inspect", "diff", "top">>[k]
           /\ Observe!OpsOf(s)[k].of = s
           /\ Observe!OpsOf(s)[k].id = container[s]
<1>1. Observe!OpsOf(s)[k] = [name |-> <<"inspect", "diff", "top">>[k], of |-> s,
                             id |-> container[s]]
  BY DEF Observe!OpsOf
<1>2. <<"inspect", "diff", "top">>[k] \in OpNames
  BY DEF OpNames
<1>3. container[s] \in Nat
  BY DEF ContainersTyped
<1> QED BY <1>1, <1>2, <1>3 DEF Ops

\* What follows a listing is in order: three operations a container, and an end.
LEMMA RestOrdered ==
    ASSUME ContainersTyped
    PROVE  /\ Observe!Rest \in Seq(Ops) /\ Concluded(Observe!Rest) /\ Ordered(Observe!Rest)
           /\ \A i \in 1..Len(Observe!Rest) : Observe!Rest[i].name # "discovery"
<1> DEFINE listed == Observe!SetToSeq({s \in Services : status[s] # "absent"})
           n == Len(listed)
           collects == [i \in 1..(3 * n) |->
                          Observe!OpsOf(listed[1 + ((i - 1) \div 3)])[1 + ((i - 1) % 3)]]
           ending == <<Observe!Op("network"), Observe!Op("audit")>>
<1>1. listed \in Seq(Services) /\ n \in Nat
  <2>1. listed \in Seq({s \in Services : status[s] # "absent"})
    BY ListedOnce
  <2> QED BY <2>1
<1>2. Observe!Rest = collects \o ending
  BY DEF Observe!Rest
<1> HIDE DEF listed, n
<1>3. \A i \in 1..(3 * n) : /\ 1 + ((i - 1) \div 3) \in 1..n
                            /\ 1 + ((i - 1) % 3) \in 1..3
  BY <1>1
<1>4. \A j \in 1..n : listed[j] \in Services
  BY <1>1 DEF n
<1>5. ASSUME NEW i \in 1..(3 * n)
      PROVE  /\ collects[i] \in Ops
             /\ collects[i].of = listed[1 + ((i - 1) \div 3)] /\ collects[i].of \in Services
             /\ collects[i].id = container[collects[i].of]
             /\ collects[i].name = <<"inspect", "diff", "top">>[1 + ((i - 1) % 3)]
  <2> DEFINE s == listed[1 + ((i - 1) \div 3)]
             k == 1 + ((i - 1) % 3)
  <2>1. s \in Services /\ k \in 1..3
    BY <1>3, <1>4
  <2>2. collects[i] = Observe!OpsOf(s)[k]
    OBVIOUS
  <2> HIDE DEF s, k, collects
  <2>3. /\ collects[i] \in Ops /\ collects[i].name = <<"inspect", "diff", "top">>[k]
        /\ collects[i].of = s /\ collects[i].id = container[s]
    BY <2>1, <2>2, OpsOfTyped
  <2> QED BY <2>1, <2>3 DEF s, k
<1>6. collects \in Seq(Ops) /\ Len(collects) = 3 * n
  <2>1. \A i \in 1..(3 * n) :
           Observe!OpsOf(listed[1 + ((i - 1) \div 3)])[1 + ((i - 1) % 3)] \in Ops
    BY <1>5
  <2>2. collects \in [1..(3 * n) -> Ops] /\ 3 * n \in Nat
    BY <2>1, <1>1
  <2> HIDE DEF collects
  <2> QED BY <2>2
<1>7. /\ ending \in Seq(Ops) /\ Len(ending) = 2
      /\ ending[1] = Observe!Op("network") /\ ending[2] = Observe!Op("audit")
      /\ ending[1].name = "network" /\ ending[2].name = "audit"
  BY OpTyped DEF OpNames
<1> HIDE DEF collects, ending
<1> DEFINE rest == collects \o ending
<1>8. /\ rest \in Seq(Ops) /\ Len(rest) = 3 * n + 2
      /\ \A i \in 1..(3 * n + 2) :
           rest[i] = IF i <= 3 * n THEN collects[i] ELSE ending[i - 3 * n]
  <2>1. /\ rest \in Seq(Ops) /\ Len(rest) = Len(collects) + Len(ending)
        /\ \A i \in 1..(Len(collects) + Len(ending)) :
             rest[i] = IF i <= Len(collects) THEN collects[i] ELSE ending[i - Len(collects)]
    BY <1>6, <1>7, ConcatProperties
  <2> HIDE DEF rest
  <2> QED BY <2>1, <1>6, <1>7
<1> HIDE DEF rest
<1>9. ASSUME NEW i \in 1..Len(rest)
      PROVE  /\ rest[i].name = "audit" => i = Len(rest)
             /\ rest[i].name = "inspect" =>
                  /\ i + 2 <= Len(rest) /\ rest[i].of \in Services
                  /\ rest[i + 2] = Top(rest[i].of, rest[i].id)
             /\ rest[i].name # "discovery"
  <2>1. CASE i <= 3 * n
    <3>1. i \in 1..(3 * n) /\ rest[i] = collects[i] /\ 1 + ((i - 1) % 3) \in 1..3
      BY <2>1, <1>1, <1>3, <1>8
    <3>2. rest[i].name \in {"inspect", "diff", "top"}
      <4>1. rest[i].name = <<"inspect", "diff", "top">>[1 + ((i - 1) % 3)]
        BY <3>1, <1>5
      <4> QED BY <3>1, <4>1
    <3>3. ASSUME rest[i].name = "inspect"
          PROVE  /\ i + 2 <= Len(rest) /\ rest[i].of \in Services
                 /\ rest[i + 2] = Top(rest[i].of, rest[i].id)
      <4>1. (i - 1) % 3 = 0
        <5> DEFINE r == (i - 1) % 3
        <5>1. <<"inspect", "diff", "top">>[1 + r] = "inspect" /\ 1 + r \in 1..3
          BY <3>1, <3>3, <1>5
        <5>0. r \in Int
          BY <3>1, <1>1
        <5> HIDE DEF r
        <5>2. r = 0 \/ r = 1 \/ r = 2
          BY <5>0, <5>1
        <5>3. r = 0
          BY <5>1, <5>2
        <5> QED BY <5>3 DEF r
      <4>2. /\ i + 2 \in 1..(3 * n)
            /\ ((i + 2) - 1) \div 3 = (i - 1) \div 3 /\ ((i + 2) - 1) % 3 = 2
        <5> DEFINE q == (i - 1) \div 3
        <5>1. i - 1 = 3 * q /\ q \in Nat
          BY <4>1, <3>1, <1>1
        <5>2. (i + 2) - 1 = 3 * q + 2
          BY <5>1, <3>1, <1>1
        <5> HIDE DEF q
        <5>3. (3 * q + 2) \div 3 = q /\ (3 * q + 2) % 3 = 2
          BY <5>1
        <5>4. i + 2 \in 1..(3 * n)
          BY <5>1, <3>1, <1>1
        <5> QED BY <5>2, <5>3, <5>4 DEF q
      <4>3. rest[i + 2] = collects[i + 2]
        BY <4>2, <1>1, <1>8
      <4>4. /\ collects[i + 2].of = collects[i].of
            /\ collects[i + 2].name = <<"inspect", "diff", "top">>[1 + 2]
        BY <4>2, <3>1, <1>5
      <4>5. collects[i + 2] \in Ops /\ collects[i + 2].id = collects[i].id
        BY <4>2, <4>4, <3>1, <1>5
      <4>6. rest[i + 2] = Top(rest[i].of, rest[i].id)
        <5> DEFINE op == collects[i + 2]
        <5>1. /\ op \in Ops /\ op.name = "top"
              /\ op.of = collects[i].of /\ op.id = collects[i].id
          BY <4>4, <4>5
        <5> HIDE DEF op
        <5>2. op = [name |-> op.name, of |-> op.of, id |-> op.id]
          BY <5>1 DEF Ops
        <5>3. op = Top(collects[i].of, collects[i].id)
          BY <5>1, <5>2 DEF Top
        <5> QED BY <5>3, <4>3, <3>1 DEF op
      <4>7. i + 2 <= Len(rest)
        BY <4>2, <1>1, <1>8
      <4>8. rest[i].of \in Services
        BY <3>1, <1>5
      <4> QED BY <4>6, <4>7, <4>8
    <3> QED BY <3>2, <3>3
  <2>2. CASE i = 3 * n + 1
    BY <2>2, <1>1, <1>7, <1>8
  <2>3. CASE i = 3 * n + 2
    BY <2>3, <1>1, <1>7, <1>8
  <2> QED BY <2>1, <2>2, <2>3, <1>1, <1>8
<1>10. rest # <<>> /\ rest[Len(rest)] = Observe!Op("audit")
  BY <1>1, <1>7, <1>8
<1>11. Observe!Rest = rest
  BY <1>2 DEF rest
<1> QED BY <1>8, <1>9, <1>10, <1>11 DEF Concluded, Ordered

-----------------------------------------------------------------------------
(* The rows of the ledger                                                  *)

LEMMA Parity ==
    ASSUME NEW n \in Nat
    PROVE  /\ n % 2 = 0 => (n + 1) % 2 = 1
           /\ n % 2 = 1 => (n + 1) % 2 = 0
           /\ n % 2 \in {0, 1}
OBVIOUS

LEMMA RowParts ==
    ASSUME NEW row, NEW op, NEW k, row = <<op, k>>
    PROVE  row[1] = op /\ row[2] = k
OBVIOUS

LEMMA CleanPairs == ASSUME Clean, ledger \in Seq(LedgerRows) PROVE PairsHold
BY DEF Clean, PairsHold

LEMMA AppendedRow ==
    ASSUME ledger \in Seq(LedgerRows), NEW op \in Ops,
           NEW k \in {"start", "success", "failure", "torn"}, ledger' = Append(ledger, <<op, k>>)
    PROVE  /\ ledger' \in Seq(LedgerRows) /\ Len(ledger') = Len(ledger) + 1
           /\ ledger'[Len(ledger')] = <<op, k>>
           /\ \A i \in 1..Len(ledger) : ledger'[i] = ledger[i]
BY DEF LedgerRows

\* A start, whole or torn, may follow only finished operations.
LEMMA StartAppended ==
    ASSUME ledger \in Seq(LedgerRows), Clean, Len(ledger) % 2 = 0, NEW op \in Ops,
           NEW k \in {"start", "torn"}, ledger' = Append(ledger, <<op, k>>)
    PROVE  /\ PairsHold'
           /\ k = "start" => Clean' /\ Len(ledger') % 2 = 1
<1> DEFINE n == Len(ledger)
<1>1. /\ Len(ledger') = n + 1 /\ ledger'[n + 1] = <<op, k>> /\ n \in Nat
      /\ \A i \in 1..n : ledger'[i] = ledger[i]
  BY AppendedRow
<1>2. \A i \in 1..n : IF i % 2 = 1 THEN ledger[i][2] = "start"
                      ELSE ledger[i][2] = "success" /\ ledger[i][1] = ledger[i - 1][1]
  BY DEF Clean
<1>3. n % 2 = 0
  OBVIOUS
<1> HIDE DEF n
<1>4. (n + 1) % 2 = 1
  BY <1>1, <1>3
<1>5. ASSUME NEW i \in 1..(n + 1)
      PROVE  /\ i % 2 = 1 => ledger'[i][2] = "start" \/ (ledger'[i][2] = "torn" /\ i = n + 1)
             /\ k = "start" /\ i % 2 = 1 => ledger'[i][2] = "start"
             /\ i % 2 # 1 => ledger'[i][1] = ledger'[i - 1][1] /\ ledger'[i][2] = "success"
  <2>1. CASE i = n + 1
    BY <2>1, <1>1, <1>4
  <2>2. CASE i # n + 1
    <3>1. i \in 1..n /\ ledger'[i] = ledger[i]
      BY <2>2, <1>1
    <3>2. CASE i % 2 = 1
      BY <3>1, <3>2, <1>2
    <3>3. CASE i % 2 # 1
      <4>1. i - 1 \in 1..n
        <5>1. i # 1
          BY <3>3
        <5> QED BY <5>1, <3>1, <1>1
      <4> QED BY <4>1, <3>1, <3>3, <1>1, <1>2
    <3> QED BY <3>2, <3>3
  <2> QED BY <2>1, <2>2
<1>6. \A i \in 1..(n + 1) : i % 2 = 0 => i % 2 # 1
  OBVIOUS
<1>7. PairsHold'
  BY <1>1, <1>5, <1>6 DEF PairsHold
<1>8. k = "start" => Clean'
  BY <1>1, <1>5 DEF Clean
<1> QED BY <1>1, <1>4, <1>7, <1>8

\* An end follows the start of the same operation.
LEMMA EndAppended ==
    ASSUME ledger \in Seq(LedgerRows), Clean, Unfinished, todo[1] \in Ops,
           NEW k \in {"success", "failure", "torn"}, ledger' = Append(ledger, <<todo[1], k>>)
    PROVE  /\ PairsHold'
           /\ k = "success" => Clean' /\ Len(ledger') % 2 = 0
<1> DEFINE n == Len(ledger)
<1>1. /\ Len(ledger') = n + 1 /\ ledger'[n + 1] = <<todo[1], k>> /\ n \in Nat
      /\ \A i \in 1..n : ledger'[i] = ledger[i]
  BY AppendedRow
<1>2. \A i \in 1..n : IF i % 2 = 1 THEN ledger[i][2] = "start"
                      ELSE ledger[i][2] = "success" /\ ledger[i][1] = ledger[i - 1][1]
  BY DEF Clean
<1>3. n % 2 = 1 /\ ledger[n] = <<todo[1], "start">>
  BY DEF Unfinished
<1> HIDE DEF n
<1>4. (n + 1) % 2 = 0 /\ n \in 1..n
  <2>1. n # 0
    BY <1>3
  <2>2. (n + 1) % 2 = 0
    BY <1>1, <1>3, Parity
  <2>3. n \in 1..n
    BY <2>1, <1>1
  <2> QED BY <2>2, <2>3
<1>5. ASSUME NEW i \in 1..(n + 1)
      PROVE  /\ i % 2 = 1 => ledger'[i][2] = "start"
             /\ i % 2 # 1 => /\ ledger'[i][1] = ledger'[i - 1][1] /\ ledger'[i][2] # "start"
                             /\ ledger'[i][2] = "success" \/ (i = n + 1 /\ k # "success")
  <2>1. CASE i = n + 1
    <3>1. ledger'[i] = <<todo[1], k>> /\ i % 2 = 0
      BY <2>1, <1>1, <1>4
    <3>2. ledger'[i - 1] = <<todo[1], "start">>
      <4>1. i - 1 = n
        BY <2>1, <1>1
      <4> QED BY <4>1, <1>1, <1>3, <1>4
    <3> DEFINE op == todo[1]
    <3>0. ledger'[i] = <<op, k>> /\ ledger'[i - 1] = <<op, "start">>
      BY <3>1, <3>2
    <3> HIDE DEF op
    <3>3. ledger'[i][1] = op /\ ledger'[i][2] = k /\ ledger'[i - 1][1] = op
      BY <3>0, RowParts
    <3>4. i % 2 # 1
      BY <3>1
    <3> QED BY <2>1, <3>3, <3>4
  <2>2. CASE i # n + 1
    <3>1. i \in 1..n /\ ledger'[i] = ledger[i]
      BY <2>2, <1>1
    <3>2. CASE i % 2 = 1
      BY <3>1, <3>2, <1>2
    <3>3. CASE i % 2 # 1
      <4>1. i - 1 \in 1..n
        <5>1. i # 1
          BY <3>3
        <5> QED BY <5>1, <3>1, <1>1
      <4> QED BY <4>1, <3>1, <3>3, <1>1, <1>2
    <3> QED BY <3>2, <3>3
  <2> QED BY <2>1, <2>2
<1>6. \A i \in 1..(n + 1) : i % 2 = 0 => i % 2 # 1
  OBVIOUS
<1>7. PairsHold'
  BY <1>1, <1>5, <1>6 DEF PairsHold
<1>8. k = "success" => Clean'
  BY <1>1, <1>5 DEF Clean
<1> QED BY <1>1, <1>4, <1>7, <1>8

\* Operations left: without the first of several they are still in order.
LEMMA TailOrdered ==
    ASSUME todo \in Seq(Ops), Ordered(todo), Concluded(todo), Len(todo) # 1
    PROVE  /\ Tail(todo) \in Seq(Ops) /\ Ordered(Tail(todo)) /\ Concluded(Tail(todo))
           /\ Tail(todo)[1].name # "discovery" /\ todo[1].name # "audit"
           /\ Len(Tail(todo)) = Len(todo) - 1
           /\ \A i \in 1..Len(Tail(todo)) : Tail(todo)[i] = todo[i + 1]
<1> DEFINE rest == Tail(todo)
           n == Len(todo)
<1>1. /\ rest \in Seq(Ops) /\ Len(rest) = n - 1 /\ n \in Nat /\ n > 1
      /\ \A i \in 1..(n - 1) : rest[i] = todo[i + 1]
  <2>1. todo # <<>> /\ n \in Nat /\ n # 0
    BY DEF Concluded
  <2>2. rest \in Seq(Ops) /\ Len(rest) = n - 1 /\ \A i \in 1..Len(rest) : rest[i] = todo[i + 1]
    BY <2>1, HeadTailProperties
  <2> HIDE DEF rest
  <2> QED BY <2>1, <2>2
<1>2. /\ \A i \in 1..n : todo[i].name = "audit" => i = n
      /\ \A i \in 1..n : todo[i].name = "inspect" =>
           i + 2 <= n /\ todo[i].of \in Services /\ todo[i + 2] = Top(todo[i].of, todo[i].id)
      /\ \A i \in 1..n : todo[i].name = "discovery" => i = 1
      /\ todo[n] = Observe!Op("audit")
  BY DEF Ordered, Concluded
<1> HIDE DEF rest, n
<1>3. \A i \in 1..(n - 1) : i + 1 \in 1..n
  BY <1>1
<1>4. \A i \in 1..(n - 1) : rest[i].name = "audit" => i = n - 1
  BY <1>1, <1>2, <1>3
<1>5. ASSUME NEW i \in 1..(n - 1), rest[i].name = "inspect"
      PROVE  i + 2 <= n - 1 /\ rest[i].of \in Services /\ rest[i + 2] = Top(rest[i].of, rest[i].id)
  <2>1. rest[i] = todo[i + 1] /\ i + 1 \in 1..n
    BY <1>1, <1>3
  <2>2. (i + 1) + 2 <= n /\ rest[i].of \in Services
        /\ todo[(i + 1) + 2] = Top(rest[i].of, rest[i].id)
    BY <2>1, <1>2, <1>5
  <2>3. i + 2 \in 1..(n - 1) /\ (i + 1) + 2 = (i + 2) + 1
    BY <2>2, <1>1
  <2> QED BY <2>2, <2>3, <1>1
<1>6. \A i \in 1..(n - 1) : rest[i].name # "discovery"
  BY <1>1, <1>2, <1>3
<1>7. rest # <<>> /\ rest[n - 1] = Observe!Op("audit") /\ 1 \in 1..(n - 1)
  BY <1>1, <1>2
<1>8. todo[1].name # "audit"
  BY <1>1, <1>2
<1>9. rest = Tail(todo) /\ n = Len(todo)
  BY DEF rest, n
<1> QED BY <1>1, <1>4, <1>5, <1>6, <1>7, <1>8, <1>9 DEF Ordered, Concluded

\* The operations after a listing, behind the discovery that is still to end.
LEMMA DiscoveryOrdered ==
    ASSUME NEW ops \in Seq(Ops), Ordered(ops), Concluded(ops)
    PROVE  LET all == <<Observe!Op("discovery")>> \o ops
           IN (\A i \in 1..Len(ops) : ops[i].name # "discovery") =>
                /\ all \in Seq(Ops) /\ Ordered(all) /\ Concluded(all)
                /\ all[1] = Observe!Op("discovery")
<1> DEFINE listing == <<Observe!Op("discovery")>>
           all == listing \o ops
           n == Len(ops)
<1>1. /\ listing \in Seq(Ops) /\ Len(listing) = 1 /\ listing[1] = Observe!Op("discovery")
      /\ Observe!Op("discovery").name = "discovery"
  BY OpTyped DEF OpNames
<1> HIDE DEF listing
<1>2. /\ all \in Seq(Ops) /\ Len(all) = 1 + n /\ n \in Nat
      /\ \A i \in 1..(1 + n) : all[i] = IF i <= 1 THEN listing[i] ELSE ops[i - 1]
  <2>1. /\ all \in Seq(Ops) /\ Len(all) = Len(listing) + Len(ops)
        /\ \A i \in 1..(Len(listing) + Len(ops)) :
             all[i] = IF i <= Len(listing) THEN listing[i] ELSE ops[i - Len(listing)]
    BY <1>1, ConcatProperties
  <2> HIDE DEF all
  <2> QED BY <2>1, <1>1
<1> HIDE DEF all
<1>3. /\ \A i \in 1..n : ops[i].name = "audit" => i = n
      /\ \A i \in 1..n : ops[i].name = "inspect" =>
           i + 2 <= n /\ ops[i].of \in Services /\ ops[i + 2] = Top(ops[i].of, ops[i].id)
      /\ ops[n] = Observe!Op("audit") /\ n > 0
  BY DEF Ordered, Concluded
<1> HIDE DEF n
<1>4. all[1] = Observe!Op("discovery") /\ all[1].name = "discovery"
  BY <1>1, <1>2
<1>5. ASSUME \A i \in 1..n : ops[i].name # "discovery", NEW i \in 1..(1 + n)
      PROVE  /\ all[i].name = "audit" => i = 1 + n
             /\ all[i].name = "inspect" =>
                  /\ i + 2 <= 1 + n /\ all[i].of \in Services
                  /\ all[i + 2] = Top(all[i].of, all[i].id)
             /\ all[i].name = "discovery" => i = 1
  <2>1. CASE i = 1
    BY <2>1, <1>4
  <2>2. CASE i # 1
    <3>1. i - 1 \in 1..n /\ all[i] = ops[i - 1]
      BY <2>2, <1>2
    <3>2. all[i].name = "audit" => i = 1 + n
      BY <3>1, <1>2, <1>3
    <3>3. ASSUME all[i].name = "inspect"
          PROVE  /\ i + 2 <= 1 + n /\ all[i].of \in Services
                 /\ all[i + 2] = Top(all[i].of, all[i].id)
      <4>1. /\ (i - 1) + 2 <= n /\ all[i].of \in Services
            /\ ops[(i - 1) + 2] = Top(all[i].of, all[i].id)
        BY <3>1, <3>3, <1>3
      <4>2. i + 2 \in 1..(1 + n) /\ ~(i + 2 <= 1) /\ (i + 2) - 1 = (i - 1) + 2
        BY <4>1, <1>2
      <4> QED BY <4>1, <4>2, <1>2
    <3> QED BY <3>1, <3>2, <3>3, <1>5
  <2> QED BY <2>1, <2>2
<1>6. all # <<>> /\ all[1 + n] = Observe!Op("audit")
  BY <1>2, <1>3
<1> QED BY <1>2, <1>4, <1>5, <1>6 DEF Ordered, Concluded, all, listing, n

-----------------------------------------------------------------------------
(* The steps of the observation                                            *)

LEMMA ObservationInitKnows ==
    ASSUME Observe!ObservationInit(IF kind = "baseline" THEN {TRUE} ELSE BOOLEAN)
    PROVE  LedgerIInv
<1>1. /\ recorded \in BOOLEAN /\ doing = "idle" /\ todo = <<>> /\ ledger = <<>>
      /\ audit = "absent" /\ DOMAIN snapshot = {} /\ snapshot \in [DOMAIN snapshot -> Nat]
  BY DEF Observe!ObservationInit, Observe!NothingSeen
<1>2. Ordered(todo)
  BY <1>1 DEF Ordered
<1> QED
  BY <1>1, <1>2 DEF LedgerIInv, LedgerTyped, TodoOrdered, LedgerPaired, PairsHold, Clean,
                    AuditLast, SnapshotAccounted

\* The head of what is left.
LEMMA HeadLeft ==
    ASSUME LedgerTyped, TodoOrdered, doing \in {"start", "run", "end"}
    PROVE  todo # <<>> /\ Head(todo) = todo[1] /\ todo[1] \in Ops /\ Len(todo) \in Nat \ {0}
<1>1. todo \in Seq(Ops) /\ (todo = <<Observe!Op("discovery")>> \/ Concluded(todo))
  BY DEF LedgerTyped, TodoOrdered
<1>2. <<Observe!Op("discovery")>> # <<>>
  OBVIOUS
<1>3. todo # <<>>
  BY <1>1, <1>2 DEF Concluded
<1> QED BY <1>1, <1>3

\* What was seen is accounted for as long as nothing is taken from what is left.
LEMMA StillAccounted ==
    ASSUME NEW s, Accounted(s), ledger \in Seq(LedgerRows), ledger' \in Seq(LedgerRows),
           snapshot'[s] = snapshot[s],
           todo' = todo,
           Len(ledger) <= Len(ledger'), \A i \in 1..Len(ledger) : ledger'[i] = ledger[i]
    PROVE  Accounted(s)'
BY DEF Accounted

LEMMA OpeningKnows ==
    ASSUME LedgerIInv, Observe!Opening
    PROVE  LedgerIInv'
<1>1. /\ doing = "idle" /\ doing' \in {"start", "raised"}
      /\ todo' = <<Observe!Op("discovery")>>
      /\ UNCHANGED <<recorded, ledger, audit, snapshot>>
  BY DEF Observe!Opening
<1>2. /\ recorded \in BOOLEAN /\ ledger = <<>> /\ DOMAIN snapshot = {}
      /\ snapshot \in [DOMAIN snapshot -> Nat]
  BY <1>1 DEF LedgerIInv, LedgerTyped
<1>3. /\ todo' \in Seq(Ops) /\ Len(todo') = 1 /\ todo'[1].name = "discovery"
  BY <1>1, OpTyped DEF OpNames
<1>4. Ordered(todo')
  BY <1>3 DEF Ordered
<1>5. LedgerTyped' /\ TodoOrdered'
  BY <1>1, <1>2, <1>3, <1>4 DEF LedgerTyped, TodoOrdered
<1>6. LedgerPaired' /\ AuditLast' /\ SnapshotAccounted'
  BY <1>1, <1>2 DEF LedgerPaired, PairsHold, Clean, AuditLast, SnapshotAccounted
<1> QED BY <1>5, <1>6 DEF LedgerIInv

LEMMA StartingKnows ==
    ASSUME LedgerIInv, Observe!Starting
    PROVE  LedgerIInv'
<1>1. /\ doing = "start" /\ UNCHANGED <<recorded, todo, audit, snapshot>>
      /\ Observe!Wrote("start", "run")
  BY DEF Observe!Starting
<1>2. /\ todo # <<>> /\ Head(todo) = todo[1] /\ todo[1] \in Ops
  BY <1>1, HeadLeft DEF LedgerIInv
<1>3. /\ ledger \in Seq(LedgerRows) /\ recorded \in BOOLEAN /\ Clean /\ Len(ledger) % 2 = 0
      /\ ~recorded => ledger = <<>>
  BY <1>1 DEF LedgerIInv, LedgerTyped, LedgerPaired
<1> DEFINE op == todo[1]
<1>4. \/ ledger' = ledger /\ doing' = "raised" /\ recorded
      \/ ledger' = ledger /\ doing' = "run" /\ ~recorded
      \/ ledger' = Append(ledger, <<op, "start">>) /\ doing' = "run" /\ recorded
      \/ ledger' = Append(ledger, <<op, "torn">>) /\ doing' = "raised" /\ recorded
  BY <1>1, <1>2 DEF Observe!Wrote, Observe!Row
<1>5. op \in Ops
  BY <1>2
<1> HIDE DEF op
<1>6. /\ ledger' \in Seq(LedgerRows) /\ Len(ledger) <= Len(ledger')
      /\ \A i \in 1..Len(ledger) : ledger'[i] = ledger[i]
      /\ \A i \in 1..Len(ledger') : i \in 1..Len(ledger) \/ ledger'[i][2] \in {"start", "torn"}
  <2>1. CASE ledger' = ledger
    BY <2>1, <1>3
  <2>2. ASSUME NEW k \in {"start", "torn"}, ledger' = Append(ledger, <<op, k>>)
        PROVE  /\ ledger' \in Seq(LedgerRows) /\ Len(ledger) <= Len(ledger')
               /\ \A i \in 1..Len(ledger) : ledger'[i] = ledger[i]
               /\ \A i \in 1..Len(ledger') : i \in 1..Len(ledger) \/ ledger'[i][2] \in {"start", "torn"}
    <3>1. /\ ledger' \in Seq(LedgerRows) /\ Len(ledger') = Len(ledger) + 1
          /\ ledger'[Len(ledger')] = <<op, k>> /\ Len(ledger) \in Nat
          /\ \A i \in 1..Len(ledger) : ledger'[i] = ledger[i]
      <4>1. k \in {"start", "success", "failure", "torn"}
        OBVIOUS
      <4>2. Len(ledger) \in Nat
        BY <1>3
      <4> QED BY <4>1, <4>2, <2>2, <1>3, <1>5, AppendedRow, Zenon
    <3>2. ledger'[Len(ledger')][2] = k
      BY <3>1, RowParts
    <3>3. \A i \in 1..Len(ledger') : i \in 1..Len(ledger) \/ i = Len(ledger')
      BY <3>1
    <3> QED BY <3>1, <3>2, <3>3
  <2> QED BY <1>4, <2>1, <2>2
<1>7. LedgerTyped' /\ TodoOrdered'
  BY <1>1, <1>2, <1>4, <1>6 DEF LedgerIInv, LedgerTyped, TodoOrdered
<1>8. LedgerPaired'
  <2>1. CASE ledger' = ledger /\ doing' \in {"raised", "run"} /\ (doing' = "run" => ~recorded)
    BY <2>1, <1>1, <1>3, CleanPairs DEF LedgerPaired, Clean, PairsHold
  <2>2. CASE ledger' = Append(ledger, <<op, "start">>) /\ doing' = "run"
    <3>1. PairsHold' /\ Clean' /\ Len(ledger') % 2 = 1
      BY <2>2, <1>3, <1>5, StartAppended
    <3>2. ledger'[Len(ledger')] = <<todo'[1], "start">>
      BY <2>2, <1>1, <1>3, <1>5, AppendedRow DEF op
    <3> QED BY <3>1, <3>2, <2>2 DEF LedgerPaired, Unfinished
  <2>3. CASE ledger' = Append(ledger, <<op, "torn">>) /\ doing' = "raised"
    <3>1. PairsHold'
      BY <2>3, <1>3, <1>5, StartAppended
    <3> QED BY <3>1, <2>3 DEF LedgerPaired
  <2> QED BY <1>4, <2>1, <2>2, <2>3
<1>9. AuditLast'
  <2>1. \A i \in 1..Len(ledger) : ledger[i] # Audit
    BY <1>1 DEF LedgerIInv, AuditLast
  <2>2. Audit[2] = "success"
    BY DEF Audit
  <2>3. \A i \in 1..Len(ledger') : ledger'[i] # Audit
    BY <2>1, <2>2, <1>6
  <2> QED BY <2>3, <1>4 DEF AuditLast
<1>10. SnapshotAccounted'
  <2>1. ASSUME recorded', doing' # "raised", NEW s \in DOMAIN snapshot'
        PROVE  Accounted(s)'
    <3>1. Accounted(s)
      BY <2>1, <1>1 DEF LedgerIInv, SnapshotAccounted
    <3> QED BY <3>1, <1>1, <1>3, <1>6, StillAccounted
  <2> QED BY <2>1 DEF SnapshotAccounted
<1> QED BY <1>7, <1>8, <1>9, <1>10 DEF LedgerIInv

LEMMA CollectedKnows ==
    ASSUME LedgerIInv, ContainersTyped, Observe!Collected
    PROVE  LedgerIInv'
<1>1. /\ doing = "run" /\ doing' = "end" /\ Head(todo).name # "audit"
      /\ UNCHANGED <<recorded, ledger, audit>>
      /\ todo' = IF Head(todo).name = "discovery" THEN <<Head(todo)>> \o Observe!Rest ELSE todo
      /\ snapshot' = IF Head(todo).name = "inspect"
                     THEN [s \in DOMAIN snapshot \cup {Head(todo).of} |->
                             IF s = Head(todo).of THEN Head(todo).id ELSE snapshot[s]]
                     ELSE snapshot
  BY DEF Observe!Collected
<1>2. /\ todo # <<>> /\ Head(todo) = todo[1] /\ todo[1] \in Ops /\ Len(todo) \in Nat \ {0}
  BY <1>1, HeadLeft DEF LedgerIInv
<1> DEFINE op == todo[1]
<1>3. /\ ledger \in Seq(LedgerRows) /\ recorded \in BOOLEAN /\ Clean /\ PairsHold
      /\ recorded => Unfinished
      /\ todo \in Seq(Ops) /\ Ordered(todo)
      /\ todo = <<Observe!Op("discovery")>> \/ (Concluded(todo) /\ op.name # "discovery")
      /\ DOMAIN snapshot \subseteq Services /\ snapshot \in [DOMAIN snapshot -> Nat]
  BY <1>1 DEF LedgerIInv, LedgerTyped, TodoOrdered, LedgerPaired
<1>4. op \in Ops /\ op.name # "audit"
  BY <1>1, <1>2
<1>5. /\ todo' \in Seq(Ops) /\ Ordered(todo') /\ Concluded(todo') /\ todo'[1] = op
  <2>1. CASE op.name = "discovery"
    <3>1. op = Observe!Op("discovery")
      BY <2>1, <1>3
    <3>2. todo' = <<Observe!Op("discovery")>> \o Observe!Rest
      BY <2>1, <3>1, <1>1, <1>2
    <3> QED BY <3>1, <3>2, RestOrdered, DiscoveryOrdered
  <2>2. CASE op.name # "discovery"
    <3>1. todo' = todo
      BY <2>2, <1>1, <1>2
    <3>2. todo # <<Observe!Op("discovery")>>
      <4>1. <<Observe!Op("discovery")>>[1].name = "discovery"
        BY OpTyped DEF OpNames
      <4> QED BY <4>1, <2>2
    <3> QED BY <3>1, <3>2, <1>3
  <2> QED BY <2>1, <2>2
<1>6. /\ DOMAIN snapshot' \subseteq Services /\ snapshot' \in [DOMAIN snapshot' -> Nat]
  <2>1. CASE op.name = "inspect"
    <3>1. op.of \in Services /\ op.id \in Nat
      BY <2>1, <1>2, <1>3 DEF Ordered, Ops
    <3>2. snapshot' = [s \in DOMAIN snapshot \cup {op.of} |->
                         IF s = op.of THEN op.id ELSE snapshot[s]]
      BY <2>1, <1>1, <1>2
    <3> HIDE DEF op
    <3> QED BY <3>1, <3>2, <1>3
  <2>2. CASE op.name # "inspect"
    BY <2>2, <1>1, <1>2, <1>3
  <2> QED BY <2>1, <2>2
<1>7. LedgerTyped'
  BY <1>1, <1>5, <1>6 DEF LedgerIInv, LedgerTyped
<1>8. TodoOrdered'
  BY <1>1, <1>4, <1>5 DEF TodoOrdered
<1>9. LedgerPaired'
  <2>1. recorded => Unfinished'
    BY <1>1, <1>3, <1>5 DEF Unfinished
  <2> QED BY <2>1, <1>1, <1>3 DEF LedgerPaired, PairsHold, Clean
<1>10. AuditLast'
  BY <1>1 DEF LedgerIInv, AuditLast
<1>11. SnapshotAccounted'
  <2>1. ASSUME recorded, NEW s \in DOMAIN snapshot'
        PROVE  Accounted(s)'
    <3>1. CASE op.name = "inspect" /\ s = op.of
      <4>1. snapshot'[s] = op.id
        BY <3>1, <1>1, <1>2
      <4>2. todo' = todo
        BY <3>1, <1>1, <1>2
      <4>3. 3 \in 1..Len(todo) /\ todo[3] = Top(op.of, op.id)
        <5>1. 1 \in 1..Len(todo)
          BY <1>2
        <5>2. 1 + 2 <= Len(todo) /\ todo[1 + 2] = Top(op.of, op.id)
          BY <5>1, <3>1, <1>3 DEF Ordered
        <5> QED BY <5>2, <1>2
      <4> QED BY <4>1, <4>2, <4>3, <3>1 DEF Accounted
    <3>2. CASE op.name = "inspect" /\ s # op.of
      <4>1. s \in DOMAIN snapshot /\ snapshot'[s] = snapshot[s] /\ todo' = todo
        BY <3>2, <2>1, <1>1, <1>2
      <4>2. Accounted(s)
        BY <4>1, <2>1, <1>1 DEF LedgerIInv, SnapshotAccounted
      <4> QED BY <4>1, <4>2, <1>1 DEF Accounted
    <3>3. CASE op.name # "inspect"
      <4>1. snapshot' = snapshot
        BY <3>3, <1>1, <1>2
      <4>2. Accounted(s)
        BY <4>1, <2>1, <1>1 DEF LedgerIInv, SnapshotAccounted
      <4>3. CASE \E i \in 1..Len(ledger) : ledger[i] = <<Top(s, snapshot[s]), "success">>
        BY <4>1, <4>3, <1>1 DEF Accounted
      <4>4. CASE \E i \in 1..Len(todo) : todo[i] = Top(s, snapshot[s])
        <5>1. CASE op.name = "discovery"
          <6>1. Len(todo) = 1
            BY <5>1, <1>3
          <6>2. op = Top(s, snapshot[s])
            BY <6>1, <4>4
          <6> QED BY <5>1, <6>2 DEF Top
        <5>2. CASE op.name # "discovery"
          <6>1. todo' = todo
            BY <5>2, <1>1, <1>2
          <6> QED BY <6>1, <4>1, <4>4 DEF Accounted
        <5> QED BY <5>1, <5>2
      <4> QED BY <4>2, <4>3, <4>4 DEF Accounted
    <3> QED BY <3>1, <3>2, <3>3
  <2> QED BY <2>1, <1>1 DEF SnapshotAccounted
<1> QED BY <1>7, <1>8, <1>9, <1>10, <1>11 DEF LedgerIInv

LEMMA AuditedKnows ==
    ASSUME LedgerIInv, Observe!Audited
    PROVE  LedgerIInv'
<1>1. /\ doing = "run" /\ doing' = "end" /\ Head(todo).name = "audit" /\ audit' = "whole"
      /\ UNCHANGED <<recorded, todo, ledger, snapshot>>
  BY DEF Observe!Audited
<1>2. todo # <<>> /\ Head(todo) = todo[1]
  BY <1>1, HeadLeft DEF LedgerIInv
<1>3. TodoOrdered'
  <2>1. Concluded(todo)
    <3>1. <<Observe!Op("discovery")>>[1].name = "discovery"
      BY OpTyped DEF OpNames
    <3>2. todo # <<Observe!Op("discovery")>>
      BY <3>1, <1>1, <1>2
    <3> QED BY <3>2, <1>1 DEF LedgerIInv, TodoOrdered
  <2> QED BY <2>1, <1>1 DEF LedgerIInv, TodoOrdered
<1>4. LedgerTyped'
  BY <1>1 DEF LedgerIInv, LedgerTyped
<1>5. LedgerPaired'
  BY <1>1 DEF LedgerIInv, LedgerPaired, PairsHold, Clean, Unfinished
<1>6. AuditLast'
  BY <1>1 DEF LedgerIInv, AuditLast
<1>7. SnapshotAccounted'
  BY <1>1 DEF LedgerIInv, SnapshotAccounted, Accounted
<1> QED BY <1>3, <1>4, <1>5, <1>6, <1>7 DEF LedgerIInv

LEMMA NotCollectedKnows ==
    ASSUME LedgerIInv, Observe!NotCollected
    PROVE  LedgerIInv'
<1>1. /\ doing = "run" /\ doing' = "raised" /\ UNCHANGED <<recorded, todo, snapshot>>
      /\ Observe!WroteFailure
  BY DEF Observe!NotCollected, Observe!WroteFailure
<1>2. todo # <<>> /\ Head(todo) = todo[1] /\ todo[1] \in Ops
  BY <1>1, HeadLeft DEF LedgerIInv
<1>3. /\ ledger \in Seq(LedgerRows) /\ recorded \in BOOLEAN /\ Clean /\ PairsHold
      /\ recorded => Unfinished
      /\ ~recorded => ledger = <<>>
      /\ \A i \in 1..Len(ledger) : ledger[i] # Audit
  BY <1>1 DEF LedgerIInv, LedgerTyped, LedgerPaired, AuditLast
<1> DEFINE op == todo[1]
<1>4. \/ ledger' = ledger
      \/ recorded /\ ledger' = Append(ledger, <<op, "torn">>)
      \/ recorded /\ ledger' = Append(ledger, <<op, "failure">>)
  BY <1>1, <1>2, <1>3 DEF Observe!WroteFailure, Observe!Row
<1>5. ASSUME NEW k \in {"torn", "failure"}, recorded, ledger' = Append(ledger, <<op, k>>)
      PROVE  /\ ledger' \in Seq(LedgerRows) /\ PairsHold'
             /\ \A i \in 1..Len(ledger') : ledger'[i] # Audit
  <2>1. PairsHold'
    BY <1>2, <1>3, <1>5, EndAppended
  <2> HIDE DEF op
  <2>2. op \in Ops
    BY <1>2 DEF op
  <2>3. /\ ledger' \in Seq(LedgerRows) /\ Len(ledger') = Len(ledger) + 1
        /\ ledger'[Len(ledger')] = <<op, k>> /\ Len(ledger) \in Nat
        /\ \A i \in 1..Len(ledger) : ledger'[i] = ledger[i]
    BY <2>2, <1>3, <1>5, AppendedRow
  <2>4. ledger'[Len(ledger')] # Audit
    BY <2>3, RowParts DEF Audit
  <2>5. \A i \in 1..Len(ledger') : i \in 1..Len(ledger) \/ i = Len(ledger')
    BY <2>3
  <2> QED BY <2>1, <2>3, <2>4, <2>5, <1>3
<1>6. /\ ledger' \in Seq(LedgerRows) /\ PairsHold'
      /\ \A i \in 1..Len(ledger') : ledger'[i] # Audit
  <2>1. CASE ledger' = ledger
    BY <2>1, <1>3 DEF PairsHold
  <2> QED BY <2>1, <1>4, <1>5
<1>7. LedgerTyped' /\ TodoOrdered'
  <2>1. ~recorded => ledger' = <<>>
    BY <1>3, <1>4
  <2> QED BY <2>1, <1>1, <1>6 DEF LedgerIInv, LedgerTyped, TodoOrdered
<1>8. LedgerPaired' /\ AuditLast' /\ SnapshotAccounted'
  BY <1>1, <1>6 DEF LedgerPaired, AuditLast, SnapshotAccounted
<1> QED BY <1>7, <1>8 DEF LedgerIInv

LEMMA EndingKnows ==
    ASSUME LedgerIInv, Observe!Ending
    PROVE  LedgerIInv'
<1>1. /\ doing = "end" /\ todo' = Tail(todo) /\ UNCHANGED <<recorded, audit, snapshot>>
  BY DEF Observe!Ending
<1>2. /\ todo # <<>> /\ Head(todo) = todo[1] /\ todo[1] \in Ops /\ Len(todo) \in Nat \ {0}
  BY <1>1, HeadLeft DEF LedgerIInv
<1>3. /\ ledger \in Seq(LedgerRows) /\ recorded \in BOOLEAN /\ Clean /\ PairsHold
      /\ recorded => Unfinished
      /\ ~recorded => ledger = <<>>
      /\ \A i \in 1..Len(ledger) : ledger[i] # Audit
      /\ todo \in Seq(Ops) /\ Ordered(todo) /\ Concluded(todo)
      /\ todo[1].name = "audit" => audit = "whole"
      /\ DOMAIN snapshot \subseteq Services /\ snapshot \in [DOMAIN snapshot -> Nat]
  BY <1>1 DEF LedgerIInv, LedgerTyped, TodoOrdered, LedgerPaired, AuditLast
<1> DEFINE op == todo[1]
<1>4. /\ \/ ledger' = ledger /\ (doing' = "raised" \/ ~recorded)
         \/ recorded /\ ledger' = Append(ledger, <<op, "torn">>) /\ doing' = "raised"
         \/ recorded /\ ledger' = Append(ledger, <<op, "success">>)
      /\ Len(todo) = 1 => doing' \in {"returned", "raised"}
      /\ Len(todo) # 1 => doing' \in {"start", "raised"}
      /\ doing' # "raised" /\ recorded => ledger' = Append(ledger, <<op, "success">>)
  BY <1>1, <1>2, <1>3 DEF Observe!Ending, Observe!Wrote, Observe!Row
<1>5. ASSUME NEW k \in {"torn", "success"}, recorded, ledger' = Append(ledger, <<op, k>>)
      PROVE  /\ ledger' \in Seq(LedgerRows) /\ PairsHold'
             /\ k = "success" => Clean' /\ Len(ledger') % 2 = 0
             /\ Len(ledger') = Len(ledger) + 1 /\ ledger'[Len(ledger) + 1] = <<op, k>>
             /\ \A i \in 1..Len(ledger) : ledger'[i] = ledger[i]
  <2>1. PairsHold' /\ (k = "success" => Clean' /\ Len(ledger') % 2 = 0)
    BY <1>2, <1>3, <1>5, EndAppended
  <2> HIDE DEF op
  <2>2. op \in Ops
    BY <1>2 DEF op
  <2> QED BY <2>1, <2>2, <1>3, <1>5, AppendedRow
<1>6. Len(todo) = 1 => op = Observe!Op("audit") /\ audit = "whole"
  BY <1>3, OpTyped DEF Concluded, OpNames
<1>7. Len(todo) # 1 => op.name # "audit"
  BY <1>3, TailOrdered
<1>8. /\ todo' \in Seq(Ops) /\ Ordered(todo') /\ (Len(todo) = 1 => todo' = <<>>)
      /\ Len(todo) # 1 => Concluded(todo') /\ todo'[1].name # "discovery"
      /\ Len(todo') = Len(todo) - 1 /\ \A i \in 1..Len(todo') : todo'[i] = todo[i + 1]
  <2>1. CASE Len(todo) = 1
    <3>1. todo' \in Seq(Ops) /\ Len(todo') = 0
      BY <2>1, <1>1, <1>2, <1>3, HeadTailProperties
    <3>2. todo' = <<>>
      BY <3>1
    <3> QED BY <2>1, <3>1, <3>2 DEF Ordered
  <2>2. CASE Len(todo) # 1
    BY <2>2, <1>1, <1>3, TailOrdered
  <2> QED BY <2>1, <2>2
<1>9. /\ ledger' \in Seq(LedgerRows) /\ PairsHold'
      /\ doing' # "raised" => Clean' /\ Len(ledger') % 2 = 0
  <2>1. CASE ledger' = ledger /\ (doing' = "raised" \/ ~recorded)
    <3>1. PairsHold' /\ ledger' \in Seq(LedgerRows)
      BY <2>1, <1>3 DEF PairsHold
    <3>2. ~recorded => Clean' /\ Len(ledger') % 2 = 0
      BY <2>1, <1>3 DEF Clean
    <3> QED BY <2>1, <3>1, <3>2
  <2>2. CASE recorded /\ ledger' = Append(ledger, <<op, "torn">>) /\ doing' = "raised"
    BY <2>2, <1>5
  <2>3. CASE recorded /\ ledger' = Append(ledger, <<op, "success">>)
    BY <2>3, <1>5
  <2> QED BY <2>1, <2>2, <2>3, <1>4
<1>10. LedgerTyped'
  <2>1. ~recorded => ledger' = <<>>
    BY <1>3, <1>4
  <2>2. doing' \in {"start", "returned", "raised"}
    BY <1>4
  <2> QED BY <2>1, <2>2, <1>1, <1>3, <1>8, <1>9 DEF LedgerTyped
<1>11. TodoOrdered'
  <2>1. doing' = "returned" => Len(todo) = 1
    BY <1>4
  <2>2. doing' = "start" => Len(todo) # 1
    BY <1>4
  <2>3. doing' \notin {"run", "end"}
    BY <1>4
  <2> QED BY <2>1, <2>2, <2>3, <1>1, <1>6, <1>8 DEF TodoOrdered
<1>12. LedgerPaired'
  <2>1. doing' \notin {"run", "end"}
    BY <1>4
  <2> QED BY <2>1, <1>9 DEF LedgerPaired
<1>13. AuditLast'
  <2>1. ASSUME NEW i \in 1..Len(ledger'), ledger'[i] = Audit
        PROVE  audit' = "whole" /\ doing' \in {"returned", "raised"}
    <3>1. CASE ledger' = ledger
      BY <3>1, <2>1, <1>3
    <3>2. ASSUME NEW k \in {"torn", "success"}, recorded, ledger' = Append(ledger, <<op, k>>)
          PROVE  Len(todo) = 1
      <4>1. i \in 1..Len(ledger) \/ i = Len(ledger) + 1
        BY <3>2, <1>3, <1>5
      <4>2. i = Len(ledger) + 1
        BY <4>1, <3>2, <2>1, <1>3, <1>5
      <4>3. Audit = <<op, k>>
        BY <4>2, <3>2, <2>1, <1>5
      <4>4. op = Observe!Op("audit")
        BY <4>3, RowParts DEF Audit
      <4>5. op.name = "audit"
        BY <4>4, OpTyped DEF OpNames
      <4> QED BY <4>5, <1>7
    <3>3. Len(todo) = 1
      BY <3>2, <1>3, <1>4, <2>1
    <3> QED BY <3>3, <1>1, <1>4, <1>6
  <2>2. ASSUME doing' = "returned", recorded
        PROVE  ledger' # <<>> /\ ledger'[Len(ledger')] = Audit
    <3>1. Len(todo) = 1 /\ ledger' = Append(ledger, <<op, "success">>)
      BY <2>2, <1>4
    <3>2. /\ Len(ledger') = Len(ledger) + 1 /\ ledger'[Len(ledger) + 1] = <<op, "success">>
          /\ ledger' \in Seq(LedgerRows) /\ Len(ledger) \in Nat
      BY <3>1, <2>2, <1>3, <1>5
    <3>3. <<op, "success">> = Audit
      BY <3>1, <1>6 DEF Audit
    <3> QED BY <3>2, <3>3
  <2> QED BY <2>1, <2>2, <1>1 DEF AuditLast
<1>14. SnapshotAccounted'
  <2>1. ASSUME recorded, doing' # "raised", NEW s \in DOMAIN snapshot
        PROVE  Accounted(s)'
    <3>1. /\ ledger' \in Seq(LedgerRows)
          /\ Len(ledger') = Len(ledger) + 1 /\ ledger'[Len(ledger) + 1] = <<op, "success">>
          /\ \A i \in 1..Len(ledger) : ledger'[i] = ledger[i]
      BY <2>1, <1>4, <1>5
    <3>2. Accounted(s)
      BY <2>1, <1>1 DEF LedgerIInv, SnapshotAccounted
    <3>3. CASE \E i \in 1..Len(ledger) : ledger[i] = <<Top(s, snapshot[s]), "success">>
      <4>1. PICK i \in 1..Len(ledger) : ledger[i] = <<Top(s, snapshot[s]), "success">>
        BY <3>3
      <4>2. i \in 1..Len(ledger') /\ ledger'[i] = <<Top(s, snapshot[s]), "success">>
        BY <4>1, <3>1, <1>3
      <4> QED BY <4>2, <1>1 DEF Accounted
    <3>4. CASE \E i \in 1..Len(todo) : todo[i] = Top(s, snapshot[s])
      <4>1. PICK i \in 1..Len(todo) : todo[i] = Top(s, snapshot[s])
        BY <3>4
      <4>2. CASE i = 1
        <5>1. Len(ledger) + 1 \in 1..Len(ledger') /\ op = Top(s, snapshot[s])
          BY <4>1, <4>2, <3>1, <1>3
        <5>2. ledger'[Len(ledger) + 1] = <<Top(s, snapshot[s]), "success">>
          BY <5>1, <3>1
        <5> QED BY <5>1, <5>2, <1>1 DEF Accounted
      <4>3. CASE i # 1
        <5>1. i - 1 \in 1..Len(todo') /\ todo'[i - 1] = todo[i]
          BY <4>1, <4>3, <1>2, <1>8
        <5> QED BY <5>1, <4>1, <1>1 DEF Accounted
      <4> QED BY <4>2, <4>3
    <3> QED BY <3>2, <3>3, <3>4 DEF Accounted
  <2> QED BY <2>1, <1>1 DEF SnapshotAccounted
<1> QED BY <1>10, <1>11, <1>12, <1>13, <1>14 DEF LedgerIInv

LEMMA ObservationStepKnows ==
    ASSUME LedgerIInv, ContainersTyped, Observe!ObservationStep
    PROVE  LedgerIInv'
BY OpeningKnows, StartingKnows, CollectedKnows, AuditedKnows, NotCollectedKnows, EndingKnows
   DEF Observe!ObservationStep

-----------------------------------------------------------------------------
(* The steps of the trial                                                  *)

LEMMA JourneyFrame ==
    ASSUME JourneyIInv, UNCHANGED journeyVars
    PROVE  JourneyIInv'
BY DEF JourneyIInv, JourneyTyped, JourneyKnows, AllGood, TokenOfLast, journeyVars

LEMMA LedgerFrame ==
    ASSUME LedgerIInv, UNCHANGED observationVars
    PROVE  LedgerIInv'
<1>1. UNCHANGED <<recorded, doing, todo, ledger, audit, snapshot>>
  BY DEF observationVars
<1>2. LedgerTyped' /\ TodoOrdered'
  BY <1>1 DEF LedgerIInv, LedgerTyped, TodoOrdered
<1>3. LedgerPaired' /\ AuditLast'
  BY <1>1 DEF LedgerIInv, LedgerPaired, PairsHold, Clean, Unfinished, AuditLast
<1>4. SnapshotAccounted'
  BY <1>1 DEF LedgerIInv, SnapshotAccounted, Accounted
<1> QED BY <1>2, <1>3, <1>4 DEF LedgerIInv

LEMMA TrialFrame ==
    ASSUME TrialIInv, UNCHANGED trialVars, UNCHANGED <<verdict, doing>>
    PROVE  TrialIInv'
BY DEF TrialIInv, TrialKnows, Earned, trialVars

\* The containers come up, fail, end and are replaced; none disappears.
LEMMA ContainersLive ==
    ASSUME IInv, Healthy \/ Change
    PROVE  IInv'
<1>1. /\ UNCHANGED <<trialVars, bootVars, journeyVars, observationVars>>
      /\ ContainersTyped' /\ \A s \in Services : status[s] # "absent" => status'[s] # "absent"
  <2>1. CASE Healthy
    <3>1. UNCHANGED <<trialVars, bootVars, journeyVars, observationVars>>
      BY <2>1 DEF Healthy
    <3>2. \E s \in Services : status' = [status EXCEPT ![s] = "ready"]
      BY <2>1 DEF Healthy, Became
    <3>3. container' = container
      BY <2>1 DEF Healthy
    <3> QED BY <3>1, <3>2, <3>3 DEF IInv, ContainersTyped, Statuses
  <2>2. CASE Change
    <3>1. UNCHANGED <<trialVars, bootVars, journeyVars, observationVars>>
      BY <2>2 DEF Change
    <3>2. \E s \in Services, next \in {"unhealthy", "exited", "starting", "ready"} :
             /\ status' = [status EXCEPT ![s] = next]
             /\ container' = container \/ container' = [container EXCEPT ![s] = @ + 1]
      BY <2>2 DEF Change, Became
    <3>3. status' \in [Services -> Statuses]
          /\ \A s \in Services : status[s] # "absent" => status'[s] # "absent"
      BY <3>2 DEF IInv, ContainersTyped, Statuses
    <3>4. container' \in [Services -> Nat]
      BY <3>2 DEF IInv, ContainersTyped
    <3> QED BY <3>1, <3>3, <3>4 DEF ContainersTyped
  <2> QED BY <2>1, <2>2
<1>2. UNCHANGED <<phase, evidence, at, up, first, last, rechecked, document, stages, verdict, doing>>
  BY <1>1 DEF trialVars, bootVars, observationVars
<1>3. BootIInv'
  <2>1. UNCHANGED Boot!Confirmed
    BY <1>2 DEF Boot!Confirmed, Boot!Snapshot, Boot!AllReady, Boot!SomeProbed, Boot!Ids
  <2> QED BY <2>1, <1>1, <1>2 DEF IInv, BootIInv, BootKnows, Boot!Worked, Boot!AllReady
<1>4. DocumentIInv'
  BY <1>2 DEF IInv, DocumentIInv, DocumentTells, Tells, Pending
<1>5. JourneyIInv' /\ LedgerIInv' /\ TrialIInv'
  BY <1>1, <1>2, JourneyFrame, LedgerFrame, TrialFrame DEF IInv
<1> QED BY <1>1, <1>3, <1>4, <1>5 DEF IInv

LEMMA BootingKnows ==
    ASSUME IInv, Booting
    PROVE  IInv'
<1>1. /\ phase = "boot" /\ Boot!BootStep
      /\ UNCHANGED <<trialVars, changes, journeyVars, observationVars>>
  BY DEF Booting
<1>2. ContainersTyped' /\ BootIInv'
  BY <1>1, BootStepKnows DEF IInv, BootIInv
<1>3. DocumentIInv'
  <2>1. CASE evidence
    BY <2>1, <1>1, DocumentStepTells DEF IInv, DocumentIInv, BootIInv
  <2>2. CASE ~evidence
    <3>1. evidence' = evidence
      BY <1>1 DEF Boot!BootStep, Boot!Preflight, Boot!VerifyImages, Boot!UpStarts,
                  Boot!UpReturns, Boot!Ps, Boot!PsAgain, Boot!Logs, Boot!Judge
    <3>2. rechecked' \in BOOLEAN
      BY <1>1 DEF Boot!BootStep, Boot!Preflight, Boot!VerifyImages, Boot!UpStarts,
                  Boot!UpReturns, Boot!Ps, Boot!PsAgain, Boot!Logs, Boot!Judge, Boot!Recheck,
                  IInv, DocumentIInv
    <3> QED BY <2>2, <3>1, <3>2, <1>1 DEF IInv, DocumentIInv
  <2> QED BY <2>1, <2>2, <1>1
<1>4. JourneyIInv' /\ LedgerIInv'
  BY <1>1, JourneyFrame, LedgerFrame DEF IInv
<1>5. TrialIInv'
  BY <1>1 DEF IInv, TrialIInv, TrialKnows, Earned, trialVars, observationVars, Live
<1> QED BY <1>2, <1>3, <1>4, <1>5 DEF IInv

LEMMA RaisedKnows ==
    ASSUME TrialIInv, phase \in {"boot"} \cup Live, Raised,
           UNCHANGED <<kind, plan, results, verdict, doing>>
    PROVE  TrialIInv' /\ phase' # "boot"
BY DEF Raised, TrialIInv, TrialKnows, Earned, Live

\* Before a journey was replayed only the boot and the plan decide.
LEMMA FirstDecision ==
    ASSUME verdict \in {"pass", "fail"}, plan \in Seq(Seq(JourneySteps))
    PROVE  Decision(<<>>) = IF verdict = "fail" THEN "ROLLBACK"
                            ELSE IF plan = <<>> THEN "STOP" ELSE "none"
BY DEF Decision

\* After journeys that passed, the last one decides.
LEMMA NextDecision ==
    ASSUME verdict = "pass", plan \in Seq(Seq(JourneySteps)), plan # <<>>,
           results \in Seq({"pass", "fail", "unsupported"}),
           \A i \in 1..Len(results) : results[i] = "pass",
           NEW o \in {"pass", "fail", "unsupported"}
    PROVE  Decision(Append(results, o)) =
             IF o = "fail" THEN "ROLLBACK" ELSE IF o # "pass" THEN "STOP"
             ELSE IF Len(results) + 1 = Len(plan) THEN "KEEP" ELSE "none"
<1> DEFINE outcomes == Append(results, o)
           n == Len(results)
<1>1. /\ DOMAIN outcomes = 1..(n + 1) /\ Len(outcomes) = n + 1 /\ n \in Nat
      /\ outcomes[n + 1] = o /\ \A i \in 1..n : outcomes[i] = "pass"
  OBVIOUS
<1> HIDE DEF outcomes, n
<1>2. CASE o = "pass"
  <2>1. ~\E i \in DOMAIN outcomes : outcomes[i] # "pass"
    BY <1>1, <1>2
  <2>2. Decision(outcomes) = IF Len(outcomes) = Len(plan) THEN "KEEP" ELSE "none"
    BY <2>1 DEF Decision
  <2> QED BY <2>2, <1>1, <1>2 DEF outcomes, n
<1>3. CASE o # "pass"
  <2> DEFINE bad == CHOOSE i \in DOMAIN outcomes :
                      outcomes[i] # "pass" /\ \A j \in 1..(i - 1) : outcomes[j] = "pass"
  <2>1. \A j \in 1..((n + 1) - 1) : outcomes[j] = "pass"
    BY <1>1
  <2>2. bad \in DOMAIN outcomes /\ outcomes[bad] # "pass"
    <3>1. \E i \in DOMAIN outcomes :
             outcomes[i] # "pass" /\ \A j \in 1..(i - 1) : outcomes[j] = "pass"
      <4>1. n + 1 \in DOMAIN outcomes /\ outcomes[n + 1] # "pass"
        BY <1>1, <1>3
      <4> QED BY <4>1, <2>1
    <3> QED BY <3>1
  <2> HIDE DEF bad
  <2>3. bad = n + 1
    BY <2>2, <1>1
  <2>4. \E i \in DOMAIN outcomes : outcomes[i] # "pass"
    BY <2>2
  <2>5. Decision(outcomes) = IF outcomes[bad] = "fail" THEN "ROLLBACK" ELSE "STOP"
    BY <2>4 DEF Decision, bad
  <2> QED BY <2>3, <2>5, <1>1, <1>3 DEF outcomes
<1> QED BY <1>2, <1>3

LEMMA BootedKnows ==
    ASSUME IInv, Booted
    PROVE  IInv'
<1>1. /\ phase = "boot" /\ at \in {"returned", "raised"}
      /\ UNCHANGED <<kind, plan, results, containers, journeyVars, observationVars, verdict>>
      /\ \/ at = "raised" /\ Raised
         \/ /\ at = "returned" /\ kind = "baseline" /\ UNCHANGED record
            /\ phase' = IF verdict = "fail" THEN "recover"
                        ELSE IF plan = <<>> THEN "observation" ELSE "publish"
         \/ /\ at = "returned" /\ kind = "experiment" /\ record' = Decision(<<>>)
            /\ phase' = IF Decision(<<>>) = "none" THEN "observation" ELSE "done"
  BY DEF Booted, ForgetBoot
<1>2. /\ at = "returned" => verdict \in {"pass", "fail"}
      /\ TrialIInv
  BY <1>1 DEF IInv, BootIInv, BootKnows
<1>3. UNCHANGED <<status, container, doing>>
  BY <1>1 DEF containers, observationVars
<1>4. /\ results = <<>> /\ record = "none" /\ plan \in Seq(Seq(JourneySteps))
      /\ kind \in {"baseline", "experiment"}
  BY <1>1, <1>2 DEF TrialIInv, TrialKnows
<1>5. TrialIInv' /\ phase' # "boot"
  <2>1. CASE at = "raised" /\ Raised
    BY <2>1, <1>1, <1>2, <1>3, RaisedKnows
  <2>2. CASE /\ at = "returned" /\ kind = "baseline" /\ UNCHANGED record
             /\ phase' = IF verdict = "fail" THEN "recover"
                         ELSE IF plan = <<>> THEN "observation" ELSE "publish"
    <3>1. plan # <<>> => Len(<<>>) < Len(plan)
      BY <1>4
    <3> QED BY <2>2, <3>1, <1>1, <1>2, <1>3, <1>4 DEF TrialIInv, TrialKnows, Earned, Live
  <2>3. CASE /\ at = "returned" /\ kind = "experiment" /\ record' = Decision(<<>>)
             /\ phase' = IF Decision(<<>>) = "none" THEN "observation" ELSE "done"
    <3>1. Decision(<<>>) = IF verdict = "fail" THEN "ROLLBACK"
                           ELSE IF plan = <<>> THEN "STOP" ELSE "none"
      BY <2>3, <1>2, <1>4, FirstDecision
    <3>2. CASE verdict = "fail"
      <4>1. record' = "ROLLBACK" /\ phase' = "done"
        BY <2>3, <3>1, <3>2
      <4> QED BY <2>3, <3>2, <4>1, <1>1, <1>2, <1>3, <1>4 DEF TrialIInv, TrialKnows, Earned, Live
    <3>3. CASE verdict # "fail" /\ plan = <<>>
      <4>1. record' = "STOP" /\ phase' = "done"
        BY <2>3, <3>1, <3>3
      <4> QED BY <2>3, <3>3, <4>1, <1>1, <1>2, <1>3, <1>4 DEF TrialIInv, TrialKnows, Earned, Live
    <3>4. CASE verdict # "fail" /\ plan # <<>>
      <4>1. record' = "none" /\ phase' = "observation"
        BY <2>3, <3>1, <3>4
      <4> QED BY <2>3, <3>4, <4>1, <1>1, <1>2, <1>3, <1>4 DEF TrialIInv, TrialKnows, Earned, Live
    <3> QED BY <3>2, <3>3, <3>4
  <2> QED BY <2>1, <2>2, <2>3, <1>1
<1>6. ContainersTyped' /\ BootIInv' /\ DocumentIInv'
  BY <1>3, <1>5 DEF IInv, ContainersTyped, BootIInv, DocumentIInv
<1>7. JourneyIInv' /\ LedgerIInv'
  BY <1>1, JourneyFrame, LedgerFrame DEF IInv
<1> QED BY <1>5, <1>6, <1>7 DEF IInv

\* Outside the boot nothing is said of it.
LEMMA NoBoot ==
    ASSUME phase' # "boot", ContainersTyped, UNCHANGED <<status, container>>
    PROVE  ContainersTyped' /\ BootIInv' /\ DocumentIInv'
BY DEF ContainersTyped, BootIInv, DocumentIInv

LEMMA RecoveringKnows ==
    ASSUME IInv, Recovering
    PROVE  IInv'
<1>1. /\ phase = "recover" /\ phase' \in {"raised", "done"}
      /\ UNCHANGED <<kind, plan, results, record, changes, journeyVars, observationVars>>
      /\ UNCHANGED <<verdict, status, container>>
  BY DEF Recovering, Boot!Recover
<1>2. ContainersTyped' /\ BootIInv' /\ DocumentIInv'
  BY <1>1, NoBoot DEF IInv
<1>3. JourneyIInv' /\ LedgerIInv'
  BY <1>1, JourneyFrame, LedgerFrame DEF IInv
<1>4. TrialIInv'
  BY <1>1 DEF IInv, TrialIInv, TrialKnows, Earned, observationVars, Live
<1> QED BY <1>2, <1>3, <1>4 DEF IInv

LEMMA PublishKnows ==
    ASSUME IInv, Publish
    PROVE  IInv'
<1>1. /\ phase = "publish"
      /\ UNCHANGED <<kind, plan, results, changes, containers, bootVars, observationVars>>
      /\ \/ Raised /\ UNCHANGED journeyVars
         \/ phase' = "journeys" /\ Http!Opens(plan[1]) /\ UNCHANGED record
  BY DEF Publish
<1>2. UNCHANGED <<status, container, verdict, doing>>
  BY <1>1 DEF containers, bootVars, observationVars
<1>3. plan[1] \in Seq(JourneySteps)
  <2>1. plan \in Seq(Seq(JourneySteps)) /\ Len(results) < Len(plan)
        /\ results \in Seq({"pass", "fail", "unsupported"})
    BY <1>1 DEF IInv, TrialIInv, TrialKnows
  <2> QED BY <2>1
<1>4. JourneyIInv'
  <2>1. CASE Raised /\ UNCHANGED journeyVars
    BY <2>1, JourneyFrame DEF IInv
  <2>2. CASE Http!Opens(plan[1])
    BY <2>2, <1>3, OpensKnows
  <2> QED BY <1>1, <2>1, <2>2
<1>5. TrialIInv' /\ phase' # "boot"
  <2>1. CASE Raised
    BY <2>1, <1>1, <1>2, RaisedKnows DEF IInv, Live
  <2>2. CASE phase' = "journeys" /\ UNCHANGED record
    BY <2>2, <1>1, <1>2 DEF IInv, TrialIInv, TrialKnows, Earned, Live
  <2> QED BY <1>1, <2>1, <2>2
<1>6. LedgerIInv'
  BY <1>1, LedgerFrame DEF IInv
<1>7. ContainersTyped' /\ BootIInv' /\ DocumentIInv'
  BY <1>2, <1>5, NoBoot DEF IInv
<1> QED BY <1>4, <1>5, <1>6, <1>7 DEF IInv

LEMMA ReplayingKnows ==
    ASSUME IInv, Replaying
    PROVE  IInv'
<1>1. /\ phase = "journeys" /\ Http!JourneyStep
      /\ UNCHANGED <<trialVars, changes, containers, bootVars, observationVars>>
  BY DEF Replaying
<1>2. UNCHANGED <<phase, status, container, verdict, doing>>
  BY <1>1 DEF trialVars, containers, bootVars, observationVars
<1>3. JourneyIInv' /\ LedgerIInv' /\ TrialIInv'
  BY <1>1, <1>2, JourneyStepKnows, LedgerFrame, TrialFrame DEF IInv
<1>4. ContainersTyped' /\ BootIInv' /\ DocumentIInv'
  BY <1>1, <1>2, NoBoot DEF IInv
<1> QED BY <1>3, <1>4 DEF IInv

LEMMA JourneyEndsKnows ==
    ASSUME IInv, JourneyEnds
    PROVE  IInv'
<1> DEFINE outcomes == Append(results, outcome)
           decision == Decision(outcomes)
           more == IF kind = "baseline" THEN Len(outcomes) < Len(plan) ELSE decision = "none"
<1>1. /\ phase = "journeys" /\ outcome # "none"
      /\ UNCHANGED <<kind, plan, changes, containers, bootVars, observationVars>>
  BY DEF JourneyEnds
<1>2. UNCHANGED <<status, container, verdict, doing>>
  BY <1>1 DEF containers, bootVars, observationVars
<1>3. \/ /\ outcome = "raised" /\ Raised
         /\ UNCHANGED <<results, journeyVars>>
      \/ /\ outcome # "raised" /\ results' = outcomes
         /\ record' = IF kind = "baseline" THEN record ELSE decision
         /\ phase' = IF more THEN "journeys"
                     ELSE IF kind = "baseline" THEN "observation" ELSE "done"
         /\ IF more THEN Http!Opens(plan[Len(outcomes) + 1])
            ELSE /\ journey' = <<>> /\ step' = 0 /\ url' = "none" /\ visited' = {}
                 /\ token' = 0 /\ answer' = Http!NoAnswer /\ files' = <<>>
                 /\ passed' = 0 /\ outcome' = "none"
  BY DEF JourneyEnds
<1>4. /\ plan \in Seq(Seq(JourneySteps)) /\ kind \in {"baseline", "experiment"}
      /\ results \in Seq({"pass", "fail", "unsupported"}) /\ Len(results) < Len(plan)
      /\ verdict = "pass" /\ record = "none"
      /\ kind = "experiment" =>
           doing = "returned" /\ \A i \in 1..Len(results) : results[i] = "pass"
  BY <1>1 DEF IInv, TrialIInv, TrialKnows, Live
<1>5. outcome \in {"none", "pass", "fail", "unsupported", "raised"}
  BY DEF IInv, JourneyIInv, JourneyTyped
<1>6. plan # <<>> /\ Len(plan) \in Nat /\ Len(results) \in Nat /\ Len(results) + 1 <= Len(plan)
  BY <1>4
<1>7. CASE outcome = "raised" /\ Raised /\ UNCHANGED <<results, journeyVars>>
  <2>1. TrialIInv' /\ phase' # "boot"
    BY <1>1, <1>2, <1>7, RaisedKnows DEF IInv, Live
  <2>2. JourneyIInv' /\ LedgerIInv'
    BY <1>1, <1>7, JourneyFrame, LedgerFrame DEF IInv
  <2> QED BY <2>1, <2>2, <1>2, NoBoot DEF IInv
<1>8. CASE /\ outcome # "raised" /\ results' = outcomes
           /\ record' = IF kind = "baseline" THEN record ELSE decision
           /\ phase' = IF more THEN "journeys"
                       ELSE IF kind = "baseline" THEN "observation" ELSE "done"
           /\ IF more THEN Http!Opens(plan[Len(outcomes) + 1])
              ELSE /\ journey' = <<>> /\ step' = 0 /\ url' = "none" /\ visited' = {}
                   /\ token' = 0 /\ answer' = Http!NoAnswer /\ files' = <<>>
                   /\ passed' = 0 /\ outcome' = "none"
  <2>1. outcome \in {"pass", "fail", "unsupported"}
    BY <1>1, <1>5, <1>8
  <2>2. /\ outcomes \in Seq({"pass", "fail", "unsupported"})
        /\ Len(outcomes) = Len(results) + 1 /\ outcomes[Len(outcomes)] = outcome
        /\ \A i \in 1..Len(results) : outcomes[i] = results[i]
    BY <2>1, <1>4
  <2>3. kind = "experiment" =>
          decision = IF outcome = "fail" THEN "ROLLBACK" ELSE IF outcome # "pass" THEN "STOP"
                     ELSE IF Len(outcomes) = Len(plan) THEN "KEEP" ELSE "none"
    BY <2>1, <2>2, <1>4, <1>6, NextDecision
  <2>4. more => /\ Len(outcomes) < Len(plan)
                /\ kind = "experiment" => outcome = "pass"
    BY <2>2, <2>3, <1>4, <1>6
  <2>5. kind = "baseline" /\ ~more => Len(outcomes) = Len(plan)
    BY <2>2, <1>6
  <2>6. outcome = "pass" /\ kind = "experiment" =>
          \A i \in 1..Len(outcomes) : outcomes[i] = "pass"
    BY <2>2, <1>4, <1>6
  <2>61. kind = "experiment" => \A i \in 1..(Len(outcomes) - 1) : outcomes[i] = "pass"
    BY <2>2, <1>4, <1>6
  <2>7. JourneyIInv'
    <3>1. CASE more
      <4>1. plan[Len(outcomes) + 1] \in Seq(JourneySteps)
        BY <3>1, <2>2, <2>4, <1>4, <1>6
      <4> QED BY <3>1, <4>1, <1>8, OpensKnows
    <3>2. CASE ~more
      BY <3>2, <1>8, NoAnswerTyped DEF JourneyIInv, JourneyTyped, JourneyKnows
    <3> QED BY <3>1, <3>2
  <2>8. TrialIInv' /\ phase' # "boot"
    <3>1. /\ results' = outcomes /\ outcome # "raised"
          /\ record' = IF kind = "baseline" THEN record ELSE decision
          /\ phase' = IF more THEN "journeys"
                      ELSE IF kind = "baseline" THEN "observation" ELSE "done"
      BY <1>8
    <3> HIDE DEF outcomes, decision
    <3>2. CASE kind = "baseline" /\ more
      <4>1. phase' = "journeys" /\ record' = "none"
        BY <3>1, <3>2, <1>4
      <4> QED BY <4>1, <3>1, <3>2, <2>2, <2>4, <1>1, <1>2, <1>4 DEF TrialIInv, TrialKnows, Earned, Live
    <3>3. CASE kind = "baseline" /\ ~more
      <4>1. phase' = "observation" /\ record' = "none"
        BY <3>1, <3>3, <1>4
      <4> QED BY <4>1, <3>1, <3>3, <2>2, <2>5, <1>1, <1>2, <1>4 DEF TrialIInv, TrialKnows, Earned, Live
    <3>4. CASE kind = "experiment" /\ more
      <4>1. phase' = "journeys" /\ record' = "none"
        BY <3>1, <3>4, <1>4
      <4> QED BY <4>1, <3>1, <3>4, <2>2, <2>4, <2>6, <1>1, <1>2, <1>4 DEF TrialIInv, TrialKnows, Earned, Live
    <3>5. CASE kind = "experiment" /\ ~more
      <4>1. phase' = "done" /\ record' = decision /\ record' # "none"
        BY <3>1, <3>5
      <4>2. outcomes # <<>> /\ Len(outcomes) \in Nat
        BY <2>2, <1>6
      <4>3. CASE outcome = "fail"
        <5>1. record' = "ROLLBACK"
          BY <4>1, <4>3, <3>5, <2>3
        <5> QED BY <5>1, <4>1, <4>2, <4>3, <3>1, <3>5, <2>2, <2>61, <1>1, <1>2, <1>4
             DEF TrialIInv, TrialKnows, Earned, Live
      <4>4. CASE outcome = "unsupported"
        <5>1. record' = "STOP"
          BY <4>1, <4>4, <3>5, <2>3
        <5> QED BY <5>1, <4>1, <3>1, <3>5, <2>2, <1>1, <1>2, <1>4
             DEF TrialIInv, TrialKnows, Earned, Live
      <4>5. CASE outcome = "pass"
        <5>1. record' = "KEEP" /\ Len(outcomes) = Len(plan)
          BY <4>1, <4>5, <3>5, <2>3
        <5> QED BY <5>1, <4>1, <4>5, <3>1, <3>5, <2>2, <2>6, <1>1, <1>2, <1>4, <1>6
             DEF TrialIInv, TrialKnows, Earned, Live
      <4> QED BY <4>3, <4>4, <4>5, <2>1
    <3> QED BY <3>2, <3>3, <3>4, <3>5, <1>4
  <2>9. LedgerIInv'
    BY <1>1, LedgerFrame DEF IInv
  <2> QED BY <2>7, <2>8, <2>9, <1>2, NoBoot DEF IInv
<1> QED BY <1>3, <1>7, <1>8

LEMMA ObservingKnows ==
    ASSUME IInv, Observing
    PROVE  IInv'
<1>1. /\ phase = "observation" /\ Observe!ObservationStep
      /\ UNCHANGED <<trialVars, verdict, journeyVars>>
  BY DEF Observing
<1>2. UNCHANGED <<status, container>>
  BY <1>1 DEF Observe!ObservationStep, Observe!Opening, Observe!Starting, Observe!Collected,
              Observe!Audited, Observe!NotCollected, Observe!Ending
<1>3. JourneyIInv' /\ LedgerIInv'
  BY <1>1, JourneyFrame, ObservationStepKnows DEF IInv
<1>4. TrialIInv'
  BY <1>1 DEF IInv, TrialIInv, TrialKnows, Earned, trialVars, Live
<1>5. ContainersTyped' /\ BootIInv' /\ DocumentIInv'
  BY <1>1, <1>2, NoBoot DEF IInv, trialVars
<1> QED BY <1>3, <1>4, <1>5 DEF IInv

LEMMA ObservedKnows ==
    ASSUME IInv, Observed
    PROVE  IInv'
<1>1. /\ phase = "observation" /\ doing \in {"returned", "raised"}
      /\ UNCHANGED <<kind, plan, results, changes, containers, bootVars, journeyVars,
                     observationVars>>
      /\ \/ doing = "raised" /\ Raised
         \/ /\ doing = "returned" /\ UNCHANGED record
            /\ phase' = IF kind = "baseline" THEN "done" ELSE "publish"
  BY DEF Observed
<1>2. UNCHANGED <<status, container, verdict, doing>>
  BY <1>1 DEF containers, bootVars, observationVars
<1>3. TrialIInv' /\ phase' # "boot"
  <2>1. CASE Raised
    BY <2>1, <1>1, <1>2, RaisedKnows DEF IInv, Live
  <2>2. CASE /\ doing = "returned" /\ UNCHANGED record
             /\ phase' = IF kind = "baseline" THEN "done" ELSE "publish"
    <3>1. results = <<>> /\ plan # <<>> /\ plan \in Seq(Seq(JourneySteps)) => Len(results) < Len(plan)
      OBVIOUS
    <3> QED BY <2>2, <3>1, <1>1, <1>2 DEF IInv, TrialIInv, TrialKnows, Earned, Live
  <2> QED BY <1>1, <2>1, <2>2
<1>4. JourneyIInv' /\ LedgerIInv'
  BY <1>1, JourneyFrame, LedgerFrame DEF IInv
<1>5. ContainersTyped' /\ BootIInv' /\ DocumentIInv'
  BY <1>2, <1>3, NoBoot DEF IInv
<1> QED BY <1>3, <1>4, <1>5 DEF IInv

-----------------------------------------------------------------------------
(* The inductive invariant, and what follows from it                       *)

LEMMA InitIInv == Init => IInv
<1> SUFFICES ASSUME Init
             PROVE  IInv
  OBVIOUS
<1>1. /\ kind \in {"baseline", "experiment"} /\ phase = "boot"
      /\ plan \in Plans /\ results = <<>> /\ record = "none"
      /\ status = [s \in Services |-> "absent"] /\ container = [s \in Services |-> 1]
      /\ Boot!BootInit(kind = "baseline") /\ Http!NoJourney
      /\ Observe!ObservationInit(IF kind = "baseline" THEN {TRUE} ELSE BOOLEAN)
  BY DEF Init
<1>2. ContainersTyped
  BY <1>1 DEF ContainersTyped, Statuses
<1>3. /\ evidence = (kind = "baseline") /\ at = "start" /\ up = Boot!Broken
      /\ rechecked = FALSE /\ document = Boot!NoDocument /\ stages = <<>> /\ verdict = "none"
  BY <1>1 DEF Boot!BootInit
<1>4. BootIInv
  BY <1>3, ResultsDiffer DEF BootIInv, BootKnows, BootPlaces
<1>5. DocumentTells
  <2>1. document = [commands |-> <<>>, final |-> "none", recovery |-> "none", state |-> "none"]
    BY <1>3 DEF Boot!NoDocument
  <2>2. <<>> \in Seq(Rows)
    OBVIOUS
  <2>3. document \in Documents
    BY <2>1, <2>2 DEF Documents
  <2>4. Pending = 0
    BY <1>3 DEF Pending
  <2> QED BY <2>1, <2>3, <2>4, <1>3 DEF DocumentTells, Tells
<1>6. DocumentIInv
  BY <1>3, <1>5 DEF DocumentIInv
<1>7. JourneyIInv /\ LedgerIInv
  BY <1>1, NoJourneyKnows, ObservationInitKnows
<1>8. TrialIInv
  BY <1>1, <1>3, PlansAssumption DEF TrialIInv, TrialKnows, Earned, Live
<1> QED BY <1>2, <1>4, <1>6, <1>7, <1>8 DEF IInv

LEMMA StutterKnows ==
    ASSUME IInv, UNCHANGED vars
    PROVE  IInv'
<1>1. UNCHANGED <<kind, phase, plan, results, record, status, container, evidence, at, up,
                  first, last, rechecked, document, stages, verdict, doing>>
      /\ UNCHANGED <<trialVars, journeyVars, observationVars>>
  BY DEF vars, trialVars, containers, bootVars, observationVars
<1>2. ContainersTyped'
  BY <1>1 DEF IInv, ContainersTyped
<1>3. BootIInv'
  <2>1. UNCHANGED Boot!Confirmed
    BY <1>1 DEF Boot!Confirmed, Boot!Snapshot, Boot!AllReady, Boot!SomeProbed, Boot!Ids
  <2> QED BY <2>1, <1>1 DEF IInv, BootIInv, BootKnows, Boot!Worked, Boot!AllReady
<1>4. DocumentIInv'
  BY <1>1 DEF IInv, DocumentIInv, DocumentTells, Tells, Pending
<1>5. JourneyIInv' /\ LedgerIInv' /\ TrialIInv'
  BY <1>1, JourneyFrame, LedgerFrame, TrialFrame DEF IInv
<1> QED BY <1>2, <1>3, <1>4, <1>5 DEF IInv

LEMMA Inductive == IInv /\ [Next]_vars => IInv'
BY ContainersLive, BootingKnows, BootedKnows, RecoveringKnows, PublishKnows, ReplayingKnows,
   JourneyEndsKnows, ObservingKnows, ObservedKnows, StutterKnows DEF Next, Step

\* The parts of a trial keep to their invariants, whatever the containers do
\* meanwhile: the boot of trial/boot.py with its document, the journey of
\* journey/http_runner.py, the observation of trial/observer.py with its ledger and
\* the order in which graph.py and engine.py go through them.
THEOREM TrialInvariant == Spec => []IInv
<1>1. Init => IInv
  BY InitIInv
<1>2. IInv /\ [Next]_vars => IInv'
  BY Inductive
<1> QED BY <1>1, <1>2, PTL DEF Spec

\* A boot passes only for one listing in which every service has a container that
\* is ready, and the containers of the first look when it had to look twice
\* (boot.py, _final_ids_match).
THEOREM PassMeansReady == Spec => []PassIsReady
<1>1. IInv => PassIsReady
  <2> SUFFICES ASSUME IInv, phase = "boot", verdict = "pass"
               PROVE  /\ DOMAIN last = Services
                      /\ \A s \in Services : last[s].status = "ready"
                      /\ rechecked => \A s \in DOMAIN first : last[s].id = first[s].id
    BY DEF PassIsReady
  <2>1. DOMAIN last = Services /\ Boot!Confirmed
    BY DEF IInv, BootIInv, BootKnows
  <2>2. \A s \in Services : last[s].status = "ready"
    BY <2>1 DEF Boot!Confirmed, Boot!AllReady
  <2>3. ASSUME rechecked, NEW s \in DOMAIN first
        PROVE  last[s].id = first[s].id
    <3>1. <<s, first[s].id>> \in {<<t, first[t].id>> : t \in DOMAIN first}
      OBVIOUS
    <3>2. {<<t, first[t].id>> : t \in DOMAIN first} = {<<t, last[t].id>> : t \in DOMAIN last}
      BY <2>1, <2>3 DEF Boot!Confirmed, Boot!Ids
    <3>3. PICK t \in DOMAIN last : <<s, first[s].id>> = <<t, last[t].id>>
      BY <3>1, <3>2
    <3> QED BY <3>3
  <2> QED BY <2>1, <2>2, <2>3
<1> QED BY <1>1, TrialInvariant, PTL

\* The document of a boot is the boot: a prefix of its stages that ends with the
\* first exception, all of them and the verdict when it returned (boot_evidence.py).
THEOREM DocumentIsTheBoot == Spec => []EvidenceIsExecution
<1>1. IInv => EvidenceIsExecution
  <2> SUFFICES ASSUME IInv, phase = "boot", evidence
               PROVE  EvidenceIsExecution
    BY DEF EvidenceIsExecution
  <2> DEFINE rows == document.commands
             told == [i \in DOMAIN rows |-> StageName(rows[i])]
  <2>1. DocumentTells /\ BootKnows
    BY DEF IInv, DocumentIInv, BootIInv
  <2>2. /\ rows \in Seq(Rows) /\ stages \in Seq(StageNames) /\ Len(rows) <= Len(stages)
        /\ \A i \in 1..Len(rows) : /\ StageName(rows[i]) = stages[i]
                                   /\ rows[i][2] = "exception" => i = Len(rows)
    BY <2>1 DEF DocumentTells, Documents, Tells
  <2> HIDE DEF rows
  <2>3. /\ told \in Seq(StageNames) /\ Len(told) = Len(rows) /\ DOMAIN told = 1..Len(rows)
        /\ \A i \in 1..Len(rows) : told[i] = stages[i]
    <3>1. told = [i \in 1..Len(rows) |-> stages[i]]
      BY <2>2
    <3>2. Len(rows) \in Nat /\ Len(stages) \in Nat
      BY <2>2
    <3>3. \A i \in 1..Len(rows) : stages[i] \in StageNames
      BY <2>2, <3>2
    <3> HIDE DEF told
    <3>4. told \in [1..Len(rows) -> StageNames]
      BY <3>1, <3>3
    <3> QED BY <3>1, <3>2, <3>4
  <2> HIDE DEF told
  <2>4. told = SubSeq(stages, 1, Len(told))
    <3>0. Len(rows) \in Nat /\ Len(stages) \in Nat
      BY <2>2
    <3>1. /\ Len(told) \in Nat /\ Len(stages) \in Nat /\ Len(told) <= Len(stages)
      BY <3>0, <2>2, <2>3
    <3>2. \A i \in 1..Len(told) : stages[i] \in StageNames
      BY <2>2, <3>1
    <3>3. /\ SubSeq(stages, 1, Len(told)) \in Seq(StageNames)
          /\ Len(SubSeq(stages, 1, Len(told))) = Len(told)
          /\ \A i \in 1..Len(told) : SubSeq(stages, 1, Len(told))[i] = stages[i]
      BY <3>1, <2>2
    <3> DEFINE part == SubSeq(stages, 1, Len(told))
    <3> HIDE DEF part
    <3>4. part \in Seq(StageNames) /\ Len(part) = Len(told)
          /\ \A i \in 1..Len(told) : part[i] = told[i]
      BY <3>3, <2>3 DEF part
    <3>5. part = told
      BY <3>4, <2>3, SeqEqual
    <3> QED BY <3>5 DEF part
  <2>5. at = "returned" => /\ document.state = "whole" /\ document.final = verdict
                           /\ Len(told) = Len(stages)
    <3>1. at = "returned" => Pending = 0
      BY DEF Pending
    <3>2. at = "returned" => Len(stages) = Len(rows) + 0
      BY <3>1, <2>1 DEF DocumentTells, rows
    <3>3. Len(rows) \in Nat
      BY <2>2
    <3> QED BY <3>2, <3>3, <2>1, <2>3 DEF DocumentTells
  <2>6. document.final # "none" => at \in {"returned", "raised"}
    BY <2>1 DEF DocumentTells
  <2>7. \A i \in DOMAIN told : rows[i][2] = "exception" => i = Len(told)
    BY <2>2, <2>3
  <2> QED BY <2>2, <2>3, <2>4, <2>5, <2>6, <2>7 DEF EvidenceIsExecution, told, rows
<1> QED BY <1>1, TrialInvariant, PTL

\* The ledger of an observation is finished operations, in pairs, and what is
\* returned has the success of each of them and a whole audit (observer.py).
THEOREM LedgerIsWhole == Spec => []LedgerIsPaired
<1>1. IInv => LedgerIsPaired
  <2> SUFFICES ASSUME IInv
               PROVE  LedgerIsPaired
    OBVIOUS
  <2>1. /\ LedgerTyped /\ TodoOrdered /\ LedgerPaired /\ AuditLast /\ SnapshotAccounted
    BY DEF IInv, LedgerIInv
  <2>2. DOMAIN ledger = 1..Len(ledger)
    BY <2>1 DEF LedgerTyped
  <2>3. \A i \in DOMAIN ledger :
          /\ i % 2 = 1 => ledger[i][2] = "start" \/ (ledger[i][2] = "torn" /\ i = Len(ledger))
          /\ i % 2 = 0 => /\ ledger[i][1] = ledger[i - 1][1]
                          /\ ledger[i][2] # "start"
                          /\ ledger[i][2] # "success" => i = Len(ledger)
    BY <2>1, <2>2 DEF LedgerPaired, PairsHold
  <2>4. ASSUME doing = "returned", recorded
        PROVE  /\ ledger[Len(ledger)] = <<Observe!Op("audit"), "success">>
               /\ \A s \in DOMAIN snapshot :
                    <<[name |-> "top", of |-> s, id |-> snapshot[s]], "success">>
                        \in {ledger[i] : i \in DOMAIN ledger}
    <3>1. ledger[Len(ledger)] = <<Observe!Op("audit"), "success">>
      BY <2>1, <2>4 DEF AuditLast, Audit
    <3>2. ASSUME NEW s \in DOMAIN snapshot
          PROVE  <<[name |-> "top", of |-> s, id |-> snapshot[s]], "success">>
                     \in {ledger[i] : i \in DOMAIN ledger}
      <4>1. Accounted(s) /\ todo = <<>>
        BY <2>1, <2>4, <3>2 DEF SnapshotAccounted, TodoOrdered
      <4>2. ~\E i \in 1..Len(todo) : TRUE
        BY <4>1
      <4>3. \E i \in 1..Len(ledger) : ledger[i] = <<Top(s, snapshot[s]), "success">>
        BY <4>1, <4>2 DEF Accounted
      <4> QED BY <4>3, <2>2 DEF Top
    <3> QED BY <3>1, <3>2
  <2>5. doing = "returned" => audit = "whole"
    BY <2>1 DEF TodoOrdered
  <2>6. <<Observe!Op("audit"), "success">> \in {ledger[i] : i \in DOMAIN ledger} => audit = "whole"
    BY <2>1, <2>2 DEF AuditLast, Audit
  <2> QED BY <2>3, <2>4, <2>5, <2>6 DEF LedgerIsPaired
<1> QED BY <1>1, TrialInvariant, PTL

\* A token is used only when the last step that was to capture one was counted,
\* with evidence of a whole successful response; redirects are bounded
\* (http_runner.py, http_auth.py).
THEOREM TokenMeansCapture == Spec => []TokenIsEarned
<1>1. IInv => TokenIsEarned
  <2> DEFINE captures == {i \in 1..(step - 1) : journey[i].auth = "capture"}
  <2> SUFFICES ASSUME IInv, phase = "journeys", outcome = "none", step > 0
               PROVE  /\ Cardinality(captures) > 0 <=> token # 0
                      /\ token # 0 =>
                           /\ token \in captures /\ \A i \in captures : i <= token
                           /\ files[token].state = "whole" /\ files[token].failure = "none"
                           /\ files[token].response.status = "success"
                           /\ files[token].response.body = "whole"
                      /\ Cardinality(visited) <= MaxRedirects + 1
    BY DEF TokenIsEarned
  <2>1. /\ JourneyTyped /\ Len(files) = step - 1 /\ AllGood /\ TokenOfLast(step)
        /\ Cardinality(visited) <= MaxRedirects + 1
    BY DEF IInv, JourneyIInv, JourneyKnows
  <2>2. IsFiniteSet(captures)
    <3>1. step - 1 \in Int /\ captures \subseteq 1..(step - 1)
      BY <2>1 DEF JourneyTyped
    <3>2. IsFiniteSet(1..(step - 1))
      BY <3>1, FS_Interval
    <3> QED BY <3>1, <3>2, FS_Subset
  <2>3. Cardinality(captures) > 0 <=> captures # {}
    <3>1. Cardinality(captures) \in Nat /\ (Cardinality(captures) = 0 <=> captures = {})
      BY <2>2, FS_CardinalityType, FS_EmptySet
    <3> HIDE DEF captures
    <3> QED BY <3>1
  <2>4. captures # {} <=> token # 0
    BY <2>1 DEF TokenOfLast
  <2>5. ASSUME token # 0
        PROVE  /\ token \in captures /\ \A i \in captures : i <= token
               /\ Good(files[token], journey[token]) /\ journey[token].auth = "capture"
    <3>1. /\ token \in 1..(step - 1) /\ journey[token].auth = "capture"
          /\ \A i \in 1..(step - 1) : journey[i].auth = "capture" => i <= token
      BY <2>1, <2>5 DEF TokenOfLast
    <3>2. Good(files[token], journey[token])
      BY <3>1, <2>1 DEF AllGood
    <3> QED BY <3>1, <3>2
  <2> HIDE DEF captures
  <2> QED BY <2>1, <2>3, <2>4, <2>5 DEF Good
<1> QED BY <1>1, TrialInvariant, PTL

\* A hardening is kept for nothing less than a boot that passed, an observation and
\* every journey of the plan passed, and rolled back for the failure that came last
\* (engine.py, policy.py).
THEOREM RecordMeansTrial == Spec => []RecordIsEarned
<1>1. IInv => RecordIsEarned
  <2> SUFFICES ASSUME IInv
               PROVE  RecordIsEarned
    OBVIOUS
  <2>1. TrialKnows /\ Earned /\ JourneyIInv /\ TodoOrdered
    BY DEF IInv, TrialIInv, LedgerIInv
  <2>2. DOMAIN results = 1..Len(results) /\ DOMAIN files = 1..Len(files)
    BY <2>1 DEF TrialKnows, JourneyIInv, JourneyTyped
  <2>3. record = "KEEP" => /\ verdict = "pass" /\ doing = "returned" /\ audit = "whole"
                           /\ Len(results) = Len(plan) /\ plan # <<>>
                           /\ \A i \in DOMAIN results : results[i] = "pass"
    BY <2>1, <2>2 DEF Earned, TodoOrdered
  <2>4. record = "ROLLBACK" =>
          verdict = "fail" \/ (/\ results # <<>> /\ results[Len(results)] = "fail"
                               /\ \A i \in 1..(Len(results) - 1) : results[i] = "pass")
    BY <2>1 DEF Earned
  <2>5. phase = "journeys" /\ outcome = "pass" =>
          /\ Len(files) = Len(journey)
          /\ \A i \in DOMAIN files : files[i].state = "whole" /\ files[i].failure = "none"
    BY <2>1, <2>2 DEF JourneyIInv, JourneyKnows, AllGood, Good
  <2>6. kind = "baseline" /\ phase = "done" /\ verdict = "pass" =>
          Len(results) = Len(plan) /\ doing = "returned"
    BY <2>1 DEF Earned
  <2> QED BY <2>3, <2>4, <2>5, <2>6 DEF RecordIsEarned
<1> QED BY <1>1, TrialInvariant, PTL

-----------------------------------------------------------------------------
(* A trial ends: what is ahead of it                                       *)

\* The phases in the order in which a baseline and an experiment go through them.
PhasesAhead ==
    CASE phase = "boot" -> 5
      [] phase = "recover" -> 4
      [] phase = "publish" -> 3
      [] phase = "journeys" -> 2
      [] phase = "observation" -> IF kind = "baseline" THEN 1 ELSE 4
      [] OTHER -> 0

\* The stages of a boot; `up` and `ps` are repeated once.
StagesAhead ==
    CASE at = "start" -> 10
      [] at = "verify" -> 9
      [] at = "up" -> IF rechecked THEN 5 ELSE 8
      [] at = "upping" -> IF rechecked THEN 4 ELSE 7
      [] at = "ps" -> IF rechecked THEN 3 ELSE 6
      [] at = "logs" -> 2
      [] at = "judge" -> 1
      [] OTHER -> 0

\* Of an observation: to open its ledger, to list the containers, to go through
\* what was listed.
Discovering == doing \in {"start", "run"} /\ todo = <<Observe!Op("discovery")>>
ListsAhead ==
    CASE doing = "idle" -> 3
      [] Discovering -> 2
      [] ~Discovering /\ doing \in {"start", "run", "end"} -> 1
      [] OTHER -> 0

PartsAhead ==
    CASE phase = "boot" -> StagesAhead
      [] phase = "journeys" -> Len(plan) - Len(results)
      [] phase = "observation" -> ListsAhead
      [] OTHER -> 0

\* The steps of a journey, the operations of an observation.
StepsAhead ==
    CASE phase = "journeys" -> IF outcome = "none" THEN 1 + Len(journey) - step ELSE 0
      [] phase = "observation" -> Len(todo)
      [] OTHER -> 0

\* The redirects of a step and its answer; the rows of an operation.
MovesAhead ==
    CASE phase = "journeys" ->
           IF outcome = "none" /\ step > 0 /\ answer = Http!NoAnswer
           THEN 2 + MaxRedirects - Cardinality(visited) ELSE 0
      [] phase = "observation" ->
           (CASE doing = "start" -> 2 [] doing = "run" -> 1 [] OTHER -> 0)
      [] OTHER -> 0

Ahead == <<<<PhasesAhead, PartsAhead>>, <<StepsAhead, MovesAhead>>>>

\* Fewer phases; as many phases and fewer parts; and so on.
NatLess == OpToRel(<, Nat)
PairLess == LexPairOrdering(NatLess, NatLess, Nat, Nat)
Nearer == LexPairOrdering(PairLess, PairLess, Nat \X Nat, Nat \X Nat)

\* A step of the trial leaves less ahead, and the containers change nothing of it.
GetsOn == /\ Step => <<Ahead', Ahead>> \in Nearer
          /\ ~Step => Ahead' = Ahead

LEMMA NatLessIs == NatLess = {ss \in Nat \X Nat : ss[1] < ss[2]}
  BY DEF NatLess, OpToRel

\* There is no infinite way of getting nearer.
THEOREM NearerIsWellFounded == IsWellFoundedOn(Nearer, (Nat \X Nat) \X (Nat \X Nat))
<1>1. IsWellFoundedOn(NatLess, Nat)
  BY NatLessThanWellFounded DEF NatLess
<1>2. IsWellFoundedOn(PairLess, Nat \X Nat)
  BY <1>1, WFLexPairOrdering DEF PairLess
<1> QED BY <1>2, WFLexPairOrdering DEF Nearer

Ranked == /\ PhasesAhead \in Nat /\ PartsAhead \in Nat
          /\ StepsAhead \in Nat /\ MovesAhead \in Nat

Closer ==
    \/ PhasesAhead' < PhasesAhead
    \/ /\ PhasesAhead' = PhasesAhead
       /\ \/ PartsAhead' < PartsAhead
          \/ /\ PartsAhead' = PartsAhead
             /\ \/ StepsAhead' < StepsAhead
                \/ StepsAhead' = StepsAhead /\ MovesAhead' < MovesAhead

LEMMA PairsCompared ==
  ASSUME NEW a \in Nat, NEW b \in Nat, NEW c \in Nat, NEW d \in Nat
  PROVE  <<<<a, b>>, <<c, d>>>> \in PairLess <=> a < c \/ (a = c /\ b < d)
  BY NatLessIs DEF PairLess, LexPairOrdering

LEMMA CloserIsNearer ==
  ASSUME Ranked, Ranked', Closer
  PROVE  <<Ahead', Ahead>> \in Nearer
<1> DEFINE p == <<PhasesAhead, PartsAhead>>
           q == <<StepsAhead, MovesAhead>>
<1>1. /\ p \in Nat \X Nat /\ q \in Nat \X Nat
      /\ p' \in Nat \X Nat /\ q' \in Nat \X Nat
  BY DEF Ranked
<1>2. <<p', p>> \in PairLess \/ (p' = p /\ <<q', q>> \in PairLess)
  BY PairsCompared DEF Ranked, Closer
<1>3. Ahead = <<p, q>> /\ Ahead' = <<p', q'>>
  BY DEF Ahead
<1> HIDE DEF p, q
<1> QED BY <1>1, <1>2, <1>3 DEF Nearer, LexPairOrdering

LEMMA IInvIsRanked == IInv => Ranked
<1> SUFFICES ASSUME IInv PROVE Ranked
  OBVIOUS
<1>1. TrialKnows /\ JourneyTyped /\ JourneyKnows /\ LedgerTyped
  BY DEF IInv, TrialIInv, JourneyIInv, LedgerIInv
<1>2. PhasesAhead \in Nat
  BY DEF PhasesAhead
<1>3. PartsAhead \in Nat
  <2>1. StagesAhead \in Nat /\ ListsAhead \in Nat
    BY DEF StagesAhead, ListsAhead
  <2>2. phase = "journeys" => Len(plan) - Len(results) \in Nat
    BY <1>1 DEF TrialKnows
  <2> QED BY <2>1, <2>2 DEF PartsAhead
<1>4. StepsAhead \in Nat
  <2>1. outcome = "none" => 1 + Len(journey) - step \in Nat
    BY <1>1 DEF JourneyTyped, JourneyKnows
  <2>2. Len(todo) \in Nat
    BY <1>1 DEF LedgerTyped
  <2> QED BY <2>1, <2>2 DEF StepsAhead
<1>5. MovesAhead \in Nat
  <2>1. outcome = "none" /\ step > 0 => 2 + MaxRedirects - Cardinality(visited) \in Nat
    BY <1>1, RedirectsAssumption, FS_CardinalityType DEF JourneyTyped, JourneyKnows
  <2> QED BY <2>1 DEF MovesAhead
<1> QED BY <1>2, <1>3, <1>4, <1>5 DEF Ranked

\* The boot goes from stage to stage, once back from `ps` to `up`.
LEMMA StagesGoOn ==
  ASSUME Boot!BootStep
  PROVE  StagesAhead' < StagesAhead
<1>1. CASE Boot!Preflight
  <2>1. at = "start" /\ at' \in {"verify", "raised"}
    BY <1>1, LoggedGoes DEF Boot!Preflight
  <2> QED BY <2>1 DEF StagesAhead
<1>2. CASE Boot!VerifyImages
  <2>1. at = "verify" /\ at' \in {"up", "raised"}
    BY <1>2, LoggedGoes DEF Boot!VerifyImages
  <2> QED BY <2>1 DEF StagesAhead
<1>3. CASE Boot!UpStarts
  <2>1. at = "up" /\ at' = "upping" /\ rechecked' = rechecked
    BY <1>3 DEF Boot!UpStarts
  <2> QED BY <2>1 DEF StagesAhead
<1>4. CASE Boot!UpReturns
  <2>1. at = "upping" /\ at' \in {"ps", "raised"} /\ rechecked' = rechecked
    BY <1>4, LoggedGoes DEF Boot!UpReturns
  <2> QED BY <2>1 DEF StagesAhead
<1>5. CASE Boot!Ps
  <2>1. at = "ps" /\ ~rechecked /\ at' \in {"up", "logs", "raised"}
    BY <1>5, LoggedGoes DEF Boot!Ps
  <2>2. at' = "up" => rechecked'
    BY <1>5, LoggedGoes DEF Boot!Ps
  <2> QED BY <2>1, <2>2 DEF StagesAhead
<1>6. CASE Boot!PsAgain
  <2>1. at = "ps" /\ at' \in {"logs", "raised"}
    BY <1>6, LoggedGoes DEF Boot!PsAgain
  <2> QED BY <2>1 DEF StagesAhead
<1>7. CASE Boot!Logs
  <2>1. at = "logs" /\ at' \in {"judge", "raised"}
    BY <1>7, LoggedGoes DEF Boot!Logs
  <2> QED BY <2>1 DEF StagesAhead
<1>8. CASE Boot!Judge
  <2>1. at = "judge" /\ at' \in {"returned", "raised"}
    BY <1>8 DEF Boot!Judge
  <2> QED BY <2>1 DEF StagesAhead
<1> QED BY <1>1, <1>2, <1>3, <1>4, <1>5, <1>6, <1>7, <1>8 DEF Boot!BootStep

\* A redirect visits an address for the first time, an answer ends the redirects,
\* and a step that is settled is behind the journey.
LEMMA JourneyGoesOn ==
  ASSUME IInv, phase = "journeys", phase' = phase, Http!JourneyStep
  PROVE  \/ StepsAhead' < StepsAhead
         \/ StepsAhead' = StepsAhead /\ MovesAhead' < MovesAhead
<1>1. JourneyTyped /\ JourneyKnows
  BY DEF IInv, JourneyIInv
<1>2. /\ outcome = "none" /\ step > 0 /\ step \in Nat
      /\ Len(journey) \in Nat /\ step <= Len(journey)
      /\ IsFiniteSet(visited) /\ Cardinality(visited) <= MaxRedirects + 1
      /\ MaxRedirects \in Nat /\ Cardinality(visited) \in Nat
  BY <1>1, RedirectsAssumption, FS_CardinalityType DEF JourneyTyped, JourneyKnows,
     Http!JourneyStep, Http!Redirected, Http!Answered, Http!Raises, Http!Settled
<1>3. StepsAhead = 1 + Len(journey) - step
  BY <1>2 DEF StepsAhead
<1>4. CASE Http!Redirected
  <2>1. PICK target \in Urls : Http!Allowed(target) /\ visited' = visited \cup {target}
    BY <1>4 DEF Http!Redirected, Http!Visiting
  <2>2. /\ answer = Http!NoAnswer
        /\ UNCHANGED <<journey, step, answer, outcome>>
    BY <1>4 DEF Http!Redirected
  <2>3. Cardinality(visited') = Cardinality(visited) + 1
    BY <1>2, <2>1, FS_AddElement DEF Http!Allowed
  <2>4. UNCHANGED Http!NoAnswer
    BY DEF Http!NoAnswer
  <2>5. /\ MovesAhead = 2 + MaxRedirects - Cardinality(visited)
        /\ MovesAhead' = 2 + MaxRedirects - Cardinality(visited')
    BY <1>2, <2>2, <2>4 DEF MovesAhead
  <2>6. StepsAhead' = StepsAhead
    BY <2>2 DEF StepsAhead
  <2> QED BY <1>2, <2>3, <2>5, <2>6
<1>5. CASE Http!Answered
  <2>1. /\ answer = Http!NoAnswer /\ answer'.kind # "none"
        /\ UNCHANGED <<journey, step, visited, outcome>>
    BY <1>5 DEF Http!Answered, Http!Failed, Http!Body, Http!NoAnswer
  <2>2. answer' # Http!NoAnswer
    BY <2>1 DEF Http!NoAnswer
  <2>3. MovesAhead = 2 + MaxRedirects - Cardinality(visited) /\ MovesAhead' = 0
    BY <1>2, <2>1, <2>2 DEF MovesAhead, Http!NoAnswer
  <2>4. StepsAhead' = StepsAhead
    BY <2>1 DEF StepsAhead
  <2> QED BY <1>2, <2>3, <2>4
<1>6. CASE Http!Raises
  <2>1. outcome' # "none"
    BY <1>6 DEF Http!Raises
  <2> QED BY <1>2, <1>3, <2>1 DEF StepsAhead
<1>7. CASE Http!Settled
  <2>1. \/ outcome' \in {"fail", "pass"}
        \/ outcome' = outcome /\ step' = step + 1 /\ journey' = journey
    BY <1>7 DEF Http!Settled
  <2>2. CASE outcome' \in {"fail", "pass"}
    BY <1>2, <1>3, <2>2 DEF StepsAhead
  <2>3. CASE outcome' = outcome /\ step' = step + 1 /\ journey' = journey
    <3>1. StepsAhead' = 1 + Len(journey) - (step + 1)
      BY <1>2, <2>3 DEF StepsAhead
    <3> QED BY <1>2, <1>3, <3>1
  <2> QED BY <2>1, <2>2, <2>3
<1> QED BY <1>4, <1>5, <1>6, <1>7 DEF Http!JourneyStep

\* An observation lists the containers once, and then has one operation less with
\* every pair of rows.
LEMMA ObservationGoesOn ==
  ASSUME IInv, phase = "observation", phase' = phase, Observe!ObservationStep
  PROVE  \/ ListsAhead' < ListsAhead
         \/ /\ ListsAhead' = ListsAhead
            /\ \/ StepsAhead' < StepsAhead
               \/ StepsAhead' = StepsAhead /\ MovesAhead' < MovesAhead
<1>1. LedgerTyped /\ TodoOrdered
  BY DEF IInv, LedgerIInv
<1>2. UNCHANGED Observe!Op("discovery")
  BY DEF Observe!Op
<1> USE <1>2 DEF ListsAhead, Discovering
<1>3. CASE Observe!Opening
  BY <1>3 DEF Observe!Opening
<1>4. ASSUME doing \in {"start", "run"}, doing' = "raised"
      PROVE  ListsAhead' < ListsAhead
  BY <1>4
<1>5. CASE Observe!Starting
  <2>1. /\ doing = "start" /\ doing' \in {"run", "raised"} /\ todo' = todo
    BY <1>5 DEF Observe!Starting, Observe!Wrote
  <2>2. CASE doing' = "run"
    BY <2>1, <2>2 DEF StepsAhead, MovesAhead
  <2> QED BY <1>4, <2>1, <2>2
<1>6. CASE Observe!Collected
  <2>1. doing = "run" /\ doing' = "end"
    BY <1>6 DEF Observe!Collected
  <2>2. CASE Discovering
    BY <2>1, <2>2
  <2>3. CASE ~Discovering
    <3>1. Head(todo).name # "discovery"
      BY <1>1, <2>1, <2>3 DEF TodoOrdered, Concluded, LedgerTyped
    <3>2. todo' = todo
      BY <1>6, <3>1 DEF Observe!Collected
    <3> QED BY <2>1, <2>3, <3>2 DEF StepsAhead, MovesAhead
  <2> QED BY <2>2, <2>3
<1>7. CASE Observe!Audited
  <2>1. doing = "run" /\ doing' = "end" /\ Head(todo).name = "audit" /\ todo' = todo
    BY <1>7 DEF Observe!Audited
  <2>2. ~Discovering
    BY <2>1 DEF Observe!Op
  <2> QED BY <2>1, <2>2 DEF StepsAhead, MovesAhead
<1>8. CASE Observe!NotCollected
  BY <1>4, <1>8 DEF Observe!NotCollected, Observe!WroteFailure
<1>9. CASE Observe!Ending
  <2>1. /\ doing = "end" /\ todo' = Tail(todo)
        /\ doing' \in {"returned", "raised", "start"}
        /\ doing' = "start" => Len(todo) # 1
    BY <1>9 DEF Observe!Ending, Observe!Wrote
  <2>2. /\ todo \in Seq(Ops) /\ todo # <<>> /\ todo[Len(todo)] = Observe!Op("audit")
    BY <1>1, <2>1 DEF LedgerTyped, TodoOrdered, Concluded
  <2>3. CASE doing' \in {"returned", "raised"}
    BY <2>1, <2>3
  <2>4. CASE doing' = "start"
    <3>1. Len(todo) \in Nat /\ Len(todo) > 1
      <4>1. Len(todo) \in Nat /\ Len(todo) # 0
        BY <2>2, EmptySeq
      <4>2. Len(todo) # 1
        BY <2>1, <2>4
      <4>3. \A n \in Nat : n # 0 /\ n # 1 => n > 1
        OBVIOUS
      <4> QED BY <4>1, <4>2, <4>3
    <3>2. /\ Len(todo') = Len(todo) - 1 /\ todo'[Len(todo')] = Observe!Op("audit")
      BY <2>1, <2>2, <3>1
    <3>3. todo' # <<Observe!Op("discovery")>>
      BY <3>1, <3>2 DEF Observe!Op
    <3>4. StepsAhead' < StepsAhead
      BY <3>1, <3>2 DEF StepsAhead
    <3> QED BY <2>1, <2>4, <3>3, <3>4
  <2> QED BY <2>1, <2>3, <2>4
<1> QED BY <1>3, <1>5, <1>6, <1>7, <1>8, <1>9 DEF Observe!ObservationStep

LEMMA StepGoesOn ==
  ASSUME IInv, Step
  PROVE  Closer
<1>1. TrialKnows
  BY DEF IInv, TrialIInv
<1>2. CASE Booting
  <2>1. phase = "boot" /\ phase' = phase /\ kind' = kind /\ Boot!BootStep
    BY <1>2 DEF Booting, trialVars
  <2>2. StagesAhead' < StagesAhead
    BY <2>1, StagesGoOn
  <2> QED BY <2>1, <2>2 DEF Closer, PhasesAhead, PartsAhead
<1>3. CASE Booted
  <2>1. /\ phase = "boot" /\ kind' = kind
        /\ phase' \in {"raised", "done", "recover", "observation", "publish"}
    BY <1>3 DEF Booted, Raised
  <2>2. PhasesAhead' < PhasesAhead
    BY <2>1 DEF PhasesAhead
  <2> QED BY <2>2 DEF Closer
<1>4. CASE Recovering
  <2>1. PhasesAhead' < PhasesAhead
    BY <1>4 DEF Recovering, PhasesAhead
  <2> QED BY <2>1 DEF Closer
<1>5. CASE Publish
  <2>1. phase = "publish" /\ phase' \in {"raised", "done", "journeys"}
    BY <1>5 DEF Publish, Raised
  <2>2. PhasesAhead' < PhasesAhead
    BY <2>1 DEF PhasesAhead
  <2> QED BY <2>2 DEF Closer
<1>6. CASE Replaying
  <2>1. /\ phase = "journeys" /\ phase' = phase /\ kind' = kind
        /\ plan' = plan /\ results' = results /\ Http!JourneyStep
    BY <1>6 DEF Replaying, trialVars
  <2>2. PhasesAhead' = PhasesAhead /\ PartsAhead' = PartsAhead
    BY <2>1 DEF PhasesAhead, PartsAhead
  <2> QED BY <2>1, <2>2, JourneyGoesOn DEF Closer
<1>7. CASE JourneyEnds
  <2>1. /\ phase = "journeys" /\ kind' = kind /\ plan' = plan
        /\ \/ phase' \in {"raised", "done"}
           \/ phase' = "observation" /\ kind = "baseline"
           \/ phase' = "journeys" /\ results' = Append(results, outcome)
    BY <1>1, <1>7 DEF JourneyEnds, Raised, TrialKnows
  <2>2. CASE \/ phase' \in {"raised", "done"}
             \/ phase' = "observation" /\ kind = "baseline"
    <3>1. PhasesAhead' < PhasesAhead
      BY <2>1, <2>2 DEF PhasesAhead
    <3> QED BY <3>1 DEF Closer
  <2>3. CASE phase' = "journeys" /\ results' = Append(results, outcome)
    <3>1. Len(results') = Len(results) + 1 /\ Len(results) \in Nat /\ Len(plan) \in Nat
      BY <1>1, <2>3 DEF TrialKnows
    <3>2. PhasesAhead' = PhasesAhead /\ PartsAhead' < PartsAhead
      BY <2>1, <2>3, <3>1 DEF PhasesAhead, PartsAhead
    <3> QED BY <3>2 DEF Closer
  <2> QED BY <2>1, <2>2, <2>3
<1>8. CASE Observing
  <2>1. phase = "observation" /\ phase' = phase /\ kind' = kind /\ Observe!ObservationStep
    BY <1>8 DEF Observing, trialVars
  <2>2. PhasesAhead' = PhasesAhead
    BY <2>1 DEF PhasesAhead
  <2>3. PartsAhead = ListsAhead /\ PartsAhead' = ListsAhead'
    BY <2>1 DEF PartsAhead
  <2> QED BY <2>1, <2>2, <2>3, ObservationGoesOn DEF Closer
<1>9. CASE Observed
  <2>1. /\ phase = "observation" /\ kind' = kind /\ kind \in {"baseline", "experiment"}
        /\ phase' \in {"raised", "done"} \/ (phase' = "publish" /\ kind = "experiment")
    BY <1>1, <1>9 DEF Observed, Raised, TrialKnows
  <2>2. PhasesAhead' < PhasesAhead
    BY <2>1 DEF PhasesAhead
  <2> QED BY <2>2 DEF Closer
<1> QED BY <1>2, <1>3, <1>4, <1>5, <1>6, <1>7, <1>8, <1>9 DEF Step

\* The containers have no part in what is ahead.
LEMMA OthersLeaveAhead ==
  ASSUME Healthy \/ Change \/ UNCHANGED vars
  PROVE  Ahead' = Ahead
<1>1. UNCHANGED <<trialVars, bootVars, journeyVars, observationVars>>
  BY DEF Healthy, Change, vars
<1>2. /\ UNCHANGED <<kind, phase, plan, results, at, rechecked, doing, todo>>
      /\ UNCHANGED <<journey, step, visited, answer, outcome>>
  BY <1>1 DEF trialVars, bootVars, journeyVars, observationVars
<1>3. UNCHANGED <<Http!NoAnswer, Observe!Op("discovery")>>
  BY DEF Http!NoAnswer, Observe!Op
<1>4. UNCHANGED <<StagesAhead, ListsAhead>>
  BY <1>2, <1>3 DEF StagesAhead, ListsAhead, Discovering
<1> QED BY <1>2, <1>3, <1>4 DEF Ahead, PhasesAhead, PartsAhead, StepsAhead, MovesAhead

\* Each step of a trial leaves less ahead in an order that has no infinite descent:
\* redirects, steps, journeys, containers to look at, the second look of the boot
\* are all bounded, and nothing the containers do adds to them.  With the fairness of
\* Step this is TrialEnds (boot.py, http_runner.py, observer.py, graph.py, engine.py).
THEOREM TrialGetsOn == Spec => [][GetsOn]_vars
<1>1. Ranked /\ Ranked' /\ IInv /\ [Next]_vars => [GetsOn]_vars
  <2> SUFFICES ASSUME Ranked, Ranked', IInv, Next
               PROVE  GetsOn
    OBVIOUS
  <2>1. Step => <<Ahead', Ahead>> \in Nearer
    BY StepGoesOn, CloserIsNearer
  <2>2. ~Step => Ahead' = Ahead
    BY OthersLeaveAhead DEF Next
  <2> QED BY <2>1, <2>2 DEF GetsOn
<1> QED BY <1>1, IInvIsRanked, TrialInvariant, PTL DEF Spec
=============================================================================
