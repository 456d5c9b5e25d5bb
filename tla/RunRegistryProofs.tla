------------------------- MODULE RunRegistryProofs -------------------------
(***************************************************************************)
(* TLAPS proofs about RunRegistry, for any set of runs and any number of   *)
(* starts of the service.                                                  *)
(***************************************************************************)
EXTENDS RunRegistry, TLAPS

Rows == {Absent} \cup [lifecycle : Lifecycles, report : BOOLEAN]

\* Types, without the bound on starts.
Typed ==
    /\ row \in [Runs -> Rows]
    /\ files \in [Runs -> {"none", "partial", "whole"}]
    /\ handler \in [Runs -> Live \cup {"none", "ended", "killed"}]
    /\ target \in [Runs -> Reported]
    /\ answer \in [Runs -> Answers]
    /\ lost \subseteq Runs /\ starts \in 0..MaxStarts
    /\ service \in {"down", "ready", "degraded"}

\* What a request knows of its row at each of its awaits.
RowAtStatement(r) ==
    /\ handler[r] \in {"none", "creating"} => row[r] = Absent
    /\ handler[r] \in {"running", "completing", "unsupported"} => row[r] = Row("RUNNING", FALSE)
    /\ handler[r] = "completing" => files[r] = "whole"
    /\ handler[r] = "downgrading" => row[r] \in {Row("RUNNING", FALSE), Row("UNSUPPORTED", FALSE)}
    /\ handler[r] = "failing" =>
          row[r] \in {Row("RUNNING", FALSE)} \cup {Row(l, TRUE) : l \in Reported}
    /\ answer[r] # "none" => handler[r] = "ended"

\* What holds of the row of a run, whoever handles it.
RowIsTrue(r) ==
    /\ row[r].report => row[r].lifecycle \in Reported /\ files[r] = "whole"
    /\ row[r].lifecycle \in {"COMPLETED", "TRIAL_FAILED"} => row[r].report
    /\ \A l \in Reported : answer[r] = OutcomeOf(l) => row[r].lifecycle = l
    /\ service = "ready" /\ row[r].lifecycle = "RUNNING" => handler[r] \in Live \/ r \in lost
    /\ handler[r] \in Live => service = "ready"

IInv == Typed /\ \A r \in Runs : RowAtStatement(r) /\ RowIsTrue(r)

\* A service that was never started has no rows.
LEMMA InitIInv == Init => IInv
BY RegistryAssumption DEF Init, IInv, Typed, Rows, RowAtStatement, RowIsTrue, Row, Absent,
       Live, Statements, Reported, Lifecycles, Answers, OutcomeOf

\* A waiting request writes a row its reader accepts.
LEMMA IntentIsRow ==
    ASSUME IInv, NEW r \in Runs, handler[r] \in Statements PROVE Intent(r) \in Rows
BY DEF IInv, Typed, Intent, Rows, Row, Statements, Reported, Lifecycles

\* What a statement of a request does to its own row and to the others.
LEMMA OneRow ==
    ASSUME IInv, NEW r \in Runs, NEW reply \in Replies, Executed(r, reply),
           handler[r] \in Statements
    PROVE  /\ row'[r] \in {row[r], Intent(r)}
           /\ reply = "answered" => row'[r] = Intent(r)
           /\ row'[r] # row[r] => handler[r] = "creating" \/ row[r] # Absent
           /\ \A q \in Runs \ {r} : row'[q] = row[q]
           /\ row' \in [Runs -> Rows]
           /\ lost' \subseteq Runs
           /\ reply # "answered" => r \in lost'
           /\ \A q \in Runs \ {r} : q \in lost' <=> q \in lost
<1>1. Intent(r) \in Rows
  BY IntentIsRow
<1>2. QED
  BY <1>1 DEF IInv, Typed, Executed, After, Applies

\* A run nothing happens to keeps its invariant.
LEMMA Untouched ==
    ASSUME IInv, NEW q \in Runs,
           row'[q] = row[q], files'[q] = files[q], handler'[q] = handler[q],
           answer'[q] = answer[q], service' = service, q \in lost => q \in lost'
    PROVE  RowAtStatement(q)' /\ RowIsTrue(q)'
BY DEF IInv, RowAtStatement, RowIsTrue

\* A statement of run r leaves every other run as it was.
LEMMA OthersUntouched ==
    ASSUME IInv, NEW r \in Runs, NEW reply \in Replies, Executed(r, reply),
           handler[r] \in Statements, NEW next, NEW said,
           handler' = [handler EXCEPT ![r] = next],
           answer' \in {answer, [answer EXCEPT ![r] = said]},
           files' = files, service' = service
    PROVE  \A q \in Runs \ {r} : RowAtStatement(q)' /\ RowIsTrue(q)'
<1>1. SUFFICES ASSUME NEW q \in Runs \ {r} PROVE RowAtStatement(q)' /\ RowIsTrue(q)'
  OBVIOUS
<1>2. row'[q] = row[q] /\ (q \in lost => q \in lost')
  BY OneRow
<1>3. handler'[q] = handler[q] /\ answer'[q] = answer[q]
  BY DEF IInv, Typed
<1>4. QED
  BY <1>2, <1>3, Untouched

\* Every statement keeps the invariant of the run that sent it.
LEMMA StatementStep ==
    ASSUME IInv, NEW r \in Runs, NEW reply \in Replies,
           \/ CreateReturns(r, reply) \/ CompleteReturns(r, reply)
           \/ UnsupportedReturns(r, reply) \/ DowngradeReturns(r, reply)
           \/ FailureReturns(r, reply) \/ InterruptReturns(r, reply)
    PROVE  IInv'
<1> USE DEF CreateReturns, CompleteReturns, UnsupportedReturns, DowngradeReturns,
            FailureReturns, InterruptReturns, Goto, Reply
<1>1. /\ Executed(r, reply) /\ handler[r] \in Statements
      /\ files' = files /\ service' = service /\ target' = target /\ starts' = starts
  BY DEF Statements
<1>2. PICK next \in Live \cup {"ended"}, said \in Answers :
          /\ handler' = [handler EXCEPT ![r] = next]
          /\ answer' \in {answer, [answer EXCEPT ![r] = said]}
  <2>1. target[r] \in Reported
    BY DEF IInv, Typed
  <2>2. OutcomeOf(target[r]) \in Answers /\ "none" \in Answers
        /\ {"unavailable", "internal_error", "raised", "execution_unsupported"} \subseteq Answers
    BY <2>1 DEF Answers, OutcomeOf, Reported
  <2>3. \/ \E next \in {"running", "interrupting", "failing", "downgrading"} :
              handler' = [handler EXCEPT ![r] = next] /\ answer' = answer
        \/ \E said \in Answers : /\ handler' = [handler EXCEPT ![r] = "ended"]
                                 /\ answer' = [answer EXCEPT ![r] = said]
    BY <2>2
  <2>4. QED
    BY <2>2, <2>3 DEF Live, Statements
<1>3. Typed'
  BY <1>1, <1>2, OneRow DEF IInv, Typed
<1>4. \A q \in Runs \ {r} : RowAtStatement(q)' /\ RowIsTrue(q)'
  BY <1>1, <1>2, OthersUntouched
<1>5. /\ row'[r] \in {row[r], Intent(r)}
      /\ reply = "answered" => row'[r] = Intent(r)
      /\ row'[r] # row[r] => handler[r] = "creating" \/ row[r] # Absent
      /\ reply # "answered" => r \in lost'
  BY <1>1, OneRow
<1>6. /\ RowAtStatement(r) /\ RowIsTrue(r) /\ answer[r] = "none"
      /\ files'[r] = files[r] /\ target[r] \in Reported
      /\ handler \in [Runs -> Live \cup {"none", "ended", "killed"}]
      /\ answer \in [Runs -> Answers]
  BY <1>1 DEF IInv, Typed, RowAtStatement, Statements
<1> USE DEF RowAtStatement, RowIsTrue, Intent, Row, Absent, Live, Statements, Reported,
            Lifecycles, OutcomeOf, Replies
<1>7. CASE CreateReturns(r, reply)
  BY <1>1, <1>3, <1>4, <1>5, <1>6, <1>7 DEF IInv
<1>8. CASE CompleteReturns(r, reply)
  BY <1>1, <1>3, <1>4, <1>5, <1>6, <1>8 DEF IInv
<1>9. CASE UnsupportedReturns(r, reply)
  BY <1>1, <1>3, <1>4, <1>5, <1>6, <1>9 DEF IInv
<1>10. CASE DowngradeReturns(r, reply)
  BY <1>1, <1>3, <1>4, <1>5, <1>6, <1>10 DEF IInv
<1>11. CASE FailureReturns(r, reply)
  BY <1>1, <1>3, <1>4, <1>5, <1>6, <1>11 DEF IInv
<1>12. CASE InterruptReturns(r, reply)
  BY <1>1, <1>3, <1>4, <1>5, <1>6, <1>12 DEF IInv
<1>13. QED
  BY <1>7, <1>8, <1>9, <1>10, <1>11, <1>12

\* Posting a request and the end of its trial keep the invariant.
LEMMA TrialStep ==
    ASSUME IInv, NEW r \in Runs, Post(r) \/ TrialEnds(r) \/ TrialRaises(r)
    PROVE  IInv'
<1> USE DEF Goto
<1>1. /\ row' = row /\ answer' = answer /\ service' = service /\ lost' = lost
      /\ starts' = starts
  BY DEF Post, TrialEnds, TrialRaises
<1>2. PICK next \in Live : handler' = [handler EXCEPT ![r] = next]
  BY DEF Post, TrialEnds, TrialRaises, Live, Statements
<1>3. PICK made \in {"none", "partial", "whole"} : files' = [files EXCEPT ![r] = made]
  <2>1. files = [files EXCEPT ![r] = files[r]] /\ files[r] \in {"none", "partial", "whole"}
    BY DEF IInv, Typed
  <2>2. QED
    BY <2>1 DEF Post, TrialEnds, TrialRaises
<1>4. Typed'
  BY <1>1, <1>2, <1>3 DEF IInv, Typed, Post, TrialEnds, TrialRaises
<1>5. \A q \in Runs \ {r} : RowAtStatement(q)' /\ RowIsTrue(q)'
  <2>1. SUFFICES ASSUME NEW q \in Runs \ {r} PROVE RowAtStatement(q)' /\ RowIsTrue(q)'
    OBVIOUS
  <2>2. files'[q] = files[q] /\ handler'[q] = handler[q]
    BY <1>2, <1>3 DEF IInv, Typed
  <2>3. QED
    BY <1>1, <2>2, Untouched
<1>6. RowAtStatement(r) /\ RowIsTrue(r)
      /\ handler \in [Runs -> Live \cup {"none", "ended", "killed"}]
      /\ files \in [Runs -> {"none", "partial", "whole"}]
  BY DEF IInv, Typed
<1> USE DEF RowAtStatement, RowIsTrue, Row, Absent, Live, Statements, Reported
<1>7. CASE Post(r)
  BY <1>1, <1>4, <1>5, <1>6, <1>7 DEF IInv, Post
<1>8. CASE TrialEnds(r)
  BY <1>1, <1>4, <1>5, <1>6, <1>8 DEF IInv, TrialEnds
<1>9. CASE TrialRaises(r)
  BY <1>1, <1>4, <1>5, <1>6, <1>9 DEF IInv, TrialRaises
<1>10. QED
  BY <1>7, <1>8, <1>9

\* A start finds no request of its own and sweeps the rows of the last process.
LEMMA StartStep == ASSUME IInv, NEW reply \in Replies, Start(reply) PROVE IInv'
<1>1. Typed'
  <2>1. ASSUME NEW v \in Rows PROVE Swept(v) \in Rows
    <3>1. CASE v.lifecycle = "RUNNING"
      <4>1. v.report \in BOOLEAN
        BY <3>1 DEF Rows, Absent, Row
      <4>2. QED
        BY <3>1, <4>1 DEF Swept, Rows, Row, Lifecycles
    <3>2. CASE v.lifecycle # "RUNNING"
      BY <3>2 DEF Swept
    <3>3. QED
      BY <3>1, <3>2
  <2>2. Started(reply) \in {"down", "ready", "degraded"}
    BY DEF Started, Replies
  <2>3. QED
    BY <2>1, <2>2, RegistryAssumption DEF IInv, Typed, Start
<1>2. ASSUME NEW r \in Runs PROVE RowAtStatement(r)' /\ RowIsTrue(r)'
  <2>1. handler[r] \notin Live /\ handler' = handler
    BY DEF IInv, RowIsTrue, Start
  <2>2. row'[r] \in {row[r], Swept(row[r])} /\ (reply = "answered" => row'[r] = Swept(row[r]))
    BY DEF Start
  <2>3. service' = "ready" => reply = "answered"
    BY DEF Start, Started, Replies
  <2>4. RowAtStatement(r) /\ RowIsTrue(r) /\ files' = files /\ answer' = answer
    BY DEF IInv, Start
  <2>5. RowAtStatement(r)'
    BY <2>1, <2>2, <2>4 DEF RowAtStatement, Swept, Absent, Row, Live, Statements
  <2>6. RowIsTrue(r)'
    BY <2>1, <2>2, <2>3, <2>4 DEF RowIsTrue, Swept, Row, Reported
  <2>7. QED
    BY <2>5, <2>6
<1>3. QED
  BY <1>1, <1>2 DEF IInv

\* A killed process leaves each row as it was or as its last statement writes it.
LEMMA KillStep == ASSUME IInv, Kill PROVE IInv'
<1>1. \A r \in Runs : row'[r] \in After(r)
  BY DEF Kill
<1>2. Typed'
  <2>1. \A r \in Runs : After(r) \subseteq Rows
    BY IntentIsRow DEF After, IInv, Typed
  <2>2. row' \in [Runs -> Rows]
    BY <2>1 DEF Kill
  <2>3. handler' \in [Runs -> Live \cup {"none", "ended", "killed"}]
    BY DEF Kill, IInv, Typed
  <2>4. QED
    BY <2>2, <2>3 DEF Kill, IInv, Typed
<1>3. ASSUME NEW r \in Runs PROVE RowAtStatement(r)' /\ RowIsTrue(r)'
  <2>1. /\ RowAtStatement(r) /\ RowIsTrue(r) /\ target[r] \in Reported
        /\ files' = files /\ answer' = answer /\ service' = "down"
        /\ handler'[r] = IF handler[r] \in Live THEN "killed" ELSE handler[r]
    BY DEF Kill, IInv, Typed
  <2>2. row'[r] = row[r] \/ (handler[r] \in Statements /\ row'[r] = Intent(r))
    BY <1>1 DEF After
  <2>3. RowAtStatement(r)'
    BY <2>1, <2>2 DEF RowAtStatement, Live, Statements
  <2>4. RowIsTrue(r)'
    BY <2>1, <2>2 DEF RowIsTrue, RowAtStatement, Live, Statements, Intent, Row, Reported, OutcomeOf
  <2>5. QED
    BY <2>3, <2>4
<1>4. QED
  BY <1>2, <1>3 DEF IInv

\* Every step of the service and of its requests keeps the invariant.
LEMMA StepIInv == IInv /\ [Next]_vars => IInv'
<1> SUFFICES ASSUME IInv, [Next]_vars PROVE IInv'
  OBVIOUS
<1>1. CASE Kill
  BY <1>1, KillStep
<1>2. ASSUME NEW reply \in Replies, Start(reply) PROVE IInv'
  BY <1>2, StartStep
<1>3. ASSUME NEW r \in Runs, Request(r) PROVE IInv'
  BY <1>3, TrialStep, StatementStep DEF Request
<1>4. CASE UNCHANGED vars
  BY <1>4 DEF vars, IInv, Typed, RowAtStatement, RowIsTrue
<1>5. QED
  BY <1>1, <1>2, <1>3, <1>4 DEF Next

\* The invariant holds in every behaviour of the service.
LEMMA Inductive == Spec => []IInv
<1>1. Init => IInv
  BY InitIInv
<1>2. IInv /\ [Next]_vars => IInv'
  BY StepIInv
<1>3. QED
  BY <1>1, <1>2, PTL DEF Spec

\* Every row is one the reader of the registry accepts.
THEOREM TypeCorrect == Spec => []TypeOK
<1>1. IInv => TypeOK
  BY DEF IInv, Typed, TypeOK, Rows
<1>2. QED
  BY <1>1, Inductive, PTL

\* A row that offers a report is that of a finished trial with a whole report.
THEOREM ReportsExist == Spec => []ReportIsThere
<1>1. IInv => ReportIsThere
  BY DEF IInv, RowIsTrue, ReportIsThere
<1>2. QED
  BY <1>1, Inductive, PTL

\* What a client was told of its trial is what the registry says.
THEOREM AnswersAreRecorded == Spec => []AnswerIsRecorded
<1>1. IInv => AnswerIsRecorded
  BY DEF IInv, RowIsTrue, AnswerIsRecorded
<1>2. QED
  BY <1>1, Inductive, PTL

\* A ready service knows the request behind every RUNNING row, or lost its last
\* statement.
THEOREM RunningRowsAreAccounted == Spec => []RunningIsAccounted
<1>1. IInv => RunningIsAccounted
  BY DEF IInv, RowIsTrue, RunningIsAccounted
<1>2. QED
  BY <1>1, Inductive, PTL

\* A terminal row is only withdrawn, by its own request and before it answers.
THEOREM TerminalRowsAreStable == Spec => [][OnlyWithdrawn]_vars
<1>1. ASSUME IInv, [Next]_vars PROVE OnlyWithdrawn
  <2> SUFFICES ASSUME NEW r \in Runs, row[r].lifecycle \in Lifecycles \ {"RUNNING"},
                      row'[r] # row[r]
               PROVE  /\ row[r].lifecycle # "INTERRUPTED"
                      /\ handler[r] \in Statements /\ answer[r] = "none"
                      /\ row'[r] \in {Row("INTERRUPTED", FALSE), Row("INTERNAL_ERROR", FALSE)}
    BY DEF OnlyWithdrawn
  <2>1. handler[r] \in Statements /\ row'[r] = Intent(r)
    <3>1. ASSUME NEW q \in Runs, NEW reply \in Replies, Executed(q, reply),
                 handler[q] \in Statements
          PROVE  handler[r] \in Statements /\ row'[r] = Intent(r)
      BY <1>1, <3>1, OneRow
    <3>2. ASSUME NEW reply \in Replies, Start(reply) PROVE FALSE
      BY <3>2 DEF Start, Swept
    <3>3. CASE Kill
      BY <3>3 DEF Kill, After
    <3>4. ASSUME NEW q \in Runs, Post(q) \/ TrialEnds(q) \/ TrialRaises(q) PROVE FALSE
      BY <3>4 DEF Post, TrialEnds, TrialRaises
    <3>5. ASSUME NEW q \in Runs, NEW reply \in Replies,
                 \/ CreateReturns(q, reply) \/ CompleteReturns(q, reply)
                 \/ UnsupportedReturns(q, reply) \/ DowngradeReturns(q, reply)
                 \/ FailureReturns(q, reply) \/ InterruptReturns(q, reply)
          PROVE  Executed(q, reply) /\ handler[q] \in Statements
      BY <3>5 DEF CreateReturns, CompleteReturns, UnsupportedReturns, DowngradeReturns,
                  FailureReturns, InterruptReturns, Statements
    <3>6. CASE UNCHANGED vars
      BY <3>6 DEF vars
    <3>7. QED
      BY <1>1, <3>1, <3>2, <3>3, <3>4, <3>5, <3>6 DEF Next, Request
  <2>2. RowAtStatement(r)
    BY <1>1 DEF IInv
  <2>3. answer[r] = "none"
    BY <2>1, <2>2 DEF RowAtStatement, Statements
  <2>4. handler[r] \in {"downgrading", "failing", "interrupting"}
    BY <2>1, <2>2 DEF RowAtStatement, Statements, Row, Absent, Lifecycles, Reported
  <2>5. row[r].lifecycle # "INTERRUPTED"
    <3>1. SUFFICES ASSUME row[r].lifecycle = "INTERRUPTED" PROVE FALSE
      OBVIOUS
    <3>2. row[r] \in [lifecycle : Lifecycles, report : BOOLEAN] /\ RowIsTrue(r)
      BY <1>1, <3>1 DEF IInv, Typed, Rows, Absent, Row
    <3>3. row[r] = Row("INTERRUPTED", FALSE)
      BY <3>1, <3>2 DEF RowIsTrue, Reported, Row
    <3>4. handler[r] = "interrupting"
      BY <2>2, <2>4, <3>3 DEF RowAtStatement, Row, Reported
    <3>5. QED
      BY <2>1, <3>3, <3>4 DEF Intent
  <2>6. QED
    BY <2>1, <2>3, <2>4, <2>5 DEF Intent
<1>2. QED
  BY <1>1, Inductive, PTL DEF Spec

\* What a client is told is what its row says, and an offered report is there.
THEOREM AnswersAreKept == Spec => []AnswersAreTrue
<1>1. ReportIsThere /\ AnswerIsRecorded => AnswersAreTrue
  BY DEF AnswersAreTrue
<1>2. QED
  BY <1>1, ReportsExist, AnswersAreRecorded, PTL

\* Every row left RUNNING has its excuse, and ended rows stay as they are.
THEOREM RowsAccounted == Spec => RowsAreAccounted
<1>1. QED
  BY RunningRowsAreAccounted, TerminalRowsAreStable, PTL DEF RowsAreAccounted

=============================================================================
