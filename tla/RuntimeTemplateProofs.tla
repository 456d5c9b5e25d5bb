----------------------- MODULE RuntimeTemplateProofs -----------------------
(***************************************************************************)
(* TLAPS proofs about RuntimeTemplate, for any number of uses and of       *)
(* cancellations.                                                          *)
(***************************************************************************)
EXTENDS RuntimeTemplate, TLAPS

Bundled == {"path", "open", "digest", "plan"}
Staging == {"warm", "export", "staged", "list", "stop"}
Saving == {"save", "relist", "undo_rm", "undo_ls"}

Shapes ==
    /\ audit \in [identity : BOOLEAN, uses : Nat, removed : BOOLEAN, bundle : BOOLEAN]
    /\ handle \in [owned : BOOLEAN, identity : BOOLEAN]
    /\ failure # "normal" /\ primary # "normal"

\* What exists is named by the provider, so that it can be removed.
Named ==
    /\ pc \in Saving => tag # "none"
    /\ tag = "none" => template # "ours"
    /\ "path" \notin held => file # "ours"

\* The tag, the bundle and the stop of the graph, at each await of the warm-up and
\* of the body.
WarmupAt ==
    /\ pc \in Staging => tag = "none"
    /\ pc \in Staging \cup Saving \cup {"activated", "import"} => ~stopped
    /\ pc \in {"activated", "import"} => tag = "active"
    /\ pc = "export" => "path" \in held
    /\ pc \in {"staged", "list", "stop", "save", "relist"} => Bundled \subseteq held
    /\ (pc \in {"activated", "body", "import"} /\ ~stopped /\ tag # "none") =>
          TemplateConsistent

\* The confirmation of a finalization, and what follows from it.
Confirmed ==
    /\ finalized => pc \in {"idle", "settle"} /\ ~Left
    /\ audit.removed => finalized
    /\ pc = "settle" => cleanupFailed \/ finalized \/ (failure = "cancelled" /\ teardown)
    /\ pc # "idle" => lines = {}

IInv == Shapes /\ Named /\ WarmupAt /\ Confirmed /\ LeftoverIsReported /\ EvidenceIsTrue

-----------------------------------------------------------------------------
LEMMA InitIInv == Init => IInv
<1> SUFFICES ASSUME Init PROVE IInv
  OBVIOUS
<1> USE DEF Init
<1>1. Shapes
  BY DEF Shapes, NoAudit, NoHandle
<1>2. Named /\ ~Left
  BY DEF Named, Left, Saving
<1>3. WarmupAt
  BY DEF WarmupAt, Staging, Saving
<1>4. Confirmed /\ LeftoverIsReported /\ EvidenceIsTrue
  BY <1>2 DEF Confirmed, LeftoverIsReported, EvidenceIsTrue, NoAudit
<1>5. QED
  BY <1>1, <1>2, <1>3, <1>4 DEF IInv

\* How a session of the warm-up ends, seen from its last await.
LEMMA Ended ==
  ASSUME NEW kind, WarmupEnds(kind)
  PROVE  /\ pc' \in {"body", "finalize"}
         /\ pc' = "body" => stopped'
         /\ failure' \in {failure, kind}
  BY DEF WarmupEnds, Leaves

LEMMA SessionEnded ==
  ASSUME NEW kind, SessionEnds(kind)
  PROVE  /\ pc' \in {"body", "finalize"}
         /\ pc' = "body" => stopped'
         /\ failure' \in {failure, kind, "unclean"}
<1>1. PICK end \in {kind, "unclean"} : WarmupEnds(end)
  BY DEF SessionEnds
<1>2. QED
  BY <1>1, Ended

\* Dropping the bundle keeps a path to what it could not remove.
LEMMA DroppedIsNamed ==
  ASSUME Named, NEW ok \in BOOLEAN, Dropped(ok)
  PROVE  /\ "path" \notin held' => file' # "ours"
         /\ ok => file' # "ours"
  BY DEF Named, Dropped, SameOpenFile

\* A finalization that removed everything confirms it, one that did not does not.
LEMMA FinalizationEnds ==
  ASSUME Named, Shapes, NEW ok \in BOOLEAN, FinalizeEnds(ok),
         template' # "ours" \/ template' = template,
         ok => template' # "ours"
  PROVE  /\ pc' = "settle"
         /\ "path" \notin held' => file' # "ours"
         /\ tag' = IF ok THEN "none" ELSE tag
         /\ finalized' => ~Left'
         /\ audit' \in [identity : BOOLEAN, uses : Nat, removed : BOOLEAN, bundle : BOOLEAN]
         /\ audit'.removed => finalized'
         /\ cleanupFailed' \/ finalized'
<1>1. PICK bundleOk \in BOOLEAN : Dropped(bundleOk) /\ Finished(ok, bundleOk, cleaned \/ ok)
  BY DEF FinalizeEnds
<1>2. /\ "path" \notin held' => file' # "ours"
      /\ bundleOk => file' # "ours"
  BY <1>1, DroppedIsNamed
<1>3. /\ cleanupFailed' = ~(ok /\ bundleOk) /\ finalized' = (ok /\ bundleOk)
      /\ audit' = [audit EXCEPT !.removed = ok /\ bundleOk, !.bundle = @ \/ "digest" \in held]
  BY <1>1 DEF Finished
<1>4. audit' \in [identity : BOOLEAN, uses : Nat, removed : BOOLEAN, bundle : BOOLEAN]
      /\ audit'.removed = (ok /\ bundleOk)
  BY <1>3 DEF Shapes
<1>5. QED
  BY <1>2, <1>3, <1>4 DEF FinalizeEnds, Left

LEMMA PrepareKeeps ==
  ASSUME IInv, Prepare
  PROVE  Shapes' /\ Named' /\ WarmupAt' /\ Confirmed'
<1> USE DEF IInv, Shapes, Named, WarmupAt, Confirmed, Left, TemplateConsistent, BundleComplete,
            Bundled, Staging, Saving, vars, world, template_state, provider, outcome, evidence,
            clock
<1>1. ASSUME StartWarmup
      PROVE  Shapes' /\ Named' /\ WarmupAt' /\ Confirmed'
  <2>1. CASE handle' = [handle EXCEPT !.owned = TRUE] /\ pc' = "warm" /\ UNCHANGED stopped
    BY <1>1, <2>1 DEF StartWarmup
  <2>2. CASE stopped' = TRUE /\ UNCHANGED <<handle, pc>>
    BY <1>1, <2>2 DEF StartWarmup
  <2>3. QED
    BY <1>1, <2>1, <2>2 DEF StartWarmup
<1>2. ASSUME Stage
      PROVE  Shapes' /\ Named' /\ WarmupAt' /\ Confirmed'
  BY <1>2 DEF Stage, Unconfirmed
<1>3. ASSUME StageFails
      PROVE  Shapes' /\ Named' /\ WarmupAt' /\ Confirmed'
  <2>1. /\ audit' \in [identity : BOOLEAN, uses : Nat, removed : BOOLEAN, bundle : BOOLEAN]
        /\ audit'.removed = audit.removed
    BY <1>3 DEF StageFails, Unconfirmed
  <2>2. pc' \in {"body", "finalize"} /\ (pc' = "body" => stopped')
        /\ failure' \in {failure, "error", "unclean"}
    BY <1>3, SessionEnded DEF StageFails
  <2>3. Shapes'
    BY <1>3, <2>1, <2>2 DEF StageFails
  <2>4. Named' /\ WarmupAt'
    BY <1>3, <2>1, <2>2 DEF StageFails
  <2>5. Confirmed'
    BY <1>3, <2>1, <2>2 DEF StageFails
  <2>6. QED
    BY <2>3, <2>4, <2>5
<1>4. ASSUME Exported
      PROVE  Shapes' /\ Named' /\ WarmupAt' /\ Confirmed'
  BY <1>4 DEF Exported, Unconfirmed, SameOpenFile
<1>5. ASSUME NEW kind \in Ways, WarmupFails(kind)
      PROVE  Shapes' /\ Named' /\ WarmupAt' /\ Confirmed'
  BY <1>5, Ended DEF WarmupFails, Ways
<1>6. ASSUME NEW kind \in Ways, WarmupSpoiled(kind)
      PROVE  Shapes' /\ Named' /\ WarmupAt' /\ Confirmed'
  BY <1>6, Ended DEF WarmupSpoiled, Ways
<1>7. ASSUME NEW kind \in Outcomes \ {"ok"}, ExportFails(kind)
      PROVE  Shapes' /\ Named' /\ WarmupAt' /\ Confirmed'
  <2>1. PICK ok \in BOOLEAN :
             /\ Dropped(ok)
             /\ audit' = IF ok THEN [audit EXCEPT !.bundle = FALSE] ELSE audit
             /\ SessionEnds(IF ok THEN kind ELSE "error")
    BY <1>7 DEF ExportFails
  <2>2. /\ template' = template /\ tag' = tag /\ finalized' = finalized /\ pc = "export"
        /\ primary' = primary /\ handle' = handle /\ lines' = lines
    BY <1>7 DEF ExportFails
  <2>3. /\ audit' \in [identity : BOOLEAN, uses : Nat, removed : BOOLEAN, bundle : BOOLEAN]
        /\ audit'.removed = audit.removed
    BY <2>1
  <2>4. /\ pc' \in {"body", "finalize"} /\ (pc' = "body" => stopped')
        /\ failure' \in {failure, kind, "error", "unclean"} /\ kind # "normal"
    BY <1>7, <2>1, SessionEnded DEF Outcomes
  <2>5. "path" \notin held' => file' # "ours"
    BY <2>1, DroppedIsNamed
  <2>6. QED
    BY <2>2, <2>3, <2>4, <2>5
<1>8. ASSUME NEW kind \in Outcomes \ {"ok"}, RelistFails(kind)
      PROVE  Shapes' /\ Named' /\ WarmupAt' /\ Confirmed'
  BY <1>8 DEF RelistFails, Outcomes
<1>9. ASSUME Activate
      PROVE  Shapes' /\ Named' /\ WarmupAt' /\ Confirmed'
  BY <1>9 DEF Activate
<1>10. ASSUME Activated
      PROVE  Shapes' /\ Named' /\ WarmupAt' /\ Confirmed'
  BY <1>10 DEF Activated
<1>11. ASSUME WarmupSucceeds
      PROVE  Shapes' /\ Named' /\ WarmupAt' /\ Confirmed'
  BY <1>11 DEF WarmupSucceeds
<1>12. ASSUME NEW kind \in Outcomes, Before(kind)
      PROVE  Shapes' /\ Named' /\ WarmupAt' /\ Confirmed'
  BY <1>12, SessionEnded DEF Before, Outcomes
<1>13. ASSUME NEW kind \in Outcomes, Save(kind)
      PROVE  Shapes' /\ Named' /\ WarmupAt' /\ Confirmed'
  BY <1>13 DEF Save, Outcomes
<1>14. ASSUME NEW kind \in Outcomes, UndoRemove(kind)
      PROVE  Shapes' /\ Named' /\ WarmupAt' /\ Confirmed'
  BY <1>14, SessionEnded DEF UndoRemove, Undone
<1>15. ASSUME NEW kind \in Outcomes, UndoList(kind)
      PROVE  Shapes' /\ Named' /\ WarmupAt' /\ Confirmed'
  BY <1>15, SessionEnded DEF UndoList, Undone
<1>16. QED
  BY <1>1, <1>2, <1>3, <1>4, <1>5, <1>6, <1>7, <1>8, <1>9, <1>10, <1>11, <1>12, <1>13, <1>14, <1>15 DEF Prepare

LEMMA UseKeeps ==
  ASSUME IInv, Use
  PROVE  Shapes' /\ Named' /\ WarmupAt' /\ Confirmed'
<1> USE DEF IInv, Shapes, Named, WarmupAt, Confirmed, Left, TemplateConsistent, BundleComplete,
            Bundled, Staging, Saving, vars, world, template_state, provider, outcome, evidence,
            clock
<1>1. ASSUME CreateFromTemplate
      PROVE  Shapes' /\ Named' /\ WarmupAt' /\ Confirmed'
  BY <1>1 DEF CreateFromTemplate
<1>2. ASSUME CreateRefused
      PROVE  Shapes' /\ Named' /\ WarmupAt' /\ Confirmed'
  BY <1>2 DEF CreateRefused, Leaves
<1>3. ASSUME Imported
      PROVE  Shapes' /\ Named' /\ WarmupAt' /\ Confirmed'
  BY <1>3 DEF Imported
<1>4. ASSUME BodyEnds
      PROVE  Shapes' /\ Named' /\ WarmupAt' /\ Confirmed'
  BY <1>4 DEF BodyEnds, Leaves
<1>5. ASSUME NEW kind \in Ways, BodyRaises(kind)
      PROVE  Shapes' /\ Named' /\ WarmupAt' /\ Confirmed'
  BY <1>5 DEF BodyRaises, Leaves, Ways
<1>6. ASSUME NEW kind \in Ways, ImportFails(kind)
      PROVE  Shapes' /\ Named' /\ WarmupAt' /\ Confirmed'
  BY <1>6 DEF ImportFails, Leaves, Ways
<1>7. QED
  BY <1>1, <1>2, <1>3, <1>4, <1>5, <1>6 DEF Use

LEMMA FinalizeKeeps ==
  ASSUME IInv, Finalize
  PROVE  Shapes' /\ Named' /\ WarmupAt' /\ Confirmed'
<1> USE DEF IInv, Shapes, Named, WarmupAt, Confirmed, Left, TemplateConsistent, BundleComplete,
            Bundled, Staging, Saving, vars, world, template_state, provider, outcome, evidence,
            clock
<1>1. ASSUME FinalizeStarts
      PROVE  Shapes' /\ Named' /\ WarmupAt' /\ Confirmed'
  <2>1. CASE tag = "none" /\ FinalizeEnds(TRUE)
    <3>1. /\ template' = template /\ stopped' = stopped /\ lines' = lines
          /\ handle' = handle /\ failure' = failure /\ primary' = primary
          /\ pc = "finalize"
      BY <1>1 DEF FinalizeStarts
    <3>2. QED
      BY <2>1, <3>1, FinalizationEnds
  <2>2. CASE tag # "none" /\ pc' = "f_list" /\ UNCHANGED <<file, provider, cleanupFailed>>
    BY <1>1, <2>2 DEF FinalizeStarts
  <2>3. QED
    BY <1>1, <2>1, <2>2 DEF FinalizeStarts
<1>2. ASSUME FinalizeAborted
      PROVE  Shapes' /\ Named' /\ WarmupAt' /\ Confirmed'
  BY <1>2 DEF FinalizeAborted
<1>3. ASSUME Settle
      PROVE  Shapes' /\ Named' /\ WarmupAt' /\ Confirmed'
  BY <1>3 DEF Settle
<1>4. ASSUME NEW kind \in Outcomes, FinalizeList(kind)
      PROVE  Shapes' /\ Named' /\ WarmupAt' /\ Confirmed'
  <2>1. /\ template' = template /\ stopped' = stopped /\ lines' = lines /\ handle' = handle
        /\ pc = "f_list" /\ failure' = failure /\ primary' = primary
    BY <1>4 DEF FinalizeList
  <2>2. CASE template = "absent" /\ FinalizeEnds(TRUE)
    BY <2>1, <2>2, FinalizationEnds
  <2>3. CASE FinalizeEnds(FALSE)
    BY <2>1, <2>3, FinalizationEnds
  <2>4. CASE /\ pc' \in {"f_rm", "f_relist"}
             /\ UNCHANGED <<file, tag, held, audit, cleaned, finalized, cleanupFailed>>
    BY <2>1, <2>4
  <2>5. QED
    BY <1>4, <2>2, <2>3, <2>4 DEF FinalizeList
<1>5. ASSUME NEW kind \in Outcomes, FinalizeRemove(kind)
      PROVE  Shapes' /\ Named' /\ WarmupAt' /\ Confirmed'
  <2>1. CASE /\ pc' = "f_relist"
             /\ UNCHANGED <<file, tag, held, audit, cleaned, finalized, cleanupFailed>>
    BY <1>5, <2>1 DEF FinalizeRemove
  <2>2. CASE FinalizeEnds(FALSE)
    <3>1. /\ template' # "ours" \/ template' = template
          /\ stopped' = stopped /\ lines' = lines /\ handle' = handle
          /\ failure' = failure /\ primary' = primary /\ pc = "f_rm"
      BY <1>5 DEF FinalizeRemove
    <3>2. QED
      BY <2>2, <3>1, FinalizationEnds
  <2>3. QED
    BY <1>5, <2>1, <2>2 DEF FinalizeRemove
<1>6. ASSUME NEW kind \in Outcomes, FinalizeRelist(kind)
      PROVE  Shapes' /\ Named' /\ WarmupAt' /\ Confirmed'
  BY <1>6, FinalizationEnds DEF FinalizeRelist
<1>7. QED
  BY <1>1, <1>2, <1>3, <1>4, <1>5, <1>6 DEF Finalize

LEMMA OthersKeep ==
  ASSUME IInv, BeginInvocation \/ Absorb \/ Meddle
  PROVE  Shapes' /\ Named' /\ WarmupAt' /\ Confirmed'
<1> USE DEF IInv, Shapes, Named, WarmupAt, Confirmed, Left, TemplateConsistent, BundleComplete,
            Bundled, Staging, Saving, vars, world, template_state, provider, outcome, evidence,
            clock
<1>1. ASSUME BeginInvocation
      PROVE  Shapes' /\ Named' /\ WarmupAt' /\ Confirmed'
  BY <1>1 DEF BeginInvocation, NoAudit, NoHandle, MayBegin
<1>2. ASSUME Absorb
      PROVE  Shapes' /\ Named' /\ WarmupAt' /\ Confirmed'
  BY <1>2 DEF Absorb, Finalizing
<1>3. ASSUME Meddle
      PROVE  Shapes' /\ Named' /\ WarmupAt' /\ Confirmed'
  BY <1>3 DEF Meddle
<1>4. QED
  BY <1>1, <1>2, <1>3 DEF Next

-----------------------------------------------------------------------------
LEMMA StutterKeeps ==
  ASSUME IInv, UNCHANGED vars
  PROVE  IInv'
  BY DEF IInv, Shapes, Named, WarmupAt, Confirmed, LeftoverIsReported, EvidenceIsTrue, Left,
         TemplateConsistent, BundleComplete, vars, world, template_state, provider, outcome,
         evidence, clock

\* An invocation that goes on has no result to be held to.
LEMMA WaitingIsSilent ==
  ASSUME Confirmed', pc' # "idle"
  PROVE  LeftoverIsReported' /\ EvidenceIsTrue'
  BY DEF Confirmed, LeftoverIsReported, EvidenceIsTrue

\* managed_runtime_template leaves with the failure that a leftover deserves.
LEMMA SettleReports ==
  ASSUME IInv, Settle
  PROVE  LeftoverIsReported' /\ EvidenceIsTrue'
<1>1. PICK written \in {{}, Records \cap {"body_failure"}, Records} :
         LET short == handle.owned /\ written # Records IN
         /\ lines' = IF handle.owned THEN written ELSE lines
         /\ result' = CASE cleanupFailed         -> "cleanup_error"
                        [] ~cleanupFailed /\ BodyFailure # "none" -> BodyFailure
                        [] ~cleanupFailed /\ BodyFailure = "none" ->
                             IF short \/ AuditFailure THEN "evidence_error" ELSE "normal"
  BY DEF Settle
<1>2. /\ pc = "settle" /\ pc' = "idle" /\ Left' = Left /\ teardown' = teardown
      /\ handle' = handle /\ lines = {}
  BY DEF Settle, IInv, Confirmed, Left, world, clock
<1>3. Left /\ ~cleanupFailed => BodyFailure = "cancelled" /\ teardown /\ ~finalized
  BY <1>2 DEF IInv, Confirmed, BodyFailure
<1>4. ~cleanupFailed /\ ~AuditFailure => ~Left
  BY DEF IInv, Confirmed, AuditFailure
<1>5. "removed" \in Records => ~cleanupFailed /\ ~AuditFailure
  BY DEF Records
<1>6. LeftoverIsReported'
  <2>1. CASE cleanupFailed
    BY <1>1, <2>1 DEF LeftoverIsReported
  <2>2. CASE ~cleanupFailed /\ Left
    BY <1>1, <1>2, <1>3, <2>2 DEF LeftoverIsReported
  <2>3. CASE ~Left
    BY <1>2, <2>3 DEF LeftoverIsReported
  <2>4. QED
    BY <2>1, <2>2, <2>3
<1>7. "removed" \in lines' => ~Left'
  BY <1>1, <1>2, <1>4, <1>5
<1>8. result' = "normal" => ~Left' /\ (handle'.owned => "removed" \in lines')
  <2> SUFFICES ASSUME result' = "normal"
               PROVE  ~Left' /\ (handle'.owned => "removed" \in lines')
    OBVIOUS
  <2>1. ~cleanupFailed
    BY <1>1
  <2>2. BodyFailure # "normal"
    BY DEF BodyFailure, IInv, Shapes
  <2>3. ~AuditFailure /\ (handle.owned => lines' = Records)
    BY <1>1, <2>1, <2>2
  <2>4. handle.owned => "removed" \in lines'
    BY <2>1, <2>3 DEF Records
  <2>5. QED
    BY <1>2, <1>4, <2>1, <2>3, <2>4
<1>9. QED
  BY <1>6, <1>7, <1>8 DEF EvidenceIsTrue

\* Only Settle ends an invocation.
LEMMA PrepareLeadsOn == Prepare => pc' # "idle"
<1>1. ASSUME NEW kind, WarmupEnds(kind) \/ SessionEnds(kind)
      PROVE  pc' # "idle"
  BY <1>1, Ended, SessionEnded
<1>2. QED
  BY <1>1 DEF Prepare, StartWarmup, Stage, StageFails, Exported, WarmupFails, WarmupSpoiled,
              ExportFails, RelistFails, Activate, Activated, WarmupSucceeds, Before, Save,
              UndoRemove, UndoList

LEMMA UseLeadsOn == Use => pc' # "idle"
  BY DEF Use, CreateFromTemplate, CreateRefused, Imported, BodyEnds, BodyRaises, ImportFails,
         Leaves

LEMMA FinalizeLeadsOn == Finalize => Settle \/ pc' # "idle"
  BY DEF Finalize, FinalizeStarts, FinalizeAborted, FinalizeList, FinalizeRemove,
         FinalizeRelist, FinalizeEnds

LEMMA OthersLeadOn == BeginInvocation \/ Absorb => pc' # "idle"
  BY DEF BeginInvocation, Absorb, Finalizing

LEMMA NextKeeps ==
  ASSUME IInv, [Next]_vars
  PROVE  IInv'
<1>1. CASE UNCHANGED vars
  BY <1>1, StutterKeeps
<1>2. CASE Next
  <2>1. Shapes' /\ Named' /\ WarmupAt' /\ Confirmed'
    BY <1>2, PrepareKeeps, UseKeeps, FinalizeKeeps, OthersKeep DEF Next, Invocation
  <2>2. CASE pc' # "idle"
    BY <2>1, <2>2, WaitingIsSilent DEF IInv
  <2>3. CASE pc' = "idle"
    <3>1. Settle \/ Meddle
      BY <1>2, <2>3, PrepareLeadsOn, UseLeadsOn, FinalizeLeadsOn, OthersLeadOn
         DEF Next, Invocation
    <3>2. CASE Meddle
      BY <2>1, <2>3, <3>2 DEF Meddle, IInv, LeftoverIsReported, EvidenceIsTrue, Left, clock,
                              outcome, evidence, provider
    <3>3. QED
      BY <2>1, <3>1, <3>2, SettleReports DEF IInv
  <2>4. QED
    BY <2>2, <2>3
<1>3. QED
  BY <1>1, <1>2

LEMMA Inductive == Spec => []IInv
  BY InitIInv, NextKeeps, PTL DEF Spec

-----------------------------------------------------------------------------
\* A template or a bundle is never left behind in silence.
THEOREM LeftoversAreReported == Spec => []LeftoverIsReported
<1>1. IInv => LeftoverIsReported
  BY DEF IInv
<1>2. QED
  BY <1>1, Inductive, PTL

\* The finalization record in the evidence file is true.
THEOREM EvidenceHolds == Spec => []EvidenceIsTrue
<1>1. IInv => EvidenceIsTrue
  BY DEF IInv
<1>2. QED
  BY <1>1, Inductive, PTL

\* create() never refuses a template for a reason of the provider's own making.
THEOREM TemplateStaysUsable == Spec => []TemplateUsable
<1>1. IInv => TemplateUsable
  BY DEF IInv, WarmupAt, TemplateUsable
<1>2. QED
  BY <1>1, Inductive, PTL

\* A confirmed finalization is one that left nothing.
THEOREM FinalizationIsTrue == Spec => [](finalized => ~Left)
<1>1. IInv => (finalized => ~Left)
  BY DEF IInv, Confirmed
<1>2. QED
  BY <1>1, Inductive, PTL

-----------------------------------------------------------------------------
(* The refinement of TemplateCustody                                       *)

LEMMA CustodyStep ==
  ASSUME IInv, IInv', [Next]_vars
  PROVE  [Custody!Next]_Custody!vars
<1> USE DEF Custody!Next, Custody!vars, Custody!Take, Custody!Work, Custody!Release,
            Custody!Lose, Custody!Swept, custody
<1>1. CASE UNCHANGED vars
  BY <1>1 DEF vars, world, provider, template_state, Left
<1>2. CASE BeginInvocation
  BY <1>2 DEF BeginInvocation, MayBegin, world, Left
<1>3. CASE pc # "idle" /\ pc' # "idle"
  <2>1. Left' \in BOOLEAN
    BY DEF Left
  <2>2. QED
    BY <1>3, <2>1
<1>4. CASE Settle
  BY <1>4 DEF Settle, IInv, Confirmed, Left, world, provider, template_state
<1>5. CASE Meddle
  BY <1>5 DEF Meddle, IInv, Confirmed, Left, provider, template_state
<1>6. CASE Invocation \/ Absorb
  <2>1. pc # "idle"
    BY <1>6 DEF Invocation, Prepare, Use, Finalize, Absorb, Finalizing, StartWarmup, Stage,
         StageFails, Exported, WarmupFails, WarmupSpoiled, ExportFails, RelistFails, Activate,
         Activated, WarmupSucceeds, Before, Save, UndoRemove, UndoList, CreateFromTemplate,
         CreateRefused, Imported, BodyEnds, BodyRaises, ImportFails, FinalizeStarts,
         FinalizeAborted, Settle, FinalizeList, FinalizeRemove, FinalizeRelist
  <2>2. Settle \/ pc' # "idle"
    BY <1>6, PrepareLeadsOn, UseLeadsOn, FinalizeLeadsOn, OthersLeadOn DEF Invocation
  <2>3. QED
    BY <1>3, <1>4, <2>1, <2>2
<1>7. QED
  BY <1>1, <1>2, <1>5, <1>6 DEF Next

\* A provider that could not confirm that nothing is left serves no invocation.
THEOREM ProviderKeepsCustody == Spec => ImplementsCustody
<1>1. Init => Custody!Init
  BY DEF Init, Custody!Init, custody, Left
<1>2. IInv /\ IInv' /\ [Next]_vars => [Custody!Next]_Custody!vars
  BY CustodyStep
<1>3. QED
  BY <1>1, <1>2, Inductive, PTL DEF Spec, ImplementsCustody, Custody!Spec

-----------------------------------------------------------------------------
(* An invocation ends: what is ahead of it                                 *)

\* The uses of its template that the provider still allows.
UsesLeft == MaxUses - audit.uses

\* The waits that are before an invocation until the next use of its template: the
\* warm-up, which it runs once, then the body, then the finalization.
WaitsLeft ==
    CASE pc = "idle" -> 0
      [] pc = "settle" -> 1
      [] pc = "f_relist" -> 2
      [] pc = "f_rm" -> 3
      [] pc = "f_list" -> 4
      [] pc = "finalize" -> 5
      [] pc = "import" -> 6
      [] pc = "body" -> IF handle.owned \/ stopped THEN 7 ELSE 17
      [] pc \in {"undo_ls", "activated"} -> 8
      [] pc = "undo_rm" -> 9
      [] pc = "relist" -> 10
      [] pc = "save" -> 11
      [] pc = "stop" -> 12
      [] pc = "list" -> 13
      [] pc = "staged" -> 14
      [] pc = "export" -> 15
      [] pc = "warm" -> 16
      [] OTHER -> 0

\* Each step of an invocation uses its template once more, of which there is an
\* end, or leaves a wait behind; whoever cancels it or meddles with its template
\* adds nothing to what is ahead.
GetsOn ==
    /\ Invocation =>
          \/ UsesLeft' < UsesLeft
          \/ UsesLeft' = UsesLeft /\ WaitsLeft' < WaitsLeft
    /\ Absorb \/ Meddle => UNCHANGED <<UsesLeft, WaitsLeft>>

\* The warm-up opens its evidence before anything else, and nothing is used
\* before it has ended.
Counted ==
    /\ audit.uses \in 0..MaxUses
    /\ ~handle.owned => audit.uses = 0 /\ tag = "none"
    /\ pc \in Staging \cup Saving \cup {"activated", "import"} => handle.owned
    /\ pc \in Staging \cup Saving \cup {"activated"} => audit.uses = 0
    /\ pc = "import" => audit.uses < MaxUses

\* The steps of the warm-up: none goes back, and none is a use.
LEMMA PrepareNearer ==
  ASSUME IInv, Counted, Prepare
  PROVE  Counted' /\ audit'.uses = audit.uses /\ WaitsLeft' < WaitsLeft
<1> DEFINE Nearer == Counted' /\ audit'.uses = audit.uses /\ WaitsLeft' < WaitsLeft
<1> SUFFICES Nearer
  OBVIOUS
<1> USE DEF IInv, Shapes, Counted, WaitsLeft, Staging, Saving, template_state, provider,
            outcome, evidence, clock
<1>1. ASSUME StartWarmup
     PROVE  Nearer
  BY <1>1 DEF StartWarmup
<1>2. ASSUME Stage
     PROVE  Nearer
  BY <1>2 DEF Stage, Unconfirmed
<1>3. ASSUME StageFails
     PROVE  Nearer
  BY <1>3, SessionEnded DEF StageFails, Unconfirmed
<1>4. ASSUME Exported
     PROVE  Nearer
  BY <1>4 DEF Exported, Unconfirmed
<1>5. ASSUME NEW kind \in Ways, WarmupFails(kind)
     PROVE  Nearer
  BY <1>5, Ended DEF WarmupFails
<1>6. ASSUME NEW kind \in Ways, WarmupSpoiled(kind)
     PROVE  Nearer
  BY <1>6, Ended DEF WarmupSpoiled
<1>7. ASSUME NEW kind \in Outcomes \ {"ok"}, ExportFails(kind)
     PROVE  Nearer
  BY <1>7, SessionEnded DEF ExportFails
<1>8. ASSUME NEW kind \in Outcomes \ {"ok"}, RelistFails(kind)
     PROVE  Nearer
  BY <1>8 DEF RelistFails
<1>9. ASSUME Activate
     PROVE  Nearer
  BY <1>9 DEF Activate
<1>10. ASSUME Activated
      PROVE  Nearer
  BY <1>10 DEF Activated
<1>11. ASSUME WarmupSucceeds
      PROVE  Nearer
  BY <1>11 DEF WarmupSucceeds
<1>12. ASSUME NEW kind \in Outcomes, Before(kind)
      PROVE  Nearer
  BY <1>12, SessionEnded DEF Before
<1>13. ASSUME NEW kind \in Outcomes, Save(kind)
      PROVE  Nearer
  BY <1>13 DEF Save
<1>14. ASSUME NEW kind \in Outcomes, UndoRemove(kind)
      PROVE  Nearer
  BY <1>14, SessionEnded DEF UndoRemove, Undone
<1>15. ASSUME NEW kind \in Outcomes, UndoList(kind)
      PROVE  Nearer
  BY <1>15, SessionEnded DEF UndoList, Undone
<1>16. QED
  BY <1>1, <1>2, <1>3, <1>4, <1>5, <1>6, <1>7, <1>8, <1>9, <1>10, <1>11, <1>12, <1>13, <1>14, <1>15 DEF Prepare

\* The steps of the body: a use is counted, any other step leads on.
LEMMA UseNearer ==
  ASSUME IInv, Counted, Use
  PROVE  /\ Counted'
         /\ \/ audit'.uses = audit.uses + 1
            \/ audit'.uses = audit.uses /\ WaitsLeft' < WaitsLeft
<1> DEFINE Nearer == /\ Counted'
                     /\ \/ audit'.uses = audit.uses + 1
                        \/ audit'.uses = audit.uses /\ WaitsLeft' < WaitsLeft
<1> SUFFICES Nearer
  OBVIOUS
<1> USE DEF IInv, Shapes, Counted, WaitsLeft, Staging, Saving, template_state, provider,
            outcome, evidence, clock, Leaves
<1>1. ASSUME CreateFromTemplate
     PROVE  Nearer
  BY <1>1 DEF CreateFromTemplate
<1>2. ASSUME CreateRefused
     PROVE  Nearer
  BY <1>2 DEF CreateRefused
<1>3. ASSUME Imported
     PROVE  Nearer
  <2>1. /\ pc = "import" /\ pc' = "body"
        /\ audit' = [audit EXCEPT !.uses = @ + 1]
        /\ UNCHANGED <<tag, handle>>
    BY <1>3 DEF Imported
  <2>2. audit'.uses = audit.uses + 1
    BY <2>1
  <2>3. \A n \in Nat : \A u \in 0..n : u < n => u + 1 \in 0..n
    OBVIOUS
  <2>4. audit'.uses \in 0..MaxUses
    BY <2>1, <2>2, <2>3, UsesAssumption
  <2>5. handle.owned
    BY <2>1
  <2>6. Counted'
    BY <2>1, <2>4, <2>5
  <2>7. QED
    BY <2>2, <2>6
<1>4. ASSUME BodyEnds
     PROVE  Nearer
  BY <1>4 DEF BodyEnds
<1>5. ASSUME NEW kind \in Ways, BodyRaises(kind)
     PROVE  Nearer
  BY <1>5 DEF BodyRaises
<1>6. ASSUME NEW kind \in Ways, ImportFails(kind)
     PROVE  Nearer
  BY <1>6 DEF ImportFails
<1>7. QED
  BY <1>1, <1>2, <1>3, <1>4, <1>5, <1>6 DEF Use

\* The steps of the finalization, each tried once.
LEMMA FinalizeNearer ==
  ASSUME IInv, Counted, Finalize
  PROVE  Counted' /\ audit'.uses = audit.uses /\ WaitsLeft' < WaitsLeft
<1> DEFINE Nearer == Counted' /\ audit'.uses = audit.uses /\ WaitsLeft' < WaitsLeft
<1> SUFFICES Nearer
  OBVIOUS
<1> USE DEF IInv, Shapes, Counted, WaitsLeft, Staging, Saving, template_state, provider,
            outcome, evidence, clock
<1>0. ASSUME NEW ok, FinalizeEnds(ok), UNCHANGED handle,
             pc \in {"finalize", "f_list", "f_rm", "f_relist"}
      PROVE  Nearer
  <2>1. /\ pc' = "settle" /\ audit'.uses = audit.uses
        /\ tag' \in {tag, "none"}
    BY <1>0 DEF FinalizeEnds, Finished
  <2>2. Counted'
    BY <1>0, <2>1
  <2>3. WaitsLeft' = 1 /\ WaitsLeft \in 2..5
    BY <1>0, <2>1
  <2>4. QED
    BY <2>1, <2>2, <2>3
<1>1. ASSUME FinalizeStarts
     PROVE  Nearer
  <2>1. CASE FinalizeEnds(TRUE)
    BY <1>0, <1>1, <2>1 DEF FinalizeStarts
  <2>2. CASE tag # "none" /\ pc' = "f_list" /\ UNCHANGED <<file, provider, cleanupFailed>>
    BY <1>1, <2>2 DEF FinalizeStarts
  <2>3. QED
    BY <1>1, <2>1, <2>2 DEF FinalizeStarts
<1>2. ASSUME FinalizeAborted
     PROVE  Nearer
  BY <1>2 DEF FinalizeAborted
<1>3. ASSUME Settle
     PROVE  Nearer
  BY <1>3 DEF Settle
<1>4. ASSUME NEW kind \in Outcomes, FinalizeList(kind)
     PROVE  Nearer
  <2>1. CASE \E ok \in BOOLEAN : FinalizeEnds(ok)
    BY <1>0, <1>4, <2>1 DEF FinalizeList
  <2>2. CASE pc' \in {"f_relist", "f_rm"} /\ UNCHANGED <<tag, audit>>
    BY <1>4, <2>2 DEF FinalizeList
  <2>3. QED
    BY <1>4, <2>1, <2>2 DEF FinalizeList
<1>5. ASSUME NEW kind \in Outcomes, FinalizeRemove(kind)
     PROVE  Nearer
  <2>1. CASE FinalizeEnds(FALSE)
    BY <1>0, <1>5, <2>1 DEF FinalizeRemove
  <2>2. CASE pc' = "f_relist" /\ UNCHANGED <<tag, audit>>
    BY <1>5, <2>2 DEF FinalizeRemove
  <2>3. QED
    BY <1>5, <2>1, <2>2 DEF FinalizeRemove
<1>6. ASSUME NEW kind \in Outcomes, FinalizeRelist(kind)
     PROVE  Nearer
  BY <1>6, <1>0 DEF FinalizeRelist
<1>7. QED
  BY <1>1, <1>2, <1>3, <1>4, <1>5, <1>6 DEF Finalize

\* Nobody else changes what is ahead.
LEMMA OthersStay ==
  ASSUME Counted
  PROVE  /\ Absorb \/ Meddle => Counted' /\ UNCHANGED <<UsesLeft, WaitsLeft>>
         /\ BeginInvocation \/ UNCHANGED vars => Counted'
<1> USE DEF Counted, UsesLeft, WaitsLeft, Staging, Saving, provider, outcome, evidence, clock
<1>1. CASE Absorb
  BY <1>1 DEF Absorb
<1>2. CASE Meddle
  BY <1>2 DEF Meddle
<1>3. ASSUME BeginInvocation
     PROVE  Counted'
  <2>1. /\ audit' = NoAudit /\ handle' = NoHandle
        /\ pc' = "body" /\ tag' = "none"
    BY <1>3 DEF BeginInvocation, MayBegin
  <2>2. audit'.uses = 0
    BY <2>1 DEF NoAudit
  <2>3. audit'.uses \in 0..MaxUses
    BY <2>2, UsesAssumption
  <2>4. QED
    BY <2>1, <2>2, <2>3
<1>4. CASE UNCHANGED vars
  BY <1>4 DEF vars
<1>5. QED
  BY <1>1, <1>2, <1>3, <1>4

\* A counted use is one less that is left.
LEMMA OneUseLess ==
  ASSUME Counted, audit'.uses = audit.uses + 1
  PROVE  UsesLeft' < UsesLeft
<1>1. \A n \in Nat : \A u \in 0..n : n - (u + 1) < n - u
  OBVIOUS
<1>2. MaxUses - (audit.uses + 1) < MaxUses - audit.uses
  BY <1>1, UsesAssumption DEF Counted
<1>3. QED
  BY <1>2 DEF UsesLeft

\* An invocation gets on, for any limits: until the next use of its template at
\* most 17 waits are before it, and the uses that are left are counted.
THEOREM InvocationsGetOn ==
  Spec => /\ [](UsesLeft \in Nat /\ WaitsLeft \in 0..17)
          /\ [][GetsOn]_vars
<1>1. Counted => UsesLeft \in Nat /\ WaitsLeft \in 0..17
  BY UsesAssumption DEF Counted, UsesLeft, WaitsLeft
<1>2. Init => Counted
  BY UsesAssumption DEF Init, Counted, NoAudit, NoHandle, Staging, Saving
<1>3. IInv /\ Counted /\ [Next]_vars => Counted' /\ [GetsOn]_vars
  <2> SUFFICES ASSUME IInv, Counted, [Next]_vars PROVE Counted' /\ [GetsOn]_vars
    OBVIOUS
  <2>1. ASSUME Invocation
        PROVE  /\ Counted'
               /\ UsesLeft' < UsesLeft \/ (UsesLeft' = UsesLeft /\ WaitsLeft' < WaitsLeft)
    <3>1. /\ Counted'
          /\ \/ audit'.uses = audit.uses + 1
             \/ audit'.uses = audit.uses /\ WaitsLeft' < WaitsLeft
      BY <2>1, PrepareNearer, UseNearer, FinalizeNearer DEF Invocation
    <3>2. audit'.uses = audit.uses => UsesLeft' = UsesLeft
      BY DEF UsesLeft
    <3>3. QED
      BY <3>1, <3>2, OneUseLess
  <2>2. Counted'
    BY <2>1, OthersStay DEF Next
  <2>3. Next => GetsOn
    BY <2>1, OthersStay DEF GetsOn
  <2>4. QED
    BY <2>2, <2>3
<1>4. QED
  BY <1>1, <1>2, <1>3, Inductive, PTL DEF Spec
=============================================================================
