-------------------------- MODULE RuntimeTemplate --------------------------
(***************************************************************************)
(* The image template of one provider: DockerSbxProvider prepares it in a  *)
(* warm-up sandbox (stage_runtime_image_bundle, activate_runtime_template),*)
(* creates sandboxes from it, and removes it when the invocation of the    *)
(* run graph ends (finalize_runtime_template under                         *)
(* managed_runtime_template, in a task of its own).  Two things outlive a  *)
(* sandbox: the template in the sbx daemon and the bundle, a private file  *)
(* of the host.  Either may be removed or replaced by somebody else.       *)
(*                                                                         *)
(* A command of the main task ends in success, in a DockerSbxError or in a *)
(* cancellation; a failed command may have had its effect.  A command of   *)
(* the finalization task is cancelled only when the event loop is torn     *)
(* down.  An action is the code between two awaits.  How a sandbox itself  *)
(* is created and removed is SandboxLifecycle.                             *)
(***************************************************************************)
EXTENDS Naturals

CONSTANTS MaxUses,      \* 128 in the code: creates one template may serve
          MaxCancels    \* bound: cancellations that reach the main task

ASSUME UsesAssumption == MaxUses \in Nat /\ MaxCancels \in Nat

VARIABLES
    template,    \* the daemon's template under our tag: absent, ours, foreign
    file,        \* what the bundle's path names: absent, ours, foreign
    tag,         \* _runtime_template_tag / _pending_tag: none, pending, active
    held,        \* what the provider holds of the bundle
    audit,       \* _runtime_template_audit
    used,        \* _runtime_image_bundle_stage_used, _template_activation_used
    cleaned,     \* _runtime_template_cleanup_confirmed
    finalized,   \* _runtime_template_finalization_confirmed
    pc,          \* where the invocation waits
    primary,     \* the error an undo or a discard was entered with
    failure,     \* body_failure of managed_runtime_template
    stopped,     \* the graph stopped after a failed warm-up: no more creates
    absorbed,    \* a cancellation was kept while the finalization ran
    cleanupFailed, \* the finalization call returned a failure
    handle,      \* _TemplateEvidenceHandle: the file's owner, the identity
    lines,       \* finalization records in the evidence file
    result,      \* how the last invocation ended
    unclean,     \* a sandbox whose removal is not confirmed
    cancels,     \* bound on cancellations
    teardown     \* the event loop cancels every task

world    == <<template, file>>
template_state == <<tag, cleaned, finalized>>
provider == <<tag, held, audit, used, cleaned, finalized>>
outcome  == <<failure, stopped, absorbed, cleanupFailed, unclean>>
evidence == <<handle, lines>>
clock    == <<cancels, teardown>>
vars == <<world, provider, pc, primary, outcome, evidence, result, clock>>

-----------------------------------------------------------------------------
NoAudit == [identity |-> FALSE, uses |-> 0, removed |-> FALSE, bundle |-> FALSE]
NoHandle == [owned |-> FALSE, identity |-> FALSE]

\* Parts of the bundle: its path, the inode it was created with, the open
\* file, whether close() already failed, its digest and size, and the plan.
Parts == {"path", "inode", "open", "broken", "digest", "plan"}

Kinds == {"none", "error", "cancelled", "unclean"}
Results == Kinds \cup {"normal", "cleanup_error", "evidence_error"}
Body == {"body", "warm", "export", "staged", "list", "stop", "save", "relist",
         "undo_rm", "undo_ls", "activated", "import"}
Finalizing == {"finalize", "f_list", "f_rm", "f_relist"}

Left == template = "ours" \/ file = "ours"

\* _same_open_file: the path still names the open file.
SameOpenFile == "open" \in held /\ "broken" \notin held /\ file = "ours"

\* _runtime_image_bundle_complete
BundleComplete == {"path", "open", "digest"} \subseteq held /\ audit.bundle

\* An await of the main task ends; a cancellation counts against the bound.
Ends(kind) ==
    /\ \/ kind \in {"ok", "error"} /\ UNCHANGED cancels
       \/ kind = "cancelled" /\ cancels < MaxCancels /\ cancels' = cancels + 1
    /\ UNCHANGED teardown

\* An await of the finalization task ends.
ShieldedEnds(kind) ==
    /\ \/ kind \in {"ok", "error"} /\ UNCHANGED <<teardown, absorbed>>
       \/ kind = "cancelled" /\ ~teardown /\ teardown' = TRUE /\ absorbed' = TRUE
    /\ UNCHANGED cancels

Init ==
    /\ template = "absent" /\ file = "absent"
    /\ tag = "none" /\ held = {} /\ audit = NoAudit /\ used = {}
    /\ cleaned = FALSE /\ finalized = TRUE
    /\ pc = "idle" /\ primary = "none" /\ failure = "none"
    /\ stopped = FALSE /\ absorbed = FALSE /\ cleanupFailed = FALSE
    /\ handle = NoHandle /\ lines = {} /\ result = "none"
    /\ unclean = FALSE /\ cancels = 0 /\ teardown = FALSE

-----------------------------------------------------------------------------
(* begin_invocation and the body                                           *)

\* Mutant of MayBegin: only what the provider still names is looked at.
MayBeginUnnamed == tag = "none" /\ ~unclean /\ ~teardown

MayBegin ==
    /\ finalized
    /\ tag = "none"
    /\ held = {}
    /\ (audit.identity \/ audit.bundle) => audit.removed
    /\ ~unclean /\ ~teardown

BeginInvocation ==
    /\ pc = "idle"
    /\ MayBegin
    /\ used' = {} /\ audit' = NoAudit
    /\ cleaned' = FALSE /\ finalized' = FALSE
    /\ pc' = "body" /\ primary' = "none" /\ failure' = "none"
    /\ stopped' = FALSE /\ absorbed' = FALSE /\ cleanupFailed' = FALSE
    /\ handle' = NoHandle /\ lines' = {} /\ result' = "none"
    /\ UNCHANGED <<world, tag, held, unclean, clock>>

\* _prepare_runtime_template opens its evidence file and the warm-up sandbox,
\* once per invocation: a template is then active or the graph has stopped.
StartWarmup ==
    /\ pc = "body" /\ ~stopped
    /\ tag = "none" /\ used = {} /\ ~handle.owned
    /\ \/ handle' = [handle EXCEPT !.owned = TRUE] /\ pc' = "warm"
          /\ UNCHANGED stopped
       \/ stopped' = TRUE /\ UNCHANGED <<handle, pc>>
    /\ UNCHANGED <<world, provider, primary, failure, absorbed, cleanupFailed,
                   unclean, lines, result, clock>>

\* A node's failure, or a cancellation of a session, leaves the body; a failed
\* removal of a sandbox is a CleanupError.
Leaves(kind) == pc' = "finalize" /\ failure' = kind

\* Mutant of WarmupEnds: the graph goes on to the sessions it warmed up for.
WarmupEndsGoingOn(kind) ==
    IF kind = "error"
    THEN pc' = "body" /\ UNCHANGED <<stopped, failure, unclean>>
    ELSE Leaves(kind) /\ unclean' = (unclean \/ kind = "unclean") /\ UNCHANGED stopped

\* The warm-up session ends with a failure: the graph stops with UNSUPPORTED
\* (or STOP), unless it is a cancellation or a CleanupError.
WarmupEnds(kind) ==
    IF kind = "error"
    THEN /\ pc' = "body" /\ stopped' = TRUE
         /\ UNCHANGED <<failure, unclean>>
    ELSE /\ Leaves(kind)
         /\ unclean' = (unclean \/ kind = "unclean")
         /\ UNCHANGED stopped

\* The warm-up fails in a command of the sandbox or in the sandbox's removal.
WarmupFails(kind) ==
    /\ pc \in {"warm", "staged"}
    /\ Ends(IF kind = "cancelled" THEN kind ELSE "error")
    /\ WarmupEnds(kind)
    /\ UNCHANGED <<world, provider, primary, absorbed, cleanupFailed, evidence, result>>

\* The session in which an undo or a discard failed ends the same way.
SessionEnds(kind) ==
    \E end \in {kind, "unclean"} : WarmupEnds(end)

BodyEnds ==
    /\ pc = "body"
    /\ Leaves("none")
    /\ UNCHANGED <<world, provider, primary, stopped, absorbed, cleanupFailed, unclean,
                   evidence, result, clock>>

BodyRaises(kind) ==
    /\ pc = "body"
    /\ Ends(IF kind = "cancelled" THEN kind ELSE "error")
    /\ Leaves(kind)
    /\ unclean' = (unclean \/ kind = "unclean")
    /\ UNCHANGED <<world, provider, primary, stopped, absorbed, cleanupFailed, evidence,
                   result>>

-----------------------------------------------------------------------------
(* The bundle: stage_runtime_image_bundle and its removal                  *)

\* _mark_runtime_cleanup_unconfirmed
Unconfirmed == [audit EXCEPT !.removed = FALSE]

\* The sequence of _discard_runtime_image_bundle and of
\* _cleanup_runtime_image_bundle: close the file if the path still names it,
\* then unlink the path if it is ours; whatever fails keeps the path.
Dropped(ok) ==
    \/ /\ ok /\ "path" \notin held
       /\ UNCHANGED <<held, file>>
    \/ /\ ok /\ "path" \in held
       /\ "open" \in held => SameOpenFile
       /\ \/ file = "absent"
          \/ file = "ours" /\ "inode" \in held
       /\ held' = {} /\ file' = "absent"
    \/ /\ ~ok /\ "open" \in held /\ ~SameOpenFile
       /\ UNCHANGED <<held, file>>
    \/ /\ ~ok /\ SameOpenFile
       /\ held' = held \cup {"broken"} /\ UNCHANGED file
    \/ /\ ~ok /\ "path" \in held /\ file # "absent"
       /\ "open" \in held => SameOpenFile
       /\ held' = held \ {"open"} /\ UNCHANGED file

\* mkstemp, fstat, fchmod and fdopen; the failures are discarded at once.
Stage ==
    /\ pc = "warm" /\ "stage" \notin used
    /\ used' = used \cup {"stage"}
    /\ file' = "ours" /\ held' = {"path", "inode", "open"}
    /\ audit' = Unconfirmed
    /\ pc' = "export"
    /\ UNCHANGED <<template, template_state, primary, outcome, evidence, result, clock>>

StageFails ==
    /\ pc = "warm" /\ "stage" \notin used
    /\ used' = used \cup {"stage"}
    /\ \/ UNCHANGED <<file, held, audit>>                          \* mkstemp
       \/ file' = "ours" /\ held' = {"path"} /\ audit' = Unconfirmed  \* fstat
       \/ /\ audit' = Unconfirmed                                 \* fdopen
          /\ \/ UNCHANGED <<file, held>>
             \/ file' = "ours" /\ held' = {"path", "inode"}
    /\ SessionEnds("error")
    /\ UNCHANGED <<template, template_state, primary, absorbed, cleanupFailed, evidence,
                   result, clock>>

\* _stream_image_bundle_export ends with a whole bundle.
Exported ==
    /\ pc = "export" /\ SameOpenFile
    /\ held' = held \cup {"digest", "plan"}
    /\ audit' = [Unconfirmed EXCEPT !.bundle = TRUE]
    /\ pc' = "staged"
    /\ UNCHANGED <<world, used, template_state, primary, outcome, evidence, result, clock>>

\* It fails, is cancelled, or ends with an empty, oversize or replaced file.
ExportFails(kind) ==
    /\ pc = "export"
    /\ Ends(kind)
    /\ \E ok \in BOOLEAN :
         /\ Dropped(ok)
         /\ audit' = IF ok THEN [audit EXCEPT !.bundle = FALSE] ELSE audit
         /\ SessionEnds(IF ok THEN kind ELSE "error")
    /\ UNCHANGED <<template, template_state, used, primary, absorbed, cleanupFailed,
                   evidence, result>>

-----------------------------------------------------------------------------
(* activate_runtime_template, after the guest workspace was emptied        *)

Activate ==
    /\ pc = "staged" /\ "activate" \notin used
    /\ used' = used \cup {"activate"}
    /\ cleaned' = FALSE
    /\ pc' = "list"
    /\ UNCHANGED <<world, held, audit, tag, finalized, primary, outcome, evidence,
                   result, clock>>

\* template ls and stop: a failure leaves the daemon as it was.
Before(kind) ==
    /\ pc \in {"list", "stop"}
    /\ Ends(kind)
    /\ \/ /\ kind = "ok"
          /\ pc' = IF pc = "list" THEN "stop" ELSE "save"
          /\ tag' = IF pc = "list" THEN tag ELSE "pending"
          /\ UNCHANGED <<failure, stopped, unclean>>
       \/ /\ kind # "ok"
          /\ SessionEnds(kind)
          /\ UNCHANGED tag
    /\ UNCHANGED <<world, held, audit, used, cleaned, finalized, primary, absorbed,
                   cleanupFailed, evidence, result>>

Save(kind) ==
    /\ pc = "save"
    /\ Ends(kind)
    /\ template' \in IF kind = "ok" THEN {"ours"} ELSE {template, "ours"}
    /\ pc' = IF kind = "ok" THEN "relist" ELSE "undo_rm"
    /\ primary' = IF kind = "ok" THEN "none" ELSE kind
    /\ UNCHANGED <<file, provider, outcome, evidence, result>>

\* Exactly one match makes the template active, in one step.
Activated ==
    /\ pc = "relist" /\ template = "ours"
    /\ tag' = "active"
    /\ audit' = [identity |-> TRUE, uses |-> 0, removed |-> FALSE,
                 bundle |-> "digest" \in held]
    /\ pc' = "activated"
    /\ UNCHANGED <<world, held, used, cleaned, finalized, primary, outcome, evidence,
                   result, clock>>

RelistFails(kind) ==
    /\ pc = "relist"
    /\ Ends(kind)
    /\ pc' = "undo_rm" /\ primary' = kind
    /\ UNCHANGED <<world, provider, outcome, evidence, result>>

\* Mutant of Undone: the pending tag is cleared whatever the undo did.
UndoneBlindly(ok) == tag' = "none"

\* _cleanup_runtime_template clears the pending tag only when it succeeds.
Undone(ok) == tag' = IF ok THEN "none" ELSE tag

\* template rm, then template ls.  A failure of the undo, a cancellation too,
\* is only noted on the primary error.
UndoRemove(kind) ==
    /\ pc = "undo_rm"
    /\ Ends(kind)
    /\ template' \in IF kind = "ok" THEN {"absent"} ELSE {template, "absent"}
    /\ \/ /\ kind = "ok" /\ pc' = "undo_ls"
          /\ UNCHANGED <<tag, failure, stopped, unclean>>
       \/ /\ kind # "ok" /\ Undone(FALSE) /\ SessionEnds(primary)
    /\ UNCHANGED <<file, held, audit, used, cleaned, finalized, primary, absorbed,
                   cleanupFailed, evidence, result>>

UndoList(kind) ==
    /\ pc = "undo_ls"
    /\ Ends(kind)
    /\ kind = "ok" => template = "absent"
    /\ Undone(kind = "ok")
    /\ SessionEnds(primary)
    /\ UNCHANGED <<world, held, audit, used, cleaned, finalized, primary, absorbed,
                   cleanupFailed, evidence, result>>

\* The audit is bound to the evidence handle and the warm-up sandbox removed.
WarmupSucceeds ==
    /\ pc = "activated"
    /\ handle' = [handle EXCEPT !.identity = TRUE]
    /\ pc' = "body"
    /\ UNCHANGED <<world, provider, primary, outcome, lines, result, clock>>

\* The removal fails or is cancelled, or a record could not be written.
WarmupSpoiled(kind) ==
    /\ pc = "activated"
    /\ Ends(IF kind = "cancelled" THEN kind ELSE "error")
    /\ handle' = [handle EXCEPT !.identity = TRUE]
    /\ WarmupEnds(kind)
    /\ UNCHANGED <<world, provider, primary, absorbed, cleanupFailed, lines, result>>

-----------------------------------------------------------------------------
(* create() from the template                                              *)

\* The checks of create() on the provider's own template state.
TemplateConsistent ==
    /\ tag = "active" /\ audit.identity /\ ~audit.removed
    /\ "plan" \in held
    /\ BundleComplete

CreateFromTemplate ==
    /\ pc = "body" /\ ~stopped /\ tag # "none"
    /\ TemplateConsistent /\ audit.uses < MaxUses
    /\ pc' = "import"
    /\ UNCHANGED <<world, provider, primary, outcome, evidence, result, clock>>

CreateRefused ==
    /\ pc = "body" /\ ~stopped /\ tag # "none"
    /\ ~TemplateConsistent \/ audit.uses >= MaxUses
    /\ Leaves("error")
    /\ UNCHANGED <<world, provider, primary, stopped, absorbed, cleanupFailed, unclean,
                   evidence, result, clock>>

\* _import_runtime_image_bundle and _ensure_runtime_image_bindings; the audit
\* counts the use.
Imported ==
    /\ pc = "import" /\ SameOpenFile
    /\ audit' = [audit EXCEPT !.uses = @ + 1]
    /\ pc' = "body"
    /\ UNCHANGED <<world, held, used, template_state, primary, outcome, evidence,
                   result, clock>>

\* The file was replaced or changed, or a command failed: the sandbox is
\* removed and the failure leaves the body.
ImportFails(kind) ==
    /\ pc = "import"
    /\ Ends(IF kind = "cancelled" THEN kind ELSE "error")
    /\ Leaves(kind)
    /\ unclean' = (unclean \/ kind = "unclean")
    /\ UNCHANGED <<world, provider, primary, stopped, absorbed, cleanupFailed, evidence,
                   result>>

-----------------------------------------------------------------------------
(* finalize_runtime_template, in its own task                              *)

\* Both parts were tried; any failure takes the confirmations back.
Finished(templateOk, bundleOk, confirmed) ==
    /\ cleanupFailed' = ~(templateOk /\ bundleOk)
    /\ finalized' = (templateOk /\ bundleOk)
    /\ cleaned' = confirmed
    /\ audit' = [audit EXCEPT !.removed = templateOk /\ bundleOk,
                              !.bundle = @ \/ "digest" \in held]

\* The template part ended; the bundle is dropped without another await.
FinalizeEnds(ok) ==
    /\ \E bundleOk \in BOOLEAN :
         /\ Dropped(bundleOk)
         /\ Finished(ok, bundleOk, cleaned \/ ok)
    /\ tag' = IF ok THEN "none" ELSE tag
    /\ pc' = "settle"

FinalizeStarts ==
    /\ pc = "finalize"
    /\ \/ tag = "none" /\ FinalizeEnds(TRUE)
       \/ /\ tag # "none" /\ pc' = "f_list"
          /\ UNCHANGED <<file, provider, cleanupFailed>>
    /\ UNCHANGED <<template, used, primary, failure, stopped, absorbed, unclean,
                   evidence, result, clock>>

\* The task is cancelled before its first step: no clean-up ran at all, and the
\* cancellation takes the place of the body's failure.
FinalizeAborted ==
    /\ pc = "finalize" /\ ~teardown
    /\ teardown' = TRUE /\ absorbed' = TRUE
    /\ failure' = "cancelled"
    /\ pc' = "settle"
    /\ UNCHANGED <<world, provider, primary, stopped, cleanupFailed, unclean, evidence,
                   result, cancels>>

\* template ls.  An active template must still have its image id; a pending one
\* is removed whatever it is, and listed again in any case.
FinalizeList(kind) ==
    /\ pc = "f_list"
    /\ ShieldedEnds(kind)
    /\ \/ /\ kind = "ok" /\ template = "absent" /\ tag = "active"
          /\ FinalizeEnds(TRUE)
       \/ /\ kind = "ok" /\ template = "absent" /\ tag = "pending"
          /\ pc' = "f_relist"
          /\ UNCHANGED <<file, tag, held, audit, cleaned, finalized, cleanupFailed>>
       \/ /\ kind = "ok"
          /\ template = "ours" \/ (template = "foreign" /\ tag = "pending")
          /\ pc' = "f_rm"
          /\ UNCHANGED <<file, tag, held, audit, cleaned, finalized, cleanupFailed>>
       \/ /\ kind # "ok" \/ (template = "foreign" /\ tag = "active")
          /\ FinalizeEnds(FALSE)
    /\ UNCHANGED <<template, used, primary, failure, stopped, unclean, evidence, result>>

FinalizeRemove(kind) ==
    /\ pc = "f_rm"
    /\ ShieldedEnds(kind)
    /\ template' \in IF kind = "ok" THEN {"absent"} ELSE {template, "absent"}
    /\ \/ /\ kind = "ok" /\ pc' = "f_relist"
          /\ UNCHANGED <<file, tag, held, audit, cleaned, finalized, cleanupFailed>>
       \/ kind # "ok" /\ FinalizeEnds(FALSE)
    /\ UNCHANGED <<used, primary, failure, stopped, unclean, evidence, result>>

\* Mutant of FinalizeRelist: a template that is still there is removed again.
FinalizeRelistAgain(kind) ==
    /\ pc = "f_relist"
    /\ ShieldedEnds(kind)
    /\ IF kind = "ok" /\ template = "absent" THEN FinalizeEnds(TRUE)
       ELSE /\ pc' = "f_list"
            /\ UNCHANGED <<file, tag, held, audit, cleaned, finalized, cleanupFailed>>
    /\ UNCHANGED <<template, used, primary, failure, stopped, unclean, evidence, result>>

FinalizeRelist(kind) ==
    /\ pc = "f_relist"
    /\ ShieldedEnds(kind)
    /\ FinalizeEnds(kind = "ok" /\ template = "absent")
    /\ UNCHANGED <<template, used, primary, failure, stopped, unclean, evidence, result>>

\* A cancellation of the waiting main task is kept for later.
Absorb ==
    /\ pc \in Finalizing \cup {"settle"}
    /\ ~absorbed /\ cancels < MaxCancels
    /\ absorbed' = TRUE /\ cancels' = cancels + 1
    /\ UNCHANGED <<world, provider, pc, primary, failure, stopped, cleanupFailed,
                   unclean, evidence, result, teardown>>

-----------------------------------------------------------------------------
(* managed_runtime_template leaves, _invoke_graph_with_finalization records *)

BodyFailure == IF failure = "none" /\ absorbed /\ ~cleanupFailed
               THEN "cancelled" ELSE failure

\* _runtime_template_audit_snapshot, and the removal it must show.
AuditFailure == audit.identity # handle.identity \/ ~audit.removed

\* Mutant of Records: the outcome of the cleanup call alone is written down.
RecordsOfCall ==
    {"removed"} \cup IF BodyFailure = "none" THEN {} ELSE {"body_failure"}

Records ==
    {IF cleanupFailed \/ AuditFailure THEN "not_removed" ELSE "removed"}
        \cup IF BodyFailure = "none" THEN {} ELSE {"body_failure"}

\* _append_template_finalization_evidence writes the body's failure first; an
\* append that fails keeps what was already written.
Settle ==
    /\ pc = "settle"
    /\ \E written \in {{}, Records \cap {"body_failure"}, Records} :
         LET short == handle.owned /\ written # Records IN
         /\ lines' = IF handle.owned THEN written ELSE lines
         /\ result' = CASE cleanupFailed         -> "cleanup_error"
                        [] ~cleanupFailed /\ BodyFailure # "none" -> BodyFailure
                        [] ~cleanupFailed /\ BodyFailure = "none" ->
                             IF short \/ AuditFailure THEN "evidence_error" ELSE "normal"
    /\ pc' = "idle"
    /\ UNCHANGED <<world, provider, primary, outcome, handle, clock>>

-----------------------------------------------------------------------------
\* Somebody else removes or replaces the template or the file.
Meddle ==
    /\ \/ /\ template = "ours"
          /\ template' \in IF tag = "active" THEN {"absent", "foreign"} ELSE {"absent"}
          /\ UNCHANGED file
       \/ /\ file = "ours" /\ file' \in {"absent", "foreign"}
          /\ UNCHANGED template
    /\ UNCHANGED <<provider, pc, primary, outcome, evidence, result, clock>>

Outcomes == {"ok", "error", "cancelled"}
Ways == {"error", "cancelled", "unclean"}

Prepare ==
    \/ StartWarmup \/ Stage \/ StageFails \/ Exported
    \/ \E kind \in Ways : WarmupFails(kind) \/ WarmupSpoiled(kind)
    \/ \E kind \in Outcomes \ {"ok"} : ExportFails(kind) \/ RelistFails(kind)
    \/ Activate \/ Activated \/ WarmupSucceeds
    \/ \E kind \in Outcomes : \/ Before(kind) \/ Save(kind)
                              \/ UndoRemove(kind) \/ UndoList(kind)

Use ==
    \/ CreateFromTemplate \/ CreateRefused \/ Imported \/ BodyEnds
    \/ \E kind \in Ways : BodyRaises(kind) \/ ImportFails(kind)

Finalize ==
    \/ FinalizeStarts \/ FinalizeAborted \/ Settle
    \/ \E kind \in Outcomes : \/ FinalizeList(kind) \/ FinalizeRemove(kind)
                              \/ FinalizeRelist(kind)

Invocation == Prepare \/ Use \/ Finalize

Next == BeginInvocation \/ Invocation \/ Absorb \/ Meddle

\* The event loop runs the invocation: every await ends (commands have a time
\* limit) and the body, a bounded graph, does not create for ever.
Fairness == WF_vars(Invocation)

Spec == Init /\ [][Next]_vars /\ Fairness

-----------------------------------------------------------------------------
(* Properties                                                              *)

TypeOK ==
    /\ template \in {"absent", "ours", "foreign"}
    /\ file \in {"absent", "ours", "foreign"}
    /\ tag \in {"none", "pending", "active"}
    /\ held \subseteq Parts
    /\ audit \in [identity : BOOLEAN, uses : 0..MaxUses, removed : BOOLEAN,
                  bundle : BOOLEAN]
    /\ used \subseteq {"stage", "activate"}
    /\ {cleaned, finalized, stopped, absorbed, cleanupFailed, unclean, teardown}
         \subseteq BOOLEAN
    /\ pc \in Body \cup Finalizing \cup {"idle", "settle"}
    /\ primary \in {"none", "error", "cancelled"} /\ failure \in Kinds
    /\ handle \in [owned : BOOLEAN, identity : BOOLEAN]
    /\ lines \subseteq {"removed", "not_removed", "body_failure"}
    /\ result \in Results
    /\ cancels \in 0..MaxCancels

\* Nothing is left behind in silence: when an invocation has ended and a template
\* or a bundle of ours still exists, the caller got a RuntimeTemplateCleanupError,
\* or its own cancellation from an event loop that was torn down
\* (managed_runtime_template).
LeftoverIsReported ==
    pc = "idle" /\ Left =>
        result = "cleanup_error" \/ (teardown /\ result = "cancelled")

\* The evidence file is true: a "template_remove success" line means that template
\* and bundle are gone, and an invocation that prepared a template and ended
\* normally has that line.
EvidenceIsTrue ==
    /\ "removed" \in lines => ~Left
    /\ (pc = "idle" /\ result = "normal") =>
         ~Left /\ (handle.owned => "removed" \in lines)

\* create() never refuses a template because of what the provider itself left in
\* its state: while the graph still creates sandboxes, a tag comes with its
\* identity, a whole bundle and a plan.
TemplateUsable ==
    (pc \in {"body", "import"} /\ ~stopped /\ tag # "none") => TemplateConsistent

\* An invocation ends, whatever fails and whenever it is cancelled.
InvocationEnds == pc # "idle" ~> pc = "idle"

\* The provider implements TemplateCustody: custody is given back only when nothing
\* is left, and a provider that lost it serves no further invocation.
custody == IF pc # "idle" THEN "held" ELSE IF finalized THEN "free" ELSE "lost"
Custody == INSTANCE TemplateCustody WITH custody <- custody, left <- Left
ImplementsCustody == Custody!Spec

=============================================================================
