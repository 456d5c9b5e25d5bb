-------------------------- MODULE RepositoryCache --------------------------
(***************************************************************************)
(* Trials that pin a GitHub repository at the same time: RepositoryCache   *)
(* .pin of intake/repository_cache.py (restore, else fetch, then store)    *)
(* around pin_repository of intake/github.py.  The trials are processes of *)
(* their own and share the cache directory: its entries, one per           *)
(* repository and commit, temporary entries being filled, and a lock file. *)
(* A trial that does not get the lock at once goes on without the cache.   *)
(*                                                                         *)
(* A trial may be killed between any two steps; the kernel then frees its  *)
(* lock and its directories stay.  A git child that could not be killed    *)
(* may go on writing to the trial's workspace.                             *)
(***************************************************************************)
EXTENDS Naturals, FiniteSets

CONSTANTS Trials, Keys,
          NoTrial,        \* nobody holds the lock
          MaxEntries,     \* _MAX_ENTRIES, 16 in the code
          MaxAttempts     \* NETWORK_MAX_ATTEMPTS, 2 in the code

ASSUME TrialAssumption == NoTrial \notin Trials /\ IsFiniteSet(Trials)
ASSUME KeyAssumption == IsFiniteSet(Keys)
ASSUME LimitAssumption == MaxEntries \in Nat /\ MaxAttempts \in Nat

VARIABLES
    entry,       \* the published entry of each key
    extra,       \* entries of other repositories
    temp,        \* each trial's temporary entry
    lock,        \* the holder of the lock file
    key,         \* what each trial pins
    exact,       \* its ref is a full commit, so the cache is used
    pinPc,       \* where each trial waits
    workspace,   \* its destination directory
    tries,       \* network attempts so far
    alive,       \* the git of a network attempt may still write
    result       \* how the pin ended

cache == <<entry, extra, temp, lock>>
pinning == <<workspace, tries, alive>>
pinVars == <<cache, key, exact, pinPc, pinning, result>>

-----------------------------------------------------------------------------
\* whole: complete and undamaged; rotten: accepted, but objects are missing or
\* damaged; shallow: written by an older version; junk: anything else.
EntryStates == {"absent", "whole", "rotten", "shallow", "junk"}
Workspaces == {"absent", "foreign", "partial", "pinned", "damaged"}
Points == {"start", "r_check", "r_fsck", "r_clone", "claim", "fetch", "pause",
           "s_budget", "s_lock", "s_check", "s_fill", "s_publish", "done"}
Results == {"none", "pinned", "failed", "cancelled", "killed"}

\* _valid_entry: manifest, size and layout; the objects are not read.
Accepted(k) == entry[k] \in {"whole", "rotten"}

\* Mutant of Free: a trial that does not get the lock goes on all the same.
FreeAnyway(t) == TRUE

\* _try_lock does not wait.
Free(t) == lock = NoTrial

Freed(t) == IF lock = t THEN NoTrial ELSE lock

\* The directories of entries/ that count against the limit.
Stored == extra + Cardinality({k \in Keys : entry[k] # "absent"})
                + Cardinality({t \in Trials : temp[t] # "none"})

Goto(t, point) == pinPc' = [pinPc EXCEPT ![t] = point]

Ends(t, res) == /\ Goto(t, "done")
                /\ result' = [result EXCEPT ![t] = res]

PinInit ==
    /\ entry \in [Keys -> EntryStates]
    /\ extra \in 0..MaxEntries
    /\ temp = [t \in Trials |-> "none"]
    /\ Stored <= MaxEntries
    /\ lock = NoTrial
    /\ key \in [Trials -> Keys] /\ exact \in [Trials -> BOOLEAN]
    /\ pinPc = [t \in Trials |-> "start"]
    /\ workspace \in [Trials -> {"absent", "foreign"}]
    /\ tries = [t \in Trials |-> 0]
    /\ alive = [t \in Trials |-> FALSE]
    /\ result = [t \in Trials |-> "none"]

-----------------------------------------------------------------------------
(* restore                                                                 *)

\* Mutant of Miss: a miss looks into the cache again.
MissAgain(t) == Goto(t, "start")

\* A miss, a timeout or an error of the cache is answered by the network.
Miss(t) == Goto(t, "claim")

\* An inexact ref, an unusable root and a lock that is taken are misses.
Lookup(t) ==
    /\ pinPc[t] = "start"
    /\ \/ exact[t] /\ Free(t) /\ lock' = t /\ Goto(t, "r_check")
       \/ Miss(t) /\ UNCHANGED lock
    /\ UNCHANGED <<entry, extra, temp, key, exact, pinning, result>>

\* _valid_entry, then _claim_destination, which a destination that exists fails.
CheckEntry(t) ==
    /\ pinPc[t] = "r_check"
    /\ \/ /\ Accepted(key[t]) /\ workspace[t] = "absent"
          /\ workspace' = [workspace EXCEPT ![t] = "partial"]
          /\ Goto(t, "r_fsck") /\ UNCHANGED lock
       \/ /\ Miss(t) /\ lock' = Freed(t)
          /\ UNCHANGED workspace
    /\ UNCHANGED <<entry, extra, temp, key, exact, tries, alive, result>>

\* Mutant of Verified: the objects are not read.
VerifiedBlindly(t) ==
    /\ pinPc[t] = "r_fsck"
    /\ Goto(t, "r_clone")
    /\ UNCHANGED <<cache, key, exact, pinning, result>>

\* git fsck and rev-list read every object.
Verified(t) ==
    /\ pinPc[t] = "r_fsck" /\ entry[key[t]] = "whole"
    /\ Goto(t, "r_clone")
    /\ UNCHANGED <<cache, key, exact, pinning, result>>

\* clone, checkout and the comparisons of head, origin and layout.
Restored(t) ==
    /\ pinPc[t] = "r_clone"
    /\ workspace' = [workspace EXCEPT ![t] =
                        IF entry[key[t]] = "whole" THEN "pinned" ELSE "damaged"]
    /\ lock' = Freed(t)
    /\ Ends(t, "pinned")
    /\ UNCHANGED <<entry, extra, temp, key, exact, tries, alive>>

\* _remove_owned_destination succeeds, or refuses and leaves the directory.
Removed(t, ok) ==
    workspace' = [workspace EXCEPT ![t] = IF ok THEN "absent" ELSE "partial"]

\* A command fails, or the 30 seconds of restore end.  Whether its git could be
\* killed is not asked, so alive does not know of it.
RestoreFails(t) ==
    /\ pinPc[t] \in {"r_fsck", "r_clone"}
    /\ \E ok \in BOOLEAN : Removed(t, ok)
    /\ lock' = Freed(t)
    /\ Miss(t)
    /\ UNCHANGED <<entry, extra, temp, key, exact, tries, alive, result>>

-----------------------------------------------------------------------------
(* pin_repository: clone_and_resolve with its retry                        *)

Claim(t) ==
    /\ pinPc[t] = "claim"
    /\ \/ /\ workspace[t] = "absent"
          /\ workspace' = [workspace EXCEPT ![t] = "partial"]
          /\ tries' = [tries EXCEPT ![t] = @ + 1]
          /\ Goto(t, "fetch") /\ UNCHANGED result
       \/ /\ Ends(t, "failed")
          /\ UNCHANGED <<workspace, tries>>
    /\ UNCHANGED <<cache, key, exact, alive>>

Fetched(t) ==
    /\ pinPc[t] = "fetch"
    /\ workspace' = [workspace EXCEPT ![t] = "pinned"]
    /\ IF exact[t] THEN Goto(t, "s_budget") /\ UNCHANGED result
                   ELSE Ends(t, "pinned")
    /\ UNCHANGED <<cache, key, exact, tries, alive>>

\* Mutant of Retryable: a timeout is retried whatever became of its process.
RetryableBlindly(class, reaped) == class \in {"transport", "timeout"}

\* _is_retryable_network_error
Retryable(class, reaped) ==
    \/ class = "transport"
    \/ class = "timeout" /\ reaped

MayRetry(t) == tries[t] < MaxAttempts

\* An attempt fails: its directory is removed, and only then, if nothing of it
\* can be left, is there another one.
FetchFails(t, class, reaped, ok) ==
    /\ pinPc[t] = "fetch"
    /\ class # "timeout" => reaped
    /\ Removed(t, ok)
    /\ alive' = [alive EXCEPT ![t] = @ \/ ~reaped]
    /\ IF MayRetry(t) /\ Retryable(class, reaped) /\ ok
       THEN Goto(t, "pause") /\ UNCHANGED result
       ELSE Ends(t, "failed")
    /\ UNCHANGED <<cache, key, exact, tries>>

ResumePin(t) ==
    /\ pinPc[t] = "pause"
    /\ Goto(t, "claim")
    /\ UNCHANGED <<cache, key, exact, pinning, result>>

\* NETWORK_PREPARATION_TIMEOUT_SECONDS ends the attempt or the pause.
PreparationTimeout(t) ==
    /\ pinPc[t] \in {"fetch", "pause"}
    /\ IF pinPc[t] = "fetch"
       THEN \E ok \in BOOLEAN : Removed(t, ok)
       ELSE UNCHANGED workspace
    /\ Ends(t, "failed")
    /\ UNCHANGED <<cache, key, exact, tries, alive>>

-----------------------------------------------------------------------------
(* store: its outcome never changes the pin's                              *)

\* The budget, the lock or the root refuse.
StoreSkipped(t) ==
    /\ pinPc[t] \in {"s_budget", "s_lock"}
    /\ Ends(t, "pinned")
    /\ UNCHANGED <<cache, key, exact, pinning>>

StoreMeasured(t) ==
    /\ pinPc[t] = "s_budget"
    /\ Goto(t, "s_lock")
    /\ UNCHANGED <<cache, key, exact, pinning, result>>

StoreLocked(t) ==
    /\ pinPc[t] = "s_lock" /\ Free(t)
    /\ lock' = t
    /\ Goto(t, "s_check")
    /\ UNCHANGED <<entry, extra, temp, key, exact, pinning, result>>

\* An accepted entry is kept.  A shallow one is evicted first; an eviction that
\* fails half way leaves junk.  The limit counts temporary entries too.
StoreCheck(t) ==
    /\ pinPc[t] = "s_check"
    /\ IF Accepted(key[t])
       THEN Ends(t, "pinned") /\ lock' = Freed(t) /\ UNCHANGED <<entry, temp>>
       ELSE \/ LET stored == Stored - IF entry[key[t]] = "shallow" THEN 1 ELSE 0 IN
               /\ entry' = [entry EXCEPT ![key[t]] =
                                IF @ = "shallow" THEN "absent" ELSE @]
               /\ IF stored < MaxEntries
                  THEN /\ temp' = [temp EXCEPT ![t] = "partial"]
                       /\ Goto(t, "s_fill") /\ UNCHANGED <<lock, result>>
                  ELSE Ends(t, "pinned") /\ lock' = Freed(t) /\ UNCHANGED temp
            \/ /\ entry' = [entry EXCEPT ![key[t]] =
                                IF @ = "shallow" THEN "junk" ELSE @]
               /\ Ends(t, "pinned") /\ lock' = Freed(t) /\ UNCHANGED temp
    /\ UNCHANGED <<extra, key, exact, pinning>>

\* The fetch from the workspace and the checks of the copy.
StoreFilled(t) ==
    /\ pinPc[t] = "s_fill" /\ workspace[t] = "pinned"
    /\ temp' = [temp EXCEPT ![t] = "whole"]
    /\ Goto(t, "s_publish")
    /\ UNCHANGED <<entry, extra, lock, key, exact, pinning, result>>

\* os.replace fails on an entry that exists.
StorePublished(t) ==
    /\ pinPc[t] = "s_publish" /\ entry[key[t]] = "absent"
    /\ entry' = [entry EXCEPT ![key[t]] = temp[t]]
    /\ temp' = [temp EXCEPT ![t] = "none"]
    /\ lock' = Freed(t)
    /\ Ends(t, "pinned")
    /\ UNCHANGED <<extra, key, exact, pinning>>

\* The temporary entry is removed, if it can be.
Dropped(t) == \E left \in {"none", "partial"} : temp' = [temp EXCEPT ![t] = left]

StoreFails(t) ==
    /\ pinPc[t] \in {"s_fill", "s_publish"}
    /\ Dropped(t)
    /\ lock' = Freed(t)
    /\ Ends(t, "pinned")
    /\ UNCHANGED <<entry, extra, key, exact, pinning>>

-----------------------------------------------------------------------------
\* The trial is cancelled: the directory being filled is removed, if it can be;
\* a workspace that was pinned stays, as do the entries.
Cancel(t) ==
    /\ pinPc[t] \notin {"start", "done"}
    /\ IF pinPc[t] \in {"s_fill", "s_publish"} THEN Dropped(t) ELSE UNCHANGED temp
    /\ IF pinPc[t] \in {"r_fsck", "r_clone", "fetch"}
       THEN \E ok \in BOOLEAN : Removed(t, ok)
       ELSE UNCHANGED workspace
    /\ lock' = Freed(t)
    /\ Ends(t, "cancelled")
    /\ UNCHANGED <<entry, extra, key, exact, tries, alive>>

\* The process is killed, perhaps in the middle of an eviction.
KillTrial(t) ==
    /\ pinPc[t] # "done"
    /\ \/ UNCHANGED entry
       \/ /\ pinPc[t] = "s_check" /\ entry[key[t]] = "shallow"
          /\ entry' = [entry EXCEPT ![key[t]] = "junk"]
    /\ lock' = Freed(t)
    /\ Ends(t, "killed")
    /\ UNCHANGED <<extra, temp, key, exact, pinning>>

\* Damage to an entry nobody is reading.
Rot(k) ==
    /\ entry[k] = "whole" /\ lock = NoTrial
    /\ entry' = [entry EXCEPT ![k] = "rotten"]
    /\ UNCHANGED <<extra, temp, lock, key, exact, pinPc, pinning, result>>

Classes == {"transport", "timeout", "other"}

Step(t) ==
    \/ Lookup(t) \/ CheckEntry(t) \/ Verified(t) \/ Restored(t) \/ RestoreFails(t)
    \/ Claim(t) \/ Fetched(t) \/ ResumePin(t) \/ PreparationTimeout(t)
    \/ \E class \in Classes, reaped, ok \in BOOLEAN : FetchFails(t, class, reaped, ok)
    \/ StoreSkipped(t) \/ StoreMeasured(t) \/ StoreLocked(t) \/ StoreCheck(t)
    \/ StoreFilled(t) \/ StorePublished(t) \/ StoreFails(t)

PinNext ==
    \/ \E t \in Trials : Step(t) \/ Cancel(t) \/ KillTrial(t)
    \/ \E k \in Keys : Rot(k)

\* Every command has a time limit and no step waits for another trial.
Fairness == \A t \in Trials : WF_pinVars(Step(t))

PinSpec == PinInit /\ [][PinNext]_pinVars /\ Fairness
-----------------------------------------------------------------------------
(* Properties                                                              *)

PinTypeOK ==
    /\ entry \in [Keys -> EntryStates]
    /\ extra \in 0..MaxEntries
    /\ temp \in [Trials -> {"none", "partial", "whole"}]
    /\ lock \in Trials \cup {NoTrial}
    /\ key \in [Trials -> Keys] /\ exact \in [Trials -> BOOLEAN]
    /\ pinPc \in [Trials -> Points]
    /\ workspace \in [Trials -> Workspaces]
    /\ tries \in [Trials -> 0..MaxAttempts]
    /\ alive \in [Trials -> BOOLEAN]
    /\ result \in [Trials -> Results]

\* A pin that succeeds hands out a whole repository, wherever it came from and
\* whatever happened to the cache: no partial, shallow or damaged copy is served.
PinnedIsWhole == \A t \in Trials : result[t] = "pinned" => workspace[t] = "pinned"

\* Trials that populate the cache together never exceed its limit of entries, and
\* only the holder of the lock has an entry under construction.
CacheIsBounded ==
    /\ Stored <= MaxEntries
    /\ \A t \in Trials : pinPc[t] \in {"s_fill", "s_publish"} => lock = t

\* A network attempt is only repeated when nothing of the one before is left: its
\* directory is gone and its git process was reaped.
RetryIsAlone ==
    \A t \in Trials : pinPc[t] = "pause" => ~alive[t] /\ workspace[t] = "absent"

\* Every pin ends, whoever holds the lock.
PinEnds == \A t \in Trials : pinPc[t] # "done" ~> pinPc[t] = "done"
=============================================================================
