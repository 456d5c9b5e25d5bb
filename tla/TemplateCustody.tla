-------------------------- MODULE TemplateCustody --------------------------
(***************************************************************************)
(* What an invocation of the run graph promises about the image template   *)
(* and the bundle file it leaves outside every sandbox: they are in its    *)
(* custody while it runs, and a provider that could not confirm that they  *)
(* are gone never serves another invocation.                               *)
(***************************************************************************)
VARIABLES custody,   \* free, held by an invocation, or lost by one
          left       \* a template or a bundle of this provider still exists

vars == <<custody, left>>

TypeOK == custody \in {"free", "held", "lost"} /\ left \in BOOLEAN

Init == custody = "free" /\ left = FALSE

Take == custody = "free" /\ custody' = "held" /\ UNCHANGED left

\* While it holds them an invocation makes and removes what it needs.
Work == custody = "held" /\ left' \in BOOLEAN /\ UNCHANGED custody

\* Custody ends in freedom only when nothing is left.
Release == custody = "held" /\ ~left /\ custody' = "free" /\ UNCHANGED left

Lose == custody = "held" /\ custody' = "lost" /\ UNCHANGED left

\* Somebody else may still clean up behind a provider that gave up.
Swept == custody = "lost" /\ left' = FALSE /\ UNCHANGED custody

Next == Take \/ Work \/ Release \/ Lose \/ Swept

Spec == Init /\ [][Next]_vars
=============================================================================
