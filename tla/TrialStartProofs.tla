-------------------------- MODULE TrialStartProofs --------------------------
(***************************************************************************)
(* TLAPS proofs about what a trial starts from.  The first part is about   *)
(* GuestInputs, the overlays and the .env of its guests, for any contents, *)
(* any attempts with any overlays, and any number of slots, invocations    *)
(* and edits.  The second is about RepositoryCache, the repository it      *)
(* pins, for any trials, any keys and any limits; it says of PinSpec what  *)
(* the first says of Spec, and neither uses the other.                     *)
(***************************************************************************)
EXTENDS GuestInputs, RepositoryCache, FiniteSetTheorems, SequenceTheorems, TLAPS

-----------------------------------------------------------------------------
(* The inputs of a guest                                                   *)

\* Steps before anything was decided about the input; those after the identity was
\* verified; those in which the guest exists, and those behind its overlays.
Deciding == {"plan", "identify", "inscribe"}
Identified == {"history", "create", "copy", "check", "adapter", "config", "finish", "up"}
InGuest == {"copy", "check", "adapter", "config", "finish", "up"}
Overlaid == {"adapter", "config", "finish", "up"}
Running == Deciding \cup Identified \cup {"reject", "fail"}
NeedsInput == {"identify", "inscribe", "history", "adapter", "config", "finish"}

Guests == [sample : Contents \cup {"none", "unusable"},
           env : Contents \cup {"none", "partial"},
           files : [OverlayKinds -> {"none", "whole"}]]

Typed ==
    /\ sample \in Contents \cup {"unusable"}
    /\ plan \in Contents \cup {"none"}
    /\ attempt \in Attempts /\ copied \in Nat
    /\ guest \in Guests
    /\ ledgers \in [Attempts -> Seq(Seq(Rows))]

\* The identity is the input of every attempt that goes on, and boots fix it.
IdentityAt ==
    /\ ~required => identity = "none" /\ pc \notin NeedsInput
    /\ required /\ pc \in Identified => identity = plan
    /\ required /\ pc \in {"identify", "inscribe"} \cup Identified => plan \in Contents
    /\ pc = "inscribe" => identity = "partial"
    /\ required /\ booted # {} => identity \in Contents

\* What the guest holds at each await.
GuestAt ==
    /\ pc \in InGuest /\ ~required => guest.env = "none"
    /\ pc \in {"config", "finish", "up"} /\ required => guest.env = plan
    /\ pc = "check" => copied < Len(Overlays)
    /\ pc \in InGuest => copied \in 0..Len(Overlays)
    /\ pc \in Overlaid => copied = Len(Overlays)
    /\ pc \in InGuest => \A i \in 1..copied : guest.files[Overlays[i]] = "whole"

\* The ledger of the running slot, and the slots before it.
LedgerAt ==
    /\ pc \in Running => Slot \in 1..Len(ledgers[attempt])
    /\ pc \in Deciding \cup {"history", "create", "copy", "check"} => Ledger = <<>>
    /\ pc \in {"adapter", "config", "finish"} => Ledger = <<Row("start")>>
    /\ pc = "up" /\ required => Ledger = <<Row("start"), Row("satisfied")>>

HistoryAt ==
    pc \in Identified \ {"history"} /\ required =>
        \A s \in 1..(Slot - 1) : Complete(ledgers[attempt][s], plan)

\* Boots are behind the running slot.
BootsAt ==
    \A b \in booted :
        /\ b.attempt \in 1..attempt
        /\ b.slot \in 1..Len(ledgers[b.attempt])
        /\ b.attempt = attempt /\ pc \in Running => b.slot < Slot

\* The guest held the input that the terminal row is about.
HeldAt == pc \in {"config", "finish"} => <<attempt, Slot, plan>> \in held

-----------------------------------------------------------------------------
LEMMA Constants ==
  /\ OverlaysOf \in Seq(Seq(OverlayKinds)) /\ Len(OverlaysOf) \in Nat \ {0}
  /\ "none" \notin Contents /\ "partial" \notin Contents /\ "unusable" \notin Contents
<1>1. OverlaysOf \in Seq(Seq(OverlayKinds)) /\ OverlaysOf # <<>>
  BY InputAssumption
<1>2. Len(OverlaysOf) \in Nat \ {0}
  BY <1>1, EmptySeq
<1>3. QED
  BY <1>1, <1>2, InputAssumption

LEMMA OverlaysTyped ==
  ASSUME attempt \in Attempts
  PROVE  Overlays \in Seq(OverlayKinds) /\ Len(Overlays) \in Nat
<1>1. Overlays \in Seq(OverlayKinds)
  BY Constants, ElementOfSeq DEF Overlays, Attempts
<1>2. QED
  BY <1>1

LEMMA RowTyped ==
  ASSUME Typed, NEW kind \in {"start", "satisfied", "failed", "planning", "partial"}
  PROVE  Row(kind) \in Rows /\ Row(kind).kind = kind
  BY DEF Typed, Row, Rows

\* Writing the ledger of the running slot leaves every other ledger alone.
LEMMA SlotWritten ==
  ASSUME Typed, Slot \in 1..Len(ledgers[attempt]), NEW rows \in Seq(Rows),
         ledgers' = [ledgers EXCEPT ![attempt][Slot] = rows]
  PROVE  /\ ledgers' \in [Attempts -> Seq(Seq(Rows))]
         /\ \A a \in Attempts : Len(ledgers'[a]) = Len(ledgers[a])
         /\ ledgers'[attempt][Slot] = rows
         /\ \A a \in Attempts : \A s \in 1..Len(ledgers[a]) :
               a # attempt \/ s # Slot => ledgers'[a][s] = ledgers[a][s]
<1> DEFINE new == [ledgers[attempt] EXCEPT ![Slot] = rows]
<1>1. ledgers[attempt] \in Seq(Seq(Rows)) /\ attempt \in Attempts
  BY DEF Typed
<1>2. /\ new \in Seq(Seq(Rows)) /\ Len(new) = Len(ledgers[attempt])
      /\ \A s \in 1..Len(new) : new[s] = IF s = Slot THEN rows ELSE ledgers[attempt][s]
  BY <1>1, ExceptSeq
<1>3. ledgers' = [ledgers EXCEPT ![attempt] = new]
  OBVIOUS
<1> HIDE DEF new
<1>4. ledgers' \in [Attempts -> Seq(Seq(Rows))] /\ ledgers'[attempt] = new
      /\ \A a \in Attempts : a # attempt => ledgers'[a] = ledgers[a]
  BY <1>1, <1>2, <1>3 DEF Typed
<1>5. QED
  BY <1>2, <1>4

\* Claiming a slot leaves every ledger alone.
LEMMA SlotClaimed ==
  ASSUME Typed, ledgers' = [ledgers EXCEPT ![attempt] = Append(@, <<>>)]
  PROVE  /\ ledgers' \in [Attempts -> Seq(Seq(Rows))]
         /\ Len(ledgers'[attempt]) = Slot + 1 /\ Slot \in Nat
         /\ ledgers'[attempt][Slot + 1] = <<>>
         /\ \A a \in Attempts : a # attempt => ledgers'[a] = ledgers[a]
         /\ \A s \in 1..Slot : ledgers'[attempt][s] = ledgers[attempt][s]
<1> DEFINE new == Append(ledgers[attempt], <<>>)
<1>1. ledgers[attempt] \in Seq(Seq(Rows)) /\ attempt \in Attempts /\ <<>> \in Seq(Rows)
  BY DEF Typed
<1>2. /\ new \in Seq(Seq(Rows)) /\ Len(new) = Slot + 1 /\ Slot \in Nat
      /\ new[Slot + 1] = <<>>
      /\ \A s \in 1..Slot : new[s] = ledgers[attempt][s]
  BY <1>1, AppendProperties DEF Slot
<1> HIDE DEF new
<1>3. ledgers' = [ledgers EXCEPT ![attempt] = new]
  BY DEF new
<1>4. QED
  BY <1>1, <1>2, <1>3 DEF Typed

-----------------------------------------------------------------------------
(* Which step writes the ledger of an attempt                              *)

LEMMA AppendedIsWritten ==
  ASSUME Typed, Slot \in 1..Len(ledgers[attempt]), NEW row \in Rows, Appended(row)
  PROVE  \E rows \in Seq(Rows) : /\ ledgers' = [ledgers EXCEPT ![attempt][Slot] = rows]
                                 /\ rows = Append(Ledger, row)
<1>1. Ledger \in Seq(Rows)
  BY ElementOfSeq DEF Typed, Ledger
<1>2. Append(Ledger, row) \in Seq(Rows)
  BY <1>1, AppendProperties
<1>3. ledgers' = [ledgers EXCEPT ![attempt][Slot] = Append(Ledger, row)]
  BY DEF Appended, Ledger
<1>4. QED
  BY <1>2, <1>3

LEMMA LedgerWritten ==
  ASSUME Typed, pc \in Running => Slot \in 1..Len(ledgers[attempt]),
         Reject \/ StartLedger \/ Finish \/ Fail
  PROVE  \/ UNCHANGED ledgers
         \/ /\ pc \in Running
            /\ \E rows \in Seq(Rows) : ledgers' = [ledgers EXCEPT ![attempt][Slot] = rows]
<1> USE DEF Running, Deciding, Identified
<1>1. CASE Reject
  <2>1. <<Row("planning"), Row("planning")>> \in Seq(Rows)
    BY RowTyped
  <2>2. QED
    BY <1>1, <2>1 DEF Reject
<1>2. ASSUME NEW kind \in {"start", "satisfied", "failed"}, pc \in Running,
             Appended(Row(kind)) \/ AppendFails(Row(kind))
      PROVE  \/ UNCHANGED ledgers
             \/ \E rows \in Seq(Rows) : ledgers' = [ledgers EXCEPT ![attempt][Slot] = rows]
  <2>1. Row(kind) \in Rows /\ Row("partial") \in Rows
    BY RowTyped
  <2>2. CASE Appended(Row(kind))
    BY <1>2, <2>1, <2>2, AppendedIsWritten
  <2>3. CASE Appended(Row("partial"))
    BY <1>2, <2>1, <2>3, AppendedIsWritten
  <2>4. QED
    BY <1>2, <2>2, <2>3 DEF AppendFails
<1>3. CASE StartLedger
  BY <1>2, <1>3 DEF StartLedger
<1>4. CASE Finish
  BY <1>2, <1>4 DEF Finish
<1>5. CASE Fail
  BY <1>2, <1>5 DEF Fail
<1>6. QED
  BY <1>1, <1>3, <1>4, <1>5

LEMMA StepLedgers ==
  ASSUME Typed, pc \in Running => Slot \in 1..Len(ledgers[attempt]), Next
  PROVE  ledgers' \in [Attempts -> Seq(Seq(Rows))]
<1>1. CASE Begin
  BY <1>1, SlotClaimed DEF Begin, Typed
<1>2. CASE Reject \/ StartLedger \/ Finish \/ Fail
  BY <1>2, LedgerWritten, SlotWritten DEF Typed
<1>3. CASE UNCHANGED ledgers
  BY <1>3 DEF Typed
<1>4. QED
  BY <1>1, <1>2, <1>3 DEF Next, Advance, PlanInput, Identify, Inscribe, CheckHistory, Create,
     Copy, Check, Adapter, Resolve, Up, Kill, Resume, Edit, records

-----------------------------------------------------------------------------
(* Values, the identity and the guest                                      *)

LEMMA GuestValues ==
  /\ NoGuest \in Guests
  /\ \A x \in Contents \cup {"unusable"} :
        [NoGuest EXCEPT !.sample = x] \in Guests /\ [NoGuest EXCEPT !.sample = x].env = "none"
  /\ \A g \in Guests, o \in OverlayKinds :
        LET h == [g EXCEPT !.files[o] = "whole"] IN
        /\ h \in Guests /\ h.env = g.env /\ h.files[o] = "whole"
        /\ \A k \in OverlayKinds : g.files[k] = "whole" => h.files[k] = "whole"
  /\ \A g \in Guests, x \in Contents \cup {"none", "partial"} :
        LET h == [g EXCEPT !.env = x] IN
        h \in Guests /\ h.env = x /\ h.files = g.files
  BY DEF Guests, NoGuest

LEMMA AdapterWrites ==
  ASSUME Typed, Adapter
  PROVE  guest' \in Guests /\ guest'.files = guest.files
<1>1. CASE guest' = guest
  BY <1>1 DEF Typed
<1>2. CASE \E env \in {"none", "partial", plan} : guest' = [guest EXCEPT !.env = env]
  <2>1. PICK env \in Contents \cup {"none", "partial"} : guest' = [guest EXCEPT !.env = env]
    BY <1>2 DEF Typed
  <2>2. QED
    BY <2>1, GuestValues DEF Typed
<1>3. QED
  BY <1>1, <1>2 DEF Adapter

LEMMA StepTyped ==
  ASSUME Typed, pc \in Running => Slot \in 1..Len(ledgers[attempt]), Next
  PROVE  Typed'
<1> USE DEF Typed, host, records, ghosts
<1>1. CASE Begin
  BY GuestValues, <1>1, StepLedgers DEF Begin, Exit
<1>2. CASE PlanInput
  BY <1>2 DEF PlanInput
<1>3. CASE Identify
  BY <1>3 DEF Identify, Matches
<1>4. CASE Inscribe
  BY <1>4 DEF Inscribe
<1>5. CASE CheckHistory
  BY <1>5 DEF CheckHistory
<1>6. CASE Reject
  BY GuestValues, <1>6, StepLedgers DEF Reject, Exit
<1>7. CASE Create
  BY GuestValues, <1>7, Constants DEF Create, Exit
<1>8. CASE Copy
  <2>1. CASE guest' = [guest EXCEPT !.files[Overlays[copied + 1]] = "whole"]
    <3>1. Overlays[copied + 1] \in OverlayKinds
      BY <1>8, OverlaysTyped, ElementOfSeq DEF Copy
    <3>2. guest' \in Guests
      BY <2>1, <3>1, GuestValues
    <3>3. QED
      BY <1>8, <3>2 DEF Copy
  <2>2. CASE guest' = NoGuest
    BY <1>8, <2>2, GuestValues DEF Copy
  <2>3. QED
    BY <1>8, <2>1, <2>2 DEF Copy, Exit
<1>9. CASE Check
  BY GuestValues, <1>9 DEF Check, Exit
<1>10. CASE StartLedger
  BY <1>10, StepLedgers DEF StartLedger, Fails
<1>11. CASE Adapter
  <2>1. guest' \in Guests
    BY <1>11, AdapterWrites DEF Adapter
  <2>2. QED
    BY <1>11, <2>1 DEF Adapter
<1>12. CASE Resolve
  BY <1>12 DEF Resolve, Fails
<1>13. CASE Finish
  BY <1>13, StepLedgers DEF Finish, Fails
<1>14. CASE Fail
  BY GuestValues, <1>14, StepLedgers DEF Fail, Exit
<1>15. CASE Up
  <2>1. attempt' \in Attempts
    BY <1>15, Constants DEF Up, Attempts
  <2>2. guest' \in Guests
    BY <1>15, GuestValues DEF Up, Exit
  <2>3. QED
    BY <1>15, <2>1, <2>2 DEF Up
<1>16. CASE Kill
  BY GuestValues, <1>16 DEF Kill, Waiting
<1>17. CASE Resume
  BY <1>17 DEF Resume, Waiting
<1>18. CASE Edit
  BY <1>18, Constants DEF Edit
<1>19. QED
  BY <1>1, <1>2, <1>3, <1>4, <1>5, <1>6, <1>7, <1>8, <1>9, <1>10, <1>11, <1>12, <1>13, <1>14, <1>15, <1>16, <1>17, <1>18 DEF Next, Advance

LEMMA StepIdentity ==
  ASSUME Typed, IdentityAt, BootsAreEquipped, Next
  PROVE  IdentityAt'
<1> USE DEF Typed, IdentityAt, NeedsInput, Identified, host, records, ghosts
<1>1. CASE Begin
  BY <1>1 DEF Begin, Exit
<1>2. CASE PlanInput
  BY <1>2, Constants DEF PlanInput
<1>3. CASE Identify
  BY <1>3, Constants DEF Identify, Matches
<1>4. CASE Inscribe
  BY <1>4, Constants DEF Inscribe
<1>5. CASE CheckHistory
  BY <1>5 DEF CheckHistory
<1>6. CASE Reject
  BY <1>6 DEF Reject, Exit
<1>7. CASE Create
  BY <1>7 DEF Create, Exit
<1>8. CASE Copy
  BY <1>8 DEF Copy, Exit
<1>9. CASE Check
  BY <1>9 DEF Check, Exit
<1>10. CASE StartLedger
  BY <1>10 DEF StartLedger, Fails
<1>11. CASE Adapter
  BY <1>11 DEF Adapter, Fails, Adapted
<1>12. CASE Resolve
  BY <1>12 DEF Resolve, Fails
<1>13. CASE Finish
  BY <1>13 DEF Finish, Fails
<1>14. CASE Fail
  BY <1>14 DEF Fail, Exit
<1>15. CASE Up
  BY <1>15 DEF Up, Exit
<1>16. CASE Kill
  BY <1>16 DEF Kill, Waiting
<1>17. CASE Resume
  BY <1>17 DEF Resume, Waiting
<1>18. CASE Edit
  BY <1>18 DEF Edit
<1>19. QED
  BY <1>1, <1>2, <1>3, <1>4, <1>5, <1>6, <1>7, <1>8, <1>9, <1>10, <1>11, <1>12, <1>13, <1>14, <1>15, <1>16, <1>17, <1>18 DEF Next, Advance

LEMMA StepGuest ==
  ASSUME Typed, Typed', IdentityAt, GuestAt, Next
  PROVE  GuestAt'
<1> USE DEF Typed, GuestAt, InGuest, Overlaid, Overlays, host, records, ghosts
<1>1. CASE Begin
  BY <1>1, OverlaysTyped DEF Begin, Exit
<1>2. CASE PlanInput
  BY <1>2, OverlaysTyped DEF PlanInput
<1>3. CASE Identify
  BY <1>3, OverlaysTyped DEF Identify, Matches
<1>4. CASE Inscribe
  BY <1>4, OverlaysTyped DEF Inscribe
<1>5. CASE CheckHistory
  BY <1>5, OverlaysTyped DEF CheckHistory
<1>6. CASE Reject
  BY <1>6, OverlaysTyped DEF Reject, Exit
<1>7. CASE Create
  <2>1. CASE pc' = "copy" /\ copied' = 0 /\ guest' = [NoGuest EXCEPT !.sample = sample]
    <3>1. required' = required /\ attempt' = attempt /\ guest'.env = "none"
      BY <1>7, <2>1 DEF Create, NoGuest
    <3>2. Len(Overlays') \in Nat
      BY <3>1, OverlaysTyped
    <3>3. QED
      BY <2>1, <3>1, <3>2
  <2>2. CASE pc' \in {"ended", "raised"}
    BY <2>2
  <2>3. QED
    BY <1>7, <2>1, <2>2 DEF Create, Exit
<1>8. CASE Copy
  <2>1. CASE guest' = [guest EXCEPT !.files[Overlays[copied + 1]] = "whole"] /\ pc' = "check"
    <3>1. \A i \in 1..(copied + 1) : Overlays[i] \in OverlayKinds
      BY <1>8, OverlaysTyped, ElementOfSeq DEF Copy
    <3>2. /\ guest'.env = guest.env
          /\ \A i \in 1..copied : guest'.files[Overlays[i]] = "whole"
      BY <1>8, <2>1, <3>1, GuestValues DEF Copy
    <3>3. QED
      BY <1>8, <2>1, <3>2, OverlaysTyped DEF Copy
  <2>2. CASE pc' \in {"ended", "raised"}
    BY <2>2
  <2>3. QED
    BY <1>8, <2>1, <2>2 DEF Copy, Exit
<1>9. CASE Check
  BY <1>9, OverlaysTyped DEF Check, Exit
<1>10. CASE StartLedger
  BY <1>10, OverlaysTyped DEF StartLedger, Fails
<1>11. CASE Adapter
  <2>1. guest'.files = guest.files /\ (pc' = "config" => guest'.env = plan)
    BY <1>11, AdapterWrites DEF Adapter, Adapted, Fails
  <2>2. pc' \in {"config", "fail"} /\ pc = "adapter"
    BY <1>11 DEF Adapter, Adapted, Fails
  <2>3. required /\ copied = Len(Overlays)
    BY <1>11, <2>2 DEF IdentityAt, NeedsInput
  <2>4. /\ attempt' = attempt /\ copied' = copied /\ required' = required /\ plan' = plan
    BY <1>11 DEF Adapter
  <2>5. QED
    BY <2>1, <2>2, <2>3, <2>4, OverlaysTyped
<1>12. CASE Resolve
  BY <1>12, OverlaysTyped DEF Resolve, Fails
<1>13. CASE Finish
  BY <1>13, OverlaysTyped DEF Finish, Fails
<1>14. CASE Fail
  BY <1>14, OverlaysTyped DEF Fail, Exit
<1>15. CASE Up
  BY <1>15, OverlaysTyped DEF Up, Exit
<1>16. CASE Kill
  BY <1>16, OverlaysTyped DEF Kill, Waiting
<1>17. CASE Resume
  BY <1>17, OverlaysTyped DEF Resume, Waiting
<1>18. CASE Edit
  BY <1>18, OverlaysTyped DEF Edit
<1>19. QED
  BY <1>1, <1>2, <1>3, <1>4, <1>5, <1>6, <1>7, <1>8, <1>9, <1>10, <1>11, <1>12, <1>13, <1>14, <1>15, <1>16, <1>17, <1>18 DEF Next, Advance

LEMMA StepBoots ==
  ASSUME Typed, IdentityAt, GuestAt, BootsAreEquipped, Next
  PROVE  BootsAreEquipped'
<1>1. required' = required
  BY DEF Next, Advance, Begin, PlanInput, Identify, Inscribe, CheckHistory, Reject, Create,
     Copy, Check, StartLedger, Adapter, Resolve, Finish, Fail, Up, Kill, Resume, Edit
<1>2. CASE Up
  <2>1. identity' = identity /\ pc = "up"
        /\ booted' = booted \cup {[attempt |-> attempt, slot |-> Slot, env |-> guest.env,
                                   files |-> guest.files]}
    BY <1>2 DEF Up, records
  <2>2. guest.env = IF required THEN identity ELSE "none"
    BY <2>1 DEF IdentityAt, GuestAt, InGuest, Identified
  <2>3. \A i \in DOMAIN OverlaysOf[attempt] : guest.files[OverlaysOf[attempt][i]] = "whole"
    BY <2>1, OverlaysTyped DEF GuestAt, InGuest, Overlaid, Overlays, Typed
  <2>4. QED
    BY <1>1, <2>1, <2>2, <2>3 DEF BootsAreEquipped
<1>3. CASE Identify \/ Inscribe
  <2>1. booted' = booted /\ (identity' = identity \/ booted = {} \/ ~required)
    BY <1>3, Constants DEF Identify, Inscribe, IdentityAt, ghosts
  <2>2. ~required => identity' = identity
    BY <1>3 DEF Identify, Inscribe, IdentityAt, NeedsInput
  <2>3. QED
    BY <1>1, <2>1, <2>2 DEF BootsAreEquipped
<1>4. CASE UNCHANGED <<booted, identity>>
  BY <1>1, <1>4 DEF BootsAreEquipped
<1>5. QED
  BY <1>2, <1>3, <1>4 DEF Next, Advance, Begin, PlanInput, CheckHistory, Reject, Create,
     Copy, Check, StartLedger, Adapter, Resolve, Finish, Fail, Kill, Resume, Edit, records,
     ghosts

-----------------------------------------------------------------------------
(* The ledgers                                                             *)

LEMMA AppendToOne ==
  ASSUME NEW a, NEW b
  PROVE  Append(<<a>>, b) = <<a, b>>
<1> DEFINE s == Append(<<a>>, b)
           t == <<a, b>>
<1>1. s \in Seq({a, b}) /\ t \in Seq({a, b})
  OBVIOUS
<1>2. Len(s) = 2 /\ Len(t) = 2 /\ s[1] = t[1] /\ s[2] = t[2]
  OBVIOUS
<1> HIDE DEF s, t
<1>3. s = t
  BY <1>1, <1>2, SeqEqual
<1>4. QED
  BY <1>3 DEF s, t

\* A row behind the others of the running slot.
LEMMA RowAppended ==
  ASSUME Typed, Slot \in 1..Len(ledgers[attempt]), attempt' = attempt,
         NEW row \in Rows, Appended(row)
  PROVE  Len(ledgers'[attempt]) = Len(ledgers[attempt]) /\ Slot' = Slot
         /\ Ledger' = Append(Ledger, row)
<1>1. PICK rows \in Seq(Rows) : /\ ledgers' = [ledgers EXCEPT ![attempt][Slot] = rows]
                                /\ rows = Append(Ledger, row)
  BY AppendedIsWritten
<1>2. /\ \A a \in Attempts : Len(ledgers'[a]) = Len(ledgers[a])
      /\ ledgers'[attempt][Slot] = rows
  BY <1>1, SlotWritten
<1>3. Slot' = Slot
  BY <1>2 DEF Slot, Typed
<1>4. QED
  BY <1>1, <1>2, <1>3 DEF Ledger, Typed

LEMMA RowLost ==
  ASSUME Typed, Slot \in 1..Len(ledgers[attempt]), attempt' = attempt,
         NEW row \in Rows, Appended(row) \/ AppendFails(row)
  PROVE  Len(ledgers'[attempt]) = Len(ledgers[attempt]) /\ Slot' = Slot
<1>1. Row("partial") \in Rows
  BY RowTyped
<1>2. QED
  BY <1>1, RowAppended DEF AppendFails, Slot

LEMMA StepLedgerAt ==
  ASSUME Typed, IdentityAt, LedgerAt, Next
  PROVE  LedgerAt'
<1> USE DEF LedgerAt, Running, Deciding, Identified, host, records, ghosts
<1>1. CASE Begin
  <2>1. CASE ledgers' = [ledgers EXCEPT ![attempt] = Append(@, <<>>)] /\ pc' = "plan"
    BY <1>1, <2>1, SlotClaimed DEF Begin, Slot, Ledger
  <2>2. CASE pc' \in {"ended", "raised"}
    BY <2>2
  <2>3. QED
    BY <1>1, <2>1, <2>2 DEF Begin, Exit
<1>2. CASE PlanInput
  BY <1>2 DEF PlanInput, Slot, Ledger, Row
<1>3. CASE Identify
  BY <1>3 DEF Identify, Matches, Slot, Ledger, Row
<1>4. CASE Inscribe
  BY <1>4 DEF Inscribe, Slot, Ledger, Row
<1>5. CASE CheckHistory
  BY <1>5 DEF CheckHistory, Slot, Ledger, Row
<1>6. CASE Reject
  BY <1>6 DEF Reject, Exit
<1>7. CASE Create
  BY <1>7 DEF Create, Exit, Slot, Ledger, Row
<1>8. CASE Copy
  BY <1>8 DEF Copy, Exit, Slot, Ledger, Row
<1>9. CASE Check
  BY <1>9 DEF Check, Exit, Slot, Ledger, Row
<1>10. CASE StartLedger
  <2>1. /\ Slot \in 1..Len(ledgers[attempt]) /\ Ledger = <<>> /\ pc = "copy"
        /\ attempt' = attempt /\ plan' = plan /\ required' = required
        /\ Row("start") \in Rows
    BY <1>10, RowTyped DEF StartLedger
  <2>2. CASE ~required /\ pc' = "up" /\ UNCHANGED <<ledgers, failure>>
    BY <2>1, <2>2 DEF Slot, Ledger
  <2>3. CASE Appended(Row("start")) /\ pc' = "adapter"
    <3>1. Len(ledgers'[attempt]) = Len(ledgers[attempt]) /\ Slot' = Slot
          /\ Ledger' = Append(<<>>, Row("start"))
      BY <2>1, <2>3, RowAppended
    <3>2. QED
      BY <2>1, <2>3, <3>1 DEF Row
  <2>4. CASE AppendFails(Row("start")) /\ pc' = "fail"
    BY <2>1, <2>4, RowLost
  <2>5. QED
    BY <1>10, <2>2, <2>3, <2>4 DEF StartLedger, Fails
<1>11. CASE Adapter
  BY <1>11 DEF Adapter, Fails, Adapted, Slot, Ledger, Row
<1>12. CASE Resolve
  BY <1>12 DEF Resolve, Fails, Slot, Ledger, Row
<1>13. CASE Finish
  <2>1. /\ Slot \in 1..Len(ledgers[attempt]) /\ Ledger = <<Row("start")>> /\ pc = "finish"
        /\ attempt' = attempt /\ plan' = plan /\ required' = required
        /\ Row("start") \in Rows /\ Row("satisfied") \in Rows
    BY <1>13, RowTyped DEF Finish
  <2>2. CASE Appended(Row("satisfied")) /\ pc' = "up"
    <3>1. Len(ledgers'[attempt]) = Len(ledgers[attempt]) /\ Slot' = Slot
          /\ Ledger' = Append(<<Row("start")>>, Row("satisfied"))
      BY <2>1, <2>2, RowAppended
    <3>2. Append(<<Row("start")>>, Row("satisfied")) = <<Row("start"), Row("satisfied")>>
      BY AppendToOne
    <3>3. Row("start")' = Row("start") /\ Row("satisfied")' = Row("satisfied")
      BY <2>1 DEF Row
    <3>4. QED
      BY <2>1, <2>2, <3>1, <3>2, <3>3
  <2>3. CASE AppendFails(Row("satisfied")) /\ pc' = "fail"
    BY <2>1, <2>3, RowLost
  <2>4. QED
    BY <1>13, <2>2, <2>3 DEF Finish, Fails
<1>14. CASE Fail
  BY <1>14 DEF Fail, Exit
<1>15. CASE Up
  BY <1>15 DEF Up, Exit, Slot, Ledger, Row
<1>16. CASE Kill
  BY <1>16 DEF Kill, Waiting, Slot, Ledger, Row
<1>17. CASE Resume
  BY <1>17 DEF Resume, Waiting, Slot, Ledger, Row
<1>18. CASE Edit
  BY <1>18 DEF Edit, Slot, Ledger, Row
<1>19. QED
  BY <1>1, <1>2, <1>3, <1>4, <1>5, <1>6, <1>7, <1>8, <1>9, <1>10, <1>11, <1>12, <1>13, <1>14, <1>15, <1>16, <1>17, <1>18 DEF Next, Advance

-----------------------------------------------------------------------------
(* The slots behind the running one                                        *)

\* A slot that is not the running one keeps its records.
LEMMA OldSlotsStay ==
  ASSUME Typed, LedgerAt, Next, NEW a \in Attempts
  PROVE  /\ Len(ledgers[a]) \in Nat /\ Len(ledgers'[a]) \in Nat
         /\ Len(ledgers[a]) <= Len(ledgers'[a])
         /\ \A s \in 1..Len(ledgers[a]) :
               a # attempt \/ s < Slot \/ pc \notin Running => ledgers'[a][s] = ledgers[a][s]
<1>1. Len(ledgers[a]) \in Nat
  BY DEF Typed
<1>2. CASE UNCHANGED ledgers
  BY <1>1, <1>2
<1>3. CASE ledgers' = [ledgers EXCEPT ![attempt] = Append(@, <<>>)]
  BY <1>1, <1>3, SlotClaimed DEF Slot
<1>4. CASE /\ pc \in Running
           /\ \E rows \in Seq(Rows) : ledgers' = [ledgers EXCEPT ![attempt][Slot] = rows]
  <2>1. PICK rows \in Seq(Rows) : ledgers' = [ledgers EXCEPT ![attempt][Slot] = rows]
    BY <1>4
  <2>2. /\ Len(ledgers'[a]) = Len(ledgers[a])
        /\ \A s \in 1..Len(ledgers[a]) :
              a # attempt \/ s # Slot => ledgers'[a][s] = ledgers[a][s]
    BY <1>4, <2>1, SlotWritten DEF LedgerAt
  <2>3. \A s \in 1..Len(ledgers[a]) : s < Slot => s # Slot
    BY DEF Slot, Typed
  <2>4. QED
    BY <1>1, <1>4, <2>2, <2>3
<1>5. CASE Reject \/ StartLedger \/ Finish \/ Fail
  BY <1>2, <1>4, <1>5, LedgerWritten DEF LedgerAt
<1>6. QED
  BY <1>2, <1>3, <1>5 DEF Next, Advance, Begin, PlanInput, Identify, Inscribe, CheckHistory,
     Create, Copy, Check, Adapter, Resolve, Up, Kill, Resume, Edit, records

\* An attempt that goes on keeps its slot.
LEMMA SlotStays ==
  ASSUME Typed, LedgerAt, Next, pc \in Running, pc' \in Running
  PROVE  attempt' = attempt /\ Slot' = Slot
<1> USE DEF Running, Deciding, Identified
<1>1. attempt' = attempt
  BY DEF Next, Advance, Begin, PlanInput, Identify, Inscribe, CheckHistory, Reject, Create,
     Copy, Check, StartLedger, Adapter, Resolve, Finish, Fail, Up, Kill, Resume, Edit, Exit
<1>2. CASE Reject \/ StartLedger \/ Finish \/ Fail
  BY <1>1, <1>2, LedgerWritten, SlotWritten DEF LedgerAt, Slot, Typed
<1>3. CASE UNCHANGED ledgers
  BY <1>1, <1>3 DEF Slot
<1>4. QED
  BY <1>2, <1>3 DEF Next, Advance, Begin, PlanInput, Identify, Inscribe, CheckHistory,
     Create, Copy, Check, Adapter, Resolve, Up, Kill, Resume, Edit, records

LEMMA StepHistory ==
  ASSUME Typed, LedgerAt, HistoryAt, Next
  PROVE  HistoryAt'
<1> SUFFICES ASSUME (pc \in Identified \ {"history"} /\ required)',
                    NEW s \in 1..(Slot' - 1)
             PROVE  Complete(ledgers[attempt][s], plan)'
  BY DEF HistoryAt
<1>1. /\ pc \in Identified /\ plan' = plan /\ required' = required
      /\ pc = "history" => CheckHistory
      /\ pc = "history" => History
  BY DEF Identified, Next, Advance, Begin, PlanInput, Identify, Inscribe, CheckHistory, Reject,
     Create, Copy, Check, StartLedger, Adapter, Resolve, Finish, Fail, Up, Kill, Resume, Edit,
     Exit, Fails, Adapted
<1>2. attempt' = attempt /\ Slot' = Slot
  BY <1>1, SlotStays DEF Running, Identified
<1>3. s \in 1..(Slot - 1) /\ s < Slot /\ s \in 1..Len(ledgers[attempt]) /\ attempt \in Attempts
  BY <1>2 DEF Slot, Typed
<1>4. Complete(ledgers[attempt][s], plan)
  BY <1>1, <1>2, <1>3 DEF HistoryAt, History
<1>5. ledgers'[attempt'][s] = ledgers[attempt][s]
  BY <1>2, <1>3, OldSlotsStay
<1>6. QED
  BY <1>1, <1>4, <1>5

LEMMA StepBootsAt ==
  ASSUME Typed, LedgerAt, BootsAt, Next
  PROVE  BootsAt'
<1> SUFFICES ASSUME NEW b \in booted'
             PROVE  /\ b.attempt \in 1..attempt'
                    /\ b.slot \in 1..Len(ledgers'[b.attempt])
                    /\ b.attempt = attempt' /\ pc' \in Running => b.slot < Slot'
  BY DEF BootsAt
<1>1. CASE Up
  <2>1. /\ pc = "up" /\ pc' \notin Running /\ ledgers' = ledgers
        /\ attempt' \in {attempt, attempt + 1} /\ attempt \in Nat \ {0}
    BY <1>1, Constants DEF Up, Running, Deciding, Identified, Exit, records, Typed, Attempts
  <2>2. CASE b \in booted
    BY <2>1, <2>2 DEF BootsAt
  <2>3. CASE b = [attempt |-> attempt, slot |-> Slot, env |-> guest.env, files |-> guest.files]
    BY <2>1, <2>3 DEF LedgerAt, Running, Identified
  <2>4. QED
    BY <1>1, <2>2, <2>3 DEF Up
<1>2. CASE ~Up
  <2>1. booted' = booted /\ attempt' = attempt
    BY <1>2 DEF Next, Advance, Begin, PlanInput, Identify, Inscribe, CheckHistory, Reject,
       Create, Copy, Check, StartLedger, Adapter, Resolve, Finish, Fail, Kill, Resume, Edit,
       ghosts
  <2>2. b.attempt \in 1..attempt /\ b.slot \in 1..Len(ledgers[b.attempt])
    BY <2>1 DEF BootsAt
  <2>3. b.attempt \in Attempts
    BY <2>2, Constants DEF Typed, Attempts
  <2>4. b.slot \in 1..Len(ledgers'[b.attempt])
    BY <2>2, <2>3, OldSlotsStay
  <2>5. ASSUME b.attempt = attempt, pc' \in Running
        PROVE  b.slot < Slot'
    <3>1. CASE pc \in Running
      BY <2>1, <2>5, <3>1, SlotStays DEF BootsAt
    <3>2. CASE pc \notin Running
      <4>1. Begin
        BY <2>5, <3>2 DEF Next, Advance, PlanInput, Identify, Inscribe, CheckHistory, Reject,
           Create, Copy, Check, StartLedger, Adapter, Resolve, Finish, Fail, Up, Kill, Resume,
           Edit, Running, Deciding, Identified, Exit, Waiting
      <4>2. ledgers' = [ledgers EXCEPT ![attempt] = Append(@, <<>>)]
        BY <2>5, <4>1 DEF Begin, Exit, Running, Deciding, Identified
      <4>3. Len(ledgers'[attempt]) = Slot + 1
        BY <4>2, SlotClaimed
      <4>4. QED
        BY <2>1, <2>2, <2>5, <4>3 DEF Slot, Typed
    <3>3. QED
      BY <3>1, <3>2
  <2>6. QED
    BY <2>1, <2>2, <2>4, <2>5
<1>3. QED
  BY <1>1, <1>2

LEMMA StepBooted ==
  ASSUME Typed, IdentityAt, GuestAt, LedgerAt, HistoryAt, BootsAt, BootedOverWholeHistory, Next
  PROVE  BootedOverWholeHistory'
<1>1. required' = required
  BY DEF Next, Advance, Begin, PlanInput, Identify, Inscribe, CheckHistory, Reject, Create,
     Copy, Check, StartLedger, Adapter, Resolve, Finish, Fail, Up, Kill, Resume, Edit
<1> SUFFICES ASSUME required, NEW b \in booted'
             PROVE  /\ \A s \in 1..b.slot : Complete(ledgers'[b.attempt][s], b.env)
                    /\ ledgers'[b.attempt][b.slot][2].kind = "satisfied"
  BY <1>1 DEF BootedOverWholeHistory, Complete
<1>2. CASE b \in booted
  <2>1. /\ \A s \in 1..b.slot : Complete(ledgers[b.attempt][s], b.env)
        /\ ledgers[b.attempt][b.slot][2].kind = "satisfied"
    BY <1>2 DEF BootedOverWholeHistory
  <2>2. /\ b.attempt \in Attempts /\ b.slot \in 1..Len(ledgers[b.attempt])
        /\ b.attempt = attempt /\ pc \in Running => b.slot < Slot
    BY <1>2, Constants DEF BootsAt, Typed, Attempts
  <2>3. Len(ledgers[b.attempt]) \in Nat /\ Len(ledgers[attempt]) \in Nat
    BY <2>2 DEF Typed
  <2>4. \A s \in 1..b.slot : ledgers'[b.attempt][s] = ledgers[b.attempt][s]
    <3> TAKE s \in 1..b.slot
    <3>1. s \in 1..Len(ledgers[b.attempt])
      BY <2>2, <2>3
    <3>2. b.attempt # attempt \/ s < Slot \/ pc \notin Running
      BY <2>2, <2>3, <3>1 DEF Slot
    <3>3. QED
      BY <2>2, <3>1, <3>2, OldSlotsStay
  <2>5. QED
    BY <2>1, <2>2, <2>3, <2>4
<1>3. CASE b \notin booted
  <2>1. /\ pc = "up" /\ ledgers' = ledgers
        /\ b = [attempt |-> attempt, slot |-> Slot, env |-> guest.env, files |-> guest.files]
    BY <1>3 DEF Next, Advance, Begin, PlanInput, Identify, Inscribe, CheckHistory, Reject,
       Create, Copy, Check, StartLedger, Adapter, Resolve, Finish, Fail, Up, Kill, Resume,
       Edit, ghosts, records
  <2>2. /\ guest.env = plan /\ Slot \in Nat \ {0}
        /\ Ledger = <<Row("start"), Row("satisfied")>>
        /\ \A s \in 1..(Slot - 1) : Complete(ledgers[attempt][s], plan)
    BY <2>1 DEF GuestAt, LedgerAt, HistoryAt, Running, Identified, Slot, Typed
  <2>3. Complete(Ledger, plan) /\ Ledger[2].kind = "satisfied"
    BY <2>2 DEF Complete, Row
  <2>4. QED
    BY <2>1, <2>2, <2>3 DEF Ledger
<1>4. QED
  BY <1>2, <1>3

-----------------------------------------------------------------------------
(* What a satisfied row is about                                           *)

LEMMA StepHeldAt ==
  ASSUME Typed, LedgerAt, HeldAt, Next
  PROVE  HeldAt'
<1> SUFFICES ASSUME pc' \in {"config", "finish"}
             PROVE  <<attempt', Slot', plan'>> \in held'
  BY DEF HeldAt
<1>1. Adapter \/ Resolve \/ (pc' = pc /\ UNCHANGED <<held, plan>>)
  BY DEF Next, Advance, Begin, PlanInput, Identify, Inscribe, CheckHistory, Reject,
     Create, Copy, Check, StartLedger, Finish, Fail, Up, Kill, Resume, Edit, ghosts, Exit, Fails
<1>2. attempt' = attempt /\ Slot' = Slot
  BY <1>1, SlotStays DEF Running, Identified, Adapter, Resolve
<1>3. CASE Adapter
  BY <1>2, <1>3 DEF Adapter, Adapted, Fails, Slot
<1>4. CASE Resolve \/ (pc' = pc /\ UNCHANGED <<held, plan>>)
  BY <1>2, <1>4 DEF HeldAt, Resolve, ghosts
<1>5. QED
  BY <1>1, <1>3, <1>4

LEMMA HeldGrows ==
  ASSUME Next
  PROVE  held \subseteq held'
  BY DEF Next, Advance, Begin, PlanInput, Identify, Inscribe, CheckHistory, Reject,
     Create, Copy, Check, StartLedger, Adapter, Resolve, Finish, Fail, Up, Kill, Resume, Edit,
     ghosts

Truthful(rows) ==
    \A i \in DOMAIN rows : rows[i].kind = "satisfied" =>
        <<attempt, Slot, rows[i].input>> \in held

\* A ledger that is written truthfully keeps every ledger true.
LEMMA WrittenTruthfully ==
  ASSUME Typed, SatisfiedIsTrue, held \subseteq held', Slot \in 1..Len(ledgers[attempt]),
         NEW rows \in Seq(Rows), Truthful(rows),
         ledgers' = [ledgers EXCEPT ![attempt][Slot] = rows]
  PROVE  SatisfiedIsTrue'
<1> SUFFICES ASSUME NEW a \in Attempts, NEW s \in DOMAIN ledgers'[a],
                    NEW i \in DOMAIN ledgers'[a][s],
                    ledgers'[a][s][i].kind = "satisfied"
             PROVE  <<a, s, ledgers'[a][s][i].input>> \in held'
  BY DEF SatisfiedIsTrue, Attempts
<1>1. /\ ledgers' \in [Attempts -> Seq(Seq(Rows))] /\ Len(ledgers'[a]) = Len(ledgers[a])
      /\ ledgers'[attempt][Slot] = rows
      /\ \A n \in 1..Len(ledgers[a]) : a # attempt \/ n # Slot => ledgers'[a][n] = ledgers[a][n]
  BY SlotWritten
<1>2. s \in 1..Len(ledgers[a]) /\ DOMAIN ledgers[a] = 1..Len(ledgers[a])
  BY <1>1 DEF Typed
<1>3. CASE a = attempt /\ s = Slot
  BY <1>1, <1>3 DEF Truthful
<1>4. CASE a # attempt \/ s # Slot
  BY <1>1, <1>2, <1>4 DEF SatisfiedIsTrue
<1>5. QED
  BY <1>3, <1>4

LEMMA AppendedTruthfully ==
  ASSUME Typed, SatisfiedIsTrue, held \subseteq held', Slot \in 1..Len(ledgers[attempt]),
         NEW row \in Rows, row.kind = "satisfied" => <<attempt, Slot, row.input>> \in held,
         Appended(row)
  PROVE  SatisfiedIsTrue'
<1>1. PICK rows \in Seq(Rows) : /\ ledgers' = [ledgers EXCEPT ![attempt][Slot] = rows]
                                /\ rows = Append(Ledger, row)
  BY AppendedIsWritten
<1>2. Ledger \in Seq(Rows) /\ attempt \in Attempts /\ Slot \in DOMAIN ledgers[attempt]
  BY ElementOfSeq DEF Typed, Ledger
<1>3. Truthful(Ledger)
  BY <1>2 DEF Truthful, SatisfiedIsTrue, Ledger
<1>4. Truthful(rows)
  <2> SUFFICES ASSUME NEW i \in DOMAIN rows, rows[i].kind = "satisfied"
               PROVE  <<attempt, Slot, rows[i].input>> \in held
    BY DEF Truthful
  <2>1. i \in 1..(Len(Ledger) + 1)
    BY <1>1, <1>2, AppendProperties
  <2>2. CASE i \in 1..Len(Ledger)
    BY <1>1, <1>2, <1>3, <2>2, AppendProperties DEF Truthful
  <2>3. CASE i = Len(Ledger) + 1
    <3>1. Append(Ledger, row)[Len(Ledger) + 1] = row
      BY <1>2, AppendProperties
    <3>2. rows[i] = row
      BY <1>1, <2>3, <3>1
    <3>3. QED
      BY <3>2
  <2>4. QED
    BY <1>2, <2>1, <2>2, <2>3
<1>5. QED
  BY <1>1, <1>4, WrittenTruthfully

LEMMA StepSatisfied ==
  ASSUME Typed, LedgerAt, HeldAt, SatisfiedIsTrue, Next
  PROVE  SatisfiedIsTrue'
<1>1. held \subseteq held'
  BY HeldGrows
<1>2. CASE UNCHANGED ledgers
  BY <1>1, <1>2 DEF SatisfiedIsTrue
<1>3. CASE Begin /\ ledgers' = [ledgers EXCEPT ![attempt] = Append(@, <<>>)]
  <2> SUFFICES ASSUME NEW a \in Attempts, NEW s \in DOMAIN ledgers'[a],
                      NEW i \in DOMAIN ledgers'[a][s],
                      ledgers'[a][s][i].kind = "satisfied"
               PROVE  <<a, s, ledgers'[a][s][i].input>> \in held'
    BY DEF SatisfiedIsTrue, Attempts
  <2>1. CASE a # attempt
    BY <1>1, <1>3, <2>1, SlotClaimed DEF SatisfiedIsTrue
  <2>2. CASE a = attempt
    <3>1. /\ ledgers'[a][Slot + 1] = <<>> /\ s \in 1..(Slot + 1) /\ Slot \in Nat
          /\ \A n \in 1..Slot : ledgers'[a][n] = ledgers[a][n]
          /\ DOMAIN ledgers[a] = 1..Slot
      BY <1>3, <2>2, SlotClaimed DEF Typed, Slot
    <3>2. s \in 1..Slot
      BY <3>1
    <3>3. QED
      BY <1>1, <3>1, <3>2 DEF SatisfiedIsTrue
  <2>3. QED
    BY <2>1, <2>2
<1>4. CASE Reject /\ ~UNCHANGED ledgers
  <2>1. /\ ledgers' = [ledgers EXCEPT ![attempt][Slot] = <<Row("planning"), Row("planning")>>]
        /\ Slot \in 1..Len(ledgers[attempt])
        /\ <<Row("planning"), Row("planning")>> \in Seq(Rows)
    BY <1>4, RowTyped DEF Reject, LedgerAt, Running
  <2>2. Truthful(<<Row("planning"), Row("planning")>>)
    BY DEF Truthful, Row
  <2>3. QED
    BY <1>1, <2>1, <2>2, WrittenTruthfully
<1>5. ASSUME NEW kind \in {"start", "satisfied", "failed"}, pc \in Running,
             kind = "satisfied" => pc = "finish",
             Appended(Row(kind)) \/ AppendFails(Row(kind))
      PROVE  SatisfiedIsTrue'
  <2>1. /\ Row(kind) \in Rows /\ Row(kind).kind = kind /\ Row(kind).input = plan
        /\ Row("partial") \in Rows /\ Row("partial").kind = "partial"
        /\ Slot \in 1..Len(ledgers[attempt])
    BY <1>5, RowTyped DEF LedgerAt, Row
  <2>2. kind = "satisfied" => <<attempt, Slot, plan>> \in held
    BY <1>5 DEF HeldAt
  <2>3. CASE Appended(Row(kind))
    BY <1>1, <2>1, <2>2, <2>3, AppendedTruthfully
  <2>4. CASE Appended(Row("partial"))
    BY <1>1, <2>1, <2>4, AppendedTruthfully
  <2>5. QED
    BY <1>2, <1>5, <2>3, <2>4 DEF AppendFails
<1>6. CASE StartLedger
  BY <1>2, <1>5, <1>6 DEF StartLedger, Running, Identified
<1>7. CASE Finish
  BY <1>5, <1>7 DEF Finish, Running, Identified
<1>8. CASE Fail
  BY <1>5, <1>8 DEF Fail, Running
<1>9. QED
  BY <1>2, <1>3, <1>4, <1>6, <1>7, <1>8
     DEF Next, Advance, Begin, PlanInput, Identify, Inscribe, CheckHistory, Create,
     Copy, Check, Adapter, Resolve, Up, Kill, Resume, Edit, records

-----------------------------------------------------------------------------
(* The invariant                                                           *)

IInv == /\ Typed /\ IdentityAt /\ GuestAt /\ LedgerAt /\ HistoryAt /\ BootsAt /\ HeldAt
        /\ BootsAreEquipped /\ BootedOverWholeHistory /\ SatisfiedIsTrue

LEMMA InitIInv == Init => IInv
<1> SUFFICES ASSUME Init PROVE IInv
  OBVIOUS
<1>1. Typed
  BY Constants, GuestValues DEF Init, Typed, Attempts
<1>2. IdentityAt /\ GuestAt /\ HistoryAt /\ HeldAt
  BY DEF Init, IdentityAt, GuestAt, HistoryAt, HeldAt, NeedsInput, Identified, InGuest, Overlaid
<1>3. LedgerAt /\ BootsAt /\ BootsAreEquipped /\ BootedOverWholeHistory
  BY DEF Init, LedgerAt, BootsAt, BootsAreEquipped, BootedOverWholeHistory, Running, Deciding,
     Identified
<1>4. SatisfiedIsTrue
  BY DEF Init, SatisfiedIsTrue
<1>5. QED
  BY <1>1, <1>2, <1>3, <1>4 DEF IInv

LEMMA StutterKeeps ==
  ASSUME IInv, UNCHANGED vars
  PROVE  IInv'
<1> USE DEF vars, host, records, ghosts
<1>1. Typed' /\ IdentityAt' /\ GuestAt'
  BY DEF IInv, Typed, IdentityAt, GuestAt, Overlays
<1>2. LedgerAt' /\ HistoryAt' /\ BootsAt' /\ HeldAt'
  BY DEF IInv, LedgerAt, HistoryAt, BootsAt, HeldAt, Ledger, Slot, Row, Complete
<1>3. BootsAreEquipped' /\ BootedOverWholeHistory' /\ SatisfiedIsTrue'
  BY DEF IInv, BootsAreEquipped, BootedOverWholeHistory, SatisfiedIsTrue, Complete
<1>4. QED
  BY <1>1, <1>2, <1>3 DEF IInv

LEMMA Inductive == Spec => []IInv
<1>1. IInv /\ [Next]_vars => IInv'
  <2> SUFFICES ASSUME IInv, Next PROVE IInv'
    BY StutterKeeps
  <2>1. Typed' /\ IdentityAt' /\ BootsAreEquipped'
    BY StepTyped, StepIdentity, StepBoots DEF IInv, LedgerAt
  <2>2. GuestAt' /\ LedgerAt' /\ HistoryAt' /\ BootsAt' /\ HeldAt'
    BY <2>1, StepGuest, StepLedgerAt, StepHistory, StepBootsAt, StepHeldAt DEF IInv
  <2>3. BootedOverWholeHistory' /\ SatisfiedIsTrue'
    BY StepBooted, StepSatisfied DEF IInv
  <2>4. QED
    BY <2>1, <2>2, <2>3 DEF IInv
<1>2. QED
  BY <1>1, InitIInv, PTL DEF Spec

\* Every boot of a run has the startup input of its identity and its overlays.
THEOREM EveryBootIsEquipped == Spec => []BootsAreEquipped
<1>1. IInv => BootsAreEquipped
  BY DEF IInv
<1>2. QED
  BY <1>1, Inductive, PTL

\* No boot with a startup input goes over an unfinished or torn record.
THEOREM EveryBootHasItsHistory == Spec => []BootedOverWholeHistory
<1>1. IInv => BootedOverWholeHistory
  BY DEF IInv
<1>2. QED
  BY <1>1, Inductive, PTL

\* A ledger says satisfied only of an input that the guest has held.
THEOREM SatisfactionIsTrue == Spec => []SatisfiedIsTrue
<1>1. IInv => SatisfiedIsTrue
  BY DEF IInv
<1>2. QED
  BY <1>1, Inductive, PTL

-----------------------------------------------------------------------------
(* An invocation ends: what is ahead of an attempt                         *)

AttemptsAhead == Len(OverlaysOf) - attempt

\* The steps before an attempt, but for the two of each overlay.
StageAhead(stage) ==
    CASE stage = "idle" -> 11 [] stage = "plan" -> 10 [] stage = "identify" -> 9
      [] stage = "inscribe" -> 8 [] stage = "history" -> 7 [] stage = "create" -> 6
      [] stage = "copy" -> 5 [] stage \in {"check", "adapter"} -> 4
      [] stage = "config" -> 3 [] stage = "finish" -> 2
      [] stage \in {"up", "fail", "reject"} -> 1 [] OTHER -> 0

Uncopied == {"idle", "create", "history"} \cup Deciding
OverlaysAhead ==
    CASE pc \in Uncopied -> Len(Overlays)
      [] pc \in {"copy", "check"} -> Len(Overlays) - copied
      [] OTHER -> 0
StepsAhead == StageAhead(pc) + 2 * OverlaysAhead

Stages == Running \cup Waiting \cup {"idle", "ended"}
SlotsCounted == \A a \in Attempts : Len(ledgers[a]) <= MaxSlots
InputsCounted == pc \in Stages /\ SlotsCounted /\ resumes \in 0..MaxResumes

\* Each step of an attempt is followed by fewer, or is the boot after which the
\* next attempt begins; being killed or edited under adds nothing, and what starts
\* an attempt over is another invocation, which is counted.
InputsGetOn ==
    /\ Advance => \/ StepsAhead' < StepsAhead /\ UNCHANGED AttemptsAhead
                  \/ AttemptsAhead' < AttemptsAhead
    /\ Kill => StepsAhead' < StepsAhead /\ UNCHANGED AttemptsAhead
    /\ Edit => UNCHANGED <<StepsAhead, AttemptsAhead>>
    /\ Resume => resumes' = resumes + 1 /\ UNCHANGED AttemptsAhead

LEMMA AheadIsNat ==
  ASSUME IInv, pc \in Stages
  PROVE  /\ AttemptsAhead \in Nat /\ Len(Overlays) \in Nat
         /\ OverlaysAhead \in Nat /\ StepsAhead \in Nat
<1>1. attempt \in 1..Len(OverlaysOf) /\ Len(OverlaysOf) \in Nat /\ Len(Overlays) \in Nat
  BY Constants, OverlaysTyped DEF IInv, Typed, Attempts
<1>2. pc \in {"copy", "check"} => copied \in 0..Len(Overlays)
  BY DEF IInv, GuestAt, InGuest
<1>3. OverlaysAhead \in Nat
  BY <1>1, <1>2 DEF OverlaysAhead
<1>4. StageAhead(pc) \in Nat
  BY DEF StageAhead
<1>5. AttemptsAhead \in Nat
  BY <1>1 DEF AttemptsAhead
<1>6. QED
  BY <1>1, <1>3, <1>4, <1>5 DEF StepsAhead

\* The stages a step of an attempt leads to, without another overlay copied.
Onward ==
    \/ pc = "idle" /\ pc' \in {"plan", "ended", "raised"}
    \/ pc = "plan" /\ pc' \in {"reject", "identify", "create"}
    \/ pc = "identify" /\ pc' \in {"history", "inscribe", "reject"}
    \/ pc = "inscribe" /\ pc' \in {"history", "reject"}
    \/ pc = "history" /\ pc' \in {"create", "reject"}
    \/ pc \in {"reject", "create", "copy", "check", "fail", "up"} /\ pc' \in {"ended", "raised"}
    \/ pc = "copy" /\ copied < Len(Overlays) /\ pc' = "check"
    \/ pc = "copy" /\ copied = Len(Overlays) /\ pc' \in {"up", "adapter", "fail"}
    \/ pc = "adapter" /\ pc' \in {"config", "fail"}
    \/ pc = "config" /\ pc' \in {"finish", "fail"}
    \/ pc = "finish" /\ pc' \in {"up", "fail"}

LEMMA AdvanceMoves ==
  ASSUME Advance
  PROVE  \/ attempt' = attempt /\ copied' = copied /\ Onward
         \/ attempt' = attempt /\ pc = "create" /\ pc' = "copy" /\ copied' = 0
         \/ attempt' = attempt /\ pc = "check" /\ pc' = "copy" /\ copied' = copied + 1
         \/ /\ pc = "up" /\ pc' = "idle"
            /\ attempt < Len(OverlaysOf) /\ attempt' = attempt + 1
<1> USE DEF Exit, Fails, Onward
<1>1. CASE Begin
  BY <1>1 DEF Begin
<1>2. CASE PlanInput
  BY <1>2 DEF PlanInput
<1>3. CASE Identify \/ Inscribe \/ CheckHistory
  BY <1>3 DEF Identify, Inscribe, CheckHistory
<1>4. CASE Reject \/ Fail
  BY <1>4 DEF Reject, Fail
<1>5. CASE Create
  BY <1>5 DEF Create
<1>6. CASE Copy
  BY <1>6 DEF Copy
<1>7. CASE Check
  BY <1>7 DEF Check
<1>8. CASE StartLedger
  BY <1>8 DEF StartLedger
<1>9. CASE Adapter
  BY <1>9 DEF Adapter, Adapted
<1>10. CASE Resolve
  BY <1>10 DEF Resolve
<1>11. CASE Finish
  BY <1>11 DEF Finish
<1>12. CASE Up
  BY <1>12 DEF Up
<1>13. QED
  BY <1>1, <1>2, <1>3, <1>4, <1>5, <1>6, <1>7, <1>8, <1>9, <1>10, <1>11, <1>12 DEF Advance

LEMMA AdvanceNearer ==
  ASSUME IInv, IInv', pc \in Stages, Advance
  PROVE  \/ StepsAhead' < StepsAhead /\ UNCHANGED AttemptsAhead
         \/ AttemptsAhead' < AttemptsAhead
<1>1. /\ Len(Overlays) \in Nat
      /\ pc \in {"copy", "check"} => copied \in 0..Len(Overlays)
      /\ pc = "check" => copied < Len(Overlays)
  BY AheadIsNat DEF IInv, GuestAt, InGuest
<1>2. CASE attempt' = attempt
  <2> DEFINE n == Len(Overlays)
             k == OverlaysAhead
  <2>1. Len(Overlays') = n /\ AttemptsAhead' = AttemptsAhead
    BY <1>2 DEF Overlays, AttemptsAhead
  <2>2. k \in Nat
    BY AheadIsNat
  <2>3. /\ StageAhead(pc) \in Nat /\ StageAhead(pc') \in Nat
        /\ StepsAhead = StageAhead(pc) + 2 * k
        /\ StepsAhead' = StageAhead(pc') + 2 * OverlaysAhead'
    BY DEF StepsAhead, StageAhead
  <2>4. \/ StageAhead(pc') < StageAhead(pc) /\ OverlaysAhead' \in 0..k
        \/ StageAhead(pc') = StageAhead(pc) + 1 /\ OverlaysAhead' = k - 1 /\ k >= 1
    <3>1. CASE pc = "check" /\ pc' = "copy" /\ copied' = copied + 1
      BY <1>1, <2>1, <3>1 DEF OverlaysAhead, StageAhead, Uncopied, Deciding
    <3>2. CASE pc = "create" /\ pc' = "copy" /\ copied' = 0
      BY <1>1, <2>1, <3>2 DEF OverlaysAhead, StageAhead, Uncopied, Deciding
    <3>3. CASE copied' = copied /\ Onward
      <4>1. StageAhead(pc') < StageAhead(pc)
        BY <3>3 DEF Onward, StageAhead
      <4>2. OverlaysAhead' \in {0, k}
        BY <1>1, <2>1, <3>3 DEF Onward, OverlaysAhead, Uncopied, Deciding
      <4>3. QED
        BY <2>2, <4>1, <4>2
    <3>4. QED
      <4>1. \A a \in Nat : a + 1 # a
        OBVIOUS
      <4>2. attempt' # attempt + 1
        BY <1>2, <4>1 DEF Typed, IInv, Attempts
      <4>3. QED
        BY <3>1, <3>2, <3>3, <4>2, AdvanceMoves
  <2>5. StepsAhead' < StepsAhead
    BY <2>2, <2>3, <2>4
  <2>6. QED
    BY <2>1, <2>5
<1>3. CASE attempt < Len(OverlaysOf) /\ attempt' = attempt + 1
  BY <1>3, Constants DEF AttemptsAhead, IInv, Typed, Attempts
<1>4. QED
  BY <1>2, <1>3, AdvanceMoves

LEMMA OthersAddNothing ==
  ASSUME IInv, IInv', pc \in Stages
  PROVE  /\ Kill => StepsAhead' < StepsAhead /\ UNCHANGED AttemptsAhead
         /\ Edit => UNCHANGED <<StepsAhead, AttemptsAhead>>
         /\ Resume => resumes' = resumes + 1 /\ UNCHANGED AttemptsAhead
<1>1. ASSUME Kill
      PROVE  StepsAhead' < StepsAhead /\ UNCHANGED AttemptsAhead
  <2>1. pc \notin Waiting \cup {"ended"} /\ pc' = "down" /\ attempt' = attempt
    BY <1>1 DEF Kill
  <2>2. StageAhead(pc) >= 1 /\ StageAhead(pc) \in Nat
    BY <2>1 DEF StageAhead, Stages, Running, Deciding, Identified
  <2>3. StepsAhead' = 0
    BY <2>1 DEF StepsAhead, StageAhead, OverlaysAhead, Uncopied, Deciding
  <2>4. StepsAhead >= 1
    BY <2>2, AheadIsNat DEF StepsAhead
  <2>5. QED
    BY <2>1, <2>3, <2>4, AheadIsNat DEF AttemptsAhead
<1>2. Edit => UNCHANGED <<StepsAhead, AttemptsAhead>>
  BY DEF Edit, StepsAhead, AttemptsAhead, OverlaysAhead, Overlays
<1>3. Resume => resumes' = resumes + 1 /\ UNCHANGED AttemptsAhead
  BY DEF Resume, AttemptsAhead
<1>4. QED
  BY <1>1, <1>2, <1>3

LEMMA InputsStayCounted ==
  ASSUME IInv, InputsCounted, [Next]_vars
  PROVE  InputsCounted'
<1>1. /\ ledgers \in [Attempts -> Seq(Seq(Rows))] /\ attempt \in Attempts
      /\ MaxSlots \in Nat /\ MaxResumes \in Nat
      /\ pc \in Running => Slot \in 1..Len(ledgers[attempt])
  BY InputAssumption DEF IInv, Typed, LedgerAt
<1>2. pc' \in Stages
  <2>1. CASE Advance
    BY <2>1, AdvanceMoves DEF Onward, Stages, Running, Deciding, Identified, Waiting
  <2>2. CASE Kill \/ Resume
    BY <2>2 DEF Kill, Resume, Stages, Waiting
  <2>3. CASE Edit \/ UNCHANGED vars
    BY <2>3 DEF Edit, vars, InputsCounted
  <2>4. QED
    BY <2>1, <2>2, <2>3 DEF Next
<1>3. SlotsCounted'
  <2>1. CASE Begin
    <3>1. CASE UNCHANGED ledgers
      BY <3>1 DEF InputsCounted, SlotsCounted
    <3>2. CASE Slot < MaxSlots /\ ledgers' = [ledgers EXCEPT ![attempt] = Append(@, <<>>)]
      <4>1. /\ Len(ledgers'[attempt]) = Slot + 1 /\ Slot \in Nat
            /\ \A a \in Attempts : a # attempt => ledgers'[a] = ledgers[a]
        BY <3>2, SlotClaimed DEF IInv
      <4>2. QED
        BY <1>1, <3>2, <4>1 DEF InputsCounted, SlotsCounted
    <3>3. QED
      BY <2>1, <3>1, <3>2 DEF Begin
  <2>2. CASE Reject \/ StartLedger \/ Finish \/ Fail
    <3>1. \/ UNCHANGED ledgers
          \/ \A a \in Attempts : Len(ledgers'[a]) = Len(ledgers[a])
      BY <1>1, <2>2, LedgerWritten, SlotWritten DEF IInv
    <3>2. QED
      BY <3>1 DEF InputsCounted, SlotsCounted
  <2>3. CASE UNCHANGED ledgers
    BY <2>3 DEF InputsCounted, SlotsCounted
  <2>4. QED
    BY <2>1, <2>2, <2>3 DEF Next, Advance, PlanInput, Identify, Inscribe, CheckHistory, Create,
       Copy, Check, Adapter, Resolve, Up, Kill, Resume, Edit, records, vars
<1>4. resumes' \in 0..MaxResumes
  <2>1. CASE Resume
    <3>1. \A n \in Nat : \A r \in 0..n : r < n => r + 1 \in 0..n
      OBVIOUS
    <3>2. QED
      BY <1>1, <2>1, <3>1 DEF Resume, InputsCounted
  <2>2. CASE UNCHANGED resumes
    BY <2>2 DEF InputsCounted
  <2>3. QED
    BY <2>1, <2>2 DEF Next, Advance, Begin, PlanInput, Identify, Inscribe, CheckHistory, Reject,
       Create, Copy, Check, StartLedger, Adapter, Resolve, Finish, Fail, Up, Kill, Edit, vars
<1>5. QED
  BY <1>2, <1>3, <1>4 DEF InputsCounted

\* No attempt goes over its slots, and every step of an invocation brings it nearer
\* to its end, whatever fails, is edited or is cut off (graph.py and engine.py with
\* startup_inputs.py): what InvocationEnds needs besides fairness.
THEOREM AttemptsGetOn ==
  Spec => /\ [](SlotsCounted /\ AttemptsAhead \in Nat /\ StepsAhead \in Nat)
          /\ [][InputsGetOn]_vars
<1>1. Init => InputsCounted
  BY InputAssumption DEF Init, InputsCounted, Stages, SlotsCounted
<1>2. IInv /\ InputsCounted => SlotsCounted /\ AttemptsAhead \in Nat /\ StepsAhead \in Nat
  BY AheadIsNat DEF InputsCounted
<1>3. IInv /\ IInv' /\ InputsCounted /\ [Next]_vars => [InputsGetOn]_vars
  BY AdvanceNearer, OthersAddNothing DEF InputsGetOn, InputsCounted
<1>4. IInv /\ InputsCounted /\ [Next]_vars => InputsCounted'
  BY InputsStayCounted
<1>5. QED
  BY <1>1, <1>2, <1>3, <1>4, Inductive, PTL DEF Spec

-----------------------------------------------------------------------------
(* The pinned repository                                                   *)

Reading == {"r_check", "r_fsck", "r_clone"}
Filling == {"s_fill", "s_publish"}
Storing == {"s_budget", "s_lock", "s_check"} \cup Filling
Locked == Reading \cup {"s_check"} \cup Filling

PinTyped ==
    /\ entry \in [Keys -> EntryStates] /\ temp \in [Trials -> {"none", "partial", "whole"}]
    /\ extra \in Nat /\ lock \in Trials \cup {NoTrial}
    /\ key \in [Trials -> Keys] /\ exact \in [Trials -> BOOLEAN]
    /\ pinPc \in [Trials -> Points] /\ workspace \in [Trials -> Workspaces]
    /\ tries \in [Trials -> Nat] /\ alive \in [Trials -> BOOLEAN]
    /\ result \in [Trials -> Results]

\* What holds of a trial wherever it waits.  The lock protects what was verified
\* from the other trials and from damage.
TrialAt(t) ==
    /\ pinPc[t] \in Locked => lock = t
    /\ pinPc[t] = "r_clone" => entry[key[t]] = "whole"
    /\ pinPc[t] \in Storing => workspace[t] = "pinned"
    /\ pinPc[t] \in Filling => temp[t] # "none"
    /\ pinPc[t] = "s_publish" => temp[t] = "whole"
    /\ pinPc[t] = "pause" => workspace[t] = "absent"
    /\ alive[t] => pinPc[t] = "done"
    /\ pinPc[t] # "done" => result[t] = "none"
    /\ result[t] = "pinned" => workspace[t] = "pinned"

Filled == {k \in Keys : entry[k] # "absent"}
Temporary == {t \in Trials : temp[t] # "none"}

Bounded == Stored <= MaxEntries

Trialwise == \A t \in Trials : TrialAt(t)

PinIInv == PinTyped /\ Trialwise /\ Bounded

-----------------------------------------------------------------------------
(* Trials                                                                  *)

LEMMA PinStepTyped ==
  ASSUME PinTyped, NEW t \in Trials, TrialAt(t), Step(t) \/ Cancel(t) \/ KillTrial(t)
  PROVE  PinTyped'
<1> USE DEF PinTyped, Goto, Ends, cache, pinning, EntryStates, Points, Workspaces, Results
<1>1. CASE Lookup(t)
  BY <1>1 DEF Lookup, Free, Miss
<1>2. CASE CheckEntry(t)
  BY <1>2 DEF CheckEntry, Accepted, Freed, Miss
<1>3. CASE Verified(t)
  BY <1>3 DEF Verified
<1>4. CASE Restored(t)
  BY <1>4 DEF Restored, Freed
<1>5. CASE RestoreFails(t)
  BY <1>5 DEF RestoreFails, Removed, Freed, Miss
<1>6. CASE Claim(t)
  BY <1>6 DEF Claim
<1>7. CASE Fetched(t)
  BY <1>7 DEF Fetched
<1>8. CASE ResumePin(t)
  BY <1>8 DEF ResumePin
<1>9. CASE PreparationTimeout(t)
  BY <1>9 DEF PreparationTimeout, Removed
<1>10. CASE \E class \in Classes, reaped, ok \in BOOLEAN : FetchFails(t, class, reaped, ok)
  BY <1>10 DEF FetchFails, Removed, Retryable, MayRetry, Classes
<1>11. CASE StoreSkipped(t)
  BY <1>11 DEF StoreSkipped
<1>12. CASE StoreMeasured(t)
  BY <1>12 DEF StoreMeasured
<1>13. CASE StoreLocked(t)
  BY <1>13 DEF StoreLocked, Free
<1>14. CASE StoreCheck(t)
  BY <1>14 DEF StoreCheck, Freed
<1>15. CASE StoreFilled(t)
  BY <1>15 DEF StoreFilled
<1>16. CASE StorePublished(t)
  BY <1>16 DEF StorePublished, Freed, TrialAt
<1>17. CASE StoreFails(t)
  BY <1>17 DEF StoreFails, Freed, Dropped
<1>18. CASE Cancel(t)
  BY <1>18 DEF Cancel, Freed, Dropped, Removed
<1>19. CASE KillTrial(t)
  BY <1>19 DEF KillTrial, Freed
<1>20. QED
  BY <1>1, <1>2, <1>3, <1>4, <1>5, <1>6, <1>7, <1>8, <1>9, <1>10, <1>11, <1>12, <1>13, <1>14, <1>15, <1>16, <1>17, <1>18, <1>19 DEF Step

LEMMA StepOwn ==
  ASSUME PinTyped, NEW t \in Trials, TrialAt(t), Step(t) \/ Cancel(t) \/ KillTrial(t)
  PROVE  TrialAt(t)'
<1> USE DEF PinTyped, TrialAt, Goto, Ends, cache, pinning, Locked, Reading, Storing, Filling
<1>1. CASE Lookup(t)
  BY <1>1 DEF Lookup, Free, Miss
<1>2. CASE CheckEntry(t)
  BY <1>2 DEF CheckEntry, Accepted, Freed, Miss
<1>3. CASE Verified(t)
  BY <1>3 DEF Verified
<1>4. CASE Restored(t)
  BY <1>4 DEF Restored, Freed
<1>5. CASE RestoreFails(t)
  BY <1>5 DEF RestoreFails, Removed, Freed, Miss
<1>6. CASE Claim(t)
  BY <1>6 DEF Claim
<1>7. CASE Fetched(t)
  BY <1>7 DEF Fetched
<1>8. CASE ResumePin(t)
  BY <1>8 DEF ResumePin
<1>9. CASE PreparationTimeout(t)
  BY <1>9 DEF PreparationTimeout, Removed
<1>10. CASE \E class \in Classes, reaped, ok \in BOOLEAN : FetchFails(t, class, reaped, ok)
  BY <1>10 DEF FetchFails, Removed, Retryable, MayRetry, Classes
<1>11. CASE StoreSkipped(t)
  BY <1>11 DEF StoreSkipped
<1>12. CASE StoreMeasured(t)
  BY <1>12 DEF StoreMeasured
<1>13. CASE StoreLocked(t)
  BY <1>13 DEF StoreLocked, Free
<1>14. CASE StoreCheck(t)
  BY <1>14 DEF StoreCheck, Freed
<1>15. CASE StoreFilled(t)
  BY <1>15 DEF StoreFilled
<1>16. CASE StorePublished(t)
  BY <1>16 DEF StorePublished, Freed
<1>17. CASE StoreFails(t)
  BY <1>17 DEF StoreFails, Freed, Dropped
<1>18. CASE Cancel(t)
  BY <1>18 DEF Cancel, Freed, Dropped, Removed
<1>19. CASE KillTrial(t)
  BY <1>19 DEF KillTrial, Freed
<1>20. QED
  BY <1>1, <1>2, <1>3, <1>4, <1>5, <1>6, <1>7, <1>8, <1>9, <1>10, <1>11, <1>12, <1>13, <1>14, <1>15, <1>16, <1>17, <1>18, <1>19 DEF Step

\* A step of one trial leaves what another one relies on.
LEMMA StepOther ==
  ASSUME PinTyped, NEW t \in Trials, TrialAt(t), Step(t) \/ Cancel(t) \/ KillTrial(t),
         NEW u \in Trials, u # t
  PROVE  /\ pinPc'[u] = pinPc[u] /\ workspace'[u] = workspace[u] /\ alive'[u] = alive[u]
         /\ result'[u] = result[u] /\ temp'[u] = temp[u] /\ key'[u] = key[u]
         /\ lock = u => lock' = u /\ entry' = entry
<1> USE DEF PinTyped, TrialAt, Goto, Ends, cache, pinning, Locked, Reading, Filling
<1>1. CASE Lookup(t)
  BY <1>1, TrialAssumption DEF Lookup, Free, Miss
<1>2. CASE CheckEntry(t)
  BY <1>2, TrialAssumption DEF CheckEntry, Accepted, Freed, Miss
<1>3. CASE Verified(t)
  BY <1>3, TrialAssumption DEF Verified
<1>4. CASE Restored(t)
  BY <1>4, TrialAssumption DEF Restored, Freed
<1>5. CASE RestoreFails(t)
  BY <1>5, TrialAssumption DEF RestoreFails, Removed, Freed, Miss
<1>6. CASE Claim(t)
  BY <1>6, TrialAssumption DEF Claim
<1>7. CASE Fetched(t)
  BY <1>7, TrialAssumption DEF Fetched
<1>8. CASE ResumePin(t)
  BY <1>8, TrialAssumption DEF ResumePin
<1>9. CASE PreparationTimeout(t)
  BY <1>9, TrialAssumption DEF PreparationTimeout, Removed
<1>10. CASE \E class \in Classes, reaped, ok \in BOOLEAN : FetchFails(t, class, reaped, ok)
  BY <1>10, TrialAssumption DEF FetchFails, Removed, Retryable, MayRetry
<1>11. CASE StoreSkipped(t)
  BY <1>11, TrialAssumption DEF StoreSkipped
<1>12. CASE StoreMeasured(t)
  BY <1>12, TrialAssumption DEF StoreMeasured
<1>13. CASE StoreLocked(t)
  BY <1>13, TrialAssumption DEF StoreLocked, Free
<1>14. CASE StoreCheck(t)
  BY <1>14, TrialAssumption DEF StoreCheck, Freed
<1>15. CASE StoreFilled(t)
  BY <1>15, TrialAssumption DEF StoreFilled
<1>16. CASE StorePublished(t)
  BY <1>16, TrialAssumption DEF StorePublished, Freed
<1>17. CASE StoreFails(t)
  BY <1>17, TrialAssumption DEF StoreFails, Freed, Dropped
<1>18. CASE Cancel(t)
  BY <1>18, TrialAssumption DEF Cancel, Freed, Dropped, Removed
<1>19. CASE KillTrial(t)
  BY <1>19, TrialAssumption DEF KillTrial, Freed
<1>20. QED
  BY <1>1, <1>2, <1>3, <1>4, <1>5, <1>6, <1>7, <1>8, <1>9, <1>10, <1>11, <1>12, <1>13, <1>14, <1>15, <1>16, <1>17, <1>18, <1>19 DEF Step

LEMMA StepTrialwise ==
  ASSUME PinTyped, Trialwise, NEW t \in Trials, Step(t) \/ Cancel(t) \/ KillTrial(t)
  PROVE  Trialwise'
<1> SUFFICES ASSUME NEW u \in Trials PROVE TrialAt(u)'
  BY DEF Trialwise
<1>1. TrialAt(t) /\ TrialAt(u)
  BY DEF Trialwise
<1>2. CASE u = t
  BY <1>1, <1>2, StepOwn
<1>3. CASE u # t
  <2>1. /\ pinPc'[u] = pinPc[u] /\ workspace'[u] = workspace[u] /\ alive'[u] = alive[u]
        /\ result'[u] = result[u] /\ temp'[u] = temp[u] /\ key'[u] = key[u]
        /\ lock = u => lock' = u /\ entry' = entry
    BY <1>1, <1>3, StepOther
  <2>2. QED
    BY <1>1, <2>1 DEF TrialAt, Locked, Reading
<1>4. QED
  BY <1>2, <1>3

\* Damage reaches an entry only while nobody holds the lock.
LEMMA RotKeeps ==
  ASSUME PinTyped, Trialwise, NEW k \in Keys, Rot(k)
  PROVE  PinTyped' /\ Trialwise'
<1>1. PinTyped'
  BY DEF PinTyped, Rot, EntryStates, pinning
<1>2. ASSUME NEW u \in Trials PROVE TrialAt(u)'
  <2>1. TrialAt(u) /\ lock # u
    BY TrialAssumption DEF Trialwise, Rot
  <2>2. QED
    BY <2>1 DEF TrialAt, Rot, Locked, Reading, pinning
<1>3. QED
  BY <1>1, <1>2 DEF Trialwise

-----------------------------------------------------------------------------
(* The number of entries                                                   *)

LEMMA Finite ==
  /\ IsFiniteSet(Filled) /\ Cardinality(Filled) \in Nat
  /\ IsFiniteSet(Temporary) /\ Cardinality(Temporary) \in Nat
<1>1. Filled \in SUBSET Keys /\ Temporary \in SUBSET Trials
  BY DEF Filled, Temporary
<1>2. QED
  BY <1>1, TrialAssumption, KeyAssumption, FS_Subset, FS_CardinalityType

LEMMA StoredIs == Stored = extra + Cardinality(Filled) + Cardinality(Temporary)
  BY DEF Stored, Filled, Temporary

\* What one trial can do to the two sets.
LEMMA EntriesMove ==
  ASSUME PinTyped, NEW t \in Trials, TrialAt(t), Step(t) \/ Cancel(t) \/ KillTrial(t)
  PROVE  /\ extra' = extra
         /\ \/ Filled' = Filled /\ Temporary' \subseteq Temporary
            \/ /\ Temporary' = Temporary \cup {t} /\ Filled' = Filled
               /\ Stored < MaxEntries
            \/ /\ entry[key[t]] = "shallow" /\ Filled' = Filled \ {key[t]}
               /\ Temporary' = Temporary \cup {t} /\ Stored - 1 < MaxEntries
            \/ Filled' = Filled \ {key[t]} /\ Temporary' = Temporary
            \/ /\ Filled' = Filled \cup {key[t]}
               /\ t \in Temporary /\ Temporary' = Temporary \ {t}
<1> USE DEF PinTyped, Filled, Temporary
<1>1. CASE StoreCheck(t)
  <2>1. /\ extra' = extra /\ key[t] \in Keys /\ pinPc[t] = "s_check"
    BY <1>1 DEF StoreCheck
  <2>2. CASE UNCHANGED <<entry, temp>>
    BY <2>1, <2>2
  <2>3. CASE /\ entry' = [entry EXCEPT ![key[t]] = IF @ = "shallow" THEN "junk" ELSE @]
             /\ UNCHANGED temp
    BY <2>1, <2>3
  <2>4. CASE entry' = [entry EXCEPT ![key[t]] = IF @ = "shallow" THEN "absent" ELSE @]
    <3>1. Filled' = IF entry[key[t]] = "shallow" THEN Filled \ {key[t]} ELSE Filled
      BY <2>1, <2>4
    <3>2. CASE UNCHANGED temp
      BY <2>1, <3>1, <3>2
    <3>3. CASE /\ temp' = [temp EXCEPT ![t] = "partial"]
               /\ Stored - (IF entry[key[t]] = "shallow" THEN 1 ELSE 0) < MaxEntries
      <4>1. Temporary' = Temporary \cup {t}
        BY <3>3
      <4>2. Stored \in Int
        BY Finite, StoredIs
      <4>3. QED
        BY <2>1, <3>1, <3>3, <4>1, <4>2
    <3>4. QED
      BY <1>1, <2>2, <2>3, <2>4, <3>2, <3>3 DEF StoreCheck
  <2>5. QED
    BY <1>1, <2>2, <2>3, <2>4 DEF StoreCheck
<1>2. CASE StoreFilled(t)
  BY <1>2 DEF StoreFilled, TrialAt, Filling
<1>3. CASE StorePublished(t)
  <2>1. /\ extra' = extra /\ temp[t] = "whole" /\ key[t] \in Keys
        /\ entry' = [entry EXCEPT ![key[t]] = "whole"]
        /\ temp' = [temp EXCEPT ![t] = "none"]
    BY <1>3 DEF StorePublished, TrialAt
  <2>2. QED
    BY <2>1
<1>4. CASE StoreFails(t) \/ Cancel(t)
  <2>1. entry' = entry /\ extra' = extra
    BY <1>4 DEF StoreFails, Cancel
  <2>2. temp' = temp \/ (t \in Temporary /\ \E left \in {"none", "partial"} :
                                               temp' = [temp EXCEPT ![t] = left])
    BY <1>4 DEF StoreFails, Cancel, Dropped, TrialAt, Filling
  <2>3. QED
    BY <2>1, <2>2
<1>5. CASE KillTrial(t)
  BY <1>5 DEF KillTrial
<1>6. CASE UNCHANGED <<entry, extra, temp>>
  BY <1>6
<1>7. QED
  BY <1>1, <1>2, <1>3, <1>4, <1>5, <1>6 DEF Step, Lookup, CheckEntry, Verified, Restored,
     RestoreFails, Claim, Fetched, ResumePin, PreparationTimeout, FetchFails, StoreSkipped,
     StoreMeasured, StoreLocked, cache

LEMMA StepBounded ==
  ASSUME PinTyped, Bounded, NEW t \in Trials, TrialAt(t), Step(t) \/ Cancel(t) \/ KillTrial(t)
  PROVE  Bounded'
<1> DEFINE f == Cardinality(Filled)
           g == Cardinality(Temporary)
<1>1. /\ f \in Nat /\ g \in Nat /\ extra \in Nat /\ MaxEntries \in Nat
      /\ Stored = extra + f + g /\ Stored' = extra' + Cardinality(Filled') + Cardinality(Temporary')
      /\ Stored <= MaxEntries
  BY Finite, StoredIs, LimitAssumption DEF PinTyped, Bounded, Stored, Filled, Temporary
<1>2. /\ Cardinality(Filled \ {key[t]}) = IF key[t] \in Filled THEN f - 1 ELSE f
      /\ Cardinality(Filled \cup {key[t]}) = IF key[t] \in Filled THEN f ELSE f + 1
      /\ Cardinality(Temporary \ {t}) = IF t \in Temporary THEN g - 1 ELSE g
      /\ Cardinality(Temporary \cup {t}) = IF t \in Temporary THEN g ELSE g + 1
  BY Finite, FS_AddElement, FS_RemoveElement
<1>3. \A T \in SUBSET Temporary : Cardinality(T) \in Nat /\ Cardinality(T) <= g
  BY Finite, FS_Subset, FS_CardinalityType
<1>4. entry[key[t]] = "shallow" => key[t] \in Filled
  BY DEF Filled, PinTyped
<1>5. /\ extra' = extra
      /\ \/ Filled' = Filled /\ Temporary' \in SUBSET Temporary
         \/ /\ Temporary' = Temporary \cup {t} /\ Filled' = Filled
            /\ Stored < MaxEntries
         \/ /\ entry[key[t]] = "shallow" /\ Filled' = Filled \ {key[t]}
            /\ Temporary' = Temporary \cup {t} /\ Stored - 1 < MaxEntries
         \/ Filled' = Filled \ {key[t]} /\ Temporary' = Temporary
         \/ /\ Filled' = Filled \cup {key[t]}
            /\ t \in Temporary /\ Temporary' = Temporary \ {t}
  BY EntriesMove
<1>6. Stored' <= MaxEntries
  <2>1. CASE Filled' = Filled /\ Temporary' \in SUBSET Temporary
    BY <1>1, <1>3, <1>5, <2>1
  <2>2. CASE /\ Temporary' = Temporary \cup {t} /\ Filled' = Filled /\ Stored < MaxEntries
    BY <1>1, <1>2, <1>5, <2>2
  <2>3. CASE /\ entry[key[t]] = "shallow" /\ Filled' = Filled \ {key[t]}
             /\ Temporary' = Temporary \cup {t} /\ Stored - 1 < MaxEntries
    BY <1>1, <1>2, <1>4, <1>5, <2>3
  <2>4. CASE Filled' = Filled \ {key[t]} /\ Temporary' = Temporary
    BY <1>1, <1>2, <1>5, <2>4
  <2>5. CASE /\ Filled' = Filled \cup {key[t]}
             /\ t \in Temporary /\ Temporary' = Temporary \ {t}
    BY <1>1, <1>2, <1>5, <2>5
  <2>6. QED
    BY <1>5, <2>1, <2>2, <2>3, <2>4, <2>5
<1>7. QED
  BY <1>6 DEF Bounded

-----------------------------------------------------------------------------
LEMMA InitPinIInv == PinInit => PinIInv
<1> SUFFICES ASSUME PinInit PROVE PinIInv
  OBVIOUS
<1>1. PinTyped
  BY LimitAssumption DEF PinInit, PinTyped, Points, Workspaces, Results
<1>2. Trialwise
  BY DEF PinInit, Trialwise, TrialAt, Locked, Reading, Storing, Filling
<1>3. QED
  BY <1>1, <1>2 DEF PinInit, PinIInv, Bounded

LEMMA PinInductive == PinSpec => []PinIInv
<1>1. PinIInv /\ [PinNext]_pinVars => PinIInv'
  <2> SUFFICES ASSUME PinIInv, [PinNext]_pinVars PROVE PinIInv'
    OBVIOUS
  <2>1. CASE UNCHANGED pinVars
    BY <2>1 DEF pinVars, cache, pinning, PinIInv, PinTyped, Trialwise, TrialAt, Bounded, Stored
  <2>2. ASSUME NEW t \in Trials, Step(t) \/ Cancel(t) \/ KillTrial(t)
        PROVE  PinIInv'
    <3>1. TrialAt(t)
      BY DEF PinIInv, Trialwise
    <3>2. QED
      BY <2>2, <3>1, PinStepTyped, StepTrialwise, StepBounded DEF PinIInv
  <2>3. ASSUME NEW k \in Keys, Rot(k)
        PROVE  PinIInv'
    <3>1. Filled' = Filled /\ Temporary' = Temporary /\ extra' = extra
      BY <2>3 DEF Rot, Filled, Temporary, PinIInv, PinTyped
    <3>2. Bounded'
      BY <3>1 DEF Bounded, Stored, Filled, Temporary, PinIInv
    <3>3. QED
      BY <2>3, <3>2, RotKeeps DEF PinIInv
  <2>4. QED
    BY <2>1, <2>2, <2>3 DEF PinNext
<1>2. QED
  BY <1>1, InitPinIInv, PTL DEF PinSpec

\* A pin that succeeds hands out a whole repository.
THEOREM PinsAreWhole == PinSpec => []PinnedIsWhole
<1>1. PinIInv => PinnedIsWhole
  BY DEF PinIInv, Trialwise, TrialAt, PinnedIsWhole
<1>2. QED
  BY <1>1, PinInductive, PTL

\* Trials that store together stay within the limit, one at a time.
THEOREM EntriesAreBounded == PinSpec => []CacheIsBounded
<1>1. PinIInv => CacheIsBounded
  BY DEF PinIInv, Trialwise, TrialAt, CacheIsBounded, Bounded, Locked, Filling
<1>2. QED
  BY <1>1, PinInductive, PTL

\* A network attempt is repeated only when nothing of the last one is left.
THEOREM RetriesAreAlone == PinSpec => []RetryIsAlone
<1>1. PinIInv => RetryIsAlone
  BY DEF PinIInv, Trialwise, TrialAt, RetryIsAlone
<1>2. QED
  BY <1>1, PinInductive, PTL

-----------------------------------------------------------------------------
(* A pin ends: its distance from the end                                   *)

Seeking == {"start", "claim", "fetch", "pause"} \cup Reading

\* The longest way from each point when no attempt is left; an attempt that may
\* still be made adds the way around its claim, its fetch and its pause.
Way(point) ==
    CASE point = "start" -> 8 [] point = "r_check" -> 7 [] point = "r_fsck" -> 6
      [] point = "r_clone" -> 5 [] point = "claim" -> 4 [] point = "fetch" -> 6
      [] point = "pause" -> 5 [] point = "s_budget" -> 5 [] point = "s_lock" -> 4
      [] point = "s_check" -> 3 [] point = "s_fill" -> 2 [] point = "s_publish" -> 1
      [] point = "done" -> 0
AttemptsLeft(t) == IF tries[t] <= MaxAttempts THEN 1 + MaxAttempts - tries[t] ELSE 0
Distance(t) == Way(pinPc[t]) + IF pinPc[t] \in Seeking THEN 3 * AttemptsLeft(t) ELSE 0

\* Before a claim there is an attempt left.
AttemptsCounted ==
    \A t \in Trials : pinPc[t] \in Seeking \ {"fetch"} => tries[t] <= MaxAttempts

\* Each step of a trial brings it nearer to its end, and nothing that others do
\* takes it away again.
PinGetsOn == \A t \in Trials : /\ Distance(t)' <= Distance(t)
                               /\ Step(t) => Distance(t)' < Distance(t)

\* The points a step of a trial leads to.
LEMMA StepMoves ==
  ASSUME PinTyped, NEW t \in Trials, Step(t)
  PROVE  LET p == pinPc[t]
             q == pinPc'[t]
         IN \/ /\ tries' = tries
               /\ \/ p = "start" /\ q \in {"r_check", "claim"}
                  \/ p = "r_check" /\ q \in {"r_fsck", "claim"}
                  \/ p = "r_fsck" /\ q \in {"r_clone", "claim"}
                  \/ p = "r_clone" /\ q \in {"claim", "done"}
                  \/ p = "claim" /\ q = "done"
                  \/ p = "fetch" /\ q \in {"s_budget", "done"}
                  \/ p = "fetch" /\ q = "pause" /\ tries[t] < MaxAttempts
                  \/ p = "pause" /\ q \in {"claim", "done"}
                  \/ p = "s_budget" /\ q \in {"s_lock", "done"}
                  \/ p = "s_lock" /\ q \in {"s_check", "done"}
                  \/ p = "s_check" /\ q \in {"s_fill", "done"}
                  \/ p = "s_fill" /\ q \in {"s_publish", "done"}
                  \/ p = "s_publish" /\ q = "done"
            \/ /\ p = "claim" /\ q = "fetch"
               /\ tries' = [tries EXCEPT ![t] = @ + 1]
<1> USE DEF PinTyped, Goto, Ends, Miss, pinning, Points
<1>1. CASE Lookup(t)
  BY <1>1 DEF Lookup
<1>2. CASE CheckEntry(t)
  BY <1>2 DEF CheckEntry
<1>3. CASE Verified(t)
  BY <1>3 DEF Verified
<1>4. CASE Restored(t)
  BY <1>4 DEF Restored
<1>5. CASE RestoreFails(t)
  BY <1>5 DEF RestoreFails
<1>6. CASE Claim(t)
  BY <1>6 DEF Claim
<1>7. CASE Fetched(t)
  BY <1>7 DEF Fetched
<1>8. CASE ResumePin(t)
  BY <1>8 DEF ResumePin
<1>9. CASE PreparationTimeout(t)
  BY <1>9 DEF PreparationTimeout
<1>10. CASE \E class \in Classes, reaped, ok \in BOOLEAN : FetchFails(t, class, reaped, ok)
  BY <1>10 DEF FetchFails, MayRetry
<1>11. CASE StoreSkipped(t)
  BY <1>11 DEF StoreSkipped
<1>12. CASE StoreMeasured(t)
  BY <1>12 DEF StoreMeasured
<1>13. CASE StoreLocked(t)
  BY <1>13 DEF StoreLocked
<1>14. CASE StoreCheck(t)
  BY <1>14 DEF StoreCheck
<1>15. CASE StoreFilled(t)
  BY <1>15 DEF StoreFilled
<1>16. CASE StorePublished(t)
  BY <1>16 DEF StorePublished
<1>17. CASE StoreFails(t)
  BY <1>17 DEF StoreFails
<1>18. QED
  BY <1>1, <1>2, <1>3, <1>4, <1>5, <1>6, <1>7, <1>8, <1>9, <1>10, <1>11, <1>12, <1>13, <1>14, <1>15, <1>16, <1>17 DEF Step

\* A trial is left alone by the steps of the others, and one that is cancelled or
\* killed has ended.
LEMMA OthersMove ==
  ASSUME PinTyped, NEW t \in Trials, NEW u \in Trials, u # t,
         Step(u) \/ Cancel(u) \/ KillTrial(u)
  PROVE  pinPc'[t] = pinPc[t] /\ tries'[t] = tries[t]
<1>1. CASE Step(u)
  BY <1>1 DEF PinTyped, Step, Goto, Ends, Miss, pinning, Lookup, CheckEntry, Verified,
     Restored, RestoreFails, Claim, Fetched, ResumePin, PreparationTimeout, FetchFails,
     StoreSkipped, StoreMeasured, StoreLocked, StoreCheck, StoreFilled, StorePublished,
     StoreFails
<1>2. CASE Cancel(u) \/ KillTrial(u)
  BY <1>2 DEF PinTyped, Goto, Ends, pinning, Cancel, KillTrial
<1> QED BY <1>1, <1>2

LEMMA WayIsNat == \A p \in Points : Way(p) \in Nat
  BY DEF Points, Way

LEMMA DistanceIsNat ==
  ASSUME NEW p \in Points, NEW n \in Nat
  PROVE  /\ Way(p) \in Nat
         /\ (IF n <= MaxAttempts THEN 1 + MaxAttempts - n ELSE 0) \in Nat
  BY WayIsNat, LimitAssumption

LEMMA NearerByStep ==
  ASSUME PinTyped, PinTyped', AttemptsCounted, NEW t \in Trials, Step(t)
  PROVE  Distance(t)' < Distance(t)
<1>1. /\ tries[t] \in Nat /\ MaxAttempts \in Nat
      /\ pinPc[t] \in Seeking \ {"fetch"} => tries[t] <= MaxAttempts
  BY LimitAssumption DEF PinTyped, AttemptsCounted
<1>2. CASE tries' = tries
  <2> DEFINE p == pinPc[t]
             q == pinPc'[t]
             left == AttemptsLeft(t)
  <2>1. AttemptsLeft(t)' = left /\ left \in Nat
    BY <1>1, <1>2 DEF AttemptsLeft
  <2>2. /\ Distance(t) = Way(p) + IF p \in Seeking THEN 3 * left ELSE 0
        /\ Distance(t)' = Way(q) + IF q \in Seeking THEN 3 * left ELSE 0
    BY <2>1 DEF Distance
  <2>3. /\ tries[t] < MaxAttempts => left >= 1
        /\ p = "claim" => left >= 1
    BY <1>1 DEF AttemptsLeft, Seeking
  <2> HIDE DEF left
  <2>4. \/ p = "start" /\ q \in {"r_check", "claim"}
        \/ p = "r_check" /\ q \in {"r_fsck", "claim"}
        \/ p = "r_fsck" /\ q \in {"r_clone", "claim"}
        \/ p = "r_clone" /\ q \in {"claim", "done"}
        \/ p = "claim" /\ q = "done"
        \/ p = "fetch" /\ q \in {"s_budget", "done"}
        \/ p = "fetch" /\ q = "pause" /\ tries[t] < MaxAttempts
        \/ p = "pause" /\ q \in {"claim", "done"}
        \/ p = "s_budget" /\ q \in {"s_lock", "done"}
        \/ p = "s_lock" /\ q \in {"s_check", "done"}
        \/ p = "s_check" /\ q \in {"s_fill", "done"}
        \/ p = "s_fill" /\ q \in {"s_publish", "done"}
        \/ p = "s_publish" /\ q = "done"
    <3>1. tries'[t] # tries[t] + 1
      BY <1>1, <1>2
    <3> QED BY <1>2, <3>1, StepMoves DEF PinTyped
  <2>5. /\ Way(p) + (IF p \in Seeking THEN 3 * left ELSE 0) \in Nat
        /\ Way(q) < Way(p) \/ (p = "fetch" /\ q = "pause")
        /\ q \in Seeking => p \in Seeking
    BY <2>1, <2>4 DEF Way, Seeking, Reading
  <2> QED BY <2>1, <2>2, <2>4, <2>5 DEF Way, Seeking, Reading
<1>3. CASE /\ pinPc[t] = "claim" /\ pinPc'[t] = "fetch"
           /\ tries' = [tries EXCEPT ![t] = @ + 1]
  <2>1. tries'[t] = tries[t] + 1 /\ tries[t] <= MaxAttempts
    BY <1>1, <1>3 DEF PinTyped, Seeking
  <2>2. /\ AttemptsLeft(t)' = AttemptsLeft(t) - 1
        /\ AttemptsLeft(t) \in Nat /\ AttemptsLeft(t) >= 1
    BY <1>1, <2>1 DEF AttemptsLeft
  <2> QED BY <1>3, <2>2 DEF Distance, Way, Seeking
<1> QED BY <1>2, <1>3, StepMoves

LEMMA NearerInAll ==
  ASSUME PinTyped, PinTyped', AttemptsCounted, [PinNext]_pinVars
  PROVE  PinGetsOn
<1> SUFFICES ASSUME NEW t \in Trials
             PROVE  Distance(t)' <= Distance(t) /\ (Step(t) => Distance(t)' < Distance(t))
  BY DEF PinGetsOn
<1>1. Distance(t) \in Nat /\ Distance(t)' \in Nat
  <2>1. /\ pinPc[t] \in Points /\ tries[t] \in Nat
        /\ pinPc'[t] \in Points /\ tries'[t] \in Nat
    BY DEF PinTyped
  <2>2. /\ Way(pinPc[t]) \in Nat /\ AttemptsLeft(t) \in Nat
        /\ Way(pinPc'[t]) \in Nat /\ AttemptsLeft(t)' \in Nat
    BY <2>1, DistanceIsNat DEF AttemptsLeft
  <2> QED BY <2>2 DEF Distance
<1>2. Step(t) => Distance(t)' < Distance(t)
  BY NearerByStep
<1>3. CASE pinPc'[t] = pinPc[t] /\ tries'[t] = tries[t]
  BY <1>1, <1>2, <1>3 DEF Distance, AttemptsLeft
<1>4. CASE Cancel(t) \/ KillTrial(t)
  <2>1. pinPc'[t] = "done"
    BY <1>4 DEF Cancel, KillTrial, Ends, Goto, PinTyped
  <2>2. Distance(t)' = 0
    BY <2>1 DEF Distance, Way, Seeking, Reading
  <2> QED BY <1>1, <1>2, <2>2
<1>5. CASE Step(t)
  BY <1>1, <1>2, <1>5
<1>6. CASE UNCHANGED pinVars \/ \E k \in Keys : Rot(k)
  BY <1>3, <1>6 DEF pinVars, pinning, Rot
<1>7. CASE \E u \in Trials \ {t} : Step(u) \/ Cancel(u) \/ KillTrial(u)
  BY <1>3, <1>7, OthersMove
<1> QED BY <1>4, <1>5, <1>6, <1>7 DEF PinNext

LEMMA AttemptsStayCounted ==
  ASSUME PinTyped, AttemptsCounted, [PinNext]_pinVars
  PROVE  AttemptsCounted'
<1> SUFFICES ASSUME NEW t \in Trials, pinPc'[t] \in Seeking \ {"fetch"}
             PROVE  tries'[t] <= MaxAttempts
  BY DEF AttemptsCounted
<1>1. tries[t] \in Nat /\ MaxAttempts \in Nat
  BY LimitAssumption DEF PinTyped
<1>2. CASE pinPc'[t] = pinPc[t] /\ tries'[t] = tries[t]
  BY <1>2 DEF AttemptsCounted
<1>3. CASE Step(t)
  BY <1>1, <1>3, StepMoves DEF AttemptsCounted, Seeking, Reading
<1>4. CASE Cancel(t) \/ KillTrial(t)
  BY <1>4 DEF Cancel, KillTrial, Ends, Goto, PinTyped, Seeking, Reading
<1>5. CASE UNCHANGED pinVars \/ \E k \in Keys : Rot(k)
  BY <1>2, <1>5 DEF pinVars, pinning, Rot
<1>6. CASE \E u \in Trials \ {t} : Step(u) \/ Cancel(u) \/ KillTrial(u)
  BY <1>2, <1>6, OthersMove
<1> QED BY <1>3, <1>4, <1>5, <1>6 DEF PinNext

\* Whatever the cache, the network, the other trials and the signals do, each step
\* of a pin brings it nearer to its end: what PinEnds needs besides fairness
\* (repository_cache.py, github.py with its bounded attempts).
THEOREM PinsGetOn == PinSpec => [][PinGetsOn]_pinVars
<1>1. PinInit => AttemptsCounted
  BY LimitAssumption DEF PinInit, AttemptsCounted
<1>2. PinIInv => PinTyped
  BY DEF PinIInv
<1>3. PinTyped /\ AttemptsCounted /\ [PinNext]_pinVars => AttemptsCounted'
  BY AttemptsStayCounted
<1>4. PinTyped /\ PinTyped' /\ AttemptsCounted /\ [PinNext]_pinVars => [PinGetsOn]_pinVars
  BY NearerInAll
<1> QED BY <1>1, <1>2, <1>3, <1>4, PinInductive, PTL DEF PinSpec
=============================================================================
