------------------------ MODULE HardeningLoopProofs ------------------------
(***************************************************************************)
(* TLAPS proofs about HardeningLoop, for any findings, services and        *)
(* baselines.                                                              *)
(***************************************************************************)
EXTENDS HardeningLoop, SequenceTheorems, FiniteSetTheorems, WellFoundedInduction, TLAPS

-----------------------------------------------------------------------------
(* The order of the candidates                                             *)

LEMMA LeastNumber ==
  ASSUME NEW T \in SUBSET Nat, T # {}
  PROVE  \E x \in T : \A y \in T : x <= y
<1> DEFINE R == OpToRel(<, Nat)
<1>1. IsWellFoundedOn(R, Nat)
  BY NatLessThanWellFounded
<1>2. \A x, y \in Nat : y < x => <<y, x>> \in R
  BY DEF OpToRel
<1> HIDE DEF R
<1>3. PICK x \in T : \A y \in T : ~ (<<y, x>> \in R)
  BY <1>1, WFMin
<1>4. \A y \in T : x <= y
  <2> SUFFICES ASSUME NEW y \in T PROVE x <= y
    OBVIOUS
  <2>1. x \in Nat /\ y \in Nat
    OBVIOUS
  <2>2. ~ (y < x)
    BY <1>2, <1>3, <2>1
  <2>3. QED
    BY <2>1, <2>2
<1>5. QED
  BY <1>4

Ranked == {Priority[i] : i \in DOMAIN Priority}

LEMMA RankIsOne ==
  /\ \A type \in Ranked : RankOf(type) \in 1..6 /\ Priority[RankOf(type)] = type
  /\ "add_tmpfs" \notin Ranked /\ "set_read_only" \in Ranked
<1>1. DOMAIN Priority = 1..6
  BY DEF Priority
<1>2. ASSUME NEW type \in Ranked
      PROVE  RankOf(type) \in 1..6 /\ Priority[RankOf(type)] = type
  <2>1. \E i \in DOMAIN Priority : Priority[i] = type
    BY DEF Ranked
  <2>2. QED
    BY <1>1, <2>1 DEF RankOf
<1>3. "add_tmpfs" \notin Ranked
  BY <1>1 DEF Ranked, Priority
<1>4. "set_read_only" \in Ranked
  <2>1. Priority[5] = "set_read_only"
    BY DEF Priority
  <2>2. QED
    BY <1>1, <2>1 DEF Ranked
<1>5. QED
  BY <1>2, <1>3, <1>4

\* The changes that findings ask for.
Asked == {ChangeOf(f) : f \in {f \in Findings : f.kind \in DOMAIN MutationOf}}

LEMMA AskedTyped ==
  \A c \in Asked : /\ c = <<c[1], c[2]>> /\ c[1] \in Ranked /\ c[2] \in Services
                   /\ c[2] \in Nat
<1> SUFFICES ASSUME NEW f \in Findings, f.kind \in DOMAIN MutationOf
             PROVE  /\ MutationOf[f.kind] \in Ranked /\ f.service \in Services
                    /\ f.service \in Nat
  BY DEF Asked, ChangeOf
<1>1. f.kind \in {"privileged", "docker_socket_rw", "root_user", "root_user_possible",
                  "cap_add", "writable_rootfs", "host_network"}
  BY DEF MutationOf
<1>2. MutationOf[f.kind] \in {"drop_privileged", "remove_docker_socket", "set_non_root",
              "drop_all_caps", "set_read_only", "bridge_network"}
  BY <1>1 DEF MutationOf
<1>3. \A i \in 1..6 : Priority[i] \in Ranked
  BY DEF Ranked, Priority
<1>4. QED
  BY <1>2, <1>3, PolicyAssumption DEF Services, Priority

LEMMA SeverityIsNumber ==
  ASSUME NEW c \in Asked
  PROVE  Severity(c) \in 0..100
<1> DEFINE S == {f.severity : f \in {f \in Findings :
                    f.kind \in DOMAIN MutationOf /\ ChangeOf(f) = c}}
<1>1. S \subseteq 0..100 /\ S # {}
  BY PolicyAssumption DEF Asked
<1>2. {100 - s : s \in S} \in SUBSET Nat /\ {100 - s : s \in S} # {}
  BY <1>1
<1>3. PICK x \in {100 - s : s \in S} : \A y \in {100 - s : s \in S} : x <= y
  BY <1>2, LeastNumber
<1>4. PICK m \in S : x = 100 - m
  BY <1>3
<1>5. \A s \in S : 100 - m <= 100 - s
  BY <1>3, <1>4
<1>6. \A s \in S : m >= s
  <2> SUFFICES ASSUME NEW s \in S PROVE m >= s
    OBVIOUS
  <2>1. m \in 0..100 /\ s \in 0..100 /\ 100 - m <= 100 - s
    BY <1>1, <1>5
  <2> HIDE DEF S
  <2>2. QED
    BY <2>1
<1>7. \E z \in S : \A s \in S : z >= s
  BY <1>6
<1> HIDE DEF S
<1>8. Max(S) \in S
  BY <1>7 DEF Max
<1>9. QED
  BY <1>1, <1>8 DEF Severity, S

\* The sort key of propose_mutation picks one candidate, before all others.
LEMMA FirstPrecedes ==
  ASSUME NEW C \in SUBSET Asked, C # {}
  PROVE  First(C) \in C /\ \A d \in C \ {First(C)} : Precedes(First(C), d)
<1>1. \A c \in C : /\ c = <<c[1], c[2]>> /\ c[2] \in Nat
                   /\ RankOf(c[1]) \in 1..6 /\ Priority[RankOf(c[1])] = c[1]
                   /\ Severity(c) \in 0..100
  BY AskedTyped, RankIsOne, SeverityIsNumber
<1>2. PICK r \in {RankOf(c[1]) : c \in C} : \A y \in {RankOf(c[1]) : c \in C} : r <= y
  <2>1. {RankOf(c[1]) : c \in C} \in SUBSET Nat /\ {RankOf(c[1]) : c \in C} # {}
    BY <1>1
  <2>2. QED
    BY <2>1, LeastNumber
<1> DEFINE D == {c \in C : RankOf(c[1]) = r}
<1>3. PICK v \in {100 - Severity(c) : c \in D} : \A y \in {100 - Severity(c) : c \in D} : v <= y
  <2>1. {100 - Severity(c) : c \in D} \in SUBSET Nat /\ {100 - Severity(c) : c \in D} # {}
    BY <1>1, <1>2
  <2>2. QED
    BY <2>1, LeastNumber
<1> DEFINE E == {c \in D : 100 - Severity(c) = v}
<1>4. PICK s \in {c[2] : c \in E} : \A y \in {c[2] : c \in E} : s <= y
  <2>1. {c[2] : c \in E} \in SUBSET Nat /\ {c[2] : c \in E} # {}
    BY <1>1, <1>3
  <2>2. QED
    BY <2>1, LeastNumber
<1>5. PICK a \in E : a[2] = s
  BY <1>4
<1>6. ASSUME NEW d \in C \ {a}
      PROVE  Precedes(a, d)
  <2>1. /\ a \in C /\ RankOf(a[1]) = r /\ 100 - Severity(a) = v
        /\ r <= RankOf(d[1])
    BY <1>2, <1>5
  <2>2. CASE RankOf(d[1]) # r
    <3>1. RankOf(a[1]) < RankOf(d[1])
      BY <1>1, <2>1, <2>2
    <3>2. QED
      BY <3>1 DEF Precedes
  <2>3. CASE d \in D /\ Severity(d) # Severity(a)
    <3>1. v <= 100 - Severity(d)
      BY <1>3, <2>3
    <3>2. Severity(a) \in 0..100 /\ Severity(d) \in 0..100
      BY <1>1, <2>1
    <3>3. Severity(a) > Severity(d)
      BY <2>1, <2>3, <3>1, <3>2
    <3>4. QED
      BY <2>1, <2>3, <3>3 DEF Precedes
  <2>4. CASE d \in D /\ Severity(d) = Severity(a)
    <3>1. d \in E
      BY <2>1, <2>4
    <3>2. a[2] <= d[2]
      BY <1>4, <1>5, <3>1
    <3>3. a[1] = d[1]
      BY <1>1, <2>1, <2>4
    <3>4. a[2] # d[2]
      BY <1>1, <2>1, <3>3
    <3>5. a[2] < d[2]
      BY <1>1, <2>1, <3>2, <3>4
    <3>6. QED
      BY <2>1, <2>4, <3>5 DEF Precedes
  <2>5. QED
    BY <2>2, <2>3, <2>4
<1>7. a \in C
  BY <1>5
<1> HIDE DEF D, E
<1>8. \E c \in C : \A d \in C \ {c} : Precedes(c, d)
  BY <1>6, <1>7
<1>9. QED
  BY <1>8 DEF First

-----------------------------------------------------------------------------
(* The outcomes of a candidate                                             *)

Ends3 == {"keep", "rollback", "stop"}

\* What decide_candidate says of a booted candidate, and when it says keep.
LEMMA DecisionTyped ==
  ASSUME NEW boot \in Verdicts, NEW js \in Seq(Verdicts), NEW n \in Nat
  PROVE  /\ DecideCandidate(boot, js, n) \in Ends3 \cup {"none"}
         /\ DecideCandidate(boot, js, n) = "keep" =>
              boot = "pass" /\ Len(js) = n /\ \A i \in DOMAIN js : js[i] = "pass"
<1> DEFINE bad == {i \in DOMAIN js : js[i] # "pass"}
<1>1. CASE boot = "fail"
  BY <1>1 DEF DecideCandidate, Ends3
<1>2. CASE boot = "unsupported"
  BY <1>2 DEF DecideCandidate, Ends3
<1>3. CASE boot = "pass" /\ n = 0
  BY <1>3 DEF DecideCandidate, Ends3
<1>4. CASE boot = "pass" /\ n # 0
  <2>1. DecideCandidate(boot, js, n) =
          IF bad # {} THEN IF js[Min(bad)] = "fail" THEN "rollback" ELSE "stop"
          ELSE IF Len(js) = n THEN "keep" ELSE "none"
    BY <1>4 DEF DecideCandidate
  <2>2. QED
    BY <1>4, <2>1 DEF Ends3
<1>5. QED
  BY <1>1, <1>2, <1>3, <1>4 DEF Verdicts

LEMMA OutcomeTyped ==
  ASSUME NEW n \in Nat, NEW o \in CandidateOutcomes(n)
  PROVE  /\ o.boot \in Verdicts /\ o.journeys \in Seq(Verdicts) /\ o.observed \in BOOLEAN
         /\ o.verdict \in Ends3
         /\ o.verdict = "keep" => /\ o.boot = "pass" /\ Len(o.journeys) = n
                                  /\ \A i \in DOMAIN o.journeys : o.journeys[i] = "pass"
<1>1. CASE \E boot \in {v \in Verdicts : DecideCandidate(v, <<>>, n) # "none"} :
             o = [boot |-> boot, journeys |-> <<>>, observed |-> FALSE,
                  verdict |-> DecideCandidate(boot, <<>>, n)]
  <2>1. PICK boot \in Verdicts :
             /\ DecideCandidate(boot, <<>>, n) # "none"
             /\ o = [boot |-> boot, journeys |-> <<>>, observed |-> FALSE,
                     verdict |-> DecideCandidate(boot, <<>>, n)]
    BY <1>1
  <2>2. <<>> \in Seq(Verdicts)
    OBVIOUS
  <2>3. /\ DecideCandidate(boot, <<>>, n) \in Ends3 \cup {"none"}
        /\ DecideCandidate(boot, <<>>, n) = "keep" =>
             boot = "pass" /\ Len(<<>>) = n /\ \A i \in DOMAIN <<>> : <<>>[i] = "pass"
    BY <2>2, DecisionTyped
  <2>4. /\ o.boot = boot /\ o.journeys = <<>> /\ o.observed = FALSE
        /\ o.verdict = DecideCandidate(boot, <<>>, n)
    BY <2>1
  <2>5. DOMAIN o.journeys = {}
    BY <2>4
  <2>6. o.verdict \in Ends3
    BY <2>1, <2>3, <2>4
  <2>7. o.verdict = "keep" => o.boot = "pass" /\ Len(o.journeys) = n
    BY <2>3, <2>4
  <2>8. o.observed \in BOOLEAN /\ o.boot \in Verdicts /\ o.journeys \in Seq(Verdicts)
    BY <2>2, <2>4
  <2>9. QED
    BY <2>5, <2>6, <2>7, <2>8
<1>2. CASE \E js \in Replays(n) :
             o = [boot |-> "pass", journeys |-> js, observed |-> TRUE,
                  verdict |-> DecideCandidate("pass", js, n)]
  <2>1. PICK js \in Replays(n) :
             o = [boot |-> "pass", journeys |-> js, observed |-> TRUE,
                  verdict |-> DecideCandidate("pass", js, n)]
    BY <1>2
  <2>2. js \in Seq(Verdicts) /\ DecideCandidate("pass", js, n) # "none"
    BY DEF Replays
  <2>3. "pass" \in Verdicts
    BY DEF Verdicts
  <2>4. QED
    BY <2>1, <2>2, <2>3, DecisionTyped
<1>3. CASE \E boot \in {"pass", "unsupported"} :
             o = [boot |-> boot, journeys |-> <<>>, observed |-> FALSE, verdict |-> "stop"]
  BY <1>3 DEF Verdicts, Ends3
<1>4. CASE \E m \in 0..n - 1 :
             o = [boot |-> "pass", journeys |-> [i \in 1..m |-> "pass"], observed |-> TRUE,
                  verdict |-> "stop"]
  BY <1>4 DEF Verdicts, Ends3
<1>5. QED
  BY <1>1, <1>2, <1>3, <1>4 DEF CandidateOutcomes

RecordSet ==
    {r \in [mutation : Mutations, parent : Configs, candidate : Configs, boot : Verdicts,
            journeys : Seq(Verdicts), verdict : Ends3, tmp : BOOLEAN] :
        r.candidate = r.parent \cup {Change(r.mutation)}}

Earned(record, results) ==
    record.verdict = "keep" =>
        /\ record.boot = "pass" /\ Len(record.journeys) = Passed(results)
        /\ \A i \in DOMAIN record.journeys : record.journeys[i] = "pass"

LEMMA RecordTyped ==
  ASSUME NEW mutation \in Mutations, NEW config \in Configs, NEW results,
         Passed(results) \in Nat, NEW record \in Records(mutation, config, results)
  PROVE  /\ record \in RecordSet /\ record.mutation = mutation /\ record.parent = config
         /\ record.candidate = config \cup {Change(mutation)}
         /\ Earned(record, results)
<1>1. PICK o \in CandidateOutcomes(Passed(results)), tmp \in BOOLEAN :
         record = [mutation |-> mutation, parent |-> config,
                   candidate |-> config \cup {Change(mutation)},
                   boot |-> o.boot, journeys |-> o.journeys, verdict |-> o.verdict,
                   tmp |-> tmp]
  BY DEF Records, TmpSeen
<1>2. config \cup {Change(mutation)} \in Configs
  BY DEF Configs, Changes, Change, Mutations
<1>3. /\ o.boot \in Verdicts /\ o.journeys \in Seq(Verdicts) /\ o.verdict \in Ends3
      /\ o.verdict = "keep" => /\ o.boot = "pass" /\ Len(o.journeys) = Passed(results)
                               /\ \A i \in DOMAIN o.journeys : o.journeys[i] = "pass"
  BY OutcomeTyped
<1>4. QED
  BY <1>1, <1>2, <1>3 DEF RecordSet, Earned

-----------------------------------------------------------------------------
(* What is proposed                                                        *)

\* The three ways to a proposal, and what each knows of the experiments so far.
FollowsReadOnly(m, es) ==
    /\ m.origin = "after_read_only" /\ m.type = "add_tmpfs"
    /\ Change(m) \notin Attempted(es)

FollowsTmpfs(m, es, config) ==
    /\ m.origin = "after_tmpfs" /\ m.type = "set_read_only" /\ Len(es) >= 2
    /\ Change(es[Len(es) - 1].mutation) = Change(m) /\ es[Len(es) - 1].verdict = "rollback"
    /\ es[Len(es)].mutation = [type |-> "add_tmpfs", service |-> m.service,
                               origin |-> "after_read_only"]
    /\ \A i \in DOMAIN es : Change(es[i].mutation) = Change(m) => es[i].parent # config

AnswersFinding(m, es) ==
    /\ m.origin = "finding"
    /\ Change(m) \in Asked /\ Change(m) \notin Attempted(es)
    /\ \A c \in Asked : c \notin Attempted(es) /\ c # Change(m) => Precedes(Change(m), c)

LEMMA ProposalIs ==
  ASSUME NEW es \in Seq(RecordSet), NEW config, NEW m \in Proposals(es, config)
  PROVE  /\ m \in Mutations
         /\ FollowsReadOnly(m, es) \/ FollowsTmpfs(m, es, config) \/ AnswersFinding(m, es)
<1> DEFINE latest == es[Len(es)].mutation.service
<1>1. CASE CanAddTmpfs(es, config)
  <2>1. m = [type |-> "add_tmpfs", service |-> latest, origin |-> "after_read_only"]
    BY <1>1 DEF Proposals
  <2>2. es # <<>> /\ <<"add_tmpfs", latest>> \notin Attempted(es)
    BY <1>1 DEF CanAddTmpfs
  <2>3. latest \in Services
    <3>1. Len(es) \in 1..Len(es)
      BY <2>2, EmptySeq
    <3>2. es[Len(es)] \in RecordSet
      BY <3>1, ElementOfSeq
    <3>3. QED
      BY <3>2 DEF RecordSet, Mutations
  <2>4. QED
    BY <2>1, <2>2, <2>3 DEF FollowsReadOnly, Change, Mutations, MutationTypes, Origins
<1>2. CASE ~CanAddTmpfs(es, config) /\ CanRetryReadOnly(es, config)
  <2>1. m = [type |-> "set_read_only", service |-> latest, origin |-> "after_tmpfs"]
    BY <1>2 DEF Proposals
  <2>2. /\ Len(es) >= 2
        /\ es[Len(es)].mutation = [type |-> "add_tmpfs",
                                   service |-> es[Len(es) - 1].mutation.service,
                                   origin |-> "after_read_only"]
        /\ config = es[Len(es)].candidate
        /\ es[Len(es) - 1].mutation.type = "set_read_only"
        /\ es[Len(es) - 1].verdict = "rollback"
        /\ \A i \in DOMAIN es :
              Change(es[i].mutation) = <<"set_read_only", es[Len(es) - 1].mutation.service>> =>
                es[i].parent # es[Len(es)].candidate
    BY <1>2 DEF CanRetryReadOnly
  <2>3. latest = es[Len(es) - 1].mutation.service /\ latest \in Services
    <3>1. es[Len(es)] \in RecordSet
      BY <2>2, ElementOfSeq
    <3>2. QED
      BY <2>2, <3>1 DEF RecordSet, Mutations
  <2>4. m \in Mutations
    BY <2>1, <2>3, RankIsOne DEF Mutations, MutationTypes, Origins, Ranked
  <2>5. /\ Change(m) = <<"set_read_only", latest>> /\ m.service = latest
        /\ Change(es[Len(es) - 1].mutation) = Change(m)
    BY <2>1, <2>2, <2>3 DEF Change
  <2>6. QED
    BY <2>1, <2>2, <2>3, <2>4, <2>5 DEF FollowsTmpfs
<1>3. CASE ~CanAddTmpfs(es, config) /\ ~CanRetryReadOnly(es, config)
  <2>1. Candidates(es) = Asked \ Attempted(es)
    BY DEF Candidates, Asked
  <2>2. Candidates(es) # {}
        /\ m = [type |-> First(Candidates(es))[1], service |-> First(Candidates(es))[2],
                origin |-> "finding"]
    BY <1>3 DEF Proposals
  <2>3. /\ First(Candidates(es)) \in Candidates(es)
        /\ \A d \in Candidates(es) \ {First(Candidates(es))} : Precedes(First(Candidates(es)), d)
    BY <2>1, <2>2, FirstPrecedes
  <2> DEFINE c == First(Candidates(es))
  <2> HIDE DEF c
  <2>4. /\ c \in Asked /\ c \notin Attempted(es) /\ c[1] \in Ranked /\ c[2] \in Services
        /\ c = <<c[1], c[2]>>
        /\ m = [type |-> c[1], service |-> c[2], origin |-> "finding"]
        /\ \A d \in Asked : d \notin Attempted(es) /\ d # c => Precedes(c, d)
    BY <2>1, <2>2, <2>3, AskedTyped DEF c
  <2>5. Change(m) = c
    BY <2>4 DEF Change
  <2>6. m \in Mutations
    BY <2>4 DEF Mutations, MutationTypes, Origins, Ranked
  <2>7. QED
    BY <2>4, <2>5, <2>6 DEF AnswersFinding
<1>4. QED
  BY <1>1, <1>2, <1>3

-----------------------------------------------------------------------------
(* The inductive invariant                                                 *)

\* A tmpfs is tried once; the second read-only attempt comes right after it, and the
\* first right before it.
OriginsHold(es) ==
    \A i \in DOMAIN es :
        /\ es[i].mutation.origin \in {"finding", "after_read_only"} =>
              \A k \in 1..i-1 : Change(es[k].mutation) # Change(es[i].mutation)
        /\ es[i].mutation.origin = "after_tmpfs" =>
              /\ i >= 3
              /\ es[i-1].mutation = [type |-> "add_tmpfs",
                                     service |-> es[i].mutation.service,
                                     origin |-> "after_read_only"]

\* What is kept is not proposed again.
NothingKeptTwice(es) ==
    \A i \in DOMAIN es : Change(es[i].mutation) \notin KeptBefore(es, i)

\* The change of a finding goes before every change that was open then.
FirstOfTheOpen(es) ==
    \A i \in DOMAIN es : es[i].mutation.origin = "finding" =>
        /\ Change(es[i].mutation) \in Asked
        /\ \A c \in Asked : (\A k \in 1..i : Change(es[k].mutation) # c) =>
              Precedes(Change(es[i].mutation), c)

Unrepeated(es) ==
    \A i, j \in DOMAIN es : i < j =>
        /\ es[i].mutation # es[j].mutation
        /\ ~ /\ es[i].parent = es[j].parent
             /\ Change(es[i].mutation) = Change(es[j].mutation)

LoopInv ==
    /\ experiments \in Seq(RecordSet)
    /\ current \in Configs
    /\ Passed(baseline) \in Nat
    /\ ~observed => experiments = <<>>
    /\ \A i \in DOMAIN experiments : Earned(experiments[i], baseline)
    /\ ChainReplays
    /\ WithinBudget
    /\ OriginsHold(experiments)
    /\ FirstOfTheOpen(experiments)
    /\ Unrepeated(experiments)
    /\ NothingKeptTwice(experiments)
    /\ AllFindingsTried

LEMMA Grown ==
  ASSUME NEW es \in Seq(RecordSet), NEW r \in RecordSet
  PROVE  /\ Append(es, r) \in Seq(RecordSet) /\ Len(es) \in Nat
         /\ Len(Append(es, r)) = Len(es) + 1
         /\ DOMAIN es = 1..Len(es) /\ DOMAIN Append(es, r) = 1..Len(es) + 1
         /\ \A i \in 1..Len(es) : Append(es, r)[i] = es[i]
         /\ Append(es, r)[Len(es) + 1] = r
  BY AppendProperties, LenProperties

LEMMA GrownOrigins ==
  ASSUME NEW es \in Seq(RecordSet), NEW r \in RecordSet, NEW config,
         OriginsHold(es), FirstOfTheOpen(es), Unrepeated(es), r.parent = config,
         \/ FollowsReadOnly(r.mutation, es) \/ FollowsTmpfs(r.mutation, es, config)
         \/ AnswersFinding(r.mutation, es)
  PROVE  /\ OriginsHold(Append(es, r)) /\ FirstOfTheOpen(Append(es, r))
         /\ Unrepeated(Append(es, r))
         /\ NothingKeptTwice(es) => NothingKeptTwice(Append(es, r))
<1> DEFINE L == Len(es)
           fs == Append(es, r)
           m == r.mutation
<1>1. /\ L \in Nat /\ DOMAIN es = 1..L /\ DOMAIN fs = 1..L + 1
      /\ \A i \in 1..L : fs[i] = es[i]
      /\ fs[L + 1] = r
  BY Grown
<1>2. m.origin \in {"finding", "after_read_only"} =>
        \A k \in 1..L : Change(es[k].mutation) # Change(m)
  <2>1. Change(m) \notin Attempted(es) => \A k \in 1..L : Change(es[k].mutation) # Change(m)
    BY <1>1 DEF Attempted
  <2>2. QED
    BY <2>1 DEF FollowsReadOnly, FollowsTmpfs, AnswersFinding
<1>3. m.origin = "after_tmpfs" => FollowsTmpfs(m, es, config)
  BY DEF FollowsReadOnly, AnswersFinding
<1>4. m.origin \in {"finding", "after_read_only", "after_tmpfs"}
  BY DEF FollowsReadOnly, FollowsTmpfs, AnswersFinding
<1> HIDE DEF L, fs, m
<1>5. OriginsHold(fs)
  <2> SUFFICES ASSUME NEW i \in 1..L + 1
      PROVE  /\ fs[i].mutation.origin \in {"finding", "after_read_only"} =>
                  \A k \in 1..i-1 : Change(fs[k].mutation) # Change(fs[i].mutation)
             /\ fs[i].mutation.origin = "after_tmpfs" =>
                  /\ i >= 3
                  /\ fs[i-1].mutation = [type |-> "add_tmpfs",
                                         service |-> fs[i].mutation.service,
                                         origin |-> "after_read_only"]
    BY <1>1 DEF OriginsHold
  <2>1. CASE i \in 1..L
    <3>1. \A k \in 1..i-1 : k \in 1..L
      BY <1>1, <2>1
    <3>2. i >= 3 => i - 1 \in 1..L
      BY <1>1, <2>1
    <3>3. QED
      BY <1>1, <2>1, <3>1, <3>2 DEF OriginsHold
  <2>2. CASE i = L + 1
    <3>1. i - 1 = L /\ fs[i].mutation = m
      BY <1>1, <2>2 DEF m
    <3>2. m.origin \in {"finding", "after_read_only"} =>
             \A k \in 1..i-1 : Change(fs[k].mutation) # Change(m)
      BY <1>1, <1>2, <3>1
    <3>3. m.origin = "after_tmpfs" =>
             /\ L >= 2
             /\ es[L].mutation = [type |-> "add_tmpfs", service |-> m.service,
                                  origin |-> "after_read_only"]
      BY <1>3 DEF FollowsTmpfs, L
    <3>4. L >= 2 => fs[i - 1] = es[L] /\ i >= 3
      BY <1>1, <2>2, <3>1
    <3>5. QED
      BY <3>1, <3>2, <3>3, <3>4
  <2>3. QED
    BY <1>1, <2>1, <2>2
<1>6. FirstOfTheOpen(fs)
  <2> SUFFICES ASSUME NEW i \in 1..L + 1, fs[i].mutation.origin = "finding"
      PROVE  /\ Change(fs[i].mutation) \in Asked
             /\ \A c \in Asked : (\A k \in 1..i : Change(fs[k].mutation) # c) =>
                   Precedes(Change(fs[i].mutation), c)
    BY <1>1 DEF FirstOfTheOpen
  <2>1. CASE i \in 1..L
    <3>1. \A k \in 1..i : k \in 1..L
      BY <1>1, <2>1
    <3>2. QED
      BY <1>1, <2>1, <3>1 DEF FirstOfTheOpen
  <2>2. CASE i = L + 1
    <3>1. fs[i].mutation = m
      BY <1>1, <2>2 DEF m
    <3>2. AnswersFinding(m, es)
      BY <3>1 DEF FollowsReadOnly, FollowsTmpfs, m
    <3>3. ASSUME NEW c \in Asked, \A k \in 1..i : Change(fs[k].mutation) # c
          PROVE  c \notin Attempted(es) /\ c # Change(m)
      <4>1. \A k \in 1..L : k \in 1..i /\ fs[k] = es[k]
        BY <1>1, <2>2
      <4>2. i \in 1..i
        BY <1>1, <2>2
      <4>3. QED
        BY <1>1, <3>1, <3>3, <4>1, <4>2 DEF Attempted
    <3>4. QED
      BY <3>1, <3>2, <3>3 DEF AnswersFinding
  <2>3. QED
    BY <1>1, <2>1, <2>2
<1>7. Unrepeated(fs)
  <2> SUFFICES ASSUME NEW i \in 1..L + 1, NEW j \in 1..L + 1, i < j
      PROVE  /\ fs[i].mutation # fs[j].mutation
             /\ ~ /\ fs[i].parent = fs[j].parent
                  /\ Change(fs[i].mutation) = Change(fs[j].mutation)
    BY <1>1 DEF Unrepeated
  <2>1. i \in 1..L /\ fs[i] = es[i]
    BY <1>1
  <2>2. CASE j \in 1..L
    BY <1>1, <2>1, <2>2 DEF Unrepeated
  <2>3. CASE j = L + 1 /\ m.origin \in {"finding", "after_read_only"}
    <3>1. Change(es[i].mutation) # Change(m)
      BY <1>2, <2>1, <2>3
    <3>2. QED
      BY <1>1, <2>1, <2>3, <3>1 DEF m
  <2>4. CASE j = L + 1 /\ m.origin = "after_tmpfs"
    <3>1. FollowsTmpfs(m, es, config) /\ fs[j].mutation = m /\ fs[j].parent = config
      BY <1>1, <1>3, <2>4 DEF m
    <3>2. Change(es[i].mutation) = Change(m) => es[i].parent # config
      BY <1>1, <2>1, <3>1 DEF FollowsTmpfs
    <3>3. ASSUME es[i].mutation = m PROVE FALSE
      <4>1. /\ L >= 2
            /\ es[L].mutation = [type |-> "add_tmpfs", service |-> m.service,
                                 origin |-> "after_read_only"]
        BY <3>1 DEF FollowsTmpfs, L
      <4>2. i >= 3 /\ es[i - 1].mutation = es[L].mutation
        BY <1>1, <2>1, <2>4, <3>3, <4>1 DEF OriginsHold
      <4>3. L \in DOMAIN es /\ i - 1 \in 1..L - 1
        BY <1>1, <2>1, <4>1, <4>2
      <4>4. es[L].mutation.origin = "after_read_only"
        BY <4>1
      <4>5. Change(es[i - 1].mutation) # Change(es[L].mutation)
        BY <4>3, <4>4 DEF OriginsHold
      <4>6. QED
        BY <4>2, <4>5
    <3>4. QED
      BY <2>1, <3>1, <3>2, <3>3
  <2>5. QED
    BY <1>1, <1>4, <2>2, <2>3, <2>4
<1>8. ASSUME NothingKeptTwice(es) PROVE NothingKeptTwice(fs)
  <2>1. ASSUME NEW i \in 1..L + 1
        PROVE  KeptBefore(fs, i) = KeptBefore(es, i)
    <3>1. \A k \in 1..i-1 : k \in 1..L /\ fs[k] = es[k]
      BY <1>1
    <3>2. QED
      BY <3>1 DEF KeptBefore
  <2>2. ASSUME NEW k \in 1..L, es[k].verdict = "keep"
        PROVE  Change(es[k].mutation) # Change(m)
    <3>1. CASE m.origin \in {"finding", "after_read_only"}
      BY <1>2, <3>1
    <3>2. CASE m.origin = "after_tmpfs" /\ Change(es[k].mutation) = Change(m)
      <4>1. /\ L >= 2 /\ Change(es[L - 1].mutation) = Change(m)
            /\ es[L - 1].verdict = "rollback" /\ m.type = "set_read_only"
            /\ es[L].mutation = [type |-> "add_tmpfs", service |-> m.service,
                                 origin |-> "after_read_only"]
        BY <1>3, <3>2 DEF FollowsTmpfs, L
      <4>2. k # L - 1
        BY <2>2, <4>1
      <4>3. k # L
        BY <3>2, <4>1 DEF Change
      <4>4. L - 1 \in 1..L /\ L \in 1..L /\ k \in 1..(L - 1) - 1
        BY <1>1, <2>2, <4>1, <4>2, <4>3
      <4>5. es[L - 1] \in RecordSet
        BY <1>1, <4>4
      <4>6. es[L - 1].mutation.origin \in Origins
        BY <4>5 DEF RecordSet, Mutations
      <4>7. es[L - 1].mutation.origin \notin {"finding", "after_read_only"}
        BY <1>1, <3>2, <4>1, <4>4 DEF OriginsHold
      <4>8. es[L - 1].mutation.origin = "after_tmpfs"
        BY <4>6, <4>7 DEF Origins
      <4>9. es[L - 1].mutation.service = m.service
        BY <4>1 DEF Change
      <4>10. L - 1 >= 3 /\ es[(L - 1) - 1].mutation = es[L].mutation
        BY <1>1, <4>1, <4>4, <4>8, <4>9 DEF OriginsHold
      <4>11. (L - 1) - 1 \in 1..L - 1 /\ es[L].mutation.origin = "after_read_only"
        BY <1>1, <4>1, <4>10
      <4>12. Change(es[(L - 1) - 1].mutation) # Change(es[L].mutation)
        BY <1>1, <4>4, <4>11 DEF OriginsHold
      <4>13. QED
        BY <4>10, <4>12
    <3>3. QED
      BY <1>4, <3>1, <3>2
  <2>3. Change(m) \notin KeptBefore(es, L + 1)
    BY <1>1, <2>2 DEF KeptBefore
  <2>4. ASSUME NEW i \in 1..L + 1
        PROVE  Change(fs[i].mutation) \notin KeptBefore(fs, i)
    <3>1. CASE i \in 1..L
      BY <1>1, <1>8, <2>1, <3>1 DEF NothingKeptTwice
    <3>2. CASE i = L + 1
      BY <1>1, <2>1, <2>3, <3>2 DEF m
    <3>3. QED
      BY <1>1, <3>1, <3>2
  <2>5. QED
    BY <1>1, <2>4 DEF NothingKeptTwice
<1>9. QED
  BY <1>5, <1>6, <1>7, <1>8 DEF fs

LEMMA LoopInit == Init => LoopInv
<1> SUFFICES ASSUME Init PROVE LoopInv
  OBVIOUS
<1>1. experiments = <<>> /\ DOMAIN experiments = {} /\ Len(experiments) = 0
  BY DEF Init
<1>2. Passed(baseline) = 0
  <2>1. {i \in DOMAIN baseline : baseline[i] = "pass"} = {}
    BY DEF Init
  <2>2. QED
    BY <2>1, FS_EmptySet DEF Passed
<1>3. experiments \in Seq(RecordSet) /\ current \in Configs
  BY <1>1 DEF Init, Configs
<1>4. ChainReplays
  <2>1. KeptBefore(experiments, 1) = {}
    BY DEF KeptBefore
  <2>2. QED
    BY <1>1, <2>1 DEF Init, ChainReplays
<1>5. WithinBudget /\ AllFindingsTried
  BY <1>1 DEF WithinBudget, AllFindingsTried, Init
<1>6. OriginsHold(experiments) /\ FirstOfTheOpen(experiments) /\ Unrepeated(experiments)
      /\ NothingKeptTwice(experiments)
  BY <1>1 DEF OriginsHold, FirstOfTheOpen, Unrepeated, NothingKeptTwice
<1>7. QED
  BY <1>1, <1>2, <1>3, <1>4, <1>5, <1>6 DEF LoopInv

LEMMA ObserveKeeps == LoopInv /\ Observe => LoopInv'
<1> SUFFICES ASSUME LoopInv, Observe PROVE LoopInv'
  OBVIOUS
<1>1. UNCHANGED <<experiments, current, stop>> /\ experiments = <<>> /\ DOMAIN experiments = {}
  BY DEF Observe, LoopInv
<1>2. Passed(baseline') \in Nat
  <2>1. PICK n \in 0..MaxJourneys : baseline' \in [1..n -> Verdicts]
    BY DEF Observe, BaselineResults
  <2>2. n \in Nat /\ DOMAIN baseline' = 1..n
    BY <2>1
  <2>3. IsFiniteSet(1..n)
    BY <2>2, FS_Interval
  <2> DEFINE S == {i \in DOMAIN baseline' : baseline'[i] = "pass"}
  <2>4. S \subseteq 1..n
    BY <2>2
  <2>5. IsFiniteSet(S)
    BY <2>3, <2>4, FS_Subset
  <2>6. Cardinality(S) \in Nat
    BY <2>5, FS_CardinalityType
  <2>7. QED
    BY <2>6 DEF Passed
<1>3. \A i \in DOMAIN experiments' : Earned(experiments[i], baseline)'
  BY <1>1
<1>4. (ChainReplays /\ WithinBudget /\ AllFindingsTried)'
  BY <1>1 DEF LoopInv, ChainReplays, WithinBudget, AllFindingsTried
<1>5. (OriginsHold(experiments) /\ FirstOfTheOpen(experiments) /\ Unrepeated(experiments)
       /\ NothingKeptTwice(experiments))'
  BY <1>1 DEF LoopInv
<1>6. observed'
  BY DEF Observe
<1>7. QED
  BY <1>1, <1>2, <1>3, <1>4, <1>5, <1>6 DEF LoopInv

LEMMA TryKeeps == LoopInv /\ Try => LoopInv'
<1> SUFFICES ASSUME LoopInv, Try PROVE LoopInv'
  OBVIOUS
<1>1. PICK m \in Proposals(experiments, current) :
        \E r \in Records(m, current, baseline) :
        /\ experiments' = Append(experiments, r)
        /\ current' = Decided(r, current)
        /\ stop' = IF r.verdict = "stop" THEN "experiment" ELSE "none"
  BY DEF Try
<1>2. PICK r \in Records(m, current, baseline) :
        /\ experiments' = Append(experiments, r)
        /\ current' = Decided(r, current)
        /\ stop' = IF r.verdict = "stop" THEN "experiment" ELSE "none"
  BY <1>1
<1>3. UNCHANGED <<observed, baseline>> /\ observed
  BY DEF Try, Running
<1>4. /\ experiments \in Seq(RecordSet) /\ current \in Configs /\ Passed(baseline) \in Nat
      /\ \A i \in DOMAIN experiments : Earned(experiments[i], baseline)
      /\ ChainReplays /\ WithinBudget /\ OriginsHold(experiments)
      /\ FirstOfTheOpen(experiments) /\ Unrepeated(experiments)
      /\ NothingKeptTwice(experiments)
  BY DEF LoopInv
<1>5. ~Stopped(experiments) /\ ~Exhausted(experiments) /\ ~Streak(experiments)
  BY DEF Try, PolicyStop
<1>6. m \in Mutations
  BY <1>4, ProposalIs
<1>7. \/ FollowsReadOnly(m, experiments) \/ FollowsTmpfs(m, experiments, current)
      \/ AnswersFinding(m, experiments)
  BY <1>4, ProposalIs
<1>8. /\ r \in RecordSet /\ r.mutation = m /\ r.parent = current
      /\ r.candidate = current \cup {Change(m)} /\ Earned(r, baseline)
  BY <1>4, <1>6, RecordTyped
<1> DEFINE es == experiments
           L == Len(experiments)
           fs == experiments'
<1>9. /\ fs \in Seq(RecordSet) /\ L \in Nat /\ Len(fs) = L + 1
      /\ DOMAIN es = 1..L /\ DOMAIN fs = 1..L + 1
      /\ \A i \in 1..L : fs[i] = es[i]
      /\ fs[L + 1] = r
  BY <1>2, <1>4, <1>8, Grown
<1>10. OriginsHold(fs) /\ FirstOfTheOpen(fs) /\ Unrepeated(fs) /\ NothingKeptTwice(fs)
  <2>1. \/ FollowsReadOnly(r.mutation, es) \/ FollowsTmpfs(r.mutation, es, current)
        \/ AnswersFinding(r.mutation, es)
    BY <1>7, <1>8
  <2>2. /\ OriginsHold(Append(es, r)) /\ FirstOfTheOpen(Append(es, r))
        /\ Unrepeated(Append(es, r)) /\ NothingKeptTwice(Append(es, r))
    BY <1>4, <1>8, <2>1, GrownOrigins
  <2>3. QED
    BY <1>2, <2>2
<1> HIDE DEF es, L, fs
<1>11. ASSUME NEW i \in DOMAIN fs
       PROVE  Earned(fs[i], baseline)
  BY <1>4, <1>8, <1>9 DEF es
<1>12. r.verdict \in Ends3
  BY <1>8 DEF RecordSet
<1>13. current' \in Configs
  BY <1>2, <1>4, <1>8 DEF Decided, RecordSet
<1>14. ChainReplays'
  <2>1. ASSUME NEW i \in 1..L + 1
        PROVE  KeptBefore(fs, i) = KeptBefore(es, i)
    <3>1. \A k \in 1..i-1 : k \in 1..L /\ fs[k] = es[k]
      BY <1>9
    <3>2. QED
      BY <3>1 DEF KeptBefore
  <2>2. current = KeptBefore(es, L + 1) /\ \A i \in 1..L : es[i].parent = KeptBefore(es, i)
    BY <1>4, <1>9 DEF ChainReplays, es, L
  <2>3. \A i \in DOMAIN fs : fs[i].parent = KeptBefore(fs, i)
    BY <1>8, <1>9, <2>1, <2>2
  <2>4. current' = KeptBefore(fs, L + 2)
    <3>1. KeptBefore(fs, L + 2) =
            KeptBefore(fs, L + 1) \cup (IF r.verdict = "keep" THEN {Change(m)} ELSE {})
      <4>1. 1..(L + 2) - 1 = (1..(L + 1) - 1) \cup {L + 1}
        BY <1>9
      <4>2. QED
        BY <1>8, <1>9, <4>1 DEF KeptBefore
    <3>2. L + 1 \in 1..L + 1
      BY <1>9
    <3>3. QED
      BY <1>2, <1>8, <2>1, <2>2, <3>1, <3>2 DEF Decided
  <2>5. Len(fs) + 1 = L + 2
    BY <1>9
  <2>6. QED
    BY <2>3, <2>4, <2>5 DEF ChainReplays, fs
<1>15. WithinBudget'
  <2>1. L + 1 <= 8
    BY <1>5, <1>9 DEF Exhausted, L
  <2>2. ASSUME NEW i \in 1..L + 1, i > 3
        PROVE  \E j \in i-3..i-1 : fs[j].verdict # "rollback"
    <3>1. CASE i \in 1..L
      <4>1. PICK j \in i-3..i-1 : es[j].verdict # "rollback"
        BY <1>4, <1>9, <2>2, <3>1 DEF WithinBudget, es
      <4>2. j \in 1..L
        BY <1>9, <2>2, <3>1, <4>1
      <4>3. QED
        BY <1>9, <4>1, <4>2
    <3>2. CASE i = L + 1
      <4>1. PICK j \in L-2..L : es[j].verdict # "rollback"
        BY <1>5, <1>9, <2>2, <3>2 DEF Streak, es, L
      <4>2. j \in 1..L /\ j \in i-3..i-1
        BY <1>9, <2>2, <3>2, <4>1
      <4>3. QED
        BY <1>9, <4>1, <4>2
    <3>3. QED
      BY <1>9, <3>1, <3>2
  <2>3. ASSUME NEW i \in 1..L + 1, i < L + 1
        PROVE  fs[i].verdict # "stop"
    <3>1. i \in 1..L
      BY <1>9, <2>3
    <3>2. QED
      BY <1>5, <1>9, <3>1 DEF Stopped, es
  <2>4. QED
    BY <1>9, <2>1, <2>2, <2>3 DEF WithinBudget, fs
<1>16. AllFindingsTried'
  <2>1. stop' # "no_remaining_mutations"
    BY <1>2
  <2>2. QED
    BY <2>1 DEF AllFindingsTried
<1>17. QED
  BY <1>3, <1>4, <1>9, <1>10, <1>11, <1>13, <1>14, <1>15, <1>16 DEF LoopInv, fs

LEMMA FinishKeeps == LoopInv /\ Finish => LoopInv'
<1> SUFFICES ASSUME LoopInv, Finish PROVE LoopInv'
  OBVIOUS
<1>1. UNCHANGED <<observed, baseline, experiments, current>>
  BY DEF Finish
<1>2. AllFindingsTried'
  <2> SUFFICES ASSUME stop' = "no_remaining_mutations", NEW f \in Findings,
                      f.kind \in DOMAIN MutationOf
               PROVE  ChangeOf(f) \in Attempted(experiments)
    BY <1>1 DEF AllFindingsTried
  <2>1. PolicyStop(baseline, experiments) # "no_remaining_mutations"
    BY DEF PolicyStop
  <2>2. Proposals(experiments, current) = {}
    BY <2>1 DEF Finish
  <2>3. Candidates(experiments) = {}
    BY <2>2 DEF Proposals
  <2>4. QED
    BY <2>3 DEF Candidates
<1>3. ChainReplays' /\ WithinBudget'
  BY <1>1 DEF LoopInv, ChainReplays, WithinBudget
<1>4. QED
  BY <1>1, <1>2, <1>3 DEF LoopInv

LEMMA EndKeeps == LoopInv /\ (Reject \/ GiveUp) => LoopInv'
<1> SUFFICES ASSUME LoopInv, Reject \/ GiveUp PROVE LoopInv'
  OBVIOUS
<1>1. UNCHANGED <<observed, baseline, experiments, current>> /\ stop' = "failed"
  BY DEF Reject, GiveUp
<1>2. (ChainReplays /\ WithinBudget /\ AllFindingsTried)'
  BY <1>1 DEF LoopInv, ChainReplays, WithinBudget, AllFindingsTried
<1>3. QED
  BY <1>1, <1>2 DEF LoopInv

LEMMA StutterKeeps == LoopInv /\ UNCHANGED vars => LoopInv'
  BY DEF vars, LoopInv, ChainReplays, WithinBudget, AllFindingsTried

THEOREM LoopInvariant == Spec => []LoopInv
<1>1. LoopInv /\ [Next]_vars => LoopInv'
  BY ObserveKeeps, TryKeeps, FinishKeeps, EndKeeps, StutterKeeps DEF Next, Advance
<1>2. QED
  BY <1>1, LoopInit, PTL DEF Spec

-----------------------------------------------------------------------------
(* What it implies                                                         *)

LEMMA PriorityFollows == LoopInv => PriorityHonoured
<1> SUFFICES ASSUME LoopInv, NEW i \in DOMAIN experiments, NEW j \in DOMAIN experiments, i < j,
                    experiments[i].mutation.origin = "finding",
                    experiments[j].mutation.origin = "finding"
             PROVE  /\ RankOf(experiments[i].mutation.type) <= RankOf(experiments[j].mutation.type)
                    /\ experiments[i].mutation.type = experiments[j].mutation.type =>
                         Severity(Change(experiments[i].mutation))
                            >= Severity(Change(experiments[j].mutation))
  BY DEF PriorityHonoured
<1> DEFINE c == Change(experiments[i].mutation)
           d == Change(experiments[j].mutation)
<1>1. /\ c \in Asked /\ d \in Asked
      /\ (\A k \in 1..i : Change(experiments[k].mutation) # d) => Precedes(c, d)
  BY DEF LoopInv, FirstOfTheOpen
<1>2. \A k \in 1..j-1 : Change(experiments[k].mutation) # d
  BY DEF LoopInv, OriginsHold
<1>3. i \in Nat /\ j \in Nat
  BY DEF LoopInv
<1>4. \A k \in 1..i : k \in 1..j-1
  BY <1>3
<1>5. Precedes(c, d)
  BY <1>1, <1>2, <1>4
<1>6. c[1] = experiments[i].mutation.type /\ d[1] = experiments[j].mutation.type
  BY DEF Change
<1> HIDE DEF c, d
<1>7. RankOf(c[1]) \in 1..6 /\ RankOf(d[1]) \in 1..6
  BY <1>1, AskedTyped, RankIsOne
<1>8. Severity(c) \in 0..100 /\ Severity(d) \in 0..100
  BY <1>1, SeverityIsNumber
<1>9. RankOf(c[1]) <= RankOf(d[1]) /\ (c[1] = d[1] => Severity(c) >= Severity(d))
  BY <1>5, <1>7, <1>8 DEF Precedes
<1>10. QED
  BY <1>6, <1>9 DEF c, d

\* The search neither repeats nor forgets a change, keeps to its budget and to the
\* policy's order (hardening/policy.py propose_mutation), for any findings.
THEOREM SearchStaysOrderly == Spec => []SearchIsOrderly
<1>1. LoopInv => SearchIsOrderly
  <2> SUFFICES ASSUME LoopInv PROVE SearchIsOrderly
    OBVIOUS
  <2>1. NoExperimentRepeated
    <3> SUFFICES ASSUME NEW i \in DOMAIN experiments, NEW j \in DOMAIN experiments, i # j
        PROVE /\ experiments[i].mutation # experiments[j].mutation
              /\ ~ /\ experiments[i].parent = experiments[j].parent
                   /\ Change(experiments[i].mutation) = Change(experiments[j].mutation)
      BY DEF NoExperimentRepeated
    <3>1. i \in Nat /\ j \in Nat
      BY DEF LoopInv
    <3>2. i < j \/ j < i
      BY <3>1
    <3>3. QED
      BY <3>2 DEF LoopInv, Unrepeated
  <2>2. WithinBudget /\ AllFindingsTried /\ PriorityHonoured
    BY PriorityFollows DEF LoopInv
  <2>3. QED
    BY <2>1, <2>2 DEF SearchIsOrderly
<1>2. QED
  BY <1>1, LoopInvariant, PTL

\* Every kept change booted and passed all the baseline's passing journeys, and the
\* hash chain replays to the current configuration (hardening/engine.py and
\* _materialize_hardened_overlay), for any findings and journeys.
THEOREM FinalStaysEarned == Spec => []FinalIsEarned
<1>1. LoopInv => FinalIsEarned
  <2> SUFFICES ASSUME LoopInv PROVE FinalIsEarned
    OBVIOUS
  <2>1. KeepIsEarned
    BY DEF LoopInv, Earned, KeepIsEarned
  <2>2. QED
    BY <2>1 DEF LoopInv, FinalIsEarned
<1>2. QED
  BY <1>1, LoopInvariant, PTL

-----------------------------------------------------------------------------
(* The loop ends: what is ahead of it                                      *)

\* The steps the loop may still take: its observation, the experiments its budget
\* leaves, and the one that stops it.
LoopAhead ==
    IF stop # "none" THEN 0
    ELSE IF observed THEN 9 - Len(experiments)
    ELSE 10 - Len(experiments)

\* The loop knows what to do next: the baseline can be observed, the policy stops it
\* or proposes nothing, or the change it proposes is rejected or has an outcome.
KnowsNext ==
    IF observed
    THEN \/ PolicyStop(baseline, experiments) # "none"
         \/ Proposals(experiments, current) = {}
         \/ \E m \in Proposals(experiments, current) :
               Change(m) \in Satisfied \/ Records(m, current, baseline) # {}
    ELSE BaselineResults # {}

\* Every candidate has an outcome: at least the one of a failed boot.
LEMMA OutcomesExist ==
    ASSUME NEW m, NEW config, NEW results
    PROVE  Records(m, config, results) # {}
<1> DEFINE n == Passed(results)
           failed == [boot |-> "fail", journeys |-> <<>>, observed |-> FALSE,
                      verdict |-> "rollback"]
<1>1. DecideCandidate("fail", <<>>, n) = "rollback"
  BY DEF DecideCandidate
<1>2. failed \in CandidateOutcomes(n)
  BY <1>1 DEF CandidateOutcomes, Verdicts
<1>3. failed.observed = FALSE
  OBVIOUS
<1> HIDE DEF failed, n
<1>4. PICK tmp \in TmpSeen(m.service, failed.observed) : TRUE
  BY <1>3 DEF TmpSeen
<1> DEFINE Of(o) ==
        {[mutation |-> m, parent |-> config, candidate |-> config \cup {Change(m)},
          boot |-> o.boot, journeys |-> o.journeys, verdict |-> o.verdict,
          tmp |-> t] : t \in TmpSeen(m.service, o.observed)}
<1>5. Of(failed) # {}
  BY <1>4
<1>6. Records(m, config, results) = UNION {Of(o) : o \in CandidateOutcomes(n)}
  BY DEF Records, n
<1> HIDE DEF Of
<1>7. Of(failed) \subseteq Records(m, config, results)
  BY <1>2, <1>6
<1>8. QED
  BY <1>5, <1>7

\* The number of journeys, or none, that a baseline may have.
LEMMA BaselinesExist == BaselineResults # {}
<1>1. 0 \in 0..MaxJourneys
  BY JourneysAssumption
<1>2. [i \in 1..0 |-> "pass"] \in [1..0 -> Verdicts]
  BY DEF Verdicts
<1>3. [i \in 1..0 |-> "pass"] \in BaselineResults
  BY <1>1, <1>2 DEF BaselineResults
<1>4. QED
  BY <1>3

\* A decided experiment makes the history one longer.
LEMMA LenOfGrown ==
    ASSUME LoopInv, NEW r
    PROVE  Len(Append(experiments, r)) = Len(experiments) + 1
<1> DEFINE S == RecordSet \cup {r}
<1>1. experiments \in Seq(S) /\ r \in S
  BY DEF LoopInv
<1>2. QED
  BY <1>1, AppendProperties

\* What the budget of eight experiments leaves.
LEMMA BudgetLeft ==
    \A n \in Nat : n <= 8 =>
        /\ 9 - n \in 0..10 /\ 10 - n \in 0..10
        /\ 0 < 9 - n /\ 0 < 10 - n /\ 9 - n < 10 - n
        /\ 9 - (n + 1) < 9 - n
OBVIOUS

LEMMA AheadBounds ==
    ASSUME LoopInv
    PROVE  LoopAhead \in 0..10 /\ (stop = "none" => 0 < LoopAhead)
<1>1. Len(experiments) \in Nat /\ Len(experiments) <= 8
  BY LenProperties DEF LoopInv, WithinBudget
<1>2. CASE stop = "none"
  <2>1. LoopAhead = 9 - Len(experiments) \/ LoopAhead = 10 - Len(experiments)
    BY <1>2 DEF LoopAhead
  <2>2. QED
    BY ONLY <1>1, <2>1, BudgetLeft
<1>3. CASE stop # "none"
  BY <1>3 DEF LoopAhead
<1>4. QED
  BY <1>2, <1>3

LEMMA StepsNearer ==
    ASSUME LoopInv, Next
    PROVE  LoopAhead' < LoopAhead
<1>1. stop = "none"
  BY DEF Next, Advance, Observe, Try, Reject, Finish, GiveUp, Running
<1>2. Len(experiments) \in Nat /\ Len(experiments) <= 8 /\ 0 < LoopAhead
  BY <1>1, AheadBounds, LenProperties DEF LoopInv, WithinBudget
<1>3. CASE stop' # "none"
  <2>1. LoopAhead' = 0
    BY <1>3 DEF LoopAhead
  <2>2. QED
    BY ONLY <1>2, <2>1
<1>4. CASE Observe
  <2>1. LoopAhead = 10 - Len(experiments) /\ LoopAhead' = 9 - Len(experiments)
    BY <1>4 DEF Observe, LoopAhead
  <2>2. QED
    BY ONLY <1>2, <2>1, BudgetLeft
<1>5. CASE Try /\ stop' = "none"
  <2>1. \E r : experiments' = Append(experiments, r)
    BY <1>5 DEF Try
  <2>2. Len(experiments') = Len(experiments) + 1
    BY <2>1, LenOfGrown
  <2>3. LoopAhead = 9 - Len(experiments) /\ LoopAhead' = 9 - (Len(experiments) + 1)
    BY <1>5, <2>2 DEF Try, Running, LoopAhead
  <2>4. QED
    BY ONLY <1>2, <2>3, BudgetLeft
<1>6. CASE Reject \/ Finish \/ GiveUp
  <2>1. stop' # "none"
    BY <1>6 DEF Reject, Finish, GiveUp
  <2>2. QED
    BY <1>3, <2>1
<1>7. QED
  BY <1>3, <1>4, <1>5, <1>6 DEF Next, Advance

\* The loop comes to an end, whatever its experiments find: until it stops it
\* knows its next step, and every step takes one of at most ten.
THEOREM LoopGetsOn ==
    Spec => /\ [](LoopAhead \in 0..10)
            /\ [](stop = "none" => KnowsNext)
            /\ [][LoopAhead' < LoopAhead]_vars
<1>1. LoopInv => LoopAhead \in 0..10
  BY AheadBounds
<1>2. KnowsNext
  <2>1. CASE Proposals(experiments, current) = {}
    BY <2>1, BaselinesExist DEF KnowsNext
  <2>2. CASE Proposals(experiments, current) # {}
    <3>1. PICK m \in Proposals(experiments, current) : TRUE
      BY <2>2
    <3>2. QED
      BY <3>1, OutcomesExist, BaselinesExist DEF KnowsNext
  <2>3. QED
    BY <2>1, <2>2
<1>3. LoopInv /\ [Next]_vars => [LoopAhead' < LoopAhead]_vars
  BY StepsNearer
<1>4. QED
  BY <1>1, <1>2, <1>3, LoopInvariant, PTL DEF Spec
=============================================================================
