------------------------- MODULE MisinformationProofs -------------------------
(***************************************************************************)
(* The chaincode's invariants, and that it implements the abstract         *)
(* consensus, for any organisations, reports, limits and clock readings.   *)
(***************************************************************************)
EXTENDS ConsensusRefinement, MockLedger, FiniteSetTheorems, SequenceTheorems, TLAPS

-----------------------------------------------------------------------------
(* The two thresholds. *)

\* What SubmitFactCheck requires is the least integer that is two thirds of n.
LEMMA RequiredIsTwoThirds ==
  ASSUME NEW n \in Nat
  PROVE  /\ required(n) \in Nat
         /\ 3 * required(n) >= 2 * n
         /\ 3 * (required(n) - 1) < 2 * n
BY DEF required

\* The integer formula of quorumFor and the float formula of SubmitFactCheck
\* give the same threshold for every number of members.
THEOREM QuorumsAgree ==
  ASSUME NEW n \in Nat
  PROVE  quorumFor(n) = required(n)
BY DEF quorumFor, required

-----------------------------------------------------------------------------
(* Counting the votes of a slice. *)

LEMMA TallyType ==
  ASSUME NEW s \in Seq(FactCheck), NEW o
  PROVE  /\ IsFiniteSet({i \in DOMAIN s : s[i].outcome = o})
         /\ tally(s, o) \in Nat
<1>1. IsFiniteSet(1 .. Len(s)) BY FS_Interval
<1>2. {i \in DOMAIN s : s[i].outcome = o} \subseteq 1 .. Len(s) OBVIOUS
<1>3. IsFiniteSet({i \in DOMAIN s : s[i].outcome = o}) BY <1>1, <1>2, FS_Subset
<1> QED BY <1>3, FS_CardinalityType DEF tally

\* A new vote counts once, for its own outcome.
LEMMA TallyAppend ==
  ASSUME NEW s \in Seq(FactCheck), NEW c \in FactCheck, NEW o
  PROVE  tally(Append(s, c), o) = tally(s, o) + (IF c.outcome = o THEN 1 ELSE 0)
<1> DEFINE old == {i \in DOMAIN s : s[i].outcome = o}
           new == {i \in DOMAIN Append(s, c) : Append(s, c)[i].outcome = o}
           last == Len(s) + 1
<1>1. IsFiniteSet(old) BY TallyType
<1>2. /\ last \notin DOMAIN s
      /\ DOMAIN Append(s, c) = DOMAIN s \cup {last}
      /\ Append(s, c)[last] = c
      /\ \A i \in DOMAIN s : Append(s, c)[i] = s[i]
  OBVIOUS
<1>5. tally(s, o) = Cardinality(old) /\ tally(Append(s, c), o) = Cardinality(new)
  BY DEF tally
<1>6. Cardinality(old) \in Nat BY <1>1, FS_CardinalityType
<1>3. CASE c.outcome = o
  <2>1. new = old \cup {last} BY <1>2, <1>3
  <2>2. Cardinality(old \cup {last}) = Cardinality(old) + 1 BY <1>1, <1>2, FS_AddElement
  <2> HIDE DEF old, new
  <2> QED BY <1>3, <1>5, <1>6, <2>1, <2>2
<1>4. CASE c.outcome # o
  <2>1. new = old BY <1>2, <1>4
  <2> HIDE DEF old, new
  <2> QED BY <1>4, <1>5, <1>6, <2>1
<1> QED BY <1>3, <1>4

\* Every vote is for one of the two outcomes.
LEMMA TallySum ==
  ASSUME NEW s \in Seq(FactCheck)
  PROVE  tally(s, "0") + tally(s, "1") = Len(s)
<1> DEFINE T(o) == {i \in DOMAIN s : s[i].outcome = o}
<1>1. IsFiniteSet(T("0")) /\ IsFiniteSet(T("1")) BY TallyType
<1>2. T("0") \cap T("1") = {} OBVIOUS
<1>3. T("0") \cup T("1") = 1 .. Len(s)
  <2>0. \A i \in DOMAIN s : s[i] \in FactCheck OBVIOUS
  <2>1. \A i \in DOMAIN s : s[i].outcome \in {"0", "1"} BY <2>0 DEF FactCheck, Outcomes
  <2> QED BY <2>1
<1>4. Cardinality(1 .. Len(s)) = Len(s)
  <2> DEFINE n == Len(s)
  <2>1. n \in Nat OBVIOUS
  <2> HIDE DEF n
  <2>2. Cardinality(1 .. n) = n BY <2>1, FS_Interval
  <2> QED BY <2>2 DEF n
<1>5. Cardinality({}) = 0 BY FS_EmptySet
<1>6. Cardinality(T("0") \cup T("1")) = Cardinality(T("0")) + Cardinality(T("1")) - 0
  <2> HIDE DEF T
  <2> QED BY <1>1, <1>2, <1>5, FS_Union
<1>7. Cardinality(T("0")) \in Nat /\ Cardinality(T("1")) \in Nat BY <1>1, FS_CardinalityType
<1>8. tally(s, "0") = Cardinality(T("0")) /\ tally(s, "1") = Cardinality(T("1"))
  BY DEF tally
<1>9. Len(s) \in Nat OBVIOUS
<1>10. Cardinality(T("0") \cup T("1")) = Len(s) BY <1>3, <1>4
<1>11. Cardinality(T("0")) + Cardinality(T("1")) = Len(s)
  <2> HIDE DEF T
  <2> QED BY <1>6, <1>7, <1>9, <1>10
<1> QED BY <1>8, <1>11

LEMMA TallyEmpty == \A o : tally(<<>>, o) = 0
<1> SUFFICES ASSUME NEW o PROVE tally(<<>>, o) = 0 OBVIOUS
<1>1. {i \in DOMAIN <<>> : <<>>[i].outcome = o} = {} OBVIOUS
<1> QED BY <1>1, FS_EmptySet DEF tally

LEMMA CheckersAppend ==
  ASSUME NEW s \in Seq(FactCheck), NEW c \in FactCheck
  PROVE  Checkers(Append(s, c)) = Checkers(s) \cup {c.checker}
<1>1. /\ DOMAIN Append(s, c) = DOMAIN s \cup {Len(s) + 1}
      /\ Append(s, c)[Len(s) + 1] = c
      /\ \A i \in DOMAIN s : Append(s, c)[i] = s[i]
  OBVIOUS
<1> QED BY <1>1 DEF Checkers

LEMMA CheckersEmpty == Checkers(<<>>) = {}
BY DEF Checkers

LEMMA CheckersFinite ==
  ASSUME NEW s \in Seq(FactCheck), NEW E, IsFiniteSet(E), Checkers(s) \subseteq E
  PROVE  /\ IsFiniteSet(Checkers(s))
         /\ Cardinality(Checkers(s)) \in Nat
BY FS_Subset, FS_CardinalityType

\* When nobody voted twice, whoever has not voted is all but Len(s) of them.
LEMMA RemainingIsRest ==
  ASSUME NEW s \in Seq(FactCheck), NEW E, IsFiniteSet(E), Checkers(s) \subseteq E,
         Len(s) = Cardinality(Checkers(s))
  PROVE  /\ remaining(E, s) = Cardinality(E) - Len(s)
         /\ remaining(E, s) \in Nat
         /\ Cardinality(E) \in Nat
<1>1. E \cap Checkers(s) = Checkers(s) OBVIOUS
<1>2. Cardinality(E \ Checkers(s)) = Cardinality(E) - Cardinality(E \cap Checkers(s))
  BY FS_Difference
<1>3. IsFiniteSet(E \ Checkers(s)) BY FS_Difference
<1>4. Cardinality(E \ Checkers(s)) \in Nat /\ Cardinality(E) \in Nat
  BY <1>3, FS_CardinalityType
<1> QED BY <1>1, <1>2, <1>4 DEF remaining

-----------------------------------------------------------------------------
(* Type correctness. *)

LEMMA TypeInit == Init => TypeOK
<1> SUFFICES ASSUME Init PROVE TypeOK OBVIOUS
<1>1. NoReport \in ReportRecord /\ NoRequest \in OrgAdmissionRequest
  BY DEF NoReport, NoRequest, ReportRecord, OrgAdmissionRequest
<1> QED BY <1>1, TimesAssumption DEF Init, TypeOK, defaultFoundingOrgLimit

LEMMA AfterFactCheckType ==
  ASSUME NEW rec \in ReportRecord, NEW E, NEW c \in FactCheck
  PROVE  AfterFactCheck(rec, E, c) \in ReportRecord
<1> DEFINE status == StatusAfterVote(E, Append(rec.checks, c))
<1>1. Append(rec.checks, c) \in Seq(FactCheck) BY DEF ReportRecord
<1>2. status \in {"FINAL", "REJECTED", "UNDER_REVIEW"} BY DEF StatusAfterVote
<1>3. (IF status = "FINAL" THEN "1" ELSE rec.label) \in {"none"} \cup Outcomes
  BY DEF ReportRecord, Outcomes
<1>4. rec.deadline \in Nat BY DEF ReportRecord
<1>5. AfterFactCheck(rec, E, c) = [status   |-> status,
                                   checks   |-> Append(rec.checks, c),
                                   label    |-> IF status = "FINAL" THEN "1" ELSE rec.label,
                                   deadline |-> rec.deadline]
  BY DEF AfterFactCheck
<1> HIDE DEF status
<1> QED BY <1>1, <1>2, <1>3, <1>4, <1>5 DEF ReportRecord

LEMMA TypeNext == TypeOK /\ [Next]_vars => TypeOK'
<1> SUFFICES ASSUME TypeOK, [Next]_vars PROVE TypeOK' OBVIOUS
<1> USE DEF TypeOK
<1>1. ASSUME NEW role \in Roles, NEW limit \in Limits, SetFoundingOrgLimit(role, limit)
      PROVE  TypeOK'
  BY <1>1, LimitsAssumption DEF SetFoundingOrgLimit, maySetFoundingOrgLimit, validLimit
<1>2. ASSUME NEW org \in Orgs, RegisterOrg(org) PROVE TypeOK'
  BY <1>2 DEF RegisterOrg, mayRegisterOrg, vars
<1>3. ASSUME NEW org \in Candidates, RequestOrgAdmission(org) PROVE TypeOK'
  <2>1. [status |-> "PENDING", votes |-> <<>>] \in OrgAdmissionRequest
    BY DEF OrgAdmissionRequest
  <2> QED BY <1>3, <2>1, OrgsAssumption DEF RequestOrgAdmission, NewRequest
<1>4. ASSUME NEW org \in Orgs, NEW role \in Roles, NEW c \in Orgs, NEW v \in Outcomes,
             VoteOnOrgAdmission(org, role, c, v)
      PROVE  TypeOK'
  <2>1. [voter |-> org, verdict |-> v] \in Vote BY DEF Vote
  <2>2. admission[c] \in OrgAdmissionRequest OBVIOUS
  <2>4. Append(admission[c].votes, [voter |-> org, verdict |-> v]) \in Seq(Vote)
    BY <2>1, <2>2 DEF OrgAdmissionRequest
  <2>3. \A votes \in Seq(Vote) : [admission[c] EXCEPT !.votes = votes] \in OrgAdmissionRequest
    <3> SUFFICES ASSUME NEW votes \in Seq(Vote)
                 PROVE  [admission[c] EXCEPT !.votes = votes] \in OrgAdmissionRequest
      OBVIOUS
    <3> QED BY <2>2 DEF OrgAdmissionRequest
  <2> QED BY <1>4, <2>3, <2>4 DEF VoteOnOrgAdmission, AfterVote
<1>5. ASSUME NEW org \in Orgs, NEW role \in Roles, NEW c \in Orgs,
             FinalizeOrgAdmission(org, role, c)
      PROVE  TypeOK'
  <2>1. [admission[c] EXCEPT !.status = "ADMITTED"] \in OrgAdmissionRequest
    BY DEF OrgAdmissionRequest
  <2> QED BY <1>5, <2>1 DEF FinalizeOrgAdmission
<1>6. ASSUME NEW org \in Orgs, NEW role \in Roles, NEW r \in Reports, NEW ts \in Times,
             Submit(org, role, r, ts)
      PROVE  TypeOK'
  <2>1. ts + Window \in Nat BY TimesAssumption, WindowAssumption
  <2>2. [status |-> "PENDING", checks |-> <<>>, label |-> "none", deadline |-> ts + Window]
          \in ReportRecord
    BY <2>1 DEF ReportRecord
  <2> QED BY <1>6, <2>2 DEF Submit, NewReport
<1>7. ASSUME NEW org \in Orgs, NEW role \in Roles, NEW r \in Reports, NEW o \in Outcomes,
             SubmitFactCheck(org, role, r, o)
      PROVE  TypeOK'
  <2>1. report[r] \in ReportRecord OBVIOUS
  <2>2. [checker |-> org, outcome |-> o] \in FactCheck BY DEF FactCheck
  <2>3. AfterFactCheck(report[r], registered, [checker |-> org, outcome |-> o]) \in ReportRecord
    BY <2>1, <2>2, AfterFactCheckType
  <2> QED BY <1>7, <2>3 DEF SubmitFactCheck
<1>8. ASSUME NEW org \in Orgs, NEW role \in Roles, NEW r \in Reports,
             FinalizeReport(org, role, r)
      PROVE  TypeOK'
  <2>1. \A w \in Outcomes :
          [report[r] EXCEPT !.label = w, !.status = "FINAL"] \in ReportRecord
    BY DEF ReportRecord
  <2> QED BY <1>8, <2>1 DEF FinalizeReport, mayFinalizeReport
<1>9. ASSUME NEW org \in Orgs, NEW role \in Roles, NEW r \in Reports,
             ExpireReport(org, role, r)
      PROVE  TypeOK'
  <2>1. [report[r] EXCEPT !.status = "EXPIRED"] \in ReportRecord BY DEF ReportRecord
  <2> QED BY <1>9, <2>1 DEF ExpireReport
<1>10. CASE Tick BY <1>10 DEF Tick
<1>11. CASE UNCHANGED vars BY <1>11 DEF vars
<1> QED
  BY <1>1, <1>2, <1>3, <1>4, <1>5, <1>6, <1>7, <1>8, <1>9, <1>10, <1>11
  DEF Next, MembershipStep, ReportStep

\* Every key of the world state always holds a well-formed record.
THEOREM TypeCorrect == Spec => []TypeOK
<1>1. Init => TypeOK BY TypeInit
<1>2. TypeOK /\ [Next]_vars => TypeOK' BY TypeNext
<1> QED BY <1>1, <1>2, PTL DEF Spec

-----------------------------------------------------------------------------
(* The reports. *)

(***************************************************************************)
(* The inductive invariant of one record, for the members E.  The four     *)
(* invariants of Misinformation are its parts; what they lack to be        *)
(* inductive is that a report without votes has none on its record, that   *)
(* an open report has at least one member to vote on it, and that only a   *)
(* final report has a label.                                               *)
(***************************************************************************)
RecordInv(rec, E) ==
  LET n == Cardinality(E)  yes == tally(rec.checks, "1")  no == tally(rec.checks, "0") IN
    /\ Len(rec.checks) = Cardinality(Checkers(rec.checks))
    /\ Checkers(rec.checks) \subseteq E
    /\ rec.status \in {"ABSENT", "PENDING"} => rec.checks = <<>>
    /\ rec.status # "FINAL" => rec.label = "none"
    /\ Open(rec.status) => /\ 3 * yes < 2 * n
                           /\ 3 * (yes + n - Len(rec.checks)) >= 2 * n
    /\ rec.status = "FINAL" => \/ rec.label = "1" /\ yes > no
                               \/ rec.label = "0" /\ no > yes
    /\ rec.status = "REJECTED" => 2 * no > yes

ReportsInv == \A r \in Reports : RecordInv(report[r], registered)

\* A report on which nobody voted.
LEMMA FreshRecord ==
  ASSUME NEW d \in Nat, NEW E, IsFiniteSet(E),
         NEW st \in {"ABSENT", "PENDING"}, st = "PENDING" => E # {}
  PROVE  RecordInv([status |-> st, checks |-> <<>>, label |-> "none", deadline |-> d], E)
<1> DEFINE rec == [status |-> st, checks |-> <<>>, label |-> "none", deadline |-> d]
<1>1. Cardinality(E) \in Nat /\ (E # {} => Cardinality(E) # 0)
  BY FS_CardinalityType, FS_EmptySet
<1>2. Cardinality(Checkers(<<>>)) = 0 BY CheckersEmpty, FS_EmptySet
<1>3. tally(<<>>, "1") = 0 /\ tally(<<>>, "0") = 0 BY TallyEmpty
<1>4. /\ rec.status = st /\ rec.checks = <<>> /\ rec.label = "none"
      /\ Len(<<>>) = 0
  OBVIOUS
<1> HIDE DEF rec
<1>5. Open(rec.status) => /\ 3 * tally(rec.checks, "1") < 2 * Cardinality(E)
                          /\ 3 * (tally(rec.checks, "1") + Cardinality(E) - Len(rec.checks))
                                >= 2 * Cardinality(E)
  <2>1. Open(rec.status) => Cardinality(E) # 0 BY <1>1, <1>4 DEF Open
  <2>2. tally(rec.checks, "1") = 0 BY <1>3, <1>4
  <2>3. Len(rec.checks) = 0 BY <1>4
  <2> QED BY <1>1, <2>1, <2>2, <2>3
<1>6. RecordInv(rec, E) BY <1>2, <1>4, <1>5, CheckersEmpty DEF RecordInv
<1> QED BY <1>6 DEF rec

\* A new member leaves every record as good as it was: the threshold of an open
\* report grows by one at most, and the newcomer has a vote.
LEMMA GrowthKeepsRecord ==
  ASSUME NEW rec \in ReportRecord, NEW E, IsFiniteSet(E), NEW o, o \notin E,
         RecordInv(rec, E)
  PROVE  RecordInv(rec, E \cup {o})
<1>1. Cardinality(E \cup {o}) = Cardinality(E) + 1 BY FS_AddElement
<1>2. Cardinality(E) \in Nat BY FS_CardinalityType
<1>3. rec.checks \in Seq(FactCheck) BY DEF ReportRecord
<1>4. tally(rec.checks, "1") \in Nat /\ Len(rec.checks) \in Nat
  <2>1. tally(rec.checks, "1") \in Nat BY <1>3, TallyType
  <2>2. Len(rec.checks) \in Nat BY <1>3
  <2> QED BY <2>1, <2>2
<1>5. Open(rec.status) =>
        /\ 3 * tally(rec.checks, "1") < 2 * Cardinality(E \cup {o})
        /\ 3 * (tally(rec.checks, "1") + Cardinality(E \cup {o}) - Len(rec.checks))
              >= 2 * Cardinality(E \cup {o})
  BY <1>1, <1>2, <1>4 DEF RecordInv
<1> QED BY <1>5 DEF RecordInv

\* A vote of a member who has not voted keeps the record good, and decides it
\* exactly when the members can no longer decide otherwise.
LEMMA VoteKeepsRecord ==
  ASSUME NEW rec \in ReportRecord, NEW E, IsFiniteSet(E), NEW c \in FactCheck,
         RecordInv(rec, E), Open(rec.status), c.checker \in E,
         c.checker \notin Checkers(rec.checks)
  PROVE  LET new == AfterFactCheck(rec, E, c)  n == Cardinality(E) IN
           /\ RecordInv(new, E)
           /\ new.status = "FINAL" => new.label = "1" /\ 3 * tally(new.checks, "1") >= 2 * n
           /\ new.status = "REJECTED" => 3 * tally(new.checks, "0") > n
           /\ new.checks = Append(rec.checks, c)
           /\ new.deadline = rec.deadline
           /\ new.status \in {"FINAL", "REJECTED", "UNDER_REVIEW"}
<1> DEFINE s == rec.checks
           t == Append(s, c)
           n == Cardinality(E)
           new == AfterFactCheck(rec, E, c)
           yes == tally(t, "1")
           no == tally(t, "0")
<1>1. s \in Seq(FactCheck) /\ t \in Seq(FactCheck) BY DEF ReportRecord
<1>2. new = [status   |-> StatusAfterVote(E, t),
             checks   |-> t,
             label    |-> IF StatusAfterVote(E, t) = "FINAL" THEN "1" ELSE rec.label,
             deadline |-> rec.deadline]
  BY DEF AfterFactCheck
<1>3. /\ new.status = StatusAfterVote(E, t) /\ new.checks = t
      /\ new.label = IF new.status = "FINAL" THEN "1" ELSE rec.label
      /\ new.deadline = rec.deadline
  <2> HIDE DEF new, t
  <2> QED BY <1>2
<1>4. rec.label = "none" BY DEF RecordInv, Open
<1>5. Checkers(s) \subseteq E /\ Len(s) = Cardinality(Checkers(s)) BY DEF RecordInv
<1>6. Checkers(t) = Checkers(s) \cup {c.checker} BY <1>1, CheckersAppend
<1>7. Checkers(t) \subseteq E BY <1>5, <1>6
<1>8. Len(t) = Len(s) + 1 /\ Len(s) \in Nat /\ Len(t) \in Nat BY <1>1
<1>9. Len(t) = Cardinality(Checkers(t))
  <2>1. IsFiniteSet(Checkers(s)) BY <1>1, <1>5, CheckersFinite
  <2>2. Cardinality(Checkers(s) \cup {c.checker}) = Cardinality(Checkers(s)) + 1
    BY <2>1, FS_AddElement
  <2> QED BY <2>2, <1>5, <1>6, <1>8
<1>10. remaining(E, t) = n - Len(t) /\ remaining(E, t) \in Nat /\ n \in Nat
  BY <1>1, <1>7, <1>9, RemainingIsRest
<1>11. yes \in Nat /\ no \in Nat /\ no + yes = Len(t)
  BY <1>1, TallyType, TallySum
<1>12. required(n) \in Nat /\ 3 * required(n) >= 2 * n /\ 3 * (required(n) - 1) < 2 * n
  BY <1>10, RequiredIsTwoThirds
<1>13. StatusAfterVote(E, t) = IF yes >= required(n) THEN "FINAL"
                               ELSE IF yes + remaining(E, t) < required(n) THEN "REJECTED"
                               ELSE "UNDER_REVIEW"
  BY DEF StatusAfterVote
<1> HIDE DEF s, t, n, new, yes, no
<1>14. CASE yes >= required(n)
  <2>1. new.status = "FINAL" /\ new.label = "1" BY <1>3, <1>13, <1>14
  <2>2. 3 * yes >= 2 * n BY <1>10, <1>11, <1>12, <1>14
  <2>3. yes > no
    <3>1. n >= 1
      <4>1. E # {} OBVIOUS
      <4> QED BY <4>1, <1>10, FS_EmptySet DEF n
    <3> QED BY <2>2, <3>1, <1>10, <1>11
  <2>4. RecordInv(new, E)
    BY <2>1, <2>3, <1>3, <1>7, <1>9 DEF RecordInv, Open, yes, no
  <2> QED BY <2>1, <2>2, <2>4, <1>3 DEF n, yes, no, new, s, t
<1>15. CASE yes < required(n) /\ yes + remaining(E, t) < required(n)
  <2>1. new.status = "REJECTED" /\ new.label = "none"
    BY <1>3, <1>4, <1>10, <1>11, <1>12, <1>13, <1>15
  <2>2. 3 * no > n BY <1>10, <1>11, <1>12, <1>15
  <2>3. 2 * no > yes BY <2>2, <1>10, <1>11
  <2>4. RecordInv(new, E)
    BY <2>1, <2>3, <1>3, <1>7, <1>9 DEF RecordInv, Open, yes, no
  <2> QED BY <2>1, <2>2, <2>4, <1>3 DEF n, yes, no, new, s, t
<1>16. CASE yes < required(n) /\ ~(yes + remaining(E, t) < required(n))
  <2>1. new.status = "UNDER_REVIEW" /\ new.label = "none"
    BY <1>3, <1>4, <1>10, <1>11, <1>12, <1>13, <1>16
  <2>2. 3 * yes < 2 * n /\ 3 * (yes + n - Len(t)) >= 2 * n
    BY <1>8, <1>10, <1>11, <1>12, <1>16
  <2>3. RecordInv(new, E)
    BY <2>1, <2>2, <1>3, <1>7, <1>9 DEF RecordInv, Open, yes, no, n
  <2> QED BY <2>1, <2>3, <1>3 DEF n, yes, no, new, s, t
<1> QED BY <1>11, <1>12, <1>14, <1>15, <1>16

LEMMA RegisteredFinite == TypeOK => IsFiniteSet(registered)
BY OrgsAssumption, FS_Subset DEF TypeOK

LEMMA ReportsInit == Init => ReportsInv
<1> SUFFICES ASSUME Init, NEW r \in Reports PROVE RecordInv(report[r], registered)
  BY DEF ReportsInv
<1>1. report[r] = [status |-> "ABSENT", checks |-> <<>>, label |-> "none", deadline |-> 0]
  BY DEF Init, NoReport
<1>2. IsFiniteSet(registered) BY FS_EmptySet DEF Init
<1> QED BY <1>1, <1>2, FreshRecord

LEMMA OneRecordChanges ==
  ASSUME TypeOK, ReportsInv, NEW r \in Reports, NEW rec,
         report' = [report EXCEPT ![r] = rec], registered' = registered,
         RecordInv(rec, registered)
  PROVE  ReportsInv'
BY DEF ReportsInv, TypeOK

\* What a transaction on report r may do to its record.
GoodChange(r) ==
  LET old == report[r]  new == report'[r]  n == Cardinality(registered) IN
    /\ ~Closed(old.status)
    /\ new.status # "ABSENT"
    /\ Len(new.checks) <= Len(old.checks) + 1
    /\ old.checks = SubSeq(new.checks, 1, Len(old.checks))
    /\ old.status # "ABSENT" => new.deadline = old.deadline
    /\ Open(old.status) /\ Closed(new.status) /\ now <= old.deadline =>
         \/ new.status = "FINAL" /\ new.label = "1" /\ 3 * tally(new.checks, "1") >= 2 * n
         \/ new.status = "REJECTED" /\ 3 * tally(new.checks, "0") > n

\* One record changes, and well.
ReportChange ==
  \E r \in Reports :
    /\ \A q \in Reports \ {r} : report'[q] = report[q]
    /\ GoodChange(r)

LEMMA SubmitGood ==
  ASSUME TypeOK, ReportsInv, NEW org \in Orgs, NEW role \in Roles, NEW r \in Reports,
         NEW ts \in Times, Submit(org, role, r, ts)
  PROVE  ReportsInv' /\ ReportChange
<1> DEFINE rec == [status |-> "PENDING", checks |-> <<>>, label |-> "none",
                   deadline |-> ts + Window]
<1>1. /\ report' = [report EXCEPT ![r] = rec] /\ registered' = registered
      /\ report[r].status = "ABSENT" /\ org \in registered
  BY DEF Submit, maySubmit, NewReport
<1>2. ts + Window \in Nat BY TimesAssumption, WindowAssumption
<1>3. RecordInv(rec, registered) BY <1>1, <1>2, RegisteredFinite, FreshRecord
<1>4. ReportsInv' 
  <2> HIDE DEF rec
  <2> QED BY <1>1, <1>3, OneRecordChanges
<1>5. report'[r] = rec /\ \A q \in Reports \ {r} : report'[q] = report[q]
  BY <1>1 DEF TypeOK
<1>6. report[r].checks = <<>> BY <1>1 DEF ReportsInv, RecordInv
<1>7. rec.status = "PENDING" /\ rec.checks = <<>> /\ Len(<<>>) = 0 /\ SubSeq(<<>>, 1, 0) = <<>>
  OBVIOUS
<1> HIDE DEF rec
<1>8. GoodChange(r) BY <1>1, <1>5, <1>6, <1>7 DEF GoodChange, Open, Closed
<1> QED BY <1>4, <1>5, <1>8 DEF ReportChange

LEMMA VoteGood ==
  ASSUME TypeOK, ReportsInv, NEW org \in Orgs, NEW role \in Roles, NEW r \in Reports,
         NEW o \in Outcomes, SubmitFactCheck(org, role, r, o)
  PROVE  ReportsInv' /\ ReportChange
<1> DEFINE c == [checker |-> org, outcome |-> o]
           rec == AfterFactCheck(report[r], registered, c)
<1>1. /\ report' = [report EXCEPT ![r] = rec] /\ registered' = registered
      /\ org \in registered /\ Open(report[r].status)
      /\ org \notin Checkers(report[r].checks)
  BY DEF SubmitFactCheck, maySubmitFactCheck, hasChecked
<1>2. c \in FactCheck /\ c.checker = org BY DEF FactCheck
<1>3. report[r] \in ReportRecord /\ IsFiniteSet(registered) BY RegisteredFinite DEF TypeOK
<1>4. RecordInv(report[r], registered) BY DEF ReportsInv
<1> HIDE DEF c
<1>5. /\ RecordInv(rec, registered)
      /\ rec.status = "FINAL" => rec.label = "1"
                                 /\ 3 * tally(rec.checks, "1") >= 2 * Cardinality(registered)
      /\ rec.status = "REJECTED" => 3 * tally(rec.checks, "0") > Cardinality(registered)
      /\ rec.checks = Append(report[r].checks, c)
      /\ rec.deadline = report[r].deadline
      /\ rec.status \in {"FINAL", "REJECTED", "UNDER_REVIEW"}
  BY <1>1, <1>2, <1>3, <1>4, VoteKeepsRecord
<1> HIDE DEF rec
<1>6. ReportsInv' BY <1>1, <1>5, OneRecordChanges
<1>7. report'[r] = rec /\ \A q \in Reports \ {r} : report'[q] = report[q]
  BY <1>1 DEF TypeOK
<1>8. /\ Len(rec.checks) <= Len(report[r].checks) + 1
      /\ report[r].checks = SubSeq(rec.checks, 1, Len(report[r].checks))
  <2>1. report[r].checks \in Seq(FactCheck) BY <1>3 DEF ReportRecord
  <2>2. ASSUME NEW s \in Seq(FactCheck)
        PROVE  Len(Append(s, c)) <= Len(s) + 1 /\ s = SubSeq(Append(s, c), 1, Len(s))
    BY <1>2
  <2> QED BY <1>5, <2>1, <2>2
<1>9. GoodChange(r) BY <1>1, <1>5, <1>7, <1>8 DEF GoodChange, Open, Closed
<1> QED BY <1>6, <1>7, <1>9 DEF ReportChange

\* A transaction that closes r after its deadline and leaves its checks alone.
LEMMA CloseGood ==
  ASSUME TypeOK, ReportsInv, NEW r \in Reports, NEW rec, NEW st \in {"FINAL", "EXPIRED"},
         Open(report[r].status), isPastDeadline(r),
         report' = [report EXCEPT ![r] = rec], registered' = registered,
         rec.status = st, rec.checks = report[r].checks, rec.deadline = report[r].deadline,
         st = "EXPIRED" => rec.label = report[r].label,
         st = "FINAL" => rec.label \in Outcomes /\ Winner(rec.checks, rec.label)
  PROVE  ReportsInv' /\ ReportChange
<1>1. RecordInv(report[r], registered) BY DEF ReportsInv
<1>2. report[r] \in ReportRecord /\ report[r].checks \in Seq(FactCheck)
  BY DEF TypeOK, ReportRecord
<1>3. report[r].label = "none" BY <1>1 DEF RecordInv, Open
<1>4. st = "FINAL" => \/ rec.label = "1" /\ tally(rec.checks, "1") > tally(rec.checks, "0")
                      \/ rec.label = "0" /\ tally(rec.checks, "0") > tally(rec.checks, "1")
  BY DEF Winner, Outcomes
<1>5. RecordInv(rec, registered)
  <2>1. Len(rec.checks) = Cardinality(Checkers(rec.checks)) /\ Checkers(rec.checks) \subseteq registered
    BY <1>1 DEF RecordInv
  <2> QED BY <2>1, <1>3, <1>4 DEF RecordInv, Open
<1>6. ReportsInv' BY <1>5, OneRecordChanges
<1>7. report'[r] = rec /\ \A q \in Reports \ {r} : report'[q] = report[q] BY DEF TypeOK
<1>8. now \in Nat /\ report[r].deadline \in Nat
  BY <1>2, TimesAssumption DEF TypeOK, ReportRecord
<1>9. ~(now <= report[r].deadline) BY <1>8 DEF isPastDeadline
<1>10. Len(rec.checks) <= Len(report[r].checks) + 1
       /\ report[r].checks = SubSeq(rec.checks, 1, Len(report[r].checks))
  <2>1. ASSUME NEW s \in Seq(FactCheck) PROVE Len(s) <= Len(s) + 1 /\ s = SubSeq(s, 1, Len(s))
    OBVIOUS
  <2> QED BY <1>2, <2>1
<1>11. GoodChange(r) BY <1>7, <1>9, <1>10 DEF GoodChange, Open, Closed
<1> QED BY <1>6, <1>7, <1>11 DEF ReportChange

\* A new member, with the records as they were.
LEMMA GrowthGood ==
  ASSUME TypeOK, ReportsInv, NEW o, o \notin registered,
         registered' = registered \cup {o}, report' = report
  PROVE  ReportsInv'
<1>1. ASSUME NEW r \in Reports PROVE RecordInv(report[r], registered \cup {o})
  <2>1. RecordInv(report[r], registered) BY DEF ReportsInv
  <2>2. report[r] \in ReportRecord BY DEF TypeOK
  <2> QED BY <2>1, <2>2, RegisteredFinite, GrowthKeepsRecord
<1> QED BY <1>1 DEF ReportsInv

LEMMA NothingChanges ==
  ASSUME ReportsInv, registered' = registered, report' = report
  PROVE  ReportsInv'
BY DEF ReportsInv

\* Every step keeps the invariant, and changes no record or one of them well.
LEMMA ReportsNext ==
  ASSUME TypeOK, ReportsInv, [Next]_vars
  PROVE  ReportsInv' /\ (report' = report \/ ReportChange)
<1>1. ASSUME NEW role \in Roles, NEW limit \in Limits, SetFoundingOrgLimit(role, limit)
      PROVE  ReportsInv' /\ report' = report
  BY <1>1, NothingChanges DEF SetFoundingOrgLimit
<1>2. ASSUME NEW org \in Orgs, RegisterOrg(org) PROVE ReportsInv' /\ report' = report
  <2>1. CASE org \in registered BY <1>2, <2>1, NothingChanges DEF RegisterOrg, vars
  <2>2. CASE org \notin registered BY <1>2, <2>2, GrowthGood DEF RegisterOrg, mayRegisterOrg
  <2> QED BY <2>1, <2>2
<1>3. ASSUME NEW org \in Candidates, RequestOrgAdmission(org)
      PROVE  ReportsInv' /\ report' = report
  BY <1>3, NothingChanges DEF RequestOrgAdmission
<1>4. ASSUME NEW org \in Orgs, NEW role \in Roles, NEW c \in Orgs, NEW v \in Outcomes,
             VoteOnOrgAdmission(org, role, c, v)
      PROVE  ReportsInv' /\ report' = report
  BY <1>4, NothingChanges DEF VoteOnOrgAdmission
<1>5. ASSUME NEW org \in Orgs, NEW role \in Roles, NEW c \in Orgs,
             FinalizeOrgAdmission(org, role, c)
      PROVE  ReportsInv' /\ report' = report
  <2>1. registered' = registered \cup {c} /\ report' = report BY <1>5 DEF FinalizeOrgAdmission
  <2>2. CASE c \in registered
    <3>1. registered' = registered BY <2>1, <2>2
    <3> QED BY <2>1, <3>1, NothingChanges
  <2>3. CASE c \notin registered BY <2>1, <2>3, GrowthGood
  <2> QED BY <2>2, <2>3
<1>6. ASSUME NEW org \in Orgs, NEW role \in Roles, NEW r \in Reports,
             FinalizeReport(org, role, r)
      PROVE  ReportsInv' /\ ReportChange
  <2>1. PICK w \in Outcomes :
          /\ Winner(report[r].checks, w)
          /\ report' = [report EXCEPT ![r] = [@ EXCEPT !.label = w, !.status = "FINAL"]]
    BY <1>6 DEF FinalizeReport, mayFinalizeReport
  <2> DEFINE rec == [report[r] EXCEPT !.label = w, !.status = "FINAL"]
  <2>2. report[r] \in ReportRecord BY DEF TypeOK
  <2>3. /\ rec.status = "FINAL" /\ rec.label = w
        /\ rec.checks = report[r].checks /\ rec.deadline = report[r].deadline
    BY <2>2 DEF ReportRecord
  <2>4. report' = [report EXCEPT ![r] = rec] BY <2>1
  <2>5. Open(report[r].status) /\ isPastDeadline(r) /\ registered' = registered
    BY <1>6 DEF FinalizeReport, mayFinalizeReport
  <2> HIDE DEF rec
  <2> QED BY <2>1, <2>3, <2>4, <2>5, CloseGood
<1>7. ASSUME NEW org \in Orgs, NEW role \in Roles, NEW r \in Reports,
             ExpireReport(org, role, r)
      PROVE  ReportsInv' /\ ReportChange
  <2> DEFINE rec == [report[r] EXCEPT !.status = "EXPIRED"]
  <2>2. report[r] \in ReportRecord BY DEF TypeOK
  <2>3. /\ rec.status = "EXPIRED" /\ rec.label = report[r].label
        /\ rec.checks = report[r].checks /\ rec.deadline = report[r].deadline
    BY <2>2 DEF ReportRecord
  <2>4. /\ report' = [report EXCEPT ![r] = rec] /\ registered' = registered
        /\ Open(report[r].status) /\ isPastDeadline(r)
    BY <1>7 DEF ExpireReport, mayExpireReport
  <2> HIDE DEF rec
  <2> QED BY <2>3, <2>4, CloseGood
<1>8. CASE Tick BY <1>8, NothingChanges DEF Tick
<1>9. CASE UNCHANGED vars BY <1>9, NothingChanges DEF vars
<1> QED
  BY <1>1, <1>2, <1>3, <1>4, <1>5, <1>6, <1>7, <1>8, <1>9, SubmitGood, VoteGood
  DEF Next, MembershipStep, ReportStep

LEMMA ReportsInvariant == Spec => [](TypeOK /\ ReportsInv)
<1>1. Init => TypeOK /\ ReportsInv BY TypeInit, ReportsInit
<1>2. TypeOK /\ ReportsInv /\ [Next]_vars => TypeOK' /\ ReportsInv' BY TypeNext, ReportsNext
<1> QED BY <1>1, <1>2, PTL DEF Spec

\* No organisation has two votes on a report, and only members have one.
THEOREM VotesAreOfMembers == Spec => []OneVotePerOrg
<1>1. TypeOK /\ ReportsInv => OneVotePerOrg BY DEF ReportsInv, RecordInv, OneVotePerOrg
<1> QED BY <1>1, ReportsInvariant, PTL

\* An open report is undecided by the members of the moment, however they
\* joined while the votes came in.
THEOREM OpenReportsAreUndecided == Spec => []OpenReportUndecided
<1>1. TypeOK /\ ReportsInv => OpenReportUndecided
  <2> SUFFICES ASSUME TypeOK, ReportsInv, NEW r \in Reports, Open(report[r].status)
               PROVE  LET n == Cardinality(registered)  checks == report[r].checks IN
                        /\ 3 * tally(checks, "1") < 2 * n
                        /\ 3 * (tally(checks, "1") + remaining(registered, checks)) >= 2 * n
    BY DEF OpenReportUndecided
  <2>1. report[r].checks \in Seq(FactCheck) BY DEF TypeOK, ReportRecord
  <2>2. RecordInv(report[r], registered) BY DEF ReportsInv
  <2>3. /\ remaining(registered, report[r].checks) = Cardinality(registered) - Len(report[r].checks)
        /\ Cardinality(registered) \in Nat
    BY <2>1, <2>2, RegisteredFinite, RemainingIsRest DEF RecordInv
  <2>4. tally(report[r].checks, "1") \in Nat BY <2>1, TallyType
  <2>5. Len(report[r].checks) \in Nat BY <2>1
  <2> QED BY <2>2, <2>3, <2>4, <2>5 DEF RecordInv
<1> QED BY <1>1, ReportsInvariant, PTL

\* There is always a member left to vote on an open report.
THEOREM OpenReportsHaveVoters == Spec => []OpenReportHasVoter
<1>1. TypeOK /\ ReportsInv => OpenReportHasVoter
  <2> SUFFICES ASSUME TypeOK, ReportsInv, NEW r \in Reports, Open(report[r].status),
                      registered \ Checkers(report[r].checks) = {}
               PROVE  FALSE
    BY DEF OpenReportHasVoter
  <2>1. report[r].checks \in Seq(FactCheck) BY DEF TypeOK, ReportRecord
  <2>2. RecordInv(report[r], registered) BY DEF ReportsInv
  <2>3. /\ remaining(registered, report[r].checks) = Cardinality(registered) - Len(report[r].checks)
        /\ Cardinality(registered) \in Nat
    BY <2>1, <2>2, RegisteredFinite, RemainingIsRest DEF RecordInv
  <2>4. remaining(registered, report[r].checks) = 0 BY FS_EmptySet DEF remaining
  <2>5. tally(report[r].checks, "1") \in Nat BY <2>1, TallyType
  <2>6. Len(report[r].checks) \in Nat BY <2>1
  <2> QED BY <2>2, <2>3, <2>4, <2>5, <2>6 DEF RecordInv
<1> QED BY <1>1, ReportsInvariant, PTL

\* A final label is the strict majority of the votes on the record.
THEOREM LabelsAreMajorities == Spec => []LabelIsMajority
<1>1. TypeOK /\ ReportsInv => LabelIsMajority BY DEF ReportsInv, RecordInv, LabelIsMajority
<1> QED BY <1>1, ReportsInvariant, PTL

\* A rejected report lacks two thirds of its votes for "1", and a label.
THEOREM RejectionsLackTwoThirds == Spec => []RejectedLacksTwoThirds
<1>1. TypeOK /\ ReportsInv => RejectedLacksTwoThirds
  BY DEF ReportsInv, RecordInv, RejectedLacksTwoThirds
<1> QED BY <1>1, ReportsInvariant, PTL

\* Closed records never change and open ones only gain votes.
THEOREM RecordsAreAppendOnly == Spec => RecordIsAppendOnly
<1>1. TypeOK /\ ReportsInv /\ [Next]_vars => [RecordStep]_vars
  <2> SUFFICES ASSUME TypeOK, ReportsInv, [Next]_vars PROVE RecordStep OBVIOUS
  <2>1. report' = report \/ ReportChange BY ReportsNext
  <2>2. CASE report' = report BY <2>2 DEF RecordStep
  <2>3. CASE ReportChange BY <2>3 DEF RecordStep, ReportChange, GoodChange
  <2> QED BY <2>1, <2>2, <2>3
<1> QED BY <1>1, ReportsInvariant, PTL DEF Spec, RecordIsAppendOnly

\* Before its deadline a report is closed by two thirds, or by more than a third.
THEOREM EarlyClosesNeedTwoThirds == Spec => EarlyCloseNeedsTwoThirds
<1>1. TypeOK /\ ReportsInv /\ [Next]_vars => [EarlyCloseStep]_vars
  <2> SUFFICES ASSUME TypeOK, ReportsInv, [Next]_vars PROVE EarlyCloseStep OBVIOUS
  <2>1. report' = report \/ ReportChange BY ReportsNext
  <2>2. CASE report' = report BY <2>2 DEF EarlyCloseStep, Open, Closed
  <2>3. CASE ReportChange
    <3>1. PICK r \in Reports : (\A q \in Reports \ {r} : report'[q] = report[q]) /\ GoodChange(r)
      BY <2>3 DEF ReportChange
    <3>2. \A q \in Reports \ {r} : ~(Open(report[q].status) /\ Closed(report'[q].status))
      BY <3>1 DEF Open, Closed
    <3> QED BY <3>1, <3>2 DEF EarlyCloseStep, GoodChange
  <2> QED BY <2>1, <2>2, <2>3
<1> QED BY <1>1, ReportsInvariant, PTL DEF Spec, EarlyCloseNeedsTwoThirds

-----------------------------------------------------------------------------
(* The membership. *)

Founders == {o \in registered : admission[o].status # "ADMITTED"}

\* Nobody votes twice on a request, and only other members vote.
RequestInv(o, req, E) ==
  /\ \A i, j \in DOMAIN req.votes : req.votes[i].voter = req.votes[j].voter => i = j
  /\ \A i \in DOMAIN req.votes : req.votes[i].voter \in E \ {o}

\* The inductive invariant of the membership.
MembershipInv ==
  /\ \A o \in Orgs : RequestInv(o, admission[o], registered)
  /\ FoundersWithinLimit
  /\ AdmittedHasSponsor

LEMMA MembershipInit == Init => MembershipInv
<1> SUFFICES ASSUME Init PROVE MembershipInv OBVIOUS
<1>1. \A o \in Orgs : admission[o] = [status |-> "ABSENT", votes |-> <<>>]
  BY DEF Init, NoRequest
<1>2. \A o \in Orgs : RequestInv(o, admission[o], registered)
  <2> SUFFICES ASSUME NEW o \in Orgs PROVE RequestInv(o, admission[o], registered) OBVIOUS
  <2>1. admission[o].votes = <<>> BY <1>1
  <2>2. DOMAIN <<>> = {} OBVIOUS
  <2> QED BY <2>1, <2>2 DEF RequestInv
<1>3. AdmittedHasSponsor BY <1>1 DEF AdmittedHasSponsor
<1>4. {o \in registered : admission[o].status # "ADMITTED"} = {} BY DEF Init
<1>5. Cardinality({}) = 0 BY FS_EmptySet
<1>6. FoundersWithinLimit BY <1>4, <1>5 DEF FoundersWithinLimit, Init, defaultFoundingOrgLimit
<1> QED BY <1>2, <1>3, <1>6 DEF MembershipInv

LEMMA FoundersShrink ==
  ASSUME TypeOK, FoundersWithinLimit, foundingOrgLimit' = foundingOrgLimit,
         {o \in registered' : admission'[o].status # "ADMITTED"} \subseteq Founders
  PROVE  FoundersWithinLimit'
<1>1. IsFiniteSet(Founders) BY RegisteredFinite, FS_Subset DEF Founders
<1>2. Cardinality({o \in registered' : admission'[o].status # "ADMITTED"}) <= Cardinality(Founders)
  BY <1>1, FS_Subset
<1>3. Cardinality({o \in registered' : admission'[o].status # "ADMITTED"}) \in Nat
      /\ Cardinality(Founders) \in Nat
  BY <1>1, FS_Subset, FS_CardinalityType
<1>4. Cardinality(Founders) <= foundingOrgLimit BY DEF FoundersWithinLimit, Founders
<1>5. foundingOrgLimit \in Nat BY DEF TypeOK
<1>6. FoundersWithinLimit' <=>
        Cardinality({o \in registered' : admission'[o].status # "ADMITTED"}) <= foundingOrgLimit'
  BY DEF FoundersWithinLimit
<1> QED BY <1>2, <1>3, <1>4, <1>5, <1>6

LEMMA UnchangedMembership ==
  ASSUME MembershipInv, registered' = registered, admission' = admission,
         foundingOrgLimit' = foundingOrgLimit
  PROVE  MembershipInv'
BY DEF MembershipInv, FoundersWithinLimit, AdmittedHasSponsor

LEMMA SetLimitMembership ==
  ASSUME TypeOK, MembershipInv, NEW role, NEW limit \in Limits, SetFoundingOrgLimit(role, limit)
  PROVE  MembershipInv'
<1>1. /\ registered = {} /\ registered' = {} /\ admission' = admission
      /\ foundingOrgLimit' = limit /\ limit >= 1
  BY DEF SetFoundingOrgLimit, maySetFoundingOrgLimit, foundingNotStarted, validLimit
<1>2. {o \in registered' : admission'[o].status # "ADMITTED"} = {} BY <1>1
<1>3. Cardinality({}) = 0 BY FS_EmptySet
<1>4. FoundersWithinLimit'
  BY <1>1, <1>2, <1>3, LimitsAssumption DEF FoundersWithinLimit
<1>5. AdmittedHasSponsor' /\ \A o \in Orgs : RequestInv(o, admission'[o], registered')
  BY <1>1 DEF MembershipInv, AdmittedHasSponsor
<1> QED BY <1>4, <1>5 DEF MembershipInv

LEMMA RegisterMembership ==
  ASSUME TypeOK, MembershipInv, NEW org \in Orgs, org \notin registered, RegisterOrg(org)
  PROVE  MembershipInv'
<1>1. /\ registered' = registered \cup {org} /\ admission' = admission
      /\ foundingOrgLimit' = foundingOrgLimit /\ Cardinality(registered) < foundingOrgLimit
  BY DEF RegisterOrg, mayRegisterOrg
<1>2. IsFiniteSet(registered') /\ Cardinality(registered') = Cardinality(registered) + 1
  BY <1>1, RegisteredFinite, FS_AddElement
<1>3. Cardinality(registered) \in Nat BY RegisteredFinite, FS_CardinalityType
<1>4. {o \in registered' : admission'[o].status # "ADMITTED"} \subseteq registered' OBVIOUS
<1>5. /\ Cardinality({o \in registered' : admission'[o].status # "ADMITTED"}) <= Cardinality(registered')
      /\ Cardinality({o \in registered' : admission'[o].status # "ADMITTED"}) \in Nat
  BY <1>2, <1>4, FS_Subset, FS_CardinalityType
<1>6. foundingOrgLimit \in Nat BY DEF TypeOK
<1>7. Cardinality(registered') <= foundingOrgLimit BY <1>1, <1>2, <1>3, <1>6
<1>8. Cardinality({o \in registered' : admission'[o].status # "ADMITTED"}) <= foundingOrgLimit'
  BY <1>1, <1>2, <1>3, <1>5, <1>6, <1>7
<1>9. FoundersWithinLimit' BY <1>8 DEF FoundersWithinLimit
<1>10. AdmittedHasSponsor' BY <1>1 DEF MembershipInv, AdmittedHasSponsor
<1>11. \A o \in Orgs : RequestInv(o, admission'[o], registered')
  BY <1>1 DEF MembershipInv, RequestInv
<1> QED BY <1>9, <1>10, <1>11 DEF MembershipInv

LEMMA RequestMembership ==
  ASSUME TypeOK, MembershipInv, NEW org \in Orgs, RequestOrgAdmission(org)
  PROVE  MembershipInv'
<1> DEFINE new == [status |-> "PENDING", votes |-> <<>>]
<1>1. /\ registered' = registered /\ foundingOrgLimit' = foundingOrgLimit
      /\ admission' = [admission EXCEPT ![org] = new]
      /\ org \notin registered
  BY DEF RequestOrgAdmission, mayRequestOrgAdmission, NewRequest
<1>2. admission'[org] = new /\ \A o \in Orgs \ {org} : admission'[o] = admission[o]
  BY <1>1 DEF TypeOK
<1>3. new.status = "PENDING" /\ new.votes = <<>> /\ DOMAIN <<>> = {} OBVIOUS
<1> HIDE DEF new
<1>4. FoundersWithinLimit'
  <2>1. registered \subseteq Orgs BY DEF TypeOK
  <2>2. {o \in registered' : admission'[o].status # "ADMITTED"} \subseteq Founders
    BY <1>1, <1>2, <2>1 DEF Founders
  <2> QED BY <1>1, <2>2, FoundersShrink DEF MembershipInv
<1>5. AdmittedHasSponsor' BY <1>1, <1>2, <1>3 DEF MembershipInv, AdmittedHasSponsor
<1>6. ASSUME NEW o \in Orgs PROVE RequestInv(o, admission'[o], registered')
  <2>1. CASE o = org BY <2>1, <1>2, <1>3 DEF RequestInv
  <2>2. CASE o # org BY <2>2, <1>1, <1>2 DEF MembershipInv
  <2> QED BY <2>1, <2>2
<1> QED BY <1>4, <1>5, <1>6 DEF MembershipInv

LEMMA AdmissionVoteMembership ==
  ASSUME TypeOK, MembershipInv, NEW org \in Orgs, NEW role, NEW c \in Orgs, NEW v \in Outcomes,
         VoteOnOrgAdmission(org, role, c, v)
  PROVE  MembershipInv'
<1> DEFINE vote == [voter |-> org, verdict |-> v]
           votes == Append(admission[c].votes, vote)
           new == [admission[c] EXCEPT !.votes = votes]
<1>1. /\ registered' = registered /\ foundingOrgLimit' = foundingOrgLimit
      /\ admission' = [admission EXCEPT ![c] = new]
      /\ org \in registered /\ org # c
      /\ org \notin Voters(admission[c].votes)
      /\ admission[c].status = "PENDING"
  BY DEF VoteOnOrgAdmission, mayVoteOnOrgAdmission, AfterVote
<1>2. admission'[c] = new /\ \A o \in Orgs \ {c} : admission'[o] = admission[o]
  BY <1>1 DEF TypeOK
<1>3. admission[c] \in OrgAdmissionRequest /\ admission[c].votes \in Seq(Vote)
  BY DEF TypeOK, OrgAdmissionRequest
<1>4. new.status = "PENDING" /\ new.votes = votes
  BY <1>1, <1>3 DEF OrgAdmissionRequest
<1>5. vote.voter = org OBVIOUS
<1> HIDE DEF new, vote
<1>6. /\ DOMAIN votes = DOMAIN admission[c].votes \cup {Len(admission[c].votes) + 1}
      /\ votes[Len(admission[c].votes) + 1] = vote
      /\ \A i \in DOMAIN admission[c].votes : votes[i] = admission[c].votes[i]
  <2>1. ASSUME NEW s \in Seq(Vote)
        PROVE  /\ DOMAIN Append(s, vote) = DOMAIN s \cup {Len(s) + 1}
               /\ Append(s, vote)[Len(s) + 1] = vote
               /\ \A i \in DOMAIN s : Append(s, vote)[i] = s[i]
    <3>1. vote \in Vote BY <1>1 DEF vote, Vote
    <3> QED BY <3>1
  <2> QED BY <1>3, <2>1
<1> HIDE DEF votes
<1>7. FoundersWithinLimit'
  <2>1. registered \subseteq Orgs BY DEF TypeOK
  <2>2. {o \in registered' : admission'[o].status # "ADMITTED"} \subseteq Founders
    BY <1>1, <1>2, <2>1 DEF Founders
  <2> QED BY <1>1, <2>2, FoundersShrink DEF MembershipInv
<1>8. AdmittedHasSponsor' BY <1>1, <1>2, <1>4 DEF MembershipInv, AdmittedHasSponsor
<1>9. ASSUME NEW o \in Orgs PROVE RequestInv(o, admission'[o], registered')
  <2>1. RequestInv(o, admission[o], registered) BY DEF MembershipInv
  <2>2. CASE o = c
    BY <2>1, <2>2, <1>1, <1>2, <1>4, <1>5, <1>6 DEF RequestInv, Voters
  <2>3. CASE o # c BY <2>1, <2>3, <1>1, <1>2
  <2> QED BY <2>2, <2>3
<1> QED BY <1>7, <1>8, <1>9 DEF MembershipInv

\* The admit votes an admission is finalised with.
AdmitVotes(votes) == {i \in DOMAIN votes : votes[i].verdict = "1"}

\* The members that voted to admit c.
Admitters(c) ==
  {v \in registered : \E i \in DOMAIN admission[c].votes :
     admission[c].votes[i] = [voter |-> v, verdict |-> "1"]}

\* No member voted twice, so the admit votes count members.
LEMMA AdmitVotesAreMembers ==
  ASSUME TypeOK, MembershipInv, NEW c \in Orgs
  PROVE  /\ admitVotes(admission[c].votes) \in Nat
         /\ Cardinality(Admitters(c)) = admitVotes(admission[c].votes)
<1> DEFINE votes == admission[c].votes
           V == AdmitVotes(votes)
           f == [i \in V |-> votes[i].voter]
<1>1. votes \in Seq(Vote) BY DEF TypeOK, OrgAdmissionRequest
<1>2. RequestInv(c, admission[c], registered) BY DEF MembershipInv
<1>3. IsFiniteSet(V)
  <2>1. IsFiniteSet(1 .. Len(votes)) BY <1>1, FS_Interval
  <2>2. V \subseteq 1 .. Len(votes) BY <1>1 DEF AdmitVotes
  <2> QED BY <2>1, <2>2, FS_Subset
<1>4. \A i \in DOMAIN votes : votes[i] = [voter |-> votes[i].voter, verdict |-> votes[i].verdict]
  <2>1. \A i \in DOMAIN votes : votes[i] \in Vote BY <1>1
  <2> QED BY <2>1 DEF Vote
<1>5. f \in Bijection(V, Admitters(c))
  <2>1. \A i \in V : votes[i].voter \in Admitters(c)
    BY <1>2, <1>4 DEF Admitters, AdmitVotes, RequestInv
  <2>2. \A i, j \in V : votes[i].voter = votes[j].voter => i = j
    BY <1>2 DEF AdmitVotes, RequestInv
  <2>3. \A v \in Admitters(c) : \E i \in V : votes[i].voter = v
    BY DEF Admitters, AdmitVotes
  <2> HIDE DEF V, votes
  <2> QED BY <2>1, <2>2, <2>3 DEF Bijection, Injection, Surjection, IsInjective
<1>6. Cardinality(Admitters(c)) = Cardinality(V)
  <2>1. ExistsBijection(V, Admitters(c)) BY <1>5 DEF ExistsBijection
  <2> QED BY <2>1, <1>3, FS_Bijection
<1>7. Cardinality(V) \in Nat BY <1>3, FS_CardinalityType
<1> QED BY <1>6, <1>7 DEF admitVotes, AdmitVotes

\* An admission has the admit votes of two thirds of the members, one at least.
LEMMA AdmissionHasVotes ==
  ASSUME TypeOK, MembershipInv, NEW org \in Orgs, NEW role, NEW c \in Orgs,
         FinalizeOrgAdmission(org, role, c)
  PROVE  /\ 3 * Cardinality(Admitters(c)) >= 2 * Cardinality(registered)
         /\ Admitters(c) # {}
<1> DEFINE n == Cardinality(registered)
           q == quorumFor(n)
           a == Cardinality(Admitters(c))
<1>1. n \in Nat /\ n # 0
  <2>1. registered # {} BY DEF FinalizeOrgAdmission, mayFinalizeOrgAdmission
  <2> QED BY <2>1, RegisteredFinite, FS_CardinalityType, FS_EmptySet
<1>2. a \in Nat /\ a >= q BY AdmitVotesAreMembers DEF FinalizeOrgAdmission, mayFinalizeOrgAdmission
<1>3. q \in Nat /\ 3 * q >= 2 * n /\ q # 0
  <2>1. q = required(n) BY <1>1, QuorumsAgree
  <2>2. required(n) \in Nat /\ 3 * required(n) >= 2 * n BY <1>1, RequiredIsTwoThirds
  <2> HIDE DEF q, n
  <2> QED BY <2>1, <2>2, <1>1
<1>4. 3 * a >= 2 * n /\ a # 0
  <2> HIDE DEF a, n, q
  <2> QED BY <1>1, <1>2, <1>3
<1>5. Admitters(c) # {} BY <1>4, FS_EmptySet
<1> QED BY <1>4, <1>5

LEMMA FinalizeMembership ==
  ASSUME TypeOK, MembershipInv, NEW org \in Orgs, NEW role, NEW c \in Orgs,
         FinalizeOrgAdmission(org, role, c)
  PROVE  MembershipInv'
<1> DEFINE new == [admission[c] EXCEPT !.status = "ADMITTED"]
<1>1. /\ registered' = registered \cup {c} /\ foundingOrgLimit' = foundingOrgLimit
      /\ admission' = [admission EXCEPT ![c] = new]
  BY DEF FinalizeOrgAdmission, mayFinalizeOrgAdmission
<1>2. admission'[c] = new /\ \A o \in Orgs \ {c} : admission'[o] = admission[o]
  BY <1>1 DEF TypeOK
<1>3. new.status = "ADMITTED" /\ new.votes = admission[c].votes
  BY DEF TypeOK, OrgAdmissionRequest
<1> HIDE DEF new
<1>4. FoundersWithinLimit'
  <2>1. registered \subseteq Orgs BY DEF TypeOK
  <2>2. {o \in registered' : admission'[o].status # "ADMITTED"} \subseteq Founders
    BY <1>1, <1>2, <1>3, <2>1 DEF Founders
  <2> QED BY <1>1, <2>2, FoundersShrink DEF MembershipInv
<1>5. ASSUME NEW o \in Orgs PROVE RequestInv(o, admission'[o], registered')
  <2>1. RequestInv(o, admission[o], registered) BY DEF MembershipInv
  <2>2. CASE o = c BY <2>1, <2>2, <1>1, <1>2, <1>3 DEF RequestInv
  <2>3. CASE o # c BY <2>1, <2>3, <1>1, <1>2 DEF RequestInv
  <2> QED BY <2>2, <2>3
<1>6. AdmittedHasSponsor'
  <2> SUFFICES ASSUME NEW o \in Orgs, admission'[o].status = "ADMITTED"
               PROVE  /\ o \in registered'
                      /\ \E i \in DOMAIN admission'[o].votes :
                           /\ admission'[o].votes[i].verdict = "1"
                           /\ admission'[o].votes[i].voter \in registered' \ {o}
    BY DEF AdmittedHasSponsor
  <2>1. CASE o = c
    <3>1. PICK v \in Admitters(c) : TRUE BY AdmissionHasVotes
    <3>2. PICK i \in DOMAIN admission[c].votes :
            admission[c].votes[i] = [voter |-> v, verdict |-> "1"]
      BY <3>1 DEF Admitters
    <3>3. admission[c].votes[i].verdict = "1"
          /\ admission[c].votes[i].voter \in registered \ {c}
      BY <3>2 DEF MembershipInv, RequestInv
    <3> QED BY <2>1, <3>3, <1>1, <1>2, <1>3
  <2>2. CASE o # c BY <2>2, <1>1, <1>2 DEF MembershipInv, AdmittedHasSponsor
  <2> QED BY <2>1, <2>2
<1> QED BY <1>4, <1>5, <1>6 DEF MembershipInv

LEMMA MembershipNext ==
  ASSUME TypeOK, MembershipInv, [Next]_vars
  PROVE  MembershipInv' /\ GrowthStep
<1> DEFINE Good == MembershipInv' /\ GrowthStep
<1> SUFFICES Good OBVIOUS
<1>1. ASSUME NEW role \in Roles, NEW limit \in Limits, SetFoundingOrgLimit(role, limit) PROVE Good
  BY <1>1, SetLimitMembership DEF SetFoundingOrgLimit, GrowthStep
<1>2. ASSUME NEW org \in Orgs, RegisterOrg(org) PROVE Good
  <2>1. CASE org \in registered
    BY <1>2, <2>1, UnchangedMembership DEF RegisterOrg, mayRegisterOrg, vars, GrowthStep
  <2>2. CASE org \notin registered
    BY <1>2, <2>2, RegisterMembership DEF RegisterOrg, mayRegisterOrg, GrowthStep
  <2> QED BY <2>1, <2>2
<1>3. ASSUME NEW org \in Candidates, RequestOrgAdmission(org) PROVE Good
  <2>1. org \in Orgs BY OrgsAssumption
  <2> QED BY <1>3, <2>1, RequestMembership DEF RequestOrgAdmission, GrowthStep
<1>4. ASSUME NEW org \in Orgs, NEW role \in Roles, NEW c \in Orgs, NEW v \in Outcomes,
             VoteOnOrgAdmission(org, role, c, v)
      PROVE  Good
  BY <1>4, AdmissionVoteMembership DEF VoteOnOrgAdmission, GrowthStep
<1>5. ASSUME NEW org \in Orgs, NEW role \in Roles, NEW c \in Orgs,
             FinalizeOrgAdmission(org, role, c)
      PROVE  Good
  <2>1. MembershipInv' BY <1>5, FinalizeMembership
  <2>2. registered' = registered \cup {c} BY <1>5 DEF FinalizeOrgAdmission
  <2>3. 3 * Cardinality(Admitters(c)) >= 2 * Cardinality(registered) BY <1>5, AdmissionHasVotes
  <2>4. GrowthStep BY <2>2, <2>3 DEF GrowthStep, Admitters
  <2> QED BY <2>1, <2>4
<1>6. ASSUME registered' = registered, admission' = admission,
             foundingOrgLimit' = foundingOrgLimit
      PROVE  Good
  BY <1>6, UnchangedMembership DEF GrowthStep
<1>7. CASE ReportStep
  BY <1>6, <1>7 DEF ReportStep, Submit, SubmitFactCheck, FinalizeReport, ExpireReport
<1>8. CASE Tick BY <1>6, <1>8 DEF Tick
<1>9. CASE UNCHANGED vars BY <1>6, <1>9 DEF vars
<1>10. CASE MembershipStep
  <2> HIDE DEF Good
  <2> QED BY <1>1, <1>2, <1>3, <1>4, <1>5, <1>10 DEF MembershipStep
<1>11. MembershipStep \/ ReportStep \/ Tick \/ UNCHANGED vars BY DEF Next
<1> HIDE DEF Good
<1> QED BY <1>7, <1>8, <1>9, <1>10, <1>11

LEMMA MembershipInvariant == Spec => [](TypeOK /\ MembershipInv)
<1>1. Init => TypeOK /\ MembershipInv BY TypeInit, MembershipInit
<1>2. TypeOK /\ MembershipInv /\ [Next]_vars => TypeOK' /\ MembershipInv'
  BY TypeNext, MembershipNext
<1> QED BY <1>1, <1>2, PTL DEF Spec

\* Never more founders than the limit, in whatever order the limit is set, the
\* founders register and candidates are admitted.
THEOREM FoundersStayWithinLimit == Spec => []FoundersWithinLimit
<1>1. TypeOK /\ MembershipInv => FoundersWithinLimit BY DEF MembershipInv
<1> QED BY <1>1, MembershipInvariant, PTL

\* Nobody is admitted without the vote of another member.
THEOREM AdmissionsHaveSponsors == Spec => []AdmittedHasSponsor
<1>1. TypeOK /\ MembershipInv => AdmittedHasSponsor BY DEF MembershipInv
<1> QED BY <1>1, MembershipInvariant, PTL

\* The membership grows one by one, by founding or by two thirds of the members.
THEOREM MembershipGrows == Spec => MembershipGrowsByRule
<1>1. TypeOK /\ MembershipInv /\ [Next]_vars => [GrowthStep]_vars BY MembershipNext
<1> QED BY <1>1, MembershipInvariant, PTL DEF Spec, MembershipGrowsByRule

-----------------------------------------------------------------------------
(* The abstract consensus.  Its operators, seen through the mapping. *)

LEMMA CardinalityIs ==
  ASSUME NEW S
  PROVE  Consensus!Cardinality(S) = Cardinality(S)
BY DEF Consensus!Cardinality, Cardinality

LEMMA CountIs ==
  ASSUME NEW b, NEW o
  PROVE  Consensus!Count(b, o) = Cardinality({v \in DOMAIN b : b[v] = o})
BY CardinalityIs DEF Consensus!Count

LEMMA CarriedIs ==
  ASSUME NEW b, NEW E
  PROVE  Consensus!Carried(b, E) <=> 3 * Consensus!Count(b, "1") >= 2 * Cardinality(E)
BY CardinalityIs DEF Consensus!Carried

LEMMA CompletionsAre ==
  ASSUME NEW b, NEW E
  PROVE  Consensus!Completions(b, E) =
           {f \in [E \cup DOMAIN b -> Outcomes] : \A v \in DOMAIN b : f[v] = b[v]}
BY DEF Consensus!Completions

LEMMA SettledIs ==
  ASSUME NEW b, NEW E
  PROVE  Consensus!Settled(b, E) =
           IF Consensus!Carried(b, E) THEN "misinformation"
           ELSE IF \E f \in Consensus!Completions(b, E) : Consensus!Carried(f, E) THEN "open"
           ELSE "rejected"
BY DEF Consensus!Settled
LEMMA CheckersDiffer ==
  ASSUME NEW s \in Seq(FactCheck), Len(s) = Cardinality(Checkers(s))
  PROVE  \A i, j \in DOMAIN s : s[i].checker = s[j].checker => i = j
<1> DEFINE f == [i \in 1 .. Len(s) |-> s[i].checker]
<1>1. f \in Surjection(1 .. Len(s), Checkers(s))
  <2>1. DOMAIN s = 1 .. Len(s) OBVIOUS
  <2>2. \A i \in 1 .. Len(s) : s[i].checker \in Checkers(s) BY <2>1 DEF Checkers
  <2>3. \A v \in Checkers(s) : \E i \in 1 .. Len(s) : s[i].checker = v BY <2>1 DEF Checkers
  <2> QED BY <2>2, <2>3 DEF Surjection
<1>2. IsFiniteSet(1 .. Len(s)) /\ Cardinality(1 .. Len(s)) = Len(s)
  <2>1. Len(s) \in Nat OBVIOUS
  <2> QED BY <2>1, FS_Interval
<1>3. f \in Injection(1 .. Len(s), Checkers(s))
  <2> HIDE DEF f
  <2> QED BY <1>1, <1>2, FS_SurjSameCardinalityImpliesInj
<1>4. \A i, j \in 1 .. Len(s) : f[i] = f[j] => i = j BY <1>3 DEF Injection, IsInjective
<1>5. DOMAIN s = 1 .. Len(s) OBVIOUS
<1> QED BY <1>4, <1>5

LEMMA BallotOf ==
  ASSUME NEW s \in Seq(FactCheck), Len(s) = Cardinality(Checkers(s)), NEW i \in DOMAIN s
  PROVE  s[i].checker \in Checkers(s) /\ BallotsOf(s)[s[i].checker] = s[i].outcome
<1> DEFINE j == CHOOSE k \in DOMAIN s : s[k].checker = s[i].checker
<1>1. j \in DOMAIN s /\ s[j].checker = s[i].checker OBVIOUS
<1>2. j = i BY <1>1, CheckersDiffer
<1>3. s[i].checker \in Checkers(s) BY DEF Checkers
<1> QED BY <1>2, <1>3 DEF BallotsOf

LEMMA BallotsAppend ==
  ASSUME NEW s \in Seq(FactCheck), NEW c \in FactCheck, Len(s) = Cardinality(Checkers(s)),
         IsFiniteSet(Checkers(s)), c.checker \notin Checkers(s)
  PROVE  BallotsOf(Append(s, c)) =
           [w \in Checkers(s) \cup {c.checker} |->
              IF w = c.checker THEN c.outcome ELSE BallotsOf(s)[w]]
<1> DEFINE t == Append(s, c)
<1>1. /\ t \in Seq(FactCheck) /\ Len(t) = Len(s) + 1 /\ DOMAIN t = DOMAIN s \cup {Len(s) + 1}
      /\ t[Len(s) + 1] = c /\ \A i \in DOMAIN s : t[i] = s[i]
  OBVIOUS
<1>2. Checkers(t) = Checkers(s) \cup {c.checker} BY CheckersAppend
<1>3. Len(t) = Cardinality(Checkers(t))
  <2>1. Cardinality(Checkers(s) \cup {c.checker}) = Cardinality(Checkers(s)) + 1
    BY FS_AddElement
  <2>2. Len(t) = Len(s) + 1 BY <1>1
  <2> QED BY <2>1, <2>2, <1>2
<1> HIDE DEF t
<1>4. BallotsOf(t)[c.checker] = c.outcome BY <1>1, <1>3, BallotOf
<1>5. ASSUME NEW w \in Checkers(s) PROVE BallotsOf(t)[w] = BallotsOf(s)[w] /\ w # c.checker
  <2>1. PICK i \in DOMAIN s : w = s[i].checker BY DEF Checkers
  <2>2. i \in DOMAIN t /\ t[i] = s[i] BY <1>1
  <2>3. BallotsOf(s)[w] = s[i].outcome BY <2>1, BallotOf
  <2>4. t \in Seq(FactCheck) BY <1>1
  <2>5. BallotsOf(t)[t[i].checker] = t[i].outcome BY <2>2, <2>4, <1>3, BallotOf
  <2> QED BY <2>1, <2>2, <2>3, <2>5
<1>6. BallotsOf(t) = [w \in Checkers(t) |-> BallotsOf(t)[w]] BY DEF BallotsOf
<1> QED BY <1>2, <1>4, <1>5, <1>6 DEF t

LEMMA CountIsTally ==
  ASSUME NEW s \in Seq(FactCheck), Len(s) = Cardinality(Checkers(s)), NEW o
  PROVE  /\ IsFiniteSet({v \in Checkers(s) : BallotsOf(s)[v] = o})
         /\ Cardinality({v \in Checkers(s) : BallotsOf(s)[v] = o}) = tally(s, o)
         /\ Consensus!Count(BallotsOf(s), o) = tally(s, o)
<1> DEFINE S == {i \in DOMAIN s : s[i].outcome = o}
           T == {v \in Checkers(s) : BallotsOf(s)[v] = o}
           f == [i \in S |-> s[i].checker]
<1>1. IsFiniteSet(S) BY TallyType
<1>2. \A i \in S : s[i].checker \in T BY BallotOf
<1>3. \A i, j \in S : s[i].checker = s[j].checker => i = j BY CheckersDiffer
<1>4. ASSUME NEW v \in T PROVE \E i \in S : s[i].checker = v
  <2>1. PICK i \in DOMAIN s : v = s[i].checker BY DEF Checkers
  <2> QED BY <2>1, BallotOf
<1>5. f \in Bijection(S, T)
  <2> HIDE DEF S, T
  <2> QED BY <1>2, <1>3, <1>4 DEF Bijection, Injection, Surjection, IsInjective
<1>6. IsFiniteSet(T) /\ Cardinality(T) = Cardinality(S)
  <2>1. ExistsBijection(S, T) BY <1>5 DEF ExistsBijection
  <2> QED BY <2>1, <1>1, FS_Bijection
<1>7. DOMAIN BallotsOf(s) = Checkers(s) BY DEF BallotsOf
<1>8. Consensus!Count(BallotsOf(s), o) = Cardinality(T) BY <1>7, CountIs
<1>9. tally(s, o) = Cardinality(S) BY DEF tally
<1> QED BY <1>6, <1>8, <1>9

\* The question is settled when no completion can settle it otherwise: when the
\* missing ballots, all "1", would still not make two thirds.
LEMMA SettledIsCounted ==
  ASSUME NEW s \in Seq(FactCheck), NEW E, IsFiniteSet(E), Checkers(s) \subseteq E,
         Len(s) = Cardinality(Checkers(s))
  PROVE  Consensus!Settled(BallotsOf(s), E) =
           IF 3 * tally(s, "1") >= 2 * Cardinality(E) THEN "misinformation"
           ELSE IF 3 * (tally(s, "1") + Cardinality(E) - Len(s)) >= 2 * Cardinality(E)
                THEN "open" ELSE "rejected"
<1> DEFINE b == BallotsOf(s)
           Y == {v \in Checkers(s) : b[v] = "1"}
           R == E \ Checkers(s)
           n == Cardinality(E)
<1>1. DOMAIN b = Checkers(s) /\ E \cup DOMAIN b = E BY DEF BallotsOf
<1>2. IsFiniteSet(Y) /\ Cardinality(Y) = tally(s, "1") BY CountIsTally
<1>3. IsFiniteSet(R) /\ Cardinality(R) = n - Len(s) /\ n \in Nat
  BY RemainingIsRest, FS_Difference DEF remaining
<1>4. IsFiniteSet(Y \cup R) /\ Cardinality(Y \cup R) = tally(s, "1") + n - Len(s)
  <2>1. Y \cap R = {} OBVIOUS
  <2>2. tally(s, "1") \in Nat /\ Len(s) \in Nat
    <3>1. Len(s) \in Nat OBVIOUS
    <3> QED BY <3>1, TallyType
  <2> HIDE DEF Y, R, n
  <2>3. IsFiniteSet(Y \cup R) /\ Cardinality(Y \cup R)
          = Cardinality(Y) + Cardinality(R) - Cardinality(Y \cap R)
    BY <1>2, <1>3, FS_Union
  <2>4. Cardinality(Y \cap R) = 0 BY <2>1, FS_EmptySet
  <2> QED BY <1>2, <1>3, <2>2, <2>3, <2>4
<1>5. Consensus!Carried(b, E) <=> 3 * tally(s, "1") >= 2 * n
  <2>1. Consensus!Count(b, "1") = tally(s, "1") BY CountIsTally
  <2> QED BY <2>1, CarriedIs
<1>6. \A i \in DOMAIN s : s[i].outcome \in Outcomes
  <2>1. \A i \in DOMAIN s : s[i] \in FactCheck OBVIOUS
  <2> QED BY <2>1 DEF FactCheck
<1>7. \A v \in Checkers(s) : b[v] \in Outcomes
  <2>1. ASSUME NEW v \in Checkers(s) PROVE b[v] \in Outcomes
    <3>1. PICK i \in DOMAIN s : v = s[i].checker BY DEF Checkers
    <3>2. b[v] = s[i].outcome BY <3>1, BallotOf
    <3> QED BY <3>2, <1>6
  <2> QED BY <2>1
<1>8. ASSUME NEW f \in Consensus!Completions(b, E) PROVE Consensus!Count(f, "1") <= Cardinality(Y \cup R)
  <2>1. DOMAIN f = E /\ \A v \in Checkers(s) : f[v] = b[v] BY <1>1, CompletionsAre
  <2> DEFINE F == {v \in DOMAIN f : f[v] = "1"}
  <2>2. F \subseteq Y \cup R BY <2>1
  <2>4. Consensus!Count(f, "1") = Cardinality(F) BY CountIs
  <2>3. Cardinality(F) <= Cardinality(Y \cup R)
    <3> HIDE DEF F, Y, R
    <3> QED BY <2>2, <1>4, FS_Subset
  <2> QED BY <2>3, <2>4
<1>9. \E f \in Consensus!Completions(b, E) : Consensus!Count(f, "1") = Cardinality(Y \cup R)
  <2> DEFINE f == [v \in E |-> IF v \in Checkers(s) THEN b[v] ELSE "1"]
  <2>1. f \in [E -> Outcomes] BY <1>7 DEF Outcomes
  <2>2. f \in Consensus!Completions(b, E) BY <1>1, <2>1, CompletionsAre
  <2>3. {v \in DOMAIN f : f[v] = "1"} = Y \cup R OBVIOUS
  <2>4. Consensus!Count(f, "1") = Cardinality(Y \cup R) BY <2>3, CountIs
  <2> HIDE DEF f
  <2> QED BY <2>2, <2>4
<1>10. (\E f \in Consensus!Completions(b, E) : Consensus!Carried(f, E))
         <=> 3 * (tally(s, "1") + n - Len(s)) >= 2 * n
  <2>1. Cardinality(Y \cup R) \in Nat BY <1>4, FS_CardinalityType
  <2>2. ASSUME NEW f \in Consensus!Completions(b, E), Consensus!Carried(f, E)
        PROVE  3 * Cardinality(Y \cup R) >= 2 * n
    <3> DEFINE F == {v \in DOMAIN f : f[v] = "1"}
    <3>1. F \subseteq E BY <1>1, CompletionsAre
    <3>2. Cardinality(F) \in Nat BY <3>1, FS_Subset, FS_CardinalityType
    <3>3. Consensus!Count(f, "1") = Cardinality(F) BY CountIs
    <3>4. 3 * Cardinality(F) >= 2 * n BY <2>2, <3>3, CarriedIs
    <3>5. Cardinality(F) <= Cardinality(Y \cup R) BY <1>8, <3>3
    <3> HIDE DEF F, Y, R, n
    <3> QED BY <1>3, <2>1, <3>2, <3>4, <3>5
  <2>3. ASSUME 3 * Cardinality(Y \cup R) >= 2 * n
        PROVE  \E f \in Consensus!Completions(b, E) : Consensus!Carried(f, E)
    BY <1>9, <2>3, CarriedIs
  <2> HIDE DEF b, Y, R, n
  <2> QED BY <1>4, <2>2, <2>3
<1> QED BY <1>5, <1>10, SettledIs

LEMMA DecisionIs ==
  ASSUME NEW rec
  PROVE  /\ rec.status = "ABSENT" => DecisionOf(rec) = "absent"
         /\ Open(rec.status) => DecisionOf(rec) = "open"
         /\ rec.status = "REJECTED" => DecisionOf(rec) = "rejected"
         /\ rec.status = "EXPIRED" => DecisionOf(rec) = "expired"
         /\ rec.status = "FINAL" /\ rec.label = "1" => DecisionOf(rec) = "misinformation"
         /\ rec.status = "FINAL" /\ rec.label = "0" => DecisionOf(rec) = "no_misinformation"
BY DEF DecisionOf, Open

LEMMA MappedTo ==  /\ Ballots = BallotsOf(report[subject].checks)
         /\ Decision = DecisionOf(report[subject])
         /\ Ballots' = BallotsOf(report'[subject].checks)
         /\ Decision' = DecisionOf(report'[subject])
BY DEF Ballots, Decision, BallotsOf, DecisionOf

LEMMA OpenRecords ==
  ASSUME NEW rec \in ReportRecord, DecisionOf(rec) = "open"
  PROVE  Open(rec.status)
<1>1. rec.status \in {"ABSENT", "PENDING", "UNDER_REVIEW", "FINAL", "REJECTED", "EXPIRED"}
  BY DEF ReportRecord
<1> QED BY <1>1 DEF DecisionOf, Open

LEMMA UntouchedConsensus ==
  ASSUME report'[subject] = report[subject], registered' = registered
  PROVE  UNCHANGED Consensus!cvars
BY MappedTo DEF Consensus!cvars

LEMMA ConsensusInit ==
  ASSUME subject \in Reports, Init
  PROVE  Consensus!CInit
<1>1. report[subject] = NoReport /\ registered = {} BY DEF Init
<1>2. Ballots = << >>
  <2>1. Checkers(<<>>) = {} BY CheckersEmpty
  <2>2. BallotsOf(<<>>) = << >> BY <2>1 DEF BallotsOf
  <2>3. NoReport.checks = <<>> BY DEF NoReport
  <2> QED BY <1>1, <2>2, <2>3, MappedTo
<1>3. Decision = "absent"
  <2>1. NoReport.status = "ABSENT" BY DEF NoReport
  <2> QED BY <1>1, <2>1, MappedTo, DecisionIs
<1> QED BY <1>1, <1>2, <1>3 DEF Consensus!CInit

LEMMA SubmitOpens ==
  ASSUME TypeOK, ReportsInv, NEW org, NEW role, subject \in Reports, NEW ts, Submit(org, role, subject, ts)
  PROVE  Consensus!Open
<1>1. report'[subject] = NewReport(ts) /\ registered' = registered /\ report[subject].status = "ABSENT"
  BY DEF TypeOK, Submit, maySubmit
<1>2. report[subject].checks = <<>> BY <1>1 DEF ReportsInv, RecordInv
<1>3. report'[subject].checks = <<>> /\ report'[subject].status = "PENDING" BY <1>1 DEF NewReport
<1>4. Decision = "absent" BY <1>1, MappedTo, DecisionIs
<1>5. Decision' = "open"
  <2>1. Open(report'[subject].status) BY <1>3 DEF Open
  <2> QED BY <2>1, MappedTo, DecisionIs
<1>6. Ballots' = Ballots BY <1>2, <1>3, MappedTo
<1> QED BY <1>1, <1>4, <1>5, <1>6 DEF Consensus!Open

\* The early decision of SubmitFactCheck, which counts, is the one that looks at
\* every way to go on.
LEMMA EarlyDecisionIsSettled ==
  ASSUME NEW rec \in ReportRecord, NEW E, IsFiniteSet(E), NEW c \in FactCheck,
         RecordInv(rec, E), Open(rec.status), c.checker \in E,
         c.checker \notin Checkers(rec.checks)
  PROVE  LET new == AfterFactCheck(rec, E, c) IN
           DecisionOf(new) = Consensus!Settled(BallotsOf(new.checks), E)
<1> DEFINE new == AfterFactCheck(rec, E, c)
           t == new.checks
           yes == tally(t, "1")
           n == Cardinality(E)
<1>1. /\ new.checks = Append(rec.checks, c)
      /\ new.status \in {"FINAL", "REJECTED", "UNDER_REVIEW"}
      /\ new.status = "FINAL" => new.label = "1"
      /\ RecordInv(new, E)
  BY VoteKeepsRecord
<1>2. new.status = StatusAfterVote(E, t) BY <1>1 DEF AfterFactCheck
<1>3. t \in Seq(FactCheck) BY <1>1 DEF ReportRecord
<1>4. Len(t) = Cardinality(Checkers(t)) /\ Checkers(t) \subseteq E BY <1>1 DEF RecordInv
<1>5. n \in Nat BY FS_CardinalityType
<1>6. required(n) \in Nat /\ 3 * required(n) >= 2 * n /\ 3 * (required(n) - 1) < 2 * n
  BY <1>5, RequiredIsTwoThirds
<1>7. remaining(E, t) = n - Len(t) BY <1>3, <1>4, RemainingIsRest
<1>8. yes \in Nat /\ Len(t) \in Nat
  <2>1. Len(t) \in Nat BY <1>3
  <2>2. yes \in Nat BY <1>3, TallyType
  <2> QED BY <2>1, <2>2
<1>9. new.status = IF yes >= required(n) THEN "FINAL"
                   ELSE IF yes + remaining(E, t) < required(n) THEN "REJECTED"
                   ELSE "UNDER_REVIEW"
  BY <1>2 DEF StatusAfterVote
<1>10. Consensus!Settled(BallotsOf(t), E) =
           IF 3 * yes >= 2 * n THEN "misinformation"
           ELSE IF 3 * (yes + n - Len(t)) >= 2 * n THEN "open" ELSE "rejected"
  BY <1>3, <1>4, SettledIsCounted
<1>11. /\ new.status = "FINAL" => DecisionOf(new) = "misinformation"
       /\ new.status = "REJECTED" => DecisionOf(new) = "rejected"
       /\ new.status = "UNDER_REVIEW" => DecisionOf(new) = "open"
  BY <1>1, DecisionIs DEF Open
<1> HIDE DEF new, t, yes, n
<1>12. DecisionOf(new) = Consensus!Settled(BallotsOf(t), E)
  BY <1>5, <1>6, <1>7, <1>8, <1>9, <1>10, <1>11
<1> QED BY <1>12 DEF new, t

LEMMA VoteCasts ==
  ASSUME TypeOK, ReportsInv, NEW org \in Orgs, NEW role, subject \in Reports, NEW o \in Outcomes,
         SubmitFactCheck(org, role, subject, o)
  PROVE  Consensus!Cast
<1> DEFINE c == [checker |-> org, outcome |-> o]
           rec == report[subject]
           new == AfterFactCheck(rec, registered, c)
<1>1. /\ report'[subject] = new /\ registered' = registered
      /\ org \in registered /\ Open(rec.status) /\ org \notin Checkers(rec.checks)
  BY DEF TypeOK, SubmitFactCheck, maySubmitFactCheck, hasChecked
<1>2. c \in FactCheck /\ c.checker = org /\ c.outcome = o BY DEF FactCheck
<1>3. rec \in ReportRecord /\ IsFiniteSet(registered) BY RegisteredFinite DEF TypeOK
<1>4. RecordInv(rec, registered) BY DEF ReportsInv
<1>5. rec.checks \in Seq(FactCheck) BY <1>3 DEF ReportRecord
<1>6. Len(rec.checks) = Cardinality(Checkers(rec.checks)) /\ IsFiniteSet(Checkers(rec.checks))
  <2>1. Len(rec.checks) = Cardinality(Checkers(rec.checks)) /\ Checkers(rec.checks) \subseteq registered
    BY <1>4 DEF RecordInv
  <2> QED BY <2>1, <1>3, FS_Subset
<1> HIDE DEF c, rec
<1>7. new.checks = Append(rec.checks, c) BY <1>1, <1>2, <1>3, <1>4, VoteKeepsRecord
<1>8. DecisionOf(new) = Consensus!Settled(BallotsOf(new.checks), registered)
  BY <1>1, <1>2, <1>3, <1>4, EarlyDecisionIsSettled
<1>9. BallotsOf(new.checks) =
         [w \in Checkers(rec.checks) \cup {c.checker} |->
            IF w = c.checker THEN c.outcome ELSE BallotsOf(rec.checks)[w]]
  BY <1>1, <1>2, <1>5, <1>6, <1>7, BallotsAppend
<1> HIDE DEF new
<1>10. Ballots' = BallotsOf(new.checks) /\ Decision' = DecisionOf(new)
       /\ Ballots = BallotsOf(rec.checks) /\ Decision = DecisionOf(rec)
  BY <1>1, MappedTo DEF rec
<1>11. DOMAIN Ballots = Checkers(rec.checks) BY <1>10 DEF BallotsOf
<1>12. Decision = "open" BY <1>1, <1>10, DecisionIs
<1>13. Ballots' = [w \in DOMAIN Ballots \cup {c.checker} |->
                        IF w = c.checker THEN c.outcome ELSE Ballots[w]]
  BY <1>9, <1>10, <1>11
<1>14. Decision' = Consensus!Settled(Ballots', registered) BY <1>8, <1>10
<1>15. c.checker \in registered \ DOMAIN Ballots /\ c.outcome \in Outcomes
  BY <1>1, <1>2, <1>11
<1> QED BY <1>1, <1>12, <1>13, <1>14, <1>15 DEF Consensus!Cast

LEMMA MajorityCloses ==
  ASSUME TypeOK, ReportsInv, NEW org, NEW role, subject \in Reports, FinalizeReport(org, role, subject)
  PROVE  Consensus!CloseByMajority
<1> DEFINE s == report[subject].checks
<1>1. PICK w \in Outcomes :
        /\ Winner(s, w)
        /\ report' = [report EXCEPT ![subject] = [@ EXCEPT !.label = w, !.status = "FINAL"]]
  BY DEF FinalizeReport, mayFinalizeReport
<1>2. Open(report[subject].status) /\ enoughChecks(s) /\ registered' = registered
  BY DEF FinalizeReport, mayFinalizeReport
<1>3. report'[subject].status = "FINAL" /\ report'[subject].label = w /\ report'[subject].checks = s
  BY <1>1 DEF TypeOK, ReportRecord
<1>4. s \in Seq(FactCheck) /\ Len(s) = Cardinality(Checkers(s))
  BY DEF TypeOK, ReportRecord, ReportsInv, RecordInv
<1> HIDE DEF s
<1>5. /\ Ballots = BallotsOf(s) /\ Ballots' = Ballots
      /\ Decision = "open"
      /\ w = "1" => Decision' = "misinformation"
      /\ w = "0" => Decision' = "no_misinformation"
  BY <1>2, <1>3, MappedTo, DecisionIs DEF s
<1>6. DOMAIN Ballots = Checkers(s) BY <1>5 DEF BallotsOf
<1>7. Consensus!Cardinality(DOMAIN Ballots) >= 2
  BY <1>2, <1>4, <1>6, CardinalityIs DEF enoughChecks
<1>8. \A v : Consensus!Count(Ballots, v) = tally(s, v) BY <1>4, <1>5, CountIsTally
<1>9. \/ w = "1" /\ tally(s, "1") > tally(s, "0")
      \/ w = "0" /\ tally(s, "0") > tally(s, "1")
  BY <1>1 DEF Winner, Outcomes
<1> QED BY <1>2, <1>5, <1>7, <1>8, <1>9 DEF Consensus!CloseByMajority

LEMMA ExpiryLapses ==
  ASSUME TypeOK, NEW org, NEW role, subject \in Reports, ExpireReport(org, role, subject)
  PROVE  Consensus!Lapse
<1>1. report'[subject].status = "EXPIRED" /\ report'[subject].checks = report[subject].checks
      /\ registered' = registered /\ Open(report[subject].status)
  BY DEF TypeOK, ReportRecord, ExpireReport, mayExpireReport
<1>2. Decision = "open" /\ Decision' = "expired" /\ Ballots' = Ballots
  BY <1>1, MappedTo, DecisionIs
<1> QED BY <1>1, <1>2 DEF Consensus!Lapse

\* A member joins, and the open report it may now vote on stays undecided.
LEMMA GrowthEnrols ==
  ASSUME TypeOK, ReportsInv, NEW o \in Orgs, o \notin registered, subject \in Reports,
         registered' = registered \cup {o}, report' = report
  PROVE  Consensus!Enrol
<1> DEFINE s == report[subject].checks  E == registered \cup {o}
<1>1. Ballots = BallotsOf(s) /\ Ballots' = Ballots /\ Decision' = Decision
      /\ Decision = DecisionOf(report[subject])
  BY MappedTo
<1>2. report[subject] \in ReportRecord /\ s \in Seq(FactCheck) BY DEF TypeOK, ReportRecord
<1>3. RecordInv(report[subject], E)
  <2>1. RecordInv(report[subject], registered) BY DEF ReportsInv
  <2> QED BY <2>1, <1>2, RegisteredFinite, GrowthKeepsRecord
<1>4. IsFiniteSet(E) BY RegisteredFinite, FS_AddElement
<1>5. Len(s) = Cardinality(Checkers(s)) /\ Checkers(s) \subseteq E BY <1>3 DEF RecordInv
<1>6. ASSUME Decision = "open" PROVE Consensus!Settled(Ballots, E) = "open"
  <2>1. Open(report[subject].status) BY <1>1, <1>2, <1>6, OpenRecords
  <2>2. 3 * tally(s, "1") < 2 * Cardinality(E)
        /\ 3 * (tally(s, "1") + Cardinality(E) - Len(s)) >= 2 * Cardinality(E)
    BY <2>1, <1>3 DEF RecordInv
  <2>3. tally(s, "1") \in Nat /\ Cardinality(E) \in Nat
    BY <1>2, <1>4, TallyType, FS_CardinalityType
  <2>4. Consensus!Settled(BallotsOf(s), E) =
          IF 3 * tally(s, "1") >= 2 * Cardinality(E) THEN "misinformation"
          ELSE IF 3 * (tally(s, "1") + Cardinality(E) - Len(s)) >= 2 * Cardinality(E)
               THEN "open" ELSE "rejected"
    BY <1>2, <1>4, <1>5, SettledIsCounted
  <2> HIDE DEF s, E
  <2> QED BY <2>2, <2>3, <2>4, <1>1
<1>7. registered' = E OBVIOUS
<1> HIDE DEF E
<1>8. Decision = "open" => Consensus!Settled(Ballots, registered') = "open"
  BY <1>6, <1>7
<1>9. \E v \in Orgs \ registered : registered' = registered \cup {v} OBVIOUS
<1> QED BY <1>1, <1>8, <1>9 DEF Consensus!Enrol

LEMMA ConsensusNext ==
  ASSUME TypeOK, ReportsInv, [Next]_vars, subject \in Reports
  PROVE  [Consensus!CNext]_(Consensus!cvars)
<1> DEFINE Stutter == UNCHANGED Consensus!cvars
<1>1. ASSUME report' = report, registered' = registered PROVE Stutter
  BY <1>1, UntouchedConsensus
<1>2. ASSUME NEW role \in Roles, NEW limit \in Limits, SetFoundingOrgLimit(role, limit)
      PROVE  Stutter
  BY <1>1, <1>2 DEF SetFoundingOrgLimit
<1>3. ASSUME NEW org \in Orgs, RegisterOrg(org) PROVE Stutter \/ Consensus!Enrol
  <2>1. CASE org \in registered BY <1>1, <1>3, <2>1 DEF RegisterOrg, vars
  <2>2. CASE org \notin registered
    BY <1>3, <2>2, GrowthEnrols DEF RegisterOrg, mayRegisterOrg
  <2> QED BY <2>1, <2>2
<1>4. ASSUME NEW org \in Candidates, RequestOrgAdmission(org) PROVE Stutter
  BY <1>1, <1>4 DEF RequestOrgAdmission
<1>5. ASSUME NEW org \in Orgs, NEW role \in Roles, NEW c \in Orgs, NEW v \in Outcomes,
             VoteOnOrgAdmission(org, role, c, v)
      PROVE  Stutter
  BY <1>1, <1>5 DEF VoteOnOrgAdmission
<1>6. ASSUME NEW org \in Orgs, NEW role \in Roles, NEW c \in Orgs,
             FinalizeOrgAdmission(org, role, c)
      PROVE  Stutter \/ Consensus!Enrol
  <2>1. registered' = registered \cup {c} /\ report' = report BY <1>6 DEF FinalizeOrgAdmission
  <2>2. CASE c \in registered
    <3>1. registered' = registered BY <2>1, <2>2
    <3> QED BY <2>1, <3>1, <1>1
  <2>3. CASE c \notin registered BY <2>1, <2>3, GrowthEnrols
  <2> QED BY <2>2, <2>3
<1>7. ASSUME NEW q \in Reports \ {subject}, NEW rec, report' = [report EXCEPT ![q] = rec],
             registered' = registered
      PROVE  Stutter
  <2>1. report'[subject] = report[subject] BY <1>7 DEF TypeOK
  <2> QED BY <2>1, <1>7, UntouchedConsensus
<1>8. ASSUME NEW org \in Orgs, NEW role \in Roles, NEW q \in Reports, NEW ts \in Times,
             Submit(org, role, q, ts)
      PROVE  Stutter \/ Consensus!Open
  <2>1. CASE q = subject BY <1>8, <2>1, SubmitOpens
  <2>2. CASE q # subject BY <1>7, <1>8, <2>2 DEF Submit
  <2> QED BY <2>1, <2>2
<1>9. ASSUME NEW org \in Orgs, NEW role \in Roles, NEW q \in Reports, NEW o \in Outcomes,
             SubmitFactCheck(org, role, q, o)
      PROVE  Stutter \/ Consensus!Cast
  <2>1. CASE q = subject BY <1>9, <2>1, VoteCasts
  <2>2. CASE q # subject BY <1>7, <1>9, <2>2 DEF SubmitFactCheck
  <2> QED BY <2>1, <2>2
<1>10. ASSUME NEW org \in Orgs, NEW role \in Roles, NEW q \in Reports,
              FinalizeReport(org, role, q)
       PROVE  Stutter \/ Consensus!CloseByMajority
  <2>1. CASE q = subject BY <1>10, <2>1, MajorityCloses
  <2>2. CASE q # subject BY <1>7, <1>10, <2>2 DEF FinalizeReport
  <2> QED BY <2>1, <2>2
<1>11. ASSUME NEW org \in Orgs, NEW role \in Roles, NEW q \in Reports,
              ExpireReport(org, role, q)
       PROVE  Stutter \/ Consensus!Lapse
  <2>1. CASE q = subject BY <1>11, <2>1, ExpiryLapses
  <2>2. CASE q # subject BY <1>7, <1>11, <2>2 DEF ExpireReport
  <2> QED BY <2>1, <2>2
<1>12. CASE Tick BY <1>1, <1>12 DEF Tick
<1>13. CASE UNCHANGED vars BY <1>1, <1>13 DEF vars
<1> HIDE DEF Stutter
<1>14. CASE MembershipStep
  <2>1. Stutter \/ Consensus!Enrol BY <1>14, <1>2, <1>3, <1>4, <1>5, <1>6 DEF MembershipStep
  <2> QED BY <2>1 DEF Consensus!CNext, Stutter
<1>15. CASE ReportStep
  <2>1. PICK org \in Orgs, role \in Roles, q \in Reports :
          \/ \E ts \in Times : Submit(org, role, q, ts)
          \/ \E o \in Outcomes : SubmitFactCheck(org, role, q, o)
          \/ FinalizeReport(org, role, q)
          \/ ExpireReport(org, role, q)
    BY <1>15 DEF ReportStep
  <2>2. Stutter \/ Consensus!Open \/ Consensus!Cast \/ Consensus!CloseByMajority
          \/ Consensus!Lapse
    BY <2>1, <1>8, <1>9, <1>10, <1>11
  <2> QED BY <2>2 DEF Consensus!CNext, Stutter
<1>16. CASE Tick \/ UNCHANGED vars BY <1>16, <1>12, <1>13 DEF Stutter
<1> QED BY <1>14, <1>15, <1>16 DEF Next

\* Seen on its own, each report is a run of the abstract consensus: a growing
\* electorate casts ballots, one each, and SubmitFactCheck, FinalizeReport and
\* ExpireReport decide as the consortium was promised, although the chaincode
\* counts and never looks at the ways a vote could still go.
THEOREM ReportsAreConsensus == subject \in Reports => (Spec => ImplementsConsensus)
<1> SUFFICES ASSUME subject \in Reports PROVE Spec => ImplementsConsensus
  OBVIOUS
<1>1. Init => Consensus!CInit BY ConsensusInit
<1>2. TypeOK /\ ReportsInv /\ [Next]_vars => [Consensus!CNext]_(Consensus!cvars)
  BY ConsensusNext
<1> QED BY <1>1, <1>2, ReportsInvariant, PTL DEF Spec, ImplementsConsensus, Consensus!CSpec

-----------------------------------------------------------------------------
(* The demo's stand-in for the ledger: what its object and its file hold. *)

MockReportRecord == {x \in MockRecord : x.status = "ABSENT" => x.checks = <<>>}
MockRequest == [status : {"ABSENT", "PENDING", "ADMITTED"},
                votes : Seq([voter : MockOrgs, verdict : MockOutcomes])]

LEMMA LedgerDataIs ==
  MockLedgerData = [orgs : SUBSET MockOrgs, reports : [MockReports -> MockReportRecord],
                    admissions : [MockOrgs -> MockRequest]]
BY DEF MockLedgerData, MockReportRecord, MockRequest

LEMMA MockInit == KInit => KTypeOK
<1> SUFFICES ASSUME KInit PROVE KTypeOK
  OBVIOUS
<1>1. NoMockReport \in MockReportRecord /\ NoAdmission \in MockRequest
  BY DEF NoMockReport, NoAdmission, MockReportRecord, MockRecord, MockRequest, MockOutcomes
<1>2. Empty \in MockLedgerData /\ [Empty EXCEPT !.orgs = ORGS] \in MockLedgerData
  BY <1>1, LedgerDataIs, MockAssumption DEF Empty
<1>3. NoHistory \in [MockReports -> Seq(MockRecord)] BY DEF NoHistory
<1>4. disk \in [data : MockLedgerData, history : [MockReports -> Seq(MockRecord)]]
  <2> HIDE DEF Empty, NoHistory
  <2> QED BY <1>2, <1>3 DEF KInit
<1> QED BY <1>2, <1>3, <1>4, MockAssumption DEF KInit, KTypeOK

\* What _save leaves of the file is the object, or what was there.
LEMMA SavesType ==
  ASSUME KTypeOK, NEW votes \in SUBSET (MockReports \X MockOrgs \X MockOutcomes), Saves(votes),
         memory' \in MockLedgerData, history' \in [MockReports -> Seq(MockRecord)],
         mockNow' \in 0..MaxMockTime
  PROVE  KTypeOK'
<1>1. disk' \in [data : MockLedgerData, history : [MockReports -> Seq(MockRecord)]]
  BY DEF Saves, KTypeOK
<1>2. confirmed' \subseteq MockReports \X MockOrgs \X MockOutcomes BY DEF Saves, KTypeOK
<1> QED BY <1>1, <1>2 DEF KTypeOK

LEMMA WritesType ==
  ASSUME KTypeOK, NEW r \in MockReports, NEW record \in MockReportRecord,
         NEW votes \in SUBSET (MockReports \X MockOrgs \X MockOutcomes), Writes(r, record, votes)
  PROVE  KTypeOK'
<1>1. memory' = [memory EXCEPT !.reports = [@ EXCEPT ![r] = record]] BY DEF Writes
<1>2. memory' \in MockLedgerData BY <1>1, LedgerDataIs DEF KTypeOK
<1>3. record \in MockRecord BY DEF MockReportRecord
<1>4. history' \in [MockReports -> Seq(MockRecord)] BY <1>3 DEF Writes, KTypeOK
<1> QED BY <1>2, <1>4, SavesType DEF Writes, KTypeOK

LEMMA SavesAdmissionType ==
  ASSUME KTypeOK, NEW c \in MockOrgs, NEW request \in MockRequest, SavesAdmission(c, request)
  PROVE  KTypeOK'
<1> DEFINE orgs == IF request.status = "ADMITTED" THEN memory.orgs \cup {c} ELSE memory.orgs
<1>1. memory' = [orgs |-> orgs, reports |-> memory.reports,
                 admissions |-> [memory.admissions EXCEPT ![c] = request]]
  BY LedgerDataIs DEF SavesAdmission, KTypeOK
<1>2. orgs \in SUBSET MockOrgs BY LedgerDataIs DEF KTypeOK
<1> HIDE DEF orgs
<1>3. memory' \in MockLedgerData BY <1>1, <1>2, LedgerDataIs DEF KTypeOK
<1>4. {} \in SUBSET (MockReports \X MockOrgs \X MockOutcomes) OBVIOUS
<1> QED BY <1>3, <1>4, SavesType DEF SavesAdmission, KTypeOK

\* What a vote makes of the record: one more check, and perhaps a decision.
LEMMA DecidedIs ==
  ASSUME NEW record \in MockRecord, NEW orgs
  PROVE  /\ Decided(record, orgs) \in MockRecord
         /\ Decided(record, orgs).checks = record.checks
         /\ Decided(record, orgs).status # "ABSENT"
BY DEF Decided, MockRecord, MockOutcomes

LEMMA VotedIs ==
  ASSUME NEW record \in MockRecord, NEW msp \in MockOrgs, NEW outcome \in MockOutcomes
  PROVE  LET check == [checker |-> msp, outcome |-> outcome]
             voted == [record EXCEPT !.checks = Append(@, check)]
         IN  voted \in MockRecord /\ voted.checks = Append(record.checks, check)
<1> DEFINE check == [checker |-> msp, outcome |-> outcome]
<1>1. check \in [checker : MockOrgs, outcome : MockOutcomes] OBVIOUS
<1>2. record.checks \in Seq([checker : MockOrgs, outcome : MockOutcomes]) BY DEF MockRecord
<1> HIDE DEF check
<1>3. Append(record.checks, check) \in Seq([checker : MockOrgs, outcome : MockOutcomes])
  BY <1>1, <1>2
<1>4. QED
  <2> SUFFICES [record EXCEPT !.checks = Append(@, check)] \in MockRecord
               /\ [record EXCEPT !.checks = Append(@, check)].checks = Append(record.checks, check)
    BY DEF check
  <2> QED BY <1>3 DEF MockRecord

\* The records that the calls on a report write: each keeps the checks of the one
\* before it, and only a vote adds one.
LEMMA RecordsWritten ==
  ASSUME KTypeOK, NEW msp \in MockOrgs, NEW r \in MockReports
  PROVE  /\ Record(r) \in MockReportRecord
         /\ MockSubmit(msp, r) => \E record \in MockReportRecord :
              Writes(r, record, {}) /\ record.checks = Record(r).checks
         /\ \A outcome \in MockOutcomes : MockFactCheck(msp, r, outcome) =>
              \E record \in MockReportRecord :
                /\ Writes(r, record, {<<r, msp, outcome>>})
                /\ record.checks = Append(Record(r).checks, [checker |-> msp, outcome |-> outcome])
         /\ \A role : MockFinalize(msp, role, r) \/ MockExpire(msp, role, r) =>
              \E record \in MockReportRecord :
                Writes(r, record, {}) /\ record.checks = Record(r).checks
<1>1. Record(r) \in MockReportRecord /\ Record(r) \in MockRecord
  BY LedgerDataIs DEF KTypeOK, Record, MockReportRecord
<1>2. ASSUME MockSubmit(msp, r)
      PROVE  \E record \in MockReportRecord :
               Writes(r, record, {}) /\ record.checks = Record(r).checks
  <2> DEFINE record == [status |-> "PENDING", checks |-> <<>>, label |-> "none",
                        deadline |-> mockNow + window]
  <2>1. Writes(r, record, {}) /\ Record(r).status = "ABSENT" BY <1>2 DEF MockSubmit
  <2>2. record \in MockReportRecord /\ record.checks = <<>>
    BY MockAssumption DEF MockReportRecord, MockRecord, MockOutcomes, KTypeOK
  <2>3. Record(r).checks = <<>> BY <1>1, <2>1 DEF MockReportRecord
  <2> HIDE DEF record
  <2> QED BY <2>1, <2>2, <2>3
<1>3. ASSUME NEW outcome \in MockOutcomes, MockFactCheck(msp, r, outcome)
      PROVE  \E record \in MockReportRecord :
               /\ Writes(r, record, {<<r, msp, outcome>>})
               /\ record.checks = Append(Record(r).checks, [checker |-> msp, outcome |-> outcome])
  <2> DEFINE voted == [Record(r) EXCEPT !.checks = Append(@, [checker |-> msp, outcome |-> outcome])]
  <2>1. Writes(r, Decided(voted, memory.orgs), {<<r, msp, outcome>>}) BY <1>3 DEF MockFactCheck
  <2>2. voted \in MockRecord
        /\ voted.checks = Append(Record(r).checks, [checker |-> msp, outcome |-> outcome])
    BY <1>1, VotedIs
  <2> HIDE DEF voted
  <2>3. Decided(voted, memory.orgs) \in MockReportRecord
        /\ Decided(voted, memory.orgs).checks = voted.checks
    BY <2>2, DecidedIs DEF MockReportRecord
  <2> QED BY <2>1, <2>2, <2>3
<1>4. ASSUME NEW role, MockFinalize(msp, role, r) \/ MockExpire(msp, role, r)
      PROVE  \E record \in MockReportRecord :
               Writes(r, record, {}) /\ record.checks = Record(r).checks
  <2>1. ASSUME NEW label \in MockOutcomes
        PROVE  /\ [Record(r) EXCEPT !.status = "FINAL", !.label = label] \in MockReportRecord
               /\ [Record(r) EXCEPT !.status = "FINAL", !.label = label].checks = Record(r).checks
    BY <1>1 DEF MockReportRecord, MockRecord
  <2>2. /\ [Record(r) EXCEPT !.status = "EXPIRED"] \in MockReportRecord
        /\ [Record(r) EXCEPT !.status = "EXPIRED"].checks = Record(r).checks
    BY <1>1 DEF MockReportRecord, MockRecord
  <2>3. CASE MockFinalize(msp, role, r)
    <3> DEFINE closed(label) == [Record(r) EXCEPT !.status = "FINAL", !.label = label]
    <3>1. Writes(r, closed("1"), {}) \/ Writes(r, closed("0"), {}) BY <2>3 DEF MockFinalize
    <3>2. \A label \in {"0", "1"} :
            closed(label) \in MockReportRecord /\ closed(label).checks = Record(r).checks
      BY <2>1 DEF MockOutcomes
    <3> HIDE DEF closed
    <3> QED BY <3>1, <3>2
  <2>4. CASE MockExpire(msp, role, r)
    <3> DEFINE expired == [Record(r) EXCEPT !.status = "EXPIRED"]
    <3>1. Writes(r, expired, {}) BY <2>4 DEF MockExpire
    <3>2. expired \in MockReportRecord /\ expired.checks = Record(r).checks BY <2>2
    <3> HIDE DEF expired
    <3> QED BY <3>1, <3>2
  <2> QED BY <1>4, <2>3, <2>4
<1> QED BY <1>1, <1>2, <1>3, <1>4

\* The requests that the calls on an admission save.
LEMMA RequestsSaved ==
  ASSUME KTypeOK, NEW msp \in MockOrgs
  PROVE  /\ MockRequestAdmission(msp) => \E request \in MockRequest : SavesAdmission(msp, request)
         /\ \A role \in MockRoles, c \in MockOrgs, v \in MockOutcomes : MockVoteOnAdmission(msp, role, c, v) =>
              \E request \in MockRequest : SavesAdmission(c, request)
         /\ \A role \in MockRoles, c \in MockOrgs : MockFinalizeAdmission(msp, role, c) =>
              \E request \in MockRequest : SavesAdmission(c, request)
<1>1. \A c \in MockOrgs : MockAdmission(c) \in MockRequest
  BY LedgerDataIs DEF KTypeOK, MockAdmission
<1>2. MockRequestAdmission(msp) => \E request \in MockRequest : SavesAdmission(msp, request)
  <2>1. [status |-> "PENDING", votes |-> <<>>] \in MockRequest BY DEF MockRequest
  <2> QED BY <2>1 DEF MockRequestAdmission
<1>3. ASSUME NEW role \in MockRoles, NEW c \in MockOrgs, NEW v \in MockOutcomes,
             MockVoteOnAdmission(msp, role, c, v)
      PROVE  \E request \in MockRequest : SavesAdmission(c, request)
  <2> DEFINE vote == [voter |-> msp, verdict |-> v]
  <2>1. vote \in [voter : MockOrgs, verdict : MockOutcomes] OBVIOUS
  <2>2. MockAdmission(c).votes \in Seq([voter : MockOrgs, verdict : MockOutcomes])
    BY <1>1 DEF MockRequest
  <2>3. SavesAdmission(c, [MockAdmission(c) EXCEPT !.votes = Append(@, vote)])
    BY <1>3 DEF MockVoteOnAdmission
  <2> HIDE DEF vote
  <2>4. Append(MockAdmission(c).votes, vote) \in Seq([voter : MockOrgs, verdict : MockOutcomes])
    BY <2>1, <2>2
  <2>5. [MockAdmission(c) EXCEPT !.votes = Append(@, vote)] \in MockRequest
    BY <1>1, <2>4 DEF MockRequest
  <2> QED BY <2>3, <2>5
<1>4. ASSUME NEW role \in MockRoles, NEW c \in MockOrgs, MockFinalizeAdmission(msp, role, c)
      PROVE  \E request \in MockRequest : SavesAdmission(c, request)
  <2>1. [MockAdmission(c) EXCEPT !.status = "ADMITTED"] \in MockRequest BY <1>1 DEF MockRequest
  <2> QED BY <1>4, <2>1 DEF MockFinalizeAdmission
<1> QED BY <1>2, <1>3, <1>4

LEMMA RestartType ==
  ASSUME KTypeOK, MockRestart
  PROVE  KTypeOK'
<1> DEFINE loaded == IF StatePath THEN disk ELSE [data |-> Empty, history |-> NoHistory]
<1>1. loaded.data \in MockLedgerData /\ loaded.history \in [MockReports -> Seq(MockRecord)]
  <2>1. NoMockReport \in MockReportRecord /\ NoAdmission \in MockRequest
    BY DEF NoMockReport, NoAdmission, MockReportRecord, MockRecord, MockRequest, MockOutcomes
  <2>2. Empty \in MockLedgerData BY <2>1, LedgerDataIs DEF Empty
  <2>3. NoHistory \in [MockReports -> Seq(MockRecord)] BY DEF NoHistory
  <2> QED BY <2>2, <2>3 DEF KTypeOK
<1>2. memory' = [loaded.data EXCEPT !.orgs = @ \cup ORGS] /\ history' = loaded.history
  BY DEF MockRestart
<1> HIDE DEF loaded
<1>3. memory' \in MockLedgerData BY <1>1, <1>2, LedgerDataIs, MockAssumption
<1>4. disk' \in [data : MockLedgerData, history : [MockReports -> Seq(MockRecord)]]
  BY <1>1, <1>2, <1>3 DEF MockRestart, KTypeOK
<1> QED BY <1>1, <1>2, <1>3, <1>4 DEF MockRestart, KTypeOK

LEMMA MockNext == KTypeOK /\ [KNext]_kvars => KTypeOK'
<1> SUFFICES ASSUME KTypeOK, [KNext]_kvars PROVE KTypeOK'
  OBVIOUS
<1>1. CASE KCalls
  <2>1. PICK msp \in MockOrgs :
          \/ \E r \in MockReports : MockSubmit(msp, r)
          \/ \E r \in MockReports, outcome \in MockOutcomes : MockFactCheck(msp, r, outcome)
          \/ \E r \in MockReports, role \in MockRoles : MockFinalize(msp, role, r) \/ MockExpire(msp, role, r)
          \/ MockRequestAdmission(msp)
          \/ \E c \in MockOrgs, role \in MockRoles, v \in MockOutcomes : MockVoteOnAdmission(msp, role, c, v)
          \/ \E c \in MockOrgs, role \in MockRoles : MockFinalizeAdmission(msp, role, c)
    BY <1>1 DEF KCalls
  <2>2. \A r \in MockReports, outcome \in MockOutcomes :
          {<<r, msp, outcome>>} \in SUBSET (MockReports \X MockOrgs \X MockOutcomes)
    OBVIOUS
  <2>3. (\E r \in MockReports, record \in MockReportRecord,
            votes \in SUBSET (MockReports \X MockOrgs \X MockOutcomes) : Writes(r, record, votes))
        \/ \E c \in MockOrgs, request \in MockRequest : SavesAdmission(c, request)
    BY <2>1, <2>2, RecordsWritten, RequestsSaved
  <2> QED BY <2>3, WritesType, SavesAdmissionType
<1>2. CASE MockRestart BY <1>2, RestartType
<1>3. CASE MockElapses BY <1>3, MockAssumption DEF MockElapses, KTypeOK
<1>4. CASE UNCHANGED kvars BY <1>4 DEF kvars, KTypeOK
<1> QED BY <1>1, <1>2, <1>3, <1>4 DEF KNext

\* The object, its history and its file are well formed, whatever could not be
\* written and whenever the process died.
THEOREM MockTypeCorrect == KSpec => []KTypeOK
<1> QED BY MockInit, MockNext, PTL DEF KSpec

\* A report's checks hold the vote.
HoldsVote(reports, vote) ==
  \E i \in DOMAIN reports[vote[1]].checks :
    reports[vote[1]].checks[i] = [checker |-> vote[2], outcome |-> vote[3]]

LEMMA VotesStandIs ==
  /\ ConfirmedVotesStand <=> (StatePath => \A vote \in confirmed :
       HoldsVote(memory.reports, vote) /\ HoldsVote(disk.data.reports, vote))
  /\ ConfirmedVotesStand' <=> (StatePath => \A vote \in confirmed' :
       HoldsVote(memory'.reports, vote) /\ HoldsVote(disk'.data.reports, vote))
BY Zenon DEF ConfirmedVotesStand, HoldsVote

\* Nothing a call writes loses a vote, so what reaches the file may replace what is
\* there; and a restart, which goes back to the file, finds every confirmed vote in
\* it.  That the memory holds them as well is what a later write of the file rests on.
LEMMA WriteKeepsVotes ==
  ASSUME KTypeOK, StatePath, ConfirmedVotesStand, NEW r \in MockReports,
         NEW record \in MockReportRecord,
         NEW votes, Writes(r, record, votes),
         \A i \in DOMAIN Record(r).checks :
           i \in DOMAIN record.checks /\ record.checks[i] = Record(r).checks[i],
         \A vote \in votes : vote[1] = r /\
           \E i \in DOMAIN record.checks :
             record.checks[i] = [checker |-> vote[2], outcome |-> vote[3]]
  PROVE  ConfirmedVotesStand'
<1>1. memory'.reports = [memory.reports EXCEPT ![r] = record]
  <2>1. memory' = [memory EXCEPT !.reports = [@ EXCEPT ![r] = record]] BY DEF Writes
  <2> QED BY <2>1, LedgerDataIs DEF KTypeOK
<1>2. memory.reports \in [MockReports -> MockReportRecord] BY LedgerDataIs DEF KTypeOK
<1>3. \A vote \in confirmed : vote[1] \in MockReports BY DEF KTypeOK
<1>4. ASSUME NEW vote \in confirmed PROVE HoldsVote(memory'.reports, vote)
  <2>1. PICK i \in DOMAIN memory.reports[vote[1]].checks :
          memory.reports[vote[1]].checks[i] = [checker |-> vote[2], outcome |-> vote[3]]
    BY VotesStandIs DEF HoldsVote
  <2>2. CASE vote[1] = r
    <3>1. memory'.reports[vote[1]] = record BY <1>1, <1>2, <2>2
    <3>2. i \in DOMAIN record.checks /\ record.checks[i] = memory.reports[vote[1]].checks[i]
      BY <2>1, <2>2 DEF Record
    <3> QED BY <3>1, <3>2, <2>1 DEF HoldsVote
  <2>3. CASE vote[1] # r
    <3>1. memory'.reports[vote[1]] = memory.reports[vote[1]] BY <1>1, <1>2, <1>3, <2>3
    <3> QED BY <3>1, <2>1 DEF HoldsVote
  <2> QED BY <2>2, <2>3
<1>5. ASSUME NEW vote \in votes PROVE HoldsVote(memory'.reports, vote)
  <2>1. memory'.reports[vote[1]] = record BY <1>1, <1>2
  <2> QED BY <2>1 DEF HoldsVote
<1>6. \/ disk'.data = memory' /\ confirmed' = confirmed \cup votes
      \/ disk' = disk /\ confirmed' = confirmed
  BY DEF Writes, Saves
<1>7. CASE disk'.data = memory' /\ confirmed' = confirmed \cup votes
  BY <1>4, <1>5, <1>7, VotesStandIs
<1>8. CASE disk' = disk /\ confirmed' = confirmed
  BY <1>4, <1>8, VotesStandIs
<1> QED BY <1>6, <1>7, <1>8

LEMMA AppendKeeps ==
  ASSUME NEW S, NEW s \in Seq(S), NEW x \in S
  PROVE  /\ \A i \in DOMAIN s : i \in DOMAIN Append(s, x) /\ Append(s, x)[i] = s[i]
         /\ \E i \in DOMAIN Append(s, x) : Append(s, x)[i] = x
<1>1. Len(s) + 1 \in DOMAIN Append(s, x) /\ Append(s, x)[Len(s) + 1] = x OBVIOUS
<1> QED BY <1>1

LEMMA CallsKeepVotes ==
  ASSUME KTypeOK, StatePath, ConfirmedVotesStand, KCalls
  PROVE  ConfirmedVotesStand'
<1>1. ASSUME NEW msp \in MockOrgs, NEW r \in MockReports, NEW outcome \in MockOutcomes,
             MockFactCheck(msp, r, outcome)
      PROVE  ConfirmedVotesStand'
  <2> DEFINE check == [checker |-> msp, outcome |-> outcome]
  <2>1. PICK record \in MockReportRecord :
          Writes(r, record, {<<r, msp, outcome>>}) /\ record.checks = Append(Record(r).checks, check)
    BY <1>1, RecordsWritten
  <2>2. check \in [checker : MockOrgs, outcome : MockOutcomes]
        /\ Record(r).checks \in Seq([checker : MockOrgs, outcome : MockOutcomes])
    BY RecordsWritten DEF MockReportRecord, MockRecord
  <2>3. /\ \A i \in DOMAIN Record(r).checks :
             i \in DOMAIN record.checks /\ record.checks[i] = Record(r).checks[i]
        /\ \E i \in DOMAIN record.checks : record.checks[i] = check
    <3> HIDE DEF check
    <3> QED BY <2>1, <2>2, AppendKeeps
  <2>4. \A vote \in {<<r, msp, outcome>>} : vote[1] = r /\
          \E i \in DOMAIN record.checks :
            record.checks[i] = [checker |-> vote[2], outcome |-> vote[3]]
    BY <2>3
  <2> QED BY <2>1, <2>3, <2>4, WriteKeepsVotes
<1>2. ASSUME NEW r \in MockReports, NEW record \in MockReportRecord, Writes(r, record, {}),
             record.checks = Record(r).checks
      PROVE  ConfirmedVotesStand'
  BY <1>2, WriteKeepsVotes
<1>3. ASSUME NEW c \in MockOrgs, NEW request \in MockRequest, SavesAdmission(c, request)
      PROVE  ConfirmedVotesStand'
  <2>1. memory'.reports = memory.reports BY <1>3, LedgerDataIs DEF SavesAdmission, KTypeOK
  <2>2. (disk'.data = memory' \/ disk' = disk) /\ confirmed' = confirmed
    BY <1>3 DEF SavesAdmission, Saves
  <2> QED BY <2>1, <2>2, VotesStandIs
<1>4. PICK msp \in MockOrgs :
        \/ \E r \in MockReports : MockSubmit(msp, r)
        \/ \E r \in MockReports, outcome \in MockOutcomes : MockFactCheck(msp, r, outcome)
        \/ \E r \in MockReports, role \in MockRoles : MockFinalize(msp, role, r) \/ MockExpire(msp, role, r)
        \/ MockRequestAdmission(msp)
        \/ \E c \in MockOrgs, role \in MockRoles, v \in MockOutcomes : MockVoteOnAdmission(msp, role, c, v)
        \/ \E c \in MockOrgs, role \in MockRoles : MockFinalizeAdmission(msp, role, c)
  BY DEF KCalls
<1>5. CASE \E r \in MockReports, outcome \in MockOutcomes : MockFactCheck(msp, r, outcome)
  BY <1>1, <1>5
<1>6. CASE \E r \in MockReports : MockSubmit(msp, r) \/
             \E role \in MockRoles : MockFinalize(msp, role, r) \/ MockExpire(msp, role, r)
  <2>1. PICK r \in MockReports : MockSubmit(msp, r) \/
          \E role \in MockRoles : MockFinalize(msp, role, r) \/ MockExpire(msp, role, r)
    BY <1>6
  <2>2. \E record \in MockReportRecord : Writes(r, record, {}) /\ record.checks = Record(r).checks
    BY <2>1, RecordsWritten
  <2> QED BY <2>2, <1>2
<1>7. CASE \/ MockRequestAdmission(msp)
           \/ \E c \in MockOrgs, role \in MockRoles, v \in MockOutcomes : MockVoteOnAdmission(msp, role, c, v)
           \/ \E c \in MockOrgs, role \in MockRoles : MockFinalizeAdmission(msp, role, c)
  <2>1. \E c \in MockOrgs, request \in MockRequest : SavesAdmission(c, request)
    BY <1>7, RequestsSaved
  <2> QED BY <2>1, <1>3
<1> QED BY <1>4, <1>5, <1>6, <1>7

LEMMA RestartKeepsVotes ==
  ASSUME KTypeOK, StatePath, ConfirmedVotesStand, MockRestart
  PROVE  ConfirmedVotesStand'
<1>1. memory' = [disk.data EXCEPT !.orgs = @ \cup ORGS] BY DEF MockRestart
<1>2. memory'.reports = disk.data.reports BY <1>1, LedgerDataIs DEF KTypeOK
<1>3. disk'.data = memory' /\ confirmed' = confirmed BY DEF MockRestart
<1> QED BY <1>2, <1>3, VotesStandIs

LEMMA VotesStandInit == KInit => ConfirmedVotesStand
BY DEF KInit, ConfirmedVotesStand

LEMMA VotesStandNext ==
  ASSUME KTypeOK, ConfirmedVotesStand, [KNext]_kvars
  PROVE  ConfirmedVotesStand'
<1>1. CASE ~StatePath BY <1>1, VotesStandIs
<1>2. CASE StatePath
  <2>1. CASE KCalls BY <1>2, <2>1, CallsKeepVotes
  <2>2. CASE MockRestart BY <1>2, <2>2, RestartKeepsVotes
  <2>3. CASE MockElapses BY <2>3, VotesStandIs DEF MockElapses
  <2>4. CASE UNCHANGED kvars BY <2>4, VotesStandIs DEF kvars
  <2> QED BY <2>1, <2>2, <2>3, <2>4 DEF KNext
<1> QED BY <1>1, <1>2

\* With a file, no vote whose call returned is ever lost: not by a later write that
\* fails, not by a crash between the change of memory and _save, not by the restart.
THEOREM DemoVotesStand == KSpec => []ConfirmedVotesStand
<1>1. KInit => ConfirmedVotesStand BY VotesStandInit
<1>2. KTypeOK /\ ConfirmedVotesStand /\ [KNext]_kvars => ConfirmedVotesStand'
  BY VotesStandNext
<1> QED BY <1>1, <1>2, MockTypeCorrect, PTL DEF KSpec

-----------------------------------------------------------------------------
(* What a call does to the object is a step of the chaincode. *)

\* The object's rule for a quorum and both of the chaincode's.
LEMMA SameQuorum ==
  ASSUME NEW n \in Nat
  PROVE  /\ quorum_for(n) \in Nat
         /\ quorum_for(n) = Chaincode!required(n)
         /\ quorum_for(n) = Chaincode!quorumFor(n)
BY DEF quorum_for, Chaincode!required, Chaincode!quorumFor

MockCheck == [checker : MockOrgs, outcome : MockOutcomes]

\* The votes against are counted as those that are not for: the outcomes are two.
LEMMA CountSum ==
  ASSUME NEW s \in Seq(MockCheck)
  PROVE  /\ Count(s, "1") \in Nat /\ Count(s, "0") \in Nat
         /\ Len(s) - Count(s, "1") = Count(s, "0")
<1> DEFINE for     == {i \in DOMAIN s : s[i].outcome = "1"}
           against == {i \in DOMAIN s : s[i].outcome = "0"}
<1>1. IsFiniteSet(1 .. Len(s)) /\ Cardinality(1 .. Len(s)) = Len(s)
  <2>1. Len(s) \in Nat OBVIOUS
  <2> QED BY <2>1, FS_Interval
<1>2. for \subseteq 1 .. Len(s) /\ against \subseteq 1 .. Len(s) OBVIOUS
<1>3. for \cup against = 1 .. Len(s) /\ for \cap against = {}
  <2>1. \A i \in 1 .. Len(s) : s[i] \in MockCheck OBVIOUS
  <2> QED BY <2>1 DEF MockCheck, MockOutcomes
<1> HIDE DEF for, against
<1>4. IsFiniteSet(for) /\ IsFiniteSet(against) BY <1>1, <1>2, FS_Subset
<1>5. Cardinality(for) \in Nat /\ Cardinality(against) \in Nat BY <1>4, FS_CardinalityType
<1>6. Cardinality(for \cup against)
        = Cardinality(for) + Cardinality(against) - Cardinality(for \cap against)
  BY <1>4, FS_Union
<1>7. Cardinality(for \cap against) = 0 BY <1>3, FS_EmptySet
<1>8. Len(s) = Cardinality(for) + Cardinality(against)
  <2>1. Len(s) = Cardinality(for \cup against) BY <1>1, <1>3
  <2> QED BY <2>1, <1>5, <1>6, <1>7
<1>9. Count(s, "1") = Cardinality(for) /\ Count(s, "0") = Cardinality(against)
  BY DEF Count, for, against
<1> QED BY <1>5, <1>8, <1>9

\* The instance's own copy of the standard definition.
LEMMA ChaincodeCardinality ==
  ASSUME NEW S
  PROVE  Chaincode!Cardinality(S) = Cardinality(S)
BY DEF Chaincode!Cardinality, Cardinality

LEMMA SameCounts ==
  ASSUME NEW s, NEW o
  PROVE  /\ Count(s, o) = Chaincode!tally(s, o)
         /\ CheckedBy(s) = Chaincode!Checkers(s)
<1>1. Count(s, o) = Chaincode!tally(s, o) BY ChaincodeCardinality DEF Count, Chaincode!tally
<1>2. CheckedBy(s) = Chaincode!Checkers(s) BY DEF CheckedBy, Chaincode!Checkers
<1> QED BY <1>1, <1>2

LEMMA MemoryWritten ==
  ASSUME KTypeOK, NEW r \in MockReports, NEW record, NEW votes, Writes(r, record, votes)
  PROVE  /\ memory'.reports = [memory.reports EXCEPT ![r] = record]
         /\ memory'.orgs = memory.orgs /\ memory'.admissions = memory.admissions
         /\ mockNow' = mockNow
<1>1. memory' = [memory EXCEPT !.reports = [@ EXCEPT ![r] = record]] BY DEF Writes
<1> QED BY <1>1, LedgerDataIs DEF KTypeOK, Writes

LEMMA MemoryAdmits ==
  ASSUME KTypeOK, NEW c \in MockOrgs, NEW request, SavesAdmission(c, request)
  PROVE  /\ memory'.admissions = [memory.admissions EXCEPT ![c] = request]
         /\ memory'.orgs = IF request.status = "ADMITTED" THEN memory.orgs \cup {c} ELSE memory.orgs
         /\ memory'.reports = memory.reports
         /\ mockNow' = mockNow
<1>1. memory' = [memory EXCEPT !.admissions = [@ EXCEPT ![c] = request],
                 !.orgs = IF request.status = "ADMITTED" THEN @ \cup {c} ELSE @]
  BY DEF SavesAdmission
<1> QED BY <1>1, LedgerDataIs DEF KTypeOK, SavesAdmission

\* _decide of the object and the decision of SubmitFactCheck.
LEMMA SameDecision ==
  ASSUME NEW record \in MockRecord, NEW orgs \in SUBSET MockOrgs,
         NEW msp \in MockOrgs, NEW outcome \in MockOutcomes
  PROVE  LET check == [checker |-> msp, outcome |-> outcome]
         IN  Decided([record EXCEPT !.checks = Append(@, check)], orgs)
               = Chaincode!AfterFactCheck(record, orgs, check)
<1> DEFINE check == [checker |-> msp, outcome |-> outcome]
           checks == Append(record.checks, check)
           voted == [record EXCEPT !.checks = checks]
           n == Cardinality(orgs)
<1>1. IsFiniteSet(orgs) BY MockAssumption, FS_Subset
<1>2. n \in Nat BY <1>1, FS_CardinalityType
<1>3. voted \in MockRecord /\ voted.checks = checks /\ voted.label = record.label
      /\ voted.deadline = record.deadline
  BY VotedIs DEF MockRecord
<1>4. quorum_for(n) = Chaincode!required(n) BY <1>2, SameQuorum
<1>5. Count(checks, "1") = Chaincode!tally(checks, "1") /\ CheckedBy(checks) = Chaincode!Checkers(checks)
  BY SameCounts
<1> HIDE DEF checks, n
<1>6. Chaincode!remaining(orgs, checks) = Cardinality(orgs \ CheckedBy(checks))
  BY <1>5, ChaincodeCardinality DEF Chaincode!remaining
<1> DEFINE status == Chaincode!StatusAfterVote(orgs, checks)
<1>7. status = IF Count(checks, "1") >= quorum_for(n) THEN "FINAL"
               ELSE IF Count(checks, "1") + Cardinality(orgs \ CheckedBy(checks)) < quorum_for(n)
                 THEN "REJECTED" ELSE "UNDER_REVIEW"
  BY <1>4, <1>5, <1>6, ChaincodeCardinality DEF Chaincode!StatusAfterVote, n
<1> HIDE DEF status, voted
<1> DEFINE decided == Decided(voted, orgs)
<1>8. decided \in MockRecord /\ decided.checks = checks BY <1>3, DecidedIs
<1>9. /\ decided.status = status
      /\ decided.label = IF status = "FINAL" THEN "1" ELSE record.label
      /\ decided.deadline = record.deadline
  BY <1>3, <1>7 DEF Decided, MockRecord, n
<1> HIDE DEF decided
<1>10. decided = [status |-> decided.status, checks |-> decided.checks,
                  label |-> decided.label, deadline |-> decided.deadline]
  BY <1>8 DEF MockRecord
<1>11. Chaincode!AfterFactCheck(record, orgs, check)
         = [status |-> status, checks |-> checks,
            label |-> IF status = "FINAL" THEN "1" ELSE record.label,
            deadline |-> record.deadline]
  BY DEF Chaincode!AfterFactCheck, checks, status
<1>12. decided = Chaincode!AfterFactCheck(record, orgs, check) BY <1>8, <1>9, <1>10, <1>11
<1> QED BY <1>12 DEF decided, voted, checks

LEMMA SubmitMirrors ==
  ASSUME KTypeOK, NEW msp \in MockOrgs, NEW r \in MockReports, MockSubmit(msp, r)
  PROVE  Chaincode!Submit(msp, "official", r, mockNow)
<1>1. Writes(r, Chaincode!NewReport(mockNow), {})
  BY DEF MockSubmit, Chaincode!NewReport
<1>2. Chaincode!maySubmit(msp, "official", r)
  BY DEF MockSubmit, Registered, Record, Chaincode!maySubmit
<1> QED BY <1>1, <1>2, MemoryWritten DEF Chaincode!Submit

LEMMA FactCheckMirrors ==
  ASSUME KTypeOK, NEW msp \in MockOrgs, NEW r \in MockReports, NEW outcome \in MockOutcomes,
         MockFactCheck(msp, r, outcome)
  PROVE  Chaincode!SubmitFactCheck(msp, "official", r, outcome)
<1> DEFINE check == [checker |-> msp, outcome |-> outcome]
           next  == Chaincode!AfterFactCheck(memory.reports[r], memory.orgs, check)
<1>1. memory.reports[r] \in MockRecord /\ memory.orgs \in SUBSET MockOrgs
  BY LedgerDataIs DEF KTypeOK, MockReportRecord
<1>2. Decided([memory.reports[r] EXCEPT !.checks = Append(@, check)], memory.orgs) = next
  BY <1>1, SameDecision
<1>3. Writes(r, next, {<<r, msp, outcome>>})
  BY <1>2 DEF MockFactCheck, Record
<1>4. Chaincode!maySubmitFactCheck(msp, "official", r)
  BY DEF MockFactCheck, Registered, IsOpen, OPEN_STATUSES, Record, CheckedBy,
         Chaincode!maySubmitFactCheck, Chaincode!Open, Chaincode!hasChecked, Chaincode!Checkers
<1> HIDE DEF next
<1>5. /\ memory'.reports = [memory.reports EXCEPT ![r] = next]
      /\ memory'.orgs = memory.orgs /\ memory'.admissions = memory.admissions
      /\ mockNow' = mockNow
  BY <1>3, MemoryWritten
<1> QED BY <1>4, <1>5 DEF next, Chaincode!SubmitFactCheck

LEMMA FinalizeMirrors ==
  ASSUME KTypeOK, NEW msp \in MockOrgs, NEW role \in MockRoles, NEW r \in MockReports,
         MockFinalize(msp, role, r)
  PROVE  Chaincode!FinalizeReport(msp, role, r)
<1> DEFINE checks == memory.reports[r].checks
           label  == IF Count(checks, "1") > Len(checks) - Count(checks, "1") THEN "1" ELSE "0"
           closed == [memory.reports[r] EXCEPT !.status = "FINAL", !.label = label]
<1>1. memory.reports[r] \in MockRecord BY LedgerDataIs DEF KTypeOK, MockReportRecord
<1>2. checks \in Seq(MockCheck) BY <1>1 DEF MockRecord, MockCheck
<1>3. /\ Len(checks) >= 2 /\ Count(checks, "1") # Len(checks) - Count(checks, "1")
      /\ Writes(r, closed, {})
  BY DEF MockFinalize, Record
<1>4. /\ Count(checks, "1") \in Nat /\ Count(checks, "0") \in Nat
      /\ Len(checks) - Count(checks, "1") = Count(checks, "0")
  BY <1>2, CountSum
<1>5. label \in Chaincode!Outcomes /\ Chaincode!Winner(checks, label)
  <2> HIDE DEF checks
  <2>1. Chaincode!tally(checks, "1") = Count(checks, "1")
        /\ Chaincode!tally(checks, "0") = Count(checks, "0")
    BY SameCounts
  <2> QED BY <1>3, <1>4, <2>1 DEF Chaincode!Winner, Chaincode!Outcomes
<1>6. Chaincode!mayFinalizeReport(msp, role, r)
  BY <1>3 DEF MockFinalize, Registered, IsOpen, OPEN_STATUSES, past_deadline, Record,
     Chaincode!mayFinalizeReport, Chaincode!Open, Chaincode!isPastDeadline, Chaincode!enoughChecks
<1>7. closed = [[memory.reports[r] EXCEPT !.label = label] EXCEPT !.status = "FINAL"]
  <2> HIDE DEF label
  <2> QED BY <1>1 DEF MockRecord
<1> HIDE DEF closed, label
<1>8. /\ memory'.reports = [memory.reports EXCEPT ![r] = closed]
      /\ memory'.orgs = memory.orgs /\ memory'.admissions = memory.admissions
      /\ mockNow' = mockNow
  BY <1>3, MemoryWritten
<1>9. memory'.reports = [memory.reports EXCEPT ![r] = [@ EXCEPT !.label = label, !.status = "FINAL"]]
  BY <1>7, <1>8
<1> QED BY <1>5, <1>6, <1>8, <1>9, Zenon DEF Chaincode!FinalizeReport

LEMMA ExpireMirrors ==
  ASSUME KTypeOK, NEW msp \in MockOrgs, NEW role \in MockRoles, NEW r \in MockReports,
         MockExpire(msp, role, r)
  PROVE  Chaincode!ExpireReport(msp, role, r)
<1> DEFINE expired == [memory.reports[r] EXCEPT !.status = "EXPIRED"]
<1>1. Writes(r, expired, {}) BY DEF MockExpire, Record
<1>2. Chaincode!mayExpireReport(msp, role, r)
  BY DEF MockExpire, Registered, IsOpen, OPEN_STATUSES, past_deadline, Record,
     Chaincode!mayExpireReport, Chaincode!Open, Chaincode!isPastDeadline
<1> HIDE DEF expired
<1>3. /\ memory'.reports = [memory.reports EXCEPT ![r] = expired]
      /\ memory'.orgs = memory.orgs /\ memory'.admissions = memory.admissions
      /\ mockNow' = mockNow
  BY <1>1, MemoryWritten
<1> QED BY <1>2, <1>3 DEF expired, Chaincode!ExpireReport

LEMMA AdmissionMirrors ==
  ASSUME KTypeOK, NEW msp \in MockOrgs
  PROVE  /\ MockRequestAdmission(msp) => Chaincode!RequestOrgAdmission(msp)
         /\ \A role \in MockRoles, c \in MockOrgs, v \in MockOutcomes :
              MockVoteOnAdmission(msp, role, c, v) => Chaincode!VoteOnOrgAdmission(msp, role, c, v)
         /\ \A role \in MockRoles, c \in MockOrgs :
              MockFinalizeAdmission(msp, role, c) => Chaincode!FinalizeOrgAdmission(msp, role, c)
<1>1. memory.admissions \in [MockOrgs -> MockRequest] /\ memory.orgs \in SUBSET MockOrgs
  BY LedgerDataIs DEF KTypeOK
<1>2. ASSUME MockRequestAdmission(msp) PROVE Chaincode!RequestOrgAdmission(msp)
  <2> DEFINE request == [status |-> "PENDING", votes |-> <<>>]
  <2>1. /\ msp \notin memory.orgs /\ memory.admissions[msp].status # "PENDING"
        /\ SavesAdmission(msp, request) /\ request.status = "PENDING"
    BY <1>2 DEF MockRequestAdmission, Registered, MockAdmission
  <2> HIDE DEF request
  <2>2. /\ memory'.admissions = [memory.admissions EXCEPT ![msp] = request]
        /\ memory'.orgs = memory.orgs /\ memory'.reports = memory.reports /\ mockNow' = mockNow
    BY <2>1, MemoryAdmits
  <2> QED BY <2>1, <2>2, Zenon DEF request, Chaincode!RequestOrgAdmission,
             Chaincode!mayRequestOrgAdmission, Chaincode!NewRequest
<1>3. ASSUME NEW role \in MockRoles, NEW c \in MockOrgs, NEW v \in MockOutcomes,
             MockVoteOnAdmission(msp, role, c, v)
      PROVE  Chaincode!VoteOnOrgAdmission(msp, role, c, v)
  <2> DEFINE vote == [voter |-> msp, verdict |-> v]
             request == [memory.admissions[c] EXCEPT !.votes = Append(@, vote)]
  <2>1. /\ msp \in memory.orgs /\ role = "official" /\ msp # c
        /\ memory.admissions[c].status = "PENDING"
        /\ \A i \in DOMAIN memory.admissions[c].votes : memory.admissions[c].votes[i].voter # msp
        /\ SavesAdmission(c, request)
    BY <1>3 DEF MockVoteOnAdmission, Registered, MockAdmission
  <2>2. request.status = "PENDING" BY <1>1, <2>1 DEF MockRequest
  <2> HIDE DEF request
  <2>3. /\ memory'.admissions = [memory.admissions EXCEPT ![c] = request]
        /\ memory'.orgs = memory.orgs /\ memory'.reports = memory.reports /\ mockNow' = mockNow
    BY <2>1, <2>2, MemoryAdmits
  <2>4. Chaincode!mayVoteOnOrgAdmission(msp, role, c)
    BY <2>1 DEF Chaincode!mayVoteOnOrgAdmission, Chaincode!Voters
  <2>5. request = Chaincode!AfterVote(memory.admissions[c], vote)
    BY DEF request, Chaincode!AfterVote
  <2>6. memory'.admissions
          = [memory.admissions EXCEPT ![c] = Chaincode!AfterVote(@, [voter |-> msp, verdict |-> v])]
    BY <2>3, <2>5
  <2> QED BY <2>3, <2>4, <2>6, Zenon DEF Chaincode!VoteOnOrgAdmission
<1>4. ASSUME NEW role \in MockRoles, NEW c \in MockOrgs, MockFinalizeAdmission(msp, role, c)
      PROVE  Chaincode!FinalizeOrgAdmission(msp, role, c)
  <2> DEFINE request == [memory.admissions[c] EXCEPT !.status = "ADMITTED"]
             admits  == {i \in DOMAIN memory.admissions[c].votes :
                           memory.admissions[c].votes[i].verdict = "1"}
  <2>1. /\ msp \in memory.orgs /\ role = "official"
        /\ memory.admissions[c].status = "PENDING"
        /\ Cardinality(admits) >= quorum_for(Cardinality(memory.orgs))
        /\ SavesAdmission(c, request)
    BY <1>4 DEF MockFinalizeAdmission, Registered, MockAdmission
  <2>2. request.status = "ADMITTED" BY <1>1 DEF MockRequest
  <2> HIDE DEF request
  <2>3. /\ memory'.admissions = [memory.admissions EXCEPT ![c] = request]
        /\ memory'.orgs = memory.orgs \cup {c} /\ memory'.reports = memory.reports
        /\ mockNow' = mockNow
    BY <2>1, <2>2, MemoryAdmits
  <2>4. quorum_for(Cardinality(memory.orgs)) = Chaincode!quorumFor(Chaincode!Cardinality(memory.orgs))
    <3>1. IsFiniteSet(memory.orgs) BY <1>1, MockAssumption, FS_Subset
    <3>2. Cardinality(memory.orgs) \in Nat BY <3>1, FS_CardinalityType
    <3> QED BY <3>2, SameQuorum, ChaincodeCardinality
  <2>5. Chaincode!admitVotes(memory.admissions[c].votes) = Cardinality(admits)
    BY ChaincodeCardinality DEF Chaincode!admitVotes
  <2> HIDE DEF admits
  <2>6. Chaincode!mayFinalizeOrgAdmission(msp, role, c)
    BY <2>1, <2>4, <2>5 DEF Chaincode!mayFinalizeOrgAdmission
  <2>7. memory'.admissions = [memory.admissions EXCEPT ![c].status = "ADMITTED"]
    BY <2>3 DEF request
  <2> QED BY <2>3, <2>6, <2>7, Zenon DEF Chaincode!FinalizeOrgAdmission
<1> QED BY <1>2, <1>3, <1>4

LEMMA MirrorStep ==
  ASSUME KTypeOK, KTypeOK', [KNext]_kvars
  PROVE  [MockRestart \/ Chaincode!Next]_<<memory, mockNow>>
<1>1. MockRoles \subseteq Chaincode!Roles /\ MockOutcomes = Chaincode!Outcomes
      /\ "official" \in Chaincode!Roles
  BY DEF MockRoles, MockOutcomes, Chaincode!Roles, Chaincode!Outcomes
<1>2. mockNow \in 0..MaxMockTime BY DEF KTypeOK
<1>3. CASE KCalls
  <2>1. PICK msp \in MockOrgs :
          \/ \E r \in MockReports : MockSubmit(msp, r)
          \/ \E r \in MockReports, outcome \in MockOutcomes : MockFactCheck(msp, r, outcome)
          \/ \E r \in MockReports, role \in MockRoles : MockFinalize(msp, role, r) \/ MockExpire(msp, role, r)
          \/ MockRequestAdmission(msp)
          \/ \E c \in MockOrgs, role \in MockRoles, v \in MockOutcomes : MockVoteOnAdmission(msp, role, c, v)
          \/ \E c \in MockOrgs, role \in MockRoles : MockFinalizeAdmission(msp, role, c)
    BY <1>3 DEF KCalls
  <2>2. CASE \E r \in MockReports : MockSubmit(msp, r)
    BY <1>1, <1>2, <2>2, SubmitMirrors DEF Chaincode!Next, Chaincode!ReportStep
  <2>3. CASE \E r \in MockReports, outcome \in MockOutcomes : MockFactCheck(msp, r, outcome)
    BY <1>1, <2>3, FactCheckMirrors DEF Chaincode!Next, Chaincode!ReportStep
  <2>4. CASE \E r \in MockReports, role \in MockRoles :
               MockFinalize(msp, role, r) \/ MockExpire(msp, role, r)
    BY <1>1, <2>4, FinalizeMirrors, ExpireMirrors DEF Chaincode!Next, Chaincode!ReportStep
  <2>5. CASE MockRequestAdmission(msp)
    BY <1>1, <2>5, AdmissionMirrors DEF Chaincode!Next, Chaincode!MembershipStep
  <2>6. CASE \E c \in MockOrgs, role \in MockRoles, v \in MockOutcomes :
               MockVoteOnAdmission(msp, role, c, v)
    BY <1>1, <2>6, AdmissionMirrors DEF Chaincode!Next, Chaincode!MembershipStep
  <2>7. CASE \E c \in MockOrgs, role \in MockRoles : MockFinalizeAdmission(msp, role, c)
    BY <1>1, <2>7, AdmissionMirrors DEF Chaincode!Next, Chaincode!MembershipStep
  <2> QED BY <2>1, <2>2, <2>3, <2>4, <2>5, <2>6, <2>7
<1>4. CASE MockElapses
  <2>1. mockNow + 1 \in 0..MaxMockTime BY <1>2, <1>4, MockAssumption DEF MockElapses
  <2>2. Chaincode!Tick BY <1>4, <2>1 DEF MockElapses, Chaincode!Tick
  <2> QED BY <2>2 DEF Chaincode!Next
<1>5. CASE UNCHANGED kvars BY <1>5 DEF kvars
<1> QED BY <1>3, <1>4, <1>5 DEF KNext

\* "Keep the rules here in step with the chaincode": every call that changes the
\* object changes it as one of the chaincode's transactions would, by the same
\* guards, the same quorum and the same decision, and also when _save then raises.
THEOREM DemoMirrorsChaincode == KSpec => MirrorsChaincode
<1>1. KTypeOK /\ KTypeOK' /\ [KNext]_kvars => [MockRestart \/ Chaincode!Next]_<<memory, mockNow>>
  BY MirrorStep
<1> QED BY <1>1, MockTypeCorrect, PTL DEF KSpec, MirrorsChaincode
=============================================================================
