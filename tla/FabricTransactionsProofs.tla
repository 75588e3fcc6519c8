----------------------- MODULE FabricTransactionsProofs -----------------------
(***************************************************************************)
(* Calls that run at the same time behave as if they had run one after the *)
(* other, for any organisations, reports, peers and number of calls under  *)
(* way.  The invariant says of each transaction that is not stale that it  *)
(* would be endorsed now, with the same writes (Now...).  It holds because *)
(* a commit leaves alone every key that such a transaction has read        *)
(* (ReadsAreCurrent), and those keys are all its guard and its writes      *)
(* depend on (StillNow), but for the clock, which only goes on.            *)
(***************************************************************************)
EXTENDS FabricTransactions, FiniteSetTheorems, TLAPS

Fields == {"phase", "reads", "stale", "limit", "orgs", "adm", "rep"}

\* What a transaction that validation would accept read and would write.
Has(tx, reads, limit, orgs, adm, rep) ==
  /\ DOMAIN tx = Fields /\ tx.phase = "endorsed" /\ tx.stale = FALSE
  /\ tx.reads = reads /\ tx.limit = limit /\ tx.orgs = orgs /\ tx.adm = adm /\ tx.rep = rep

(* Each kind of transaction, as it would be endorsed now. *)

NowSetLimit(tx) ==
  Orgs # {} /\ \E role \in Chaincode!Roles, limit \in Limits :
    /\ Chaincode!maySetFoundingOrgLimit(role, limit)
    /\ Has(tx, SetLimitReads, {limit}, {}, <<>>, <<>>)

NowRegister(tx) ==
  \E org \in Orgs :
    \/ org \in registered /\ Has(tx, {OrgKey(org)}, {}, {}, <<>>, <<>>)
    \/ Chaincode!mayRegisterOrg(org) /\ Has(tx, RegisterReads(org), {}, {org}, <<>>, <<>>)

NowRequest(tx) ==
  \E org \in Orgs \cap Candidates :
    /\ Chaincode!mayRequestOrgAdmission(org)
    /\ Has(tx, AdmissionReads(org, org), {}, {}, One(org, Chaincode!NewRequest), <<>>)

NowVote(tx) ==
  \E org \in Orgs, role \in Chaincode!Roles, c \in Orgs, verdict \in Chaincode!Outcomes :
    /\ Chaincode!mayVoteOnOrgAdmission(org, role, c)
    /\ Has(tx, AdmissionReads(org, c), {}, {},
               One(c, Chaincode!AfterVote(admission[c], [voter |-> org, verdict |-> verdict])), <<>>)

NowFinalizeAdmission(tx) ==
  \E org \in Orgs, role \in Chaincode!Roles, c \in Orgs :
    /\ Chaincode!mayFinalizeOrgAdmission(org, role, c)
    /\ Has(tx, FinalizeAdmissionReads(org, c), {}, {c},
               One(c, [admission[c] EXCEPT !.status = "ADMITTED"]), <<>>)

NowSubmit(tx) ==
  \E org \in Orgs, role \in Chaincode!Roles, r \in Reports, timestamp \in Times :
    /\ Chaincode!maySubmit(org, role, r)
    /\ Has(tx, ReportReads(org, r), {}, {}, <<>>, One(r, Chaincode!NewReport(timestamp)))

NowFactCheck(tx) ==
  \E org \in Orgs, role \in Chaincode!Roles, r \in Reports, outcome \in Chaincode!Outcomes :
    /\ Chaincode!maySubmitFactCheck(org, role, r)
    /\ Has(tx, FactCheckReads(org, r), {}, {}, <<>>,
               One(r, Chaincode!AfterFactCheck(report[r], registered,
                                               [checker |-> org, outcome |-> outcome])))

NowFinalize(tx) ==
  \E org \in Orgs, role \in Chaincode!Roles, r \in Reports, winner \in Chaincode!Outcomes :
    /\ Chaincode!mayFinalizeReport(org, role, r)
    /\ Chaincode!Winner(report[r].checks, winner)
    /\ Has(tx, ReportReads(org, r), {}, {}, <<>>,
               One(r, [report[r] EXCEPT !.label = winner, !.status = "FINAL"]))

NowExpire(tx) ==
  \E org \in Orgs, role \in Chaincode!Roles, r \in Reports :
    /\ Chaincode!mayExpireReport(org, role, r)
    /\ Has(tx, ReportReads(org, r), {}, {}, <<>>, One(r, [report[r] EXCEPT !.status = "EXPIRED"]))

NowMembership(tx) ==
  NowSetLimit(tx) \/ NowRegister(tx) \/ NowRequest(tx) \/ NowVote(tx) \/ NowFinalizeAdmission(tx)

NowReport(tx) == NowSubmit(tx) \/ NowFactCheck(tx) \/ NowFinalize(tx) \/ NowExpire(tx)

\* What an endorsed transaction is: stale, or as it would be endorsed now.
Endorsed(tx) ==
  /\ DOMAIN tx = Fields /\ tx.phase = "endorsed" /\ tx.stale \in BOOLEAN
  /\ ~tx.stale => NowMembership(tx) \/ NowReport(tx)

\* What the endorsing actions put together is that.
LEMMA ReadingHas ==
  ASSUME NEW reads, NEW limit, NEW orgs, NEW adm, NEW rep
  PROVE  /\ Has(Reading(reads), reads, {}, {}, <<>>, <<>>)
         /\ Has([Reading(reads) EXCEPT !.limit = limit], reads, limit, {}, <<>>, <<>>)
         /\ Has([Reading(reads) EXCEPT !.orgs = orgs], reads, {}, orgs, <<>>, <<>>)
         /\ Has([Reading(reads) EXCEPT !.adm = adm], reads, {}, {}, adm, <<>>)
         /\ Has([Reading(reads) EXCEPT !.rep = rep], reads, {}, {}, <<>>, rep)
         /\ Has([Reading(reads) EXCEPT !.orgs = orgs, !.adm = adm], reads, {}, orgs, adm, <<>>)
BY DEF Has, Reading, Fields

\* Whatever a call sends would be endorsed now.
LEMMA SentIsNow ==
  ASSUME NEW c \in Calls, EndorseMembership(c) \/ EndorseReport(c)
  PROVE  \E tx : /\ NowMembership(tx) \/ NowReport(tx)
                 /\ Send(c, tx)
<1>1. CASE EndorseMembership(c)
  <2>1. ASSUME NEW org \in Orgs, NEW role \in Chaincode!Roles, NEW limit \in Limits,
               EndorseSetLimit(c, role, limit)
        PROVE  \E tx : NowMembership(tx) /\ Send(c, tx)
    <3> DEFINE tx == [Reading(SetLimitReads) EXCEPT !.limit = {limit}]
    <3>1. Send(c, tx) /\ Chaincode!maySetFoundingOrgLimit(role, limit)
      BY <2>1, ReadingHas DEF EndorseSetLimit
    <3>2. NowMembership(tx) BY <3>1, ReadingHas DEF NowMembership, NowSetLimit
    <3> QED BY <3>1, <3>2
  <2>2. ASSUME NEW org \in Orgs, EndorseRegister(c, org)
        PROVE  \E tx : NowMembership(tx) /\ Send(c, tx)
    <3> DEFINE noop == Reading({OrgKey(org)})
               tx   == [Reading(RegisterReads(org)) EXCEPT !.orgs = {org}]
    <3>1. CASE org \in registered /\ Send(c, Reading({OrgKey(org)}))
      <4>1. Send(c, noop) BY <3>1, ReadingHas
      <4>2. NowMembership(noop) BY <3>1, ReadingHas DEF NowMembership, NowRegister
      <4> QED BY <4>1, <4>2
    <3>2. CASE Chaincode!mayRegisterOrg(org) /\ Send(c, [Reading(RegisterReads(org)) EXCEPT !.orgs = {org}])
      <4>1. Send(c, tx) BY <3>2, ReadingHas
      <4>2. NowMembership(tx) BY <3>2, ReadingHas DEF NowMembership, NowRegister
      <4> QED BY <4>1, <4>2
    <3> QED BY <2>2, <3>1, <3>2 DEF EndorseRegister
  <2>3. ASSUME NEW org \in Orgs \cap Candidates, EndorseRequest(c, org)
        PROVE  \E tx : NowMembership(tx) /\ Send(c, tx)
    <3> DEFINE tx == [Reading(AdmissionReads(org, org)) EXCEPT !.adm = One(org, Chaincode!NewRequest)]
    <3>1. Send(c, tx) /\ Chaincode!mayRequestOrgAdmission(org) BY <2>3, ReadingHas DEF EndorseRequest
    <3>2. NowMembership(tx) BY <3>1, ReadingHas DEF NowMembership, NowRequest
    <3> QED BY <3>1, <3>2
  <2>4. ASSUME NEW org \in Orgs, NEW role \in Chaincode!Roles, NEW o \in Orgs, NEW v \in Chaincode!Outcomes,
               EndorseVote(c, org, role, o, v)
        PROVE  \E tx : NowMembership(tx) /\ Send(c, tx)
    <3> DEFINE tx == [Reading(AdmissionReads(org, o)) EXCEPT
                     !.adm = One(o, Chaincode!AfterVote(admission[o], [voter |-> org, verdict |-> v]))]
    <3>1. Send(c, tx) /\ Chaincode!mayVoteOnOrgAdmission(org, role, o) BY <2>4, ReadingHas DEF EndorseVote
    <3>2. NowMembership(tx) BY <3>1, ReadingHas DEF NowMembership, NowVote
    <3> QED BY <3>1, <3>2
  <2>5. ASSUME NEW org \in Orgs, NEW role \in Chaincode!Roles, NEW o \in Orgs,
               EndorseFinalizeAdmission(c, org, role, o)
        PROVE  \E tx : NowMembership(tx) /\ Send(c, tx)
    <3> DEFINE tx == [Reading(FinalizeAdmissionReads(org, o)) EXCEPT
                     !.orgs = {o}, !.adm = One(o, [admission[o] EXCEPT !.status = "ADMITTED"])]
    <3>1. Send(c, tx) /\ Chaincode!mayFinalizeOrgAdmission(org, role, o)
      BY <2>5, ReadingHas DEF EndorseFinalizeAdmission
    <3>2. NowMembership(tx) BY <3>1, ReadingHas DEF NowMembership, NowFinalizeAdmission
    <3> QED BY <3>1, <3>2
  <2> QED BY <1>1, <2>1, <2>2, <2>3, <2>4, <2>5 DEF EndorseMembership
<1>2. CASE EndorseReport(c)
  <2>1. ASSUME NEW org \in Orgs, NEW role \in Chaincode!Roles, NEW r \in Reports, NEW ts \in Times,
               EndorseSubmit(c, org, role, r, ts)
        PROVE  \E tx : NowReport(tx) /\ Send(c, tx)
    <3> DEFINE tx == [Reading(ReportReads(org, r)) EXCEPT !.rep = One(r, Chaincode!NewReport(ts))]
    <3>1. Send(c, tx) /\ Chaincode!maySubmit(org, role, r) BY <2>1, ReadingHas DEF EndorseSubmit
    <3>2. NowReport(tx) BY <3>1, ReadingHas DEF NowReport, NowSubmit
    <3> QED BY <3>1, <3>2
  <2>2. ASSUME NEW org \in Orgs, NEW role \in Chaincode!Roles, NEW r \in Reports,
               NEW o \in Chaincode!Outcomes,
               EndorseFactCheck(c, org, role, r, o)
        PROVE  \E tx : NowReport(tx) /\ Send(c, tx)
    <3> DEFINE tx == [Reading(FactCheckReads(org, r)) EXCEPT
                     !.rep = One(r, Chaincode!AfterFactCheck(report[r], registered,
                                                             [checker |-> org, outcome |-> o]))]
    <3>1. Send(c, tx) /\ Chaincode!maySubmitFactCheck(org, role, r) BY <2>2, ReadingHas DEF EndorseFactCheck
    <3>2. NowReport(tx) BY <3>1, ReadingHas DEF NowReport, NowFactCheck
    <3> QED BY <3>1, <3>2
  <2>3. ASSUME NEW org \in Orgs, NEW role \in Chaincode!Roles, NEW r \in Reports,
               EndorseFinalize(c, org, role, r)
        PROVE  \E tx : NowReport(tx) /\ Send(c, tx)
    <3>1. PICK winner \in Chaincode!Outcomes :
            /\ Chaincode!Winner(report[r].checks, winner)
            /\ Send(c, [Reading(ReportReads(org, r)) EXCEPT
                          !.rep = One(r, [report[r] EXCEPT !.label = winner, !.status = "FINAL"])])
      BY <2>3 DEF EndorseFinalize
    <3> DEFINE tx == [Reading(ReportReads(org, r)) EXCEPT
                     !.rep = One(r, [report[r] EXCEPT !.label = winner, !.status = "FINAL"])]
    <3>2. Send(c, tx) /\ Chaincode!mayFinalizeReport(org, role, r)
      BY <2>3, <3>1, ReadingHas DEF EndorseFinalize
    <3>3. NowReport(tx) BY <3>1, <3>2, ReadingHas DEF NowReport, NowFinalize
    <3> QED BY <3>2, <3>3
  <2>4. ASSUME NEW org \in Orgs, NEW role \in Chaincode!Roles, NEW r \in Reports,
               EndorseExpire(c, org, role, r)
        PROVE  \E tx : NowReport(tx) /\ Send(c, tx)
    <3> DEFINE tx == [Reading(ReportReads(org, r)) EXCEPT
                     !.rep = One(r, [report[r] EXCEPT !.status = "EXPIRED"])]
    <3>1. Send(c, tx) /\ Chaincode!mayExpireReport(org, role, r) BY <2>4, ReadingHas DEF EndorseExpire
    <3>2. NowReport(tx) BY <3>1, ReadingHas DEF NowReport, NowExpire
    <3> QED BY <3>1, <3>2
  <2> QED BY <1>2, <2>1, <2>2, <2>3, <2>4 DEF EndorseReport
<1> QED BY <1>1, <1>2

-----------------------------------------------------------------------------
(* What a commit leaves alone. *)

\* The world state has a record for everybody, and reports are well formed.
WorldFits ==
  /\ admission = [o \in Orgs |-> admission[o]]
  /\ report \in [Reports -> Chaincode!ReportRecord]
  /\ \A r \in Reports : report[r].status = "ABSENT" => report[r].checks = <<>>

\* Nothing among the keys was written.
Current(keys) ==
  /\ LimitKey \in keys => foundingOrgLimit' = foundingOrgLimit
  /\ OrgRange \in keys => registered' = registered
  /\ registered \subseteq registered'
  /\ \A o : OrgKey(o) \in keys => (o \in registered' <=> o \in registered)
  /\ \A o \in Orgs : AdmissionKey(o) \in keys => admission'[o] = admission[o]
  /\ \A r \in Reports : ReportKey(r) \in keys => report'[r] = report[r]

LEMMA ReadsAreCurrent ==
  ASSUME NEW c \in Calls, Commit(c), WorldFits, NEW keys, keys \cap WrittenKeys(underway[c]) = {}
  PROVE  Current(keys)
<1> DEFINE tx == underway[c]
<1>1. ASSUME LimitKey \in keys PROVE foundingOrgLimit' = foundingOrgLimit
  <2>1. tx.limit = {} BY <1>1 DEF WrittenKeys
  <2> QED BY <2>1 DEF Commit
<1>2. /\ registered \subseteq registered' /\ registered' = registered \cup tx.orgs
  BY DEF Commit
<1>3. ASSUME OrgRange \in keys PROVE registered' = registered
  <2>1. tx.orgs = {} BY <1>3 DEF WrittenKeys
  <2> QED BY <2>1, <1>2
<1>4. ASSUME NEW o, OrgKey(o) \in keys PROVE o \in registered' <=> o \in registered
  <2>1. o \notin tx.orgs BY <1>4 DEF WrittenKeys
  <2> QED BY <2>1, <1>2
<1>5. ASSUME NEW o \in Orgs, AdmissionKey(o) \in keys PROVE admission'[o] = admission[o]
  <2>1. o \notin DOMAIN tx.adm BY <1>5 DEF WrittenKeys
  <2>2. o \in DOMAIN admission BY DEF WorldFits
  <2> QED BY <2>1, <2>2 DEF Commit, Written
<1>6. ASSUME NEW r \in Reports, ReportKey(r) \in keys PROVE report'[r] = report[r]
  <2>1. r \notin DOMAIN tx.rep BY <1>6 DEF WrittenKeys
  <2>2. r \in DOMAIN report BY DEF WorldFits
  <2> QED BY <2>1, <2>2 DEF Commit, Written
<1> QED BY <1>1, <1>2, <1>3, <1>4, <1>5, <1>6 DEF Current

\* A deadline that has passed stays passed.
LEMMA DeadlinePasses ==
  ASSUME NEW r \in Reports, WorldFits, Chaincode!isPastDeadline(r), report'[r] = report[r],
         AgreedClock \in Nat, AgreedClock' \in Nat, AgreedClock' >= AgreedClock
  PROVE  Chaincode!isPastDeadline(r)'
<1>1. report[r].deadline \in Nat BY DEF WorldFits, Chaincode!ReportRecord
<1>2. AgreedClock > report[r].deadline BY DEF Chaincode!isPastDeadline
<1>3. AgreedClock' > report'[r].deadline BY <1>1, <1>2
<1> QED BY <1>3 DEF Chaincode!isPastDeadline

\* A transaction whose reads are current would still be endorsed, also when
\* the peers' clocks have gone on.
LEMMA StillNow ==
  ASSUME NEW tx, NowMembership(tx) \/ NowReport(tx), WorldFits, Current(tx.reads),
         AgreedClock \in Nat, AgreedClock' \in Nat, AgreedClock' >= AgreedClock
  PROVE  NowMembership(tx)' \/ NowReport(tx)'
<1>1. CASE NowSetLimit(tx)
  <2>1. PICK role \in Chaincode!Roles, limit \in Limits :
          /\ Chaincode!maySetFoundingOrgLimit(role, limit)
          /\ Has(tx, SetLimitReads, {limit}, {}, <<>>, <<>>)
    BY <1>1 DEF NowSetLimit
  <2>2. registered' = registered BY <2>1 DEF Has, SetLimitReads, Current
  <2>3. Chaincode!maySetFoundingOrgLimit(role, limit)'
    BY <2>1, <2>2 DEF Chaincode!maySetFoundingOrgLimit, Chaincode!foundingNotStarted
  <2> QED BY <1>1, <2>1, <2>3 DEF NowMembership, NowSetLimit
<1>2. CASE NowRegister(tx)
  <2>1. PICK org \in Orgs :
          \/ org \in registered /\ Has(tx, {OrgKey(org)}, {}, {}, <<>>, <<>>)
          \/ Chaincode!mayRegisterOrg(org) /\ Has(tx, RegisterReads(org), {}, {org}, <<>>, <<>>)
    BY <1>2 DEF NowRegister
  <2>2. CASE org \in registered /\ Has(tx, {OrgKey(org)}, {}, {}, <<>>, <<>>)
    <3>1. org \in registered' BY <2>2 DEF Current
    <3> QED BY <2>2, <3>1 DEF NowMembership, NowRegister
  <2>3. CASE Chaincode!mayRegisterOrg(org) /\ Has(tx, RegisterReads(org), {}, {org}, <<>>, <<>>)
    <3>1. registered' = registered /\ foundingOrgLimit' = foundingOrgLimit
      BY <2>3 DEF Has, RegisterReads, Current
    <3>2. Chaincode!mayRegisterOrg(org)' BY <2>3, <3>1 DEF Chaincode!mayRegisterOrg
    <3> QED BY <2>3, <3>2 DEF NowMembership, NowRegister
  <2> QED BY <2>1, <2>2, <2>3
<1>3. CASE NowRequest(tx)
  <2>1. PICK org \in Orgs \cap Candidates :
          /\ Chaincode!mayRequestOrgAdmission(org)
          /\ Has(tx, AdmissionReads(org, org), {}, {}, One(org, Chaincode!NewRequest), <<>>)
    BY <1>3 DEF NowRequest
  <2>2. (org \in registered' <=> org \in registered) /\ admission'[org] = admission[org]
    BY <2>1 DEF Has, AdmissionReads, Current
  <2>3. Chaincode!mayRequestOrgAdmission(org)' BY <2>1, <2>2 DEF Chaincode!mayRequestOrgAdmission
  <2> QED BY <2>1, <2>3 DEF NowMembership, NowRequest
<1>4. CASE NowVote(tx)
  <2>1. PICK org \in Orgs, role \in Chaincode!Roles, c \in Orgs, verdict \in Chaincode!Outcomes :
          /\ Chaincode!mayVoteOnOrgAdmission(org, role, c)
          /\ Has(tx, AdmissionReads(org, c), {}, {},
                 One(c, Chaincode!AfterVote(admission[c], [voter |-> org, verdict |-> verdict])), <<>>)
    BY <1>4 DEF NowVote
  <2>2. (org \in registered' <=> org \in registered) /\ admission'[c] = admission[c]
    BY <2>1 DEF Has, AdmissionReads, Current
  <2>3. Chaincode!mayVoteOnOrgAdmission(org, role, c)' BY <2>1, <2>2 DEF Chaincode!mayVoteOnOrgAdmission
  <2>4. Has(tx, AdmissionReads(org, c), {}, {},
            One(c, Chaincode!AfterVote(admission[c], [voter |-> org, verdict |-> verdict])), <<>>)'
    BY <2>1, <2>2
  <2> QED BY <2>3, <2>4 DEF NowMembership, NowVote
<1>5. CASE NowFinalizeAdmission(tx)
  <2>1. PICK org \in Orgs, role \in Chaincode!Roles, c \in Orgs :
          /\ Chaincode!mayFinalizeOrgAdmission(org, role, c)
          /\ Has(tx, FinalizeAdmissionReads(org, c), {}, {c},
                 One(c, [admission[c] EXCEPT !.status = "ADMITTED"]), <<>>)
    BY <1>5 DEF NowFinalizeAdmission
  <2>2. registered' = registered /\ admission'[c] = admission[c]
    BY <2>1 DEF Has, FinalizeAdmissionReads, Current
  <2>3. Chaincode!mayFinalizeOrgAdmission(org, role, c)'
    BY <2>1, <2>2 DEF Chaincode!mayFinalizeOrgAdmission
  <2>4. Has(tx, FinalizeAdmissionReads(org, c), {}, {c},
            One(c, [admission[c] EXCEPT !.status = "ADMITTED"]), <<>>)'
    BY <2>1, <2>2
  <2> QED BY <2>3, <2>4 DEF NowMembership, NowFinalizeAdmission
<1>6. CASE NowSubmit(tx)
  <2>1. PICK org \in Orgs, role \in Chaincode!Roles, r \in Reports, timestamp \in Times :
          /\ Chaincode!maySubmit(org, role, r)
          /\ Has(tx, ReportReads(org, r), {}, {}, <<>>, One(r, Chaincode!NewReport(timestamp)))
    BY <1>6 DEF NowSubmit
  <2>2. (org \in registered' <=> org \in registered) /\ report'[r] = report[r]
    BY <2>1 DEF Has, ReportReads, Current
  <2>3. Chaincode!maySubmit(org, role, r)' BY <2>1, <2>2 DEF Chaincode!maySubmit
  <2> QED BY <2>1, <2>3 DEF NowReport, NowSubmit
<1>7. CASE NowFactCheck(tx)
  <2>1. PICK org \in Orgs, role \in Chaincode!Roles, r \in Reports, outcome \in Chaincode!Outcomes :
          /\ Chaincode!maySubmitFactCheck(org, role, r)
          /\ Has(tx, FactCheckReads(org, r), {}, {}, <<>>,
                 One(r, Chaincode!AfterFactCheck(report[r], registered,
                                                 [checker |-> org, outcome |-> outcome])))
    BY <1>7 DEF NowFactCheck
  <2>2. registered' = registered /\ report'[r] = report[r]
    BY <2>1 DEF Has, FactCheckReads, Current
  <2>3. Chaincode!maySubmitFactCheck(org, role, r)' BY <2>1, <2>2 DEF Chaincode!maySubmitFactCheck
  <2>4. Has(tx, FactCheckReads(org, r), {}, {}, <<>>,
            One(r, Chaincode!AfterFactCheck(report[r], registered,
                                            [checker |-> org, outcome |-> outcome])))'
    BY <2>1, <2>2
  <2> QED BY <2>3, <2>4 DEF NowReport, NowFactCheck
<1>8. CASE NowFinalize(tx)
  <2>1. PICK org \in Orgs, role \in Chaincode!Roles, r \in Reports, winner \in Chaincode!Outcomes :
          /\ Chaincode!mayFinalizeReport(org, role, r)
          /\ Chaincode!Winner(report[r].checks, winner)
          /\ Has(tx, ReportReads(org, r), {}, {}, <<>>,
                 One(r, [report[r] EXCEPT !.label = winner, !.status = "FINAL"]))
    BY <1>8 DEF NowFinalize
  <2>2. (org \in registered' <=> org \in registered) /\ report'[r] = report[r]
    BY <2>1 DEF Has, ReportReads, Current
  <2>3. Chaincode!isPastDeadline(r)' BY <2>1, <2>2, DeadlinePasses DEF Chaincode!mayFinalizeReport
  <2>4. Chaincode!mayFinalizeReport(org, role, r)'
    BY <2>1, <2>2, <2>3 DEF Chaincode!mayFinalizeReport
  <2>5. Has(tx, ReportReads(org, r), {}, {}, <<>>,
            One(r, [report[r] EXCEPT !.label = winner, !.status = "FINAL"]))'
    BY <2>1, <2>2
  <2>6. Chaincode!Winner(report[r].checks, winner)' BY <2>1, <2>2
  <2> QED BY <2>4, <2>5, <2>6 DEF NowReport, NowFinalize
<1>9. CASE NowExpire(tx)
  <2>1. PICK org \in Orgs, role \in Chaincode!Roles, r \in Reports :
          /\ Chaincode!mayExpireReport(org, role, r)
          /\ Has(tx, ReportReads(org, r), {}, {}, <<>>,
                 One(r, [report[r] EXCEPT !.status = "EXPIRED"]))
    BY <1>9 DEF NowExpire
  <2>2. (org \in registered' <=> org \in registered) /\ report'[r] = report[r]
    BY <2>1 DEF Has, ReportReads, Current
  <2>3. Chaincode!isPastDeadline(r)' BY <2>1, <2>2, DeadlinePasses DEF Chaincode!mayExpireReport
  <2>4. Chaincode!mayExpireReport(org, role, r)'
    BY <2>1, <2>2, <2>3 DEF Chaincode!mayExpireReport
  <2>5. Has(tx, ReportReads(org, r), {}, {}, <<>>, One(r, [report[r] EXCEPT !.status = "EXPIRED"]))'
    BY <2>1, <2>2
  <2> QED BY <2>4, <2>5 DEF NowReport, NowExpire
<1> QED BY <1>1, <1>2, <1>3, <1>4, <1>5, <1>6, <1>7, <1>8, <1>9 DEF NowMembership, NowReport

-----------------------------------------------------------------------------
(* The clocks of the peers. *)

\* Two peers have reached t, and no two have reached a later time.
Reached(k, t) == {p \in Peers : k[p] >= t}
Agreed(k, t) ==
  /\ t \in Times
  /\ Cardinality(Reached(k, t)) >= 2
  /\ \A u \in Nat : u > t => Cardinality(Reached(k, u)) < 2

ClocksAgree == clock \in [Peers -> Times] /\ \E t : Agreed(clock, t)

LatestIn(k) ==
  CHOOSE t \in Times :
    /\ Cardinality({p \in Peers : k[p] >= t}) >= endorsements
    /\ \A u \in Times : u > t => Cardinality({p \in Peers : k[p] >= u}) < endorsements

LEMMA LatestIsAgreed == ASSUME NEW k, NEW t, Agreed(k, t) PROVE LatestIn(k) = t
<1> DEFINE Latest(s) == /\ Cardinality(Reached(k, s)) >= 2
                        /\ \A u \in Times : u > s => Cardinality(Reached(k, u)) < 2
           l == LatestIn(k)
<1>1. l = CHOOSE s \in Times : Latest(s) BY DEF LatestIn, Reached, endorsements
<1>2. t \in Times /\ Latest(t) BY ClocksAssumption DEF Agreed
<1> HIDE DEF l
<1>3. l \in Times /\ Latest(l)
  <2> HIDE DEF Latest
  <2> QED BY <1>1, <1>2
<1>4. l \in Nat /\ t \in Nat BY <1>2, <1>3, ClocksAssumption
<1>5. Reached(k, t) \subseteq Peers /\ Reached(k, l) \subseteq Peers BY DEF Reached
<1>6. Cardinality(Reached(k, t)) \in Nat /\ Cardinality(Reached(k, l)) \in Nat
  BY <1>5, FS_Subset, FS_CardinalityType, PeersAssumption
<1>7. ~(l > t) /\ ~(t > l) BY <1>2, <1>3, <1>4, <1>6
<1>8. l = t BY <1>4, <1>7
<1> QED BY <1>8 DEF l

LEMMA AgreedClockIsAgreed ==
  ASSUME ClocksAgree PROVE Agreed(clock, AgreedClock) /\ AgreedClock \in Nat
<1>1. PICK t : Agreed(clock, t) BY DEF ClocksAgree
<1>2. AgreedClock = LatestIn(clock) BY DEF AgreedClock, LatestIn
<1>3. AgreedClock = t BY <1>1, <1>2, LatestIsAgreed
<1> QED BY <1>1, <1>3, ClocksAssumption DEF Agreed

LEMMA ClocksStart == ASSUME clock = [p \in Peers |-> 0] PROVE ClocksAgree
<1>1. clock \in [Peers -> Times] BY ClocksAssumption
<1>2. Reached(clock, 0) = Peers BY DEF Reached
<1>3. ASSUME NEW u \in Nat, u > 0 PROVE Cardinality(Reached(clock, u)) < 2
  <2>1. Reached(clock, u) = {} BY <1>3 DEF Reached
  <2> QED BY <2>1, FS_EmptySet
<1>4. Agreed(clock, 0) BY <1>2, <1>3, PeersAssumption, ClocksAssumption DEF Agreed
<1> QED BY <1>1, <1>4 DEF ClocksAgree

\* One clock that goes on moves the agreed one by one unit at the most.
LEMMA TickAgrees ==
  ASSUME ClocksAgree, NEW p \in Peers, PeerTick(p)
  PROVE  ClocksAgree' /\ AgreedClock' \in {AgreedClock, AgreedClock + 1}
<1> DEFINE t == AgreedClock
<1>1. Agreed(clock, t) /\ t \in Nat BY AgreedClockIsAgreed
<1> HIDE DEF t
<1>2. /\ clock \in [Peers -> Times] /\ clock' \in [Peers -> Times]
      /\ \A q \in Peers : clock[q] \in Nat /\ clock'[q] \in Nat
      /\ clock'[p] = clock[p] + 1 /\ \A q \in Peers \ {p} : clock'[q] = clock[q]
  BY ClocksAssumption DEF ClocksAgree, PeerTick
<1>3. ASSUME NEW k, NEW u PROVE IsFiniteSet(Reached(k, u)) /\ Cardinality(Reached(k, u)) \in Nat
  <2>1. Reached(k, u) \subseteq Peers BY DEF Reached
  <2> QED BY <2>1, FS_Subset, FS_CardinalityType, PeersAssumption
<1>4. ASSUME NEW u \in Nat, u > t + 1 PROVE Cardinality(Reached(clock', u)) < 2
  <2>1. u - 1 \in Nat /\ u - 1 > t BY <1>1, <1>4
  <2>2. Reached(clock', u) \subseteq Reached(clock, u - 1) BY <1>2, <2>1 DEF Reached
  <2>3. Cardinality(Reached(clock', u)) <= Cardinality(Reached(clock, u - 1)) BY <2>2, <1>3, FS_Subset
  <2>4. Cardinality(Reached(clock, u - 1)) < 2 BY <1>1, <2>1 DEF Agreed
  <2> QED BY <2>3, <2>4, <1>3
<1>5. Cardinality(Reached(clock', t)) >= 2
  <2>1. Reached(clock, t) \subseteq Reached(clock', t) BY <1>1, <1>2 DEF Reached
  <2>2. Cardinality(Reached(clock, t)) <= Cardinality(Reached(clock', t)) BY <2>1, <1>3, FS_Subset
  <2> QED BY <1>1, <2>2, <1>3 DEF Agreed
<1>6. \E s \in {t, t + 1} : Agreed(clock', s)
  <2>1. CASE Cardinality(Reached(clock', t + 1)) >= 2
    <3>1. t + 1 \in Times
      <4>1. Cardinality(Reached(clock, t + 1)) < 2 BY <1>1 DEF Agreed
      <4>2. Reached(clock', t + 1) # Reached(clock, t + 1) BY <2>1, <4>1, <1>3
      <4>3. clock'[p] = t + 1 BY <4>2, <1>1, <1>2 DEF Reached
      <4> QED BY <4>3, <1>2
    <3> QED BY <2>1, <3>1, <1>4 DEF Agreed
  <2>2. CASE ~(Cardinality(Reached(clock', t + 1)) >= 2)
    <3>1. ASSUME NEW u \in Nat, u > t PROVE Cardinality(Reached(clock', u)) < 2
      <4>1. u = t + 1 \/ u > t + 1 BY <1>1, <3>1
      <4> QED BY <4>1, <1>4, <2>2, <1>3
    <3> QED BY <3>1, <1>1, <1>5 DEF Agreed
  <2> QED BY <2>1, <2>2
<1>7. ClocksAgree' BY <1>2, <1>6 DEF ClocksAgree
<1>8. AgreedClock' = LatestIn(clock') BY DEF AgreedClock, LatestIn
<1>9. AgreedClock' \in {t, t + 1} BY <1>6, <1>8, LatestIsAgreed
<1> QED BY <1>7, <1>9 DEF t

LEMMA SameClock ==
  ASSUME clock' = clock
  PROVE  /\ AgreedClock' = AgreedClock
         /\ ClocksAgree => ClocksAgree'
<1>1. AgreedClock' = AgreedClock BY DEF AgreedClock
<1>2. ClocksAgree => ClocksAgree' BY DEF ClocksAgree, Agreed, Reached
<1> QED BY <1>1, <1>2

-----------------------------------------------------------------------------
(* The commit of a transaction is the chaincode's step. *)

LEMMA Writing ==
  ASSUME NEW S, NEW f, f = [k \in S |-> f[k]]
  PROVE  /\ Written(f, <<>>) = f
         /\ \A k \in S : \A v : Written(f, One(k, v)) = [f EXCEPT ![k] = v]
<1>1. DOMAIN f = S OBVIOUS
<1>2. DOMAIN <<>> = {} OBVIOUS
<1>3. Written(f, <<>>) = f BY <1>1, <1>2 DEF Written
<1>4. ASSUME NEW k \in S, NEW v PROVE Written(f, One(k, v)) = [f EXCEPT ![k] = v]
  BY <1>1 DEF Written, One
<1> QED BY <1>3, <1>4

\* What a commit leaves of the world state, field by field of the transaction.
LEMMA CommitWrites ==
  ASSUME NEW c \in Calls, Commit(c), WorldFits
  PROVE  /\ underway[c].limit = {} => foundingOrgLimit' = foundingOrgLimit
         /\ \A l : underway[c].limit = {l} => foundingOrgLimit' = l
         /\ underway[c].orgs = {} => registered' = registered
         /\ registered' = registered \cup underway[c].orgs
         /\ underway[c].adm = <<>> => admission' = admission
         /\ \A o \in Orgs : \A v : underway[c].adm = One(o, v) => admission' = [admission EXCEPT ![o] = v]
         /\ underway[c].rep = <<>> => report' = report
         /\ \A r \in Reports : \A v : underway[c].rep = One(r, v) => report' = [report EXCEPT ![r] = v]
<1> DEFINE tx == underway[c]
<1>1. /\ foundingOrgLimit' = IF tx.limit = {} THEN foundingOrgLimit ELSE CHOOSE l \in tx.limit : TRUE
      /\ registered' = registered \cup tx.orgs
      /\ admission' = Written(admission, tx.adm)
      /\ report' = Written(report, tx.rep)
  BY DEF Commit
<1> HIDE DEF tx
<1>2. ASSUME NEW l, tx.limit = {l} PROVE foundingOrgLimit' = l
  <2>1. (CHOOSE m \in {l} : TRUE) = l OBVIOUS
  <2> QED BY <1>1, <1>2, <2>1
<1>3. admission = [o \in Orgs |-> admission[o]] /\ report = [r \in Reports |-> report[r]]
  BY DEF WorldFits
<1>4. tx.orgs = {} => registered' = registered BY <1>1
<1>5. tx.adm = <<>> => admission' = admission BY <1>1, <1>3, Writing
<1>6. \A o \in Orgs : \A v : tx.adm = One(o, v) => admission' = [admission EXCEPT ![o] = v]
  BY <1>1, <1>3, Writing
<1>7. tx.rep = <<>> => report' = report BY <1>1, <1>3, Writing
<1>8. \A r \in Reports : \A v : tx.rep = One(r, v) => report' = [report EXCEPT ![r] = v]
  BY <1>1, <1>3, Writing
<1> QED BY <1>1, <1>2, <1>4, <1>5, <1>6, <1>7, <1>8 DEF tx

\* Records stay records.
LEMMA RecordsFit ==
  ASSUME WorldFits, NEW r \in Reports, NEW v \in Chaincode!ReportRecord, v.status # "ABSENT",
         report' = [report EXCEPT ![r] = v], admission' = admission
  PROVE  WorldFits'
BY DEF WorldFits

LEMMA RequestsFit ==
  ASSUME WorldFits, NEW o \in Orgs, NEW v, admission' = [admission EXCEPT ![o] = v], report' = report
  PROVE  WorldFits'
BY DEF WorldFits

LEMMA CheckedFits ==
  ASSUME NEW record \in Chaincode!ReportRecord, NEW orgs, NEW org \in Orgs, NEW outcome \in Chaincode!Outcomes
  PROVE  LET after == Chaincode!AfterFactCheck(record, orgs, [checker |-> org, outcome |-> outcome])
         IN  after \in Chaincode!ReportRecord /\ after.status # "ABSENT"
<1> DEFINE checks == Append(record.checks, [checker |-> org, outcome |-> outcome])
           status == Chaincode!StatusAfterVote(orgs, checks)
<1>1. checks \in Seq(Chaincode!FactCheck) BY DEF Chaincode!ReportRecord, Chaincode!FactCheck
<1>2. status \in {"FINAL", "REJECTED", "UNDER_REVIEW"} BY DEF Chaincode!StatusAfterVote
<1>3. record.label \in {"none"} \cup Chaincode!Outcomes /\ record.deadline \in Nat
  BY DEF Chaincode!ReportRecord
<1>4. Chaincode!AfterFactCheck(record, orgs, [checker |-> org, outcome |-> outcome])
        = [status |-> status, checks |-> checks,
           label |-> IF status = "FINAL" THEN "1" ELSE record.label, deadline |-> record.deadline]
  BY DEF Chaincode!AfterFactCheck
<1> HIDE DEF checks, status
<1> QED BY <1>1, <1>2, <1>3, <1>4 DEF Chaincode!ReportRecord, Chaincode!Outcomes

LEMMA CommitIsAStep ==
  ASSUME WorldFits, NEW c \in Calls, Endorsed(underway[c]), Commit(c), AgreedClock' = AgreedClock
  PROVE  WorldFits' /\ (Chaincode!Next \/ UNCHANGED Chaincode!vars)
<1> DEFINE tx == underway[c]
<1>0. NowMembership(tx) \/ NowReport(tx) BY DEF Commit, Endorsed
<1>1. CASE NowSetLimit(tx)
  <2>1. PICK role \in Chaincode!Roles, limit \in Limits :
          /\ Chaincode!maySetFoundingOrgLimit(role, limit)
          /\ Has(tx, SetLimitReads, {limit}, {}, <<>>, <<>>)
    BY <1>1 DEF NowSetLimit
  <2>2. /\ foundingOrgLimit' = limit /\ registered' = registered
        /\ admission' = admission /\ report' = report
    BY <2>1, CommitWrites DEF Has
  <2>3. Chaincode!SetFoundingOrgLimit(role, limit) BY <2>1, <2>2 DEF Chaincode!SetFoundingOrgLimit
  <2>4. Chaincode!MembershipStep BY <1>1, <2>3 DEF Chaincode!MembershipStep, NowSetLimit
  <2> QED BY <2>2, <2>4 DEF Chaincode!Next, WorldFits
<1>2. CASE NowRegister(tx)
  <2>1. PICK org \in Orgs :
          \/ org \in registered /\ Has(tx, {OrgKey(org)}, {}, {}, <<>>, <<>>)
          \/ Chaincode!mayRegisterOrg(org) /\ Has(tx, RegisterReads(org), {}, {org}, <<>>, <<>>)
    BY <1>2 DEF NowRegister
  <2>2. CASE org \in registered /\ Has(tx, {OrgKey(org)}, {}, {}, <<>>, <<>>)
    <3>1. /\ foundingOrgLimit' = foundingOrgLimit /\ registered' = registered
          /\ admission' = admission /\ report' = report
      BY <2>2, CommitWrites DEF Has
    <3> QED BY <3>1 DEF Chaincode!vars, WorldFits
  <2>3. CASE Chaincode!mayRegisterOrg(org) /\ Has(tx, RegisterReads(org), {}, {org}, <<>>, <<>>)
    <3>1. /\ foundingOrgLimit' = foundingOrgLimit /\ registered' = registered \cup {org}
          /\ admission' = admission /\ report' = report
      BY <2>3, CommitWrites DEF Has
    <3>2. Chaincode!RegisterOrg(org) BY <2>3, <3>1 DEF Chaincode!RegisterOrg
    <3>3. Chaincode!MembershipStep BY <3>2 DEF Chaincode!MembershipStep, Chaincode!Roles
    <3> QED BY <3>1, <3>3 DEF Chaincode!Next, WorldFits
  <2> QED BY <2>1, <2>2, <2>3
<1>3. CASE NowRequest(tx)
  <2>1. PICK org \in Orgs \cap Candidates :
          /\ Chaincode!mayRequestOrgAdmission(org)
          /\ Has(tx, AdmissionReads(org, org), {}, {}, One(org, Chaincode!NewRequest), <<>>)
    BY <1>3 DEF NowRequest
  <2>2. /\ foundingOrgLimit' = foundingOrgLimit /\ registered' = registered
        /\ admission' = [admission EXCEPT ![org] = Chaincode!NewRequest] /\ report' = report
    BY <2>1, CommitWrites DEF Has
  <2>3. Chaincode!RequestOrgAdmission(org) BY <2>1, <2>2 DEF Chaincode!RequestOrgAdmission
  <2>4. Chaincode!MembershipStep BY <2>3 DEF Chaincode!MembershipStep, Chaincode!Roles
  <2> QED BY <2>2, <2>4, RequestsFit DEF Chaincode!Next
<1>4. CASE NowVote(tx)
  <2>1. PICK org \in Orgs, role \in Chaincode!Roles, o \in Orgs, verdict \in Chaincode!Outcomes :
          /\ Chaincode!mayVoteOnOrgAdmission(org, role, o)
          /\ Has(tx, AdmissionReads(org, o), {}, {},
                 One(o, Chaincode!AfterVote(admission[o], [voter |-> org, verdict |-> verdict])), <<>>)
    BY <1>4 DEF NowVote
  <2> DEFINE v == Chaincode!AfterVote(admission[o], [voter |-> org, verdict |-> verdict])
  <2>2. /\ foundingOrgLimit' = foundingOrgLimit /\ registered' = registered
        /\ admission' = [admission EXCEPT ![o] = v] /\ report' = report
    BY <2>1, CommitWrites DEF Has
  <2>3. admission' = [admission EXCEPT ![o] =
                        Chaincode!AfterVote(@, [voter |-> org, verdict |-> verdict])]
    BY <2>2
  <2>4. Chaincode!VoteOnOrgAdmission(org, role, o, verdict)
    BY <2>1, <2>2, <2>3 DEF Chaincode!VoteOnOrgAdmission
  <2>5. Chaincode!MembershipStep BY <2>4 DEF Chaincode!MembershipStep
  <2> QED BY <2>2, <2>5, RequestsFit DEF Chaincode!Next
<1>5. CASE NowFinalizeAdmission(tx)
  <2>1. PICK org \in Orgs, role \in Chaincode!Roles, o \in Orgs :
          /\ Chaincode!mayFinalizeOrgAdmission(org, role, o)
          /\ Has(tx, FinalizeAdmissionReads(org, o), {}, {o},
                 One(o, [admission[o] EXCEPT !.status = "ADMITTED"]), <<>>)
    BY <1>5 DEF NowFinalizeAdmission
  <2> DEFINE v == [admission[o] EXCEPT !.status = "ADMITTED"]
  <2>2. /\ foundingOrgLimit' = foundingOrgLimit /\ registered' = registered \cup {o}
        /\ admission' = [admission EXCEPT ![o] = v] /\ report' = report
    BY <2>1, CommitWrites DEF Has
  <2>3. admission' = [admission EXCEPT ![o].status = "ADMITTED"] BY <2>2
  <2>4. Chaincode!FinalizeOrgAdmission(org, role, o)
    BY <2>1, <2>2, <2>3 DEF Chaincode!FinalizeOrgAdmission
  <2>5. Chaincode!MembershipStep BY <2>4 DEF Chaincode!MembershipStep
  <2> QED BY <2>2, <2>5, RequestsFit DEF Chaincode!Next
<1>6. CASE NowSubmit(tx)
  <2>1. PICK org \in Orgs, role \in Chaincode!Roles, r \in Reports, timestamp \in Times :
          /\ Chaincode!maySubmit(org, role, r)
          /\ Has(tx, ReportReads(org, r), {}, {}, <<>>, One(r, Chaincode!NewReport(timestamp)))
    BY <1>6 DEF NowSubmit
  <2> DEFINE v == Chaincode!NewReport(timestamp)
  <2>2. /\ foundingOrgLimit' = foundingOrgLimit /\ registered' = registered
        /\ admission' = admission /\ report' = [report EXCEPT ![r] = v]
    BY <2>1, CommitWrites DEF Has
  <2>3. Chaincode!Submit(org, role, r, timestamp) BY <2>1, <2>2 DEF Chaincode!Submit
  <2>4. Chaincode!ReportStep BY <2>3 DEF Chaincode!ReportStep
  <2>5. timestamp + Window \in Nat BY ClocksAssumption
  <2>6. v \in Chaincode!ReportRecord /\ v.status # "ABSENT"
    BY <2>5 DEF Chaincode!NewReport, Chaincode!ReportRecord
  <2> HIDE DEF v
  <2> QED BY <2>2, <2>4, <2>6, RecordsFit DEF Chaincode!Next
<1>7. CASE NowFactCheck(tx)
  <2>1. PICK org \in Orgs, role \in Chaincode!Roles, r \in Reports, outcome \in Chaincode!Outcomes :
          /\ Chaincode!maySubmitFactCheck(org, role, r)
          /\ Has(tx, FactCheckReads(org, r), {}, {}, <<>>,
                 One(r, Chaincode!AfterFactCheck(report[r], registered,
                                                 [checker |-> org, outcome |-> outcome])))
    BY <1>7 DEF NowFactCheck
  <2> DEFINE check == [checker |-> org, outcome |-> outcome]
             v == Chaincode!AfterFactCheck(report[r], registered, check)
  <2>2. /\ foundingOrgLimit' = foundingOrgLimit /\ registered' = registered
        /\ admission' = admission /\ report' = [report EXCEPT ![r] = v]
    BY <2>1, CommitWrites DEF Has
  <2>3. report' = [report EXCEPT ![r] = Chaincode!AfterFactCheck(@, registered, check)] BY <2>2
  <2>4. Chaincode!SubmitFactCheck(org, role, r, outcome)
    BY <2>1, <2>2, <2>3 DEF Chaincode!SubmitFactCheck
  <2>5. Chaincode!ReportStep BY <2>4 DEF Chaincode!ReportStep
  <2>6. v \in Chaincode!ReportRecord /\ v.status # "ABSENT"
    BY CheckedFits DEF WorldFits
  <2> HIDE DEF v
  <2> QED BY <2>2, <2>5, <2>6, RecordsFit DEF Chaincode!Next
<1>8. CASE NowFinalize(tx)
  <2>1. PICK org \in Orgs, role \in Chaincode!Roles, r \in Reports, winner \in Chaincode!Outcomes :
          /\ Chaincode!mayFinalizeReport(org, role, r)
          /\ Chaincode!Winner(report[r].checks, winner)
          /\ Has(tx, ReportReads(org, r), {}, {}, <<>>,
                 One(r, [report[r] EXCEPT !.label = winner, !.status = "FINAL"]))
    BY <1>8 DEF NowFinalize
  <2> DEFINE v == [report[r] EXCEPT !.label = winner, !.status = "FINAL"]
  <2>2. /\ foundingOrgLimit' = foundingOrgLimit /\ registered' = registered
        /\ admission' = admission /\ report' = [report EXCEPT ![r] = v]
    BY <2>1, CommitWrites DEF Has
  <2>3. report' = [report EXCEPT ![r] = [@ EXCEPT !.label = winner, !.status = "FINAL"]] BY <2>2
  <2>4. Chaincode!FinalizeReport(org, role, r) BY <2>1, <2>2, <2>3 DEF Chaincode!FinalizeReport
  <2>5. Chaincode!ReportStep BY <2>4 DEF Chaincode!ReportStep
  <2>6. v \in Chaincode!ReportRecord /\ v.status # "ABSENT"
    BY DEF WorldFits, Chaincode!ReportRecord
  <2> HIDE DEF v
  <2> QED BY <2>2, <2>5, <2>6, RecordsFit DEF Chaincode!Next
<1>9. CASE NowExpire(tx)
  <2>1. PICK org \in Orgs, role \in Chaincode!Roles, r \in Reports :
          /\ Chaincode!mayExpireReport(org, role, r)
          /\ Has(tx, ReportReads(org, r), {}, {}, <<>>, One(r, [report[r] EXCEPT !.status = "EXPIRED"]))
    BY <1>9 DEF NowExpire
  <2> DEFINE v == [report[r] EXCEPT !.status = "EXPIRED"]
  <2>2. /\ foundingOrgLimit' = foundingOrgLimit /\ registered' = registered
        /\ admission' = admission /\ report' = [report EXCEPT ![r] = v]
    BY <2>1, CommitWrites DEF Has
  <2>3. report' = [report EXCEPT ![r].status = "EXPIRED"] BY <2>2
  <2>4. Chaincode!ExpireReport(org, role, r) BY <2>1, <2>2, <2>3 DEF Chaincode!ExpireReport
  <2>5. Chaincode!ReportStep BY <2>4 DEF Chaincode!ReportStep
  <2>6. v \in Chaincode!ReportRecord /\ v.status # "ABSENT"
    BY DEF WorldFits, Chaincode!ReportRecord
  <2> HIDE DEF v
  <2> QED BY <2>2, <2>5, <2>6, RecordsFit DEF Chaincode!Next
<1> QED BY <1>0, <1>1, <1>2, <1>3, <1>4, <1>5, <1>6, <1>7, <1>8, <1>9 DEF NowMembership, NowReport

-----------------------------------------------------------------------------
(* The invariant. *)

UnderwayFits ==
  /\ underway = [c \in Calls |-> underway[c]]
  /\ \A c \in Calls : \A tx : tx = underway[c] => tx = Idle \/ Endorsed(tx)

FInv == WorldFits /\ ClocksAgree /\ UnderwayFits

\* The mark of staleness aside, a transaction stays what it was endorsed as.
LEMMA MarkedIsSame ==
  ASSUME NEW tx, Endorsed(tx), NEW mark \in BOOLEAN, NEW q,
         NEW flag \in BOOLEAN, flag = (tx.stale \/ mark), q = [tx EXCEPT !.stale = flag]
  PROVE  /\ q.stale \in BOOLEAN /\ DOMAIN q = Fields /\ q.phase = "endorsed" /\ q.reads = tx.reads
         /\ ~q.stale => ~mark /\ (NowMembership(q) \/ NowReport(q))
<1>1. "stale" \in DOMAIN tx /\ tx.stale \in BOOLEAN BY DEF Endorsed, Fields
<1>2. /\ DOMAIN q = Fields /\ q.phase = "endorsed" /\ q.reads = tx.reads /\ q.limit = tx.limit
      /\ q.orgs = tx.orgs /\ q.adm = tx.adm /\ q.rep = tx.rep
  BY DEF Endorsed, Fields
<1>3. q.stale = flag BY <1>1
<1>4. q.stale \in BOOLEAN BY <1>3
<1>5. ASSUME ~q.stale PROVE ~mark /\ (NowMembership(q) \/ NowReport(q))
  <2>1. ~tx.stale /\ ~mark BY <1>3, <1>5
  <2>2. NowMembership(tx) \/ NowReport(tx) BY <2>1 DEF Endorsed
  <2>3. q.stale = FALSE BY <1>4, <1>5
  <2>4. ASSUME NEW reads, NEW limit, NEW orgs, NEW adm, NEW rep, Has(tx, reads, limit, orgs, adm, rep)
        PROVE  Has(q, reads, limit, orgs, adm, rep)
    BY <1>2, <2>3, <2>4 DEF Has
  <2>5. NowMembership(tx) => NowMembership(q)
    <3>1. NowSetLimit(tx) => NowSetLimit(q) BY <2>4 DEF NowSetLimit
    <3>2. NowRegister(tx) => NowRegister(q) BY <2>4 DEF NowRegister
    <3>3. NowRequest(tx) => NowRequest(q) BY <2>4 DEF NowRequest
    <3>4. NowVote(tx) => NowVote(q) BY <2>4 DEF NowVote
    <3>5. NowFinalizeAdmission(tx) => NowFinalizeAdmission(q) BY <2>4 DEF NowFinalizeAdmission
    <3> QED BY <3>1, <3>2, <3>3, <3>4, <3>5 DEF NowMembership
  <2>6. NowReport(tx) => NowReport(q)
    <3>1. NowSubmit(tx) => NowSubmit(q) BY <2>4 DEF NowSubmit
    <3>2. NowFactCheck(tx) => NowFactCheck(q) BY <2>4 DEF NowFactCheck
    <3>3. NowFinalize(tx) => NowFinalize(q) BY <2>4 DEF NowFinalize
    <3>4. NowExpire(tx) => NowExpire(q) BY <2>4 DEF NowExpire
    <3> QED BY <3>1, <3>2, <3>3, <3>4 DEF NowReport
  <2> QED BY <2>1, <2>2, <2>5, <2>6
<1> QED BY <1>2, <1>4, <1>5

\* What stays under way while the world goes on.
LEMMA EndorsedStays ==
  ASSUME NEW tx, Endorsed(tx), ~tx.stale => Current(tx.reads), WorldFits,
         AgreedClock \in Nat, AgreedClock' \in Nat, AgreedClock' >= AgreedClock
  PROVE  Endorsed(tx)'
<1>1. ASSUME ~tx.stale PROVE NowMembership(tx)' \/ NowReport(tx)'
  <2>1. NowMembership(tx) \/ NowReport(tx) BY <1>1 DEF Endorsed
  <2> QED BY <1>1, <2>1, StillNow
<1> QED BY <1>1 DEF Endorsed

LEMMA WorldStaysCurrent == ASSUME UNCHANGED world, NEW keys PROVE Current(keys)
BY DEF world, Current

LEMMA UnderwayStays ==
  ASSUME FInv, UNCHANGED world, AgreedClock' \in Nat, AgreedClock' >= AgreedClock,
         NEW d \in Calls, NEW tx, tx = underway[d]
  PROVE  tx = Idle \/ Endorsed(tx)'
<1>1. tx = Idle \/ Endorsed(tx) BY DEF FInv, UnderwayFits
<1>2. AgreedClock \in Nat BY AgreedClockIsAgreed DEF FInv
<1> QED BY <1>1, <1>2, EndorsedStays, WorldStaysCurrent DEF FInv

LEMMA CommitKeeps ==
  ASSUME FInv, NEW c \in Calls, Commit(c) PROVE FInv' /\ (Chaincode!Next \/ UNCHANGED Chaincode!vars)
<1>1. AgreedClock' = AgreedClock /\ ClocksAgree' /\ AgreedClock \in Nat
  BY SameClock, AgreedClockIsAgreed DEF Commit, FInv
<1>2. Endorsed(underway[c]) BY DEF FInv, UnderwayFits, Commit
<1>3. WorldFits' /\ (Chaincode!Next \/ UNCHANGED Chaincode!vars) BY <1>1, <1>2, CommitIsAStep DEF FInv
<1>4. underway' = AfterCommit(c, underway[c]) BY DEF Commit
<1>5. ASSUME NEW d \in Calls, NEW q, q = underway'[d] PROVE q = Idle \/ Endorsed(q)'
  <2>1. CASE d = c \/ underway[d] = Idle BY <1>4, <1>5, <2>1 DEF AfterCommit
  <2>2. CASE d # c /\ underway[d] # Idle
    <3>1. PICK tx : tx = underway[d] OBVIOUS
    <3>2. PICK mark \in BOOLEAN : mark = (tx.reads \cap WrittenKeys(underway[c]) # {}) OBVIOUS
    <3>3. /\ q = [tx EXCEPT !.stale = tx.stale \/ mark]
          /\ Endorsed(tx)
      BY <1>4, <1>5, <2>2, <3>1, <3>2 DEF AfterCommit, FInv, UnderwayFits
    <3>4. PICK flag \in BOOLEAN : flag = (tx.stale \/ mark) BY <3>3 DEF Endorsed
    <3>5. q = [tx EXCEPT !.stale = flag] BY <3>3, <3>4
    <3>6. ~mark => Current(tx.reads) BY <3>2, ReadsAreCurrent DEF FInv
    <3>7. /\ q.stale \in BOOLEAN /\ DOMAIN q = Fields /\ q.phase = "endorsed" /\ q.reads = tx.reads
          /\ ~q.stale => ~mark /\ (NowMembership(q) \/ NowReport(q))
      BY <3>3, <3>4, <3>5, MarkedIsSame
    <3>8. Endorsed(q) BY <3>7 DEF Endorsed
    <3>9. ~q.stale => Current(q.reads) BY <3>6, <3>7
    <3> QED BY <3>8, <3>9, <1>1, EndorsedStays DEF FInv
  <2> QED BY <2>1, <2>2
<1>6. UnderwayFits'
  <2>1. underway' = [d \in Calls |-> underway'[d]] BY <1>4 DEF AfterCommit
  <2> QED BY <2>1, <1>5 DEF UnderwayFits
<1> QED BY <1>1, <1>3, <1>6 DEF FInv

LEMMA FInitHolds == FInit => FInv /\ Chaincode!Init
<1> SUFFICES ASSUME FInit PROVE FInv /\ Chaincode!Init OBVIOUS
<1>1. ClocksAgree BY ClocksStart DEF FInit
<1>2. Chaincode!NoReport \in Chaincode!ReportRecord /\ Chaincode!NoReport.checks = <<>>
  BY DEF Chaincode!NoReport, Chaincode!ReportRecord
<1>3. WorldFits BY <1>2 DEF FInit, WorldFits
<1>4. UnderwayFits BY DEF FInit, UnderwayFits
<1>5. AgreedClock = 0
  <2>1. Cardinality(Reached(clock, 0)) >= 2
    <3>1. Reached(clock, 0) = Peers BY DEF Reached, FInit
    <3> QED BY <3>1, PeersAssumption
  <2>2. ASSUME NEW u \in Nat, u > 0 PROVE Cardinality(Reached(clock, u)) < 2
    <3>1. Reached(clock, u) = {} BY <2>2 DEF Reached, FInit
    <3> QED BY <3>1, FS_EmptySet
  <2>3. Agreed(clock, 0) BY <2>1, <2>2, ClocksAssumption DEF Agreed
  <2> QED BY <2>3, LatestIsAgreed DEF AgreedClock, LatestIn
<1> QED BY <1>1, <1>3, <1>4, <1>5 DEF FInv, FInit, Chaincode!Init

LEMMA EndorseKeeps ==
  ASSUME FInv, NEW c \in Calls, EndorseMembership(c) \/ EndorseReport(c)
  PROVE  FInv' /\ UNCHANGED Chaincode!vars
<1>1. PICK tx : (NowMembership(tx) \/ NowReport(tx)) /\ Send(c, tx) BY SentIsNow
<1>2. UNCHANGED world /\ clock' = clock /\ underway' = [underway EXCEPT ![c] = tx] BY <1>1 DEF Send
<1>3. AgreedClock' = AgreedClock /\ ClocksAgree' /\ AgreedClock \in Nat
  BY <1>2, SameClock, AgreedClockIsAgreed DEF FInv
<1>4. WorldFits' BY <1>2 DEF world, WorldFits, FInv
<1>5. Endorsed(tx) BY <1>1 DEF Endorsed, Has, NowMembership, NowReport, NowSetLimit, NowRegister,
    NowRequest, NowVote, NowFinalizeAdmission, NowSubmit, NowFactCheck, NowFinalize, NowExpire
<1>6. Endorsed(tx)' BY <1>2, <1>3, <1>5, EndorsedStays, WorldStaysCurrent DEF FInv
<1>7. ASSUME NEW d \in Calls, NEW q, q = underway'[d] PROVE q = Idle \/ Endorsed(q)'
  <2>1. CASE d = c
    <3>1. q = tx BY <1>2, <1>7, <2>1 DEF FInv, UnderwayFits
    <3> QED BY <3>1, <1>6
  <2>2. CASE d # c
    <3>1. q = underway[d] BY <1>2, <1>7, <2>2 DEF FInv, UnderwayFits
    <3> QED BY <3>1, <1>2, <1>3, UnderwayStays
  <2> QED BY <2>1, <2>2
<1>8. UnderwayFits'
  <2>1. underway' = [d \in Calls |-> underway'[d]] BY <1>2 DEF FInv, UnderwayFits
  <2> QED BY <2>1, <1>7 DEF UnderwayFits
<1> QED BY <1>2, <1>3, <1>4, <1>8 DEF FInv, world, Chaincode!vars

LEMMA DiscardKeeps ==
  ASSUME FInv, NEW c \in Calls, Discard(c) PROVE FInv' /\ UNCHANGED Chaincode!vars
<1>1. UNCHANGED world /\ clock' = clock /\ underway' = [underway EXCEPT ![c] = Idle] BY DEF Discard
<1>2. AgreedClock' = AgreedClock /\ ClocksAgree' /\ AgreedClock \in Nat
  BY <1>1, SameClock, AgreedClockIsAgreed DEF FInv
<1>3. WorldFits' BY <1>1 DEF world, WorldFits, FInv
<1>4. ASSUME NEW d \in Calls, NEW q, q = underway'[d] PROVE q = Idle \/ Endorsed(q)'
  <2>1. CASE d = c BY <1>1, <1>4, <2>1 DEF FInv, UnderwayFits
  <2>2. CASE d # c
    <3>1. q = underway[d] BY <1>1, <1>4, <2>2 DEF FInv, UnderwayFits
    <3> QED BY <3>1, <1>1, <1>2, UnderwayStays
  <2> QED BY <2>1, <2>2
<1>5. UnderwayFits'
  <2>1. underway' = [d \in Calls |-> underway'[d]] BY <1>1 DEF FInv, UnderwayFits
  <2> QED BY <2>1, <1>4 DEF UnderwayFits
<1> QED BY <1>1, <1>2, <1>3, <1>5 DEF FInv, world, Chaincode!vars

LEMMA TickKeeps ==
  ASSUME FInv, NEW p \in Peers, PeerTick(p)
  PROVE  FInv' /\ (Chaincode!Next \/ UNCHANGED Chaincode!vars)
<1>1. UNCHANGED world /\ underway' = underway BY DEF PeerTick
<1>2. ClocksAgree' /\ AgreedClock' \in {AgreedClock, AgreedClock + 1} BY TickAgrees DEF FInv
<1>3. AgreedClock \in Nat BY AgreedClockIsAgreed DEF FInv
<1>4. AgreedClock' \in Nat /\ AgreedClock' >= AgreedClock BY <1>2, <1>3
<1>5. WorldFits' BY <1>1 DEF world, WorldFits, FInv
<1>6. UnderwayFits'
  <2>1. ASSUME NEW d \in Calls, NEW q, q = underway'[d] PROVE q = Idle \/ Endorsed(q)'
    BY <1>1, <1>4, <2>1, UnderwayStays
  <2>2. underway' = [d \in Calls |-> underway'[d]] BY <1>1 DEF FInv, UnderwayFits
  <2> QED BY <2>1, <2>2 DEF UnderwayFits
<1>7. Chaincode!Next \/ UNCHANGED Chaincode!vars
  <2>1. CASE AgreedClock' = AgreedClock BY <1>1, <2>1 DEF world, Chaincode!vars
  <2>2. CASE AgreedClock' = AgreedClock + 1
    <3>1. AgreedClock' \in Times
      <4>1. PICK t : Agreed(clock', t) BY <1>2 DEF ClocksAgree
      <4>2. AgreedClock' = t BY <4>1, LatestIsAgreed DEF AgreedClock, LatestIn
      <4> QED BY <4>1, <4>2 DEF Agreed
    <3>2. Chaincode!Tick BY <1>1, <2>2, <3>1 DEF world, Chaincode!Tick
    <3> QED BY <3>2 DEF Chaincode!Next
  <2> QED BY <1>2, <2>1, <2>2
<1> QED BY <1>2, <1>5, <1>6, <1>7 DEF FInv

LEMMA FNextKeeps ==
  FInv /\ [FNext]_fvars => FInv' /\ (Chaincode!Next \/ UNCHANGED Chaincode!vars)
<1> SUFFICES ASSUME FInv, [FNext]_fvars
             PROVE  FInv' /\ (Chaincode!Next \/ UNCHANGED Chaincode!vars)
  OBVIOUS
<1>1. CASE UNCHANGED fvars
  <2>1. UNCHANGED world /\ clock' = clock /\ underway' = underway BY <1>1 DEF fvars, world
  <2>2. AgreedClock' = AgreedClock /\ ClocksAgree' /\ AgreedClock \in Nat
    BY <2>1, SameClock, AgreedClockIsAgreed DEF FInv
  <2>3. WorldFits' BY <2>1 DEF world, WorldFits, FInv
  <2>4. ASSUME NEW d \in Calls, NEW q, q = underway'[d] PROVE q = Idle \/ Endorsed(q)'
    BY <2>1, <2>2, <2>4, UnderwayStays
  <2>5. UnderwayFits'
    <3>1. underway' = [d \in Calls |-> underway'[d]] BY <2>1 DEF FInv, UnderwayFits
    <3> QED BY <3>1, <2>4 DEF UnderwayFits
  <2> QED BY <2>1, <2>2, <2>3, <2>5 DEF FInv, world, Chaincode!vars
<1>2. CASE \E c \in Calls : EndorseMembership(c) \/ EndorseReport(c) BY <1>2, EndorseKeeps
<1>3. CASE \E c \in Calls : Commit(c) BY <1>3, CommitKeeps
<1>4. CASE \E c \in Calls : Discard(c) BY <1>4, DiscardKeeps
<1>5. CASE \E p \in Peers : PeerTick(p) BY <1>5, TickKeeps
<1> QED BY <1>1, <1>2, <1>3, <1>4, <1>5 DEF FNext

\* Whatever calls are under way together, in whatever order they were endorsed and
\* commit, every commit is one step of the chaincode on the state of that moment,
\* and two peers' clocks going on are its clock going on.
THEOREM CallsAreSerialisable == FSpec => ImplementsChaincode
<1>1. FInit => FInv /\ Chaincode!Init BY FInitHolds
<1>2. FInv /\ [FNext]_fvars => FInv' /\ [Chaincode!Next]_(Chaincode!vars) BY FNextKeeps
<1> QED BY <1>1, <1>2, PTL DEF FSpec, ImplementsChaincode, Chaincode!Spec

-----------------------------------------------------------------------------
(* What the invariant says of the writes that are still to come. *)

LEMMA PrefixFits ==
  ASSUME NEW checks \in Seq(Chaincode!FactCheck), NEW check \in Chaincode!FactCheck
  PROVE  /\ checks = SubSeq(checks, 1, Len(checks)) /\ Len(checks) \in Nat
         /\ checks = SubSeq(Append(checks, check), 1, Len(checks))
         /\ Len(Append(checks, check)) = Len(checks) + 1
OBVIOUS

LEMMA AcceptedFits ==
  ASSUME FInv, NEW c \in Calls, underway[c] # Idle, ~underway[c].stale,
         NEW r \in DOMAIN underway[c].rep
  PROVE  /\ ~Chaincode!Closed(report[r].status)
         /\ report[r].checks = SubSeq(underway[c].rep[r].checks, 1, Len(report[r].checks))
         /\ Len(underway[c].rep[r].checks) <= Len(report[r].checks) + 1
<1> DEFINE tx == underway[c]
<1>0. NowMembership(tx) \/ NowReport(tx) BY DEF FInv, UnderwayFits, Endorsed
<1>1. DOMAIN <<>> = {} OBVIOUS
<1>2. CASE NowMembership(tx)
  <2>1. tx.rep = <<>>
    BY <1>2 DEF NowMembership, NowSetLimit, NowRegister, NowRequest, NowVote, NowFinalizeAdmission, Has
  <2> QED BY <2>1, <1>1
<1>3. \A k \in Reports : report[k] \in Chaincode!ReportRecord BY DEF FInv, WorldFits
<1>4. CASE NowSubmit(tx)
  <2>1. PICK org \in Orgs, role \in Chaincode!Roles, k \in Reports, timestamp \in Times :
          /\ Chaincode!maySubmit(org, role, k)
          /\ tx.rep = One(k, Chaincode!NewReport(timestamp))
    BY <1>4 DEF NowSubmit, Has
  <2> DEFINE v == Chaincode!NewReport(timestamp)
  <2>2. r = k /\ tx.rep[r].checks = <<>>
    <3>1. v.checks = <<>> BY DEF Chaincode!NewReport
    <3> HIDE DEF v
    <3>2. r = k /\ tx.rep[r] = v BY <2>1 DEF One, v
    <3> QED BY <3>1, <3>2
  <2>3. report[r].status = "ABSENT" /\ report[r].checks = <<>>
    BY <2>1, <2>2 DEF Chaincode!maySubmit, FInv, WorldFits
  <2> QED BY <2>2, <2>3 DEF Chaincode!Closed
<1>5. CASE NowFactCheck(tx)
  <2>1. PICK org \in Orgs, role \in Chaincode!Roles, k \in Reports, outcome \in Chaincode!Outcomes :
          /\ Chaincode!maySubmitFactCheck(org, role, k)
          /\ tx.rep = One(k, Chaincode!AfterFactCheck(report[k], registered,
                                                      [checker |-> org, outcome |-> outcome]))
    BY <1>5 DEF NowFactCheck, Has
  <2> DEFINE check == [checker |-> org, outcome |-> outcome]
  <2> DEFINE v == Chaincode!AfterFactCheck(report[k], registered, check)
  <2>2. r = k /\ tx.rep[r].checks = Append(report[r].checks, check)
    <3>1. v.checks = Append(report[k].checks, check) BY DEF Chaincode!AfterFactCheck
    <3> HIDE DEF v, check
    <3>2. r = k /\ tx.rep[r] = v BY <2>1 DEF One, v, check
    <3> QED BY <3>1, <3>2
  <2>3. check \in Chaincode!FactCheck BY DEF Chaincode!FactCheck
  <2>4. report[r].checks \in Seq(Chaincode!FactCheck) BY <1>3, <2>2 DEF Chaincode!ReportRecord
  <2>5. ~Chaincode!Closed(report[r].status)
    BY <2>1, <2>2 DEF Chaincode!maySubmitFactCheck, Chaincode!Open, Chaincode!Closed
  <2> HIDE DEF check
  <2> QED BY <2>2, <2>3, <2>4, <2>5, PrefixFits
<1>6. CASE NowFinalize(tx)
  <2>1. PICK org \in Orgs, role \in Chaincode!Roles, k \in Reports, winner \in Chaincode!Outcomes :
          /\ Chaincode!mayFinalizeReport(org, role, k)
          /\ tx.rep = One(k, [report[k] EXCEPT !.label = winner, !.status = "FINAL"])
    BY <1>6 DEF NowFinalize, Has
  <2>2. r = k /\ tx.rep[r] = [report[r] EXCEPT !.label = winner, !.status = "FINAL"] BY <2>1 DEF One
  <2>3. report[r] \in Chaincode!ReportRecord BY <1>3, <2>2
  <2>4. tx.rep[r].checks = report[r].checks BY <2>2, <2>3 DEF Chaincode!ReportRecord
  <2>5. report[r].checks \in Seq(Chaincode!FactCheck) BY <2>3 DEF Chaincode!ReportRecord
  <2>6. ~Chaincode!Closed(report[r].status)
    BY <2>1, <2>2 DEF Chaincode!mayFinalizeReport, Chaincode!Open, Chaincode!Closed
  <2>7. report[r].checks = SubSeq(report[r].checks, 1, Len(report[r].checks)) /\ Len(report[r].checks) \in Nat
    BY <2>5
  <2> QED BY <2>4, <2>6, <2>7
<1>7. CASE NowExpire(tx)
  <2>1. PICK org \in Orgs, role \in Chaincode!Roles, k \in Reports :
          /\ Chaincode!mayExpireReport(org, role, k)
          /\ tx.rep = One(k, [report[k] EXCEPT !.status = "EXPIRED"])
    BY <1>7 DEF NowExpire, Has
  <2>2. r = k /\ tx.rep[r] = [report[r] EXCEPT !.status = "EXPIRED"] BY <2>1 DEF One
  <2>3. report[r] \in Chaincode!ReportRecord BY <1>3, <2>2
  <2>4. tx.rep[r].checks = report[r].checks BY <2>2, <2>3 DEF Chaincode!ReportRecord
  <2>5. report[r].checks \in Seq(Chaincode!FactCheck) BY <2>3 DEF Chaincode!ReportRecord
  <2>6. ~Chaincode!Closed(report[r].status)
    BY <2>1, <2>2 DEF Chaincode!mayExpireReport, Chaincode!Open, Chaincode!Closed
  <2>7. report[r].checks = SubSeq(report[r].checks, 1, Len(report[r].checks)) /\ Len(report[r].checks) \in Nat
    BY <2>5
  <2> QED BY <2>4, <2>6, <2>7
<1> QED BY <1>0, <1>2, <1>4, <1>5, <1>6, <1>7 DEF NowReport

\* No vote and no closure that committed is overwritten by a call that was
\* endorsed before it.
THEOREM AcceptedCallsFit == FSpec => []AcceptedWritesFit
<1>1. FInit => FInv BY FInitHolds
<1>2. FInv /\ [FNext]_fvars => FInv' BY FNextKeeps
<1>3. FInv => AcceptedWritesFit BY AcceptedFits DEF AcceptedWritesFit
<1> QED BY <1>1, <1>2, <1>3, PTL DEF FSpec

LEMMA CommitClosesLate ==
  ASSUME FInv, NEW c \in Calls, Commit(c), NEW r \in Reports,
         Chaincode!Open(report[r].status), Chaincode!Closed(report'[r].status),
         report'[r].checks = report[r].checks
  PROVE  Chaincode!isPastDeadline(r)
<1> DEFINE tx == underway[c]
<1>0. NowMembership(tx) \/ NowReport(tx) BY DEF FInv, UnderwayFits, Endorsed, Commit
<1>1. WorldFits /\ \A k \in Reports : report[k] \in Chaincode!ReportRecord BY DEF FInv, WorldFits
<1>2. report'[r] # report[r] BY DEF Chaincode!Open, Chaincode!Closed
<1>3. CASE NowMembership(tx)
  <2>1. tx.rep = <<>>
    BY <1>3 DEF NowMembership, NowSetLimit, NowRegister, NowRequest, NowVote, NowFinalizeAdmission, Has
  <2> QED BY <1>1, <1>2, <2>1, CommitWrites
<1>4. CASE NowSubmit(tx)
  <2>1. PICK org \in Orgs, role \in Chaincode!Roles, k \in Reports, timestamp \in Times :
          /\ Chaincode!maySubmit(org, role, k)
          /\ tx.rep = One(k, Chaincode!NewReport(timestamp))
    BY <1>4 DEF NowSubmit, Has
  <2>2. report' = [report EXCEPT ![k] = Chaincode!NewReport(timestamp)] BY <1>1, <2>1, CommitWrites
  <2>3. r = k BY <1>1, <1>2, <2>2 DEF WorldFits
  <2> QED BY <2>1, <2>3 DEF Chaincode!maySubmit, Chaincode!Open
<1>5. CASE NowFactCheck(tx)
  <2>1. PICK org \in Orgs, role \in Chaincode!Roles, k \in Reports, outcome \in Chaincode!Outcomes :
          tx.rep = One(k, Chaincode!AfterFactCheck(report[k], registered,
                                                   [checker |-> org, outcome |-> outcome]))
    BY <1>5 DEF NowFactCheck, Has
  <2> DEFINE check == [checker |-> org, outcome |-> outcome]
             v == Chaincode!AfterFactCheck(report[k], registered, check)
  <2>2. report' = [report EXCEPT ![k] = v] BY <1>1, <2>1, CommitWrites
  <2>3. v.checks = Append(report[k].checks, check) BY DEF Chaincode!AfterFactCheck
  <2>4. check \in Chaincode!FactCheck BY DEF Chaincode!FactCheck
  <2>5. report[k].checks \in Seq(Chaincode!FactCheck) BY <1>1 DEF Chaincode!ReportRecord
  <2> HIDE DEF v, check
  <2>6. r = k /\ report'[r] = v BY <1>1, <1>2, <2>2 DEF WorldFits
  <2>7. Len(Append(report[k].checks, check)) # Len(report[k].checks) BY <2>4, <2>5, PrefixFits
  <2> QED BY <2>3, <2>6, <2>7
<1>6. CASE NowFinalize(tx)
  <2>1. PICK org \in Orgs, role \in Chaincode!Roles, k \in Reports, winner \in Chaincode!Outcomes :
          /\ Chaincode!mayFinalizeReport(org, role, k)
          /\ tx.rep = One(k, [report[k] EXCEPT !.label = winner, !.status = "FINAL"])
    BY <1>6 DEF NowFinalize, Has
  <2> DEFINE v == [report[k] EXCEPT !.label = winner, !.status = "FINAL"]
  <2>2. report' = [report EXCEPT ![k] = v] BY <1>1, <2>1, CommitWrites
  <2> HIDE DEF v
  <2>3. r = k BY <1>1, <1>2, <2>2 DEF WorldFits
  <2> QED BY <2>1, <2>3 DEF Chaincode!mayFinalizeReport
<1>7. CASE NowExpire(tx)
  <2>1. PICK org \in Orgs, role \in Chaincode!Roles, k \in Reports :
          /\ Chaincode!mayExpireReport(org, role, k)
          /\ tx.rep = One(k, [report[k] EXCEPT !.status = "EXPIRED"])
    BY <1>7 DEF NowExpire, Has
  <2> DEFINE v == [report[k] EXCEPT !.status = "EXPIRED"]
  <2>2. report' = [report EXCEPT ![k] = v] BY <1>1, <2>1, CommitWrites
  <2> HIDE DEF v
  <2>3. r = k BY <1>1, <1>2, <2>2 DEF WorldFits
  <2> QED BY <2>1, <2>3 DEF Chaincode!mayExpireReport
<1> QED BY <1>0, <1>3, <1>4, <1>5, <1>6, <1>7 DEF NowReport

LEMMA ClosingIsLate == ASSUME FInv, [FNext]_fvars PROVE ClosedOnTwoClocksStep
<1> SUFFICES ASSUME NEW r \in Reports, Chaincode!Open(report[r].status),
                    Chaincode!Closed(report'[r].status), report'[r].checks = report[r].checks
             PROVE  Cardinality({p \in Peers : clock[p] > report[r].deadline}) >= 2
  BY DEF ClosedOnTwoClocksStep
<1>1. report' # report BY DEF Chaincode!Open, Chaincode!Closed
<1>2. PICK c \in Calls : Commit(c)
  <2>1. ASSUME NEW c \in Calls, EndorseMembership(c) \/ EndorseReport(c) PROVE FALSE
    <3>1. report' = report BY <2>1, SentIsNow DEF Send, world
    <3> QED BY <1>1, <3>1
  <2>2. ASSUME NEW c \in Calls, Discard(c) PROVE FALSE BY <1>1, <2>2 DEF Discard, world
  <2>3. ASSUME NEW p \in Peers, PeerTick(p) PROVE FALSE BY <1>1, <2>3 DEF PeerTick, world
  <2>4. ~(UNCHANGED fvars) BY <1>1 DEF fvars
  <2> QED BY <2>1, <2>2, <2>3, <2>4 DEF FNext
<1>3. Chaincode!isPastDeadline(r) BY <1>2, CommitClosesLate
<1>4. AgreedClock > report[r].deadline BY <1>3 DEF Chaincode!isPastDeadline
<1>5. Agreed(clock, AgreedClock) /\ AgreedClock \in Nat BY AgreedClockIsAgreed DEF FInv
<1>6. report[r].deadline \in Nat BY DEF FInv, WorldFits, Chaincode!ReportRecord
<1>7. \A p \in Peers : clock[p] \in Nat BY ClocksAssumption DEF FInv, ClocksAgree
<1> DEFINE late == {p \in Peers : clock[p] > report[r].deadline}
<1>8. Reached(clock, AgreedClock) \subseteq late BY <1>4, <1>5, <1>6, <1>7 DEF Reached
<1>9. IsFiniteSet(late) /\ Cardinality(late) \in Nat
  <2>1. late \subseteq Peers OBVIOUS
  <2> QED BY <2>1, FS_Subset, FS_CardinalityType, PeersAssumption
<1>10. Cardinality(Reached(clock, AgreedClock)) <= Cardinality(late)
  <2> HIDE DEF late
  <2> QED BY <1>8, <1>9, FS_Subset
<1>11. Cardinality(Reached(clock, AgreedClock)) \in Nat
  <2>1. IsFiniteSet(Reached(clock, AgreedClock)) BY <1>8, <1>9, FS_Subset
  <2> QED BY <2>1, FS_CardinalityType
<1>12. Cardinality(Reached(clock, AgreedClock)) >= 2 BY <1>5 DEF Agreed
<1>13. Cardinality(late) >= 2
  <2> HIDE DEF late
  <2> QED BY <1>9, <1>10, <1>11, <1>12
<1> QED BY <1>13

\* FinalizeReport and ExpireReport close a report only after its deadline on two
\* peers' clocks, however far the others are behind or ahead.
THEOREM ClosedOnTwo == FSpec => ClosedOnTwoClocks
<1>1. FInit => FInv BY FInitHolds
<1>2. FInv /\ [FNext]_fvars => FInv' BY FNextKeeps
<1>3. FInv /\ [FNext]_fvars => ClosedOnTwoClocksStep BY ClosingIsLate
<1> QED BY <1>1, <1>2, <1>3, PTL DEF FSpec, ClosedOnTwoClocks
=============================================================================
