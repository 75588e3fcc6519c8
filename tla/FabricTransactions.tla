-------------------------- MODULE FabricTransactions --------------------------
(***************************************************************************)
(* The chaincode as Fabric runs it.  A call is endorsed (simulated against *)
(* the committed world state, recording the keys it read and the values it *)
(* would write), sent to the orderer, and validated when its block is      *)
(* committed: it takes effect only if no key it read, and no key of a      *)
(* range it scanned, was written since it was endorsed.  Between the two   *)
(* steps any number of other calls commit; a call whose caller gave up     *)
(* waiting (the 60 s of the sidecar) is still under way.                   *)
(*                                                                         *)
(* Endorsement, ordering and validation are Fabric's, modelled from how    *)
(* the chaincode and apps/fabric_gateway/src/server.js use them; what each *)
(* call reads and writes is the chaincode's.                               *)
(***************************************************************************)
EXTENDS Integers, Sequences, FiniteSets

CONSTANTS
  Orgs, Candidates, Reports, Limits, Times, Window,  \* as in Misinformation
  Peers,    \* the endorsing peers, each with a clock of its own
  Calls     \* the calls that can be under way at a time

ASSUME PeersAssumption  == IsFiniteSet(Peers) /\ Cardinality(Peers) >= 2
ASSUME ClocksAssumption == Times \subseteq Nat /\ 0 \in Times /\ Window \in Nat

VARIABLES
  foundingOrgLimit, registered, admission, report,  \* the committed world state
  clock,    \* clock[p]: time.Now() on peer p
  underway  \* underway[c]: the endorsed transaction of call c, or Idle

world == <<foundingOrgLimit, registered, admission, report>>
fvars == <<foundingOrgLimit, registered, admission, report, clock, underway>>

-----------------------------------------------------------------------------
(* The endorsement policy is OutOf(2, ...).  FinalizeReport and ExpireReport *)
(* read the clock of the endorsing peer, so two peers have to agree that the *)
(* deadline has passed.                                                      *)

\* Mutant: any one peer endorses.
endorsements_one == 1
endorsements == 2

\* The latest time that enough peers have reached.
AgreedClock ==
  CHOOSE t \in Times :
    /\ Cardinality({p \in Peers : clock[p] >= t}) >= endorsements
    /\ \A u \in Times : u > t => Cardinality({p \in Peers : clock[p] >= u}) < endorsements

Chaincode == INSTANCE Misinformation WITH now <- AgreedClock

-----------------------------------------------------------------------------
(* Keys, and the transactions that read and write them. *)

OrgKey(o)       == <<"org", o>>
AdmissionKey(o) == <<"admission", o>>
ReportKey(r)    == <<"pred", r>>
LimitKey        == <<"cfg", "foundingOrgLimit">>
OrgRange        == <<"range", "org">>   \* the scan of getRegisteredOrgs

Idle == [phase |-> "idle"]

\* A transaction that has read keys and writes nothing yet.
Reading(keys) ==
  [phase |-> "endorsed", reads |-> keys, stale |-> FALSE,
   limit |-> {}, orgs |-> {}, adm |-> << >>, rep |-> << >>]

One(key, value) == [k \in {key} |-> value]
Written(f, writes) == [k \in DOMAIN f |-> IF k \in DOMAIN writes THEN writes[k] ELSE f[k]]

\* The keys a transaction writes; a write of an org key also changes the range.
WrittenKeys(tx) ==
  {LimitKey : x \in tx.limit} \cup {OrgKey(o) : o \in tx.orgs} \cup {OrgRange : o \in tx.orgs}
  \cup {AdmissionKey(o) : o \in DOMAIN tx.adm} \cup {ReportKey(r) : r \in DOMAIN tx.rep}

-----------------------------------------------------------------------------
(* What each function of the chaincode reads. *)

SetLimitReads            == {OrgRange}
RegisterReads(o)         == {OrgKey(o), OrgRange, LimitKey}
AdmissionReads(o, c)     == {OrgKey(o), AdmissionKey(c)}
FinalizeAdmissionReads(o, c) == {OrgKey(o), AdmissionKey(c), OrgRange}
\* Mutant: the record is written blindly.
ReportReads_blind(o, r)  == {OrgKey(o)}
ReportReads(o, r)        == {OrgKey(o), ReportKey(r)}
\* Mutant: the members are counted without the scan being validated.
FactCheckReads_noScan(o, r) == {OrgKey(o), ReportKey(r)}
FactCheckReads(o, r)     == {OrgKey(o), ReportKey(r), OrgRange}

-----------------------------------------------------------------------------
(* Endorsement: the guards of the chaincode, the keys read, the values written. *)

Send(call, tx) ==
  /\ underway[call] = Idle
  /\ underway' = [underway EXCEPT ![call] = tx]
  /\ UNCHANGED <<world, clock>>

EndorseSetLimit(call, role, limit) ==
  /\ Chaincode!maySetFoundingOrgLimit(role, limit)
  /\ Send(call, [Reading(SetLimitReads) EXCEPT !.limit = {limit}])

\* A member's second registration reads its key and writes nothing.
EndorseRegister(call, org) ==
  \/ /\ org \in registered
     /\ Send(call, Reading({OrgKey(org)}))
  \/ /\ Chaincode!mayRegisterOrg(org)
     /\ Send(call, [Reading(RegisterReads(org)) EXCEPT !.orgs = {org}])

EndorseRequest(call, org) ==
  /\ Chaincode!mayRequestOrgAdmission(org)
  /\ Send(call, [Reading(AdmissionReads(org, org)) EXCEPT
                   !.adm = One(org, Chaincode!NewRequest)])

EndorseVote(call, org, role, c, verdict) ==
  LET vote == [voter |-> org, verdict |-> verdict] IN
    /\ Chaincode!mayVoteOnOrgAdmission(org, role, c)
    /\ Send(call, [Reading(AdmissionReads(org, c)) EXCEPT
                     !.adm = One(c, Chaincode!AfterVote(admission[c], vote))])

EndorseFinalizeAdmission(call, org, role, c) ==
  /\ Chaincode!mayFinalizeOrgAdmission(org, role, c)
  /\ Send(call, [Reading(FinalizeAdmissionReads(org, c)) EXCEPT
                   !.orgs = {c},
                   !.adm = One(c, [admission[c] EXCEPT !.status = "ADMITTED"])])

EndorseSubmit(call, org, role, r, timestamp) ==
  /\ Chaincode!maySubmit(org, role, r)
  /\ Send(call, [Reading(ReportReads(org, r)) EXCEPT
                   !.rep = One(r, Chaincode!NewReport(timestamp))])

EndorseFactCheck(call, org, role, r, outcome) ==
  LET check == [checker |-> org, outcome |-> outcome] IN
    /\ Chaincode!maySubmitFactCheck(org, role, r)
    /\ Send(call, [Reading(FactCheckReads(org, r)) EXCEPT
                     !.rep = One(r, Chaincode!AfterFactCheck(report[r], registered, check))])

EndorseFinalize(call, org, role, r) ==
  /\ Chaincode!mayFinalizeReport(org, role, r)
  /\ \E winner \in Chaincode!Outcomes :
       /\ Chaincode!Winner(report[r].checks, winner)
       /\ Send(call, [Reading(ReportReads(org, r)) EXCEPT
                        !.rep = One(r, [report[r] EXCEPT !.label = winner, !.status = "FINAL"])])

EndorseExpire(call, org, role, r) ==
  /\ Chaincode!mayExpireReport(org, role, r)
  /\ Send(call, [Reading(ReportReads(org, r)) EXCEPT
                   !.rep = One(r, [report[r] EXCEPT !.status = "EXPIRED"])])

EndorseMembership(call) ==
  \E org \in Orgs, role \in Chaincode!Roles :
    \/ \E limit \in Limits : EndorseSetLimit(call, role, limit)
    \/ EndorseRegister(call, org)
    \/ org \in Candidates /\ EndorseRequest(call, org)
    \/ \E c \in Orgs, v \in Chaincode!Outcomes : EndorseVote(call, org, role, c, v)
    \/ \E c \in Orgs : EndorseFinalizeAdmission(call, org, role, c)

EndorseReport(call) ==
  \E org \in Orgs, role \in Chaincode!Roles, r \in Reports :
    \/ \E ts \in Times : EndorseSubmit(call, org, role, r, ts)
    \/ \E o \in Chaincode!Outcomes : EndorseFactCheck(call, org, role, r, o)
    \/ EndorseFinalize(call, org, role, r)
    \/ EndorseExpire(call, org, role, r)

-----------------------------------------------------------------------------
(* Ordering and validation. *)

\* The transactions still under way, marked stale when they read a key of tx's.
AfterCommit(call, tx) ==
  [d \in Calls |->
     IF d = call \/ underway[d] = Idle THEN (IF d = call THEN Idle ELSE underway[d])
     ELSE [underway[d] EXCEPT !.stale = @ \/ underway[d].reads \cap WrittenKeys(tx) # {}]]

\* The orderer delivers the transaction and every peer finds its reads current.
Commit(call) ==
  LET tx == underway[call] IN
    /\ tx # Idle
    /\ ~tx.stale
    /\ foundingOrgLimit' = IF tx.limit = {} THEN foundingOrgLimit ELSE CHOOSE l \in tx.limit : TRUE
    /\ registered' = registered \cup tx.orgs
    /\ admission' = Written(admission, tx.adm)
    /\ report' = Written(report, tx.rep)
    /\ underway' = AfterCommit(call, tx)
    /\ UNCHANGED clock

\* A stale transaction is marked invalid in its block; another is never sent to
\* the orderer (its caller crashed, or the orderer was not reached).
Discard(call) ==
  /\ underway[call] # Idle
  /\ underway' = [underway EXCEPT ![call] = Idle]
  /\ UNCHANGED <<world, clock>>

PeerTick(p) ==
  /\ clock[p] + 1 \in Times
  /\ clock' = [clock EXCEPT ![p] = @ + 1]
  /\ UNCHANGED <<world, underway>>

-----------------------------------------------------------------------------
FInit ==
  /\ foundingOrgLimit = Chaincode!defaultFoundingOrgLimit
  /\ registered = {}
  /\ admission = [o \in Orgs |-> Chaincode!NoRequest]
  /\ report = [r \in Reports |-> Chaincode!NoReport]
  /\ clock = [p \in Peers |-> 0]
  /\ underway = [c \in Calls |-> Idle]

FNext ==
  \/ \E c \in Calls : EndorseMembership(c) \/ EndorseReport(c) \/ Commit(c) \/ Discard(c)
  \/ \E p \in Peers : PeerTick(p)

FSpec == FInit /\ [][FNext]_fvars

-----------------------------------------------------------------------------
(* Properties. *)

\* A transaction that validation would accept still fits the record it writes:
\* the record is open, or not there yet, and has exactly the checks the call saw.
\* This is what keeps a vote, or a closure, that committed meanwhile from being
\* overwritten by a call that was endorsed before it.
AcceptedWritesFit ==
  \A c \in Calls : underway[c] # Idle =>
    \A r \in DOMAIN underway[c].rep :
      LET old == report[r]  new == underway[c].rep[r] IN
        ~underway[c].stale =>
          /\ ~Chaincode!Closed(old.status)
          /\ old.checks = SubSeq(new.checks, 1, Len(old.checks))
          /\ Len(new.checks) <= Len(old.checks) + 1

\* The keys a call reads are all it depends on: whatever commits between the
\* endorsement of a call and its own commit, a commit is one step of the
\* chaincode on the state of that moment, so calls under way at the same time
\* behave as if they had run one after the other.
ImplementsChaincode == Chaincode!Spec

\* A report that is closed without a vote, by FinalizeReport or ExpireReport, is
\* past its deadline on the clocks of two peers: no peer whose clock runs ahead
\* shortens a window on its own.
ClosedOnTwoClocksStep ==
  \A r \in Reports :
    /\ Chaincode!Open(report[r].status)
    /\ Chaincode!Closed(report'[r].status)
    /\ report'[r].checks = report[r].checks
    => Cardinality({p \in Peers : clock[p] > report[r].deadline}) >= 2
ClosedOnTwoClocks == [][ClosedOnTwoClocksStep]_fvars
=============================================================================
