---------------------------- MODULE Misinformation ----------------------------
(***************************************************************************)
(* The chaincode blockchain/chaincode/misinformation/go/misinformation.go  *)
(* as a state machine over the committed world state.  One action is one   *)
(* committed transaction; how a transaction gets from its endorsement to   *)
(* its commit is the subject of module FabricTransactions.                 *)
(*                                                                         *)
(* Left out of the records, because no guard of the chaincode reads them:  *)
(* the content hash, the model's label, confidence and version, the        *)
(* submitter, FinalizedBy, FinalizedAt, the names of an admission request  *)
(* and the transaction ids.  FactChecks and Votes are slices of records in *)
(* the code and sequences of records here.                                 *)
(*                                                                         *)
(* Left out as well: a peer that cannot read its own state database.  Two  *)
(* reads go on without what they could not read (of an earlier record in   *)
(* Submit, of the organisations in SubmitFactCheck, which then decides     *)
(* nothing); the endorsement of such a peer differs from the others.       *)
(***************************************************************************)
EXTENDS Integers, Sequences, FiniteSets

CONSTANTS
  Orgs,        \* the MSP ids that may call the chaincode
  Candidates,  \* the MSP ids that call RequestOrgAdmission
  Reports,     \* the report ids
  Limits,      \* the arguments SetFoundingOrgLimit is called with
  Times,       \* the clock readings, 0 .. some bound
  Window       \* factCheckWindow, in units of the clock

ASSUME OrgsAssumption    == IsFiniteSet(Orgs) /\ Candidates \subseteq Orgs
ASSUME LimitsAssumption  == Limits \subseteq Int
ASSUME TimesAssumption   == Times \subseteq Nat /\ 0 \in Times
ASSUME WindowAssumption  == Window \in Nat

VARIABLES
  foundingOrgLimit,  \* the "cfg" key, read as defaultFoundingOrgLimit while unset
  registered,        \* the MSP ids that have an "org" key
  admission,         \* the "admission" key of each MSP id
  report,            \* the "pred" key of each report id
  now                \* time.Now() as the endorsing peers read it

vars == <<foundingOrgLimit, registered, admission, report, now>>

-----------------------------------------------------------------------------
(* Domains of the records. *)

Roles    == {"official", "fact_checker", "viewer"}
Outcomes == {"0", "1"}

\* Mutant: only final reports are refused.
Open_notFinal(status) == status \notin {"ABSENT", "FINAL"}
Open(status) == status \in {"PENDING", "UNDER_REVIEW"}
Closed(status) == status \in {"FINAL", "REJECTED", "EXPIRED"}

FactCheck == [checker : Orgs, outcome : Outcomes]
Vote      == [voter : Orgs, verdict : Outcomes]

ReportRecord ==
  [status   : {"ABSENT", "PENDING", "UNDER_REVIEW", "FINAL", "REJECTED", "EXPIRED"},
   checks   : Seq(FactCheck),
   label    : {"none"} \cup Outcomes,
   deadline : Nat]

OrgAdmissionRequest ==
  [status : {"ABSENT", "PENDING", "ADMITTED"}, votes : Seq(Vote)]

NoReport  == [status |-> "ABSENT", checks |-> <<>>, label |-> "none", deadline |-> 0]
NoRequest == [status |-> "ABSENT", votes |-> <<>>]

defaultFoundingOrgLimit == 3

-----------------------------------------------------------------------------
(* Counting votes. *)

\* Mutant: rounds down.
quorumFor_floor(n) == (2 * n) \div 3
\* quorumFor: what FinalizeOrgAdmission requires of n registered organisations.
quorumFor(n) == IF n < 1 THEN 0 ELSE (2 * n + 2) \div 3

\* Mutant: more than two thirds.
required_more(n) == (2 * n) \div 3 + 1
\* What SubmitFactCheck requires: ceil(2.0/3.0 * n).  The constant 2.0/3.0
\* rounds down, so for every n that fits an int the float ceiling is the exact one.
required(n) == -((-2 * n) \div 3)

Checkers(checks)  == {checks[i].checker : i \in DOMAIN checks}
tally(checks, o)  == Cardinality({i \in DOMAIN checks : checks[i].outcome = o})
remaining(orgs, checks) == Cardinality(orgs \ Checkers(checks))

Voters(votes)     == {votes[i].voter : i \in DOMAIN votes}
\* Mutant: counts every vote.
admitVotes_all(votes) == Len(votes)
admitVotes(votes) == Cardinality({i \in DOMAIN votes : votes[i].verdict = "1"})

\* Mutant: the last vote is not looked at.
hasChecked_butLast(checker, checks) == \E i \in 1 .. Len(checks) - 1 : checks[i].checker = checker
hasChecked(checker, checks) == checker \in Checkers(checks)

\* Mutant: one check is enough.
enoughChecks_one(checks) == Len(checks) >= 1
enoughChecks(checks) == Len(checks) >= 2

\* Mutant: at the deadline is past it.
isPastDeadline_at(r) == now >= report[r].deadline
isPastDeadline(r) == now > report[r].deadline

\* The status a vote leaves the report in, for the checks that include it.
StatusAfterVote(orgs, checks) ==
  LET needed == required(Cardinality(orgs)) IN
    IF tally(checks, "1") >= needed THEN "FINAL"
    ELSE IF tally(checks, "1") + remaining(orgs, checks) < needed THEN "REJECTED"
    ELSE "UNDER_REVIEW"

\* The record with one more check on it and, when that check decides, closed.
AfterFactCheck(record, orgs, check) ==
  LET checks == Append(record.checks, check)
      status == StatusAfterVote(orgs, checks)
  IN  [status   |-> status,
       checks   |-> checks,
       label    |-> IF status = "FINAL" THEN "1" ELSE record.label,
       deadline |-> record.deadline]

\* Mutant: a tie has two winners.
Winner_tied(checks, o) == \A p \in Outcomes \ {o} : tally(checks, o) >= tally(checks, p)
\* A tally without a tie has a winner.
Winner(checks, o) == \A p \in Outcomes \ {o} : tally(checks, o) > tally(checks, p)

-----------------------------------------------------------------------------
Init ==
  /\ foundingOrgLimit = defaultFoundingOrgLimit
  /\ registered = {}
  /\ admission = [o \in Orgs |-> NoRequest]
  /\ report = [r \in Reports |-> NoReport]
  /\ now = 0

\* Mutant: the members are not looked at.
foundingNotStarted_ignored == TRUE
foundingNotStarted == registered = {}

validLimit(limit) == limit >= 1

\* The caller need not be registered: there is no registered organisation yet.
maySetFoundingOrgLimit(role, limit) ==
  role = "official" /\ foundingNotStarted /\ validLimit(limit)

SetFoundingOrgLimit(role, limit) ==
  /\ maySetFoundingOrgLimit(role, limit)
  /\ foundingOrgLimit' = limit
  /\ UNCHANGED <<registered, admission, report, now>>

\* Any identity of the organisation may call it, whatever its role; a second
\* call changes nothing.
mayRegisterOrg(org) ==
  org \notin registered /\ Cardinality(registered) < foundingOrgLimit

RegisterOrg(org) ==
  \/ /\ org \in registered
     /\ UNCHANGED vars
  \/ /\ mayRegisterOrg(org)
     /\ registered' = registered \cup {org}
     /\ UNCHANGED <<foundingOrgLimit, admission, report, now>>

NewRequest == [status |-> "PENDING", votes |-> <<>>]

\* Replaces a request that is no longer pending.
mayRequestOrgAdmission(candidate) ==
  candidate \notin registered /\ admission[candidate].status # "PENDING"

RequestOrgAdmission(candidate) ==
  /\ mayRequestOrgAdmission(candidate)
  /\ admission' = [admission EXCEPT ![candidate] = NewRequest]
  /\ UNCHANGED <<foundingOrgLimit, registered, report, now>>

mayVoteOnOrgAdmission(voter, role, candidate) ==
  /\ voter \in registered
  /\ role = "official"
  /\ voter # candidate
  /\ admission[candidate].status = "PENDING"
  /\ voter \notin Voters(admission[candidate].votes)

AfterVote(request, vote) == [request EXCEPT !.votes = Append(@, vote)]

VoteOnOrgAdmission(voter, role, candidate, verdict) ==
  /\ mayVoteOnOrgAdmission(voter, role, candidate)
  /\ admission' = [admission EXCEPT ![candidate] =
                     AfterVote(@, [voter |-> voter, verdict |-> verdict])]
  /\ UNCHANGED <<foundingOrgLimit, registered, report, now>>

mayFinalizeOrgAdmission(finalizer, role, candidate) ==
  /\ finalizer \in registered
  /\ role = "official"
  /\ admission[candidate].status = "PENDING"
  /\ admitVotes(admission[candidate].votes) >= quorumFor(Cardinality(registered))

FinalizeOrgAdmission(finalizer, role, candidate) ==
  /\ mayFinalizeOrgAdmission(finalizer, role, candidate)
  /\ admission' = [admission EXCEPT ![candidate].status = "ADMITTED"]
  /\ registered' = registered \cup {candidate}
  /\ UNCHANGED <<foundingOrgLimit, report, now>>

maySubmit(org, role, r) ==
  /\ org \in registered
  /\ role \in {"official", "fact_checker"}
  /\ report[r].status = "ABSENT"

\* The deadline counts from the transaction's timestamp, which the client sets.
NewReport(timestamp) ==
  [status |-> "PENDING", checks |-> <<>>, label |-> "none", deadline |-> timestamp + Window]

Submit(org, role, r, timestamp) ==
  /\ maySubmit(org, role, r)
  /\ report' = [report EXCEPT ![r] = NewReport(timestamp)]
  /\ UNCHANGED <<foundingOrgLimit, registered, admission, now>>

\* No deadline is looked at: an open report accepts a vote at any time.
maySubmitFactCheck(checker, role, r) ==
  /\ checker \in registered
  /\ role \in {"official", "fact_checker"}
  /\ Open(report[r].status)
  /\ ~hasChecked(checker, report[r].checks)

SubmitFactCheck(checker, role, r, outcome) ==
  /\ maySubmitFactCheck(checker, role, r)
  /\ report' = [report EXCEPT ![r] =
                  AfterFactCheck(@, registered, [checker |-> checker, outcome |-> outcome])]
  /\ UNCHANGED <<foundingOrgLimit, registered, admission, now>>

mayFinalizeReport(finalizer, role, r) ==
  /\ finalizer \in registered
  /\ role = "official"
  /\ Open(report[r].status)
  /\ isPastDeadline(r)
  /\ enoughChecks(report[r].checks)

FinalizeReport(finalizer, role, r) ==
  /\ mayFinalizeReport(finalizer, role, r)
  /\ \E winner \in Outcomes :
       /\ Winner(report[r].checks, winner)
       /\ report' = [report EXCEPT ![r] = [@ EXCEPT !.label = winner, !.status = "FINAL"]]
  /\ UNCHANGED <<foundingOrgLimit, registered, admission, now>>

mayExpireReport(finalizer, role, r) ==
  /\ finalizer \in registered
  /\ role = "official"
  /\ Open(report[r].status)
  /\ isPastDeadline(r)

ExpireReport(finalizer, role, r) ==
  /\ mayExpireReport(finalizer, role, r)
  /\ report' = [report EXCEPT ![r].status = "EXPIRED"]
  /\ UNCHANGED <<foundingOrgLimit, registered, admission, now>>

\* The clock, bounded by Times.
Tick ==
  /\ now + 1 \in Times
  /\ now' = now + 1
  /\ UNCHANGED <<foundingOrgLimit, registered, admission, report>>

MembershipStep ==
  \E org \in Orgs, role \in Roles :
    \/ \E limit \in Limits : SetFoundingOrgLimit(role, limit)
    \/ RegisterOrg(org)
    \/ org \in Candidates /\ RequestOrgAdmission(org)
    \/ \E c \in Orgs, v \in Outcomes : VoteOnOrgAdmission(org, role, c, v)
    \/ \E c \in Orgs : FinalizeOrgAdmission(org, role, c)

ReportStep ==
  \E org \in Orgs, role \in Roles, r \in Reports :
    \/ \E ts \in Times : Submit(org, role, r, ts)
    \/ \E o \in Outcomes : SubmitFactCheck(org, role, r, o)
    \/ FinalizeReport(org, role, r)
    \/ ExpireReport(org, role, r)

Next == MembershipStep \/ ReportStep \/ Tick

Spec == Init /\ [][Next]_vars

-----------------------------------------------------------------------------
(* Properties. *)

\* Every key of the world state holds a well-formed record.
TypeOK ==
  /\ foundingOrgLimit \in Nat \ {0}
  /\ registered \subseteq Orgs
  /\ admission \in [Orgs -> OrgAdmissionRequest]
  /\ report \in [Reports -> ReportRecord]
  /\ now \in Times

\* The checks on a report come from different organisations, all of them
\* registered, so a tally counts organisations and not calls.  Guards against a
\* vote entered twice by a retry of SubmitFactCheck.
OneVotePerOrg ==
  \A r \in Reports :
    /\ Len(report[r].checks) = Cardinality(Checkers(report[r].checks))
    /\ Checkers(report[r].checks) \subseteq registered

\* SubmitFactCheck evaluates the early decision only when a vote arrives, with
\* the membership of that moment.  Even so no report is left open that today's
\* members have already decided, or that they could not accept any more:
\* whatever RegisterOrg and FinalizeOrgAdmission did to the membership since.
OpenReportUndecided ==
  \A r \in Reports : Open(report[r].status) =>
    LET n == Cardinality(registered)  checks == report[r].checks IN
      /\ 3 * tally(checks, "1") < 2 * n
      /\ 3 * (tally(checks, "1") + remaining(registered, checks)) >= 2 * n

\* An open report is never stuck for want of voters: when every registered
\* organisation has voted, the last vote has closed it (no tie of all members).
OpenReportHasVoter ==
  \A r \in Reports :
    Open(report[r].status) => registered \ Checkers(report[r].checks) # {}

\* A final label is the strict majority of the votes on the record, whether the
\* early acceptance or FinalizeReport set it, and the label "1" never stands
\* on a record with a majority of "0".
LabelIsMajority ==
  \A r \in Reports : report[r].status = "FINAL" =>
    \/ report[r].label = "1" /\ tally(report[r].checks, "1") > tally(report[r].checks, "0")
    \/ report[r].label = "0" /\ tally(report[r].checks, "0") > tally(report[r].checks, "1")

\* A rejected report lacks a two-thirds majority of the votes cast for "1", and
\* carries no label.
RejectedLacksTwoThirds ==
  \A r \in Reports : report[r].status = "REJECTED" =>
    /\ 2 * tally(report[r].checks, "0") > tally(report[r].checks, "1")
    /\ report[r].label = "none"

\* At most foundingOrgLimit organisations are members without having been
\* admitted by a vote: SetFoundingOrgLimit, RegisterOrg and FinalizeOrgAdmission
\* together, in any order.
FoundersWithinLimit ==
  Cardinality({o \in registered : admission[o].status # "ADMITTED"}) <= foundingOrgLimit

\* Whoever was admitted was admitted by somebody else: an admitted organisation
\* is a member and another member's admit vote is on its request.
AdmittedHasSponsor ==
  \A o \in Orgs : admission[o].status = "ADMITTED" =>
    /\ o \in registered
    /\ \E i \in DOMAIN admission[o].votes :
         /\ admission[o].votes[i].verdict = "1"
         /\ admission[o].votes[i].voter \in registered \ {o}

\* Membership only grows, one organisation at a time: either while the founding
\* is open or by the admit votes of two thirds of the members of that moment.
GrowthStep ==
  registered' # registered =>
    \E o \in Orgs \ registered :
      /\ registered' = registered \cup {o}
      /\ \/ Cardinality(registered) < foundingOrgLimit
         \/ LET admitters == {v \in registered : \E i \in DOMAIN admission[o].votes :
                                 admission[o].votes[i] = [voter |-> v, verdict |-> "1"]}
            IN  3 * Cardinality(admitters) >= 2 * Cardinality(registered)
MembershipGrowsByRule == [][GrowthStep]_vars

\* Until its deadline a report is closed by two thirds of the members only:
\* accepted with the label "1" by two thirds, or rejected when more than a third
\* voted "0".
EarlyCloseStep ==
  \A r \in Reports :
    Open(report[r].status) /\ Closed(report'[r].status) /\ now <= report[r].deadline =>
      LET n == Cardinality(registered)  checks == report'[r].checks IN
        \/ /\ report'[r].status = "FINAL" /\ report'[r].label = "1"
           /\ 3 * tally(checks, "1") >= 2 * n
        \/ /\ report'[r].status = "REJECTED"
           /\ 3 * tally(checks, "0") > n
EarlyCloseNeedsTwoThirds == [][EarlyCloseStep]_vars

\* A closed report never changes again, a submitted one never disappears, and
\* an open one only ever gains one vote at a time at the end of its checks.
RecordStep ==
  \A r \in Reports : report'[r] # report[r] =>
    /\ ~Closed(report[r].status)
    /\ report'[r].status # "ABSENT"
    /\ Len(report'[r].checks) <= Len(report[r].checks) + 1
    /\ report[r].checks = SubSeq(report'[r].checks, 1, Len(report[r].checks))
    /\ report[r].status # "ABSENT" => report'[r].deadline = report[r].deadline
RecordIsAppendOnly == [][RecordStep]_vars

\* "With two or more registered orgs the 2/3 quorum is at least 2, so it never
\* decides alone", says the comment in SubmitFactCheck: a vote that closes a
\* report is then one of at least two.  It does not hold: of exactly two
\* organisations, the first to vote "0" rejects the report alone.
NeverDecidesAloneStep ==
  \A r \in Reports :
    /\ Cardinality(registered) >= 2
    /\ report'[r].checks # report[r].checks
    /\ Closed(report'[r].status)
    => Len(report'[r].checks) >= 2
NeverDecidesAlone == [][NeverDecidesAloneStep]_vars
=============================================================================
