------------------------------ MODULE MockLedger ------------------------------
(***************************************************************************)
(* The stand-in for the chaincode of the demo mode (src/mock_ledger.py):   *)
(* dictionaries in memory, changed under one lock, and a file that each    *)
(* write replaces.  A call that cannot write the file raises after memory  *)
(* was changed; a crash loses what is in memory.                           *)
(*                                                                         *)
(* "Keep the rules here in step with the chaincode": the rules below are   *)
(* this file's own, and MirrorsChaincode compares them with those of       *)
(* module Misinformation.                                                  *)
(***************************************************************************)
EXTENDS Integers, Sequences, FiniteSets

CONSTANTS
  MockOrgs,     \* the MSP ids
  ORGS,         \* those the gateway is configured with
  MockReports,  \* the report ids
  StatePath,    \* whether MOCK_LEDGER_STATE is set
  window,       \* MOCK_FACT_CHECK_WINDOW_S
  MaxMockTime,  \* bounds of the model: the clock, and how many writes of the file
  MaxMockFaults \* fail and crashes there are

ASSUME MockAssumption ==
  IsFiniteSet(MockOrgs) /\ ORGS \subseteq MockOrgs /\ window \in Nat /\ MaxMockTime \in Nat

VARIABLES
  memory,     \* the orgs, reports and admissions of the object
  history,    \* its history: the records each report has had
  disk,       \* what the state file holds of the same
  mockNow,    \* _now()
  mockFaults, \* how often the file could not be written or the process died
  confirmed   \* history: the votes whose calls returned to their callers

kvars == <<memory, history, disk, mockNow, mockFaults, confirmed>>

NoMockReport    == [status |-> "ABSENT", checks |-> <<>>, label |-> "none", deadline |-> 0]
NoAdmission     == [status |-> "ABSENT", votes |-> <<>>]
OPEN_STATUSES   == {"PENDING", "UNDER_REVIEW"}
MockRoles       == {"official", "fact_checker"}
MockOutcomes    == {"0", "1"}

Empty == [orgs |-> {}, reports |-> [r \in MockReports |-> NoMockReport],
          admissions |-> [o \in MockOrgs |-> NoAdmission]]
NoHistory == [r \in MockReports |-> <<>>]

\* The rules of the object's queries and guards, over what it holds.
quorum_for(n) == IF n > 0 THEN (2 * n + 2) \div 3 ELSE 0
Count(checks, outcome) == Cardinality({i \in DOMAIN checks : checks[i].outcome = outcome})
CheckedBy(checks) == {checks[i].checker : i \in DOMAIN checks}
past_deadline(record) == mockNow > record.deadline
Registered(msp) == msp \in memory.orgs

Record(r) == memory.reports[r]
IsOpen(r) == Record(r).status \in OPEN_STATUSES

KInit ==
  /\ memory = [Empty EXCEPT !.orgs = ORGS]
  /\ history = NoHistory
  /\ disk = [data |-> IF StatePath THEN memory ELSE Empty, history |-> NoHistory]
  /\ mockNow = 0
  /\ mockFaults = 0
  /\ confirmed = {}

Fault == mockFaults < MaxMockFaults /\ mockFaults' = mockFaults + 1

\* Mutant: a write that fails is taken for done.
Saves_unnoticed(votes) ==
  \/ /\ disk' = IF StatePath THEN [data |-> memory', history |-> history'] ELSE disk
     /\ confirmed' = confirmed \cup votes
     /\ UNCHANGED mockFaults
  \/ /\ StatePath /\ Fault
     /\ confirmed' = confirmed \cup votes
     /\ UNCHANGED disk
\* _save: all of it to another file, which then takes the place of the first; or it
\* raises, and the caller gets an error for what memory holds by then.
Saves(votes) ==
  \/ /\ disk' = IF StatePath THEN [data |-> memory', history |-> history'] ELSE disk
     /\ confirmed' = confirmed \cup votes
     /\ UNCHANGED mockFaults
  \/ /\ StatePath /\ Fault
     /\ UNCHANGED <<disk, confirmed>>

\* _write.
Writes(r, record, votes) ==
  /\ memory' = [memory EXCEPT !.reports[r] = record]
  /\ history' = [history EXCEPT ![r] = Append(@, record)]
  /\ Saves(votes)
  /\ UNCHANGED mockNow

MockSubmit(msp, r) ==
  /\ Registered(msp)
  /\ Record(r).status = "ABSENT"
  /\ Writes(r, [status |-> "PENDING", checks |-> <<>>, label |-> "none",
                deadline |-> mockNow + window], {})

\* Mutant: the voters that remain are not counted.
Decided_acceptOnly(record, orgs) ==
  IF Count(record.checks, "1") >= quorum_for(Cardinality(orgs))
    THEN [record EXCEPT !.status = "FINAL", !.label = "1"]
    ELSE [record EXCEPT !.status = "UNDER_REVIEW"]
Decided(record, orgs) ==
  LET required == quorum_for(Cardinality(orgs))
      yes      == Count(record.checks, "1")
  IN  IF yes >= required THEN [record EXCEPT !.status = "FINAL", !.label = "1"]
      ELSE IF yes + Cardinality(orgs \ CheckedBy(record.checks)) < required
        THEN [record EXCEPT !.status = "REJECTED"]
        ELSE [record EXCEPT !.status = "UNDER_REVIEW"]

MockFactCheck(msp, r, outcome) ==
  /\ Registered(msp)
  /\ IsOpen(r)
  /\ msp \notin CheckedBy(Record(r).checks)
  /\ LET voted == [Record(r) EXCEPT !.checks = Append(@, [checker |-> msp, outcome |-> outcome])]
     IN  Writes(r, Decided(voted, memory.orgs), {<<r, msp, outcome>>})

MockFinalize(msp, role, r) ==
  /\ Registered(msp) /\ role = "official"
  /\ IsOpen(r) /\ past_deadline(Record(r))
  /\ LET checks == Record(r).checks  yes == Count(checks, "1")  no == Len(checks) - yes IN
       /\ Len(checks) >= 2
       /\ yes # no
       /\ Writes(r, [Record(r) EXCEPT !.status = "FINAL", !.label = IF yes > no THEN "1" ELSE "0"], {})

MockExpire(msp, role, r) ==
  /\ Registered(msp) /\ role = "official"
  /\ IsOpen(r) /\ past_deadline(Record(r))
  /\ Writes(r, [Record(r) EXCEPT !.status = "EXPIRED"], {})

MockAdmission(candidate) == memory.admissions[candidate]

SavesAdmission(candidate, request) ==
  /\ memory' = [memory EXCEPT !.admissions[candidate] = request,
                              !.orgs = IF request.status = "ADMITTED" THEN @ \cup {candidate} ELSE @]
  /\ UNCHANGED <<history, mockNow>>
  /\ Saves({})

MockRequestAdmission(msp) ==
  /\ ~Registered(msp)
  /\ MockAdmission(msp).status # "PENDING"
  /\ SavesAdmission(msp, [status |-> "PENDING", votes |-> <<>>])

MockVoteOnAdmission(msp, role, candidate, verdict) ==
  /\ Registered(msp) /\ role = "official"
  /\ msp # candidate
  /\ LET request == MockAdmission(candidate) IN
       /\ request.status = "PENDING"
       /\ \A i \in DOMAIN request.votes : request.votes[i].voter # msp
       /\ SavesAdmission(candidate,
            [request EXCEPT !.votes = Append(@, [voter |-> msp, verdict |-> verdict])])

MockFinalizeAdmission(msp, role, candidate) ==
  /\ Registered(msp) /\ role = "official"
  /\ LET request == MockAdmission(candidate)
         admits  == {i \in DOMAIN request.votes : request.votes[i].verdict = "1"}
     IN  /\ request.status = "PENDING"
         /\ Cardinality(admits) >= quorum_for(Cardinality(memory.orgs))
         /\ SavesAdmission(candidate, [request EXCEPT !.status = "ADMITTED"])

\* The process dies, between two calls or before one returns, and starts again:
\* __init__ loads the file, if there is one, and registers the configured orgs.
MockRestart ==
  /\ Fault
  /\ LET loaded == IF StatePath THEN disk ELSE [data |-> Empty, history |-> NoHistory] IN
       /\ memory' = [loaded.data EXCEPT !.orgs = @ \cup ORGS]
       /\ history' = loaded.history
  /\ disk' = IF StatePath THEN [data |-> memory', history |-> history'] ELSE disk
  /\ UNCHANGED <<mockNow, confirmed>>

MockElapses ==
  /\ mockNow < MaxMockTime
  /\ mockNow' = mockNow + 1
  /\ UNCHANGED <<memory, history, disk, mockFaults, confirmed>>

KCalls ==
  \E msp \in MockOrgs :
    \/ \E r \in MockReports : MockSubmit(msp, r)
    \/ \E r \in MockReports, outcome \in MockOutcomes : MockFactCheck(msp, r, outcome)
    \/ \E r \in MockReports, role \in MockRoles : MockFinalize(msp, role, r) \/ MockExpire(msp, role, r)
    \/ MockRequestAdmission(msp)
    \/ \E c \in MockOrgs, role \in MockRoles, v \in MockOutcomes : MockVoteOnAdmission(msp, role, c, v)
    \/ \E c \in MockOrgs, role \in MockRoles : MockFinalizeAdmission(msp, role, c)

KNext == KCalls \/ MockRestart \/ MockElapses

KSpec == KInit /\ [][KNext]_kvars

-----------------------------------------------------------------------------
(* Properties. *)

Chaincode == INSTANCE Misinformation
  WITH Orgs <- MockOrgs, Candidates <- MockOrgs, Reports <- MockReports,
       Limits <- {Cardinality(ORGS)}, Times <- 0..MaxMockTime, Window <- window,
       foundingOrgLimit <- Cardinality(ORGS), registered <- memory.orgs,
       admission <- memory.admissions, report <- memory.reports, now <- mockNow

\* "It mirrors the consensus and ABAC rules of misinformation.go": what a call does
\* to the object, whether or not it can be written to the file, is a step of the
\* chaincode.  A restart is not: it may bring back an older state.
MirrorsChaincode == [][MockRestart \/ Chaincode!Next]_<<memory, mockNow>>

\* Every record of the object, its history and its file is well formed, and a report
\* nobody submitted has no checks.
MockRecord ==
  [status : {"ABSENT", "PENDING", "UNDER_REVIEW", "FINAL", "REJECTED", "EXPIRED"},
   checks : Seq([checker : MockOrgs, outcome : MockOutcomes]),
   label : {"none"} \cup MockOutcomes, deadline : Nat]
MockLedgerData ==
  [orgs : SUBSET MockOrgs,
   reports : [MockReports -> {x \in MockRecord : x.status = "ABSENT" => x.checks = <<>>}],
   admissions : [MockOrgs -> [status : {"ABSENT", "PENDING", "ADMITTED"},
                              votes : Seq([voter : MockOrgs, verdict : MockOutcomes])]]]
KTypeOK ==
  /\ memory \in MockLedgerData
  /\ history \in [MockReports -> Seq(MockRecord)]
  /\ disk \in [data : MockLedgerData, history : [MockReports -> Seq(MockRecord)]]
  /\ mockNow \in 0..MaxMockTime
  /\ confirmed \subseteq MockReports \X MockOrgs \X MockOutcomes

\* A vote whose call returned stands for ever, in memory and in the file, through
\* calls that could not be written and restarts: as long as there is a file.
ConfirmedVotesStand ==
  StatePath =>
    \A vote \in confirmed : \A data \in {memory, disk.data} :
      \E i \in DOMAIN data.reports[vote[1]].checks :
        data.reports[vote[1]].checks[i] = [checker |-> vote[2], outcome |-> vote[3]]
=============================================================================
