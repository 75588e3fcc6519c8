-------------------------- MODULE ConsensusRefinement --------------------------
(* The chaincode implements the abstract consensus, for each of its reports: *)
(* the refinement mapping of one of them, whichever it is.                   *)
EXTENDS Misinformation

CONSTANT subject  \* the report that is looked at

BallotsOf(checks) ==
  [o \in Checkers(checks) |->
     LET i == CHOOSE k \in DOMAIN checks : checks[k].checker = o IN checks[i].outcome]

DecisionOf(record) ==
  CASE record.status = "ABSENT"   -> "absent"
    [] Open(record.status)        -> "open"
    [] record.status = "REJECTED" -> "rejected"
    [] record.status = "EXPIRED"  -> "expired"
    [] record.status = "FINAL"    ->
         IF record.label = "1" THEN "misinformation" ELSE "no_misinformation"

\* The ballot each organisation cast on it, and what was decided.
Ballots  == BallotsOf(report[subject].checks)
Decision == DecisionOf(report[subject])

Consensus == INSTANCE ReportConsensus
               WITH electorate <- registered, ballots <- Ballots, decision <- Decision

\* Seen on its own, a report is a run of the abstract consensus: whatever order
\* registrations, admissions and votes come in, SubmitFactCheck, FinalizeReport
\* and ExpireReport decide as ReportConsensus promises.
ImplementsConsensus == Consensus!CSpec
=============================================================================
