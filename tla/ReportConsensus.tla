---------------------------- MODULE ReportConsensus ----------------------------
(***************************************************************************)
(* What the consortium promises about ONE report, without keys, roles,     *)
(* clocks or slices: a growing electorate casts ballots, one for each      *)
(* organisation, and the report is decided once.  A vote that settles  *)
(* the question closes the report in the same step; "settles" is stated by *)
(* looking at every way the missing ballots could still be cast.           *)
(***************************************************************************)
EXTENDS Integers, FiniteSets

CONSTANTS Orgs, Outcomes

VARIABLES
  electorate,  \* the organisations that may vote
  ballots,     \* a function from the organisations that voted to their outcome
  decision     \* "absent", "open", or what was decided

cvars == <<electorate, ballots, decision>>

Count(b, o) == Cardinality({v \in DOMAIN b : b[v] = o})

\* Two thirds of E vote "1" in b.
Carried(b, E) == 3 * Count(b, "1") >= 2 * Cardinality(E)

\* The ways to complete b when everybody in E who has not voted votes.
Completions(b, E) ==
  {f \in [E \cup DOMAIN b -> Outcomes] : \A v \in DOMAIN b : f[v] = b[v]}

Settled(b, E) ==
  IF Carried(b, E) THEN "misinformation"
  ELSE IF \E f \in Completions(b, E) : Carried(f, E) THEN "open"
  ELSE "rejected"

CInit ==
  /\ electorate = {}
  /\ ballots = << >>
  /\ decision = "absent"

\* An organisation joins; an open report stays undecided when it does.
Enrol ==
  /\ \E o \in Orgs \ electorate : electorate' = electorate \cup {o}
  /\ decision = "open" => Settled(ballots, electorate') = "open"
  /\ UNCHANGED <<ballots, decision>>

Open ==
  /\ decision = "absent"
  /\ decision' = "open"
  /\ UNCHANGED <<electorate, ballots>>

Cast ==
  /\ decision = "open"
  /\ \E v \in electorate \ DOMAIN ballots, o \in Outcomes :
       ballots' = [w \in DOMAIN ballots \cup {v} |-> IF w = v THEN o ELSE ballots[w]]
  /\ decision' = Settled(ballots', electorate)
  /\ UNCHANGED electorate

\* The window passed without a quorum: the majority of at least two ballots
\* decides, or nobody does.
CloseByMajority ==
  /\ decision = "open"
  /\ Cardinality(DOMAIN ballots) >= 2
  /\ \/ Count(ballots, "1") > Count(ballots, "0") /\ decision' = "misinformation"
     \/ Count(ballots, "0") > Count(ballots, "1") /\ decision' = "no_misinformation"
  /\ UNCHANGED <<electorate, ballots>>

Lapse ==
  /\ decision = "open"
  /\ decision' = "expired"
  /\ UNCHANGED <<electorate, ballots>>

CNext == Enrol \/ Open \/ Cast \/ CloseByMajority \/ Lapse

CSpec == CInit /\ [][CNext]_cvars
=============================================================================
