------------------------------ MODULE MCChaincode ------------------------------
(***************************************************************************)
(* The chaincode's rules for TLC.  A behaviour is of one of three: a       *)
(* report while founders still register; the membership; or the demo's     *)
(* stand-in for the ledger, both at once.                                  *)
(***************************************************************************)
EXTENDS MCMisinformation, MockLedger

FoundersOfTheDemo == {o1, o2, o3}

VARIABLE about

bothVars == <<about, vars, kvars>>

BothInit == about \in {"report", "membership", "mock"} /\ Init /\ KInit

\* Of six founders; nobody asks for admission.
ReportNext ==
  /\ Next
  /\ foundingOrgLimit' \in {1, 6}
  /\ admission' = admission

\* Of the first five organisations.
MembershipNext ==
  /\ MembershipStep
  /\ foundingOrgLimit' # 6
  /\ registered' \subseteq FiveOrgs

BothNext ==
  /\ UNCHANGED about
  /\ \/ about = "report" /\ ReportNext /\ UNCHANGED kvars
     \/ about = "membership" /\ MembershipNext /\ UNCHANGED kvars
     \/ about = "mock" /\ KNext /\ UNCHANGED vars

BothSpec == BothInit /\ [][BothNext]_bothVars
=============================================================================
