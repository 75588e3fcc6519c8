------------------------------- MODULE MCFabric -------------------------------
(***************************************************************************)
(* An instance of FabricTransactions for TLC.  A behaviour is about the    *)
(* reports or about the membership: the calls under way are of one kind,   *)
(* and founding orgs may still register in both.  Where it is about the    *)
(* membership there is one candidate, and room for three members.          *)
(***************************************************************************)
EXTENDS FabricTransactions, TLC

CONSTANTS o1, o2, o3, o4, r1, p1, p2, p3, c1, c2

FourOrgs   == {o1, o2, o3, o4}
OneReport  == {r1}
ThreePeers == {p1, p2, p3}
TwoCalls   == {c1, c2}
OneTick    == 0..1

\* Peers, calls and organisations are interchangeable.
Symmetric == Permutations(ThreePeers) \cup Permutations(TwoCalls) \cup Permutations(FourOrgs)

VARIABLE about

aboutVars == <<about, fvars>>

\* For a report to be left to an official it takes four founders.
OfTheKind(tx) ==
  IF about = "reports" THEN tx.adm = << >> /\ tx.limit \subseteq {4}
  ELSE tx.rep = << >> /\ tx.limit \subseteq {1, 2}

AboutInit == about \in {"reports", "membership"} /\ FInit

\* Who is a candidate, on the ledger or in a call under way.
Requesting(adm, calls) ==
  {o \in Orgs : adm[o] # Chaincode!NoRequest}
  \cup UNION {DOMAIN calls[c].adm : c \in {d \in Calls : calls[d] # Idle}}

AboutNext ==
  /\ UNCHANGED about
  /\ FNext
  /\ \A c \in Calls : underway'[c] # Idle => OfTheKind(underway'[c])
  /\ about = "membership" =>
       /\ UNCHANGED clock
       /\ Cardinality(Requesting(admission', underway')) <= 1
       /\ Cardinality(registered') <= 3

AboutSpec == AboutInit /\ [][AboutNext]_aboutVars
=============================================================================
