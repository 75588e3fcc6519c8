------------------------------- MODULE MCFairness -------------------------------
(***************************************************************************)
(* One instance for TLC of each of the two loops that have to get through: *)
(* the batcher of the engine, and the expiry pass with the handlers of the *)
(* gateway when nothing disturbs them.  They share no state; a behaviour   *)
(* is of one of them, the one that is `chosen`.                            *)
(***************************************************************************)
EXTENDS DynamicBatcher, GatewayDocuments

CONSTANTS q1, q2, q3, q4, o1, o2, o3, o4, r1, h1, h2

FourRequests == {q1, q2, q3, q4}
FourOrgs     == {o1, o2, o3, o4}
OneReport    == {r1}
TwoHandlers  == {h1, h2}
OneTick      == 0..1

VARIABLE chosen

loops == <<chosen, bvars, gvars>>

InBatcher == chosen = "batcher" /\ UNCHANGED <<chosen, gvars>>
InGateway == chosen = "gateway" /\ UNCHANGED <<chosen, bvars>>

FairnessInit == chosen \in {"batcher", "gateway"} /\ BInit /\ GInit
FairnessNext == (InBatcher /\ BNext) \/ (InGateway /\ GNext)

\* The fairness of BSpec and of GFairSpec.
FairnessSpec ==
  /\ FairnessInit /\ [][FairnessNext]_loops
  /\ WF_loops(InBatcher /\ Run)
  /\ \A h \in Handlers : WF_loops(InGateway /\ Continues(h)) /\ SF_loops(InGateway /\ CloseRead(h))
=============================================================================
