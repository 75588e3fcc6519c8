------------------------------ MODULE MCPipeline ------------------------------
(* Instances of ClaimPipeline for TLC. *)
EXTENDS ClaimPipeline, TLC

CONSTANTS k1, k2

TwoClaims   == {k1, k2}
OnlyK1      == {k1}
OnlyK2      == {k2}
NoClaims    == {}

AnyFault == {"crash engine", "stop engine", "crash worker", "stop worker", "inference",
             "resend raw", "resend flagged", "refused", "timeout", "replay",
             "raise", "garbage"}
WorkerCrash == {"crash worker"}
=============================================================================
