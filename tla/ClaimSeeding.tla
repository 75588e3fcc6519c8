------------------------------ MODULE ClaimSeeding ------------------------------
(***************************************************************************)
(* seed-claims.py, which fills the review queue of a fresh deployment, and *)
(* up.py, which runs it with --force.  It looks at the ledger, sends its   *)
(* claims to claim-ingest-worker and waits for as many reports.  They take *)
(* their time through the pipeline (module ClaimPipeline), which drops     *)
(* some and may anchor one twice, and other people's tips arrive as well.  *)
(*                                                                         *)
(* The claims are those of one request: as many as up.py seeds, fewer than *)
(* BATCH.                                                                  *)
(***************************************************************************)
EXTENDS Integers, FiniteSets

CONSTANTS
  Claims,   \* the texts, the same for every run with one --seed
  Seeders,  \* runs of the script, that may overlap
  MaxExtra  \* bound of the model: reports of other people's claims, and of what
            \* has one already

ASSUME ClaimsAssumption == IsFiniteSet(Claims)

VARIABLES
  seeder,   \* where each run is, what it counted when it began, and (for the
            \* properties) what there was to count then
  unsent,   \* the claims each run's request to the ingest worker has still to queue
  pipeline, \* the claims on their way, each with its run
  anchored, \* those that have become reports
  again,    \* how many reports there are beyond the first of a claim
  tips,     \* how many reports there are of other people's claims
  shown     \* how many reports the gateway says there are: its answers are cached

svars == <<seeder, unsent, pipeline, anchored, again, tips, shown>>

SInit ==
  /\ seeder = [s \in Seeders |-> [at |-> "idle", force |-> FALSE, before |-> 0, there |-> 0]]
  /\ unsent = [s \in Seeders |-> {}]
  /\ pipeline = {} /\ anchored = {} /\ again = 0 /\ tips = 0 /\ shown = 0

\* The gateway reads the ledger again.
Shows ==
  /\ shown' = tips + Cardinality(anchored) + again
  /\ UNCHANGED <<seeder, unsent, pipeline, anchored, again, tips>>

MovesOn(s, step) == seeder' = [seeder EXCEPT ![s].at = step]

\* The gateway says how many reports there are; with some, an unforced run is done.
Looks(s, force) ==
  /\ seeder[s].at = "idle"
  /\ LET step == IF shown > 0 /\ ~force THEN "not again" ELSE "sending" IN
       /\ seeder' = [seeder EXCEPT ![s] = [at |-> step, force |-> force,
                                           before |-> shown, there |-> shown]]
       /\ unsent' = [unsent EXCEPT ![s] = IF step = "sending" THEN Claims ELSE {}]
  /\ UNCHANGED <<pipeline, anchored, again, tips, shown>>

\* Mutant: nothing is known to be on the ledger, so the run goes on.
Unanswered_goesOn(s) ==
  /\ seeder[s].at = "idle"
  /\ seeder' = [seeder EXCEPT ![s].at = "sending", ![s].there = shown]
  /\ unsent' = [unsent EXCEPT ![s] = Claims]
  /\ UNCHANGED <<pipeline, anchored, again, tips, shown>>
\* The gateway does not answer: the run ends.
Unanswered(s) ==
  /\ seeder[s].at = "idle"
  /\ MovesOn(s, "failed")
  /\ UNCHANGED <<unsent, pipeline, anchored, again, tips, shown>>

\* ingest queues the claims of its request one by one, under ids of their own,
\* whether or not anybody still waits for its answer.
Queues(s, c) ==
  /\ c \in unsent[s]
  /\ unsent' = [unsent EXCEPT ![s] = @ \ {c}]
  /\ pipeline' = pipeline \cup {<<s, c>>}
  /\ UNCHANGED <<seeder, anchored, again, tips, shown>>

\* The broker refuses one: what was queued before it stays.
IngestFails(s) ==
  /\ unsent[s] # {}
  /\ unsent' = [unsent EXCEPT ![s] = {}]
  /\ IF seeder[s].at = "sending" THEN MovesOn(s, "failed") ELSE UNCHANGED seeder
  /\ UNCHANGED <<pipeline, anchored, again, tips, shown>>

\* The script has its answer, and waits; or it gets none in time, and ends.
HasAnswer(s) ==
  /\ seeder[s].at = "sending"
  /\ \/ unsent[s] = {} /\ MovesOn(s, "waiting")
     \/ MovesOn(s, "failed")
  /\ UNCHANGED <<unsent, pipeline, anchored, again, tips, shown>>

\* It counts reports, not its claims: tips that arrive meanwhile are counted too.
SeesAll(s) ==
  /\ seeder[s].at = "waiting"
  /\ shown >= seeder[s].before + Cardinality(Claims)
  /\ MovesOn(s, "all")
  /\ UNCHANGED <<unsent, pipeline, anchored, again, tips, shown>>

\* --wait is over, or 0 from the start.
StopsWaiting(s) ==
  /\ seeder[s].at = "waiting"
  /\ MovesOn(s, "some")
  /\ UNCHANGED <<unsent, pipeline, anchored, again, tips, shown>>

Lands(claim) ==
  /\ pipeline' = pipeline \ {claim}
  /\ anchored' = anchored \cup {claim}
  /\ UNCHANGED <<seeder, unsent, again, tips, shown>>

\* Its message is delivered, sent or replayed once more, and becomes another report.
LandsAgain ==
  /\ anchored # {}
  /\ tips + again < MaxExtra
  /\ again' = again + 1
  /\ UNCHANGED <<seeder, unsent, pipeline, anchored, tips, shown>>

\* The inference failed, or the gateway refused it.
Drops(claim) ==
  /\ pipeline' = pipeline \ {claim}
  /\ UNCHANGED <<seeder, unsent, anchored, again, tips, shown>>

TipArrives ==
  /\ tips + again < MaxExtra
  /\ tips' = tips + 1
  /\ UNCHANGED <<seeder, unsent, pipeline, anchored, again, shown>>

SNext ==
  \/ \E s \in Seeders :
       \/ \E force \in BOOLEAN : Looks(s, force)
       \/ \E c \in Claims : Queues(s, c)
       \/ Unanswered(s) \/ IngestFails(s) \/ HasAnswer(s) \/ SeesAll(s) \/ StopsWaiting(s)
  \/ \E claim \in pipeline : Lands(claim) \/ Drops(claim)
  \/ LandsAgain \/ TipArrives
  \/ Shows

SSpec == SInit /\ [][SNext]_svars

-----------------------------------------------------------------------------
(* Properties. *)

\* Whether a run has queued this claim.
Queued(s, c) == <<s, c>> \in pipeline \cup anchored

\* Reports that are not the first of one of this run's claims.
OtherReports(s) == tips + again + Cardinality({a \in anchored : a[1] # s})

\* A run without --force queues claims only when the gateway shows an empty ledger, so
\* runs repeat each other only while nothing of the first has arrived and been read.
\* And when a run says "all claims are on the ledger", then each of its claims that is
\* not there (dropped, or still on its way) is made up by a report that was not shown
\* when the run began, of somebody else's claim or of one that has a report already:
\* whoever else sends claims, whatever is lost or anchored twice.
SeedingIsAccounted ==
  \A s \in Seeders :
    /\ (\E c \in Claims : Queued(s, c)) => seeder[s].force \/ seeder[s].there = 0
    /\ seeder[s].at = "all" =>
         Cardinality({c \in Claims : <<s, c>> \notin anchored}) <= OtherReports(s) - seeder[s].there

\* "Nothing is sent when the ledger already holds reports (--force to seed
\* anyway), so re-running the script does not duplicate the queue": a run without
\* --force that begins after another has ended does not send the claims which that
\* one has queued.  It does not hold while those are still on their way.
RerunSendsNothing ==
  [][\A s, t \in Seeders :
       seeder[s].at = "idle" /\ unsent'[s] # {} /\ ~seeder'[s].force /\ seeder[t].at = "some"
       => ~\E c \in unsent'[s] : Queued(t, c)]_svars
=============================================================================
