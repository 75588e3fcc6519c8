---------------------------- MODULE ClaimPipeline ----------------------------
(***************************************************************************)
(* A claim on its way from the tip line to the ledger: claim-ingest-worker *)
(* puts it on the topic claims.raw, flagging-engine scores it onto         *)
(* claims.flagged, submission-worker posts it to the blockchain gateway,   *)
(* which anchors a report (module GatewayDocuments has the inside of that  *)
(* call; here it is one step, and every call anchors a new report).        *)
(*                                                                         *)
(* Both consumers take one message at a time and commit offsets            *)
(* automatically: the offset that is committed in the background is the    *)
(* one after the message in hand, finished or not.  Kafka is modelled from *)
(* that use: a topic is a sequence that only grows, a restarted consumer   *)
(* goes on at the committed offset, and a producer that misses an          *)
(* acknowledgement sends again.  Messages with a bad signature are dropped *)
(* at both consumers and left out; what a consumer cannot decode ends its  *)
(* loop.                                                                   *)
(*                                                                         *)
(* Each loop takes the next message whatever the handler of this one has   *)
(* raised, so a write of the worker that fails (of the dead-letter file,   *)
(* or of its own note of a report) is a line in the log and nothing else.  *)
(***************************************************************************)
EXTENDS Integers, Sequences, FiniteSets, SequencesExt

CONSTANTS
  Claims,          \* msg_ids; a client that asks again gets a new one
  Malformed,       \* the claims that lack a field the submission worker requires
  None,            \* an empty hand
  Garbage,         \* a message that json.loads cannot read
  Disturbances,    \* what may go wrong, each once: a subset of {"crash engine",
                   \* "stop engine", "crash worker", "stop worker", "inference",
                   \* "resend raw", "resend flagged", "refused", "timeout", "replay",
                   \* "raise", "garbage"}
  MaxDisturbances  \* how many of them in one behaviour

ASSUME ClaimsAssumption == Malformed \subseteq Claims /\ None \notin Claims /\ Garbage \notin Claims \cup {None}

VARIABLES
  raw, flagged,  \* the topics claims.raw and claims.flagged
  engine,        \* the consumer of flagging-engine
  worker,        \* the consumer of submission-worker
  post,          \* how far the gateway is with the worker's request
  abandoned,     \* abandoned[c]: requests for c the worker no longer waits for
  anchored,      \* anchored[c]: the reports on the ledger that are c
  processed,     \* the table processed of the submission worker
  dead,          \* the dead-letter file
  logged,        \* the claims whose handler raised: in the worker's log only
  unnoted,       \* unnoted[c]: requests for c that the worker left, or was left,
                 \* without a note of their report
  disturbed      \* the disturbances that have happened

topics   == <<raw, flagged>>
outcomes == <<processed, dead, logged>>
gateway  == <<abandoned, anchored>>
pvars == <<raw, flagged, engine, worker, post, abandoned, anchored, processed, dead, logged, unnoted, disturbed>>

Disturb(what) ==
  /\ what \in Disturbances \ disturbed
  /\ Cardinality(disturbed) < MaxDisturbances
  /\ disturbed' = disturbed \cup {what}

-----------------------------------------------------------------------------
(* A consumer: the messages handed out, the offset committed, the message in *)
(* hand.                                                                     *)

NewConsumer == [position |-> 0, committed |-> 0, hand |-> None]

Fetched(consumer, topic) ==
  [consumer EXCEPT !.position = @ + 1, !.hand = topic[consumer.position + 1]]
\* What cannot be decoded raises in the iterator, outside the loop's try: the loop
\* is over, and a restarted one meets the same message.
MayFetch(consumer, topic) ==
  /\ consumer.hand = None
  /\ consumer.position < Len(topic)
  /\ topic[consumer.position + 1] # Garbage

Dropped(consumer)    == [consumer EXCEPT !.hand = None]
Committed(consumer)  == [consumer EXCEPT !.committed = consumer.position]
\* After a crash the group goes on where it last committed; a consumer that is
\* stopped commits what it has handed out, and its message in hand is cancelled.
Crashed(consumer) == [position |-> consumer.committed, committed |-> consumer.committed, hand |-> None]
Stopped(consumer) == Dropped(Committed(consumer))

-----------------------------------------------------------------------------
(* claim-ingest-worker and flagging-engine. *)

\* ingest and public_tip wait for the broker's acknowledgement.
Ingest(c) ==
  /\ ~Contains(raw, c)
  /\ raw' = Append(raw, c)
  /\ UNCHANGED <<flagged, engine, worker, post, gateway, outcomes, unnoted, disturbed>>

ResendRaw ==
  /\ raw # <<>> /\ Last(raw) # Garbage
  /\ Disturb("resend raw")
  /\ raw' = Append(raw, Last(raw))
  /\ UNCHANGED <<flagged, engine, worker, post, gateway, outcomes, unnoted>>

\* Something else that can reach the broker produces what is no JSON.
GarbageArrives ==
  /\ Disturb("garbage")
  /\ \/ raw' = Append(raw, Garbage) /\ UNCHANGED flagged
     \/ flagged' = Append(flagged, Garbage) /\ UNCHANGED raw
  /\ UNCHANGED <<engine, worker, post, gateway, outcomes, unnoted>>

EngineFetch ==
  /\ MayFetch(engine, raw)
  /\ engine' = Fetched(engine, raw)
  /\ UNCHANGED <<topics, worker, post, gateway, outcomes, unnoted, disturbed>>

\* Mutant: a scored message is not sent on.
EngineScore_forgets ==
  /\ engine.hand # None
  /\ engine' = Dropped(engine)
  /\ UNCHANGED <<topics, worker, post, gateway, outcomes, unnoted, disturbed>>
\* _handle: scored by the batcher and produced to claims.flagged.
EngineScore ==
  /\ engine.hand # None
  /\ flagged' = Append(flagged, engine.hand)
  /\ engine' = Dropped(engine)
  /\ UNCHANGED <<raw, worker, post, gateway, outcomes, unnoted, disturbed>>

ResendFlagged ==
  /\ flagged # <<>> /\ Last(flagged) # Garbage
  /\ Disturb("resend flagged")
  /\ flagged' = Append(flagged, Last(flagged))
  /\ UNCHANGED <<raw, engine, worker, post, gateway, outcomes, unnoted>>

\* The model or the producer raised: logged, and the next message is taken.
EngineFails ==
  /\ engine.hand # None
  /\ Disturb("inference")
  /\ engine' = Dropped(engine)
  /\ UNCHANGED <<topics, worker, post, gateway, outcomes, unnoted>>

EngineCommit ==
  /\ engine' = Committed(engine)
  /\ UNCHANGED <<topics, worker, post, gateway, outcomes, unnoted, disturbed>>

EngineRestart ==
  /\ \/ Disturb("crash engine") /\ engine' = Crashed(engine)
     \/ Disturb("stop engine")  /\ engine' = Stopped(engine)
  /\ UNCHANGED <<topics, worker, post, gateway, outcomes, unnoted>>

-----------------------------------------------------------------------------
(* submission-worker. *)

WorkerFetch ==
  /\ MayFetch(worker, flagged)
  /\ worker' = Fetched(worker, flagged)
  /\ UNCHANGED <<topics, engine, post, gateway, outcomes, unnoted, disturbed>>

\* Mutant: nothing counts as submitted before.
alreadySubmitted_never(c) == FALSE
alreadySubmitted(c) == c \in processed

Skip ==
  /\ worker.hand # None /\ post = "none"
  /\ alreadySubmitted(worker.hand)
  /\ worker' = Dropped(worker)
  /\ UNCHANGED <<topics, engine, post, gateway, outcomes, unnoted, disturbed>>

\* _dead_letter, and on to the next message.
DeadLetter ==
  /\ dead' = dead \cup {worker.hand}
  /\ worker' = Dropped(worker)
  /\ post' = "none"
  /\ UNCHANGED <<processed, logged>>

Incomplete ==
  /\ worker.hand \in Malformed /\ post = "none"
  /\ ~alreadySubmitted(worker.hand)
  /\ DeadLetter
  /\ UNCHANGED <<topics, engine, gateway, unnoted, disturbed>>

Post ==
  /\ worker.hand \in Claims \ Malformed /\ post = "none"
  /\ ~alreadySubmitted(worker.hand)
  /\ post' = "sent"
  /\ UNCHANGED <<topics, engine, worker, gateway, outcomes, unnoted, disturbed>>

GatewayAnchors ==
  /\ post = "sent"
  /\ post' = "anchored"
  /\ anchored' = [anchored EXCEPT ![worker.hand] = @ + 1]
  /\ UNCHANGED <<topics, engine, worker, abandoned, outcomes, unnoted, disturbed>>

\* Mutant: marked as soon as it is sent.
Mark_early ==
  /\ post \in {"sent", "anchored"}
  /\ processed' = processed \cup {worker.hand}
  /\ worker' = Dropped(worker)
  /\ post' = "none"
  /\ UNCHANGED <<topics, engine, gateway, dead, logged, unnoted, disturbed>>
\* The answer is there: _mark_submitted.
Mark ==
  /\ post = "anchored"
  /\ processed' = processed \cup {worker.hand}
  /\ worker' = Dropped(worker)
  /\ post' = "none"
  /\ UNCHANGED <<topics, engine, gateway, dead, logged, unnoted, disturbed>>

\* Mutant: a refused claim is dropped.
Refused_drops ==
  /\ post = "sent"
  /\ Disturb("refused")
  /\ worker' = Dropped(worker)
  /\ post' = "none"
  /\ UNCHANGED <<topics, engine, gateway, outcomes, unnoted>>
\* The gateway answers with an error and nothing was anchored.
Refused ==
  /\ post = "sent"
  /\ Disturb("refused")
  /\ DeadLetter
  /\ UNCHANGED <<topics, engine, gateway, unnoted>>

\* A request goes on without the worker, or its answer is not noted.
LeaveBehind ==
  /\ unnoted' = IF post = "none" THEN unnoted ELSE [unnoted EXCEPT ![worker.hand] = @ + 1]
  /\ abandoned' = IF post = "sent" THEN [abandoned EXCEPT ![worker.hand] = @ + 1] ELSE abandoned

\* Fifteen seconds are over, or the gateway's own wait for the ledger failed
\* although the report is or will be anchored.
PostTimesOut ==
  /\ post # "none"
  /\ Disturb("timeout")
  /\ LeaveBehind
  /\ DeadLetter
  /\ UNCHANGED <<topics, engine, anchored>>

\* Reading or writing processed.db, writing the dead-letter file or reading the
\* answer raises: _run logs it and takes the next message.  The request, if there
\* was one, timed out or was answered, or it was refused and nothing was anchored.
HandlerRaises ==
  /\ worker.hand # None
  /\ Disturb("raise")
  /\ \/ LeaveBehind
     \/ post = "sent" /\ UNCHANGED <<abandoned, unnoted>>
  /\ logged' = logged \cup {worker.hand}
  /\ worker' = Dropped(worker)
  /\ post' = "none"
  /\ UNCHANGED <<topics, engine, anchored, processed, dead>>

WorkerCommit ==
  /\ worker' = Committed(worker)
  /\ UNCHANGED <<topics, engine, post, gateway, outcomes, unnoted, disturbed>>

WorkerRestart ==
  /\ \/ Disturb("crash worker") /\ worker' = Crashed(worker)
     \/ Disturb("stop worker")  /\ worker' = Stopped(worker)
  /\ LeaveBehind
  /\ post' = "none"
  /\ UNCHANGED <<topics, engine, anchored, outcomes>>

\* An operator puts a dead letter back on the topic.
Replay ==
  /\ Disturb("replay")
  /\ \E c \in dead : flagged' = Append(flagged, c)
  /\ UNCHANGED <<raw, engine, worker, post, gateway, outcomes, unnoted>>

\* The gateway finishes a request nobody waits for, or fails it.
AbandonedEnds(c) ==
  /\ abandoned[c] > 0
  /\ abandoned' = [abandoned EXCEPT ![c] = @ - 1]
  /\ anchored' \in {anchored, [anchored EXCEPT ![c] = @ + 1]}
  /\ UNCHANGED <<topics, engine, worker, post, outcomes, unnoted, disturbed>>

-----------------------------------------------------------------------------
PInit ==
  /\ raw = <<>> /\ flagged = <<>>
  /\ engine = NewConsumer /\ worker = NewConsumer
  /\ post = "none"
  /\ abandoned = [c \in Claims |-> 0] /\ anchored = abandoned
  /\ processed = {} /\ dead = {} /\ logged = {}
  /\ unnoted = [c \in Claims |-> 0]
  /\ disturbed = {}

Engine == EngineFetch \/ EngineScore
Worker == WorkerFetch \/ Skip \/ Incomplete \/ Post \/ Mark
Failures ==
  \/ ResendRaw \/ ResendFlagged \/ GarbageArrives \/ EngineFails \/ EngineRestart
  \/ Refused \/ PostTimesOut \/ HandlerRaises \/ WorkerRestart \/ Replay

PNext ==
  \/ \E c \in Claims : Ingest(c) \/ AbandonedEnds(c)
  \/ Engine \/ EngineCommit \/ Worker \/ WorkerCommit \/ GatewayAnchors
  \/ Failures

PSpec == PInit /\ [][PNext]_pvars

\* The two loops go on as long as there are messages, and the gateway answers.
PFairSpec == PSpec /\ WF_pvars(Engine) /\ WF_pvars(Worker) /\ WF_pvars(GatewayAnchors)

-----------------------------------------------------------------------------
(* Properties. *)

\* The consumers stay on their topics and the gateway serves what is in hand.
PTypeOK ==
  /\ raw \in Seq(Claims \cup {Garbage}) /\ flagged \in Seq(Claims \cup {Garbage})
  /\ \A k \in {<<engine, raw>>, <<worker, flagged>>} :
       /\ k[1].hand \in Claims \cup {None}
       /\ 0 <= k[1].committed /\ k[1].committed <= k[1].position /\ k[1].position <= Len(k[2])
  /\ post \in {"none", "sent", "anchored"} /\ (worker.hand = None => post = "none")
  /\ processed \subseteq Claims /\ dead \subseteq Claims /\ logged \subseteq Claims

\* The worker skips a claim only when that claim has a report on the ledger,
\* through every restart, refusal, lost answer and failing write.
ProcessedIsAnchored == \A c \in processed : anchored[c] > 0

\* Every report a claim has beyond its first is the work of a request for that
\* claim whose answer the worker did not get or could not note; messages sent
\* twice, redelivered after a restart, or replayed from the dead letters make none
\* on their own.
ExtraReportsAreUnnoted ==
  \A c \in Claims : anchored[c] + abandoned[c] <= 1 + unnoted[c]

\* As long as the worker is not restarted, a message it has passed is settled:
\* anchored and remembered, or in the dead-letter file, or else its handler raised
\* and only the log has it.
PassedIsSettled ==
  disturbed \cap {"crash worker", "stop worker"} = {} =>
    \A i \in 1 .. worker.position :
      \/ flagged[i] \in processed \cup dead \cup logged
      \/ i = worker.position /\ flagged[i] = worker.hand

\* A claim the tip line has queued ends up on the ledger or in the dead-letter
\* file, unless a loop is restarted, an inference fails, the worker's own handler
\* of this claim raises, or the claim is behind a message that cannot be decoded: no
\* resend, refusal, timeout, replay or failing write, for this claim or another,
\* keeps it from getting through.
Interrupted ==
  disturbed \cap {"crash engine", "stop engine", "crash worker", "stop worker", "inference"} # {}
BehindGarbage(c) ==
  \E topic \in {raw, flagged} : \E i \in DOMAIN topic :
    topic[i] = Garbage /\ Contains(topic, c) /\ ~Contains(SubSeq(topic, 1, i), c)
ClaimsArrive ==
  \A c \in Claims :
    Contains(raw, c) ~> (anchored[c] > 0 \/ c \in dead \cup logged \/ BehindGarbage(c) \/ Interrupted)

\* "msg_ids already anchored, so a replayed or redelivered message does not become
\* a second on-chain report" (config.py).  It does not hold: the claim is anchored
\* before its msg_id is remembered.
AnchoredOnce == \A c \in Claims : anchored[c] <= 1
=============================================================================
