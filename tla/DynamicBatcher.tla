---------------------------- MODULE DynamicBatcher ----------------------------
(***************************************************************************)
(* The batch queue of flagging-engine (app/batcher.py): requests of the    *)
(* Kafka consumer and of POST /predict are gathered into batches, one      *)
(* batch is in the model at a time, and each caller waits on a future.     *)
(*                                                                         *)
(* An action is what the event loop does between two awaits.  Time is left *)
(* out: the wait for another request may end at any moment.  A request is  *)
(* also its text; the model's answer to it is named by the request.        *)
(***************************************************************************)
EXTENDS Integers, Sequences, FiniteSets, SequencesExt

CONSTANTS
  Requests,         \* the calls of submit
  max_batch_size

ASSUME BatchSizeAssumption == max_batch_size \in Nat \ {0}

VARIABLES
  queue,   \* _queue
  batch,   \* the local variable of _run
  task,    \* _task: "idle" (at the first get), "collecting", "inferring" or "stopped"
  future,  \* how each request's future stands: "none" before submit, "pending",
           \* "result", "failed" or "cancelled"
  answer   \* for a future with a result, the request the result is about

bvars == <<queue, batch, task, future, answer>>

Pending(r) == future[r] = "pending"

-----------------------------------------------------------------------------
Submit(r) ==
  /\ task # "stopped"
  /\ future[r] = "none"
  /\ future' = [future EXCEPT ![r] = "pending"]
  /\ queue' = Append(queue, r)
  /\ UNCHANGED <<batch, task, answer>>

\* The caller's task is cancelled (FlaggingConsumer.stop) and its future with
\* it; the request stays where it is.
Cancel(r) ==
  /\ Pending(r)
  /\ future' = [future EXCEPT ![r] = "cancelled"]
  /\ UNCHANGED <<queue, batch, task, answer>>

TakeFirst ==
  /\ task = "idle"
  /\ queue # <<>>
  /\ batch' = <<Head(queue)>>
  /\ queue' = Tail(queue)
  /\ task' = "collecting"
  /\ UNCHANGED <<future, answer>>

\* Mutant: the wait ends as the request is handed over, and the request is dropped.
TakeNext_timesOut ==
  /\ task = "collecting"
  /\ Len(batch) < max_batch_size
  /\ queue # <<>>
  /\ batch' \in {batch, Append(batch, Head(queue))}
  /\ queue' = Tail(queue)
  /\ UNCHANGED <<task, future, answer>>
\* One more request within the delay.
TakeNext ==
  /\ task = "collecting"
  /\ Len(batch) < max_batch_size
  /\ queue # <<>>
  /\ batch' = Append(batch, Head(queue))
  /\ queue' = Tail(queue)
  /\ UNCHANGED <<task, future, answer>>

\* The batch is full, or the delay is over (the queue may hold more by then):
\* its texts go to the executor.
Flush ==
  /\ task = "collecting"
  /\ task' = "inferring"
  /\ UNCHANGED <<queue, batch, future, answer>>

\* Mutant: the texts nobody waits for any more are not put to the model.
Texts_pendingOnly == SelectSeq(batch, Pending)
Texts == batch

\* Mutant: a result is set on a future that is done, which raises, and the rest fail.
Outcome_unguarded(r) ==
  IF Pending(r) /\ \A i \in DOMAIN batch : batch[i] = r => \A j \in 1 .. i : Pending(batch[j])
  THEN "result" ELSE IF Pending(r) THEN "failed" ELSE future[r]
\* A future that is done is passed over.
Outcome(r) == IF Pending(r) THEN "result" ELSE future[r]

\* One result for each text, in their order; a result is known by its text.
predict_batch(texts) == [i \in DOMAIN texts |-> texts[i]]

\* predict_batch returned, and the results go to the futures of the batch.
Replied ==
  /\ task = "inferring"
  /\ future' = [r \in Requests |->
                  IF \E i \in DOMAIN Texts : batch[i] = r THEN Outcome(r) ELSE future[r]]
  /\ answer' = [r \in Requests |->
                  IF \E i \in DOMAIN Texts : batch[i] = r
                  THEN predict_batch(Texts)[CHOOSE i \in DOMAIN Texts : batch[i] = r] ELSE answer[r]]
  /\ batch' = <<>>
  /\ task' = "idle"
  /\ UNCHANGED queue

\* Mutant: the exception ends the loop.
Raised_uncaught ==
  /\ task = "inferring"
  /\ future' = [r \in Requests |->
                  IF Contains(batch, r) /\ Pending(r) THEN "failed" ELSE future[r]]
  /\ batch' = <<>>
  /\ task' = "stopped"
  /\ UNCHANGED <<queue, answer>>
\* predict_batch raised: every waiter of the batch gets the exception.
Raised ==
  /\ task = "inferring"
  /\ future' = [r \in Requests |->
                  IF Contains(batch, r) /\ Pending(r) THEN "failed" ELSE future[r]]
  /\ batch' = <<>>
  /\ task' = "idle"
  /\ UNCHANGED <<queue, answer>>

\* stop, at the end of lifespan: the consumer is stopped before, and the web
\* server has finished its requests.
Stop ==
  /\ task # "stopped"
  /\ \A r \in Requests : ~Pending(r)
  /\ task' = "stopped"
  /\ batch' = <<>>
  /\ UNCHANGED <<queue, future, answer>>

-----------------------------------------------------------------------------
BInit ==
  /\ queue = <<>> /\ batch = <<>>
  /\ task = "idle"
  /\ future = [r \in Requests |-> "none"]
  /\ answer = [r \in Requests |-> r]

Run == TakeFirst \/ TakeNext \/ Flush \/ Replied \/ Raised

BNext == (\E r \in Requests : Submit(r) \/ Cancel(r)) \/ Run \/ Stop

\* The event loop runs the task, and the model comes back.
BSpec == BInit /\ [][BNext]_bvars /\ WF_bvars(Run)

-----------------------------------------------------------------------------
(* Properties. *)

\* The queue and the batch hold requests, and a batch its size.
BTypeOK ==
  /\ queue \in Seq(Requests) /\ batch \in Seq(Requests)
  /\ Len(batch) <= max_batch_size
  /\ task \in {"idle", "collecting", "inferring", "stopped"}
  /\ (task \in {"collecting", "inferring"}) = (batch # <<>>)
  /\ future \in [Requests -> {"none", "pending", "result", "failed", "cancelled"}]
  /\ answer \in [Requests -> Requests]

\* A request somebody waits for is in the queue or in the batch, once: none is
\* dropped when the delay ends as it arrives, and none is put to the model twice.
PendingIsHeld ==
  \A r \in Requests : Pending(r) =>
    Cardinality({i \in DOMAIN (queue \o batch) : (queue \o batch)[i] = r}) = 1

\* Everybody gets the result for the text they sent, whoever else in the batch
\* was cancelled meanwhile.
ResultIsOwn == \A r \in Requests : future[r] = "result" => answer[r] = r

\* A batch is answered as a whole: nobody fails in a batch that answers another,
\* so a caller that is gone does no harm to those who wait with it.
BatchAnsweredTogetherStep ==
  ~ \E r, s \in Requests :
      /\ Pending(r) /\ future'[r] = "result"
      /\ Pending(s) /\ future'[s] = "failed"
BatchAnsweredTogether == [][BatchAnsweredTogetherStep]_bvars

\* Nobody waits for ever: a failed inference, a request that is gone or a full
\* batch ahead keep no request from being answered.
EveryRequestEnds == \A r \in Requests : Pending(r) ~> ~Pending(r)
=============================================================================
