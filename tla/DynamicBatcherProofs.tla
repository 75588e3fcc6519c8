-------------------------- MODULE DynamicBatcherProofs --------------------------
(* What holds of the batch queue for any requests and any size of a batch. *)
EXTENDS DynamicBatcher, FiniteSetTheorems, TLAPS

Distinct(s)   == \A i, j \in DOMAIN s : s[i] = s[j] => i = j
Among(r, s)   == \E i \in DOMAIN s : s[i] = r
Submitted(s)  == \A i \in DOMAIN s : future[s[i]] # "none"

\* Queue and batch hold each request once, only those that were submitted, and all
\* those somebody waits for.
BInv ==
  /\ BTypeOK
  /\ Distinct(queue) /\ Distinct(batch)
  /\ \A r \in Requests : ~(Among(r, queue) /\ Among(r, batch))
  /\ Submitted(queue) /\ Submitted(batch)
  /\ \A r \in Requests : Pending(r) => Among(r, queue) \/ Among(r, batch)
  /\ ResultIsOwn

-----------------------------------------------------------------------------
(* Sequences. *)

LEMMA Appended ==
  ASSUME NEW S, NEW s \in Seq(S), NEW x \in S
  PROVE  /\ Append(s, x) \in Seq(S) /\ Len(Append(s, x)) = Len(s) + 1 /\ Append(s, x) # <<>>
         /\ \A r : Among(r, Append(s, x)) <=> Among(r, s) \/ r = x
         /\ Distinct(s) /\ ~Among(x, s) => Distinct(Append(s, x))
<1> DEFINE t == Append(s, x)
<1>1. /\ t \in Seq(S) /\ Len(t) = Len(s) + 1 /\ t # <<>>
      /\ DOMAIN t = 1..(Len(s) + 1) /\ DOMAIN s = 1..Len(s) /\ Len(s) \in Nat
      /\ t[Len(s) + 1] = x /\ \A i \in 1..Len(s) : t[i] = s[i]
  OBVIOUS
<1> HIDE DEF t
<1>2. \A r : Among(r, t) <=> Among(r, s) \/ r = x BY <1>1 DEF Among
<1>3. ASSUME Distinct(s), ~Among(x, s) PROVE Distinct(t)
  BY <1>1, <1>3 DEF Distinct, Among
<1> QED BY <1>1, <1>2, <1>3 DEF t

LEMMA TakenOff ==
  ASSUME NEW S, NEW s \in Seq(S), s # <<>>
  PROVE  /\ Tail(s) \in Seq(S) /\ Head(s) \in S
         /\ \A r : Among(r, s) <=> Among(r, Tail(s)) \/ r = Head(s)
         /\ Distinct(s) => Distinct(Tail(s)) /\ ~Among(Head(s), Tail(s))
<1> DEFINE t == Tail(s)
           h == Head(s)
<1>1. /\ t \in Seq(S) /\ h \in S /\ h = s[1] /\ Len(s) \in Nat \ {0}
      /\ DOMAIN s = 1..Len(s) /\ DOMAIN t = 1..(Len(s) - 1)
      /\ \A i \in 1..(Len(s) - 1) : t[i] = s[i + 1]
  OBVIOUS
<1> HIDE DEF t, h
<1>2. ASSUME NEW r PROVE Among(r, s) <=> Among(r, t) \/ r = h
  <2>1. ASSUME NEW i \in DOMAIN s, s[i] = r, i # 1 PROVE Among(r, t)
    <3>1. i - 1 \in DOMAIN t /\ t[i - 1] = s[i] BY <1>1, <2>1
    <3> QED BY <2>1, <3>1 DEF Among
  <2>2. ASSUME NEW i \in DOMAIN t, t[i] = r PROVE Among(r, s)
    <3>1. i + 1 \in DOMAIN s /\ s[i + 1] = r BY <1>1, <2>2
    <3> QED BY <3>1 DEF Among
  <2>3. 1 \in DOMAIN s BY <1>1
  <2> QED BY <1>1, <2>1, <2>2, <2>3 DEF Among
<1>3. ASSUME Distinct(s) PROVE Distinct(t) /\ ~Among(h, t)
  <2>1. \A i \in DOMAIN t : i + 1 \in DOMAIN s /\ t[i] = s[i + 1] /\ i + 1 # 1 /\ i \in Int BY <1>1
  <2>2. 1 \in DOMAIN s BY <1>1
  <2> QED BY <1>1, <1>3, <2>1, <2>2 DEF Distinct, Among
<1> QED BY <1>1, <1>2, <1>3 DEF t, h

\* With each request once in either, it is once in both.
LEMMA OnceInBoth ==
  ASSUME BInv, NEW r \in Requests, Pending(r)
  PROVE  Cardinality({i \in DOMAIN (queue \o batch) : (queue \o batch)[i] = r}) = 1
<1> DEFINE both == queue \o batch
           places == {i \in DOMAIN both : both[i] = r}
<1>1. /\ queue \in Seq(Requests) /\ batch \in Seq(Requests)
      /\ Distinct(queue) /\ Distinct(batch) /\ ~(Among(r, queue) /\ Among(r, batch))
      /\ Among(r, queue) \/ Among(r, batch)
  BY DEF BInv, BTypeOK
<1>2. /\ Len(queue) \in Nat /\ Len(batch) \in Nat
      /\ DOMAIN queue = 1..Len(queue) /\ DOMAIN batch = 1..Len(batch)
      /\ DOMAIN both = 1..(Len(queue) + Len(batch))
      /\ \A i \in DOMAIN both : both[i] = IF i <= Len(queue) THEN queue[i] ELSE batch[i - Len(queue)]
  BY <1>1
<1> HIDE DEF both
<1>3. \E i \in DOMAIN both : both[i] = r
  <2>1. ASSUME NEW i \in DOMAIN queue, queue[i] = r PROVE i \in DOMAIN both /\ both[i] = r
    BY <1>2, <2>1
  <2>2. ASSUME NEW i \in DOMAIN batch, batch[i] = r
        PROVE  Len(queue) + i \in DOMAIN both /\ both[Len(queue) + i] = r
    BY <1>2, <2>2
  <2> QED BY <1>1, <2>1, <2>2 DEF Among
<1>4. ASSUME NEW i \in places, NEW j \in places PROVE i = j
  <2>1. i \in Int /\ j \in Int /\ i \in DOMAIN both /\ j \in DOMAIN both BY <1>2
  <2>2. CASE i <= Len(queue) /\ j <= Len(queue)
    BY <1>1, <1>2, <2>1, <2>2 DEF Distinct
  <2>3. CASE i > Len(queue) /\ j > Len(queue)
    <3>1. i - Len(queue) \in DOMAIN batch /\ j - Len(queue) \in DOMAIN batch BY <1>2, <2>1, <2>3
    <3>2. batch[i - Len(queue)] = r /\ batch[j - Len(queue)] = r BY <1>2, <2>1, <2>3
    <3>3. i - Len(queue) = j - Len(queue) BY <1>1, <3>1, <3>2 DEF Distinct
    <3> QED BY <1>2, <2>1, <3>3
  <2>4. ASSUME NEW m \in places, NEW n \in places, m <= Len(queue), n > Len(queue) PROVE FALSE
    <3>1. m \in DOMAIN queue /\ queue[m] = r BY <1>2, <2>4
    <3>2. n - Len(queue) \in DOMAIN batch /\ batch[n - Len(queue)] = r BY <1>2, <2>4
    <3> QED BY <1>1, <3>1, <3>2 DEF Among
  <2> QED BY <1>2, <2>1, <2>2, <2>3, <2>4
<1>5. PICK i \in DOMAIN both : both[i] = r BY <1>3
<1>6. places = {i} BY <1>4, <1>5
<1> QED BY <1>6, FS_Singleton DEF both
-----------------------------------------------------------------------------
(* Each action. *)

LEMMA BInitHolds == BInit => BInv
<1> SUFFICES ASSUME BInit PROVE BInv OBVIOUS
<1>1. BTypeOK BY BatchSizeAssumption DEF BInit, BTypeOK
<1> QED BY <1>1 DEF BInit, BInv, Distinct, Among, Submitted, Pending, ResultIsOwn

LEMMA SubmitKeeps ==
  ASSUME BInv, NEW r \in Requests, Submit(r)
  PROVE  BInv'
<1>1. queue \in Seq(Requests) /\ future' = [future EXCEPT ![r] = "pending"]
      /\ queue' = Append(queue, r) /\ UNCHANGED <<batch, task, answer>> /\ future[r] = "none"
  BY DEF BInv, BTypeOK, Submit
<1>2. ~Among(r, queue) /\ ~Among(r, batch)
  BY <1>1 DEF BInv, Submitted, Among
<1>3. BTypeOK' BY <1>1, Appended DEF BInv, BTypeOK
<1>4. Distinct(queue') BY <1>1, <1>2, Appended DEF BInv
<1>5. \A q \in Requests : Among(q, queue') <=> Among(q, queue) \/ q = r BY <1>1, Appended
<1>6. /\ \A q \in Requests : q # r => future'[q] = future[q]
      /\ future'[r] = "pending"
  BY <1>1 DEF BInv, BTypeOK
<1>7. Submitted(queue)' /\ Submitted(batch)'
  <2>1. \A i \in DOMAIN queue' : queue'[i] \in Requests /\ Among(queue'[i], queue')
    BY <1>3 DEF BTypeOK, Among
  <2>2. \A i \in DOMAIN batch : batch[i] \in Requests /\ future[batch[i]] # "none"
    BY DEF BInv, BTypeOK, Submitted
  <2>3. \A q \in Requests : Among(q, queue) => future[q] # "none" BY DEF BInv, Submitted, Among
  <2>4. \A q \in Requests : Among(q, queue') => future'[q] # "none" BY <1>5, <1>6, <2>3
  <2>5. \A q \in Requests : future[q] # "none" => future'[q] # "none" BY <1>6
  <2>6. Submitted(queue)' BY <2>1, <2>4 DEF Submitted
  <2>7. Submitted(batch)' BY <1>1, <2>2, <2>5 DEF Submitted
  <2> QED BY <2>6, <2>7
<1>8. ResultIsOwn' BY <1>1, <1>6 DEF BInv, ResultIsOwn
<1>9. \A q \in Requests : ~(Among(q, queue') /\ Among(q, batch'))
  BY <1>1, <1>2, <1>5 DEF BInv
<1>10. \A q \in Requests : future'[q] = "pending" => Among(q, queue') \/ Among(q, batch')
  BY <1>1, <1>5, <1>6 DEF BInv, Pending
<1>11. Distinct(batch') BY <1>1 DEF BInv
<1> QED BY <1>3, <1>4, <1>7, <1>8, <1>9, <1>10, <1>11 DEF BInv, Pending, Distinct, Among

\* A step that only moves futures on, some of them to the end.
LEMMA FuturesMove ==
  ASSUME BInv, UNCHANGED queue, BTypeOK', batch' \in {batch, <<>>},
         \A r \in Requests : future[r] # "none" => future'[r] # "none",
         \A r \in Requests : Pending(r)' => Pending(r) /\ (Among(r, queue) \/ batch' = batch),
         ResultIsOwn'
  PROVE  BInv'
<1>1. Distinct(batch') /\ Distinct(queue') BY DEF BInv, Distinct
<1>2. \A r : Among(r, batch') => Among(r, batch) BY DEF Among
<1>3. Submitted(queue)' /\ Submitted(batch)'
  BY DEF BInv, BTypeOK, Submitted
<1>4. \A r \in Requests : ~(Among(r, queue') /\ Among(r, batch')) BY <1>2 DEF BInv
<1>5. \A r \in Requests : Pending(r)' => Among(r, queue') \/ Among(r, batch') BY DEF BInv
<1> QED BY <1>1, <1>3, <1>4, <1>5 DEF BInv, Distinct, Among

LEMMA CancelKeeps ==
  ASSUME BInv, NEW r \in Requests, Cancel(r)
  PROVE  BInv'
<1>1. BTypeOK' BY DEF BInv, BTypeOK, Cancel
<1>2. ResultIsOwn' BY DEF BInv, BTypeOK, Cancel, ResultIsOwn
<1> QED BY <1>1, <1>2, FuturesMove DEF BInv, BTypeOK, Cancel, Pending

\* TakeFirst and TakeNext move the head of the queue to the end of the batch.
LEMMA MovesOver ==
  ASSUME BInv, queue # <<>>, queue' = Tail(queue), batch' = Append(batch, Head(queue)),
         UNCHANGED <<future, answer>>, BTypeOK'
  PROVE  BInv'
<1> DEFINE h == Head(queue)
<1>1. queue \in Seq(Requests) /\ batch \in Seq(Requests) BY DEF BInv, BTypeOK
<1>2. h \in Requests /\ Distinct(queue') /\ ~Among(h, queue')
      /\ \A r : Among(r, queue) <=> Among(r, queue') \/ r = h
  BY <1>1, TakenOff DEF BInv
<1>3. ~Among(h, batch) BY <1>2 DEF BInv
<1>4. Distinct(batch') /\ \A r : Among(r, batch') <=> Among(r, batch) \/ r = h
  BY <1>1, <1>2, <1>3, Appended DEF BInv
<1>5. \A r \in Requests : Among(r, queue) \/ Among(r, batch) => future[r] # "none"
  BY DEF BInv, Submitted, Among
<1>6. Submitted(queue)' /\ Submitted(batch)'
  <2>1. \A i \in DOMAIN queue' : queue'[i] \in Requests /\ Among(queue'[i], queue')
    BY DEF BTypeOK, Among
  <2>2. \A i \in DOMAIN batch' : batch'[i] \in Requests /\ Among(batch'[i], batch')
    BY DEF BTypeOK, Among
  <2> HIDE DEF h
  <2> QED BY <1>2, <1>4, <1>5, <2>1, <2>2 DEF Submitted
<1>7. \A r \in Requests : ~(Among(r, queue') /\ Among(r, batch'))
  BY <1>2, <1>3, <1>4 DEF BInv
<1>8. \A r \in Requests : Pending(r)' => Among(r, queue') \/ Among(r, batch')
  BY <1>2, <1>4 DEF BInv, Pending
<1>9. ResultIsOwn' BY DEF BInv, ResultIsOwn
<1> HIDE DEF h
<1> QED BY <1>2, <1>4, <1>6, <1>7, <1>8, <1>9 DEF BInv, Distinct, Among

LEMMA TakeFirstKeeps == BInv /\ TakeFirst => BInv'
<1> SUFFICES ASSUME BInv, TakeFirst PROVE BInv' OBVIOUS
<1>1. batch = <<>> BY DEF BInv, BTypeOK, TakeFirst
<1>2. batch' = Append(batch, Head(queue)) BY <1>1 DEF TakeFirst
<1>3. queue \in Seq(Requests) /\ queue # <<>> BY DEF BInv, BTypeOK, TakeFirst
<1>4. Tail(queue) \in Seq(Requests) /\ Head(queue) \in Requests BY <1>3, TakenOff
<1>5. BTypeOK'
  <2>1. batch' \in Seq(Requests) /\ Len(batch') = 1 /\ batch' # <<>>
    BY <1>4 DEF TakeFirst
  <2> QED BY <1>4, <2>1, BatchSizeAssumption DEF BInv, BTypeOK, TakeFirst
<1> QED BY <1>2, <1>3, <1>5, MovesOver DEF TakeFirst

LEMMA TakeNextKeeps == BInv /\ TakeNext => BInv'
<1> SUFFICES ASSUME BInv, TakeNext PROVE BInv' OBVIOUS
<1>1. queue \in Seq(Requests) /\ queue # <<>> /\ batch \in Seq(Requests)
  BY DEF BInv, BTypeOK, TakeNext
<1>2. Tail(queue) \in Seq(Requests) /\ Head(queue) \in Requests BY <1>1, TakenOff
<1>3. BTypeOK'
  <2>1. batch' \in Seq(Requests) /\ Len(batch') = Len(batch) + 1 /\ batch' # <<>>
    BY <1>1, <1>2, Appended DEF TakeNext
  <2>2. Len(batch') <= max_batch_size BY <1>1, <2>1, BatchSizeAssumption DEF TakeNext
  <2> QED BY <1>2, <2>1, <2>2 DEF BInv, BTypeOK, TakeNext
<1> QED BY <1>1, <1>3, MovesOver DEF TakeNext

LEMMA FlushKeeps == BInv /\ Flush => BInv'
<1> SUFFICES ASSUME BInv, Flush PROVE BInv' OBVIOUS
<1>1. BTypeOK' BY DEF BInv, BTypeOK, Flush
<1> QED BY <1>1, FuturesMove DEF BInv, Flush, Pending, ResultIsOwn

\* What the results of a batch do to the futures.
LEMMA AnswersOf ==
  ASSUME BInv, Replied, NEW r \in Requests
  PROVE  /\ ~Among(r, batch) => future'[r] = future[r] /\ answer'[r] = answer[r]
         /\ Among(r, batch) => /\ future'[r] = (IF Pending(r) THEN "result" ELSE future[r])
                               /\ answer'[r] = r
<1>1. future'[r] = IF Among(r, batch) THEN Outcome(r) ELSE future[r]
  BY DEF Replied, Texts, Among
<1>2. answer'[r] = IF Among(r, batch)
                   THEN predict_batch(batch)[CHOOSE i \in DOMAIN batch : batch[i] = r] ELSE answer[r]
  BY DEF Replied, Texts, Among
<1>3. ASSUME Among(r, batch)
      PROVE  predict_batch(batch)[CHOOSE i \in DOMAIN batch : batch[i] = r] = r
  BY <1>3 DEF Among, predict_batch
<1> QED BY <1>1, <1>2, <1>3 DEF Outcome

LEMMA AnsweredKeeps == BInv /\ Replied => BInv'
<1> SUFFICES ASSUME BInv, Replied PROVE BInv' OBVIOUS
<1>1. DOMAIN future' = Requests /\ DOMAIN answer' = Requests
      /\ future' = [r \in Requests |-> future'[r]] /\ answer' = [r \in Requests |-> answer'[r]]
  BY DEF Replied
<1>2. \A r \in Requests : future'[r] \in {"none", "pending", "result", "failed", "cancelled"}
                          /\ answer'[r] \in Requests
  BY AnswersOf DEF BInv, BTypeOK
<1>3. BTypeOK'
  <2>1. queue' \in Seq(Requests) /\ batch' = <<>> /\ batch' \in Seq(Requests) /\ task' = "idle"
        /\ Len(batch') <= max_batch_size
    BY BatchSizeAssumption DEF BInv, BTypeOK, Replied
  <2>2. future' \in [Requests -> {"none", "pending", "result", "failed", "cancelled"}]
    BY <1>1, <1>2
  <2>3. answer' \in [Requests -> Requests] BY <1>1, <1>2
  <2> QED BY <2>1, <2>2, <2>3 DEF BTypeOK
<1>4. ResultIsOwn' BY AnswersOf DEF BInv, ResultIsOwn, Pending
<1>5. \A r \in Requests : Pending(r)' => Pending(r) /\ Among(r, queue)
  BY AnswersOf DEF BInv, Pending
<1>6. \A r \in Requests : future[r] # "none" => future'[r] # "none" BY AnswersOf
<1>7. batch' = <<>> /\ UNCHANGED queue BY DEF Replied
<1> QED BY <1>3, <1>4, <1>5, <1>6, <1>7, FuturesMove

LEMMA RaisedKeeps == BInv /\ Raised => BInv'
<1> SUFFICES ASSUME BInv, Raised PROVE BInv' OBVIOUS
<1>1. \A r \in Requests : future'[r] = IF Among(r, batch) /\ Pending(r) THEN "failed" ELSE future[r]
  BY DEF Raised, Contains, Among, BInv, BTypeOK
<1>2. future' = [r \in Requests |-> future'[r]] BY DEF Raised
<1>3. BTypeOK' BY <1>1, <1>2, BatchSizeAssumption DEF BInv, BTypeOK, Raised
<1>4. ResultIsOwn' BY <1>1 DEF BInv, ResultIsOwn, Raised
<1>5. \A r \in Requests : Pending(r)' => Pending(r) /\ Among(r, queue)
  BY <1>1 DEF BInv, Pending
<1>6. batch' = <<>> /\ UNCHANGED queue BY DEF Raised
<1> QED BY <1>1, <1>3, <1>4, <1>5, <1>6, FuturesMove

LEMMA StopKeeps == BInv /\ Stop => BInv'
<1> SUFFICES ASSUME BInv, Stop PROVE BInv' OBVIOUS
<1>1. BTypeOK' BY BatchSizeAssumption DEF BInv, BTypeOK, Stop
<1> QED BY <1>1, FuturesMove DEF BInv, Stop, Pending, ResultIsOwn

LEMMA BNextKeeps == BInv /\ [BNext]_bvars => BInv'
<1> SUFFICES ASSUME BInv, [BNext]_bvars PROVE BInv' OBVIOUS
<1>1. CASE UNCHANGED bvars
  <2>1. BTypeOK' BY <1>1 DEF BInv, BTypeOK, bvars
  <2> QED BY <1>1, <2>1, FuturesMove DEF BInv, bvars, Pending, ResultIsOwn
<1> QED BY <1>1, SubmitKeeps, CancelKeeps, TakeFirstKeeps, TakeNextKeeps, FlushKeeps,
           AnsweredKeeps, RaisedKeeps, StopKeeps DEF BNext, Run

LEMMA BInvHolds == BSpec => []BInv
BY BInitHolds, BNextKeeps, PTL DEF BSpec

\* batcher.py: a request somebody waits for is in the queue or in the batch, once.
THEOREM PendingRequestsAreHeld == BSpec => []PendingIsHeld
<1>1. BInv => PendingIsHeld BY OnceInBoth DEF PendingIsHeld
<1> QED BY <1>1, BInvHolds, PTL

\* batcher.py: whoever else was in the batch, the result is for one's own text.
THEOREM ResultsAreOwn == BSpec => []ResultIsOwn
<1>1. BInv => ResultIsOwn BY DEF BInv
<1> QED BY <1>1, BInvHolds, PTL

\* batcher.py: nobody fails in a batch that answers another.
THEOREM BatchesAreAnsweredTogether == BSpec => BatchAnsweredTogether
<1>1. BInv /\ [BNext]_bvars => [BatchAnsweredTogetherStep]_bvars
  <2> SUFFICES ASSUME BInv, [BNext]_bvars,
                      NEW r \in Requests, NEW s \in Requests,
                      Pending(r), future'[r] = "result", Pending(s), future'[s] = "failed"
               PROVE  FALSE
    BY DEF BatchAnsweredTogetherStep
  <2>1. CASE Replied BY <2>1, AnswersOf DEF Pending
  <2>2. CASE Raised BY <2>2 DEF Raised, Pending
  <2>3. ASSUME NEW q \in Requests, Submit(q) \/ Cancel(q) PROVE FALSE
    BY <2>3 DEF Submit, Cancel, Pending, BInv, BTypeOK
  <2>4. CASE TakeFirst \/ TakeNext \/ Flush \/ Stop \/ UNCHANGED bvars
    BY <2>4 DEF TakeFirst, TakeNext, Flush, Stop, bvars, Pending
  <2> QED BY <2>1, <2>2, <2>3, <2>4 DEF BNext, Run
<1> QED BY <1>1, BInvHolds, PTL DEF BatchAnsweredTogether, BSpec
=============================================================================
