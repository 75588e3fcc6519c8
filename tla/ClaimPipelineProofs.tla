------------------------- MODULE ClaimPipelineProofs -------------------------
(***************************************************************************)
(* Theorems about ClaimPipeline: for any number of claims and of things    *)
(* that go wrong.                                                          *)
(***************************************************************************)
EXTENDS ClaimPipeline, TLAPS

Messages == Claims \cup {Garbage}

Consumer == [position : Nat, committed : Nat, hand : Claims \cup {None}]

\* A consumer is on its topic and has committed no more than it was handed.
OnTopic(consumer, topic) ==
  /\ consumer \in Consumer
  /\ consumer.committed <= consumer.position
  /\ consumer.position <= Len(topic)

\* Every variable is well-formed.
Types ==
  /\ raw \in Seq(Messages) /\ flagged \in Seq(Messages)
  /\ OnTopic(engine, raw) /\ OnTopic(worker, flagged)
  /\ post \in {"none", "sent", "anchored"}
  /\ worker.hand = None => post = "none"
  /\ abandoned \in [Claims -> Nat] /\ anchored \in [Claims -> Nat]
  /\ processed \subseteq Claims /\ dead \subseteq Claims /\ logged \subseteq Claims
  /\ unnoted \in [Claims -> Nat]

\* c has a report that somebody on the worker's side knows or is about to know.
Known(c) == c \in processed \/ (post = "anchored" /\ worker.hand = c)

(***************************************************************************)
(* What makes the two invariants inductive: a request is only ever under   *)
(* way for a claim that is not noted in processed, and one report of each  *)
(* claim is accounted for by that note, the others by requests for it      *)
(* whose answer was never noted.                                           *)
(***************************************************************************)
Accounts ==
  /\ post # "none" => worker.hand \notin processed
  /\ \A c \in Claims : /\ Known(c) => anchored[c] > 0
                       /\ anchored[c] + abandoned[c] <= unnoted[c] + (IF Known(c) THEN 1 ELSE 0)

-----------------------------------------------------------------------------
(* Consumers. *)

LEMMA FetchedOnTopic ==
  ASSUME NEW k, NEW t \in Seq(Messages), OnTopic(k, t), MayFetch(k, t)
  PROVE  OnTopic(Fetched(k, t), t) /\ Fetched(k, t).hand \in Claims
<1>1. k.position + 1 \in 1 .. Len(t) BY DEF OnTopic, MayFetch, Consumer
<1>2. t[k.position + 1] \in Claims BY <1>1 DEF Messages, MayFetch
<1>3. Fetched(k, t) \in Consumer
  <2> DEFINE next == [k EXCEPT !.position = k.position + 1]
  <2>1. next \in Consumer BY DEF OnTopic, Consumer
  <2>2. Fetched(k, t) = [next EXCEPT !.hand = t[k.position + 1]] BY DEF Fetched
  <2> HIDE DEF next
  <2> QED BY <1>2, <2>1, <2>2 DEF Consumer
<1>4. /\ Fetched(k, t).position = k.position + 1
      /\ Fetched(k, t).committed = k.committed
      /\ Fetched(k, t).hand = t[k.position + 1]
  BY DEF Fetched, OnTopic, Consumer
<1> QED BY <1>1, <1>2, <1>3, <1>4 DEF OnTopic, Consumer

LEMMA DroppedOnTopic ==
  ASSUME NEW k, NEW t \in Seq(Messages), OnTopic(k, t)
  PROVE  OnTopic(Dropped(k), t)
BY DEF OnTopic, Dropped, Consumer

LEMMA CommittedOnTopic ==
  ASSUME NEW k, NEW t \in Seq(Messages), OnTopic(k, t)
  PROVE  OnTopic(Committed(k), t) /\ Committed(k).hand = k.hand
BY DEF OnTopic, Committed, Consumer

LEMMA RestartedOnTopic ==
  ASSUME NEW k, NEW t \in Seq(Messages), OnTopic(k, t)
  PROVE  /\ OnTopic(Crashed(k), t) /\ Crashed(k).hand = None
         /\ OnTopic(Stopped(k), t) /\ Stopped(k).hand = None
<1>1. OnTopic(Stopped(k), t) BY CommittedOnTopic, DroppedOnTopic DEF Stopped
<1>2. Stopped(k).hand = None
  <2>1. Committed(k) \in Consumer BY CommittedOnTopic DEF OnTopic
  <2> QED BY <2>1 DEF Stopped, Dropped, Consumer
<1>3. OnTopic(Crashed(k), t) /\ Crashed(k).hand = None BY DEF OnTopic, Crashed, Consumer
<1> QED BY <1>1, <1>2, <1>3

LEMMA LongerTopic ==
  ASSUME NEW k, NEW t \in Seq(Messages), OnTopic(k, t), NEW c \in Messages
  PROVE  Append(t, c) \in Seq(Messages) /\ OnTopic(k, Append(t, c))
BY DEF OnTopic, Consumer

LEMMA LastInTopic ==
  ASSUME NEW t \in Seq(Messages), t # <<>>, Last(t) # Garbage
  PROVE  Last(t) \in Claims
BY DEF Last, Messages

-----------------------------------------------------------------------------
(* Types. *)

LEMMA TypesInit == PInit => Types
BY DEF PInit, Types, OnTopic, NewConsumer, Consumer

LEMMA TypesNext == Types /\ [PNext]_pvars => Types'
<1> SUFFICES ASSUME Types, [PNext]_pvars PROVE Types'
  OBVIOUS
<1> USE ClaimsAssumption
<1>1. ASSUME NEW c \in Claims, Ingest(c) PROVE Types'
  BY <1>1, LongerTopic DEF Messages, Types, Ingest, gateway, outcomes
<1>2. ASSUME NEW c \in Claims, AbandonedEnds(c) PROVE Types'
  <2>1. abandoned[c] \in Nat /\ anchored[c] \in Nat BY DEF Types
  <2>2. abandoned[c] - 1 \in Nat /\ anchored[c] + 1 \in Nat BY <1>2, <2>1 DEF AbandonedEnds
  <2>3. abandoned' \in [Claims -> Nat] /\ anchored' \in [Claims -> Nat]
    BY <1>2, <2>2 DEF AbandonedEnds, Types
  <2> QED BY <1>2, <2>3 DEF Types, AbandonedEnds, topics, outcomes
<1>3. ASSUME EngineFetch PROVE Types'
  BY <1>3, FetchedOnTopic DEF Types, EngineFetch, topics, gateway, outcomes
<1>4. ASSUME EngineScore PROVE Types'
  <2>1. engine.hand \in Claims BY <1>4 DEF Types, EngineScore, OnTopic, Consumer
  <2> QED BY <1>4, <2>1, LongerTopic, DroppedOnTopic DEF Messages, Types, EngineScore, gateway, outcomes
<1>5. ASSUME EngineCommit PROVE Types'
  BY <1>5, CommittedOnTopic DEF Types, EngineCommit, topics, gateway, outcomes
<1>6. ASSUME WorkerFetch PROVE Types'
  BY <1>6, FetchedOnTopic DEF Types, WorkerFetch, MayFetch, topics, gateway, outcomes
<1>7. ASSUME Skip PROVE Types'
  BY <1>7, DroppedOnTopic DEF Types, Skip, topics, gateway, outcomes
<1>8. ASSUME Incomplete PROVE Types'
  <2>1. worker.hand \in Claims BY <1>8 DEF Incomplete
  <2> QED BY <1>8, <2>1, DroppedOnTopic DEF Types, Incomplete, DeadLetter, topics, gateway
<1>9. ASSUME Post PROVE Types'
  BY <1>9 DEF Types, Post, topics, gateway, outcomes
<1>10. ASSUME GatewayAnchors PROVE Types'
  <2>1. worker.hand \in Claims BY <1>10 DEF GatewayAnchors, Types, OnTopic, Consumer
  <2> QED BY <1>10, <2>1 DEF Types, GatewayAnchors, topics, outcomes
<1>11. ASSUME Mark PROVE Types'
  <2>1. worker.hand \in Claims BY <1>11 DEF Mark, Types, OnTopic, Consumer
  <2> QED BY <1>11, <2>1, DroppedOnTopic DEF Types, Mark, topics, gateway
<1>12. ASSUME WorkerCommit PROVE Types'
  BY <1>12, CommittedOnTopic DEF Types, WorkerCommit, topics, gateway, outcomes
<1>13. ASSUME ResendRaw PROVE Types'
  BY <1>13, LastInTopic, LongerTopic DEF Messages, Types, ResendRaw, gateway, outcomes
<1>14. ASSUME ResendFlagged PROVE Types'
  BY <1>14, LastInTopic, LongerTopic DEF Messages, Types, ResendFlagged, gateway, outcomes
<1>15. ASSUME EngineFails PROVE Types'
  BY <1>15, DroppedOnTopic DEF Types, EngineFails, topics, gateway, outcomes
<1>16. ASSUME EngineRestart PROVE Types'
  BY <1>16, RestartedOnTopic DEF Types, EngineRestart, topics, gateway, outcomes
<1>17. ASSUME Refused PROVE Types'
  <2>1. worker.hand \in Claims BY <1>17 DEF Refused, Types, OnTopic, Consumer
  <2> QED BY <1>17, <2>1, DroppedOnTopic DEF Types, Refused, DeadLetter, topics, gateway
<1>18. ASSUME PostTimesOut PROVE Types'
  <2>1. worker.hand \in Claims BY <1>18 DEF PostTimesOut, Types, OnTopic, Consumer
  <2> QED BY <1>18, <2>1, DroppedOnTopic DEF Types, PostTimesOut, LeaveBehind, DeadLetter, topics
<1>19. ASSUME WorkerRestart PROVE Types'
  <2>1. /\ LeaveBehind /\ post' = "none"
        /\ worker' = Crashed(worker) \/ worker' = Stopped(worker)
        /\ UNCHANGED <<raw, flagged, engine, anchored, processed, dead, logged>>
    BY <1>19, Zenon DEF WorkerRestart, topics, outcomes
  <2>2. post # "none" => worker.hand \in Claims BY DEF Types, OnTopic, Consumer
  <2>3. unnoted' \in [Claims -> Nat] /\ abandoned' \in [Claims -> Nat] BY <2>1, <2>2 DEF Types, LeaveBehind
  <2>4. OnTopic(worker', flagged) BY <2>1, RestartedOnTopic DEF Types
  <2> QED BY <2>1, <2>3, <2>4 DEF Types
<1>20. ASSUME Replay PROVE Types'
  <2>1. PICK c \in dead : flagged' = Append(flagged, c) BY <1>20 DEF Replay
  <2>2. c \in Messages BY DEF Messages, Types
  <2>3. UNCHANGED <<raw, engine, worker, post, abandoned, anchored, outcomes, unnoted>>
    BY <1>20 DEF Replay, gateway
  <2> QED BY <2>1, <2>2, <2>3, LongerTopic DEF Types, outcomes
<1>21. ASSUME GarbageArrives PROVE Types'
  <2>1. Garbage \in Messages BY DEF Messages
  <2>2. UNCHANGED <<engine, worker, post, abandoned, anchored, outcomes, unnoted>>
    BY <1>21 DEF GarbageArrives, gateway
  <2>3. CASE raw' = Append(raw, Garbage) /\ UNCHANGED flagged
    BY <2>1, <2>2, <2>3, LongerTopic DEF Types, outcomes
  <2>4. CASE flagged' = Append(flagged, Garbage) /\ UNCHANGED raw
    BY <2>1, <2>2, <2>4, LongerTopic DEF Types, outcomes
  <2> QED BY <1>21, <2>3, <2>4 DEF GarbageArrives
<1>22. ASSUME HandlerRaises PROVE Types'
  <2>1. worker.hand \in Claims BY <1>22 DEF HandlerRaises, Types, OnTopic, Consumer
  <2>2. unnoted' \in [Claims -> Nat] /\ abandoned' \in [Claims -> Nat]
    <3>1. CASE LeaveBehind BY <2>1, <3>1 DEF Types, LeaveBehind
    <3>2. CASE UNCHANGED <<abandoned, unnoted>> BY <3>2 DEF Types
    <3> QED BY <1>22, <3>1, <3>2 DEF HandlerRaises
  <2>3. /\ post' = "none" /\ worker' = Dropped(worker) /\ logged' = logged \cup {worker.hand}
        /\ UNCHANGED <<raw, flagged, engine, anchored, processed, dead>>
    BY <1>22, Zenon DEF HandlerRaises, topics
  <2> QED BY <2>1, <2>2, <2>3, DroppedOnTopic DEF Types
<1>23. ASSUME UNCHANGED pvars PROVE Types'
  BY <1>23 DEF Types, pvars
<1> QED
  BY <1>1, <1>2, <1>3, <1>4, <1>5, <1>6, <1>7, <1>8, <1>9, <1>10, <1>11, <1>12, <1>13, <1>14,
     <1>15, <1>16, <1>17, <1>18, <1>19, <1>20, <1>21, <1>22, <1>23
     DEF PNext, Engine, Worker, Failures

\* Whatever fails, the consumers stay on their topics and the gateway serves
\* what the worker has in hand.
THEOREM PipelineTypeCorrect == PSpec => []PTypeOK
<1>1. Types => PTypeOK
  BY DEF Messages, Types, PTypeOK, OnTopic, Consumer
<1> QED BY <1>1, TypesInit, TypesNext, PTL DEF PSpec

-----------------------------------------------------------------------------
(* Accounts. *)

LEMMA AccountsInit == PInit => Accounts
BY DEF PInit, Accounts, Known

\* Most steps leave the accounts and the request under way alone.
LEMMA AccountsUntouched ==
  ASSUME Accounts, UNCHANGED <<post, abandoned, anchored, processed, unnoted>>,
         post # "none" => worker'.hand = worker.hand
  PROVE  Accounts'
BY DEF Accounts, Known

\* A request that is given up is counted, whatever the gateway does with it.
LEMMA AccountsLeftBehind ==
  ASSUME Types, Accounts, LeaveBehind, post' = "none", UNCHANGED <<anchored, processed>>
  PROVE  Accounts'
<1> SUFFICES ASSUME NEW c \in Claims
    PROVE /\ Known(c)' => anchored'[c] > 0
          /\ anchored'[c] + abandoned'[c] <= unnoted'[c] + (IF Known(c)' THEN 1 ELSE 0)
  BY DEF Accounts
<1> USE ClaimsAssumption
<1>1. anchored[c] \in Nat /\ abandoned[c] \in Nat /\ unnoted[c] \in Nat BY DEF Types
<1>2. /\ Known(c) => anchored[c] > 0
      /\ anchored[c] + abandoned[c] <= unnoted[c] + (IF Known(c) THEN 1 ELSE 0)
  BY DEF Accounts
<1>3. Known(c)' <=> c \in processed BY DEF Known
<1>4. Known(c)' => Known(c) BY <1>3 DEF Known
<1>5. CASE post = "none"
  <2>1. Known(c) <=> Known(c)' BY <1>3, <1>5 DEF Known
  <2>2. unnoted' = unnoted /\ abandoned' = abandoned BY <1>5 DEF LeaveBehind
  <2> QED BY <1>2, <2>1, <2>2
<1>6. CASE post = "sent"
  <2>1. Known(c) <=> Known(c)' BY <1>3, <1>6 DEF Known
  <2>2. abandoned'[c] - abandoned[c] = unnoted'[c] - unnoted[c] BY <1>1, <1>6 DEF LeaveBehind, Types
  <2>3. abandoned'[c] \in Nat /\ unnoted'[c] \in Nat BY <1>1, <1>6 DEF LeaveBehind, Types
  <2> HIDE DEF Known
  <2>4. anchored'[c] = anchored[c] OBVIOUS
  <2> QED BY <1>1, <1>2, <2>1, <2>2, <2>3, <2>4
<1>7. CASE post = "anchored"
  <2>1. abandoned' = abandoned /\ anchored' = anchored BY <1>7 DEF LeaveBehind
  <2>2. CASE c = worker.hand
    <3>1. unnoted'[c] = unnoted[c] + 1 BY <1>7, <2>2 DEF LeaveBehind, Types
    <3> QED BY <1>1, <1>2, <1>4, <2>1, <3>1
  <2>3. CASE c # worker.hand
    <3>1. unnoted'[c] = unnoted[c] BY <1>1, <1>7, <2>3 DEF LeaveBehind, Types
    <3>2. Known(c) <=> Known(c)' BY <1>3, <2>3 DEF Known
    <3> QED BY <1>1, <1>2, <2>1, <3>1, <3>2
  <2> QED BY <2>2, <2>3
<1> QED BY <1>5, <1>6, <1>7 DEF Types

LEMMA AccountsNext == Types /\ Accounts /\ [PNext]_pvars => Accounts'
<1> SUFFICES ASSUME Types, Accounts, [PNext]_pvars PROVE Accounts'
  OBVIOUS
<1> USE ClaimsAssumption
<1>1. ASSUME NEW c \in Claims, Ingest(c) PROVE Accounts'
  BY <1>1, AccountsUntouched DEF Ingest, gateway, outcomes
<1>2. ASSUME NEW c \in Claims, AbandonedEnds(c) PROVE Accounts'
  <2> SUFFICES ASSUME NEW d \in Claims
      PROVE /\ Known(d)' => anchored'[d] > 0
            /\ anchored'[d] + abandoned'[d] <= unnoted'[d] + (IF Known(d)' THEN 1 ELSE 0)
    BY <1>2 DEF AbandonedEnds, Accounts, outcomes
  <2>1. anchored[d] \in Nat /\ abandoned[d] \in Nat /\ unnoted[d] \in Nat BY DEF Types
  <2>2. /\ Known(d) => anchored[d] > 0
        /\ anchored[d] + abandoned[d] <= unnoted[d] + (IF Known(d) THEN 1 ELSE 0)
    BY DEF Accounts
  <2>3. (Known(d)' <=> Known(d)) /\ unnoted' = unnoted
    BY <1>2 DEF AbandonedEnds, Known, outcomes
  <2>4. /\ anchored'[d] \in Nat /\ anchored'[d] >= anchored[d]
        /\ anchored'[d] + abandoned'[d] <= anchored[d] + abandoned[d]
        /\ abandoned'[d] \in Nat
    <3>1. CASE d = c BY <1>2, <2>1, <3>1 DEF AbandonedEnds, Types
    <3>2. CASE d # c BY <1>2, <2>1, <3>2 DEF AbandonedEnds, Types
    <3> QED BY <3>1, <3>2
  <2> QED BY <2>1, <2>2, <2>3, <2>4
<1>3. ASSUME Engine PROVE Accounts'
  BY <1>3, AccountsUntouched DEF Engine, EngineFetch, EngineScore, topics, gateway, outcomes
<1>4. ASSUME EngineCommit PROVE Accounts'
  BY <1>4, AccountsUntouched DEF EngineCommit, topics, gateway, outcomes
<1>5. ASSUME WorkerFetch PROVE Accounts'
  <2>1. post = "none" BY <1>5 DEF WorkerFetch, MayFetch, Types
  <2> QED BY <1>5, <2>1, AccountsUntouched DEF WorkerFetch, topics, gateway, outcomes
<1>6. ASSUME Skip PROVE Accounts'
  BY <1>6, AccountsUntouched DEF Skip, topics, gateway, outcomes
<1>7. ASSUME Incomplete PROVE Accounts'
  BY <1>7, AccountsUntouched DEF Incomplete, DeadLetter, topics, gateway
<1>8. ASSUME Post PROVE Accounts'
  BY <1>8 DEF Post, Accounts, Known, alreadySubmitted, topics, gateway, outcomes
<1>9. ASSUME GatewayAnchors PROVE Accounts'
  <2>1. worker.hand \in Claims BY <1>9 DEF GatewayAnchors, Types, OnTopic, Consumer
  <2>2. worker.hand \notin processed BY <1>9 DEF GatewayAnchors, Accounts
  <2> SUFFICES ASSUME NEW c \in Claims
      PROVE /\ Known(c)' => anchored'[c] > 0
            /\ anchored'[c] + abandoned'[c] <= unnoted'[c] + (IF Known(c)' THEN 1 ELSE 0)
    BY <1>9, <2>2 DEF GatewayAnchors, Accounts, outcomes
  <2>3. anchored[c] \in Nat /\ abandoned[c] \in Nat /\ unnoted[c] \in Nat BY DEF Types
  <2>4. /\ Known(c) => anchored[c] > 0
        /\ anchored[c] + abandoned[c] <= unnoted[c] + (IF Known(c) THEN 1 ELSE 0)
    BY DEF Accounts
  <2>5. abandoned' = abandoned /\ unnoted' = unnoted BY <1>9 DEF GatewayAnchors
  <2>6. CASE c = worker.hand
    <3>1. ~Known(c) /\ Known(c)' BY <1>9, <2>2, <2>6 DEF GatewayAnchors, Known
    <3>2. anchored'[c] = anchored[c] + 1 BY <1>9, <2>6 DEF GatewayAnchors, Types
    <3> QED BY <2>3, <2>4, <2>5, <3>1, <3>2
  <2>7. CASE c # worker.hand
    <3>1. Known(c)' <=> Known(c) BY <1>9, <2>7 DEF GatewayAnchors, Known, outcomes
    <3>2. anchored'[c] = anchored[c] BY <1>9, <2>7 DEF GatewayAnchors, Types
    <3> QED BY <2>4, <2>5, <3>1, <3>2
  <2> QED BY <2>6, <2>7
<1>10. ASSUME Mark PROVE Accounts'
  BY <1>10 DEF Mark, Accounts, Known, gateway
<1>11. ASSUME WorkerCommit PROVE Accounts'
  BY <1>11, CommittedOnTopic DEF WorkerCommit, Types, topics, gateway, outcomes, Accounts, Known
<1>12. ASSUME ResendRaw \/ ResendFlagged \/ GarbageArrives \/ EngineFails \/ EngineRestart
             \/ Replay PROVE Accounts'
  BY <1>12, AccountsUntouched
     DEF ResendRaw, ResendFlagged, GarbageArrives, EngineFails, EngineRestart, Replay, topics,
         gateway, outcomes
<1>13. ASSUME Refused PROVE Accounts'
  BY <1>13 DEF Refused, DeadLetter, Accounts, Known, gateway
<1>14. ASSUME PostTimesOut PROVE Accounts'
  <2>1. LeaveBehind /\ post' = "none" /\ UNCHANGED <<anchored, processed>>
    BY <1>14, Zenon DEF PostTimesOut, DeadLetter
  <2> QED BY <2>1, AccountsLeftBehind
<1>15. ASSUME WorkerRestart PROVE Accounts'
  <2>1. LeaveBehind /\ post' = "none" /\ UNCHANGED <<anchored, processed>>
    BY <1>15, Zenon DEF WorkerRestart, outcomes
  <2> QED BY <2>1, AccountsLeftBehind
<1>16. ASSUME HandlerRaises PROVE Accounts'
  <2>1. post' = "none" /\ UNCHANGED <<anchored, processed>> BY <1>16, Zenon DEF HandlerRaises
  <2>2. CASE LeaveBehind BY <2>1, <2>2, AccountsLeftBehind
  <2>3. CASE post = "sent" /\ UNCHANGED <<abandoned, unnoted>> BY <2>1, <2>3 DEF Accounts, Known
  <2> QED BY <1>16, <2>2, <2>3, Zenon DEF HandlerRaises
<1>17. ASSUME UNCHANGED pvars PROVE Accounts'
  BY <1>17, AccountsUntouched DEF pvars
<1> QED
  BY <1>1, <1>2, <1>3, <1>4, <1>5, <1>6, <1>7, <1>8, <1>9, <1>10, <1>11, <1>12, <1>13, <1>14,
     <1>15, <1>16, <1>17 DEF PNext, Worker, Failures

LEMMA PipelineInvariant == PSpec => [](Types /\ Accounts)
<1>1. PInit => Types /\ Accounts BY TypesInit, AccountsInit
<1>2. Types /\ Accounts /\ [PNext]_pvars => Types' /\ Accounts' BY TypesNext, AccountsNext
<1> QED BY <1>1, <1>2, PTL DEF PSpec

\* Whatever is sent again, redelivered, refused, lost or replayed, the worker
\* only ever skips a claim that has a report on the ledger.
THEOREM ProcessedClaimsAreAnchored == PSpec => []ProcessedIsAnchored
<1>1. Types /\ Accounts => ProcessedIsAnchored
  <2> SUFFICES ASSUME Types, Accounts, NEW c \in processed PROVE anchored[c] > 0
    BY DEF ProcessedIsAnchored
  <2> QED BY DEF Accounts, Known, Types
<1> QED BY <1>1, PipelineInvariant, PTL

\* However many times a claim is delivered, it gets one report and at most one
\* more for every request of its own whose answer the worker did not wait for or could
\* not note.
THEOREM ExtraReportsAreAccounted == PSpec => []ExtraReportsAreUnnoted
<1>1. Types /\ Accounts => ExtraReportsAreUnnoted
  <2> SUFFICES ASSUME Types, Accounts, NEW c \in Claims
      PROVE anchored[c] + abandoned[c] <= 1 + unnoted[c]
    BY DEF ExtraReportsAreUnnoted
  <2>1. anchored[c] \in Nat /\ abandoned[c] \in Nat /\ unnoted[c] \in Nat BY DEF Types
  <2>2. anchored[c] + abandoned[c] <= unnoted[c] + (IF Known(c) THEN 1 ELSE 0) BY DEF Accounts
  <2> QED BY <2>1, <2>2
<1> QED BY <1>1, PipelineInvariant, PTL

-----------------------------------------------------------------------------
(* What the worker has passed. *)

\* Of the first p messages all are settled but for the last, which may be in hand.
Passed(t, p, hand, settled) ==
  \A i \in 1 .. p : t[i] \in settled \/ (i = p /\ t[i] = hand)

LEMMA PassedIs ==
  /\ PassedIsSettled <=> (disturbed \cap {"crash worker", "stop worker"} = {} =>
       Passed(flagged, worker.position, worker.hand, processed \cup dead \cup logged))
  /\ PassedIsSettled' <=> (disturbed' \cap {"crash worker", "stop worker"} = {} =>
       Passed(flagged', worker'.position, worker'.hand, processed' \cup dead' \cup logged'))
BY Zenon DEF PassedIsSettled, Passed

\* The topic may grow, and the worker let go of its message once it is settled.
LEMMA PassedGrows ==
  ASSUME NEW t \in Seq(Messages), NEW longer, NEW p \in Nat, p <= Len(t), NEW hand, NEW next,
         NEW settled, NEW more, Passed(t, p, hand, settled),
         longer = t \/ \E c \in Messages : longer = Append(t, c),
         settled \subseteq more, next = hand \/ hand \in more
  PROVE  Passed(longer, p, next, more)
<1> SUFFICES ASSUME NEW i \in 1 .. p PROVE longer[i] \in more \/ (i = p /\ longer[i] = next)
  BY DEF Passed
<1>1. i \in 1 .. Len(t) OBVIOUS
<1>2. longer[i] = t[i] BY <1>1
<1>3. t[i] \in settled \/ (i = p /\ t[i] = hand) BY DEF Passed
<1> QED BY <1>2, <1>3

\* The next message is taken with empty hands, when all before it are settled.
LEMMA PassedFetched ==
  ASSUME NEW t \in Seq(Messages), NEW p \in Nat, p < Len(t), NEW settled,
         None \notin Messages, Passed(t, p, None, settled)
  PROVE  Passed(t, p + 1, t[p + 1], settled)
<1> SUFFICES ASSUME NEW i \in 1 .. p + 1, i # p + 1 PROVE t[i] \in settled
  BY DEF Passed
<1>1. i \in 1 .. p /\ i \in 1 .. Len(t) OBVIOUS
<1>2. t[i] \in Messages BY <1>1
<1>3. i # p + 1 OBVIOUS
<1> QED BY <1>1, <1>2, <1>3 DEF Passed

LEMMA SettledStays ==
  ASSUME Types, PassedIsSettled, disturbed \subseteq disturbed',
         processed \subseteq processed', dead \subseteq dead', logged \subseteq logged',
         flagged' = flagged \/ \E c \in Messages : flagged' = Append(flagged, c),
         worker'.position = worker.position,
         worker'.hand = worker.hand \/ worker.hand \in processed' \cup dead' \cup logged'
  PROVE  PassedIsSettled'
<1> SUFFICES ASSUME disturbed' \cap {"crash worker", "stop worker"} = {}
    PROVE Passed(flagged', worker'.position, worker'.hand, processed' \cup dead' \cup logged')
  BY PassedIs
<1>1. worker.position \in Nat /\ worker.position <= Len(flagged) /\ flagged \in Seq(Messages)
  BY DEF Types, OnTopic, Consumer
<1>2. Passed(flagged, worker.position, worker.hand, processed \cup dead \cup logged)
  <2>1. disturbed \cap {"crash worker", "stop worker"} = {} OBVIOUS
  <2> QED BY <2>1, PassedIs
<1>3. processed \cup dead \cup logged \subseteq processed' \cup dead' \cup logged' OBVIOUS
<1>4. Passed(flagged', worker.position, worker'.hand, processed' \cup dead' \cup logged')
  <2> DEFINE p == worker.position  hand == worker.hand  next == worker'.hand
             settled == processed \cup dead \cup logged  more == processed' \cup dead' \cup logged'
  <2>1. /\ flagged \in Seq(Messages) /\ p \in Nat /\ p <= Len(flagged)
        /\ Passed(flagged, p, hand, settled) /\ settled \subseteq more
        /\ next = hand \/ hand \in more
    BY <1>1, <1>2, <1>3
  <2> HIDE DEF p, hand, next, settled, more
  <2>2. Passed(flagged', p, next, more) BY <2>1, PassedGrows
  <2> QED BY <2>2 DEF p, next, more
<1> QED BY <1>4

LEMMA FetchSettled ==
  ASSUME Types, PassedIsSettled, WorkerFetch
  PROVE  PassedIsSettled'
<1>1. /\ worker.position \in Nat /\ worker.position < Len(flagged) /\ worker.hand = None
      /\ flagged \in Seq(Messages)
  BY DEF Types, OnTopic, Consumer, WorkerFetch, MayFetch
<1>2. worker'.position = worker.position + 1 /\ worker'.hand = flagged[worker.position + 1]
  BY DEF WorkerFetch, Fetched, Types, OnTopic, Consumer
<1>3. flagged' = flagged /\ processed' = processed /\ UNCHANGED <<dead, logged>> /\ disturbed' = disturbed
  BY DEF WorkerFetch, topics, outcomes
<1> SUFFICES ASSUME disturbed \cap {"crash worker", "stop worker"} = {}
    PROVE Passed(flagged', worker'.position, worker'.hand, processed' \cup dead' \cup logged')
  BY <1>3, PassedIs
<1>4. Passed(flagged, worker.position, None, processed \cup dead \cup logged) BY <1>1, PassedIs
<1>5. Passed(flagged, worker.position + 1, flagged[worker.position + 1], processed \cup dead \cup logged)
  BY <1>1, <1>4, PassedFetched, ClaimsAssumption DEF Messages
<1> QED BY <1>2, <1>3, <1>5

LEMMA SettledNext ==
  ASSUME Types, PassedIsSettled, [PNext]_pvars
  PROVE  PassedIsSettled'
<1>1. worker \in Consumer BY DEF Types, OnTopic
<1>2. Dropped(worker).position = worker.position BY <1>1 DEF Dropped, Consumer
<1>3. /\ Committed(worker).position = worker.position
      /\ Committed(worker).hand = worker.hand
  BY <1>1 DEF Committed, Consumer
<1>4. ASSUME NEW c \in Claims, Ingest(c) \/ AbandonedEnds(c) PROVE PassedIsSettled'
  BY <1>4, SettledStays DEF Messages, Ingest, AbandonedEnds, topics, outcomes
<1>5. CASE EngineFetch \/ EngineCommit
  BY <1>5, SettledStays DEF EngineFetch, EngineCommit, topics, outcomes
<1>6. CASE EngineScore
  <2>1. engine.hand \in Messages BY <1>6 DEF Messages, Types, EngineScore, OnTopic, Consumer
  <2>2. /\ flagged' = Append(flagged, engine.hand) /\ worker' = worker
        /\ processed' = processed /\ UNCHANGED <<dead, logged>> /\ disturbed' = disturbed
    BY <1>6 DEF EngineScore, outcomes
  <2> QED BY <2>1, <2>2, SettledStays
<1>7. CASE WorkerFetch BY <1>7, FetchSettled
<1>8. CASE Skip
  <2>1. /\ worker' = Dropped(worker) /\ worker.hand \in processed
        /\ flagged' = flagged /\ processed' = processed /\ UNCHANGED <<dead, logged>> /\ disturbed' = disturbed
    BY <1>8 DEF Skip, alreadySubmitted, topics, outcomes
  <2> QED BY <1>2, <2>1, SettledStays
<1>9. CASE Incomplete \/ Refused \/ PostTimesOut
  <2>1. /\ worker' = Dropped(worker) /\ dead' = dead \cup {worker.hand}
        /\ flagged' = flagged /\ UNCHANGED <<processed, logged>> /\ disturbed \subseteq disturbed'
    BY <1>9 DEF Incomplete, Refused, PostTimesOut, DeadLetter, Disturb, topics
  <2> QED BY <1>2, <2>1, SettledStays
<1>10. CASE Post \/ GatewayAnchors
  BY <1>10, SettledStays DEF Post, GatewayAnchors, topics, outcomes
<1>11. CASE Mark
  <2>1. /\ worker' = Dropped(worker) /\ processed' = processed \cup {worker.hand}
        /\ flagged' = flagged /\ UNCHANGED <<dead, logged>> /\ disturbed' = disturbed
    BY <1>11 DEF Mark, topics
  <2> QED BY <1>2, <2>1, SettledStays
<1>12. CASE WorkerCommit
  <2>1. /\ worker' = Committed(worker)
        /\ flagged' = flagged /\ processed' = processed /\ UNCHANGED <<dead, logged>> /\ disturbed' = disturbed
    BY <1>12 DEF WorkerCommit, topics, outcomes
  <2> QED BY <1>3, <2>1, SettledStays
<1>13. CASE ResendRaw \/ EngineFails \/ EngineRestart
  <2>1. /\ worker' = worker /\ flagged' = flagged /\ processed' = processed /\ UNCHANGED <<dead, logged>>
        /\ disturbed \subseteq disturbed'
    BY <1>13, Zenon DEF ResendRaw, EngineFails, EngineRestart, Disturb, topics, outcomes
  <2> QED BY <2>1, SettledStays
<1>14. CASE ResendFlagged \/ Replay \/ GarbageArrives
  <2>1. flagged' = flagged \/ \E c \in Messages : flagged' = Append(flagged, c)
    <3>1. CASE ResendFlagged BY <3>1, LastInTopic DEF Messages, ResendFlagged, Types
    <3>2. CASE Replay BY <3>2 DEF Messages, Replay, Types
    <3>3. CASE GarbageArrives BY <3>3 DEF Messages, GarbageArrives
    <3> QED BY <1>14, <3>1, <3>2, <3>3
  <2>2. /\ worker' = worker /\ processed' = processed /\ UNCHANGED <<dead, logged>>
        /\ disturbed \subseteq disturbed'
    BY <1>14 DEF ResendFlagged, Replay, GarbageArrives, Disturb, outcomes
  <2> QED BY <2>1, <2>2, SettledStays
<1>15. CASE WorkerRestart
  <2>1. "crash worker" \in disturbed' \/ "stop worker" \in disturbed'
    BY <1>15, Zenon DEF WorkerRestart, Disturb
  <2> QED BY <2>1 DEF PassedIsSettled
<1>16. CASE HandlerRaises
  <2>1. /\ worker' = Dropped(worker) /\ logged' = logged \cup {worker.hand}
        /\ UNCHANGED <<flagged, processed, dead>> /\ disturbed \subseteq disturbed'
    BY <1>16 DEF HandlerRaises, Disturb, topics
  <2> QED BY <1>2, <2>1, SettledStays
<1>17. CASE UNCHANGED pvars BY <1>17, SettledStays DEF pvars, outcomes
<1> QED
  BY <1>4, <1>5, <1>6, <1>7, <1>8, <1>9, <1>10, <1>11, <1>12, <1>13, <1>14, <1>15, <1>16, <1>17
     DEF PNext, Engine, Worker, Failures

\* Unless its own loop is restarted, the submission worker leaves no message behind
\* it that is not anchored and noted, in the dead-letter file, or in the log as one whose
\* handler raised, whatever the gateway answers, whatever is sent twice or replayed, and
\* although the offsets are committed without asking how a message ended.
THEOREM PassedMessagesAreSettled == PSpec => []PassedIsSettled
<1>1. PInit => PassedIsSettled BY DEF PInit, PassedIsSettled, NewConsumer
<1>2. Types /\ PassedIsSettled /\ [PNext]_pvars => PassedIsSettled' BY SettledNext
<1>3. PSpec => []Types BY TypesInit, TypesNext, PTL DEF PSpec
<1> QED BY <1>1, <1>2, <1>3, PTL DEF PSpec
=============================================================================
