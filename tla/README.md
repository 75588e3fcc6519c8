# A formal model of the misinformation-monitoring framework

This directory holds TLA+ modules, TLC configurations and TLAPS proofs for the
framework in `src/`: a Fabric chaincode on which organisations vote on reports
of misinformation, the gateway that keeps the readable document of each report
off the chain and knows who its users are, the pipeline that brings claims to
it, and the programs that bring all of this up.

Every definition is translated from the code. `PROJECT.json` names, for each
one, the lines it stands for, and for each property a mutated definition that
breaks it.

Contents: 1 the system, 2 the modules, 3 what TLC checks, 4 what is proved,
5 what the work has found, 6 what is not modelled, 7 the plan, 8 how to run it.

## 1. The system

| component | state it keeps | operations that change it | who calls it |
|-|-|-|-|
| chaincode, `blockchain/chaincode/misinformation/go/misinformation.go` | world state: `cfg`, `org`, `admission` and `pred` keys | SetFoundingOrgLimit, RegisterOrg, RequestOrgAdmission, VoteOnOrgAdmission, FinalizeOrgAdmission, Submit, SubmitFactCheck, FinalizeReport, ExpireReport | the peers, on behalf of the gateway of each organisation |
| mock ledger, `src/mock_ledger.py` | the same in dictionaries, and a file | the same calls | the gateway in demo mode |
| Fabric and the sidecar, `apps/fabric_gateway` | transactions under way, a clock in each peer | endorse, order, validate; `/invoke` waits 60 s for the commit | blockchain gateway |
| blockchain gateway, `api/server.py`, `src/blockchain.py` | document locks, public cache | create_report, submit_fact_check, finalize_report, expire_report, the hourly expiry pass, admission routes, portal | web client, fact-checking service, submission worker |
| document store, `api/storage.py`, `src/report.py` | SQLite tables `report_index`, `reports`, `report_meta`; objects in IPFS | save_report, save_report_version, index_report | blockchain gateway |
| API keys, `api/storage.py`, `bootstrap-keys.sh`, `demo-seed.py` | tables `api_keys` and, in old databases, `org_keys` | migrate, bootstrap, apply, mint, revoke | gateway, operator, deployment |
| users and sessions, `api/auth.py`, `api/totp.py`, `api/manage.py` | accounts, failure counters, sessions, refresh tokens | login, refresh, logout, password and second-factor changes, user administration | web client, operator's CLI |
| rate limiter, `api/security.py` | a deque of hits for each address | allow, reset | gateway |
| audit log, `api/audit.py` | a table in which each entry carries its predecessor's hash | record, verify | gateway, operator's CLI |
| claim ingest worker, `apps/claim-ingest-worker` | none (Kafka has it) | ingest, public_tip | web client, `seed-claims.py` |
| flagging engine, `apps/flagging-engine` | consumer position, batch queue | score and forward, batch | Kafka |
| submission worker, `apps/submission-worker` | consumer position, table `processed`, dead-letter file | post, mark, dead-letter | Kafka |
| fact-checking service, `apps/fact-checking-service` | none of its own | reads queues, hides votes, forwards votes | web client |
| deployment, `up.py`, `down.py`, `seed-claims.py` | containers, volumes, runtime files | tear down, start, check, seed | the operator |
| IPFS gateway, web client, benchmarks | none that others rely on | forwarding, display | people |

How they interact. A tip goes to `claims.raw`, is scored onto `claims.flagged`
and posted by the submission worker to `POST /reports`. The gateway stores the
document, then submits the report to the ledger, then enters it in its index.
Fact-checkers vote through the gateway: it takes a lock on the document, reads
it, submits the vote to the ledger and, when that has committed, writes the
document back with the vote's reasoning. The chaincode decides a report in the
very vote that settles it, or after the deadline by `FinalizeReport` or
`ExpireReport`. The gateway writes the outcome to the document in a second step
and shows it, through a cache, on the public portal.

What is hard to get right, and hard to test:

* *The electorate moves under a vote.* The threshold depends on the number of
  registered organisations, but it is evaluated only when a vote arrives.
* *Calls overlap on the ledger.* Each is decided on the state its endorsers
  saw, and Fabric accepts it only if what it read has not changed.
* *The ledger and the document are two stores.* A crash, a lost answer or an
  outage of IPFS can come between the two writes, and several threads, among
  them one that takes no lock, read and write the same document.
* *Messages come twice or not at all.* Both consumers commit offsets in the
  background; requests time out in the worker (15 s) before they do in the
  gateway (60 s).
* *An account changes while somebody signs in to it.* Each handler calls the
  store several times, with a slow password check in between.
* *What was read is out of date when it is used*: the list in the public cache,
  the clock that the limiter read, the last row of the audit log.
* *Scripts are run again*, on top of what an earlier run or a failed command
  left.

`PROJECT.json` lists each hazard with its line and the properties that cover it.

## 2. The modules

| module | what it models | uses |
|-|-|-|
| `Misinformation` | the chaincode: one action per transaction, over the committed world state | |
| `ReportConsensus` | the abstract promise about one report: a growing electorate casts ballots, one each, and the question is decided once, as soon as it is settled | |
| `ConsensusRefinement` | the mapping of one report (`subject`) of `Misinformation` to `ReportConsensus` | both |
| `FabricTransactions` | the same chaincode, with endorsement, ordering and validation as separate steps, read and write sets, and a clock in each peer | an instance of `Misinformation` for guards and values |
| `MockLedger` | the demo's stand-in for the chaincode, in memory and in its file | `MirrorsChaincode` compares it with an instance of `Misinformation` |
| `GatewayDocuments` | the gateway's handlers and expiry pass, the document store, the locks | an instance of `Misinformation` as its ledger |
| `ReportViews` | what the portal publishes through its cache | |
| `BlindReview` | whom the votes on an open report are shown to: on the claim page, in the officials' console, by the gateway's read routes | `ReportViews` |
| `Sessions` | accounts, sign-ins, sessions, refresh tokens, second factors, administration | |
| `ApiKeys` | the table of API keys and the three programs that write it | |
| `AuditChain` | the hash chain of the audit log, those who append to it and `verify` | |
| `RateLimiter` | the sliding-window limiter | |
| `ClaimPipeline` | ingest worker, flagging engine, submission worker, Kafka as they use it | |
| `DynamicBatcher` | the flagging engine's batch queue, the task that serves it and the futures of those who wait | |
| `ClaimSeeding` | `seed-claims.py`, run again and again | |
| `Deployment` | `up.py` and `down.py` over what docker and the file system keep | |

`...Proofs` modules hold the theorems about the module they are named after
(section 4); `GatewayProofs` is about `GatewayDocuments`, `MisinformationProofs` about
`MockLedger` and the refinement as well, and `ServicesProofs` about the five small
modules whose state nobody shares: `ApiKeys`, `AuditChain`, `RateLimiter`, `Deployment`
and `ClaimSeeding`. `MC...` modules give the constants their values for TLC. Some of
those put components that share nothing side by side in one run and choose at
the start which of them a behaviour is about: `chosen` in `MCServices` (audit
log, limiter, views, deployment, keys, seeding, sessions) and in `MCFairness`
(batcher, undisturbed gateway), `about` in `MCChaincode` (a report, the
membership, or the mock ledger). `about` in `MCFabric` says of which kind the calls
under way are. All the others stay as they started. The sessions of `MCServices`
have two starts: an official with a second factor and a free name, a wrong password
and a renewal after her sign-in (`HalfWay`), or an official and a fact-checker who
are both signed in (`BothAreIn`). Neither is outside what `ASpec` reaches or starts in.

`Misinformation` is the reference the others compose with: `FabricTransactions`
and `ReportConsensus` are tied to it by refinements, `MockLedger` by a comparison
of each step, and `GatewayDocuments` commits its actions as the ledger's half of
each request.

### Correspondence

`Misinformation`. Each key family of the world state is a variable:
`foundingOrgLimit`, `registered`, `admission`, `report`. Each exported function
that writes is an action with the function's name; its guard, in the order of
the code's early returns, is the operator `may...`. The slices `FactChecks` and
`Votes` are sequences. `now` is what `time.Now()` gave the endorsing peers,
while the deadline of a report counts from the timestamp of its transaction,
which the client sets, so `Submit` takes any of `Times`. Fields that no guard
reads (hash, model label, confidence, names, transaction ids) are left out.
`required` is the float formula of `SubmitFactCheck` and `quorumFor` the integer
formula of the admissions; both are kept, and they are proved equal.

`FabricTransactions`. A call has the keys it read and what it would write, and
is marked `stale` when a commit writes one of those keys; this is Fabric's
MVCC check, including the range read by `getRegisteredOrgs`. What each function
reads is translated from its `GetState` calls (`RegisterReads`, `ReportReads`,
`FactCheckReads`, ...). Two endorsers have to agree, so a closure happens at
a time that two peers' clocks have reached (`AgreedClock`). A call whose caller
gave up is simply still under way; one that never reaches the orderer is
discarded.

`MockLedger`. `memory` is the object, `disk` the file `_save` replaces;
`Saves` may fail after memory was changed, and then the caller is told of an
error. `MockRestart` loads the file. `confirmed` holds the votes whose calls
returned, and a fault is a failed write or a crash.

`GatewayDocuments`. A request thread is at one of the steps between which other
threads can run: `chain` (before the ledger's answer), `close` (waiting for the
lock after a closure), `save`, `index`. `index` is what `report_index` points to
in IPFS, `local` the row of the table `reports`; `GetReport` and `Save` choose
between them as `storage.py` does. `late` holds the transactions whose caller
timed out or crashed and which may commit at any time. The expiry pass has its
own thread (`scheduler`) and takes no lock. Votes are cast by `Orgs`; a
submission or a closure is attributed to `SERVICE_ORG`, since the ledger does
not distinguish who makes it.

`ReportViews`. The ledger is reduced to what a viewer can tell apart: votes and
closures come in any way the chaincode allows. A portal request looks in the
cache, reads the ledger and stores what it read in three steps, so a `clear` may
fall between any two. A handler that has decided something clears the cache, or
fails before it comes to that.

`BlindReview` adds to that ledger the reports whose window has ended (`overdue`: they
stay open, and open to votes, until somebody closes them) and, as history, the
reports of which each member has been shown votes (`peeked`). `ClaimShown` is the
blind page of the fact-checking service, `ConsoleShown` the table of overdue reports in
`Governance.tsx`, `ReportRead` the read routes of the gateway, for the members
(`DirectReaders`) that call them without a page.

`Sessions`. Each method of `UserStore` is one transaction, under its lock; a
handler is a sequence of steps, and an action is what it does up to its next call
of the store. A thread keeps what the handler keeps: the row it has read
(`Attempt`), the account it has verified, what it is about to write. A password
or a secret is the number of the change that brought it in. `jwts` are the access
tokens handed out, `tokens` the rows of `refresh_tokens`; `first` and `last` of a
token are history, as are `proof` and `late` of a session: with what it was
opened, and whether that changed while the sign-in was under way.

`AuditChain`. A digest is the sequence of entries it was computed from.
`RecordReads` and `RecordInserts` are the two halves of `record`, under a lock
for each process (`ProcessOf`); an insert may fail. `Alters` is what somebody
with the database file can do, edit a row or take one out, and `Verified` is `verify`.

`RateLimiter`. `Reads` is the clock outside the lock, `Allow` the rest of the
method. A thread is held up for `HitDelay` at most between the two.

`ApiKeys`. A key is a random token or the well-known one of an organisation's
number. `Opens` is the migration in `_init`; the two bootstraps, `ApplyOrg` and
the three steps of `demo-seed.py` (`Mints`, `RunEnds`, `Killed`) are the writers. A
run whose last `UPDATE` fails leaves what a killed one leaves.

`ClaimPipeline`. A topic is a sequence, a consumer is its position, its
committed offset and the message in hand. With automatic commit the committed
offset is the position after the message in hand, whether or not that message is
finished; an orderly stop commits it as well. A post is `sent`, then `anchored`,
then noted in `processed`; a request the worker abandons goes on in the gateway
(`abandoned`). Both loops catch whatever a handler raises, log it and take the next
message. `HandlerRaises` is that for the worker, at any point of its handler: while it
looks the claim up, when the dead letter of a refused or timed-out claim cannot be
written, when the answer cannot be read or the note not be inserted. `logged` has the
claims it happened to. `unnoted` counts, for each claim, the requests that the worker
left without a note of their report: it stopped, gave up waiting, or its handler raised.
What cannot be decoded (`GarbageArrives`) raises in the iterator and not in the
handler, so it ends the loop: `MayFetch` is false there for good.

`DynamicBatcher`. An action is what the event loop runs between two awaits of
`_run` and `_process`: `task` says at which await the task is, `batch` is its
local list, `future` the state of the future each `submit` waits on. The delay
is not measured; it may end at any moment while a batch is gathered. A caller
whose task is cancelled leaves a cancelled future in the queue or in the batch.
`Stop` comes only when nobody waits: the consumer is stopped before the batcher,
and the web server ends its requests before the shutdown half of `lifespan`.

`ClaimSeeding`. A run looks at what the gateway shows, sends its claims, and
waits for a number of reports; the ingest worker queues the claims of a request
one by one, and may fail half way. The pipeline is three actions, as
`ClaimPipeline` shows it to behave: it anchors a claim (`Lands`), anchors once more one
that it has anchored (`LandsAgain`; the number of such reports is `again`), or drops
one.

`Deployment`. `docker`, `volumes` and `files` say of everything whether it is
there and whether the program that runs now made it. Every command of the
teardown may fail having removed some of its containers, every command of the
start may fail having started some, and the program may be interrupted anywhere.
`Known` are the containers whose names `down.py` knows, `Unnamed` what the building of
chaincode leaves on the system's networks. The teardown looks for leftovers on the
networks and by name, but its last listing, which decides how it exits, keeps the known
names only (`Still`).

## 3. What TLC checks

| run | instance | properties |
|-|-|-|
| chaincode | one report, six founders, limits 1 and 6; or five organisations, two of which can also be admitted, limits 0, 1, 4; or the mock ledger with three organisations and one that may join, one fault | OneVotePerOrg, OpenReportUndecided, LabelIsMajority, EarlyCloseNeedsTwoThirds, RecordIsAppendOnly, ImplementsConsensus, FoundersWithinLimit, AdmittedHasSponsor, MembershipGrowsByRule, ConfirmedVotesStand, MirrorsChaincode |
| fabric | four organisations, three peers, two calls under way: on one report, or on the founding and the admission of one candidate | AcceptedWritesFit, ImplementsChaincode, ClosedOnTwoClocks |
| gateway_disturbed | 4 organisations of which 2 come to vote, 2 threads and the expiry pass, any two of: a pass, an outage, a lost answer, a crash | EveryReportHasDocument, DocumentMirrorsLedger, PublishedVerdictIsDecided |
| fairness | 4 requests in batches of up to 3; the gateway with 4 organisations, 2 threads, no disturbance | PendingIsHeld, ResultIsOwn, BatchAnsweredTogether, EveryRequestEnds; DocumentIsComplete, ExpiredIsRecorded |
| pipeline | 2 claims, one of them malformed, any three of twelve faults | ProcessedIsAnchored, ExtraReportsAreUnnoted, PassedIsSettled, ClaimsArrive |
| services | 2 recorders and 4 rows; 2 limiter threads, a limit of 2; 2 visitors and 2 organisations; 4 containers and an unnamed one; 4 organisations' keys and 2 runs of `demo-seed.py`; 2 runs of `seed-claims.py` with 2 claims; 2 users, 2 request threads, 2 sign-ins, renewals or changes after those the start stands for | UnalteredIsIntact, AlterationIsFound; AtMostLimitPerWindow; PublicAnswersHold; ExitIsTruthful; NoWellKnownKeys, SeedingKeysEnd; SeedingIsAccounted; LiveSessionsProveCredentials, GraceDoesNotSlide, EndedSessionsStayEnded, LockOutlastsNewSignIns |
| never_alone, expiry_pass, ipfs_outage, redelivery, blind_review, seed_twice | the smallest instance that shows the matter | one each, violated: section 5 |

The properties are stated, each with the code behaviour it is about, at the end
of the modules. In short:

* *A report is decided by whom it should be.* No open report is one that the
  members of the moment have already decided or can no longer accept, although
  nobody re-evaluates it when the membership grows (`OpenReportUndecided`).
  Before the deadline two thirds close it and nobody else
  (`EarlyCloseNeedsTwoThirds`); the label is a strict majority
  (`LabelIsMajority`). Seen on its own, each report is a run of the abstract
  consensus (`ImplementsConsensus`).
* *Members join by the rule* (`FoundersWithinLimit`, `AdmittedHasSponsor`,
  `MembershipGrowsByRule`), for every order of founding and admission.
* *The demo's ledger keeps the chaincode's rules* (`MirrorsChaincode`): a call
  changes memory only as an action of the chaincode would. A
  vote that was confirmed survives any one fault (`ConfirmedVotesStand`).
* *Concurrent calls are serialisable* (`ImplementsChaincode`): each commit is
  one step of `Misinformation` on the state of that moment. The mutants that
  leave the member scan or the record out of the read set break it.
* *The document says what the ledger says*: never a check or a verdict that the
  ledger does not have, whatever fails (`DocumentMirrorsLedger`,
  `PublishedVerdictIsDecided`), and every one of them when nothing does
  (`DocumentIsComplete`, `ExpiredIsRecorded`).
* *The portal never takes back a verdict and is not older than the cache's
  lifetime* (`PublicAnswersHold`), although a request that read the ledger before
  a `clear` stores what it read after it.
* *Sessions end when what they were opened with is replaced*
  (`LiveSessionsProveCredentials`), a rotated refresh token is honoured within the
  grace of its first use only (`GraceDoesNotSlide`), a session that was over when
  a request came does not admit it (`EndedSessionsStayEnded`), and a lock
  is lifted early only by a new password or a sign-in that began before it
  (`LockOutlastsNewSignIns`). `late` marks what the first of these does not
  cover: a sign-in that has checked the old password when `reset_user` ends "all
  sessions" opens its session afterwards.
* *The audit log verifies until it is altered* (`UnalteredIsIntact`), and an
  alteration that somebody recorded after is found (`AlterationIsFound`). The
  first is about one process: the lock is the process's, and with
  `ProcessOf` giving two threads different ones, as `manage.py` next to a
  running gateway does, both may read the same last row and the chain forks.
* *No more than `limit` sign-ins of an address in a window* less the time a
  thread was held up (`AtMostLimitPerWindow`). The comment in `security.py` that
  idle keys are dropped "so memory stays bounded" is not a property of the model,
  because no key is ever idle: a key is idle when its deque is empty, a deque is
  emptied only by a later hit of its own key, and that hit enters it at once.
* *Keys*: well-known keys are dead in a deployment started without them, over
  whatever database it finds (`NoWellKnownKeys`), and so are those that
  `demo-seed.py` minted once its last run has ended (`SeedingKeysEnd`).
* *A claim is neither lost nor anchored twice for nothing*:
  `ProcessedIsAnchored`, `ExtraReportsAreUnnoted`, `PassedIsSettled`,
  `ClaimsArrive`. A claim whose handler raised is the exception: the log has it, and
  nothing else, so nobody can replay it. And what `seed-claims.py` says of its claims can be accounted
  for (`SeedingIsAccounted`).
* *Whoever waits for a score gets it, and gets their own*: a request is never
  dropped or put into two batches (`PendingIsHeld`), a caller that is gone
  neither shifts the results of a batch nor makes it fail for the others
  (`ResultIsOwn`, `BatchAnsweredTogether`), and a failed inference does not end
  the task (`EveryRequestEnds`).
* *A teardown that says it is done, and a system that says it is up, are*
  (`ExitIsTruthful`), however many commands failed, of the containers
  whose names the system gives them. An unnamed leftover whose removal fails is not
  looked for again, so "Nothing of the system is running" does not cover it.
  It takes docker to be able
  to list containers: with `ListingFails = TRUE` the property fails in the first teardown,
  since `query` returns an empty list when the command fails and an empty list
  reads as "nothing left".

### Bounds

The bounds are the constants of the configurations; `Times`, `Limits`, `VotingOrgs`
and the constants named `Max...` are the only ones that cut behaviours off.

* Six organisations are the fewest among whom `FinalizeReport` can close a
  report with the label "0": it takes two votes against, and with fewer members
  two votes against have put the two thirds out of reach before. On the way to
  six the membership passes through every smaller number, with the threshold
  below, at and above a tally; three is the first number whose quorum (2) is not
  everybody. Four are the fewest that can leave a report with two votes to an
  official at all, which is why `fabric` and `fairness` have four;
  the label "0" is not reached in those. In `gateway_disturbed` two of the four come to
  vote (`VotingOrgs`), so a report is rejected, left to expire, or finalised with two votes
  for it, but not accepted by a vote; that happens in `fairness`. The properties of the chaincode are proved
  for every number (section 4).
* One report is enough: no function touches two, and the actions of one leave
  the others alone.
* A clock with two readings and a window of 0 or 1 has "at the deadline" and
  "past it", which is all `isPastDeadline` distinguishes.
* Two calls under way, or two request threads, show every overlap of two; the
  validation of a call is a condition on it and one other at a time. In the
  membership half of `fabric` one organisation is a candidate and three may be
  members; the theorem has no such bound.
* A disturbance happens once, and two (the gateway) or three (the pipeline) of
  them in one behaviour, in any order. This reaches a crash after a lost answer
  or an outage around a crash. What the bound excludes is the third in a row.
* Four requests fill a batch of three and leave one for the next, so a batch is
  gathered from requests that arrived before, during and after an inference.
* Four rows of the log let two entries be recorded after one is altered, one of
  them by a thread that had read the last hash before. Six readings of the
  limiter's clock are two windows and one.
* Two organisations in `BlindReview` are one who looks and one who votes.
* One report more than the claims and their runs account for, somebody else's or the
  second of a claim, is what it takes to mislead a run of `seed-claims.py`.
* The sessions: two wrong passwords lock, a lock and an access token last one
  tick, a refresh token two and the grace one. The starts are one failure short of
  a lock, and one renewal short of a third use of a token; two operations more are a
  change with a sign-in or a renewal around it, or two changes that overlap. What
  this leaves out the theorems have: all of the run's properties are proved.
* Three and four organisations' keys are a deployment and a larger one before
  it; two runs of a script overlap, follow one another, or one is killed.
* Symmetry is used for organisations, peers, calls and threads that no constant
  singles out, and in no run with a liveness property.

### Fairness

Liveness needs the threads to go on, and nothing else.

* `GFairSpec` (`fairness`): a request thread that can take its next step
  does (`WF(Continues(h))`): they are operating-system threads of a running
  process. A thread that waits for a document lock again and again gets it in the
  end (`SF(CloseRead(h))`): Python's locks do not promise an order, but a waiting
  thread is woken on release. No fairness is assumed of the arrival of requests,
  of the clock, or of the ledger accepting a call. In that run there is no
  disturbance: with a crash the property is false, since nothing in the code
  repeats the second half of an expiry.
* `PFairSpec` (`pipeline`): the two consumer loops and the gateway go on.
  `ClaimsArrive` holds with resends, refusals, timeouts and replays in the same
  behaviour, and makes an exception of a failed inference and of restarts, because
  either loses the message in hand; of the claim whose own handler raised; and of a
  claim behind a message that cannot be decoded, which waits for ever. The offsets' commits are not fair: nothing
  depends on them.
* `BSpec` (`fairness`): the event loop runs the batcher's task, the delay ends and the
  model returns or raises (weak fairness of `Run`). `FairnessSpec` of `MCFairness` takes
  over these two, each for the behaviours that are about it.

The chaincode has no liveness of its own: it acts only when called. Neither have
the sessions, which end by a clock that nobody waits for.

Deadlock is checked where the modelled system can always go on (`fabric`, the
disturbed gateway, the pipeline). It is not in the other passing runs: in `chaincode` the
mock ledger has nothing left to do once everything is decided; in `services` the log
reaches its bound and the scripts end; in `fairness` the batcher is stopped and
the handlers are done. Nor is it in `blind_review` and `seed_twice`, which end as well.

## 4. What is proved

Eight modules hold theorems. Each is for every value of the constants, under the
assumptions named in the module it is about, which TLC evaluates in the runs.
`PROJECT.json` lists the theorems with what each establishes. Every invariant and
action property that a passing run checks is stated by one of them.

**The chaincode** (`MisinformationProofs`): any finite set of organisations, any
reports, integer founding limits, any window (`OrgsAssumption`,
`LimitsAssumption`, `TimesAssumption`, `WindowAssumption`). Proved: all that the
run `chaincode` checks of `Misinformation`, the type invariant, that an open
report always has somebody left to vote, that a rejected one lacks two thirds,
that the two formulas for two thirds agree (`QuorumsAgree`), and that each report
implements the abstract consensus (`ReportsAreConsensus`).

1. `TypeOK` is inductive by itself.
2. None of the invariants of a report is: a vote can only be judged knowing that
   the votes before it came from different members, that a report nobody voted
   on has no label, and that the report was undecided before. `RecordInv` joins
   them into one predicate of a record and a set of members, and `ReportsInv`
   states it of every report. Counting lemmas (`TallySum`, `TallyAppend`,
   `RemainingIsRest`) turn sets of voters into arithmetic: the two tallies add up
   to the number of checks, and those to come are the members less the checks.
3. A vote keeps `RecordInv` (`VoteKeepsRecord`), and so does a member joining
   (`GrowthKeepsRecord`), the step on which nobody looks at the report: one more
   member raises twice the membership by two, while the votes still to come
   raise three times what can be reached by three.
4. `OpenReportHasVoter` follows by counting: had everybody voted, the two halves
   of `OpenReportUndecided` would contradict each other.
5. The action properties follow from what each action does to the one record it
   changes (`SubmitGood`, `VoteGood`, `CloseGood`, `GrowthGood`), with the
   invariant in the state before.
6. The membership has an invariant of its own (`MembershipInv`): nobody votes
   twice on a request and only other members do, no more founders than the limit,
   and every admitted organisation has a sponsor. The first part is what
   `AdmittedHasSponsor` and `MembershipGrowsByRule` lack: only with it are as many
   admit votes as many admitting members, and at least one when the membership
   is not empty.
7. For the refinement, a slice of checks in which nobody checked twice is turned
   into a function from voters to ballots (`BallotOf`, `BallotsAppend`), counting
   the one is counting the other (`CountIsTally`, a bijection), and looking at
   every way to complete the ballots is comparing two numbers
   (`SettledIsCounted`: the best completion is the one in which all others vote
   "1"). With that and `ReportsInv` every action is one of `ReportConsensus` or a
   stutter; for a new member that is step 3 again.

**The demo's ledger** (`MisinformationProofs`, its second half): any finite set of
organisations, any reports, window and length of the clock (`MockAssumption`). Proved:
the type invariant, `ConfirmedVotesStand`, and `MirrorsChaincode` one step at a time.
`ConfirmedVotesStand` is inductive next to the types because it speaks of memory *and*
file: a write that fails leaves the file with the votes it had, and the call whose
write failed confirms nothing. The comparison needs only that a report nobody submitted has
no checks. The mock has one rule for a quorum where the chaincode has two, counts the
votes against as those that are not for, and decides by a function of its own
(`SameQuorum`, `CountSum`, `SameDecision`); each call is then matched with one
transaction (`...Mirrors`).

**Concurrent calls** (`FabricTransactionsProofs`): at least two peers, finitely
many (`PeersAssumption`), any clock readings and window (`ClocksAssumption`), any
number of calls under way. Proved: the three properties of the run `fabric`,
among them that every behaviour is one of the chaincode. The invariant `FInv`
says of each transaction that is not stale that it would be endorsed *now*, with
the same writes (`NowRegister`, `NowFactCheck`, ...). A commit keeps it because it
leaves alone every key that such a transaction has read (`ReadsAreCurrent`), and
those keys are all that its guard and its writes depend on (`StillNow`). The
clock is the exception, and it only goes on; the second latest clock of the peers
moves one tick at a time (`ClocksAgree`), which is a `Tick` of the chaincode.

**The claim pipeline** (`ClaimPipelineProofs`): any set of claims, any set and
number of disturbances (`ClaimsAssumption`). Proved: `PipelineTypeCorrect` and the
three invariants of the run `pipeline`. Neither `ProcessedIsAnchored` nor
`ExtraReportsAreUnnoted` is inductive. `Accounts` is: a request is under way only for a
claim that is not in `processed`, and of the reports a claim has or may still get, one
at most is known to the worker's side (`Known`: in `processed`, or the answer is on
its way) and the others are no more than the requests whose report was never noted. A
step that gives up a request, be it a restart, a timeout or a handler that raises, moves
its report from the first account to the second (`AccountsLeftBehind`). `PassedIsSettled`
needs the types only: what is in `processed`, among the dead letters or in the log
stays there (`SettledStays`), and the position moves when nothing is in hand.

**The gateway's documents** (`GatewayProofs`): any organisations, reports, threads,
clock readings and window, any set of disturbances (the chaincode's assumptions,
`LedgerAssumption` and `VotingOrgsAssumption`). Proved: the type invariant and the four invariants of the runs
`gateway_disturbed` and `fairness`. None of these is inductive: a document may
be written by a thread that read it long ago.

1. `GInv` says of what every thread is about to write what the properties say of
   what is stored. A document in hand mirrors the ledger's checks, in order; one
   with a verdict is in the hands of a thread that has seen the report closed that
   way (`ClosedBy`); and whatever may still be submitted, by a thread or by a
   transaction that nobody waits for, has its document.
2. It is kept because the ledger only grows: a later record has the earlier checks
   in front, and a closed one is closed for good (`Later`). So what fitted the ledger
   when it was read still does when it is written, although the expiry pass takes
   no lock. A step changes the ledger or the store, never both (`LedgerStep`,
   `StoreStep`, `ThreadStep`).
3. `DocumentIsComplete` is the one that does need the lock. `Calm`, which holds until
   the first disturbance: a lock is held exactly by the thread between its reading
   and its writing, what such a thread is about to write has every check, and while
   it waits for the ledger's answer so has what is stored.


**Sessions** (`SessionsProofs`): any users, threads, accounts at the start, limits
and lifetimes (`SettingsAssumption`, `StaffAssumption`). Proved: the type
invariant and the four properties of the run `services` that are about sessions.
`LiveSessionsProveCredentials` is not inductive: "somebody is about to end
the sessions" does not say whether this one will be spared. `Settled` says it
will not (`WillEnd`), and `Refers` that what a thread keeps are rows of the account
it is about, so the session that is spared is the one whose owner knew the new
credential. `TokensFit` says that `usedAt` stays at the first use, `EndedAreBarred`
that a session which was over does not come alive between the two lookups of
`get_principal`. `LockOutlastsNewSignIns` is about a step, and `Fresh` about the state
before it: a sign-in under way had found the account unlocked, so its `lockedUntil`
is past and differs from a lock in force; and the password a thread is about to set
is nobody's yet, so a lock that goes with a new password really goes with another.

**The portal** (`ReportViewsProofs`): any reports, visitors, number
of organisations and lifetime (`ViewsAssumption`). `PortalInv` says that every list
that is cached, or about to be, is true of the ledger and was read after the time
it is kept under; a verdict, once true, stays so.

**The batch queue** (`DynamicBatcherProofs`): any requests, any size of a batch
(`BatchSizeAssumption`). `BInv`: queue and batch hold each request once, only those
that were submitted and all that somebody waits for; the positions of a batch are
then those of its results.

**The small services** (`ServicesProofs`), each with an invariant of its own.

* API keys: any organisations, keys and runs of `demo-seed.py`; random keys are no
  well-known ones (`RandomAssumption`). `KInv` adds that nothing is left to be migrated
  once a deployment was secured: a key out of `org_keys` would be live.
* The audit log: any threads of one process (`OneProcess`, a hypothesis of the
  theorems: two processes do fork the chain), any entries and length. `UInv`: one
  thread at a time is between its read and its insert, and the hash it has read is
  still the last; once a row was altered, `verify` finds a place, and no row recorded
  later mends it.
* The limiter: any addresses, threads, limit and window. `LInv`: the deque of an
  address stands for the last of its hits (`Tracks`), each reading in it was taken
  at most `HitDelay` before the hit passed, and what it has dropped is out of the
  window. So a hit that passes is further from the one `limit` before it than a
  window (`Spaced`), which is the property once windows are counted.
* The deployment: any containers. `DInv`: from the deletion of the runtime files no
  old file is left, from the last listing no old container with a known name. That docker can list containers
  (`ListingFails = FALSE`) is a hypothesis; section 3 says what happens without it.
* Seeding: any number of runs, a finite set of claims (`ClaimsAssumption`). `SInv`: what a
  run counted when it began was there then, and a run that is done has no more claims
  missing than there are reports, not shown when it began, that are not the first of
  one of its claims: others' claims, and claims anchored twice, its own among them. The
  step that counts compares cardinalities of claims and of reports by a bijection.

What stays with TLC: liveness under fairness (`ExpiredIsRecorded`, `ClaimsArrive`,
`EveryRequestEnds`) and anything about `ENABLED`, which the prover does not handle;
and the six runs that show a violation. `MirrorsChaincode` is proved of each step,
as it is stated; that the mock's initial state is one of the chaincode's after its
founding is not stated. Induction over data is out of the prover's reach; no module
declares a recursive operator, and the proofs count with the cardinality theorems
instead.

## 5. What the work has found

Each is a run that expects a violation, with the line it contradicts quoted
in `PROJECT.json`.

* `never_alone`: with exactly two members, the first "0" vote makes the quorum
  unreachable and rejects the report, although a comment says that no vote
  decides alone with two or more.
* `expiry_pass`: the hourly pass writes a document back without the lock, and
  with it the version from before a vote that was stored meanwhile.
* `ipfs_outage`: a version stored in SQLite during an outage is shadowed by the
  older one in IPFS afterwards, so the next published version lacks a vote.
* `redelivery`: a worker that crashes between the anchoring of a claim and its
  own note of it anchors the claim again, against the comment in its
  configuration. `ExtraReportsAreUnnoted` says how much of that promise
  does hold: it takes a request whose report was not noted.
* `blind_review`: the votes on an open report are "hidden until your organisation has
  voted" on the claim page only. The officials' console shows them once the window has
  ended, and until somebody closes the report an official who has seen them may vote.
  The gateway's read routes (`DirectReaders`) show them to every reader from the start.
* `seed_twice`: `seed-claims.py` run again while its claims are still in the
  pipeline queues them again, against its own docstring. `SeedingIsAccounted` says
  what does hold of it.

## 6. What is not modelled, and why

* The label and the confidence of the model and its training notebook: numeric
  code outside a model checker's reach; the content of a claim, its hash and its
  signature.
* Queries, listings, search and the user interface: they change nothing. Of what
  is shown, `ReportViews` has the verdict and `BlindReview` the votes.
* Headers, body limits, URL checks and the checks on the text of names and
  passwords: they keep no state and are decided by one request alone.
* The Raft group, gossip and the peers' storage: Fabric's own. The sidecar's
  allowlists, token check and connection cache.
* The IPFS gateway beyond whether a version can be stored and fetched.
* The file of one-time passwords `seed-demo` writes; images, addresses and the
  smoke test of `up.py`; of the shell scripts, all but what they leave behind.
* A read of the peers' state database that fails: `getRegisteredOrgs` in
  `SubmitFactCheck` would then store the vote without a decision, and `Submit` take the
  report's key for free; every other read that fails fails the call. The endorsement
  of a peer that cannot read differs from the others'.
* Signatures of messages, and with them forged messages, which both consumers drop
  without a trace but a counter. A handler of the flagging engine that raises is
  `EngineFails`.
* Of the API keys, the submitter's and `stress-key`, which a benchmark deployment
  enters and a secure one revokes together with those of the organisations.
* Benchmarks and monitoring: scripts run by hand, and dashboards.
* Two gateways over one document store: each organisation has its own, and
  `GatewayDocuments` is one of them.

## 7. The plan

Done: the modules of section 2; section 6 names what they leave out. What would
add most next, in this order:

1. `DynamicBatcher` inside `ClaimPipeline`: a stopped consumer cancels its wait,
   and the batch goes on without it.
2. `Sessions` with `RateLimiter` in front of it: the lock of an account and the
   limit of an address, together.
3. Lemmas shared by the proofs of `Misinformation` and of `GatewayDocuments`, which both
   show that a record only grows: once for the chaincode and once for its instance.

## 8. Running it

From this directory, with TLC and TLAPS on the path:

    tlc -workers 2 -config MCChaincode.cfg MCChaincode
    tlc -workers 2 -config MCFairness.cfg MCFairness
    tlc -workers 2 -config MCServices.cfg MCServices
    tlapm MisinformationProofs.tla
    tlapm FabricTransactionsProofs.tla

`PROJECT.json` names the module and configuration of every run. On two cores a run takes
about a minute at most, the longest proofs, `GatewayProofs` and `MisinformationProofs`,
about two.
