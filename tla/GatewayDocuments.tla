--------------------------- MODULE GatewayDocuments ---------------------------
(***************************************************************************)
(* What the blockchain gateway does around the ledger: the off-chain       *)
(* document of a report (api/server.py, api/storage.py, src/report.py) and *)
(* the handlers that read, vote and write it back, with the hourly expiry  *)
(* pass beside them.                                                       *)
(*                                                                         *)
(* A handler runs in a thread of its own and is cut into the steps other   *)
(* threads can come between: taking the document lock and reading the      *)
(* document, the call to the ledger, writing the document.  A document is  *)
(* kept as its fact_check_status and its fact_checks; the claim itself and *)
(* its content hash never change after make_report.  The members of the    *)
(* consortium are fixed here; module Misinformation has their growth.      *)
(***************************************************************************)
EXTENDS Integers, Sequences, FiniteSets, SequencesExt

CONSTANTS
  Orgs,         \* the registered organisations
  VotingOrgs,   \* bound of the model: those of them that come to vote
  SERVICE_ORG,  \* the one that runs the expiry pass; it also stands for whoever
                \* submits or closes a report, which the ledger does not care about
  Reports,      \* the ids reports can get
  Times,        \* the clock readings
  Window,       \* factCheckWindow
  Handlers,     \* the request threads
  Free,         \* what lock[r] holds while nobody has it
  Disturbances,    \* what may come in the handlers' way, each once: a subset of
                   \* {"pass", "outage", "timeout", "crash"}
  MaxDisturbances  \* how many of them in one behaviour

ASSUME FreeAssumption == Free \notin Handlers
ASSUME ServiceOrgAssumption == SERVICE_ORG \in Orgs
ASSUME VotingOrgsAssumption == VotingOrgs \subseteq Orgs
ASSUME LedgerAssumption == IsFiniteSet(Orgs) /\ Times \subseteq Nat /\ 0 \in Times /\ Window \in Nat

VARIABLES
  report,     \* the ledger's record of each report
  now,        \* the clock
  index,      \* the version report_index points to in IPFS
  local,      \* the version in the SQLite table reports
  ipfs,       \* whether the IPFS gateway answers: "up" or "down"
  lock,       \* _doc_lock of each report: a handler or Free
  handler,    \* the request each thread is at
  scheduler,  \* expire_overdue_reports
  late,       \* transactions nobody waits for any more, which may still commit
  indexed,    \* the reports in report_meta, by which a tip is looked up
  disturbed   \* the disturbances that have happened

store == <<index, local>>
gvars == <<report, now, index, local, ipfs, lock, handler, scheduler, late, indexed, disturbed>>

Chaincode == INSTANCE Misinformation WITH
  Candidates <- {}, Limits <- {},
  foundingOrgLimit <- Cardinality(Orgs), registered <- Orgs,
  admission <- [o \in Orgs |-> [status |-> "ABSENT", votes |-> <<>>]]

-----------------------------------------------------------------------------
(* The document store. *)

NoDoc  == [status |-> "none", checks |-> <<>>]
NewDoc == [status |-> "Pending", checks |-> <<>>]

VERIFIED_STATUS == [l \in {"0", "1"} |->
                      IF l = "1" THEN "Verified_Misinformation" ELSE "Verified_Non_Misinformation"]

\* _ipfs_ready: what it remembers is asked again until it is good, and is dropped
\* with the first call that fails, so it comes down to whether IPFS answers.
is_available == ipfs = "up"

\* /cat of the IPFS gateway, of the version the index points to.
CatBytes(r) == IF is_available THEN index[r] ELSE NoDoc

\* get_report: the indexed version while IPFS can be read, else the local one.
GetReport(r) == IF CatBytes(r) # NoDoc THEN CatBytes(r) ELSE local[r]

Exists(r) == index[r] # NoDoc \/ local[r] # NoDoc

\* /add of the IPFS gateway, and the row of the index.
AddBytes(r, doc) == is_available /\ index' = [index EXCEPT ![r] = doc]

\* save_report and save_report_version: the version goes to IPFS when that
\* works and to SQLite otherwise; the other place keeps what it had.
Save(r, doc) ==
  \/ AddBytes(r, doc) /\ UNCHANGED local
  \/ ~is_available /\ local' = [local EXCEPT ![r] = doc] /\ UNCHANGED index

-----------------------------------------------------------------------------
(* Calls to the ledger. *)

Submission(org, r)    == [op |-> "submit",   r |-> r, org |-> org]
Check(org, r, o)      == [op |-> "check",    r |-> r, org |-> org, outcome |-> o]
Finalization(org, r)  == [op |-> "finalize", r |-> r, org |-> org]
Expiry(org, r)        == [op |-> "expire",   r |-> r, org |-> org]

\* The transaction commits, on the ledger as it is by then.
Commits(tx) ==
  \/ tx.op = "submit"   /\ Chaincode!Submit(tx.org, "fact_checker", tx.r, now)
  \/ tx.op = "check"    /\ Chaincode!SubmitFactCheck(tx.org, "fact_checker", tx.r, tx.outcome)
  \/ tx.op = "finalize" /\ Chaincode!FinalizeReport(tx.org, "official", tx.r)
  \/ tx.op = "expire"   /\ Chaincode!ExpireReport(tx.org, "official", tx.r)

Disturb(what) ==
  /\ what \in Disturbances \ disturbed
  /\ Cardinality(disturbed) < MaxDisturbances
  /\ disturbed' = disturbed \cup {what}

-----------------------------------------------------------------------------
(* The request handlers. *)

Idle == [step |-> "idle"]
At(h, step) == handler[h].step = step

\* Mutant: no lock is taken.
lockAvailable_always(r) == TRUE
lockAvailable(r) == lock[r] = Free

Release(h) == lock' = [r \in Reports |-> IF lock[r] = h THEN Free ELSE lock[r]]
Finish(h)  == handler' = [handler EXCEPT ![h] = Idle] /\ Release(h)

\* Mutant: the document is left for later.
CreateSave_later(h, r) ==
  /\ At(h, "idle")
  /\ ~Exists(r)
  /\ handler' = [handler EXCEPT ![h] =
                   [step |-> "chain", tx |-> Submission(SERVICE_ORG, r), doc |-> NewDoc]]
  /\ UNCHANGED <<report, now, store, ipfs, lock, scheduler, late, indexed, disturbed>>
\* create_report first stores the document, under an id nobody has.
CreateSave(h, r) ==
  /\ At(h, "idle")
  /\ ~Exists(r)
  /\ Save(r, NewDoc)
  /\ handler' = [handler EXCEPT ![h] =
                   [step |-> "chain", tx |-> Submission(SERVICE_ORG, r), doc |-> NewDoc]]
  /\ UNCHANGED <<report, now, ipfs, lock, scheduler, late, indexed, disturbed>>

\* submit_fact_check takes the lock and reads the document (404 without one).
VoteRead(h, org, r, outcome) ==
  /\ At(h, "idle")
  /\ lockAvailable(r)
  /\ GetReport(r) # NoDoc
  /\ lock' = [lock EXCEPT ![r] = h]
  /\ handler' = [handler EXCEPT ![h] =
                   [step |-> "chain", tx |-> Check(org, r, outcome), doc |-> GetReport(r)]]
  /\ UNCHANGED <<report, now, store, ipfs, scheduler, late, indexed, disturbed>>

\* finalize_report and expire_report go to the ledger first, without the lock.
CloseBegin(h, r) ==
  /\ At(h, "idle")
  /\ \E tx \in {Finalization(SERVICE_ORG, r), Expiry(SERVICE_ORG, r)} :
       handler' = [handler EXCEPT ![h] = [step |-> "chain", tx |-> tx, doc |-> NoDoc]]
  /\ UNCHANGED <<report, now, store, ipfs, lock, scheduler, late, indexed, disturbed>>

\* Where a handler is once the ledger has answered.
Answered(request) ==
  LET tx == request.tx  doc == request.doc IN
    CASE tx.op = "submit" -> [request EXCEPT !.step = "index"]
      [] tx.op = "check"  -> [request EXCEPT
           !.step = "save",
           !.doc  = [status |-> "Under_Review",
                     checks |-> Append(doc.checks, [checker |-> tx.org, outcome |-> tx.outcome])]]
      [] OTHER -> [request EXCEPT !.step = "close"]

ChainCommits(h) ==
  /\ At(h, "chain")
  /\ Commits(handler[h].tx)
  /\ handler' = [handler EXCEPT ![h] = Answered(@)]
  /\ UNCHANGED <<store, ipfs, lock, scheduler, late, indexed, disturbed>>

\* Mutant: a refused vote's reasoning is stored all the same.
ChainFails_voteKept(h) ==
  /\ At(h, "chain")
  /\ \/ /\ handler[h].tx.op = "check"
        /\ handler' = [handler EXCEPT ![h] = Answered(@)] /\ UNCHANGED lock
     \/ handler[h].tx.op # "check" /\ Finish(h)
  /\ UNCHANGED <<report, now, store, ipfs, scheduler, late, indexed, disturbed>>
\* Mutant: a refused expiry is written to the document all the same.
ChainFails_expiryKept(h) ==
  /\ At(h, "chain")
  /\ \/ /\ handler[h].tx.op = "expire"
        /\ handler' = [handler EXCEPT ![h] = Answered(@)] /\ UNCHANGED lock
     \/ handler[h].tx.op # "expire" /\ Finish(h)
  /\ UNCHANGED <<report, now, store, ipfs, scheduler, late, indexed, disturbed>>
\* chain_call raises: the chaincode refused the call, the transaction was
\* invalidated, or the sidecar was not reached.
ChainFails(h) ==
  /\ At(h, "chain")
  /\ Finish(h)
  /\ UNCHANGED <<report, now, store, ipfs, scheduler, late, indexed, disturbed>>

\* chain_call raises after its timeout with the transaction under way.
ChainTimesOut(h) ==
  /\ At(h, "chain")
  /\ Disturb("timeout")
  /\ late' = late \cup {handler[h].tx}
  /\ Finish(h)
  /\ UNCHANGED <<report, now, store, ipfs, scheduler, indexed>>

CreateIndex(h) ==
  /\ At(h, "index")
  /\ indexed' = indexed \cup {handler[h].tx.r}
  /\ Finish(h)
  /\ UNCHANGED <<report, now, store, ipfs, scheduler, late, disturbed>>

\* Mutant: reads the document before it has the lock to itself.
CloseRead_unlocked(h) ==
  LET tx == handler[h].tx  r == tx.r  doc == GetReport(r) IN
    /\ At(h, "close")
    /\ handler' = [handler EXCEPT ![h].step = "save", ![h].doc =
                     [doc EXCEPT !.status = IF tx.op = "expire" THEN "Expired"
                                            ELSE VERIFIED_STATUS[report[r].label]]]
    /\ UNCHANGED <<report, now, store, ipfs, lock, scheduler, late, indexed, disturbed>>
\* The second half of finalize_report and expire_report: the lock, the document,
\* and the status that goes with the final label the ledger was asked for.
CloseRead(h) ==
  LET tx == handler[h].tx  r == tx.r  doc == GetReport(r) IN
    /\ At(h, "close")
    /\ lockAvailable(r)
    /\ \/ /\ doc = NoDoc
          /\ handler' = [handler EXCEPT ![h] = Idle]
          /\ UNCHANGED lock
       \/ /\ doc # NoDoc
          /\ lock' = [lock EXCEPT ![r] = h]
          /\ handler' = [handler EXCEPT ![h].step = "save", ![h].doc =
                           [doc EXCEPT !.status = IF tx.op = "expire" THEN "Expired"
                                                  ELSE VERIFIED_STATUS[report[r].label]]]
    /\ UNCHANGED <<report, now, store, ipfs, scheduler, late, indexed, disturbed>>

\* finalize_report asks the ledger for the final label; that query may fail.
QueryFails(h) ==
  /\ At(h, "close")
  /\ handler[h].tx.op = "finalize"
  /\ Finish(h)
  /\ UNCHANGED <<report, now, store, ipfs, scheduler, late, indexed, disturbed>>

HandlerSave(h) ==
  /\ At(h, "save")
  /\ Save(handler[h].tx.r, handler[h].doc)
  /\ Finish(h)
  /\ UNCHANGED <<report, now, ipfs, scheduler, late, indexed, disturbed>>

-----------------------------------------------------------------------------
(* expire_overdue_reports: a pass over what query_all returned, of which it  *)
(* takes the PENDING reports only.  It takes no lock, and the first ledger   *)
(* call that fails ends the pass.                                            *)

Asleep == [step |-> "asleep"]

PassBegin ==
  /\ scheduler = Asleep
  /\ Disturb("pass")
  /\ scheduler' = [step |-> "scan", todo |-> {r \in Reports : report[r].status = "PENDING"}]
  /\ UNCHANGED <<report, now, store, ipfs, lock, handler, late, indexed>>

PassExpire ==
  /\ scheduler.step = "scan"
  /\ \E r \in scheduler.todo :
       /\ Chaincode!isPastDeadline(r)
       /\ Commits(Expiry(SERVICE_ORG, r))
       /\ scheduler' = [step |-> "read", todo |-> scheduler.todo \ {r}, r |-> r]
  /\ UNCHANGED <<store, ipfs, lock, handler, late, indexed, disturbed>>

PassTimesOut ==
  /\ scheduler.step = "scan"
  /\ Disturb("timeout")
  /\ \E r \in scheduler.todo :
       /\ Chaincode!isPastDeadline(r)
       /\ late' = late \cup {Expiry(SERVICE_ORG, r)}
  /\ scheduler' = Asleep
  /\ UNCHANGED <<report, now, store, ipfs, lock, handler, indexed>>

PassSkip ==
  /\ scheduler.step = "scan"
  /\ \E r \in scheduler.todo :
       /\ ~Chaincode!isPastDeadline(r)
       /\ scheduler' = [scheduler EXCEPT !.todo = @ \ {r}]
  /\ UNCHANGED <<report, now, store, ipfs, lock, handler, late, indexed, disturbed>>

PassRead ==
  /\ scheduler.step = "read"
  /\ LET r == scheduler.r  doc == GetReport(r) IN
       scheduler' = IF doc = NoDoc THEN [step |-> "scan", todo |-> scheduler.todo]
                    ELSE [step |-> "save", todo |-> scheduler.todo, r |-> r,
                          doc |-> [doc EXCEPT !.status = "Expired"]]
  /\ UNCHANGED <<report, now, store, ipfs, lock, handler, late, indexed, disturbed>>

PassSave ==
  /\ scheduler.step = "save"
  /\ Save(scheduler.r, scheduler.doc)
  /\ scheduler' = [step |-> "scan", todo |-> scheduler.todo]
  /\ UNCHANGED <<report, now, ipfs, lock, handler, late, indexed, disturbed>>

\* The list is done, or a call raised and the rest waits for the next hour.
PassEnd ==
  /\ scheduler.step = "scan"
  /\ \/ scheduler.todo = {}
     \/ \E r \in scheduler.todo : Chaincode!isPastDeadline(r)
  /\ scheduler' = Asleep
  /\ UNCHANGED <<report, now, store, ipfs, lock, handler, late, indexed, disturbed>>

-----------------------------------------------------------------------------
(* The surroundings. *)

LateCommits ==
  /\ \E tx \in late : Commits(tx) /\ late' = late \ {tx}
  /\ UNCHANGED <<store, ipfs, lock, handler, scheduler, indexed, disturbed>>

LateLost ==
  /\ \E tx \in late : late' = late \ {tx}
  /\ UNCHANGED <<report, now, store, ipfs, lock, handler, scheduler, indexed, disturbed>>

IpfsFails ==
  /\ ipfs = "up"
  /\ Disturb("outage")
  /\ ipfs' = "down"
  /\ UNCHANGED <<report, now, store, lock, handler, scheduler, late, indexed>>

IpfsRecovers ==
  /\ ipfs = "down"
  /\ ipfs' = "up"
  /\ UNCHANGED <<report, now, store, lock, handler, scheduler, late, indexed, disturbed>>

\* The process stops and is started again: the threads and their locks are gone,
\* the transactions they had sent are not.
Crash ==
  /\ Disturb("crash")
  /\ handler' = [h \in Handlers |-> Idle]
  /\ lock' = [r \in Reports |-> Free]
  /\ scheduler' = Asleep
  /\ late' = late \cup {handler[h].tx : h \in {g \in Handlers : At(g, "chain")}}
  /\ UNCHANGED <<report, now, store, ipfs, indexed>>

\* The public listing back-fills the index for the closed reports it shows.
EnsureMeta(r) ==
  /\ Chaincode!Closed(report[r].status)
  /\ r \notin indexed
  /\ GetReport(r) # NoDoc
  /\ indexed' = indexed \cup {r}
  /\ UNCHANGED <<report, now, store, ipfs, lock, handler, scheduler, late, disturbed>>

Clock ==
  /\ Chaincode!Tick
  /\ UNCHANGED <<store, ipfs, lock, handler, scheduler, late, indexed, disturbed>>

-----------------------------------------------------------------------------
GInit ==
  /\ report = [r \in Reports |-> Chaincode!NoReport]
  /\ now = 0
  /\ index = [r \in Reports |-> NoDoc] /\ local = index
  /\ ipfs = "up"
  /\ lock = [r \in Reports |-> Free]
  /\ handler = [h \in Handlers |-> Idle]
  /\ scheduler = Asleep
  /\ late = {} /\ indexed = {}
  /\ disturbed = {}

Arrives(h) ==
  \E r \in Reports :
    \/ CreateSave(h, r)
    \/ \E org \in VotingOrgs, o \in Chaincode!Outcomes : VoteRead(h, org, r, o)
    \/ CloseBegin(h, r)

Continues(h) ==
  \/ ChainCommits(h) \/ ChainFails(h) \/ ChainTimesOut(h)
  \/ CreateIndex(h) \/ CloseRead(h) \/ QueryFails(h) \/ HandlerSave(h)

Pass ==
  \/ PassBegin \/ PassExpire \/ PassTimesOut
  \/ PassSkip \/ PassRead \/ PassSave \/ PassEnd

Surroundings ==
  \/ LateCommits \/ LateLost \/ IpfsFails \/ IpfsRecovers \/ Crash \/ Clock
  \/ \E r \in Reports : EnsureMeta(r)

GNext == (\E h \in Handlers : Arrives(h) \/ Continues(h)) \/ Pass \/ Surroundings

GSpec == GInit /\ [][GNext]_gvars

\* A thread that can go on does, and no thread waits for a lock for ever.
GFairSpec == GSpec /\ \A h \in Handlers :
  WF_gvars(Continues(h)) /\ SF_gvars(CloseRead(h))

-----------------------------------------------------------------------------
(* Properties. *)

Versions(r) == {index[r], local[r]}
Document == [status : {"none", "Pending", "Under_Review", "Expired",
                       "Verified_Misinformation", "Verified_Non_Misinformation"},
             checks : Seq(Chaincode!FactCheck)]

Transaction ==
  [op : {"submit", "finalize", "expire"}, r : Reports, org : Orgs]
  \cup [op : {"check"}, r : Reports, org : Orgs, outcome : Chaincode!Outcomes]

\* What a thread keeps between two steps.
Request ==
  [step : {"chain"}, tx : Transaction, doc : Document]
  \cup {q \in [step : {"index"}, tx : Transaction, doc : Document] : q.tx.op = "submit"}
  \cup {q \in [step : {"save"}, tx : Transaction, doc : Document] : q.tx.op # "submit"}
  \cup {q \in [step : {"close"}, tx : Transaction, doc : Document] :
          q.tx.op \in {"finalize", "expire"}}
PassState ==
  [step : {"scan"}, todo : SUBSET Reports]
  \cup [step : {"read"}, todo : SUBSET Reports, r : Reports]
  \cup [step : {"save"}, todo : SUBSET Reports, r : Reports, doc : Document]

\* The gateway's tables hold well-formed documents under well-formed locks, and its
\* threads keep what their next step needs.
GTypeOK ==
  /\ Chaincode!TypeOK
  /\ index \in [Reports -> Document] /\ local \in [Reports -> Document]
  /\ ipfs \in {"up", "down"}
  /\ lock \in [Reports -> Handlers \cup {Free}]
  /\ handler \in [Handlers -> {Idle} \cup Request]
  /\ scheduler \in {Asleep} \cup PassState
  /\ late \subseteq Transaction
  /\ indexed \subseteq Reports
  /\ disturbed \subseteq Disturbances

\* Nothing reaches the ledger whose document was not stored before, whatever
\* stops create_report half way: voters always have a claim to read.
EveryReportHasDocument ==
  \A r \in Reports : report[r].status # "ABSENT" \/ r \in indexed => Exists(r)

\* These checks are some of those on the ledger, in the same order.
Mirrors(checks, onLedger) ==
  \E place \in [DOMAIN checks -> DOMAIN onLedger] :
    /\ \A i \in DOMAIN checks : checks[i] = onLedger[place[i]]
    /\ \A i, j \in DOMAIN checks : i < j => place[i] < place[j]

\* "each entry mirrors the corresponding on-chain FactCheck" (src/report.py):
\* every stored version, current or shadowed, lists votes of the ledger, in the
\* ledger's order, none that the ledger does not have and nobody's twice, through
\* lost answers, outages and crashes.
DocumentMirrorsLedger ==
  \A r \in Reports : \A doc \in Versions(r) :
    /\ Mirrors(doc.checks, report[r].checks)
    /\ \A i, j \in DOMAIN doc.checks : doc.checks[i].checker = doc.checks[j].checker => i = j

\* A document that says how a report ended says what the ledger says.
PublishedVerdictIsDecided ==
  \A r \in Reports : \A doc \in Versions(r) :
    /\ doc.status = "Expired" => report[r].status = "EXPIRED"
    /\ doc.status = "Verified_Misinformation" =>
         report[r].status = "FINAL" /\ report[r].label = "1"
    /\ doc.status = "Verified_Non_Misinformation" =>
         report[r].status = "FINAL" /\ report[r].label = "0"

\* "concurrent votes from different orgs on the same report would otherwise lose
\* one another's reasoning" (_DOC_LOCKS): as long as there was no expiry pass,
\* outage, timeout or crash, a document nobody has locked carries the reasoning
\* of every vote on the ledger, whatever votes, finalisations and expiries came
\* at the same time.
DocumentIsComplete ==
  disturbed = {} =>
    \A r \in Reports : lock[r] = Free => GetReport(r).checks = report[r].checks

\* An expiry the API accepted ends up in the document and stays there, however
\* many votes were under way.
ExpiredIsRecorded ==
  \A r \in Reports : report[r].status = "EXPIRED" ~> [](GetReport(r).status = "Expired")

\* "fact_checks accumulates as fact-checkers report" (src/report.py): what readers
\* see of a report never loses a fact-check.  It does not hold: the expiry pass
\* writes back a document it read before a vote was stored.
ReasoningAccumulates ==
  [][\A r \in Reports : IsPrefix(GetReport(r).checks, GetReport(r)'.checks)]_gvars

\* "the current full snapshot - claim content plus every fact_check so far"
\* (save_report_version) is what IPFS gets on every fact-check.  It does not hold:
\* a version stored in SQLite during an outage is left out of those after it.
SnapshotIsFull ==
  [][\A r \in Reports : index'[r] # index[r] => index'[r].checks = report[r].checks]_gvars
=============================================================================
