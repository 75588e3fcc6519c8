------------------------------ MODULE ReportViews ------------------------------
(***************************************************************************)
(* What the public is shown of the reports: the portal of the gateway      *)
(* (api/server.py), which reads the list of reports through a short-lived  *)
(* cache.  Votes and decisions arrive meanwhile, through this gateway,     *)
(* whose handlers clear the cache when they are done, or through another   *)
(* one and the hourly pass, which do not.                                  *)
(*                                                                         *)
(* By which rule a report closes is the matter of module Misinformation;   *)
(* here an open report takes one vote of each organisation, and closes     *)
(* once, in any way.  Of what is shown the model keeps the verdict.  Whom  *)
(* the votes are shown to is the matter of module BlindReview.             *)
(***************************************************************************)
EXTENDS Integers, FiniteSets

CONSTANTS
  Members,      \* the registered organisations
  Posts,        \* the report ids
  Visitors,     \* requests for the portal's list, a thread each
  PUBLIC_TTL_S,
  MaxViewTime   \* bound of the model: the clock

ASSUME ViewsAssumption == {PUBLIC_TTL_S, MaxViewTime} \subseteq Nat

VARIABLES
  ledger,     \* of each report, its status, final label and who has voted
  viewNow,    \* time.monotonic() of the gateway
  deciding,   \* the reports whose handlers have the ledger's answer and have not
              \* cleared the cache
  cache,      \* PUBLIC_CACHE: the list, the time it is kept under, and (for the
              \* properties) the time it was read
  visits,     \* what each visitor's request is at
  published   \* history: the verdicts the portal has ever given of each report

wvars == <<ledger, viewNow, deciding, cache, visits, published>>

NotAsking == [at |-> "idle"]
NoList    == [at |-> -1]

WInit ==
  /\ ledger = [r \in Posts |-> [status |-> "ABSENT", label |-> "none", voted |-> {}]]
  /\ viewNow = 0
  /\ deciding = {}
  /\ cache = NoList
  /\ visits = [v \in Visitors |-> NotAsking]
  /\ published = [r \in Posts |-> {}]

-----------------------------------------------------------------------------
(* What changes the reports. *)

OPEN_STATUSES == {"PENDING", "UNDER_REVIEW"}

LedgerStep ==
  /\ deciding' \in {deciding, deciding \cup {r \in Posts : ledger'[r] # ledger[r]}}
  /\ UNCHANGED <<viewNow, cache, visits, published>>

Anchors(r) ==
  /\ ledger[r].status = "ABSENT"
  /\ ledger' = [ledger EXCEPT ![r].status = "PENDING"]
  /\ LedgerStep

\* A vote, through a handler of this gateway or of another; it may close the report.
Votes(o, r) ==
  /\ ledger[r].status \in OPEN_STATUSES /\ o \notin ledger[r].voted
  /\ \E end \in {<<"UNDER_REVIEW", "none">>, <<"FINAL", "1">>, <<"REJECTED", "none">>} :
       ledger' = [ledger EXCEPT ![r] =
                    [status |-> end[1], label |-> end[2], voted |-> @.voted \cup {o}]]
  /\ LedgerStep

\* Finalised by an official, or expired, by a handler of this gateway or otherwise.
Closes(r) ==
  /\ ledger[r].status \in OPEN_STATUSES
  /\ \E end \in {<<"FINAL", "0">>, <<"FINAL", "1">>, <<"EXPIRED", "none">>} :
       ledger' = [ledger EXCEPT ![r].status = end[1], ![r].label = end[2]]
  /\ LedgerStep

\* The last thing a handler does; it may have failed before it came to it.
Clears(r) ==
  /\ deciding' = deciding \ {r}
  /\ cache' \in {NoList, cache}
  /\ UNCHANGED <<ledger, viewNow, visits, published>>

TimePasses ==
  /\ viewNow < MaxViewTime
  /\ viewNow' = viewNow + 1
  /\ UNCHANGED <<ledger, deciding, cache, visits, published>>

-----------------------------------------------------------------------------
(* The portal. *)

\* Mutant: reports under review are published.
CLOSED_STATUSES_early == {"UNDER_REVIEW", "FINAL", "REJECTED", "EXPIRED"}
CLOSED_STATUSES == {"FINAL", "REJECTED", "EXPIRED"}

Verdict(record) ==
  CASE record.status = "FINAL" -> IF record.label = "1" THEN "misinformation" ELSE "not_misinformation"
    [] record.status = "REJECTED" -> "not_confirmed"
    [] record.status = "EXPIRED" -> "expired"
    [] OTHER -> "under_review"

\* What the portal says of the reports of a list: the verdicts of the closed ones.
Shown(list) ==
  [r \in Posts |-> IF list[r].status \in CLOSED_STATUSES THEN {Verdict(list[r])} ELSE {}]

Publishes(shown) == published' = [r \in Posts |-> published[r] \cup shown[r]]

Fresh == cache # NoList /\ viewNow - cache.at < PUBLIC_TTL_S

ReadsOnly == UNCHANGED <<ledger, viewNow, deciding>>

\* get of _TTLCache looks under its lock.
CacheHit(v) ==
  /\ visits[v] = NotAsking
  /\ Fresh
  /\ Publishes(cache.shown)
  /\ UNCHANGED <<cache, visits>> /\ ReadsOnly

CacheMiss(v) ==
  /\ visits[v] = NotAsking
  /\ ~Fresh
  /\ visits' = [visits EXCEPT ![v] = [at |-> "load", asked |-> viewNow]]
  /\ UNCHANGED <<cache, published>> /\ ReadsOnly

\* The loader, query_all, runs without the lock.
Loads(v) ==
  /\ visits[v].at = "load"
  /\ visits' = [visits EXCEPT ![v] =
                  [at |-> "store", asked |-> @.asked, read |-> viewNow, shown |-> Shown(ledger)]]
  /\ UNCHANGED <<cache, published>> /\ ReadsOnly

\* Mutant: kept under the time it is stored at.
KeptUnder_storing(visit) == viewNow
\* The time that was read before the loader ran.
KeptUnder(visit) == visit.asked

\* Whatever was stored, or cleared, meanwhile.
Stores(v) ==
  /\ visits[v].at = "store"
  /\ cache' = [at |-> KeptUnder(visits[v]), read |-> visits[v].read, shown |-> visits[v].shown]
  /\ Publishes(visits[v].shown)
  /\ visits' = [visits EXCEPT ![v] = NotAsking]
  /\ ReadsOnly

\* public_report and public_tip_status read the one record themselves, and give no
\* verdict of one that is not closed; the rest only adds to it.
PublicReport(r) ==
  /\ ledger[r].status \in CLOSED_STATUSES
  /\ published' = [published EXCEPT ![r] = @ \cup {Verdict(ledger[r])}]
  /\ UNCHANGED <<cache, visits>> /\ ReadsOnly

-----------------------------------------------------------------------------
WNext ==
  \/ \E r \in Posts : Anchors(r) \/ Closes(r) \/ PublicReport(r)
  \/ \E r \in deciding : Clears(r)
  \/ \E r \in Posts, o \in Members : Votes(o, r)
  \/ \E v \in Visitors : CacheHit(v) \/ CacheMiss(v) \/ Loads(v) \/ Stores(v)
  \/ TimePasses

WSpec == WInit /\ [][WNext]_wvars

-----------------------------------------------------------------------------
(* Properties. *)

\* The public is told what is recent and stays true.  An answer from the cache was
\* read from the ledger less than PUBLIC_TTL_S before, however long the list took
\* to load and whatever was loaded, stored and cleared meanwhile (a list that is
\* stored after the cache was cleared is out of date, but for no longer than that);
\* and a verdict the portal has once given of a report is never contradicted, not
\* from an older list and not when more is decided afterwards.
PublicAnswersHold ==
  /\ Fresh => viewNow - cache.read < PUBLIC_TTL_S
  /\ \A r \in Posts : Cardinality(published[r]) <= 1
=============================================================================
