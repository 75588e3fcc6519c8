--------------------------- MODULE ReportViewsProofs ---------------------------
(* What holds of the portal for any reports, organisations, visitors and any *)
(* time the cache is kept for.                                               *)
EXTENDS ReportViews, FiniteSetTheorems, TLAPS

LedgerRow == [status : OPEN_STATUSES \cup CLOSED_STATUSES \cup {"ABSENT"},
              label : {"none", "0", "1"}, voted : SUBSET Members]

\* What may be said of a report: the verdict of a closed one, which stays.
Said(record) == IF record.status \in CLOSED_STATUSES THEN {Verdict(record)} ELSE {}

\* A list was asked for, then read, and says what may be said now.
ListFits(asked, read, shown) ==
  /\ asked \in Nat /\ read \in Nat /\ asked <= read /\ read <= viewNow
  /\ \A r \in Posts : shown[r] \subseteq Said(ledger[r])

CacheFits == cache # NoList => ListFits(cache.at, cache.read, cache.shown)

VisitFits(v) ==
  /\ visits[v].at = "load" => visits[v].asked \in Nat /\ visits[v].asked <= viewNow
  /\ visits[v].at = "store" => ListFits(visits[v].asked, visits[v].read, visits[v].shown)

\* Inductive: every list that is kept, or will be, is true of the ledger, and was
\* read after the time it is kept under.
PortalInv ==
  /\ viewNow \in Nat
  /\ ledger \in [Posts -> LedgerRow]
  /\ DOMAIN visits = Visitors
  /\ CacheFits
  /\ \A v \in Visitors : VisitFits(v)
  /\ \A r \in Posts : published[r] \subseteq Said(ledger[r])

-----------------------------------------------------------------------------
(* The ledger. *)

\* What changes a report.
Changes == (\E r \in Posts : Anchors(r) \/ Closes(r)) \/ (\E r \in Posts, o \in Members : Votes(o, r))

\* A closed report is left as it is; voters are not forgotten.
LEMMA LedgerGrows ==
  ASSUME ledger \in [Posts -> LedgerRow], Changes
  PROVE  /\ ledger' \in [Posts -> LedgerRow]
         /\ \A r \in Posts : /\ ledger[r].status \in CLOSED_STATUSES => ledger'[r] = ledger[r]
                             /\ ledger[r].voted \subseteq ledger'[r].voted
         /\ UNCHANGED <<viewNow, cache, visits, published>>
<1>1. ASSUME NEW r \in Posts, Anchors(r) PROVE
         /\ ledger' = [ledger EXCEPT ![r] = [ledger[r] EXCEPT !.status = "PENDING"]]
         /\ ledger[r].status \notin CLOSED_STATUSES
         /\ [ledger[r] EXCEPT !.status = "PENDING"] \in LedgerRow
         /\ [ledger[r] EXCEPT !.status = "PENDING"].voted = ledger[r].voted
         /\ UNCHANGED <<viewNow, cache, visits, published>>
  BY <1>1 DEF Anchors, LedgerStep, LedgerRow, OPEN_STATUSES, CLOSED_STATUSES
<1>2. ASSUME NEW r \in Posts, Closes(r) PROVE
         \E row \in LedgerRow :
           /\ ledger' = [ledger EXCEPT ![r] = row]
           /\ ledger[r].status \notin CLOSED_STATUSES
           /\ row.voted = ledger[r].voted
           /\ UNCHANGED <<viewNow, cache, visits, published>>
  <2>1. PICK end \in {<<"FINAL", "0">>, <<"FINAL", "1">>, <<"EXPIRED", "none">>} :
          ledger' = [ledger EXCEPT ![r].status = end[1], ![r].label = end[2]]
    BY <1>2 DEF Closes
  <2> DEFINE half == [ledger[r] EXCEPT !.status = end[1]]
             row  == [half EXCEPT !.label = end[2]]
  <2>2. end[1] \in CLOSED_STATUSES /\ end[2] \in {"none", "0", "1"} BY DEF CLOSED_STATUSES
  <2>3. ledger[r] \in LedgerRow OBVIOUS
  <2>4. half \in LedgerRow /\ half.voted = ledger[r].voted BY <2>2, <2>3 DEF LedgerRow
  <2>6. ledger' = [ledger EXCEPT ![r] = row] BY <2>1
  <2> HIDE DEF half
  <2>5. row \in LedgerRow /\ row.voted = ledger[r].voted BY <2>2, <2>4 DEF LedgerRow
  <2>7. ledger[r].status \notin CLOSED_STATUSES /\ UNCHANGED <<viewNow, cache, visits, published>>
    BY <1>2 DEF Closes, LedgerStep, OPEN_STATUSES, CLOSED_STATUSES
  <2> HIDE DEF row
  <2> QED BY <2>5, <2>6, <2>7
<1>3. ASSUME NEW r \in Posts, NEW o \in Members, Votes(o, r) PROVE
         \E row \in LedgerRow :
           /\ ledger' = [ledger EXCEPT ![r] = row]
           /\ ledger[r].status \notin CLOSED_STATUSES
           /\ ledger[r].voted \subseteq row.voted
           /\ UNCHANGED <<viewNow, cache, visits, published>>
  <2>1. PICK end \in {<<"UNDER_REVIEW", "none">>, <<"FINAL", "1">>, <<"REJECTED", "none">>} :
          ledger' = [ledger EXCEPT ![r] =
                       [status |-> end[1], label |-> end[2], voted |-> ledger[r].voted \cup {o}]]
    BY <1>3 DEF Votes
  <2> DEFINE row == [status |-> end[1], label |-> end[2], voted |-> ledger[r].voted \cup {o}]
  <2>2. end[1] \in OPEN_STATUSES \cup CLOSED_STATUSES /\ end[2] \in {"none", "0", "1"}
    BY DEF OPEN_STATUSES, CLOSED_STATUSES
  <2>3. ledger[r].voted \subseteq Members BY DEF LedgerRow
  <2>4. row \in LedgerRow /\ ledger[r].voted \subseteq row.voted BY <2>2, <2>3 DEF LedgerRow
  <2>5. ledger[r].status \notin CLOSED_STATUSES /\ UNCHANGED <<viewNow, cache, visits, published>>
    BY <1>3 DEF Votes, LedgerStep, OPEN_STATUSES, CLOSED_STATUSES
  <2> QED BY <2>1, <2>4, <2>5
<1>4. ASSUME NEW r \in Posts, NEW row \in LedgerRow, ledger' = [ledger EXCEPT ![r] = row],
             ledger[r].status \notin CLOSED_STATUSES, ledger[r].voted \subseteq row.voted
      PROVE  /\ ledger' \in [Posts -> LedgerRow]
             /\ \A p \in Posts : /\ ledger[p].status \in CLOSED_STATUSES => ledger'[p] = ledger[p]
                                 /\ ledger[p].voted \subseteq ledger'[p].voted
  BY <1>4
<1> QED BY <1>1, <1>2, <1>3, <1>4 DEF Changes

\* So what was said may still be said.
LEMMA SaidStays ==
  ASSUME ledger \in [Posts -> LedgerRow], Changes \/ UNCHANGED ledger, NEW r \in Posts
  PROVE  Said(ledger[r]) \subseteq Said(ledger'[r])
BY LedgerGrows DEF Said

LEMMA ListStays ==
  ASSUME ledger \in [Posts -> LedgerRow], Changes \/ UNCHANGED ledger,
         viewNow \in Nat, viewNow' \in Nat, viewNow <= viewNow',
         NEW asked, NEW read, NEW shown, ListFits(asked, read, shown)
  PROVE  /\ asked \in Nat /\ read \in Nat /\ asked <= read /\ read <= viewNow'
         /\ \A r \in Posts : shown[r] \subseteq Said(ledger'[r])
BY SaidStays DEF ListFits

-----------------------------------------------------------------------------
(* The portal. *)

\* The time goes on, the ledger changes, and the visits and the cache stay, or the
\* cache is cleared.
LEMMA Otherwise ==
  ASSUME PortalInv, Changes \/ UNCHANGED ledger, viewNow' \in Nat, viewNow <= viewNow',
         UNCHANGED visits, cache' \in {NoList, cache},
         \A r \in Posts : published'[r] \subseteq published[r] \cup Said(ledger[r])
  PROVE  PortalInv'
<1>1. ledger \in [Posts -> LedgerRow] /\ viewNow \in Nat BY DEF PortalInv
<1>2. ledger' \in [Posts -> LedgerRow] BY <1>1, LedgerGrows
<1>3. CacheFits' BY <1>1, ListStays DEF PortalInv, CacheFits, ListFits
<1>4. ASSUME NEW v \in Visitors PROVE VisitFits(v)'
  <2>1. VisitFits(v) BY DEF PortalInv
  <2>2. CASE visits[v].at = "load" BY <1>1, <2>1, <2>2 DEF VisitFits
  <2>3. CASE visits[v].at = "store" BY <1>1, <2>1, <2>3, ListStays DEF VisitFits, ListFits
  <2>4. CASE visits[v].at \notin {"load", "store"} BY <2>4 DEF VisitFits
  <2> QED BY <2>2, <2>3, <2>4
<1>5. ASSUME NEW r \in Posts PROVE published'[r] \subseteq Said(ledger'[r])
  BY <1>1, SaidStays DEF PortalInv
<1> QED BY <1>2, <1>3, <1>4, <1>5 DEF PortalInv

\* An answer is given of reports that are closed.
LEMMA ShownIsSaid ==
  \A r \in Posts : Shown(ledger)[r] = Said(ledger[r])
BY DEF Shown, Said

\* One visit goes on; nothing is decided meanwhile.
LEMMA OneVisit ==
  ASSUME PortalInv, UNCHANGED <<ledger, viewNow, published, cache>>,
         NEW v \in Visitors, NEW visit, visits' = [visits EXCEPT ![v] = visit],
         visit.at = "load" => visit.asked \in Nat /\ visit.asked <= viewNow,
         visit.at = "store" => ListFits(visit.asked, visit.read, visit.shown)
  PROVE  PortalInv'
<1>1. visits'[v] = visit /\ DOMAIN visits' = Visitors
      /\ \A w \in Visitors : w # v => visits'[w] = visits[w]
  BY DEF PortalInv
<1>2. ASSUME NEW w \in Visitors PROVE VisitFits(w)'
  <2>1. CASE w = v BY <1>1, <2>1 DEF VisitFits, ListFits
  <2>2. CASE w # v BY <1>1, <2>2 DEF PortalInv, VisitFits, ListFits
  <2> QED BY <2>1, <2>2
<1> QED BY <1>1, <1>2 DEF PortalInv, CacheFits, ListFits

LEMMA StoresKeeps ==
  ASSUME PortalInv, NEW v \in Visitors, Stores(v)
  PROVE  PortalInv'
<1> DEFINE visit == visits[v]
           new   == [at |-> visit.asked, read |-> visit.read, shown |-> visit.shown]
<1>1. ListFits(visit.asked, visit.read, visit.shown) BY DEF PortalInv, VisitFits, Stores
<1>2. cache' = new /\ visits' = [visits EXCEPT ![v] = NotAsking] /\ UNCHANGED <<ledger, viewNow>>
      /\ published' = [r \in Posts |-> published[r] \cup visit.shown[r]]
  BY DEF Stores, KeptUnder, ReadsOnly, Publishes
<1>3. CacheFits' BY <1>1, <1>2 DEF CacheFits, ListFits
<1>4. DOMAIN visits' = Visitors /\ visits'[v] = NotAsking
      /\ \A w \in Visitors : w # v => visits'[w] = visits[w]
  BY <1>2 DEF PortalInv
<1>5. ASSUME NEW w \in Visitors PROVE VisitFits(w)'
  <2>1. CASE w = v BY <1>4, <2>1 DEF VisitFits, NotAsking
  <2>2. CASE w # v BY <1>2, <1>4, <2>2 DEF PortalInv, VisitFits, ListFits
  <2> QED BY <2>1, <2>2
<1>6. \A r \in Posts : published'[r] \subseteq Said(ledger'[r])
  BY <1>1, <1>2 DEF PortalInv, ListFits
<1> QED BY <1>2, <1>3, <1>4, <1>5, <1>6 DEF PortalInv

LEMMA PortalStep ==
  ASSUME PortalInv, [WNext]_wvars
  PROVE  PortalInv'
<1>1. viewNow \in Nat /\ \A r \in Posts : published[r] \subseteq Said(ledger[r]) BY DEF PortalInv
<1>2. CASE Changes
  <2>1. UNCHANGED <<viewNow, cache, visits, published>> BY <1>2, LedgerGrows DEF PortalInv
  <2> QED BY <1>1, <1>2, <2>1, Otherwise
<1>3. CASE \E r \in deciding : Clears(r)
  BY <1>1, <1>3, Otherwise DEF Clears
<1>4. CASE TimePasses BY <1>1, <1>4, Otherwise DEF TimePasses
<1>5. ASSUME NEW p \in Posts, PublicReport(p) PROVE PortalInv'
  <2>1. UNCHANGED <<ledger, viewNow, cache, visits>> BY <1>5 DEF PublicReport, ReadsOnly
  <2>2. \A r \in Posts : published'[r] \subseteq published[r] \cup Said(ledger[r])
    <3>1. published' = [published EXCEPT ![p] = published[p] \cup {Verdict(ledger[p])}]
          /\ ledger[p].status \in CLOSED_STATUSES
      BY <1>5 DEF PublicReport
    <3> QED BY <3>1 DEF Said
  <2> QED BY <1>1, <2>1, <2>2, Otherwise
<1>6. ASSUME NEW v \in Visitors, CacheHit(v) PROVE PortalInv'
  <2>1. UNCHANGED <<ledger, viewNow, cache, visits>> BY <1>6 DEF CacheHit, ReadsOnly
  <2>2. ListFits(cache.at, cache.read, cache.shown) BY <1>6 DEF CacheHit, Fresh, PortalInv, CacheFits
  <2>3. published' = [r \in Posts |-> published[r] \cup cache.shown[r]] BY <1>6 DEF CacheHit, Publishes
  <2>4. \A r \in Posts : published'[r] \subseteq published[r] \cup Said(ledger[r])
    BY <2>2, <2>3 DEF ListFits
  <2> QED BY <1>1, <2>1, <2>4, Otherwise
<1>7. ASSUME NEW v \in Visitors, CacheMiss(v) PROVE PortalInv'
  <2> DEFINE visit == [at |-> "load", asked |-> viewNow]
  <2>1. visits' = [visits EXCEPT ![v] = visit] /\ UNCHANGED <<ledger, viewNow, published, cache>>
    BY <1>7 DEF CacheMiss, ReadsOnly
  <2>2. visit.at # "store" /\ visit.asked \in Nat /\ visit.asked <= viewNow BY <1>1
  <2> HIDE DEF visit
  <2> QED BY <1>1, <2>1, <2>2, OneVisit
<1>8. ASSUME NEW v \in Visitors, Loads(v) PROVE PortalInv'
  <2> DEFINE visit == [at |-> "store", asked |-> visits[v].asked, read |-> viewNow, shown |-> Shown(ledger)]
  <2>1. visits' = [visits EXCEPT ![v] = visit] /\ UNCHANGED <<ledger, viewNow, published, cache>>
        /\ visits[v].at = "load"
    BY <1>8 DEF Loads, ReadsOnly
  <2>2. visits[v].asked \in Nat /\ visits[v].asked <= viewNow BY <2>1 DEF PortalInv, VisitFits
  <2>3. visit.at = "store" /\ visit.asked = visits[v].asked /\ visit.read = viewNow
        /\ visit.shown = Shown(ledger)
    OBVIOUS
  <2> HIDE DEF visit
  <2>4. ListFits(visit.asked, visit.read, visit.shown)
    BY <1>1, <2>2, <2>3, ShownIsSaid DEF ListFits
  <2> QED BY <2>1, <2>3, <2>4, OneVisit
<1>9. CASE UNCHANGED wvars BY <1>1, <1>9, Otherwise DEF wvars
<1> QED BY <1>2, <1>3, <1>4, <1>5, <1>6, <1>7, <1>8, <1>9, StoresKeeps DEF WNext, Changes

LEMMA PortalInit ==
  ASSUME WInit
  PROVE  PortalInv
<1>1. [status |-> "ABSENT", label |-> "none", voted |-> {}] \in LedgerRow BY DEF LedgerRow
<1>2. ledger \in [Posts -> LedgerRow] BY <1>1 DEF WInit
<1>3. \A r \in Posts : published[r] = {} BY DEF WInit
<1>4. DOMAIN visits = Visitors /\ \A v \in Visitors : visits[v].at = "idle" BY DEF WInit, NotAsking
<1>5. viewNow \in Nat /\ cache = NoList BY DEF WInit
<1> QED BY <1>2, <1>3, <1>4, <1>5 DEF PortalInv, CacheFits, VisitFits

LEMMA OneVerdict ==
  ASSUME NEW record, NEW told, told \subseteq Said(record)
  PROVE  Cardinality(told) <= 1
<1>1. told = {} \/ told = {Verdict(record)} BY DEF Said
<1>2. Cardinality({}) = 0 /\ Cardinality({Verdict(record)}) = 1 BY FS_EmptySet, FS_Singleton
<1> QED BY <1>1, <1>2

\* The public is told what is recent and stays true, however long lists take to
\* load and whatever is stored, cleared and decided meanwhile.
THEOREM PublicAnswersAreTrue == WSpec => []PublicAnswersHold
<1>1. WInit => PortalInv BY PortalInit
<1>2. PortalInv /\ [WNext]_wvars => PortalInv' BY PortalStep
<1>3. PortalInv => PublicAnswersHold
  <2> SUFFICES ASSUME PortalInv PROVE PublicAnswersHold OBVIOUS
  <2>1. \A r \in Posts : Cardinality(published[r]) <= 1 BY OneVerdict DEF PortalInv
  <2>2. Fresh => viewNow - cache.read < PUBLIC_TTL_S
    BY ViewsAssumption DEF PortalInv, CacheFits, ListFits, Fresh
  <2> QED BY <2>1, <2>2 DEF PublicAnswersHold
<1> QED BY <1>1, <1>2, <1>3, PTL DEF WSpec

=============================================================================
