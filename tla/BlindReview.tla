------------------------------ MODULE BlindReview ------------------------------
(***************************************************************************)
(* Whom the votes on a report that is still open are shown to: the claim   *)
(* page of a fact-checker, which fact-checking-service keeps blind, the    *)
(* officials' console of the web client, and the read routes of the        *)
(* gateway that a member may call itself.  A member is an organisation     *)
(* here, as it is on the ledger: whoever reads for it may vote for it.     *)
(***************************************************************************)
EXTENDS ReportViews

CONSTANTS
  Officials,     \* the members an official signs in for
  DirectReaders  \* the members that call the gateway's read routes themselves

VARIABLES
  overdue,  \* the open reports whose window has ended
  peeked    \* history: the reports of which each member has been shown votes

ovars == <<wvars, overdue, peeked>>

OInit ==
  /\ WInit
  /\ overdue = {}
  /\ peeked = [o \in Members |-> {}]

\* fact_check_deadline is over.  Nothing closes the report, nor refuses a vote, until
\* somebody finalises or expires it.
WindowEnds(r) ==
  /\ ledger[r].status \in OPEN_STATUSES
  /\ overdue' = overdue \cup {r}
  /\ UNCHANGED <<wvars, peeked>>

\* The member is given the votes there are on these reports.
Peeks(o, reports) ==
  /\ peeked' = [peeked EXCEPT ![o] = @ \cup {r \in reports : ledger[r].voted # {}}]
  /\ UNCHANGED <<wvars, overdue>>

\* project: "reveal".
Reveal(record, org) == record.status \notin OPEN_STATUSES \/ org \in record.voted

\* claim, queue and reviewed: the votes on a record, and the reasons given in its
\* document, are shown when the record says so.
ClaimShown(o, r) == Reveal(ledger[r], o) /\ Peeks(o, {r})

\* The page lists the open reports past their deadline with their yes and no votes.
ConsoleShown(o) ==
  /\ o \in Officials
  /\ Peeks(o, {r \in overdue : ledger[r].status \in OPEN_STATUSES})

\* list_reports, get_report, get_chain and get_consensus answer with all the votes.
ReportRead(o, r) == o \in DirectReaders /\ Peeks(o, {r})

ONext ==
  \/ WNext /\ UNCHANGED <<overdue, peeked>>
  \/ \E r \in Posts : WindowEnds(r)
  \/ \E o \in Members : ConsoleShown(o) \/ \E r \in Posts : ClaimShown(o, r) \/ ReportRead(o, r)

OSpec == OInit /\ [][ONext]_ovars

-----------------------------------------------------------------------------
\* "Hidden until your organisation has voted, so that each assessment is independent"
\* (Review.tsx): whatever a member was shown of the votes on a report came after its
\* own vote, or after the report was closed to votes.  It does not hold: the console
\* gives the votes on an overdue report to officials whose member has yet to vote.
VotesAreBlind ==
  [][\A r \in Posts, o \in Members :
       o \in ledger'[r].voted \ ledger[r].voted => r \notin peeked[o]]_ovars
=============================================================================
