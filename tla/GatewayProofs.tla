----------------------------- MODULE GatewayProofs -----------------------------
(* What holds of the gateway's documents for any organisations, reports,     *)
(* request threads and clock readings, whatever disturbs the threads and     *)
(* however often.                                                            *)
EXTENDS GatewayDocuments, FiniteSetTheorems, TLAPS

Record == Chaincode!ReportRecord
Checks == Seq(Chaincode!FactCheck)

\* A closed record stays as it is, and the checks of an open one are added to.
Later(old, new) ==
  /\ Chaincode!Closed(old.status) => new = old
  /\ old.status # "ABSENT" => new.status # "ABSENT"
  /\ Len(old.checks) <= Len(new.checks)
  /\ \A i \in DOMAIN old.checks : new.checks[i] = old.checks[i]

\* The status of a document that says how its report ended is that of the record.
VerdictFits(record, status) ==
  /\ status = "Expired" => record.status = "EXPIRED"
  /\ status = "Verified_Misinformation" => record.status = "FINAL" /\ record.label = "1"
  /\ status = "Verified_Non_Misinformation" => record.status = "FINAL" /\ record.label = "0"

DocFits(record, doc) == Mirrors(doc.checks, record.checks) /\ VerdictFits(record, doc.status)

\* The record is closed as the transaction asked.
ClosedBy(record, op) ==
  /\ op = "expire" => record.status = "EXPIRED"
  /\ op = "finalize" => record.status = "FINAL" /\ record.label \in {"0", "1"}

\* No organisation checked a report twice, and none one that is not there.
LedgerInv ==
  \A r \in Reports :
    /\ report[r].status = "ABSENT" => report[r].checks = <<>>
    /\ \A i, j \in DOMAIN report[r].checks :
         report[r].checks[i].checker = report[r].checks[j].checker => i = j

\* The reports with a document.
Stored == {r \in Reports : Exists(r)}

RequestFits(q, records, stored) ==
  q # Idle =>
    /\ DocFits(records[q.tx.r], q.doc)
    /\ q.step \in {"close", "save"} => ClosedBy(records[q.tx.r], q.tx.op)
    /\ q.step = "save" => q.doc.status # "none"
    /\ q.tx.op = "submit" => q.tx.r \in stored

PassFits(pass, records) ==
  /\ pass.step \in {"read", "save"} => records[pass.r].status = "EXPIRED"
  /\ pass.step = "save" => DocFits(records[pass.r], pass.doc) /\ pass.doc.status = "Expired"

\* Inductive: every version of a document, stored or about to be, fits the ledger; a
\* thread that is about to write how a report ended has seen it closed; and a report
\* that may still be submitted has its document.
GInv ==
  /\ GTypeOK
  /\ LedgerInv
  /\ \A r \in Reports : DocFits(report[r], index[r]) /\ DocFits(report[r], local[r])
  /\ \A h \in Handlers : RequestFits(handler[h], report, Stored)
  /\ PassFits(scheduler, report)
  /\ \A tx \in late : tx.op = "submit" => tx.r \in Stored
  /\ \A r \in Reports : report[r].status # "ABSENT" \/ r \in indexed => r \in Stored

-----------------------------------------------------------------------------
(* Documents and records. *)

LEMMA RecordShape ==
  ASSUME NEW record \in Record
  PROVE  /\ record.checks \in Checks /\ Len(record.checks) \in Nat
         /\ DOMAIN record.checks = 1 .. Len(record.checks)
BY DEF Record, Checks, Chaincode!ReportRecord

LEMMA DocumentShape ==
  ASSUME NEW doc \in Document
  PROVE  /\ doc.checks \in Checks /\ Len(doc.checks) \in Nat
         /\ DOMAIN doc.checks = 1 .. Len(doc.checks)
BY DEF Document, Checks

LEMMA EmptyMirrors == ASSUME NEW onLedger PROVE Mirrors(<<>>, onLedger)
<1> DEFINE nothing == [i \in DOMAIN <<>> |-> 0]
<1>1. DOMAIN <<>> = {}
  OBVIOUS
<1>2. nothing \in [DOMAIN <<>> -> DOMAIN onLedger]
  BY <1>1
<1>3. QED BY <1>1, <1>2 DEF Mirrors

\* What mirrors the checks of a record mirrors those of a later one.
LEMMA MirrorsStay ==
  ASSUME NEW checks \in Checks, NEW old \in Checks, NEW new \in Checks, Mirrors(checks, old),
         Len(old) <= Len(new), \A i \in DOMAIN old : new[i] = old[i]
  PROVE  Mirrors(checks, new)
<1>1. PICK place \in [DOMAIN checks -> DOMAIN old] :
        /\ \A i \in DOMAIN checks : checks[i] = old[place[i]]
        /\ \A i, j \in DOMAIN checks : i < j => place[i] < place[j]
  BY DEF Mirrors
<1>2. DOMAIN old = 1 .. Len(old) /\ DOMAIN new = 1 .. Len(new) /\ Len(old) \in Nat /\ Len(new) \in Nat
  BY DEF Checks
<1>3. DOMAIN old \subseteq DOMAIN new
  BY <1>2
<1>4. place \in [DOMAIN checks -> DOMAIN new]
  BY <1>3
<1>5. QED BY <1>1, <1>4 DEF Mirrors

\* The check that a vote adds comes last in both.
LEMMA MirrorsAppend ==
  ASSUME NEW checks \in Checks, NEW onLedger \in Checks, NEW check \in Chaincode!FactCheck,
         Mirrors(checks, onLedger)
  PROVE  Mirrors(Append(checks, check), Append(onLedger, check))
<1> DEFINE more == Append(checks, check)  all == Append(onLedger, check)
           n == Len(checks)  m == Len(onLedger)
<1>1. PICK place \in [DOMAIN checks -> DOMAIN onLedger] :
        /\ \A i \in DOMAIN checks : checks[i] = onLedger[place[i]]
        /\ \A i, j \in DOMAIN checks : i < j => place[i] < place[j]
  BY DEF Mirrors
<1>2. /\ n \in Nat /\ m \in Nat /\ DOMAIN checks = 1 .. n /\ DOMAIN onLedger = 1 .. m
      /\ DOMAIN more = 1 .. n + 1 /\ DOMAIN all = 1 .. m + 1
      /\ \A i \in 1 .. n : more[i] = checks[i]
      /\ \A i \in 1 .. m : all[i] = onLedger[i]
      /\ more[n + 1] = check /\ all[m + 1] = check
  BY DEF Checks
<1> DEFINE further == [i \in 1 .. n + 1 |-> IF i = n + 1 THEN m + 1 ELSE place[i]]
<1>3. \A i \in 1 .. n : further[i] = place[i] /\ place[i] \in 1 .. m
  BY <1>1, <1>2
<1>4. further[n + 1] = m + 1
  BY <1>2
<1>5. further \in [1 .. n + 1 -> 1 .. m + 1]
  BY <1>2, <1>3
<1>6. \A i \in 1 .. n + 1 : more[i] = all[further[i]]
  BY <1>1, <1>2, <1>3, <1>4
<1>7. ASSUME NEW i \in 1 .. n + 1, NEW j \in 1 .. n + 1, i < j PROVE further[i] < further[j]
  <2>1. i \in 1 .. n
    BY <1>2, <1>7
  <2>2. CASE j = n + 1
    BY <2>1, <2>2, <1>2, <1>3, <1>4
  <2>3. CASE j # n + 1
    <3>1. j \in 1 .. n
      BY <2>3, <1>2
    <3>2. QED BY <3>1, <2>1, <1>1, <1>2, <1>3, <1>7
  <2>4. QED BY <2>2, <2>3
<1> HIDE DEF further, more, all
<1>8. further \in [DOMAIN more -> DOMAIN all]
  BY <1>2, <1>5
<1>9. Mirrors(more, all)
  BY <1>2, <1>6, <1>7, <1>8 DEF Mirrors
<1>10. QED BY <1>9 DEF more, all

\* Nobody's check is listed twice in a document when nobody checked twice.
LEMMA MirrorsOnce ==
  ASSUME NEW checks \in Checks, NEW onLedger \in Checks, Mirrors(checks, onLedger),
         \A i, j \in DOMAIN onLedger : onLedger[i].checker = onLedger[j].checker => i = j
  PROVE  \A i, j \in DOMAIN checks : checks[i].checker = checks[j].checker => i = j
<1>1. PICK place \in [DOMAIN checks -> DOMAIN onLedger] :
        /\ \A i \in DOMAIN checks : checks[i] = onLedger[place[i]]
        /\ \A i, j \in DOMAIN checks : i < j => place[i] < place[j]
  BY DEF Mirrors
<1>2. DOMAIN checks \subseteq Nat /\ DOMAIN onLedger \subseteq Nat
  BY DEF Checks
<1>3. SUFFICES ASSUME NEW i \in DOMAIN checks, NEW j \in DOMAIN checks,
                      checks[i].checker = checks[j].checker, i # j
               PROVE  FALSE
  OBVIOUS
<1>4. place[i] = place[j]
  BY <1>1, <1>3
<1>5. i < j \/ j < i
  BY <1>2, <1>3
<1>6. QED BY <1>1, <1>2, <1>4, <1>5

LEMMA StillFits ==
  ASSUME NEW old \in Record, NEW new \in Record, NEW doc \in Document,
         Later(old, new), DocFits(old, doc)
  PROVE  DocFits(new, doc)
<1>1. Mirrors(doc.checks, new.checks)
  BY MirrorsStay, RecordShape, DocumentShape DEF Later, DocFits
<1>2. VerdictFits(new, doc.status)
  BY DEF Later, DocFits, VerdictFits, Chaincode!Closed
<1>3. QED BY <1>1, <1>2 DEF DocFits

LEMMA NewDocsFit == ASSUME NEW record PROVE DocFits(record, NewDoc) /\ DocFits(record, NoDoc)
BY EmptyMirrors DEF DocFits, VerdictFits, NewDoc, NoDoc

LEMMA NewDocsType == NewDoc \in Document /\ NoDoc \in Document /\ NewDoc # NoDoc
<1>1. <<>> \in Checks
  BY DEF Checks
<1>2. NewDoc \in Document /\ NoDoc \in Document
  BY <1>1 DEF NewDoc, NoDoc, Document, Checks
<1>3. NewDoc.status # NoDoc.status
  BY DEF NewDoc, NoDoc
<1>4. QED BY <1>2, <1>3

\* A document that is stored has a status.
LEMMA IsADoc == ASSUME NEW doc, doc.status # "none" PROVE doc # NoDoc
BY DEF NoDoc

-----------------------------------------------------------------------------
(* The ledger. *)

LEMMA TransactionShape ==
  ASSUME NEW tx \in Transaction
  PROVE  /\ tx.r \in Reports /\ tx.org \in Orgs
         /\ tx.op \in {"submit", "check", "finalize", "expire"}
         /\ tx.op = "check" => tx.outcome \in Chaincode!Outcomes
BY DEF Transaction

\* What a commit does to the record of its report, and to nothing else.
LEMMA CommitEffect ==
  ASSUME GTypeOK, LedgerInv, NEW tx \in Transaction, Commits(tx)
  PROVE  LET old == report[tx.r]  new == report'[tx.r]
             check == [checker |-> tx.org, outcome |-> tx.outcome] IN
         /\ report' = [report EXCEPT ![tx.r] = new]
         /\ old \in Record /\ new \in Record /\ now' = now
         /\ Later(old, new) /\ new.status # "ABSENT" /\ ClosedBy(new, tx.op)
         /\ \/ tx.op # "check" /\ new.checks = old.checks
            \/ /\ tx.op = "check" /\ check \in Chaincode!FactCheck
               /\ new.checks = Append(old.checks, check)
               /\ \A i \in DOMAIN old.checks : old.checks[i].checker # tx.org
<1> DEFINE old == report[tx.r]
<1>0. /\ tx.r \in Reports /\ tx.org \in Orgs
      /\ tx.op \in {"submit", "check", "finalize", "expire"}
      /\ tx.op = "check" => tx.outcome \in Chaincode!Outcomes
  BY TransactionShape
<1>1. report \in [Reports -> Record] /\ old \in Record /\ now \in Times /\ now \in Nat
  BY <1>0, LedgerAssumption DEF GTypeOK, Chaincode!TypeOK, Record
<1>2. old.checks \in Checks /\ DOMAIN old.checks = 1 .. Len(old.checks) /\ Len(old.checks) \in Nat
  BY <1>1, RecordShape
<1>3. CASE tx.op = "submit"
  <2> DEFINE new == Chaincode!NewReport(now)
  <2>1. report' = [report EXCEPT ![tx.r] = new] /\ now' = now /\ old.status = "ABSENT"
    BY <1>3, <1>0 DEF Commits, Chaincode!Submit, Chaincode!maySubmit
  <2>2. new.status = "PENDING" /\ new.checks = <<>>
    BY DEF Chaincode!NewReport
  <2>3. <<>> \in Checks /\ now + Window \in Nat
    BY <1>1, LedgerAssumption DEF Checks
  <2>4. new \in Record
    BY <2>3 DEF Chaincode!NewReport, Record, Checks, Chaincode!ReportRecord
  <2>5. old.checks = <<>>
    BY <2>1, <1>0 DEF LedgerInv
  <2>6. Later(old, new)
    BY <2>1, <2>2, <2>5 DEF Later, Chaincode!Closed
  <2>7. ClosedBy(new, tx.op)
    BY <1>3 DEF ClosedBy
  <2>8. report'[tx.r] = new
    BY <2>1, <1>0, <1>1
  <2> HIDE DEF new
  <2>9. QED BY <1>1, <1>3, <2>1, <2>2, <2>4, <2>5, <2>6, <2>7, <2>8
<1>4. CASE tx.op = "check"
  <2> DEFINE check == [checker |-> tx.org, outcome |-> tx.outcome]
             new == Chaincode!AfterFactCheck(old, Orgs, check)
  <2>1. /\ report' = [report EXCEPT ![tx.r] = new] /\ now' = now
        /\ Chaincode!Open(old.status) /\ ~Chaincode!hasChecked(tx.org, old.checks)
    BY <1>4, <1>0, <1>1 DEF Commits, Chaincode!SubmitFactCheck, Chaincode!maySubmitFactCheck
  <2>2. check \in Chaincode!FactCheck
    BY <1>0, <1>4 DEF Chaincode!FactCheck
  <2>3. \A i \in DOMAIN old.checks : old.checks[i].checker # tx.org
    BY <2>1 DEF Chaincode!hasChecked, Chaincode!Checkers
  <2>4. new.checks = Append(old.checks, check)
    BY DEF Chaincode!AfterFactCheck
  <2>5. Append(old.checks, check) \in Checks
    BY <1>2, <2>2 DEF Checks
  <2>6. new.status \in {"FINAL", "REJECTED", "UNDER_REVIEW"}
    BY DEF Chaincode!AfterFactCheck, Chaincode!StatusAfterVote
  <2>7. new \in Record
    <3>1. new.label \in {"none"} \cup Chaincode!Outcomes
      BY <1>1 DEF Chaincode!AfterFactCheck, Record, Chaincode!ReportRecord, Chaincode!Outcomes
    <3>2. new = [status |-> new.status, checks |-> new.checks, label |-> new.label,
                 deadline |-> old.deadline]
      BY DEF Chaincode!AfterFactCheck
    <3>3. old.deadline \in Nat
      BY <1>1 DEF Record, Chaincode!ReportRecord
    <3>4. ASSUME NEW st \in {"FINAL", "REJECTED", "UNDER_REVIEW"}, NEW ch \in Checks,
                 NEW la \in {"none"} \cup Chaincode!Outcomes, NEW de \in Nat
          PROVE  [status |-> st, checks |-> ch, label |-> la, deadline |-> de] \in Record
      BY DEF Record, Checks, Chaincode!ReportRecord
    <3>5. new.checks \in Checks
      BY <2>4, <2>5
    <3> HIDE DEF new
    <3>6. QED BY <3>1, <3>2, <3>3, <3>4, <3>5, <2>6
  <2>8. Later(old, new)
    <3>1. Len(new.checks) = Len(old.checks) + 1
          /\ \A i \in DOMAIN old.checks : new.checks[i] = old.checks[i]
      BY <2>2, <2>4, <1>2 DEF Checks
    <3>2. ~Chaincode!Closed(old.status)
      BY <2>1 DEF Chaincode!Closed, Chaincode!Open
    <3> HIDE DEF new
    <3>3. QED BY <3>1, <3>2, <2>6, <1>2 DEF Later
  <2>9. report'[tx.r] = new
    BY <2>1, <1>0, <1>1
  <2>10. ClosedBy(new, tx.op)
    BY <1>4 DEF ClosedBy
  <2> HIDE DEF new
  <2>11. QED BY <1>1, <1>4, <2>1, <2>2, <2>3, <2>4, <2>6, <2>7, <2>8, <2>9, <2>10
<1>5. CASE tx.op = "finalize"
  <2>1. PICK winner \in Chaincode!Outcomes :
          /\ report' = [report EXCEPT ![tx.r] = [@ EXCEPT !.label = winner, !.status = "FINAL"]]
          /\ now' = now /\ Chaincode!Open(old.status)
    BY <1>5, <1>0 DEF Commits, Chaincode!FinalizeReport, Chaincode!mayFinalizeReport
  <2> DEFINE new == [old EXCEPT !.label = winner, !.status = "FINAL"]
  <2>2. report' = [report EXCEPT ![tx.r] = new] /\ report'[tx.r] = new
    BY <2>1, <1>0, <1>1
  <2>3. /\ new \in Record /\ new.checks = old.checks /\ new.status = "FINAL"
        /\ new.label = winner
    BY <1>1 DEF Record, Chaincode!ReportRecord
  <2>4. Later(old, new)
    BY <2>1, <2>3, <1>2 DEF Later, Chaincode!Closed, Chaincode!Open
  <2>5. ClosedBy(new, tx.op)
    BY <1>5, <2>3 DEF ClosedBy, Chaincode!Outcomes
  <2> HIDE DEF new
  <2>6. QED BY <1>1, <1>5, <2>1, <2>2, <2>3, <2>4, <2>5
<1>6. CASE tx.op = "expire"
  <2>1. /\ report' = [report EXCEPT ![tx.r].status = "EXPIRED"]
        /\ now' = now /\ Chaincode!Open(old.status)
    BY <1>6, <1>0 DEF Commits, Chaincode!ExpireReport, Chaincode!mayExpireReport
  <2> DEFINE new == [old EXCEPT !.status = "EXPIRED"]
  <2>2. report' = [report EXCEPT ![tx.r] = new] /\ report'[tx.r] = new
    BY <2>1, <1>0, <1>1
  <2>3. new \in Record /\ new.checks = old.checks /\ new.status = "EXPIRED"
    BY <1>1 DEF Record, Chaincode!ReportRecord
  <2>4. Later(old, new)
    BY <2>1, <2>3, <1>2 DEF Later, Chaincode!Closed, Chaincode!Open
  <2>5. ClosedBy(new, tx.op)
    BY <1>6, <2>3 DEF ClosedBy
  <2> HIDE DEF new
  <2>6. QED BY <1>1, <1>6, <2>1, <2>2, <2>3, <2>4, <2>5
<1>7. QED BY <1>0, <1>3, <1>4, <1>5, <1>6

-----------------------------------------------------------------------------
(* One step. *)

\* The ledger and the store in a step: at most one of them changes, by a transaction
\* whose report has a document, or by a version that fits.
LedgerStep ==
  \/ UNCHANGED report
  \/ UNCHANGED store /\ \E tx \in Transaction : Commits(tx) /\ (tx.op = "submit" => tx.r \in Stored)
StoreStep ==
  \/ UNCHANGED store
  \/ /\ UNCHANGED report
     /\ \E r \in Reports, doc \in Document :
          Save(r, doc) /\ doc.status # "none" /\ DocFits(report[r], doc)

\* The rest of it: threads go on to something that fits, and what is left under way
\* was under way before.
ThreadStep ==
  /\ now' \in Times /\ ipfs' \in {"up", "down"} /\ disturbed' \subseteq Disturbances
  /\ lock' \in [Reports -> Handlers \cup {Free}]
  /\ handler' = [h \in Handlers |-> handler'[h]]
  /\ \A h \in Handlers :
       \/ handler'[h] \in {handler[h], Idle}
       \/ handler'[h] \in Request /\ RequestFits(handler'[h], report', Stored')
  /\ \/ scheduler' \in {scheduler, Asleep}
     \/ scheduler' \in PassState /\ PassFits(scheduler', report')
  /\ \A tx \in late' :
       tx \in late \/ (tx \in Transaction /\ (tx.op = "submit" => tx.r \in Stored))
  /\ indexed' \subseteq indexed \cup Stored

LEMMA LedgerMoves ==
  ASSUME GInv, LedgerStep
  PROVE  /\ report' \in [Reports -> Record] /\ LedgerInv'
         /\ \A r \in Reports : Later(report[r], report'[r])
         /\ \A r \in Reports : report'[r].status # "ABSENT" => report[r].status # "ABSENT" \/ r \in Stored
<1>1. report \in [Reports -> Record]
  BY DEF GInv, GTypeOK, Chaincode!TypeOK, Record
<1>2. CASE UNCHANGED report
  <2>1. LedgerInv'
    BY <1>2 DEF LedgerInv, GInv
  <2>2. \A r \in Reports : Later(report[r], report[r])
    BY <1>1, RecordShape DEF Later
  <2>3. QED BY <1>1, <1>2, <2>1, <2>2
<1>3. CASE \E tx \in Transaction : Commits(tx) /\ (tx.op = "submit" => tx.r \in Stored)
  <2>1. PICK tx \in Transaction : Commits(tx) /\ (tx.op = "submit" => tx.r \in Stored)
    BY <1>3
  <2> DEFINE old == report[tx.r]  new == report'[tx.r]
             check == [checker |-> tx.org, outcome |-> tx.outcome]
  <2>2. /\ report' = [report EXCEPT ![tx.r] = new]
        /\ old \in Record /\ new \in Record /\ now' = now
        /\ Later(old, new) /\ new.status # "ABSENT" /\ ClosedBy(new, tx.op)
        /\ \/ tx.op # "check" /\ new.checks = old.checks
           \/ /\ tx.op = "check" /\ check \in Chaincode!FactCheck
              /\ new.checks = Append(old.checks, check)
              /\ \A i \in DOMAIN old.checks : old.checks[i].checker # tx.org
    BY <2>1, CommitEffect DEF GInv
  <2>3. tx.r \in Reports /\ tx.op \in {"submit", "check", "finalize", "expire"}
    BY TransactionShape
  <2>4. \A r \in Reports : r # tx.r => report'[r] = report[r]
    BY <2>2, <1>1
  <2>5. report' \in [Reports -> Record]
    BY <2>2, <2>3, <1>1
  <2>6. \A r \in Reports : Later(report[r], report'[r])
    BY <2>2, <2>4, <1>1, RecordShape DEF Later
  <2>7. \A i, j \in DOMAIN new.checks : new.checks[i].checker = new.checks[j].checker => i = j
    <3>1. \A i, j \in DOMAIN old.checks : old.checks[i].checker = old.checks[j].checker => i = j
      BY <2>3 DEF GInv, LedgerInv
    <3>2. CASE new.checks = old.checks
      BY <3>1, <3>2
    <3>3. CASE /\ check \in Chaincode!FactCheck
               /\ new.checks = Append(old.checks, check)
               /\ \A i \in DOMAIN old.checks : old.checks[i].checker # tx.org
      <4> DEFINE n == Len(old.checks)
      <4>1. old.checks \in Checks /\ n \in Nat /\ DOMAIN old.checks = 1 .. n
        BY <2>2, RecordShape
      <4>2. /\ DOMAIN new.checks = 1 .. n + 1
            /\ \A i \in 1 .. n : new.checks[i] = old.checks[i]
            /\ new.checks[n + 1] = check
        BY <3>3, <4>1 DEF Checks
      <4>3. check.checker = tx.org
        OBVIOUS
      <4> HIDE DEF old, new, check
      <4>4. \A i \in 1 .. n : new.checks[i].checker # new.checks[n + 1].checker
        BY <4>1, <4>2, <4>3, <3>3
      <4>5. \A i \in 1 .. n + 1 : i \in 1 .. n \/ i = n + 1
        BY <4>1
      <4>6. QED BY <4>1, <4>2, <4>4, <4>5, <3>1
    <3>4. QED BY <2>2, <3>2, <3>3
  <2>8. LedgerInv'
    BY <2>2, <2>4, <2>7 DEF LedgerInv, GInv
  <2>9. \A r \in Reports :
          report'[r].status # "ABSENT" => report[r].status # "ABSENT" \/ r \in Stored
    <3>1. tx.op # "submit" => old.status # "ABSENT"
      BY <2>1, <2>3 DEF Commits, Chaincode!SubmitFactCheck, Chaincode!maySubmitFactCheck,
        Chaincode!FinalizeReport, Chaincode!mayFinalizeReport, Chaincode!ExpireReport,
        Chaincode!mayExpireReport, Chaincode!Open
    <3>2. QED BY <3>1, <2>1, <2>4
  <2>10. QED BY <2>5, <2>6, <2>8, <2>9
<1>4. QED BY <1>2, <1>3 DEF LedgerStep

LEMMA StoreMoves ==
  ASSUME GInv, StoreStep
  PROVE  /\ index' \in [Reports -> Document] /\ local' \in [Reports -> Document]
         /\ Stored \subseteq Stored'
         /\ \A r \in Reports : DocFits(report[r], index'[r]) /\ DocFits(report[r], local'[r])
<1>1. index \in [Reports -> Document] /\ local \in [Reports -> Document]
  BY DEF GInv, GTypeOK
<1>2. \A r \in Reports : DocFits(report[r], index[r]) /\ DocFits(report[r], local[r])
  BY DEF GInv
<1>3. CASE UNCHANGED store
  BY <1>1, <1>2, <1>3 DEF store, Stored, Exists
<1>4. CASE \E r \in Reports, doc \in Document :
             Save(r, doc) /\ doc.status # "none" /\ DocFits(report[r], doc)
  <2>1. PICK r \in Reports, doc \in Document :
          Save(r, doc) /\ doc.status # "none" /\ DocFits(report[r], doc)
    BY <1>4
  <2>2. doc # NoDoc
    BY <2>1, IsADoc
  <2>3. \/ index' = [index EXCEPT ![r] = doc] /\ local' = local
        \/ local' = [local EXCEPT ![r] = doc] /\ index' = index
    BY <2>1 DEF Save, AddBytes
  <2>4. \A s \in Reports : Exists(s) => (index'[s] # NoDoc \/ local'[s] # NoDoc)
    BY <2>2, <2>3, <1>1 DEF Exists
  <2>5. Stored \subseteq Stored'
    BY <2>4 DEF Stored, Exists
  <2>6. QED BY <2>1, <2>3, <2>5, <1>1, <1>2
<1>5. QED BY <1>3, <1>4 DEF StoreStep

\* What is stored and what threads keep fits the ledger of the next state as well.
LEMMA AllStillFits ==
  ASSUME GInv, LedgerStep, StoreStep
  PROVE  /\ \A r \in Reports : DocFits(report'[r], index'[r]) /\ DocFits(report'[r], local'[r])
         /\ \A q \in {Idle} \cup Request :
              RequestFits(q, report, Stored) => RequestFits(q, report', Stored')
         /\ \A pass \in {Asleep} \cup PassState : PassFits(pass, report) => PassFits(pass, report')
<1>1. /\ report \in [Reports -> Record] /\ report' \in [Reports -> Record]
      /\ \A r \in Reports : Later(report[r], report'[r])
  BY LedgerMoves DEF GInv, GTypeOK, Chaincode!TypeOK, Record
<1>2. /\ index' \in [Reports -> Document] /\ local' \in [Reports -> Document]
      /\ Stored \subseteq Stored'
      /\ \A r \in Reports : DocFits(report[r], index'[r]) /\ DocFits(report[r], local'[r])
  BY StoreMoves
<1>3. \A r \in Reports : \A doc \in Document : DocFits(report[r], doc) => DocFits(report'[r], doc)
  BY <1>1, StillFits
<1>4. \A r \in Reports : DocFits(report'[r], index'[r]) /\ DocFits(report'[r], local'[r])
  BY <1>2, <1>3
<1>5. \A r \in Reports : \A op : ClosedBy(report[r], op) => ClosedBy(report'[r], op)
  BY <1>1 DEF Later, ClosedBy, Chaincode!Closed
<1>6. ASSUME NEW q \in {Idle} \cup Request, RequestFits(q, report, Stored)
      PROVE  RequestFits(q, report', Stored')
  <2>1. CASE q = Idle
    BY <2>1 DEF RequestFits
  <2>2. CASE q \in Request
    <3>1. q.tx \in Transaction /\ q.doc \in Document
      BY <2>2 DEF Request
    <3>2. q.tx.r \in Reports
      BY <3>1, TransactionShape
    <3>3. QED BY <3>1, <3>2, <1>2, <1>3, <1>5, <1>6 DEF RequestFits
  <2>3. QED BY <1>6, <2>1, <2>2
<1>7. ASSUME NEW pass \in {Asleep} \cup PassState, PassFits(pass, report)
      PROVE  PassFits(pass, report')
  <2>1. pass.step \in {"read", "save"} => pass.r \in Reports
    BY DEF PassState, Asleep
  <2>2. pass.step = "save" => pass.doc \in Document
    BY DEF PassState, Asleep
  <2>3. pass.step \in {"read", "save"} => report'[pass.r].status = "EXPIRED"
    BY <2>1, <1>1, <1>7 DEF PassFits, Later, Chaincode!Closed
  <2>4. pass.step = "save" => DocFits(report'[pass.r], pass.doc) /\ pass.doc.status = "Expired"
    BY <2>1, <2>2, <1>3, <1>7 DEF PassFits
  <2>5. QED BY <2>3, <2>4 DEF PassFits
<1>8. QED BY <1>4, <1>6, <1>7

LEMMA StepTypes ==
  ASSUME GInv, LedgerStep, StoreStep, ThreadStep
  PROVE  GTypeOK'
<1>1. Chaincode!TypeOK'
  <2>1. report' \in [Reports -> Record] /\ now' \in Times
    BY LedgerMoves DEF ThreadStep
  <2>2. Chaincode!TypeOK
    BY DEF GInv, GTypeOK
  <2>3. QED BY <2>1, <2>2 DEF Chaincode!TypeOK, Record
<1>2. index' \in [Reports -> Document] /\ local' \in [Reports -> Document]
  BY StoreMoves
<1>3. handler' \in [Handlers -> {Idle} \cup Request]
  <2>1. handler \in [Handlers -> {Idle} \cup Request]
    BY DEF GInv, GTypeOK
  <2>2. \A h \in Handlers : handler'[h] \in {Idle} \cup Request
    BY <2>1 DEF ThreadStep
  <2>3. QED BY <2>2 DEF ThreadStep
<1>4. scheduler' \in {Asleep} \cup PassState
  BY DEF ThreadStep, GInv, GTypeOK
<1>5. late' \subseteq Transaction /\ indexed' \subseteq Reports
  BY DEF ThreadStep, GInv, GTypeOK, Stored
<1>6. QED BY <1>1, <1>2, <1>3, <1>4, <1>5 DEF ThreadStep, GTypeOK

LEMMA StepKeeps ==
  ASSUME GInv, LedgerStep, StoreStep, ThreadStep
  PROVE  GInv'
<1>1. GTypeOK' /\ LedgerInv'
  BY StepTypes, LedgerMoves
<1>2. \A r \in Reports : DocFits(report'[r], index'[r]) /\ DocFits(report'[r], local'[r])
  BY AllStillFits
<1>3. \A h \in Handlers : RequestFits(handler'[h], report', Stored')
  <2>1. handler \in [Handlers -> {Idle} \cup Request]
        /\ \A h \in Handlers : RequestFits(handler[h], report, Stored)
    BY DEF GInv, GTypeOK
  <2>2. RequestFits(Idle, report', Stored')
    BY DEF RequestFits
  <2>3. QED BY <2>1, <2>2, AllStillFits DEF ThreadStep
<1>4. PassFits(scheduler', report')
  <2>1. PassFits(Asleep, report')
    BY DEF PassFits, Asleep
  <2>2. QED BY <2>1, AllStillFits DEF ThreadStep, GInv, GTypeOK
<1>5. Stored \subseteq Stored'
  BY StoreMoves
<1>6. \A tx \in late' : tx.op = "submit" => tx.r \in Stored'
  BY <1>5 DEF ThreadStep, GInv
<1>7. \A r \in Reports : report'[r].status # "ABSENT" \/ r \in indexed' => r \in Stored'
  BY <1>5, LedgerMoves DEF ThreadStep, GInv
<1>8. QED BY <1>1, <1>2, <1>3, <1>4, <1>6, <1>7 DEF GInv

-----------------------------------------------------------------------------
(* The steps of a handler. *)

\* What one thread does: the others stay where they are.
OneThread(h, q) ==
  /\ handler' = [handler EXCEPT ![h] = q]
  /\ \/ q = Idle
     \/ q \in Request /\ RequestFits(q, report', Stored')

\* What most steps leave alone.
Quiet == UNCHANGED <<now, ipfs, scheduler, late, disturbed>>

LEMMA OneThreadSteps ==
  ASSUME GInv, NEW h \in Handlers, NEW q, OneThread(h, q), Quiet,
         lock' \in [Reports -> Handlers \cup {Free}], indexed' \subseteq indexed \cup Stored
  PROVE  ThreadStep
<1>1. handler \in [Handlers -> {Idle} \cup Request]
  BY DEF GInv, GTypeOK
<1>2. /\ handler' = [g \in Handlers |-> handler'[g]]
      /\ \A g \in Handlers : handler'[g] = IF g = h THEN q ELSE handler[g]
  BY <1>1 DEF OneThread
<1>3. now' \in Times /\ ipfs' \in {"up", "down"} /\ disturbed' \subseteq Disturbances
  BY DEF GInv, GTypeOK, Chaincode!TypeOK, Quiet
<1>4. late' = late /\ scheduler' = scheduler
  BY DEF Quiet
<1>5. \A g \in Handlers :
        \/ handler'[g] \in {handler[g], Idle}
        \/ handler'[g] \in Request /\ RequestFits(handler'[g], report', Stored')
  BY <1>2 DEF OneThread
<1>6. QED BY <1>2, <1>3, <1>4, <1>5 DEF ThreadStep

LEMMA Locks ==
  ASSUME GInv, NEW h \in Handlers, NEW r \in Reports,
         lock' \in {lock, [lock EXCEPT ![r] = h]} \/ Release(h)
  PROVE  lock' \in [Reports -> Handlers \cup {Free}]
BY DEF GInv, GTypeOK, Release

LEMMA RequestShape ==
  ASSUME GInv, NEW h \in Handlers, handler[h].step # "idle"
  PROVE  LET q == handler[h] IN
         /\ q \in Request /\ q # Idle /\ q.tx \in Transaction /\ q.doc \in Document
         /\ q.tx.r \in Reports /\ q.tx.org \in Orgs
         /\ q.step = "index" => q.tx.op = "submit"
         /\ q.step = "close" => q.tx.op \in {"finalize", "expire"}
         /\ q.step = "save" => q.tx.op # "submit"
         /\ RequestFits(q, report, Stored)
<1>1. handler[h] \in {Idle} \cup Request
  BY DEF GInv, GTypeOK
<1>2. handler[h] # Idle /\ handler[h] \in Request
  BY <1>1 DEF Idle
<1>3. handler[h].tx \in Transaction /\ handler[h].doc \in Document
  BY <1>2 DEF Request
<1>4. /\ handler[h].step = "index" => handler[h].tx.op = "submit"
      /\ handler[h].step = "close" => handler[h].tx.op \in {"finalize", "expire"}
      /\ handler[h].step = "save" => handler[h].tx.op # "submit"
  BY <1>2 DEF Request
<1>5. QED BY <1>2, <1>3, <1>4, TransactionShape DEF GInv

LEMMA ReadFits ==
  ASSUME GInv, NEW r \in Reports
  PROVE  GetReport(r) \in Document /\ DocFits(report[r], GetReport(r))
BY NewDocsType, NewDocsFit DEF GetReport, CatBytes, GInv, GTypeOK

\* A request at a step that suits its transaction.
LEMMA MakesRequest ==
  ASSUME NEW step \in {"chain", "index", "save", "close"}, NEW tx \in Transaction,
         NEW doc \in Document,
         step = "index" => tx.op = "submit",
         step = "save" => tx.op # "submit",
         step = "close" => tx.op \in {"finalize", "expire"}
  PROVE  [step |-> step, tx |-> tx, doc |-> doc] \in Request
BY DEF Request

LEMMA RequestParts ==
  ASSUME NEW q \in Request
  PROVE  q = [step |-> q.step, tx |-> q.tx, doc |-> q.doc]
<1>1. \E step : q \in [step : {step}, tx : Transaction, doc : Document]
  BY DEF Request
<1>2. QED BY <1>1

LEMMA SavesRequest ==
  ASSUME NEW q \in Request
  PROVE  \A new : [[q EXCEPT !.step = "save"] EXCEPT !.doc = new] =
                   [step |-> "save", tx |-> q.tx, doc |-> new]
<1>1. PICK step, tx, doc : q = [step |-> step, tx |-> tx, doc |-> doc]
  BY RequestParts
<1>2. [q EXCEPT !.step = "save"] = [step |-> "save", tx |-> tx, doc |-> doc]
  BY <1>1
<1>3. ASSUME NEW new
      PROVE  [[step |-> "save", tx |-> tx, doc |-> doc] EXCEPT !.doc = new] =
             [step |-> "save", tx |-> tx, doc |-> new]
  OBVIOUS
<1>4. q.tx = tx
  BY <1>1
<1>5. QED BY <1>2, <1>3, <1>4

LEMMA NewTransactions ==
  ASSUME NEW r \in Reports, NEW org \in Orgs, NEW o \in Chaincode!Outcomes
  PROVE  {Submission(org, r), Check(org, r, o), Finalization(org, r), Expiry(org, r)} \subseteq Transaction
BY DEF Transaction, Submission, Check, Finalization, Expiry

\* A transaction of a given kind.
LEMMA TransactionParts ==
  ASSUME NEW r, NEW org, NEW o
  PROVE  /\ Submission(org, r).op = "submit" /\ Submission(org, r).r = r
         /\ Check(org, r, o).op = "check" /\ Check(org, r, o).r = r
         /\ Finalization(org, r).op = "finalize" /\ Finalization(org, r).r = r
         /\ Expiry(org, r).op = "expire" /\ Expiry(org, r).r = r
BY DEF Submission, Check, Finalization, Expiry

LEMMA CreateSaveKeeps ==
  ASSUME GInv, NEW h \in Handlers, NEW r \in Reports, CreateSave(h, r)
  PROVE  GInv'
<1> DEFINE tx == Submission(SERVICE_ORG, r)
           q == [step |-> "chain", tx |-> tx, doc |-> NewDoc]
<1>1. tx \in Transaction /\ tx.op = "submit" /\ tx.r = r
  BY ServiceOrgAssumption DEF Submission, Transaction
<1>2. NewDoc \in Document /\ NewDoc.status # "none" /\ DocFits(report[r], NewDoc)
  BY NewDocsType, NewDocsFit DEF NewDoc
<1>3. LedgerStep /\ StoreStep /\ report' = report /\ lock' = lock /\ indexed' = indexed /\ Quiet
  BY <1>2 DEF CreateSave, LedgerStep, StoreStep, Quiet
<1>4. r \in Stored'
  <2>1. index \in [Reports -> Document] /\ local \in [Reports -> Document]
    BY DEF GInv, GTypeOK
  <2>2. index' = [index EXCEPT ![r] = NewDoc] \/ local' = [local EXCEPT ![r] = NewDoc]
    BY DEF CreateSave, Save, AddBytes
  <2>3. index'[r] # NoDoc \/ local'[r] # NoDoc
    BY <2>1, <2>2, NewDocsType
  <2>4. QED BY <2>3 DEF Stored, Exists
<1>5. q \in Request
  BY <1>1, <1>2, MakesRequest
<1>6. RequestFits(q, report', Stored')
  BY <1>1, <1>2, <1>3, <1>4 DEF RequestFits
<1>7. OneThread(h, q)
  BY <1>5, <1>6 DEF OneThread, CreateSave
<1>8. QED BY <1>3, <1>7, OneThreadSteps, Locks, StepKeeps

LEMMA VoteReadKeeps ==
  ASSUME GInv, NEW h \in Handlers, NEW r \in Reports, NEW org \in Orgs,
         NEW o \in Chaincode!Outcomes, VoteRead(h, org, r, o)
  PROVE  GInv'
<1> DEFINE tx == Check(org, r, o)
           q == [step |-> "chain", tx |-> tx, doc |-> GetReport(r)]
<1>1. tx \in Transaction /\ tx.op = "check" /\ tx.r = r
  BY NewTransactions, TransactionParts
<1>2. GetReport(r) \in Document /\ DocFits(report[r], GetReport(r))
  BY ReadFits
<1>3. /\ LedgerStep /\ StoreStep /\ report' = report /\ lock' = [lock EXCEPT ![r] = h]
      /\ indexed' = indexed /\ Quiet
  BY DEF VoteRead, LedgerStep, StoreStep, Quiet
<1>4. q \in Request
  BY <1>1, <1>2, MakesRequest
<1>5. RequestFits(q, report', Stored')
  BY <1>1, <1>2, <1>3 DEF RequestFits
<1>6. OneThread(h, q)
  BY <1>4, <1>5 DEF OneThread, VoteRead
<1>7. QED BY <1>3, <1>6, OneThreadSteps, Locks, StepKeeps

LEMMA CloseBeginKeeps ==
  ASSUME GInv, NEW h \in Handlers, NEW r \in Reports, CloseBegin(h, r)
  PROVE  GInv'
<1>1. PICK tx \in {Finalization(SERVICE_ORG, r), Expiry(SERVICE_ORG, r)} :
        handler' = [handler EXCEPT ![h] = [step |-> "chain", tx |-> tx, doc |-> NoDoc]]
  BY DEF CloseBegin
<1> DEFINE q == [step |-> "chain", tx |-> tx, doc |-> NoDoc]
<1>2. tx \in Transaction /\ tx.op \in {"finalize", "expire"} /\ tx.r = r
  BY ServiceOrgAssumption DEF Finalization, Expiry, Transaction
<1>3. /\ LedgerStep /\ StoreStep /\ report' = report /\ lock' = lock
      /\ indexed' = indexed /\ Quiet
  BY DEF CloseBegin, LedgerStep, StoreStep, Quiet
<1>4. q \in Request
  BY <1>2, NewDocsType, MakesRequest
<1>5. RequestFits(q, report', Stored')
  BY <1>2, <1>3, NewDocsFit DEF RequestFits
<1>6. OneThread(h, q)
  BY <1>1, <1>4, <1>5 DEF OneThread
<1>7. QED BY <1>3, <1>6, OneThreadSteps, Locks, StepKeeps

\* A thread that gives up, or is done: its locks are free.
LEMMA FinishSteps ==
  ASSUME GInv, NEW h \in Handlers, Finish(h), Quiet, indexed' \subseteq indexed \cup Stored
  PROVE  ThreadStep
<1>1. OneThread(h, Idle)
  BY DEF Finish, OneThread
<1>2. lock' \in [Reports -> Handlers \cup {Free}]
  BY DEF Finish, Release, GInv, GTypeOK
<1>3. QED BY <1>1, <1>2, OneThreadSteps

LEMMA ChainFailsKeeps ==
  ASSUME GInv, NEW h \in Handlers, ChainFails(h) \/ QueryFails(h)
  PROVE  GInv'
<1>1. Finish(h) /\ Quiet /\ indexed' = indexed /\ LedgerStep /\ StoreStep
  BY DEF ChainFails, QueryFails, Quiet, LedgerStep, StoreStep
<1>2. QED BY <1>1, FinishSteps, StepKeeps

LEMMA ChainTimesOutKeeps ==
  ASSUME GInv, NEW h \in Handlers, ChainTimesOut(h)
  PROVE  GInv'
<1>1. LedgerStep /\ StoreStep /\ Finish(h)
  BY DEF ChainTimesOut, LedgerStep, StoreStep
<1>2. handler[h].tx \in Transaction
      /\ (handler[h].tx.op = "submit" => handler[h].tx.r \in Stored)
  BY RequestShape DEF ChainTimesOut, At, RequestFits
<1>3. handler \in [Handlers -> {Idle} \cup Request] /\ lock \in [Reports -> Handlers \cup {Free}]
  BY DEF GInv, GTypeOK
<1>4. /\ now' \in Times /\ ipfs' \in {"up", "down"} /\ disturbed' \subseteq Disturbances
      /\ scheduler' = scheduler /\ indexed' = indexed
  BY DEF ChainTimesOut, Disturb, GInv, GTypeOK, Chaincode!TypeOK
<1>5. lock' \in [Reports -> Handlers \cup {Free}]
  BY <1>1, <1>3 DEF Finish, Release
<1>6. handler' = [g \in Handlers |-> handler'[g]]
      /\ \A g \in Handlers : handler'[g] \in {handler[g], Idle}
  BY <1>1, <1>3 DEF Finish
<1>7. \A tx \in late' :
        tx \in late \/ (tx \in Transaction /\ (tx.op = "submit" => tx.r \in Stored))
  BY <1>2 DEF ChainTimesOut
<1>8. ThreadStep
  BY <1>4, <1>5, <1>6, <1>7 DEF ThreadStep
<1>9. QED BY <1>1, <1>8, StepKeeps

LEMMA CreateIndexKeeps ==
  ASSUME GInv, NEW h \in Handlers, CreateIndex(h)
  PROVE  GInv'
<1>1. Finish(h) /\ Quiet /\ LedgerStep /\ StoreStep
  BY DEF CreateIndex, Quiet, LedgerStep, StoreStep
<1>2. handler[h].tx.r \in Stored
  BY RequestShape DEF CreateIndex, At, RequestFits
<1>3. indexed' \subseteq indexed \cup Stored
  BY <1>2 DEF CreateIndex
<1>4. QED BY <1>1, <1>3, FinishSteps, StepKeeps

LEMMA HandlerSaveKeeps ==
  ASSUME GInv, NEW h \in Handlers, HandlerSave(h)
  PROVE  GInv'
<1>1. Finish(h) /\ Quiet /\ indexed' = indexed /\ LedgerStep
  BY DEF HandlerSave, Quiet, LedgerStep
<1>2. StoreStep
  BY RequestShape DEF HandlerSave, At, RequestFits, StoreStep
<1>3. QED BY <1>1, <1>2, FinishSteps, StepKeeps

\* The statuses that a closure writes say what the ledger says.
LEMMA VerdictIs ==
  ASSUME NEW record, NEW op \in {"finalize", "expire"}, ClosedBy(record, op)
  PROVE  LET status == IF op = "expire" THEN "Expired" ELSE VERIFIED_STATUS[record.label] IN
         /\ status \in {"Expired", "Verified_Misinformation", "Verified_Non_Misinformation"}
         /\ VerdictFits(record, status)
BY DEF ClosedBy, VERIFIED_STATUS, VerdictFits

LEMMA WithStatus ==
  ASSUME NEW doc \in Document, NEW status \in {"Under_Review", "Expired",
           "Verified_Misinformation", "Verified_Non_Misinformation"},
         NEW record, DocFits(record, doc), VerdictFits(record, status)
  PROVE  LET new == [doc EXCEPT !.status = status] IN
         new \in Document /\ new.status = status /\ DocFits(record, new)
<1> DEFINE new == [doc EXCEPT !.status = status]
<1>1. new \in Document /\ new.status = status /\ new.checks = doc.checks
  BY DEF Document
<1> HIDE DEF new
<1>2. DocFits(record, new)
  BY <1>1 DEF DocFits
<1>3. QED BY <1>1, <1>2 DEF new

LEMMA CloseReadKeeps ==
  ASSUME GInv, NEW h \in Handlers, CloseRead(h)
  PROVE  GInv'
<1> DEFINE q == handler[h]  r == q.tx.r  doc == GetReport(r)
           status == IF q.tx.op = "expire" THEN "Expired" ELSE VERIFIED_STATUS[report[r].label]
           closed == [doc EXCEPT !.status = status]
           next == [step |-> "save", tx |-> q.tx, doc |-> closed]
<1>1. /\ q \in Request /\ q.tx \in Transaction /\ r \in Reports
      /\ q.tx.op \in {"finalize", "expire"} /\ ClosedBy(report[r], q.tx.op)
  BY RequestShape DEF CloseRead, At, RequestFits
<1>2. /\ LedgerStep /\ StoreStep /\ report' = report /\ indexed' = indexed /\ Quiet
  BY DEF CloseRead, LedgerStep, StoreStep, Quiet
<1>3. lock' \in {lock, [lock EXCEPT ![r] = h]}
  BY DEF CloseRead
<1>4. OneThread(h, Idle) \/ OneThread(h, next)
  <2>1. CASE handler' = [handler EXCEPT ![h] = Idle]
    BY <2>1 DEF OneThread
  <2>2. CASE handler' = [handler EXCEPT ![h].step = "save", ![h].doc = closed]
    <3>1. handler' = [handler EXCEPT ![h] = next]
      <4>1. handler \in [Handlers -> {Idle} \cup Request]
        BY DEF GInv, GTypeOK
      <4>2. \A new : [[q EXCEPT !.step = "save"] EXCEPT !.doc = new] =
                       [step |-> "save", tx |-> q.tx, doc |-> new]
        BY <1>1, SavesRequest
      <4> HIDE DEF closed
      <4>3. [[q EXCEPT !.step = "save"] EXCEPT !.doc = closed] = next
        BY <4>2
      <4>4. handler' = [handler EXCEPT ![h] = [[q EXCEPT !.step = "save"] EXCEPT !.doc = closed]]
        BY <2>2, <4>1
      <4>5. QED BY <4>3, <4>4
    <3>2. doc \in Document /\ DocFits(report[r], doc)
      BY <1>1, ReadFits
    <3>3. /\ status \in {"Expired", "Verified_Misinformation", "Verified_Non_Misinformation"}
          /\ VerdictFits(report[r], status)
      BY <1>1, VerdictIs
    <3> HIDE DEF status, doc
    <3>4. closed \in Document /\ closed.status = status /\ DocFits(report[r], closed)
      <4>1. status \in {"Under_Review", "Expired",
                         "Verified_Misinformation", "Verified_Non_Misinformation"}
        BY <3>3
      <4>2. QED BY <3>2, <3>3, <4>1, WithStatus
    <3> HIDE DEF closed
    <3>5. next \in Request
      BY <1>1, <3>4, MakesRequest
    <3>6. RequestFits(next, report', Stored')
      BY <1>1, <1>2, <3>3, <3>4 DEF RequestFits
    <3>7. QED BY <3>1, <3>5, <3>6 DEF OneThread
  <2>3. QED BY <2>1, <2>2 DEF CloseRead
<1>5. QED BY <1>1, <1>2, <1>3, <1>4, OneThreadSteps, Locks, StepKeeps

\* The ledger accepts, and the handler goes on with what it was told.
LEMMA ChainCommitsKeeps ==
  ASSUME GInv, NEW h \in Handlers, ChainCommits(h)
  PROVE  GInv'
<1> DEFINE q == handler[h]  tx == q.tx  r == tx.r  next == Answered(q)
           check == [checker |-> tx.org, outcome |-> tx.outcome]
<1>1. /\ q \in Request /\ tx \in Transaction /\ r \in Reports /\ q.doc \in Document
      /\ tx.op \in {"submit", "check", "finalize", "expire"}
      /\ DocFits(report[r], q.doc) /\ (tx.op = "submit" => r \in Stored)
  BY RequestShape, TransactionShape DEF ChainCommits, At, RequestFits, Idle
<1>2. Commits(tx) /\ handler' = [handler EXCEPT ![h] = next]
  BY DEF ChainCommits
<1>3. /\ report'[r] \in Record /\ now' = now
      /\ Later(report[r], report'[r]) /\ ClosedBy(report'[r], tx.op)
      /\ \/ tx.op # "check" /\ report'[r].checks = report[r].checks
         \/ /\ tx.op = "check" /\ check \in Chaincode!FactCheck
            /\ report'[r].checks = Append(report[r].checks, check)
  BY <1>1, <1>2, CommitEffect DEF GInv
<1>4. UNCHANGED store /\ Stored' = Stored
  BY DEF ChainCommits, store, Stored, Exists
<1>5. LedgerStep /\ StoreStep
  BY <1>1, <1>2, <1>4 DEF LedgerStep, StoreStep
<1>6. Quiet /\ lock' = lock /\ indexed' = indexed
  BY <1>3 DEF ChainCommits, Quiet
<1>7. DocFits(report'[r], q.doc)
  BY <1>1, <1>3, StillFits DEF GInv, GTypeOK, Chaincode!TypeOK, Record
<1>8. q = [step |-> q.step, tx |-> tx, doc |-> q.doc]
  BY <1>1, RequestParts
<1>9. next \in Request /\ RequestFits(next, report', Stored')
  <2>1. CASE tx.op = "submit"
    <3>1. next = [step |-> "index", tx |-> tx, doc |-> q.doc]
      BY <2>1, <1>8 DEF Answered
    <3>2. next \in Request
      BY <3>1, <2>1, <1>1, MakesRequest
    <3>3. QED BY <3>1, <3>2, <2>1, <1>1, <1>4, <1>7 DEF RequestFits
  <2>2. CASE tx.op = "check"
    <3> DEFINE new == [status |-> "Under_Review", checks |-> Append(q.doc.checks, check)]
    <3>1. next = [step |-> "save", tx |-> tx, doc |-> new]
      BY <2>2, <1>8 DEF Answered
    <3>2. q.doc.checks \in Checks /\ report[r].checks \in Checks /\ check \in Chaincode!FactCheck
      BY <1>1, <1>3, <2>2, DocumentShape, RecordShape
        DEF GInv, GTypeOK, Chaincode!TypeOK, Record
    <3>3. new \in Document
      <4>1. Append(q.doc.checks, check) \in Checks
        BY <3>2 DEF Checks
      <4>2. QED BY <4>1 DEF Document, Checks
    <3>4. Mirrors(Append(q.doc.checks, check), Append(report[r].checks, check))
      BY <1>1, <3>2, MirrorsAppend DEF DocFits
    <3>5. DocFits(report'[r], new) /\ new.status = "Under_Review"
      BY <3>4, <1>3, <2>2 DEF DocFits, VerdictFits
    <3> HIDE DEF new
    <3>6. next \in Request
      BY <3>1, <3>3, <2>2, <1>1, MakesRequest
    <3>7. next.step = "save" /\ next.tx = tx /\ next.doc = new
      BY <3>1
    <3> HIDE DEF next
    <3>8. QED BY <3>5, <3>6, <3>7, <2>2, <1>3 DEF RequestFits
  <2>3. CASE tx.op \in {"finalize", "expire"}
    <3>1. next = [step |-> "close", tx |-> tx, doc |-> q.doc]
      BY <2>3, <1>8 DEF Answered
    <3>2. next \in Request
      BY <3>1, <2>3, <1>1, MakesRequest
    <3>3. next.tx = tx /\ next.doc = q.doc /\ next.step = "close"
      BY <3>1
    <3> HIDE DEF next, q
    <3>4. RequestFits(next, report', Stored')
      BY <3>3, <2>3, <1>3, <1>7 DEF RequestFits
    <3>5. QED BY <3>2, <3>4
  <2>4. QED BY <1>1, <2>1, <2>2, <2>3
<1> HIDE DEF next
<1>10. OneThread(h, next)
  BY <1>2, <1>9 DEF OneThread
<1>11. QED BY <1>1, <1>5, <1>6, <1>10, OneThreadSteps, Locks, StepKeeps

-----------------------------------------------------------------------------
(* The expiry pass, and the surroundings. *)

\* A step in which no request thread moves.
NoThread == UNCHANGED <<handler, lock, indexed>>

LEMMA NoThreadSteps ==
  ASSUME GInv, NoThread, now' \in Times, ipfs' \in {"up", "down"}, disturbed' \subseteq Disturbances,
         \/ scheduler' \in {scheduler, Asleep}
         \/ scheduler' \in PassState /\ PassFits(scheduler', report'),
         \A tx \in late' :
           tx \in late \/ (tx \in Transaction /\ (tx.op = "submit" => tx.r \in Stored))
  PROVE  ThreadStep
<1>1. /\ handler \in [Handlers -> {Idle} \cup Request] /\ handler' = handler
      /\ lock \in [Reports -> Handlers \cup {Free}] /\ lock' = lock /\ indexed' = indexed
  BY DEF GInv, GTypeOK, NoThread
<1>2. handler' = [h \in Handlers |-> handler'[h]]
  BY <1>1
<1>3. QED BY <1>1, <1>2 DEF ThreadStep

\* The pass itself, while the rest stands still.
LEMMA PassSteps ==
  ASSUME GInv, NoThread, UNCHANGED <<ipfs, late>>, now' = now, disturbed' \subseteq Disturbances,
         \/ scheduler' = Asleep
         \/ scheduler' \in PassState /\ PassFits(scheduler', report')
  PROVE  ThreadStep
<1>1. now \in Times /\ ipfs \in {"up", "down"}
  BY DEF GInv, GTypeOK, Chaincode!TypeOK
<1>2. QED BY <1>1, NoThreadSteps

LEMMA PassShape ==
  ASSUME GInv, scheduler.step # "asleep"
  PROVE  /\ scheduler \in PassState /\ scheduler.todo \subseteq Reports
         /\ scheduler.step \in {"read", "save"} => scheduler.r \in Reports
         /\ scheduler.step = "save" => scheduler.doc \in Document
<1>1. scheduler \in PassState
  BY DEF GInv, GTypeOK, Asleep
<1>2. QED BY <1>1 DEF PassState

LEMMA PassKeeps ==
  ASSUME GInv, Pass
  PROVE  GInv'
<1> USE DEF NoThread
<1>1. CASE PassBegin
  <2> DEFINE next == [step |-> "scan", todo |-> {r \in Reports : report[r].status = "PENDING"}]
  <2>1. LedgerStep /\ StoreStep /\ disturbed' \subseteq Disturbances
    BY <1>1 DEF PassBegin, LedgerStep, StoreStep, Disturb, GInv, GTypeOK
  <2>2. next \in PassState /\ PassFits(next, report')
    BY DEF PassState, PassFits
  <2>3. scheduler' = next /\ NoThread /\ UNCHANGED <<ipfs, late>> /\ now' = now
    BY <1>1 DEF PassBegin
  <2> HIDE DEF next
  <2>4. ThreadStep
    BY <2>1, <2>2, <2>3, PassSteps
  <2>5. QED BY <2>1, <2>4, StepKeeps
<1>2. CASE PassExpire
  <2>1. PICK r \in scheduler.todo :
          /\ Commits(Expiry(SERVICE_ORG, r))
          /\ scheduler' = [step |-> "read", todo |-> scheduler.todo \ {r}, r |-> r]
    BY <1>2 DEF PassExpire
  <2> DEFINE tx == Expiry(SERVICE_ORG, r)
             next == [step |-> "read", todo |-> scheduler.todo \ {r}, r |-> r]
  <2>2. scheduler.todo \subseteq Reports /\ r \in Reports
    BY <1>2, <2>1, PassShape DEF PassExpire
  <2>3. tx \in Transaction /\ tx.op = "expire" /\ tx.r = r
    BY <2>2, ServiceOrgAssumption DEF Expiry, Transaction
  <2>4. now' = now /\ report'[r].status = "EXPIRED"
    BY <2>1, <2>3, CommitEffect DEF GInv, ClosedBy
  <2>5. LedgerStep /\ StoreStep
    BY <1>2, <2>1, <2>3 DEF PassExpire, LedgerStep, StoreStep, store
  <2>6. next \in PassState /\ PassFits(next, report')
    BY <2>2, <2>4 DEF PassState, PassFits
  <2>7. NoThread /\ UNCHANGED <<ipfs, late>> /\ disturbed' \subseteq Disturbances
    BY <1>2 DEF PassExpire, GInv, GTypeOK
  <2> HIDE DEF next
  <2>8. ThreadStep
    BY <2>1, <2>4, <2>6, <2>7, PassSteps DEF next
  <2>9. QED BY <2>5, <2>8, StepKeeps
<1>3. CASE PassTimesOut
  <2>1. PICK r \in scheduler.todo : late' = late \cup {Expiry(SERVICE_ORG, r)}
    BY <1>3 DEF PassTimesOut
  <2>2. r \in Reports
    BY <1>3, <2>1, PassShape DEF PassTimesOut
  <2>3. Expiry(SERVICE_ORG, r) \in Transaction /\ Expiry(SERVICE_ORG, r).op # "submit"
    BY <2>2, ServiceOrgAssumption DEF Expiry, Transaction
  <2>4. /\ LedgerStep /\ StoreStep /\ NoThread /\ scheduler' = Asleep
        /\ disturbed' \subseteq Disturbances /\ now' \in Times /\ ipfs' \in {"up", "down"}
    BY <1>3 DEF PassTimesOut, LedgerStep, StoreStep, Disturb, GInv, GTypeOK, Chaincode!TypeOK
  <2>5. QED BY <2>1, <2>3, <2>4, NoThreadSteps, StepKeeps
<1>4. CASE PassSkip
  <2>1. PICK r \in scheduler.todo : scheduler' = [scheduler EXCEPT !.todo = @ \ {r}]
    BY <1>4 DEF PassSkip
  <2>2. scheduler \in PassState /\ scheduler.step = "scan"
    BY <1>4, PassShape DEF PassSkip
  <2>3. scheduler' \in PassState /\ scheduler'.step = "scan"
    BY <2>1, <2>2 DEF PassState
  <2>4. PassFits(scheduler', report')
    BY <2>3 DEF PassFits
  <2>5. /\ LedgerStep /\ StoreStep /\ NoThread /\ UNCHANGED <<ipfs, late>> /\ now' = now
        /\ disturbed' \subseteq Disturbances
    BY <1>4 DEF PassSkip, LedgerStep, StoreStep, GInv, GTypeOK
  <2>6. QED BY <2>3, <2>4, <2>5, PassSteps, StepKeeps
<1>5. CASE PassRead
  <2> DEFINE r == scheduler.r  doc == GetReport(r)  expired == [doc EXCEPT !.status = "Expired"]
             onward == [step |-> "scan", todo |-> scheduler.todo]
             saving == [step |-> "save", todo |-> scheduler.todo, r |-> r, doc |-> expired]
  <2>1. /\ scheduler.todo \subseteq Reports /\ r \in Reports /\ report[r].status = "EXPIRED"
    BY <1>5, PassShape DEF PassRead, GInv, PassFits
  <2>2. /\ LedgerStep /\ StoreStep /\ NoThread /\ UNCHANGED <<ipfs, late>> /\ now' = now
        /\ disturbed' \subseteq Disturbances /\ report' = report
    BY <1>5 DEF PassRead, LedgerStep, StoreStep, GInv, GTypeOK
  <2>3. doc \in Document /\ DocFits(report[r], doc)
    BY <2>1, ReadFits
  <2>4. VerdictFits(report[r], "Expired")
    BY <2>1 DEF VerdictFits
  <2>5. expired \in Document /\ expired.status = "Expired" /\ DocFits(report[r], expired)
    BY <2>3, <2>4, WithStatus
  <2>6. onward \in PassState /\ PassFits(onward, report')
    BY <2>1 DEF PassState, PassFits
  <2>7. scheduler' = onward \/ scheduler' = saving
    BY <1>5 DEF PassRead
  <2> HIDE DEF expired
  <2>8. saving \in PassState /\ PassFits(saving, report')
    BY <2>1, <2>2, <2>5 DEF PassState, PassFits
  <2> HIDE DEF onward, saving
  <2>9. ThreadStep
    BY <2>2, <2>6, <2>7, <2>8, PassSteps
  <2>10. QED BY <2>2, <2>9, StepKeeps
<1>6. CASE PassSave
  <2> DEFINE onward == [step |-> "scan", todo |-> scheduler.todo]
  <2>1. /\ scheduler.todo \subseteq Reports /\ scheduler.r \in Reports /\ scheduler.doc \in Document
        /\ DocFits(report[scheduler.r], scheduler.doc) /\ scheduler.doc.status # "none"
    BY <1>6, PassShape DEF PassSave, GInv, PassFits
  <2>2. /\ LedgerStep /\ NoThread /\ UNCHANGED <<ipfs, late>> /\ now' = now
        /\ disturbed' \subseteq Disturbances
    BY <1>6 DEF PassSave, LedgerStep, GInv, GTypeOK
  <2>3. StoreStep
    BY <1>6, <2>1 DEF PassSave, StoreStep
  <2>4. onward \in PassState /\ PassFits(onward, report') /\ scheduler' = onward
    BY <1>6, <2>1 DEF PassState, PassFits, PassSave
  <2> HIDE DEF onward
  <2>5. ThreadStep
    BY <2>2, <2>4, PassSteps
  <2>6. QED BY <2>2, <2>3, <2>5, StepKeeps
<1>7. CASE PassEnd
  <2>1. /\ LedgerStep /\ StoreStep /\ NoThread /\ UNCHANGED <<ipfs, late>> /\ now' = now
        /\ disturbed' \subseteq Disturbances /\ scheduler' = Asleep
    BY <1>7 DEF PassEnd, LedgerStep, StoreStep, GInv, GTypeOK
  <2>2. QED BY <2>1, PassSteps, StepKeeps
<1>8. QED BY <1>1, <1>2, <1>3, <1>4, <1>5, <1>6, <1>7 DEF Pass

LEMMA SurroundingsKeep ==
  ASSUME GInv, Surroundings
  PROVE  GInv'
<1>1. now \in Times /\ ipfs \in {"up", "down"} /\ disturbed \subseteq Disturbances
  BY DEF GInv, GTypeOK, Chaincode!TypeOK
<1>2. \A tx \in late : tx \in Transaction /\ (tx.op = "submit" => tx.r \in Stored)
  BY DEF GInv, GTypeOK
<1>3. CASE LateCommits
  <2>1. PICK tx \in late : Commits(tx) /\ late' = late \ {tx}
    BY <1>3 DEF LateCommits
  <2>2. now' = now
    BY <2>1, <1>2, CommitEffect DEF GInv
  <2>3. LedgerStep /\ StoreStep /\ NoThread /\ UNCHANGED <<ipfs, scheduler, disturbed>>
    BY <1>2, <1>3, <2>1 DEF LateCommits, LedgerStep, StoreStep, NoThread
  <2>4. ThreadStep
    BY <1>1, <2>1, <2>2, <2>3, NoThreadSteps
  <2>5. QED BY <2>3, <2>4, StepKeeps
<1>4. CASE LateLost \/ IpfsFails \/ IpfsRecovers
  <2>1. /\ LedgerStep /\ StoreStep /\ NoThread /\ UNCHANGED <<now, scheduler>>
        /\ late' \subseteq late /\ ipfs' \in {"up", "down"} /\ disturbed' \subseteq Disturbances
    BY <1>1, <1>4 DEF LateLost, IpfsFails, IpfsRecovers, Disturb, LedgerStep, StoreStep, NoThread
  <2>2. ThreadStep
    BY <1>1, <2>1, NoThreadSteps
  <2>3. QED BY <2>1, <2>2, StepKeeps
<1>5. CASE Crash
  <2>1. /\ LedgerStep /\ StoreStep /\ now' = now /\ ipfs' = ipfs /\ indexed' = indexed
        /\ disturbed' \subseteq Disturbances /\ scheduler' = Asleep
        /\ handler' = [h \in Handlers |-> Idle] /\ lock' = [r \in Reports |-> Free]
    BY <1>1, <1>5 DEF Crash, Disturb, LedgerStep, StoreStep
  <2>2. \A tx \in late' :
          tx \in late \/ (tx \in Transaction /\ (tx.op = "submit" => tx.r \in Stored))
    <3>1. \A h \in Handlers : At(h, "chain") =>
            /\ handler[h].tx \in Transaction
            /\ handler[h].tx.op = "submit" => handler[h].tx.r \in Stored
      BY RequestShape DEF At, RequestFits
    <3>2. QED BY <3>1, <1>5 DEF Crash
  <2>3. ThreadStep
    BY <1>1, <2>1, <2>2 DEF ThreadStep
  <2>4. QED BY <2>1, <2>3, StepKeeps
<1>6. CASE \E r \in Reports : EnsureMeta(r)
  <2>1. PICK r \in Reports : EnsureMeta(r)
    BY <1>6
  <2>2. r \in Stored
    BY <2>1 DEF EnsureMeta, Stored, Exists, GetReport, CatBytes
  <2>3. /\ LedgerStep /\ StoreStep /\ Quiet /\ handler' = handler /\ lock' = lock
        /\ indexed' \subseteq indexed \cup Stored
    BY <2>1, <2>2 DEF EnsureMeta, LedgerStep, StoreStep, Quiet
  <2>4. ThreadStep
    BY <1>1, <2>3 DEF ThreadStep, Quiet, GInv, GTypeOK
  <2>5. QED BY <2>3, <2>4, StepKeeps
<1>7. CASE Clock
  <2>1. /\ LedgerStep /\ StoreStep /\ NoThread /\ UNCHANGED <<ipfs, scheduler, late, disturbed>>
        /\ now' \in Times
    BY <1>7 DEF Clock, Chaincode!Tick, LedgerStep, StoreStep, NoThread
  <2>2. ThreadStep
    BY <1>1, <2>1, NoThreadSteps
  <2>3. QED BY <2>1, <2>2, StepKeeps
<1>8. QED BY <1>3, <1>4, <1>5, <1>6, <1>7 DEF Surroundings

LEMMA GInitFits == GInit => GInv
<1> SUFFICES ASSUME GInit PROVE GInv
  OBVIOUS
<1>1. Chaincode!NoReport \in Record /\ Chaincode!NoReport.checks = <<>>
      /\ Chaincode!NoReport.status = "ABSENT"
  <2>1. <<>> \in Checks
    BY DEF Checks
  <2>2. QED BY <2>1 DEF Chaincode!NoReport, Record, Checks, Chaincode!ReportRecord
<1>2. Cardinality(Orgs) \in Nat \ {0}
  BY FS_CardinalityType, FS_EmptySet, LedgerAssumption, ServiceOrgAssumption
<1>3. report \in [Reports -> Record]
  BY <1>1 DEF GInit
<1>4. Chaincode!TypeOK
  <2>1. [status |-> "ABSENT", votes |-> <<>>] \in Chaincode!OrgAdmissionRequest
    BY DEF Chaincode!OrgAdmissionRequest
  <2>2. now \in Times
    BY LedgerAssumption DEF GInit
  <2>3. QED BY <1>2, <1>3, <2>1, <2>2 DEF Chaincode!TypeOK, Record
<1>5. GTypeOK
  BY <1>4, NewDocsType DEF GInit, GTypeOK
<1>6. LedgerInv
  BY <1>1 DEF LedgerInv, GInit
<1>7. \A r \in Reports : DocFits(report[r], index[r]) /\ DocFits(report[r], local[r])
  BY NewDocsFit DEF GInit
<1>8. \A h \in Handlers : RequestFits(handler[h], report, Stored)
  BY DEF GInit, RequestFits
<1>9. PassFits(scheduler, report)
  BY DEF GInit, PassFits, Asleep
<1>10. QED BY <1>1, <1>5, <1>6, <1>7, <1>8, <1>9 DEF GInit, GInv

LEMMA HandlersKeep ==
  ASSUME GInv, NEW h \in Handlers, Arrives(h) \/ Continues(h)
  PROVE  GInv'
<1>1. CASE Arrives(h)
  BY <1>1, VotingOrgsAssumption, CreateSaveKeeps, VoteReadKeeps, CloseBeginKeeps DEF Arrives
<1>2. CASE Continues(h)
  BY <1>2, ChainCommitsKeeps, ChainFailsKeeps, ChainTimesOutKeeps, CreateIndexKeeps,
     CloseReadKeeps, HandlerSaveKeeps DEF Continues
<1>3. QED BY <1>1, <1>2

LEMMA GNextKeeps == GInv /\ [GNext]_gvars => GInv'
<1> SUFFICES ASSUME GInv, [GNext]_gvars PROVE GInv'
  OBVIOUS
<1>1. CASE UNCHANGED gvars
  <2>1. LedgerStep /\ StoreStep /\ UNCHANGED <<now, ipfs, scheduler, late, disturbed>> /\ NoThread
    BY <1>1 DEF gvars, store, LedgerStep, StoreStep, NoThread
  <2>2. ThreadStep
    BY <2>1, NoThreadSteps DEF GInv, GTypeOK, Chaincode!TypeOK
  <2>3. QED BY <2>1, <2>2, StepKeeps
<1>2. QED BY <1>1, HandlersKeep, PassKeeps, SurroundingsKeep DEF GNext

LEMMA GInvariant == GSpec => []GInv
BY GInitFits, GNextKeeps, PTL DEF GSpec

\* The tables, the locks and what every thread keeps between two steps are well formed.
THEOREM GatewayTypeCorrect == GSpec => []GTypeOK
<1>1. GInv => GTypeOK
  BY DEF GInv
<1>2. QED BY <1>1, GInvariant, PTL

\* A report that reached the ledger, or the index of the portal, has its document, in
\* whatever order create_report, lost answers and crashes came.
THEOREM ReportsHaveDocuments == GSpec => []EveryReportHasDocument
<1>1. GInv => EveryReportHasDocument
  BY DEF GInv, EveryReportHasDocument, Stored
<1>2. QED BY <1>1, GInvariant, PTL

\* No version of a document, current or shadowed, lists a check that is not on the
\* ledger, one twice, or two in another order, whatever the handlers and the expiry
\* pass (which takes no lock) did at the same time and whatever failed.
THEOREM DocumentsMirrorTheLedger == GSpec => []DocumentMirrorsLedger
<1>1. GInv => DocumentMirrorsLedger
  <2> SUFFICES ASSUME GInv, NEW r \in Reports, NEW doc \in Versions(r)
               PROVE  /\ Mirrors(doc.checks, report[r].checks)
                      /\ \A i, j \in DOMAIN doc.checks :
                           doc.checks[i].checker = doc.checks[j].checker => i = j
    BY DEF DocumentMirrorsLedger
  <2>1. doc \in Document /\ DocFits(report[r], doc) /\ report[r] \in Record
    BY DEF Versions, GInv, GTypeOK, Chaincode!TypeOK, Record
  <2>2. Mirrors(doc.checks, report[r].checks)
    BY <2>1 DEF DocFits
  <2>3. \A i, j \in DOMAIN report[r].checks :
          report[r].checks[i].checker = report[r].checks[j].checker => i = j
    BY DEF GInv, LedgerInv
  <2>4. QED BY <2>1, <2>2, <2>3, MirrorsOnce, DocumentShape, RecordShape
<1>2. QED BY <1>1, GInvariant, PTL

\* A document that says how its report ended is never ahead of the ledger nor against
\* it: the status was written after the closure had committed, which is for good.
THEOREM PublishedVerdictsAreDecided == GSpec => []PublishedVerdictIsDecided
<1>1. GInv => PublishedVerdictIsDecided
  BY DEF GInv, PublishedVerdictIsDecided, Versions, DocFits, VerdictFits
<1>2. QED BY <1>1, GInvariant, PTL

-----------------------------------------------------------------------------
(* Nothing is lost while nothing disturbs the handlers.                      *)

\* The thread is between reading a document under its lock and writing it.
Voting(q) == q.step = "chain" /\ q.tx.op = "check"
Holding(q, r) == (Voting(q) \/ q.step = "save") /\ q.tx.r = r

\* A lock is held exactly from the reading to the writing; a document nobody holds, or
\* whose holder waits for the ledger, has every check; and so has what a holder writes.
Calm ==
  /\ ipfs = "up" /\ scheduler = Asleep /\ late = {}
  /\ \A r \in Reports : local[r] = NoDoc
  /\ \A h \in Handlers, r \in Reports : lock[r] = h <=> Holding(handler[h], r)
  /\ \A r \in Reports : lock[r] = Free => index[r].checks = report[r].checks
  /\ \A h \in Handlers, r \in Reports : Holding(handler[h], r) =>
       /\ handler[h].doc.checks = report[r].checks
       /\ Voting(handler[h]) => index[r].checks = report[r].checks

CalmInv == GInv /\ (disturbed = {} => Calm)

\* While all is calm readers get the indexed version.
LEMMA CalmReads == ASSUME Calm, NEW r \in Reports PROVE GetReport(r) = index[r]
BY DEF Calm, GetReport, CatBytes, is_available

\* A thread that holds a lock has just that one.
LEMMA CalmReleases ==
  ASSUME Calm, GInv, NEW h \in Handlers, Finish(h)
  PROVE  /\ \A g \in Handlers : handler'[g] = IF g = h THEN Idle ELSE handler[g]
         /\ \A r \in Reports : lock'[r] = IF Holding(handler[h], r) THEN Free ELSE lock[r]
         /\ \A g \in Handlers, r \in Reports : lock'[r] = g <=> Holding(handler'[g], r)
<1>1. handler \in [Handlers -> {Idle} \cup Request]
  BY DEF GInv, GTypeOK
<1>2. \A g \in Handlers : handler'[g] = IF g = h THEN Idle ELSE handler[g]
  BY <1>1 DEF Finish
<1>3. \A r \in Reports : lock'[r] = IF Holding(handler[h], r) THEN Free ELSE lock[r]
  BY DEF Finish, Release, Calm
<1>4. \A r : ~Holding(Idle, r)
  BY DEF Holding, Voting, Idle
<1>5. \A g \in Handlers, r \in Reports : lock[r] = g <=> Holding(handler[g], r)
  BY DEF Calm
<1>6. \A g \in Handlers, r \in Reports : lock'[r] = g <=> Holding(handler'[g], r)
  BY <1>2, <1>3, <1>4, <1>5, FreeAssumption
<1>7. QED BY <1>2, <1>3, <1>6

LEMMA CalmArrives ==
  ASSUME Calm, GInv, NEW h \in Handlers, Arrives(h)
  PROVE  Calm'
<1>0. /\ handler \in [Handlers -> {Idle} \cup Request]
      /\ lock \in [Reports -> Handlers \cup {Free}]
      /\ index \in [Reports -> Document]
  BY DEF GInv, GTypeOK
<1>1. /\ ipfs' = "up" /\ scheduler' = Asleep /\ late' = {} /\ report' = report
      /\ \A r \in Reports : ~Holding(handler[h], r)
      /\ \E q : handler' = [handler EXCEPT ![h] = q]
  BY DEF Arrives, CreateSave, VoteRead, CloseBegin, Calm, At, Holding, Voting
<1>2. ASSUME NEW r \in Reports, CreateSave(h, r) PROVE Calm'
  <2>1. index[r] = NoDoc /\ local[r] = NoDoc /\ r \notin Stored
    BY <1>2 DEF CreateSave, Exists, Stored
  <2>2. report[r].checks = <<>>
    BY <2>1 DEF GInv, LedgerInv
  <2>3. index' = [index EXCEPT ![r] = NewDoc] /\ local' = local /\ lock' = lock
    BY <1>2 DEF CreateSave, Save, AddBytes, is_available, Calm
  <2>4. \A s \in Reports : index'[s].checks = index[s].checks
    BY <1>0, <2>1, <2>3 DEF NewDoc, NoDoc
  <2> DEFINE q == [step |-> "chain", tx |-> Submission(SERVICE_ORG, r), doc |-> NewDoc]
  <2>5. \A g \in Handlers : handler'[g] = IF g = h THEN q ELSE handler[g]
    BY <1>0, <1>2 DEF CreateSave
  <2>6. \A s \in Reports : ~Holding(q, s)
    BY DEF Holding, Voting, Submission
  <2> HIDE DEF q
  <2>7. \A g \in Handlers, s \in Reports : lock'[s] = g <=> Holding(handler'[g], s)
    BY <1>1, <2>3, <2>5, <2>6 DEF Calm
  <2>8. \A g \in Handlers, s \in Reports : Holding(handler'[g], s) => handler'[g] = handler[g]
    BY <2>5, <2>6
  <2>9. QED BY <1>1, <2>3, <2>4, <2>7, <2>8 DEF Calm
<1>3. ASSUME NEW r \in Reports, NEW org \in Orgs, NEW o \in Chaincode!Outcomes, VoteRead(h, org, r, o)
      PROVE  Calm'
  <2> DEFINE q == [step |-> "chain", tx |-> Check(org, r, o), doc |-> GetReport(r)]
  <2>1. /\ index' = index /\ local' = local /\ lock' = [lock EXCEPT ![r] = h] /\ lock[r] = Free
        /\ index[r].checks = report[r].checks
    BY <1>3 DEF VoteRead, store, lockAvailable, Calm
  <2>2. \A g \in Handlers : handler'[g] = IF g = h THEN q ELSE handler[g]
    BY <1>0, <1>3 DEF VoteRead
  <2>3. /\ \A s \in Reports : Holding(q, s) <=> s = r
        /\ q.doc.checks = report[r].checks
    BY <2>1, CalmReads DEF Holding, Voting, Check
  <2> HIDE DEF q
  <2>4. \A s \in Reports : lock'[s] = IF s = r THEN h ELSE lock[s]
    BY <1>0, <2>1
  <2>5. \A g \in Handlers, s \in Reports : lock[s] = g <=> Holding(handler[g], s)
    BY DEF Calm
  <2>6. \A g \in Handlers : ~Holding(handler[g], r)
    BY <2>1, <2>5, FreeAssumption
  <2>7. \A g \in Handlers, s \in Reports : lock'[s] = g <=> Holding(handler'[g], s)
    BY <1>1, <2>2, <2>3, <2>4, <2>5, <2>6
  <2>8. \A g \in Handlers, s \in Reports : Holding(handler'[g], s) =>
          handler'[g] = handler[g] \/ (handler'[g] = q /\ s = r)
    BY <2>2, <2>3
  <2>9. QED BY <1>1, <2>1, <2>3, <2>4, <2>7, <2>8, FreeAssumption DEF Calm
<1>4. ASSUME NEW r \in Reports, CloseBegin(h, r) PROVE Calm'
  <2>1. index' = index /\ local' = local /\ lock' = lock
    BY <1>4 DEF CloseBegin, store
  <2>2. PICK tx \in {Finalization(SERVICE_ORG, r), Expiry(SERVICE_ORG, r)} :
          handler' = [handler EXCEPT ![h] = [step |-> "chain", tx |-> tx, doc |-> NoDoc]]
    BY <1>4 DEF CloseBegin
  <2> DEFINE q == [step |-> "chain", tx |-> tx, doc |-> NoDoc]
  <2>3. \A g \in Handlers : handler'[g] = IF g = h THEN q ELSE handler[g]
    BY <1>0, <2>2
  <2>4. \A s \in Reports : ~Holding(q, s)
    BY DEF Holding, Voting, Finalization, Expiry
  <2> HIDE DEF q
  <2>5. QED BY <1>1, <2>1, <2>3, <2>4 DEF Calm
<1>5. QED BY <1>2, <1>3, <1>4, VotingOrgsAssumption DEF Arrives

LEMMA CalmContinues ==
  ASSUME Calm, GInv, NEW h \in Handlers, Continues(h), disturbed' = {}
  PROVE  Calm'
<1>0. /\ handler \in [Handlers -> {Idle} \cup Request]
      /\ lock \in [Reports -> Handlers \cup {Free}]
      /\ index \in [Reports -> Document]
      /\ report \in [Reports -> Record]
  BY DEF GInv, GTypeOK, Chaincode!TypeOK, Record
<1>1. \A g \in Handlers, s \in Reports : lock[s] = g <=> Holding(handler[g], s)
  BY DEF Calm
<1>2. CASE ChainCommits(h)
  <2> DEFINE q == handler[h]  tx == q.tx  r == tx.r  next == Answered(q)
             check == [checker |-> tx.org, outcome |-> tx.outcome]
  <2>1. /\ q \in Request /\ tx \in Transaction /\ r \in Reports /\ q.step = "chain"
        /\ tx.op \in {"submit", "check", "finalize", "expire"}
    BY <1>2, RequestShape, TransactionShape DEF ChainCommits, At
  <2>2. Commits(tx) /\ handler' = [handler EXCEPT ![h] = next]
    BY <1>2 DEF ChainCommits
  <2>3. /\ report' = [report EXCEPT ![r] = report'[r]]
        /\ \/ tx.op # "check" /\ report'[r].checks = report[r].checks
           \/ tx.op = "check" /\ report'[r].checks = Append(report[r].checks, check)
    BY <2>1, <2>2, CommitEffect DEF GInv
  <2>4. /\ index' = index /\ local' = local /\ lock' = lock /\ ipfs' = ipfs
        /\ scheduler' = scheduler /\ late' = late
    BY <1>2 DEF ChainCommits, store
  <2>5. \A s \in Reports : s # r => report'[s] = report[s]
    BY <1>0, <2>3
  <2>6. \A g \in Handlers : handler'[g] = IF g = h THEN next ELSE handler[g]
    BY <1>0, <2>2
  <2>7. q = [step |-> "chain", tx |-> tx, doc |-> q.doc]
    BY <2>1, RequestParts
  <2>8. CASE tx.op = "check"
    <3> DEFINE new == [status |-> "Under_Review", checks |-> Append(q.doc.checks, check)]
    <3>1. next = [step |-> "save", tx |-> tx, doc |-> new]
      BY <2>7, <2>8 DEF Answered
    <3>2. Holding(q, r) /\ q.doc.checks = report[r].checks
      BY <2>1, <2>8 DEF Holding, Voting, Calm
    <3>3. next.doc.checks = report'[r].checks
      <4>1. report'[r].checks = Append(report[r].checks, check)
        BY <2>3, <2>8
      <4> HIDE DEF check
      <4>2. next.doc.checks = Append(q.doc.checks, check)
        BY <3>1
      <4> HIDE DEF next, q
      <4>3. QED BY <4>1, <4>2, <3>2
    <3>4. \A s \in Reports : (Holding(next, s) <=> s = r) /\ (Holding(q, s) <=> s = r)
      BY <3>1, <2>1, <2>8 DEF Holding, Voting
    <3>5. ~Voting(next)
      BY <3>1 DEF Voting
    <3> HIDE DEF next, q
    <3>6. \A g \in Handlers, s \in Reports : lock'[s] = g <=> Holding(handler'[g], s)
      BY <1>1, <2>4, <2>6, <3>4 DEF q
    <3>7. lock[r] = h
      BY <1>1, <2>1, <3>2 DEF q
    <3>8. \A g \in Handlers, s \in Reports : Holding(handler'[g], s) =>
            (g = h /\ s = r) \/ (handler'[g] = handler[g] /\ s # r)
      BY <1>1, <2>4, <2>6, <3>4, <3>6, <3>7
    <3>9. QED BY <2>4, <2>5, <2>6, <3>3, <3>5, <3>6, <3>7, <3>8, FreeAssumption DEF Calm
  <2>9. CASE tx.op # "check"
    <3>1. \A s \in Reports : report'[s].checks = report[s].checks
      BY <2>3, <2>5, <2>9
    <3>2. next = [step |-> "index", tx |-> tx, doc |-> q.doc]
          \/ next = [step |-> "close", tx |-> tx, doc |-> q.doc]
      BY <2>1, <2>7, <2>9 DEF Answered
    <3>3. \A s \in Reports : ~Holding(next, s) /\ ~Holding(q, s)
      BY <3>2, <2>1, <2>9 DEF Holding, Voting
    <3> HIDE DEF next, q
    <3>4. \A g \in Handlers, s \in Reports : lock'[s] = g <=> Holding(handler'[g], s)
      BY <1>1, <2>4, <2>6, <3>3 DEF q
    <3>5. \A g \in Handlers, s \in Reports : Holding(handler'[g], s) => handler'[g] = handler[g]
      BY <2>6, <3>3
    <3>6. QED BY <2>4, <3>1, <3>4, <3>5 DEF Calm
  <2>10. QED BY <2>8, <2>9
<1>3. CASE ChainFails(h) \/ QueryFails(h) \/ CreateIndex(h)
  <2>1. /\ index' = index /\ local' = local /\ ipfs' = ipfs /\ report' = report
        /\ scheduler' = scheduler /\ late' = late /\ Finish(h) /\ handler[h].step # "save"
    BY <1>3 DEF ChainFails, QueryFails, CreateIndex, store, At
  <2>2. \A r \in Reports : Holding(handler[h], r) => index[r].checks = report[r].checks
    BY <2>1 DEF Holding, Calm
  <2>3. \A r : ~Holding(Idle, r)
    BY DEF Holding, Voting, Idle
  <2>4. QED BY <2>1, <2>2, <2>3, CalmReleases DEF Calm
<1>4. CASE HandlerSave(h)
  <2> DEFINE r == handler[h].tx.r  doc == handler[h].doc
  <2>1. r \in Reports /\ handler[h].step = "save" /\ Holding(handler[h], r)
    BY <1>4, RequestShape DEF HandlerSave, At, Holding
  <2>2. /\ index' = [index EXCEPT ![r] = doc] /\ local' = local /\ ipfs' = ipfs
        /\ report' = report /\ scheduler' = scheduler /\ late' = late /\ Finish(h)
    BY <1>4 DEF HandlerSave, Save, AddBytes, is_available, Calm
  <2>3. \A s \in Reports : Holding(handler[h], s) => s = r
    BY DEF Holding
  <2>4. index'[r].checks = report[r].checks /\ (\A s \in Reports : s # r => index'[s] = index[s])
    BY <1>0, <2>1, <2>2 DEF Calm
  <2>5. \A s : ~Holding(Idle, s)
    BY DEF Holding, Voting, Idle
  <2>6. \A s \in Reports : lock'[s] = Free => index'[s].checks = report[s].checks
    BY <2>2, <2>3, <2>4, CalmReleases DEF Calm
  <2>7. \A g \in Handlers, s \in Reports : Holding(handler'[g], s) =>
          handler'[g] = handler[g] /\ s # r
    BY <1>1, <2>1, <2>2, <2>5, CalmReleases
  <2>8. QED BY <2>2, <2>4, <2>6, <2>7, CalmReleases DEF Calm
<1>5. CASE CloseRead(h)
  <2> DEFINE q == handler[h]  tx == q.tx  r == tx.r  doc == GetReport(r)
             status == IF tx.op = "expire" THEN "Expired" ELSE VERIFIED_STATUS[report[r].label]
             closed == [doc EXCEPT !.status = status]
             next == [step |-> "save", tx |-> tx, doc |-> closed]
  <2>1. q \in Request /\ r \in Reports /\ q.step = "close"
    BY <1>5, RequestShape DEF CloseRead, At
  <2>2. /\ index' = index /\ local' = local /\ ipfs' = ipfs /\ report' = report
        /\ scheduler' = scheduler /\ late' = late /\ lock[r] = Free
    BY <1>5 DEF CloseRead, store, lockAvailable
  <2>3. \A s \in Reports : ~Holding(q, s) /\ ~Holding(Idle, s)
    BY <2>1 DEF Holding, Voting, Idle
  <2>4. CASE handler' = [handler EXCEPT ![h] = Idle] /\ lock' = lock
    <3>1. \A g \in Handlers : handler'[g] = IF g = h THEN Idle ELSE handler[g]
      BY <1>0, <2>4
    <3> HIDE DEF q
    <3>2. \A g \in Handlers, s \in Reports : lock'[s] = g <=> Holding(handler'[g], s)
      BY <1>1, <2>3, <2>4, <3>1 DEF q
    <3>3. \A g \in Handlers, s \in Reports : Holding(handler'[g], s) => handler'[g] = handler[g]
      BY <2>3, <3>1
    <3>4. QED BY <2>2, <2>4, <3>2, <3>3 DEF Calm
  <2>5. CASE /\ handler' = [handler EXCEPT ![h].step = "save", ![h].doc = closed]
             /\ lock' = [lock EXCEPT ![r] = h]
    <3>1. doc \in Document /\ doc.checks = report[r].checks
      <4>1. doc = index[r] /\ index[r].checks = report[r].checks
        BY <2>1, <2>2, CalmReads DEF Calm
      <4>2. QED BY <4>1, <1>0, <2>1
    <3>2. closed.checks = report[r].checks
      BY <3>1 DEF Document
    <3> HIDE DEF closed
    <3>3. [[q EXCEPT !.step = "save"] EXCEPT !.doc = closed] = next
      BY <2>1, SavesRequest
    <3>4. handler' = [handler EXCEPT ![h] = [[q EXCEPT !.step = "save"] EXCEPT !.doc = closed]]
      BY <2>5, <1>0
    <3>5. \A g \in Handlers : handler'[g] = IF g = h THEN next ELSE handler[g]
      BY <1>0, <3>3, <3>4
    <3>6. /\ \A s \in Reports : Holding(next, s) <=> s = r
          /\ next.doc.checks = report[r].checks /\ ~Voting(next)
      BY <3>2 DEF Holding, Voting
    <3> HIDE DEF next, q
    <3>7. \A s \in Reports : lock'[s] = IF s = r THEN h ELSE lock[s]
      BY <1>0, <2>5
    <3>8. \A g \in Handlers : ~Holding(handler[g], r)
      BY <1>1, <2>1, <2>2, FreeAssumption
    <3>9. \A g \in Handlers, s \in Reports : lock'[s] = g <=> Holding(handler'[g], s)
      BY <1>1, <2>1, <2>3, <3>5, <3>6, <3>7, <3>8 DEF q
    <3>10. \A g \in Handlers, s \in Reports : Holding(handler'[g], s) =>
             handler'[g] = handler[g] \/ (handler'[g] = next /\ s = r)
      BY <3>5, <3>6
    <3>11. QED BY <2>1, <2>2, <3>6, <3>7, <3>9, <3>10, FreeAssumption DEF Calm
  <2>6. QED BY <1>5, <2>4, <2>5 DEF CloseRead
<1>6. CASE ChainTimesOut(h)
  BY <1>6 DEF ChainTimesOut, Disturb
<1>7. QED BY <1>2, <1>3, <1>4, <1>5, <1>6 DEF Continues

LEMMA CalmOthers ==
  ASSUME Calm, GInv, Pass \/ Surroundings, disturbed' = {}
  PROVE  Calm'
<1>1. ~Pass
  BY DEF Pass, Calm, Asleep, PassBegin, PassExpire, PassTimesOut, PassSkip, PassRead, PassSave,
    PassEnd, Disturb
<1>2. CASE Clock \/ \E r \in Reports : EnsureMeta(r)
  <2>1. UNCHANGED <<report, index, local, ipfs, lock, handler, scheduler, late>>
    BY <1>2 DEF Clock, EnsureMeta, Chaincode!Tick, store
  <2>2. QED BY <2>1 DEF Calm
<1>3. ~(LateCommits \/ LateLost \/ IpfsFails \/ IpfsRecovers \/ Crash)
  BY DEF LateCommits, LateLost, IpfsFails, IpfsRecovers, Crash, Disturb, Calm
<1>4. QED BY <1>1, <1>2, <1>3 DEF Surroundings

LEMMA CalmInit == GInit => CalmInv
<1> SUFFICES ASSUME GInit PROVE CalmInv
  OBVIOUS
<1>1. \A h \in Handlers, r \in Reports : lock[r] # h /\ ~Holding(handler[h], r)
  BY FreeAssumption DEF GInit, Holding, Voting, Idle
<1>2. \A r \in Reports : index[r] = NoDoc /\ local[r] = NoDoc /\ report[r] = Chaincode!NoReport
  BY DEF GInit
<1>3. index = [r \in Reports |-> NoDoc] /\ \A r \in Reports : index[r].checks = report[r].checks
  BY <1>2 DEF GInit, NoDoc, Chaincode!NoReport
<1>4. Calm
  BY <1>1, <1>2, <1>3 DEF GInit, Calm
<1>5. QED BY <1>4, GInitFits DEF CalmInv

LEMMA CalmNext == CalmInv /\ [GNext]_gvars => CalmInv'
<1> SUFFICES ASSUME CalmInv, [GNext]_gvars PROVE CalmInv'
  OBVIOUS
<1>1. GInv /\ GInv' /\ (disturbed = {} => Calm)
  BY GNextKeeps DEF CalmInv
<1>2. SUFFICES ASSUME disturbed' = {} PROVE Calm'
  BY <1>1 DEF CalmInv
<1>3. disturbed \subseteq disturbed'
  BY DEF GNext, gvars, Arrives, Continues, Pass, Surroundings, Disturb, CreateSave, VoteRead,
    CloseBegin, ChainCommits, ChainFails, ChainTimesOut, CreateIndex, CloseRead, QueryFails,
    HandlerSave, PassBegin, PassExpire, PassTimesOut, PassSkip, PassRead, PassSave, PassEnd,
    LateCommits, LateLost, IpfsFails, IpfsRecovers, Crash, Clock, EnsureMeta
<1>4. Calm
  BY <1>1, <1>2, <1>3
<1>5. CASE UNCHANGED gvars
  BY <1>4, <1>5 DEF gvars, store, Calm
<1>6. QED BY <1>1, <1>2, <1>4, <1>5, CalmArrives, CalmContinues, CalmOthers DEF GNext

\* The lock of a document does what it is there for: with no expiry pass, outage, lost
\* answer or crash, no vote's reasoning is overwritten by another handler's version.
THEOREM DocumentsAreComplete == GSpec => []DocumentIsComplete
<1>1. CalmInv => DocumentIsComplete
  BY CalmReads DEF CalmInv, DocumentIsComplete, Calm
<1>2. QED BY <1>1, CalmInit, CalmNext, PTL DEF GSpec
=============================================================================
