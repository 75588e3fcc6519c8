---------------------------- MODULE ServicesProofs ----------------------------
(* What holds of the services that share no state with the others, for any   *)
(* organisations, keys, threads, containers and runs.                        *)
EXTENDS ApiKeys, AuditChain, RateLimiter, Deployment, ClaimSeeding,
  FiniteSetTheorems, SequenceTheorems, WellFoundedInduction, TLAPS

-----------------------------------------------------------------------------
(* ApiKeys. *)

KeyRow == [state : {"none", "live", "revoked"},
           label : {"none", "migrated", "dev", "apply", "demo-seed"}]

\* Nothing is left to be migrated once a deployment has been secured: a key that
\* came out of org_keys after that would be live.
KInv ==
  /\ keys \in [KeyIds -> KeyRow]
  /\ plaintext \subseteq DevKeys
  /\ secured => plaintext = {}
  /\ NoWellKnownKeys
  /\ SeedingKeysEnd

LEMMA Rows ==
  /\ NoKey \in KeyRow /\ NoKey.state = "none"
  /\ \A label \in {"migrated", "dev", "apply", "demo-seed"} :
       Live(label) \in KeyRow /\ Live(label).state = "live" /\ Live(label).label = label
BY DEF NoKey, Live, KeyRow

\* What is revoked is not live, and nothing comes alive by it.
LEMMA RevokeKeeps ==
  ASSUME keys \in [KeyIds -> KeyRow], NEW K
  PROVE  /\ Revoke(K) \in [KeyIds -> KeyRow]
         /\ \A k \in KeyIds : Revoke(K)[k].state = "live" => k \notin K /\ Revoke(K)[k] = keys[k]
<1>1. ASSUME NEW k \in KeyIds
      PROVE  /\ Revoke(K)[k] \in KeyRow
             /\ Revoke(K)[k].state = "live" => k \notin K /\ Revoke(K)[k] = keys[k]
  <2>1. keys[k] \in KeyRow OBVIOUS
  <2>2. CASE k \in K /\ keys[k] # NoKey
    <3>1. Revoke(K)[k] = [keys[k] EXCEPT !.state = "revoked"] BY <2>2 DEF Revoke
    <3> QED BY <2>1, <3>1 DEF KeyRow
  <2>3. CASE ~(k \in K /\ keys[k] # NoKey)
    <3>1. Revoke(K)[k] = keys[k] BY <2>3 DEF Revoke
    <3> QED BY <2>1, <2>3, <3>1, Rows
  <2> QED BY <2>2, <2>3
<1>2. Revoke(K) = [k \in KeyIds |-> Revoke(K)[k]] BY DEF Revoke
<1> QED BY <1>1, <1>2

LEMMA KInitHolds == AKInit => KInv
<1> SUFFICES ASSUME AKInit PROVE KInv OBVIOUS
<1>1. keys \in [KeyIds -> KeyRow] BY Rows DEF AKInit
<1>2. \A k \in KeyIds : ~IsLive(k) BY Rows DEF AKInit, IsLive
<1> QED BY <1>1, <1>2 DEF AKInit, KInv, NoWellKnownKeys, SeedingKeysEnd, KeyIds

LEMMA KNextKeeps == KInv /\ [AKNext]_kvars => KInv'
<1> SUFFICES ASSUME KInv, [AKNext]_kvars PROVE KInv' OBVIOUS
<1> USE DEF KInv
<1>1. CASE Opens
  <2>1. keys' \in [KeyIds -> KeyRow] BY <1>1, Rows DEF Opens, Migrated
  <2>2. ~secured /\ ~secured' BY <1>1 DEF Opens
  <2>3. SeedingKeysEnd'
    BY <1>1, Rows DEF Opens, Migrated, SeedingKeysEnd, IsLive
  <2> QED BY <1>1, <2>1, <2>2, <2>3 DEF Opens, NoWellKnownKeys
<1>2. ASSUME NEW n \in KeyOrgs, BootstrapSecure(n) PROVE KInv'
  <2>1. keys' = Revoke(DevKeys) BY <1>2 DEF BootstrapSecure, WellKnown
  <2>2. NoWellKnownKeys'
    BY <2>1, RevokeKeeps DEF NoWellKnownKeys, IsLive, KeyIds
  <2>3. SeedingKeysEnd'
    BY <1>2, <2>1, RevokeKeeps DEF BootstrapSecure, SeedingKeysEnd, IsLive
  <2> QED BY <1>2, <2>1, <2>2, <2>3, RevokeKeeps DEF BootstrapSecure
<1>3. ASSUME NEW n \in KeyOrgs, BootstrapBenchmark(n) PROVE KInv'
  <2>1. keys' \in [KeyIds -> KeyRow] BY <1>3, Rows DEF BootstrapBenchmark
  <2>2. SeedingKeysEnd'
    BY <1>3, Rows DEF BootstrapBenchmark, SeedingKeysEnd, IsLive
  <2> QED BY <1>3, <2>1, <2>2 DEF BootstrapBenchmark, NoWellKnownKeys
<1>4. ASSUME NEW k \in Tokens, ApplyOrg(k) PROVE KInv'
  <2>1. keys' \in [KeyIds -> KeyRow] BY <1>4, Rows DEF ApplyOrg
  <2>2. NoWellKnownKeys'
    BY <1>4, RandomAssumption DEF ApplyOrg, NoWellKnownKeys, IsLive, KeyIds
  <2>3. SeedingKeysEnd'
    BY <1>4, Rows DEF ApplyOrg, SeedingKeysEnd, IsLive
  <2> QED BY <1>4, <2>1, <2>2, <2>3 DEF ApplyOrg
<1>5. ASSUME NEW s \in SeedRuns, NEW fresh \in SUBSET Tokens, Mints(s, fresh) PROVE KInv'
  <2>1. keys' \in [KeyIds -> KeyRow] BY <1>5, Rows DEF Mints
  <2>2. NoWellKnownKeys'
    BY <1>5, RandomAssumption DEF Mints, NoWellKnownKeys, IsLive, KeyIds
  <2> QED BY <1>5, <2>1, <2>2 DEF Mints, SeedingKeysEnd
<1>6. ASSUME NEW s \in SeedRuns, RunEnds(s) PROVE KInv'
  <2> DEFINE minted == {k \in KeyIds : keys[k].label = "demo-seed"}
  <2>1. keys' = Revoke(minted) BY <1>6 DEF RunEnds, Finally
  <2>2. NoWellKnownKeys'
    BY <1>6, <2>1, RevokeKeeps DEF RunEnds, NoWellKnownKeys, IsLive, KeyIds
  <2>3. SeedingKeysEnd'
    BY <2>1, RevokeKeeps DEF SeedingKeysEnd, IsLive
  <2> QED BY <1>6, <2>1, <2>2, <2>3, RevokeKeeps DEF RunEnds
<1>7. ASSUME NEW s \in SeedRuns, Killed(s) PROVE KInv'
  BY <1>7 DEF Killed, NoWellKnownKeys, SeedingKeysEnd, IsLive
<1>8. CASE UNCHANGED kvars
  BY <1>8 DEF kvars, NoWellKnownKeys, SeedingKeysEnd, IsLive
<1> QED BY <1>1, <1>2, <1>3, <1>4, <1>5, <1>6, <1>7, <1>8 DEF AKNext

\* bootstrap-keys.sh: no deployment that was started without the well-known keys
\* accepts one, for any number of organisations and any keys of earlier deployments.
THEOREM WellKnownKeysStayRevoked == AKSpec => []NoWellKnownKeys
<1>1. KInv => NoWellKnownKeys BY DEF KInv
<1> QED BY <1>1, KInitHolds, KNextKeeps, PTL DEF AKSpec

\* demo-seed.py: the keys of its runs, however many are killed, are revoked at the
\* end of the last one.
THEOREM SeedingKeysAreRevoked == AKSpec => []SeedingKeysEnd
<1>1. KInv => SeedingKeysEnd BY DEF KInv
<1> QED BY <1>1, KInitHolds, KNextKeeps, PTL DEF AKSpec

-----------------------------------------------------------------------------
(* AuditChain. *)

\* The gateway alone: the lock keeps all the threads apart.
OneProcess == \A v, w \in Recorders : ProcessOf[v] = ProcessOf[w]

Hashes == Seq(AuditEntries)
LogRow == [prev : Hashes, entry : AuditEntries, hash : Hashes]

\* One thread at a time holds the lock, and it has read the hash of what is still
\* the last row, unless the log was altered; then verify finds the place.
UInv ==
  /\ DOMAIN recording = Recorders
  /\ \A v, w \in Recorders : recording[v] # NoEntry /\ recording[w] # NoEntry => v = w
  /\ auditLog \in Seq(LogRow)
  /\ \A w \in Recorders : recording[w] # NoEntry =>
       recording[w].prev \in Hashes /\ recording[w].entry \in AuditEntries
  /\ ~altered =>
       /\ Verified(auditLog)
       /\ \A w \in Recorders : recording[w] # NoEntry => recording[w].prev = LastHash
  /\ altered => ~Verified(auditLog)

LEMMA LastHashIsHash ==
  ASSUME auditLog \in Seq(LogRow)
  PROVE  LastHash \in Hashes
<1>1. GENESIS \in Hashes BY DEF GENESIS, Hashes
<1>2. ASSUME auditLog # <<>> PROVE auditLog[Len(auditLog)].hash \in Hashes
  <2>1. Len(auditLog) \in 1..Len(auditLog) BY <1>2
  <2>2. auditLog[Len(auditLog)] \in LogRow BY <2>1
  <2> QED BY <2>2 DEF LogRow
<1> QED BY <1>1, <1>2 DEF LastHash

\* A row that continues the last one continues the chain.
LEMMA ChainGrows ==
  ASSUME auditLog \in Seq(LogRow), Verified(auditLog), NEW entry \in AuditEntries
  PROVE  /\ Append(auditLog, Row(LastHash, entry)) \in Seq(LogRow)
         /\ Verified(Append(auditLog, Row(LastHash, entry)))
<1> DEFINE row == Row(LastHash, entry)
           log == Append(auditLog, row)
<1>1. LastHash \in Hashes BY LastHashIsHash
<1>2. row \in LogRow /\ row.prev = LastHash /\ row.hash = Digest(LastHash, entry) /\ row.entry = entry
  BY <1>1 DEF Row, LogRow, Digest, Hashes
<1> HIDE DEF row
<1>3. log \in Seq(LogRow) /\ Len(log) = Len(auditLog) + 1 /\ Len(auditLog) \in Nat
      /\ log[Len(auditLog) + 1] = row
      /\ \A i \in 1..Len(auditLog) : log[i] = auditLog[i]
  BY <1>2
<1>4. ASSUME NEW i \in DOMAIN log
      PROVE  /\ log[i].prev = (IF i = 1 THEN GENESIS ELSE log[i - 1].hash)
             /\ log[i].hash = Digest(log[i].prev, log[i].entry)
  <2>1. CASE i = Len(auditLog) + 1
    <3>1. CASE auditLog = <<>>
      BY <1>2, <1>3, <2>1, <3>1 DEF LastHash
    <3>2. CASE auditLog # <<>>
      <4>1. i # 1 /\ i - 1 = Len(auditLog) /\ i - 1 \in 1..Len(auditLog)
        BY <1>3, <2>1, <3>2
      <4>2. log[i - 1] = auditLog[Len(auditLog)] BY <1>3, <4>1
      <4>3. LastHash = auditLog[Len(auditLog)].hash BY <3>2 DEF LastHash
      <4> HIDE DEF log
      <4> QED BY <1>2, <1>3, <2>1, <4>1, <4>2, <4>3
    <3> QED BY <3>1, <3>2
  <2>2. CASE i \in 1..Len(auditLog)
    <3>1. log[i] = auditLog[i] /\ (i # 1 => log[i - 1] = auditLog[i - 1]) BY <1>3, <2>2
    <3> QED BY <2>2, <3>1 DEF Verified
  <2>3. DOMAIN log = 1..(Len(auditLog) + 1) BY <1>3
  <2> QED BY <1>3, <1>4, <2>1, <2>2, <2>3
<1> QED BY <1>3, <1>4 DEF Verified, row

LEMMA RowShape ==
  ASSUME NEW prev \in Hashes, NEW entry \in AuditEntries
  PROVE  Row(prev, entry) \in LogRow
BY DEF Row, LogRow, Digest, Hashes

\* What is wrong with a log stays wrong, whatever is appended.
LEMMA BreaksStay ==
  ASSUME NEW log \in Seq(LogRow), NEW row \in LogRow, ~Verified(log)
  PROVE  ~Verified(Append(log, row))
<1> DEFINE longer == Append(log, row)
<1>1. PICK i \in DOMAIN log :
        ~(/\ log[i].prev = (IF i = 1 THEN GENESIS ELSE log[i - 1].hash)
          /\ log[i].hash = Digest(log[i].prev, log[i].entry))
  BY DEF Verified
<1>2. /\ i \in 1..Len(log) /\ Len(log) \in Nat /\ i \in DOMAIN longer
      /\ \A j \in 1..Len(log) : longer[j] = log[j]
  OBVIOUS
<1> HIDE DEF longer
<1>3. longer[i] = log[i] /\ (i # 1 => longer[i - 1] = log[i - 1])
  BY <1>2
<1>4. ~Verified(longer)
  BY <1>1, <1>2, <1>3 DEF Verified
<1>5. QED BY <1>4 DEF longer

\* Two different entries do not have the same digest, nor does a row that of the one before.
LEMMA DigestsDiffer ==
  ASSUME NEW prev \in Hashes, NEW entry \in AuditEntries
  PROVE  /\ Digest(prev, entry) # prev
         /\ \A other \in AuditEntries : other # entry => Digest(prev, other) # Digest(prev, entry)
<1>1. /\ Len(prev) \in Nat /\ Len(Append(prev, entry)) = Len(prev) + 1
      /\ \A other \in AuditEntries : Append(prev, other)[Len(prev) + 1] = other
  BY DEF Hashes
<1>2. QED BY <1>1 DEF Digest

LEMMA EditIsFound ==
  ASSUME auditLog \in Seq(LogRow), Verified(auditLog), NEW i \in DOMAIN auditLog,
         NEW e \in AuditEntries \ {auditLog[i].entry},
         auditLog' = [auditLog EXCEPT ![i].entry = e]
  PROVE  auditLog' \in Seq(LogRow) /\ ~Verified(auditLog')
<1>1. /\ i \in 1..Len(auditLog) /\ auditLog \in [1..Len(auditLog) -> LogRow]
      /\ Len(auditLog) \in Nat /\ auditLog[i] \in LogRow
  OBVIOUS
<1>2. [auditLog[i] EXCEPT !.entry = e] \in LogRow
  BY <1>1 DEF LogRow
<1>3. auditLog' \in [1..Len(auditLog) -> LogRow] /\ DOMAIN auditLog' = DOMAIN auditLog
  BY <1>1, <1>2
<1>4. auditLog' \in Seq(LogRow)
  BY <1>1, <1>3
<1>5. /\ auditLog'[i].prev = auditLog[i].prev /\ auditLog'[i].hash = auditLog[i].hash
      /\ auditLog'[i].entry = e
  BY <1>1 DEF LogRow
<1>6. auditLog[i].hash = Digest(auditLog[i].prev, auditLog[i].entry)
  BY DEF Verified
<1>7. auditLog[i].prev \in Hashes /\ auditLog[i].entry \in AuditEntries
  BY <1>1 DEF LogRow
<1>8. auditLog'[i].hash # Digest(auditLog'[i].prev, auditLog'[i].entry)
  BY <1>5, <1>6, <1>7, DigestsDiffer
<1>9. QED BY <1>3, <1>4, <1>8 DEF Verified

LEMMA RemovalIsFound ==
  ASSUME auditLog \in Seq(LogRow), Verified(auditLog), NEW i \in DOMAIN auditLog,
         i < Len(auditLog),
         auditLog' = SubSeq(auditLog, 1, i - 1) \o SubSeq(auditLog, i + 1, Len(auditLog))
  PROVE  auditLog' \in Seq(LogRow) /\ ~Verified(auditLog')
<1> DEFINE n == Len(auditLog)
           front == SubSeq(auditLog, 1, i - 1)  back == SubSeq(auditLog, i + 1, n)
<1>1. /\ n \in Nat /\ i \in 1..n /\ i + 1 \in 1..n /\ DOMAIN auditLog = 1..n
      /\ \A j \in 1..n : auditLog[j] \in LogRow
  OBVIOUS
<1>2. /\ front \in Seq(LogRow) /\ Len(front) = i - 1
      /\ \A j \in 1..(i - 1) : front[j] = auditLog[j]
  <2>1. \A j \in 1..(i - 1) : auditLog[j] \in LogRow
    BY <1>1
  <2>2. /\ front \in Seq(LogRow)
        /\ Len(front) = IF 1 <= i - 1 THEN i - 1 - 1 + 1 ELSE 0
        /\ \A j \in 1 .. (i - 1) - 1 + 1 : front[j] = auditLog[1 + j - 1]
    BY <1>1, <2>1, SubSeqProperties
  <2> HIDE DEF front
  <2>3. QED BY <1>1, <2>2
<1>3. back \in Seq(LogRow) /\ Len(back) = n - i /\ back[1] = auditLog[i + 1]
  <2>1. \A j \in (i + 1)..n : auditLog[j] \in LogRow
    BY <1>1
  <2>2. /\ back \in Seq(LogRow)
        /\ Len(back) = IF i + 1 <= n THEN n - (i + 1) + 1 ELSE 0
        /\ \A j \in 1 .. n - (i + 1) + 1 : back[j] = auditLog[(i + 1) + j - 1]
    BY <1>1, <2>1, SubSeqProperties, SMTT(20)
  <2> HIDE DEF back, n
  <2>3. 1 \in 1 .. n - (i + 1) + 1 /\ (i + 1) + 1 - 1 = i + 1 /\ i + 1 <= n
    BY <1>1
  <2>4. back[1] = auditLog[i + 1]
    BY <2>2, <2>3
  <2>5. Len(back) = n - i
    BY <1>1, <2>2, <2>3
  <2>6. QED BY <2>2, <2>4, <2>5
<1> HIDE DEF front, back
<1>4. /\ auditLog' \in Seq(LogRow) /\ Len(auditLog') = n - 1
      /\ auditLog'[i] = auditLog[i + 1]
      /\ i # 1 => auditLog'[i - 1] = auditLog[i - 1]
  <2>1. auditLog' = front \o back
    BY DEF front, back
  <2> DEFINE log == front \o back
  <2>2. /\ log \in Seq(LogRow) /\ Len(log) = Len(front) + Len(back)
        /\ \A j \in 1 .. Len(front) + Len(back) :
             log[j] = IF j <= Len(front) THEN front[j] ELSE back[j - Len(front)]
    BY <1>2, <1>3, ConcatProperties
  <2> HIDE DEF n, log
  <2>3. Len(log) = n - 1 /\ Len(front) = i - 1 /\ Len(back) = n - i /\ i \in 1..n /\ n \in Nat
    BY <1>1, <1>2, <1>3, <2>2
  <2>4. log[i] = back[1]
    <3>1. i \in 1 .. Len(front) + Len(back) /\ ~(i <= Len(front)) /\ i - Len(front) = 1
      BY <1>1, <2>3
    <3>2. QED BY <2>2, <3>1
  <2>5. i # 1 => log[i - 1] = front[i - 1] /\ i - 1 \in 1..(i - 1)
    <3>1. i # 1 => i - 1 \in 1 .. Len(front) + Len(back) /\ i - 1 <= Len(front) /\ i - 1 \in 1..(i - 1)
      BY <1>1, <2>3
    <3>2. QED BY <2>2, <3>1
  <2>6. auditLog' = log
    BY <2>1 DEF log
  <2>7. log[i] = auditLog[i + 1] /\ (i # 1 => log[i - 1] = auditLog[i - 1])
    BY <1>2, <1>3, <2>4, <2>5
  <2>8. QED BY <2>2, <2>3, <2>6, <2>7
<1> DEFINE before == IF i = 1 THEN GENESIS ELSE auditLog[i - 1].hash
<1>5. /\ auditLog[i].prev = before /\ auditLog[i].hash = Digest(before, auditLog[i].entry)
      /\ auditLog[i + 1].prev = auditLog[i].hash
  <2>1. /\ auditLog[i].prev = before /\ auditLog[i].hash = Digest(auditLog[i].prev, auditLog[i].entry)
    BY <1>1 DEF Verified
  <2>2. i + 1 \in DOMAIN auditLog /\ i + 1 # 1 /\ (i + 1) - 1 = i
    BY <1>1
  <2> HIDE DEF n
  <2>3. auditLog[i + 1].prev = auditLog[(i + 1) - 1].hash
    BY <2>2 DEF Verified
  <2>4. QED BY <2>1, <2>2, <2>3
<1>6. before \in Hashes /\ auditLog[i].entry \in AuditEntries
  BY <1>1, <1>5 DEF LogRow
<1>7. auditLog'[i].prev # before
  BY <1>4, <1>5, <1>6, DigestsDiffer
<1>8. before = IF i = 1 THEN GENESIS ELSE auditLog'[i - 1].hash
  BY <1>4
<1>9. i \in DOMAIN auditLog'
  BY <1>1, <1>4
<1> HIDE DEF before
<1>10. QED BY <1>4, <1>7, <1>8, <1>9 DEF Verified

LEMMA UInitHolds == UInit => UInv
<1> SUFFICES ASSUME UInit PROVE UInv OBVIOUS
<1>1. auditLog = <<>> /\ auditLog \in Seq(LogRow) BY DEF UInit
<1>2. Verified(auditLog) BY <1>1 DEF Verified
<1> QED BY <1>1, <1>2 DEF UInit, UInv

LEMMA UNextKeeps ==
  ASSUME OneProcess, UInv, [UNext]_uvars
  PROVE  UInv'
<1>0. Verified(auditLog)' = Verified(auditLog') BY DEF Verified
<1>1. ASSUME NEW w \in Recorders, NEW entry \in AuditEntries, RecordReads(w, entry) PROVE UInv'
  <2> DEFINE read == [at |-> "insert", prev |-> LastHash, entry |-> entry]
  <2>1. read.prev = LastHash /\ read.entry = entry /\ LastHash \in Hashes
    BY LastHashIsHash DEF UInv
  <2> HIDE DEF read
  <2>2. DOMAIN recording' = Recorders /\ recording'[w] = read
        /\ \A v \in Recorders : v # w => recording'[v] = recording[v] /\ recording[v] = NoEntry
    BY <1>1 DEF RecordReads, LockFree, OneProcess, UInv, read
  <2>3. LastHash' = LastHash BY <1>1 DEF RecordReads, LastHash
  <2>4. auditLog' = auditLog /\ altered' = altered BY <1>1 DEF RecordReads
  <2> QED BY <1>0, <1>1, <2>1, <2>2, <2>3, <2>4 DEF UInv
<1>2. ASSUME NEW w \in Recorders, RecordInserts(w) PROVE UInv'
  <2> DEFINE row == Row(recording[w].prev, recording[w].entry)
  <2>1. DOMAIN recording' = Recorders /\ \A v \in Recorders : recording'[v] = NoEntry
    BY <1>2 DEF RecordInserts, UInv
  <2>2. /\ auditLog' = Append(auditLog, row) /\ altered' = altered
        /\ recording[w].prev \in Hashes /\ recording[w].entry \in AuditEntries
    BY <1>2 DEF RecordInserts, UInv
  <2>3. row \in LogRow BY <2>2, RowShape
  <2>4. ASSUME ~altered PROVE Verified(auditLog')
    <3>1. recording[w].prev = LastHash BY <1>2, <2>4 DEF UInv, RecordInserts
    <3> QED BY <2>2, <2>4, <3>1, ChainGrows DEF UInv
  <2> HIDE DEF row
  <2>5. auditLog' \in Seq(LogRow) BY <2>2, <2>3 DEF UInv
  <2>6. altered => ~Verified(auditLog') BY <2>2, <2>3, BreaksStay DEF UInv
  <2> QED BY <1>0, <2>1, <2>2, <2>4, <2>5, <2>6 DEF UInv
<1>3. ASSUME NEW w \in Recorders, RecordFails(w) PROVE UInv'
  BY <1>3 DEF RecordFails, UInv, LastHash, Verified
<1>4. ASSUME NEW i \in DOMAIN auditLog, Alters(i) PROVE UInv'
  <2>1. ~altered /\ altered' /\ recording' = recording BY <1>4 DEF Alters
  <2>2. auditLog' \in Seq(LogRow) /\ ~Verified(auditLog')
    BY <1>4, <2>1, EditIsFound, RemovalIsFound DEF Alters, UInv
  <2> QED BY <1>0, <2>1, <2>2 DEF UInv
<1>5. CASE UNCHANGED uvars
  BY <1>5 DEF uvars, UInv, LastHash, Verified
<1> QED BY <1>1, <1>2, <1>3, <1>4, <1>5 DEF UNext

LEMMA UInvariant ==
  ASSUME OneProcess
  PROVE  USpec => []UInv
<1>1. UInv /\ [UNext]_uvars => UInv' BY UNextKeeps
<1> QED BY <1>1, UInitHolds, PTL DEF USpec

\* audit.py: verify finds the log of one gateway intact as long as nobody alters
\* it, however many threads record in it and whichever of their inserts fail.
THEOREM UnalteredLogsVerify ==
  ASSUME OneProcess
  PROVE  USpec => []UnalteredIsIntact
<1>1. UInv => UnalteredIsIntact BY DEF UInv, UnalteredIsIntact
<1> QED BY <1>1, UInvariant, PTL

\* audit.py: verify finds an entry that was edited, or removed from among others, for
\* any threads, entries and length of the log, and whatever is recorded afterwards.
THEOREM AlterationsAreFound ==
  ASSUME OneProcess
  PROVE  USpec => []AlterationIsFound
<1>1. UInv => AlterationIsFound BY DEF UInv, AlterationIsFound
<1> QED BY <1>1, UInvariant, PTL

-----------------------------------------------------------------------------
(* Deployment. *)

\* From the deletion of the runtime files no file of an earlier deployment is left,
\* from the last listing no container of a known name; and a check that passed found its container.
DInv ==
  /\ docker \in [Containers -> {"none", "old", "new"}]
  /\ at \in {"still", "done", "provision", "startup", "apps", "health", "up"} => files # "old"
  /\ at \in {"done", "provision", "startup", "apps", "health", "up"} =>
       \A c \in Known : docker[c] # "old"
  /\ at \notin Ended \cup {"health"} => DOMAIN results = {}
  /\ at \in {"health", "up"} => \A c \in DOMAIN results :
       results[c] = "bad" \/ (results[c] = "ok" /\ docker[c] # "none")
  /\ at = "up" => \A c \in Required : c \in DOMAIN results /\ results[c] = "ok"

LEMMA DInitHolds == DInit => DInv
BY DEF DInit, DInv, Ended

\* What was started or removed since is not of an earlier deployment.
LEMMA DockerMarks ==
  ASSUME docker \in [Containers -> {"none", "old", "new"}], NEW scope,
         BringsUp(scope) \/ Removes(scope)
  PROVE  /\ docker' \in [Containers -> {"none", "old", "new"}]
         /\ \A c \in Containers : docker'[c] = "old" => docker[c] = "old"
BY DEF BringsUp, Removes

LEMMA DNextKeeps ==
  ASSUME ListingFails = FALSE, DInv, [DNext]_dvars
  PROVE  DInv'
<1>1. ASSUME NEW program, Launch(program) PROVE DInv'
  <2>1. docker' \in [Containers -> {"none", "old", "new"}]
    BY <1>1 DEF Launch, Aged, DInv
  <2>2. at' \in Preflight /\ DOMAIN results' = {}
    BY <1>1 DEF Launch
  <2>3. QED BY <2>1, <2>2 DEF DInv, Preflight, Ended
<1>2. CASE Interrupted
  BY <1>2 DEF Interrupted, DInv, Ended
<1>3. CASE ComposeDown \/ FabricDown \/ RemovesLeftovers
  <2>1. PICK scope : Removes(scope)
    BY <1>3 DEF ComposeDown, FabricDown, RemovesLeftovers
  <2>2. docker' \in [Containers -> {"none", "old", "new"}]
    BY <2>1, DockerMarks DEF DInv
  <2>3. at \in {"compose", "fabric", "leftovers"} /\ at' \in {"fabric", "list", "volumes"}
        /\ results' = results
    BY <1>3 DEF ComposeDown, FabricDown, RemovesLeftovers, TeardownStep
  <2>4. QED BY <2>2, <2>3 DEF DInv, Ended
<1>4. CASE ListsLeftovers \/ RemovesVolumes
  BY <1>4 DEF ListsLeftovers, RemovesVolumes, TeardownStep, DInv, Ended
<1>5. CASE DeletesFiles
  BY <1>5 DEF DeletesFiles, TeardownStep, DInv, Ended
<1>6. CASE TeardownReturns
  <2>1. PICK list \in SUBSET Containers :
          /\ list = Present \cap Containers /\ at = "still"
          /\ at' = IF list \cap Known # {} THEN "failed" ELSE IF command = "up" THEN "provision" ELSE "done"
          /\ UNCHANGED <<docker, files, results>>
    BY <1>6 DEF TeardownReturns, Lists, TeardownStep, Still
  <2>2. at' # "failed" => \A c \in Known : docker[c] = "none"
    BY <2>1 DEF Present, Containers
  <2>3. QED BY <2>1, <2>2 DEF DInv, Ended
<1>7. CASE Provision
  BY <1>7 DEF Provision, DInv, Ended
<1>8. CASE Startup \/ ComposeUp
  <2>1. PICK scope : BringsUp(scope)
    BY <1>8 DEF Startup, ComposeUp, StartStep
  <2>2. /\ docker' \in [Containers -> {"none", "old", "new"}]
        /\ \A c \in Containers : docker'[c] = "old" => docker[c] = "old"
    BY <2>1, DockerMarks DEF DInv
  <2>5. Known \subseteq Containers BY DEF Containers
  <2>3. at \in {"startup", "apps"} /\ at' \in {"apps", "health", "failed"}
        /\ results' = results /\ (files' = "old" => files = "old")
    BY <1>8 DEF Startup, ComposeUp, StartStep
  <2>4. QED BY <2>2, <2>3, <2>5 DEF DInv, Ended
<1>9. ASSUME NEW c \in Known, HealthCheck(c) PROVE DInv'
  <2>1. PICK result \in IF docker[c] = "none" THEN {"bad"} ELSE {"ok", "bad"} :
          results' = [d \in DOMAIN results \cup {c} |-> IF d = c THEN result ELSE results[d]]
    BY <1>9 DEF HealthCheck
  <2>2. /\ DOMAIN results' = DOMAIN results \cup {c}
        /\ \A d \in DOMAIN results' : results'[d] = IF d = c THEN result ELSE results[d]
    BY <2>1
  <2>3. at = "health" /\ UNCHANGED <<docker, files, at>>
    BY <1>9 DEF HealthCheck
  <2>4. QED BY <2>1, <2>2, <2>3 DEF DInv, Ended
<1>10. CASE Summary
  <2>1. /\ at = "health" /\ Required \subseteq DOMAIN results /\ at' \in {"failed", "up"}
        /\ at' = "up" => \A c \in Required : results[c] # "bad"
        /\ UNCHANGED <<docker, files, results>>
    BY <1>10 DEF Summary, Failed
  <2>2. QED BY <2>1 DEF DInv, Ended
<1>11. CASE UNCHANGED dvars
  BY <1>11 DEF dvars, DInv
<1>12. QED BY <1>1, <1>2, <1>3, <1>4, <1>5, <1>6, <1>7, <1>8, <1>9, <1>10, <1>11 DEF DNext

\* up.py and down.py: what their exit says of the containers whose names they know and
\* of the files is so, whichever of their commands failed and whatever earlier
\* deployments had left, as long as docker lists containers.
THEOREM ExitsAreTruthful ==
  ASSUME ListingFails = FALSE
  PROVE  DSpec => []ExitIsTruthful
<1>1. DInv => ExitIsTruthful
  BY DEF DInv, ExitIsTruthful, Required, Containers
<1>2. DInv /\ [DNext]_dvars => DInv'
  BY DNextKeeps
<1>3. QED BY <1>1, <1>2, DInitHolds, PTL DEF DSpec

-----------------------------------------------------------------------------
(* ClaimSeeding. *)

SeederState == [at : {"idle", "sending", "waiting", "all", "some", "not again", "failed"},
                force : BOOLEAN, before : Nat, there : Nat]

Missing(s) == {c \in Claims : <<s, c>> \notin anchored}
Own(s)     == {a \in anchored : a[1] = s}
Others(s)  == {a \in anchored : a[1] # s}

\* What a run counted when it began was there then, and what the gateway shows is; a
\* run has claims anywhere only after it has begun to send; and one that is done has
\* no more claims missing than there are other reports since.
SInv ==
  /\ seeder \in [Seeders -> SeederState]
  /\ unsent \in [Seeders -> SUBSET Claims]
  /\ pipeline \subseteq Seeders \X Claims
  /\ anchored \subseteq Seeders \X Claims /\ IsFiniteSet(anchored)
  /\ tips \in Nat /\ again \in Nat /\ shown \in Nat
  /\ shown <= tips + again + Cardinality(anchored)
  /\ \A s \in Seeders :
       /\ seeder[s].before = seeder[s].there
       /\ \A c \in Claims : c \in unsent[s] \/ Queued(s, c) =>
            seeder[s].at # "idle" /\ (seeder[s].force \/ seeder[s].there = 0)
       /\ seeder[s].at = "all" => Cardinality(Missing(s)) + seeder[s].there <= OtherReports(s)

LEMMA SInitHolds == SInit => SInv
<1> SUFFICES ASSUME SInit PROVE SInv
  OBVIOUS
<1>1. [at |-> "idle", force |-> FALSE, before |-> 0, there |-> 0] \in SeederState
  BY DEF SeederState
<1>2. IsFiniteSet({}) /\ Cardinality({}) = 0
  BY FS_EmptySet
<1>3. QED BY <1>1, <1>2 DEF SInit, SInv, Queued

\* The reports of a run are as many as its claims that are there.
LEMMA OwnReports ==
  ASSUME IsFiniteSet(anchored), anchored \subseteq Seeders \X Claims, NEW s \in Seeders
  PROVE  /\ Cardinality(Missing(s)) \in Nat /\ Cardinality(Others(s)) \in Nat
         /\ Cardinality(anchored) = Cardinality(Claims) - Cardinality(Missing(s)) + Cardinality(Others(s))
<1> DEFINE own == Claims \ Missing(s)
           pair == [c \in own |-> <<s, c>>]
<1>1. IsFiniteSet(Missing(s)) /\ IsFiniteSet(own) /\ IsFiniteSet(Own(s)) /\ IsFiniteSet(Others(s))
  BY ClaimsAssumption, FS_Subset DEF Missing, Own, Others
<1>2. Cardinality(own) = Cardinality(Claims) - Cardinality(Missing(s))
  <2>1. Claims \cap Missing(s) = Missing(s)
    BY DEF Missing
  <2>2. QED BY <2>1, ClaimsAssumption, FS_Difference
<1>3. Cardinality(Own(s)) = Cardinality(own)
  <2>1. \A c \in own : <<s, c>> \in Own(s)
    BY DEF Missing, Own
  <2>2. \A a \in Own(s) : \E c \in own : a = <<s, c>>
    BY DEF Missing, Own
  <2>3. \A c, d \in own : pair[c] = pair[d] => c = d
    OBVIOUS
  <2>4. pair \in Bijection(own, Own(s))
    <3>1. pair \in [own -> Own(s)]
      BY <2>1
    <3>2. \A a \in Own(s) : \E c \in own : pair[c] = a
      BY <2>2
    <3>3. QED BY <3>1, <3>2, <2>3 DEF Bijection, Injection, Surjection, IsInjective
  <2>5. ExistsBijection(own, Own(s))
    BY <2>4 DEF ExistsBijection
  <2>6. QED BY <2>5, <1>1, FS_Bijection
<1>4. Cardinality(anchored) = Cardinality(Own(s)) + Cardinality(Others(s))
  <2>1. anchored = Own(s) \cup Others(s) /\ Own(s) \cap Others(s) = {}
    BY DEF Own, Others
  <2>2. Cardinality(Own(s) \cap Others(s)) = 0
    BY <2>1, FS_EmptySet
  <2>3. Cardinality(Own(s) \cup Others(s)) =
          Cardinality(Own(s)) + Cardinality(Others(s)) - Cardinality(Own(s) \cap Others(s))
    BY <1>1, FS_Union
  <2>4. Cardinality(Own(s)) \in Nat /\ Cardinality(Others(s)) \in Nat
    BY <1>1, FS_CardinalityType
  <2>5. QED BY <2>1, <2>2, <2>3, <2>4
<1>5. QED BY <1>1, <1>2, <1>3, <1>4, FS_CardinalityType, ClaimsAssumption

\* A step in which no run is done that was not: reports are only added to.
LEMMA StillAccounted ==
  ASSUME SInv, NEW s \in Seeders, seeder'[s].there = seeder[s].there, seeder[s].at = "all",
         tips' \in Nat, tips' >= tips, again' \in Nat, again' >= again, anchored \subseteq anchored', IsFiniteSet(anchored')
  PROVE  Cardinality(Missing(s)') + seeder'[s].there <= OtherReports(s)'
<1>1. IsFiniteSet(Missing(s)) /\ IsFiniteSet(Others(s)')
  BY ClaimsAssumption, FS_Subset DEF Missing, Others
<1>2. Missing(s)' \subseteq Missing(s) /\ Others(s) \subseteq Others(s)'
  BY DEF Missing, Others
<1>3. /\ Cardinality(Missing(s)') <= Cardinality(Missing(s)) /\ Cardinality(Missing(s)') \in Nat
      /\ Cardinality(Missing(s)) \in Nat
      /\ Cardinality(Others(s)) <= Cardinality(Others(s)') /\ Cardinality(Others(s)') \in Nat
      /\ Cardinality(Others(s)) \in Nat
  BY <1>1, <1>2, FS_Subset, FS_CardinalityType
<1>4. /\ OtherReports(s) = tips + again + Cardinality(Others(s))
      /\ OtherReports(s)' = tips' + again' + Cardinality(Others(s)')
  BY DEF OtherReports, Others
<1>5. Cardinality(Missing(s)) + seeder[s].there <= OtherReports(s) /\ seeder[s].there \in Nat
      /\ tips \in Nat /\ again \in Nat
  BY DEF SInv, SeederState
<1>6. QED BY <1>3, <1>4, <1>5

\* What every step but that of a run keeps, and what is left to show of it.
LEMMA SeedersStay ==
  ASSUME SInv, UNCHANGED seeder, \A s \in Seeders : unsent'[s] \subseteq unsent[s],
         unsent' \in [Seeders -> SUBSET Claims],
         \A s \in Seeders : \A c \in Claims : Queued(s, c)' => Queued(s, c) \/ c \in unsent[s],
         pipeline' \subseteq Seeders \X Claims, anchored' \subseteq Seeders \X Claims,
         IsFiniteSet(anchored'), anchored \subseteq anchored',
         tips' \in Nat, tips' >= tips, again' \in Nat, again' >= again,
         shown' \in Nat, shown' <= tips' + again' + Cardinality(anchored')
  PROVE  SInv'
<1>1. ASSUME NEW s \in Seeders
      PROVE  /\ seeder'[s].before = seeder'[s].there
             /\ \A c \in Claims : c \in unsent'[s] \/ Queued(s, c)' =>
                  seeder'[s].at # "idle" /\ (seeder'[s].force \/ seeder'[s].there = 0)
             /\ seeder'[s].at = "all" => Cardinality(Missing(s)') + seeder'[s].there <= OtherReports(s)'
  <2>1. seeder'[s] = seeder[s]
    OBVIOUS
  <2>2. seeder[s].at = "all" => Cardinality(Missing(s)') + seeder'[s].there <= OtherReports(s)'
    BY <2>1, StillAccounted
  <2>3. QED BY <2>1, <2>2 DEF SInv
<1>2. seeder' \in [Seeders -> SeederState]
  BY DEF SInv
<1>3. QED BY <1>1, <1>2 DEF SInv

\* A step of one run, with the claims where they are.
LEMMA SeederGoes ==
  ASSUME SInv, NEW s \in Seeders, NEW to \in SeederState,
         seeder' = [seeder EXCEPT ![s] = to],
         UNCHANGED <<pipeline, anchored, again, tips, shown>>,
         unsent' \in [Seeders -> SUBSET Claims], \A r \in Seeders : r # s => unsent'[r] = unsent[r],
         to.before = to.there, to.at # "idle",
         (to.there = seeder[s].there /\ to.force = seeder[s].force) \/ seeder[s].at = "idle",
         unsent'[s] \subseteq unsent[s] \/ to.force \/ to.there = 0,
         to.at = "all" => Cardinality(Missing(s)) + to.there <= OtherReports(s)
  PROVE  SInv'
<1>1. seeder \in [Seeders -> SeederState]
  BY DEF SInv
<1>2. \A r \in Seeders : seeder'[r] = IF r = s THEN to ELSE seeder[r]
  BY <1>1
<1>3. \A r \in Seeders : \A c \in Claims : Queued(r, c)' = Queued(r, c)
  BY DEF Queued
<1>4. \A r \in Seeders : Missing(r)' = Missing(r) /\ OtherReports(r)' = OtherReports(r)
  BY DEF Missing, OtherReports
<1>5. seeder' \in [Seeders -> SeederState]
  BY <1>1
<1>6. ASSUME NEW r \in Seeders
      PROVE  /\ seeder'[r].before = seeder'[r].there
             /\ \A c \in Claims : c \in unsent'[r] \/ Queued(r, c)' =>
                  seeder'[r].at # "idle" /\ (seeder'[r].force \/ seeder'[r].there = 0)
             /\ seeder'[r].at = "all" => Cardinality(Missing(r)') + seeder'[r].there <= OtherReports(r)'
  <2>1. CASE r # s
    BY <2>1, <1>2, <1>3, <1>4 DEF SInv
  <2>2. CASE r = s
    <3>1. \A c \in Claims : c \in unsent[s] \/ Queued(s, c) =>
            seeder[s].at # "idle" /\ (seeder[s].force \/ seeder[s].there = 0)
      BY DEF SInv
    <3>2. \A c \in Claims : c \in unsent'[s] \/ Queued(s, c)' => to.force \/ to.there = 0
      BY <3>1, <1>3
    <3>3. QED BY <2>2, <3>2, <1>2, <1>4
  <2>3. QED BY <2>1, <2>2
<1>7. QED BY <1>5, <1>6 DEF SInv

LEMMA SNextKeeps == SInv /\ [SNext]_svars => SInv'
<1> SUFFICES ASSUME SInv, [SNext]_svars PROVE SInv'
  OBVIOUS
<1>0. /\ seeder \in [Seeders -> SeederState] /\ unsent \in [Seeders -> SUBSET Claims]
      /\ pipeline \subseteq Seeders \X Claims /\ anchored \subseteq Seeders \X Claims
      /\ IsFiniteSet(anchored) /\ Cardinality(anchored) \in Nat /\ tips \in Nat /\ again \in Nat
      /\ shown \in Nat /\ shown <= tips + again + Cardinality(anchored)
  BY FS_CardinalityType DEF SInv
<1>1. ASSUME NEW s \in Seeders, NEW force \in BOOLEAN, Looks(s, force) PROVE SInv'
  <2> DEFINE step == IF shown > 0 /\ ~force THEN "not again" ELSE "sending"
             to == [at |-> step, force |-> force, before |-> shown, there |-> shown]
  <2>1. /\ seeder' = [seeder EXCEPT ![s] = to] /\ seeder[s].at = "idle"
        /\ unsent' = [unsent EXCEPT ![s] = IF step = "sending" THEN Claims ELSE {}]
        /\ UNCHANGED <<pipeline, anchored, again, tips, shown>>
    BY <1>1 DEF Looks
  <2>2. /\ to \in SeederState /\ to.before = to.there /\ to.at # "idle" /\ to.at # "all"
        /\ to.force = force /\ to.there = shown
    BY <1>0 DEF SeederState
  <2>3. unsent'[s] \subseteq unsent[s] \/ to.force \/ to.there = 0
    <3>1. CASE shown > 0 /\ ~force
      <4>1. unsent' = [unsent EXCEPT ![s] = {}]
        BY <2>1, <3>1
      <4>2. QED BY <1>0, <4>1
    <3>2. CASE shown = 0 \/ force
      BY <2>2, <3>2
    <3>3. QED BY <1>0, <3>1, <3>2
  <2> HIDE DEF to
  <2>4. QED BY <1>0, <2>1, <2>2, <2>3, SeederGoes
<1>2. ASSUME NEW s \in Seeders, NEW c \in Claims, Queues(s, c) PROVE SInv'
  <2>1. /\ UNCHANGED <<seeder, anchored, again, tips, shown>>
        /\ c \in unsent[s] /\ unsent' = [unsent EXCEPT ![s] = @ \ {c}]
        /\ pipeline' = pipeline \cup {<<s, c>>}
    BY <1>2 DEF Queues
  <2>2. \A r \in Seeders : \A d \in Claims : Queued(r, d)' => Queued(r, d) \/ d \in unsent[r]
    BY <2>1 DEF Queued
  <2>3. QED BY <1>0, <2>1, <2>2, SeedersStay
<1>3. ASSUME NEW s \in Seeders, NEW step \in {"sending", "waiting", "all", "some", "failed"},
             seeder' = [seeder EXCEPT ![s].at = step], UNCHANGED <<pipeline, anchored, again, tips, shown>>,
             unsent' = unsent \/ unsent' = [unsent EXCEPT ![s] = {}],
             step = "all" => shown >= seeder[s].before + Cardinality(Claims)
      PROVE  SInv'
  <2> DEFINE to == [seeder[s] EXCEPT !.at = step]
  <2>1. /\ to \in SeederState /\ to.at = step /\ to.force = seeder[s].force
        /\ to.before = seeder[s].before /\ to.there = seeder[s].there
        /\ seeder' = [seeder EXCEPT ![s] = to]
    BY <1>0, <1>3 DEF SeederState
  <2>2. seeder[s].before = seeder[s].there /\ seeder[s].there \in Nat
    BY <1>0 DEF SInv, SeederState
  <2>3. step = "all" => Cardinality(Missing(s)) + to.there <= OtherReports(s)
    <3>1. /\ Cardinality(Missing(s)) \in Nat /\ Cardinality(Others(s)) \in Nat
          /\ Cardinality(anchored) = Cardinality(Claims) - Cardinality(Missing(s)) + Cardinality(Others(s))
      BY <1>0, OwnReports
    <3>2. Cardinality(Claims) \in Nat
      BY ClaimsAssumption, FS_CardinalityType
    <3>3. OtherReports(s) = tips + again + Cardinality(Others(s))
      BY DEF OtherReports, Others
    <3> HIDE DEF to
    <3>4. QED BY <1>0, <1>3, <2>1, <2>2, <3>1, <3>2, <3>3
  <2> HIDE DEF to
  <2>4. unsent' \in [Seeders -> SUBSET Claims] /\ unsent'[s] \subseteq unsent[s]
        /\ \A r \in Seeders : r # s => unsent'[r] = unsent[r]
    BY <1>0, <1>3
  <2>5. QED BY <1>3, <2>1, <2>2, <2>3, <2>4, SeederGoes
<1>4. ASSUME NEW s \in Seeders, IngestFails(s) PROVE SInv'
  <2>1. CASE seeder[s].at = "sending"
    BY <1>3, <1>4, <2>1 DEF IngestFails, MovesOn
  <2>2. CASE seeder[s].at # "sending"
    <3>1. /\ UNCHANGED <<seeder, pipeline, anchored, again, tips, shown>>
          /\ unsent' = [unsent EXCEPT ![s] = {}]
      BY <1>4, <2>2 DEF IngestFails
    <3>2. QED BY <1>0, <3>1, SeedersStay DEF Queued
  <2>3. QED BY <2>1, <2>2
<1>5. ASSUME NEW s \in Seeders, Unanswered(s) \/ HasAnswer(s) \/ SeesAll(s) \/ StopsWaiting(s)
      PROVE  SInv'
  BY <1>3, <1>5 DEF Unanswered, HasAnswer, SeesAll, StopsWaiting, MovesOn
<1>6. ASSUME NEW claim \in pipeline, Lands(claim) \/ Drops(claim) PROVE SInv'
  <2>1. /\ UNCHANGED <<seeder, unsent, again, tips, shown>> /\ pipeline' = pipeline \ {claim}
        /\ anchored' = anchored \/ anchored' = anchored \cup {claim}
    BY <1>6 DEF Lands, Drops
  <2>2. IsFiniteSet(anchored') /\ Cardinality(anchored) <= Cardinality(anchored')
        /\ Cardinality(anchored') \in Nat
    <3>1. IsFiniteSet(anchored')
      BY <1>0, <2>1, FS_AddElement
    <3>2. anchored \subseteq anchored'
      BY <2>1
    <3>3. QED BY <3>1, <3>2, FS_Subset, FS_CardinalityType
  <2>3. \A r \in Seeders : \A d \in Claims : Queued(r, d)' => Queued(r, d)
    BY <2>1 DEF Queued
  <2>4. QED BY <1>0, <2>1, <2>2, <2>3, SeedersStay
<1>7. CASE LandsAgain \/ TipArrives \/ Shows
  <2>1. /\ UNCHANGED <<seeder, unsent, pipeline, anchored>>
        /\ tips' \in Nat /\ tips' >= tips /\ again' \in Nat /\ again' >= again
        /\ shown' \in Nat /\ shown' <= tips' + again' + Cardinality(anchored)
    <3>1. CASE LandsAgain BY <1>0, <3>1 DEF LandsAgain
    <3>2. CASE TipArrives BY <1>0, <3>2 DEF TipArrives
    <3>3. CASE Shows BY <1>0, <3>3 DEF Shows
    <3>4. QED BY <1>7, <3>1, <3>2, <3>3
  <2>2. QED BY <1>0, <2>1, SeedersStay DEF Queued
<1>8. CASE UNCHANGED svars
  BY <1>0, <1>8, SeedersStay DEF svars, Queued
<1>9. QED BY <1>1, <1>2, <1>4, <1>5, <1>6, <1>7, <1>8 DEF SNext

\* seed-claims.py: whoever else sends claims and whatever is lost on the way, "all claims
\* are on the ledger" is never said for fewer reports than there are claims, and no run
\* without --force queues a claim on a ledger that shows reports.
THEOREM SeedingAccounts == SSpec => []SeedingIsAccounted
<1>1. SInv => SeedingIsAccounted
  <2> SUFFICES ASSUME SInv, NEW s \in Seeders
               PROVE  /\ (\E c \in Claims : Queued(s, c)) => seeder[s].force \/ seeder[s].there = 0
                      /\ seeder[s].at = "all" =>
                           Cardinality({c \in Claims : <<s, c>> \notin anchored})
                             <= OtherReports(s) - seeder[s].there
    BY DEF SeedingIsAccounted
  <2>1. Cardinality(Missing(s)) \in Nat /\ Cardinality(Others(s)) \in Nat
    BY OwnReports DEF SInv
  <2>2. OtherReports(s) = tips + again + Cardinality(Others(s)) /\ tips \in Nat /\ again \in Nat
        /\ seeder[s].there \in Nat
    BY DEF OtherReports, Others, SInv, SeederState
  <2>3. seeder[s].at = "all" => Cardinality(Missing(s)) <= OtherReports(s) - seeder[s].there
    BY <2>1, <2>2 DEF SInv
  <2>4. QED BY <2>3 DEF SInv, Missing
<1>2. QED BY <1>1, SInitHolds, SNextKeeps, PTL DEF SSpec

-----------------------------------------------------------------------------
(* RateLimiter. *)

Deque(k) == IF k \in DOMAIN hits THEN hits[k] ELSE <<>>

\* The deque holds the readings of the last hits that passed, each taken at most
\* HitDelay before it passed; those it has lost passed long ago.
Tracks(deque, passed, time) ==
  /\ deque \in Seq(Nat) /\ passed \in Seq(Nat) /\ Len(deque) <= Len(passed)
  /\ \A p \in 1 .. Len(deque) : passed[Len(passed) - Len(deque) + p] - HitDelay <= deque[p]
  /\ \A j \in 1 .. Len(passed) - Len(deque) : time - passed[j] > window_s - HitDelay

\* No window has more than `limit` of them.
Spaced(passed) ==
  \A i, j \in DOMAIN passed : i + limit <= j => passed[j] - passed[i] > window_s - HitDelay

LInv ==
  /\ monotonic \in Nat
  /\ calls \in [HitThreads -> {NoCall} \cup [key : Keys, now : Nat]]
  /\ \A c \in HitThreads : calls[c] # NoCall =>
       calls[c].now <= monotonic /\ monotonic - calls[c].now <= HitDelay
  /\ allowed \in [Keys -> Seq(Nat)]
  /\ \A k \in Keys : Tracks(Deque(k), allowed[k], monotonic) /\ Spaced(allowed[k])

\* What is left of a deque: the hits from some place on, after expired ones.
LEMMA RecentIsSuffix ==
  ASSUME NEW k, NEW time \in Nat, Deque(k) \in Seq(Nat)
  PROVE  \E n \in 0 .. Len(Deque(k)) :
           /\ Recent(k, time) \in Seq(Nat) /\ Len(Recent(k, time)) = Len(Deque(k)) - n
           /\ \A p \in 1 .. Len(Deque(k)) - n : Recent(k, time)[p] = Deque(k)[n + p]
           /\ \A p \in 1 .. n : time - Deque(k)[p] > window_s
<1> DEFINE deque == Deque(k)
           kept == {i \in DOMAIN deque : ~Expired(deque[i], time)}
           first == CHOOSE i \in kept : \A j \in kept : i <= j
<1>1. /\ Len(deque) \in Nat /\ DOMAIN deque = 1 .. Len(deque)
      /\ \A i \in 1 .. Len(deque) : deque[i] \in Nat
  OBVIOUS
<1>2. Recent(k, time) = IF kept = {} THEN <<>> ELSE SubSeq(deque, first, Len(deque))
  BY DEF Recent, Deque
<1>3. CASE kept = {}
  <2>1. Recent(k, time) = <<>> /\ <<>> \in Seq(Nat) /\ Len(<<>>) = 0
    BY <1>2, <1>3
  <2>2. \A p \in 1 .. Len(deque) : time - deque[p] > window_s
    BY <1>1, <1>3 DEF Expired
  <2>3. Len(deque) \in 0 .. Len(deque) /\ Len(deque) - Len(deque) = 0 /\ 1 .. 0 = {}
    BY <1>1
  <2> HIDE DEF deque
  <2>4. /\ Len(Recent(k, time)) = Len(deque) - Len(deque)
        /\ \A p \in 1 .. Len(deque) - Len(deque) : Recent(k, time)[p] = deque[Len(deque) + p]
    BY <2>1, <2>3
  <2>5. QED BY <2>1, <2>2, <2>3, <2>4 DEF deque
<1>4. CASE kept # {}
  <2>1. \E i \in kept : \A j \in kept : i <= j
    <3>1. kept \subseteq Nat
      BY <1>1
    <3>2. PICK i \in kept : \A j \in kept : ~ (<<j, i>> \in OpToRel(<, Nat))
      BY <1>4, <3>1, WFMin, NatLessThanWellFounded
    <3> HIDE DEF kept
    <3>3. \A j \in kept : ~(j < i)
      BY <3>1, <3>2 DEF OpToRel
    <3>4. QED BY <3>1, <3>3
  <2>2. first \in kept /\ \A j \in kept : first <= j
    BY <2>1
  <2> HIDE DEF first
  <2>3. first \in 1 .. Len(deque) /\ \A p \in 1 .. first - 1 : p \notin kept
    <3>1. kept \subseteq 1 .. Len(deque)
      BY <1>1
    <3> HIDE DEF kept, deque
    <3>2. first \in 1 .. Len(deque) /\ Len(deque) \in Nat
      BY <1>1, <2>2, <3>1
    <3>3. QED BY <2>2, <3>2
  <2>4. \A p \in 1 .. first - 1 : time - deque[p] > window_s
    BY <1>1, <2>3 DEF Expired
  <2> HIDE DEF kept
  <2>5. \A i \in first .. Len(deque) : deque[i] \in Nat
    BY <1>1, <2>3
  <2> HIDE DEF deque
  <2>6. /\ SubSeq(deque, first, Len(deque)) \in Seq(Nat)
        /\ Len(SubSeq(deque, first, Len(deque))) =
             IF first <= Len(deque) THEN Len(deque) - first + 1 ELSE 0
        /\ \A i \in 1 .. Len(deque) - first + 1 :
             SubSeq(deque, first, Len(deque))[i] = deque[first + i - 1]
    BY <1>1, <2>3, <2>5, SubSeqProperties
  <2> DEFINE recent == SubSeq(deque, first, Len(deque))  n == first - 1
  <2>7. recent = Recent(k, time)
    BY <1>2, <1>4
  <2> HIDE DEF recent
  <2>8. /\ recent \in Seq(Nat) /\ n \in 0 .. Len(deque) /\ Len(recent) = Len(deque) - n
        /\ \A p \in 1 .. Len(deque) - n : recent[p] = deque[n + p]
    <3>1. Len(recent) = Len(deque) - n /\ n \in 0 .. Len(deque) /\ recent \in Seq(Nat)
      BY <1>1, <2>3, <2>6 DEF recent
    <3>2. ASSUME NEW p \in 1 .. Len(deque) - n PROVE recent[p] = deque[n + p]
      <4>1. p \in 1 .. Len(deque) - first + 1 /\ first + p - 1 = n + p
        BY <1>1, <2>3
      <4>2. recent[p] = deque[first + p - 1]
        BY <2>6, <4>1 DEF recent
      <4>3. QED BY <4>1, <4>2
    <3>3. QED BY <3>1, <3>2
  <2>9. QED BY <2>4, <2>7, <2>8 DEF deque
<1>5. QED BY <1>3, <1>4

LEMMA EmptyTracks == ASSUME NEW time \in Nat PROVE Tracks(<<>>, <<>>, time) /\ Spaced(<<>>)
<1>1. <<>> \in Seq(Nat) /\ Len(<<>>) = 0 /\ DOMAIN <<>> = {}
  OBVIOUS
<1>2. QED BY <1>1 DEF Tracks, Spaced

LEMMA TimeTracks ==
  ASSUME NEW time \in Nat, NEW deque, NEW passed, Tracks(deque, passed, time)
  PROVE  Tracks(deque, passed, time + 1)
BY LimiterAssumption DEF Tracks

\* Forgetting expired hits loses none that passed within the window.
LEMMA TrimTracks ==
  ASSUME NEW time \in Nat, NEW deque, NEW passed, Tracks(deque, passed, time),
         NEW now \in Nat, now <= time, NEW n \in 0 .. Len(deque), NEW recent \in Seq(Nat),
         Len(recent) = Len(deque) - n,
         \A p \in 1 .. Len(deque) - n : recent[p] = deque[n + p],
         \A p \in 1 .. n : now - deque[p] > window_s
  PROVE  Tracks(recent, passed, time)
<1> DEFINE lost == Len(passed) - Len(deque)
<1>1. /\ Len(deque) \in Nat /\ Len(passed) \in Nat /\ lost \in Nat /\ Len(recent) \in Nat
      /\ \A p \in 1 .. Len(deque) : deque[p] \in Nat
      /\ \A p \in 1 .. Len(passed) : passed[p] \in Nat
      /\ HitDelay \in Nat /\ window_s \in Nat
  BY LimiterAssumption DEF Tracks
<1>2. /\ \A p \in 1 .. Len(deque) : passed[lost + p] - HitDelay <= deque[p]
      /\ \A j \in 1 .. lost : time - passed[j] > window_s - HitDelay
  BY DEF Tracks
<1>3. Len(passed) - Len(recent) = lost + n
  BY <1>1
<1>4. ASSUME NEW p \in 1 .. Len(recent) PROVE passed[lost + n + p] - HitDelay <= recent[p]
  <2>1. n + p \in 1 .. Len(deque) /\ lost + (n + p) = lost + n + p
    BY <1>1
  <2>2. QED BY <1>2, <2>1
<1>5. ASSUME NEW j \in 1 .. lost + n PROVE time - passed[j] > window_s - HitDelay
  <2>1. CASE j \in 1 .. lost
    BY <1>2, <2>1
  <2>2. CASE j \notin 1 .. lost
    <3>1. j - lost \in 1 .. n /\ j - lost \in 1 .. Len(deque) /\ lost + (j - lost) = j
          /\ j \in 1 .. Len(passed)
      BY <1>1, <2>2
    <3>2. now - deque[j - lost] > window_s /\ passed[j] - HitDelay <= deque[j - lost]
      BY <1>2, <3>1
    <3>3. deque[j - lost] \in Nat /\ passed[j] \in Nat
      BY <1>1, <3>1
    <3>4. ASSUME NEW x \in Nat, NEW y \in Nat, now - x > window_s, y - HitDelay <= x
          PROVE  time - y > window_s - HitDelay
      BY <1>1, <3>4
    <3>5. QED BY <3>2, <3>3, <3>4
  <2>3. QED BY <2>1, <2>2
<1> HIDE DEF lost
<1>6. Len(recent) <= Len(passed)
  BY <1>1 DEF lost
<1>7. passed \in Seq(Nat)
  BY DEF Tracks
<1>8. QED BY <1>3, <1>4, <1>5, <1>6, <1>7 DEF Tracks

\* A hit that passes while there is room for it.
LEMMA PassTracks ==
  ASSUME NEW time \in Nat, NEW recent, NEW passed, Tracks(recent, passed, time), Spaced(passed),
         Len(recent) < limit, NEW now \in Nat, time - now <= HitDelay
  PROVE  Tracks(Append(recent, now), Append(passed, time), time) /\ Spaced(Append(passed, time))
<1> DEFINE deque == Append(recent, now)  all == Append(passed, time)
           d == Len(recent)  a == Len(passed)
<1>1. /\ d \in Nat /\ a \in Nat /\ d <= a /\ recent \in Seq(Nat) /\ passed \in Seq(Nat)
      /\ \A j \in 1 .. a : passed[j] \in Nat
      /\ HitDelay \in Nat /\ window_s \in Nat /\ limit \in Nat
  BY LimiterAssumption DEF Tracks
<1>2. /\ deque \in Seq(Nat) /\ all \in Seq(Nat) /\ Len(deque) = d + 1 /\ Len(all) = a + 1
      /\ (\A p \in 1 .. d : deque[p] = recent[p]) /\ deque[d + 1] = now
      /\ (\A j \in 1 .. a : all[j] = passed[j]) /\ all[a + 1] = time
  BY <1>1
<1>3. /\ \A p \in 1 .. d : passed[a - d + p] - HitDelay <= recent[p]
      /\ \A j \in 1 .. a - d : time - passed[j] > window_s - HitDelay
  BY DEF Tracks
<1> HIDE DEF deque, all, d, a
<1>4. Len(all) - Len(deque) = a - d
  BY <1>1, <1>2
<1>5. ASSUME NEW p \in 1 .. d + 1 PROVE all[a - d + p] - HitDelay <= deque[p]
  <2>1. CASE p = d + 1
    BY <1>1, <1>2, <2>1
  <2>2. CASE p # d + 1
    <3>1. p \in 1 .. d /\ a - d + p \in 1 .. a
      BY <1>1, <2>2
    <3>2. QED BY <1>2, <1>3, <3>1
  <2>3. QED BY <2>1, <2>2
<1>6. ASSUME NEW j \in 1 .. a - d PROVE time - all[j] > window_s - HitDelay
  <2>1. j \in 1 .. a
    BY <1>1
  <2>2. QED BY <1>2, <1>3, <2>1
<1>7. Tracks(deque, all, time)
  BY <1>1, <1>2, <1>4, <1>5, <1>6 DEF Tracks
<1>8. Spaced(all)
  <2> SUFFICES ASSUME NEW i \in 1 .. a + 1, NEW j \in 1 .. a + 1, i + limit <= j
               PROVE  all[j] - all[i] > window_s - HitDelay
    BY <1>2 DEF Spaced
  <2>1. CASE j = a + 1
    <3>1. i \in 1 .. a - d
      BY <1>1, <2>1 DEF d
    <3>2. QED BY <1>2, <1>6, <2>1, <3>1
  <2>2. CASE j # a + 1
    <3>1. i \in 1 .. a /\ j \in 1 .. a
      BY <1>1, <2>2
    <3>2. i \in DOMAIN passed /\ j \in DOMAIN passed
      BY <1>1, <3>1 DEF a
    <3>3. passed[j] - passed[i] > window_s - HitDelay
      BY <3>2 DEF Spaced
    <3>4. QED BY <1>2, <3>1, <3>3
  <2>3. QED BY <2>1, <2>2
<1>9. QED BY <1>7, <1>8 DEF deque, all

LEMMA LInitHolds == LInit => LInv
<1> SUFFICES ASSUME LInit PROVE LInv
  OBVIOUS
<1>1. \A k : Deque(k) = <<>>
  <2>1. hits = <<>> /\ DOMAIN <<>> = {}
    BY DEF LInit
  <2>2. QED BY <2>1 DEF Deque
<1>2. <<>> \in Seq(Nat)
  OBVIOUS
<1>3. QED BY <1>1, <1>2, EmptyTracks DEF LInit, LInv

LEMMA AllowKeeps ==
  ASSUME LInv, NEW c \in HitThreads, Allow(c)
  PROVE  LInv'
<1> DEFINE k == calls[c].key  now == calls[c].now  recent == Recent(k, now)
           table == With(hits, k, Append(recent, now))
<1>1. /\ k \in Keys /\ now \in Nat /\ now <= monotonic /\ monotonic - now <= HitDelay
      /\ monotonic \in Nat /\ allowed \in [Keys -> Seq(Nat)]
      /\ Tracks(Deque(k), allowed[k], monotonic) /\ Spaced(allowed[k])
  <2>1. calls[c] \in [key : Keys, now : Nat] /\ calls[c] # NoCall
    BY DEF Allow, LInv
  <2>2. QED BY <2>1 DEF LInv
<1>2. PICK n \in 0 .. Len(Deque(k)) :
        /\ recent \in Seq(Nat) /\ Len(recent) = Len(Deque(k)) - n
        /\ \A p \in 1 .. Len(Deque(k)) - n : recent[p] = Deque(k)[n + p]
        /\ \A p \in 1 .. n : now - Deque(k)[p] > window_s
  BY <1>1, RecentIsSuffix DEF Tracks
<1>3. Tracks(recent, allowed[k], monotonic)
  BY <1>1, <1>2, TrimTracks
<1>4. /\ calls' = [calls EXCEPT ![c] = NoCall] /\ monotonic' = monotonic
      /\ \/ Len(recent) >= limit /\ hits' = With(hits, k, recent) /\ allowed' = allowed
         \/ /\ ~(Len(recent) >= limit)
            /\ hits' = Without(table, Silent(table))
            /\ allowed' = [allowed EXCEPT ![k] = Append(@, monotonic)]
  BY DEF Allow
<1>5. /\ calls' \in [HitThreads -> {NoCall} \cup [key : Keys, now : Nat]]
      /\ \A d \in HitThreads : calls'[d] # NoCall => calls'[d] = calls[d]
  BY <1>4 DEF LInv
<1> HIDE DEF k, now, recent, table
<1>6. CASE Len(recent) >= limit /\ hits' = With(hits, k, recent) /\ allowed' = allowed
  <2>1. \A j \in Keys : Deque(j)' = IF j = k THEN recent ELSE Deque(j)
    BY <1>6 DEF Deque, With
  <2>2. QED BY <1>1, <1>3, <1>4, <1>5, <1>6, <2>1 DEF LInv
<1>7. CASE /\ ~(Len(recent) >= limit)
           /\ hits' = Without(table, Silent(table))
           /\ allowed' = [allowed EXCEPT ![k] = Append(@, monotonic)]
  <2>1. \A j : j \in Silent(table) => table[j] = <<>>
    BY DEF Silent
  <2>2. \A j \in Keys : Deque(j)' = IF j \in DOMAIN table THEN table[j] ELSE <<>>
    BY <1>7, <2>1 DEF Deque, Without
  <2>3. \A j \in Keys : Deque(j)' = IF j = k THEN Append(recent, now) ELSE Deque(j)
    BY <2>2 DEF Deque, With, table
  <2>4. \A j \in Keys : allowed'[j] = IF j = k THEN Append(allowed[k], monotonic) ELSE allowed[j]
    BY <1>1, <1>7
  <2>5. Len(recent) < limit
    BY <1>2, <1>7, LimiterAssumption
  <2>6. /\ Tracks(Append(recent, now), Append(allowed[k], monotonic), monotonic)
        /\ Spaced(Append(allowed[k], monotonic))
    BY <1>1, <1>3, <2>5, PassTracks
  <2>7. \A j \in Keys : Tracks(Deque(j)', allowed'[j], monotonic') /\ Spaced(allowed'[j])
    BY <1>4, <2>3, <2>4, <2>6 DEF LInv
  <2>8. allowed' \in [Keys -> Seq(Nat)]
    BY <1>1, <1>7
  <2>9. QED BY <1>1, <1>4, <1>5, <2>7, <2>8 DEF LInv
<1>8. QED BY <1>4, <1>6, <1>7

LEMMA LNextKeeps == LInv /\ [LNext]_lvars => LInv'
<1> SUFFICES ASSUME LInv, [LNext]_lvars PROVE LInv'
  OBVIOUS
<1>1. ASSUME NEW c \in HitThreads, NEW k \in Keys, Reads(c, k) PROVE LInv'
  <2> DEFINE call == [key |-> k, now |-> monotonic]
  <2>1. call \in [key : Keys, now : Nat] /\ call.now = monotonic /\ HitDelay \in Nat
    BY LimiterAssumption DEF LInv
  <2>2. /\ UNCHANGED <<monotonic, hits, allowed>> /\ calls' = [calls EXCEPT ![c] = call]
    BY <1>1 DEF Reads
  <2> HIDE DEF call
  <2>3. /\ calls' \in [HitThreads -> {NoCall} \cup [key : Keys, now : Nat]]
        /\ \A d \in HitThreads : calls'[d] \in {calls[d], call}
    BY <2>1, <2>2 DEF LInv
  <2>4. \A j \in Keys : Deque(j)' = Deque(j)
    BY <2>2 DEF Deque
  <2>5. QED BY <2>1, <2>2, <2>3, <2>4 DEF LInv
<1>2. ASSUME NEW k \in Keys, Reset(k) PROVE LInv'
  <2>1. /\ hits' = Without(hits, {k}) /\ allowed' = [allowed EXCEPT ![k] = <<>>]
        /\ UNCHANGED <<monotonic, calls>>
    BY <1>2 DEF Reset
  <2>2. \A j \in Keys : Deque(j)' = IF j = k THEN <<>> ELSE Deque(j)
    BY <2>1 DEF Deque, Without
  <2>3. <<>> \in Seq(Nat)
    OBVIOUS
  <2>4. /\ allowed' \in [Keys -> Seq(Nat)]
        /\ \A j \in Keys : allowed'[j] = IF j = k THEN <<>> ELSE allowed[j]
    BY <2>1, <2>3 DEF LInv
  <2>5. QED BY <2>1, <2>2, <2>4, EmptyTracks DEF LInv
<1>3. CASE Elapses
  <2>1. /\ monotonic' = monotonic + 1 /\ UNCHANGED <<hits, calls, allowed>>
        /\ \A c \in HitThreads : calls[c] # NoCall => monotonic - calls[c].now < HitDelay
    BY <1>3 DEF Elapses
  <2>2. \A j \in Keys : Deque(j)' = Deque(j)
    BY <2>1 DEF Deque
  <2>3. \A j \in Keys : Tracks(Deque(j), allowed[j], monotonic + 1)
    BY TimeTracks DEF LInv
  <2>4. \A c \in HitThreads : calls[c] # NoCall =>
          calls[c].now <= monotonic + 1 /\ monotonic + 1 - calls[c].now <= HitDelay
    <3>1. \A c \in HitThreads : calls[c] # NoCall => calls[c].now \in Nat /\ calls[c].now <= monotonic
      BY DEF LInv
    <3>2. monotonic \in Nat /\ HitDelay \in Nat
      BY LimiterAssumption DEF LInv
    <3>3. QED BY <2>1, <3>1, <3>2
  <2>5. QED BY <2>1, <2>2, <2>3, <2>4 DEF LInv
<1>4. CASE UNCHANGED lvars
  BY <1>4 DEF lvars, LInv, Deque
<1>5. QED BY <1>1, <1>2, <1>3, <1>4, AllowKeeps DEF LNext

\* SlidingWindowLimiter: at most `limit` hits of an address pass in any window, for any
\* limit, window and number of threads, however late the threads get the lock.
THEOREM LimitHolds == LSpec => []AtMostLimitPerWindow
<1>1. LInv => AtMostLimitPerWindow
  <2> SUFFICES ASSUME LInv, NEW k \in Keys, NEW i \in DOMAIN allowed[k]
               PROVE  Cardinality({j \in i .. Len(allowed[k]) :
                        allowed[k][j] - allowed[k][i] <= window_s - HitDelay}) <= limit
    BY DEF AtMostLimitPerWindow
  <2> DEFINE a == allowed[k]
             near == {j \in i .. Len(a) : a[j] - a[i] <= window_s - HitDelay}
  <2>1. /\ a \in Seq(Nat) /\ DOMAIN a = 1 .. Len(a) /\ Len(a) \in Nat /\ i \in 1 .. Len(a)
        /\ \A j \in 1 .. Len(a) : a[j] \in Nat
        /\ limit \in Nat /\ window_s \in Nat /\ HitDelay \in Nat /\ Spaced(a)
    BY LimiterAssumption DEF LInv
  <2> HIDE DEF a
  <2>2. near \subseteq i .. (i + limit - 1)
    <3> SUFFICES ASSUME NEW j \in near, ~(j <= i + limit - 1) PROVE FALSE
      BY <2>1
    <3>1. j \in 1 .. Len(a) /\ i + limit <= j
      BY <2>1
    <3>2. a[j] - a[i] > window_s - HitDelay
      BY <2>1, <3>1 DEF Spaced
    <3>3. a[j] - a[i] <= window_s - HitDelay
      OBVIOUS
    <3>4. a[j] \in Nat /\ a[i] \in Nat /\ window_s \in Nat /\ HitDelay \in Nat
      BY <2>1, <3>1
    <3> HIDE DEF near
    <3>5. QED BY <3>2, <3>3, <3>4
  <2>3. IsFiniteSet(i .. (i + limit - 1)) /\ Cardinality(i .. (i + limit - 1)) = limit
    <3>1. i \in Int /\ i + limit - 1 \in Int
      BY <2>1
    <3>2. /\ IsFiniteSet(i .. (i + limit - 1))
          /\ Cardinality(i .. (i + limit - 1)) =
               IF i > i + limit - 1 THEN 0 ELSE (i + limit - 1) - i + 1
      BY <3>1, FS_Interval
    <3>3. QED BY <2>1, <3>1, <3>2
  <2> HIDE DEF near
  <2>4. Cardinality(near) <= limit
    BY <2>2, <2>3, FS_Subset
  <2>5. QED BY <2>4 DEF near, a
<1>2. QED BY <1>1, LInitHolds, LNextKeeps, PTL DEF LSpec
=============================================================================
