--------------------------------- MODULE ApiKeys ---------------------------------
(***************************************************************************)
(* The API keys of the gateway, rows of the table api_keys of offchain.db. *)
(* Three programs write them: the gateway (apply_org), bootstrap-keys.sh   *)
(* at every start of a deployment, and demo-seed.py, which mints keys for  *)
(* the voters of its run.  A database older than the table has its keys in *)
(* org_keys; whoever opens it first moves them.                            *)
(*                                                                         *)
(* A key is a random token, or one of the well-known ones that go with an  *)
(* organisation's number.                                                  *)
(***************************************************************************)
EXTENDS Naturals, FiniteSets

CONSTANTS
  KeyOrgs,    \* the numbers of the organisations there may ever be (up.py: at most 30,
              \* and so many well-known keys there are)
  Tokens,     \* the random keys
  SeedRuns    \* runs of demo-seed.py, that may overlap

DevKey(n) == <<"key-org", n>>
DevKeys   == {DevKey(n) : n \in KeyOrgs}

ASSUME RandomAssumption == Tokens \cap DevKeys = {}

KeyIds    == Tokens \cup DevKeys

VARIABLES
  keys,       \* rows of api_keys, by the key: state and label
  plaintext,  \* what is left in org_keys; {} as well when there is no such table
  size,       \* how many organisations the deployment has
  secured,    \* whether the last bootstrap was one without well-known keys
  seeding,    \* where each run of demo-seed.py is
  settled     \* the runs that have come to their end, and no other has begun since

kvars == <<keys, plaintext, size, secured, seeding, settled>>

NoKey        == [state |-> "none", label |-> "none"]
Live(label)  == [state |-> "live", label |-> label]
IsLive(k)    == keys[k].state = "live"
Revoke(K)    == [k \in KeyIds |-> IF k \in K /\ keys[k] # NoKey
                                   THEN [keys[k] EXCEPT !.state = "revoked"] ELSE keys[k]]

AKInit ==
  /\ keys = [k \in KeyIds |-> NoKey]
  /\ plaintext \in SUBSET DevKeys
  /\ size = 0
  /\ secured = FALSE
  /\ seeding = [s \in SeedRuns |-> "idle"]
  /\ settled = TRUE

-----------------------------------------------------------------------------

\* _init, by whatever program opens the database: every row of org_keys, unless
\* the key is known already, and then the table is dropped.
Migrated == [k \in KeyIds |->
  IF k \in plaintext /\ keys[k] = NoKey THEN Live("migrated") ELSE keys[k]]

Opens ==
  /\ plaintext # {}
  /\ keys' = Migrated
  /\ plaintext' = {}
  /\ UNCHANGED <<size, secured, seeding, settled>>

\* bootstrap-keys.sh for n organisations, which has opened the database, with
\* --no-dev-keys: the well-known keys of any number of organisations are revoked.
\* Mutant: those of the organisations of this deployment.
WellKnown_these(n) == {DevKey(i) : i \in {j \in KeyOrgs : j <= n}}
WellKnown(n) == DevKeys

BootstrapSecure(n) ==
  /\ plaintext = {}
  /\ keys' = Revoke(WellKnown(n))
  /\ size' = n /\ secured' = TRUE
  /\ UNCHANGED <<plaintext, seeding, settled>>

\* As in a benchmark: upsert_org_key for each organisation.
BootstrapBenchmark(n) ==
  /\ plaintext = {}
  /\ keys' = [k \in KeyIds |-> IF k \in {DevKey(i) : i \in {j \in KeyOrgs : j <= n}}
                               THEN Live("dev") ELSE keys[k]]
  /\ size' = n /\ secured' = FALSE
  /\ UNCHANGED <<plaintext, seeding, settled>>

\* apply_org: an official asks for a key for a registered organisation.
ApplyOrg(k) ==
  /\ size > 0
  /\ keys[k] = NoKey
  /\ keys' = [keys EXCEPT ![k] = Live("apply")]
  /\ UNCHANGED <<plaintext, size, secured, seeding, settled>>

-----------------------------------------------------------------------------
(* demo-seed.py. *)

\* One transaction, with a key for every organisation but the first.
Mints(s, fresh) ==
  /\ size >= 3
  /\ seeding[s] = "idle"
  /\ Cardinality(fresh) = size - 1
  /\ \A k \in fresh : keys[k] = NoKey
  /\ keys' = [k \in KeyIds |-> IF k \in fresh THEN Live("demo-seed") ELSE keys[k]]
  /\ seeding' = [seeding EXCEPT ![s] = "votes"]
  /\ settled' = FALSE
  /\ UNCHANGED <<plaintext, size, secured>>

\* Mutant: only when every claim and vote went in.
Finally_else == {"done"}
\* The claims and votes are in, or one of the posts raised.
Finally == {"done", "raised"}

\* finally: by their label, so those of an earlier run go as well.
RunEnds(s) ==
  /\ seeding[s] = "votes"
  /\ \E how \in {"done", "raised"} :
       keys' = IF how \in Finally THEN Revoke({k \in KeyIds : keys[k].label = "demo-seed"}) ELSE keys
  /\ seeding' = [seeding EXCEPT ![s] = "ended"]
  /\ settled' = \A t \in SeedRuns \ {s} : seeding[t] # "votes"
  /\ UNCHANGED <<plaintext, size, secured>>

\* The process is killed before it comes to that, or its UPDATE raises: the database
\* is locked for longer than it waits.
Killed(s) ==
  /\ seeding[s] = "votes"
  /\ seeding' = [seeding EXCEPT ![s] = "ended"]
  /\ UNCHANGED <<keys, plaintext, size, secured, settled>>

AKNext ==
  \/ Opens
  \/ \E n \in KeyOrgs : BootstrapSecure(n) \/ BootstrapBenchmark(n)
  \/ \E k \in Tokens : ApplyOrg(k)
  \/ \E s \in SeedRuns : (\E fresh \in SUBSET Tokens : Mints(s, fresh)) \/ RunEnds(s) \/ Killed(s)

AKSpec == AKInit /\ [][AKNext]_kvars

-----------------------------------------------------------------------------
(* Properties. *)

\* Once a deployment has been started without the well-known keys none of them
\* is accepted, whatever earlier deployments on the same database, larger or
\* older ones included, had left.
NoWellKnownKeys == secured => \A k \in DevKeys : ~IsLive(k)

\* "short-lived keys minted for this run and revoked at the end": when a run has
\* come to its end, its UPDATE included, and none is under way no key of any run is
\* accepted, those of runs that were killed or could not write included.
SeedingKeysEnd == settled => \A k \in KeyIds : IsLive(k) => keys[k].label # "demo-seed"
=============================================================================
