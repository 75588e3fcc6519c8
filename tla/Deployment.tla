------------------------------- MODULE Deployment -------------------------------
(***************************************************************************)
(* Bringing the system up and down: up.py, which first runs the teardown   *)
(* of down.py, and down.py on its own.  A step of the teardown that fails  *)
(* is only a warning; the last listing of containers decides.  A step of   *)
(* the start that fails ends up.py, and so does the one who started it.    *)
(*                                                                         *)
(* What docker keeps is marked "old" once another program is started: what *)
(* is left of an earlier deployment, whole or partial.                     *)
(***************************************************************************)
EXTENDS FiniteSets

CONSTANTS
  LedgerLayer,    \* containers that startup.sh starts: Fabric, IPFS, the gateways
  AppLayer,       \* containers of the application layer
  Unnamed,        \* containers on the system's networks whose names down.py does not
                  \* know: what building the chaincode leaves behind
  OptionalChecks, \* those of AppLayer whose health check is not required
  ListingFails    \* whether docker may fail to list containers (TRUE or FALSE)

VARIABLES
  docker,   \* the containers: "none", "old" or "new"
  volumes,  \* the volumes, the ledger's among them
  files,    \* the runtime files: the gateway's databases
  command,  \* the program that runs, or ran last
  at,       \* where it is, or how it ended: "done", "up" or "failed"
  targets,  \* the leftover containers it found
  results   \* the health checks it has made: "ok" or "bad"

dvars == <<docker, volumes, files, command, at, targets, results>>

\* KNOWN_CONTAINERS and FABRIC_NAME.
Known      == LedgerLayer \cup AppLayer
Containers == Known \cup Unnamed
Required   == Known \ OptionalChecks
Ended      == {"done", "up", "failed"}

DInit ==
  /\ docker \in [Containers -> {"none", "new"}]
  /\ volumes \in {"none", "new"}
  /\ files \in {"none", "new"}
  /\ command = "none" /\ at = "failed"
  /\ targets = {} /\ results = <<>>

-----------------------------------------------------------------------------

Aged(mark) == IF mark = "new" THEN "old" ELSE mark

\* The pre-flight checks of up.py, or the docker check of down.py, may refuse.
Preflight == {"compose", "failed"}

\* A dry run or a look at the status ends as a refused one does: nothing was done.
Launch(program) ==
  /\ at \in Ended
  /\ command' = program
  /\ at' \in Preflight
  /\ docker' = [c \in Containers |-> Aged(docker[c])]
  /\ volumes' = Aged(volumes) /\ files' = Aged(files)
  /\ targets' = {} /\ results' = <<>>

\* The program is interrupted, or its host is.
Interrupted ==
  /\ at \notin Ended
  /\ at' = "failed"
  /\ UNCHANGED <<docker, volumes, files, command, targets, results>>

\* act: the command removes all of these containers, or fails having removed some.
Removes(scope) ==
  \E removed \in SUBSET scope :
    docker' = [c \in Containers |-> IF c \in removed THEN "none" ELSE docker[c]]

Present == {c \in Containers : docker[c] # "none"}

\* query: an empty list when the command fails.
Lists(list, scope) == list = Present \cap scope \/ (ListingFails /\ list = {})

TeardownStep(from, to) ==
  /\ at = from /\ at' = to
  /\ UNCHANGED <<command, results>>

\* docker compose down --volumes, for each of the stacks.
ComposeDown ==
  /\ TeardownStep("compose", "fabric")
  /\ Removes(Known)
  /\ volumes' \in {volumes, "none"}
  /\ UNCHANGED <<files, targets>>

\* deploy.sh down, where the test network is provisioned.
FabricDown ==
  /\ TeardownStep("fabric", "list")
  /\ Removes(LedgerLayer)
  /\ volumes' \in {volumes, "none"}
  /\ UNCHANGED <<files, targets>>

\* The containers on the networks, and those with a known name.
ListsLeftovers ==
  /\ TeardownStep("list", "leftovers")
  /\ \E attached, named \in SUBSET Containers :
       Lists(attached, Containers) /\ Lists(named, Known) /\ targets' = attached \cup named
  /\ UNCHANGED <<docker, volumes, files>>

RemovesLeftovers ==
  /\ TeardownStep("leftovers", "volumes")
  /\ Removes(targets)
  /\ UNCHANGED <<volumes, files, targets>>

RemovesVolumes ==
  /\ TeardownStep("volumes", "files")
  /\ volumes' \in {volumes, "none"}
  /\ UNCHANGED <<docker, files, targets>>

\* remove_path raises what the file system refuses, and that ends the program.
DeletesFiles ==
  /\ \/ TeardownStep("files", "still") /\ files' = "none"
     \/ TeardownStep("files", "failed") /\ files' = files
  /\ UNCHANGED <<docker, volumes, targets>>

\* Mutant: the names are matched with FABRIC_NAME alone, without KNOWN_CONTAINERS.
Still_fabricOnly(list) == list \cap LedgerLayer
Still(list) == list \cap Known

\* teardown returns 0 and down.py is done, or up.py goes on; or it returns 1.
TeardownReturns ==
  /\ \E list \in SUBSET Containers :
       /\ Lists(list, Containers)
       /\ TeardownStep("still", IF Still(list) # {} THEN "failed"
                                ELSE IF command = "up" THEN "provision" ELSE "done")
  /\ UNCHANGED <<docker, volumes, files, targets>>

-----------------------------------------------------------------------------

\* What is there under its name already is kept or replaced.
BringsUp(scope) ==
  \E started \in SUBSET scope :
    docker' = [c \in Containers |-> IF c \in started THEN "new" ELSE docker[c]]

Running(scope) == \A c \in scope : docker'[c] # "none"

\* run ends the program when the command fails, with some of it started; it may
\* have started others on its way.
StartStep(from, to, scope, others) ==
  /\ at = from
  /\ BringsUp(scope \cup others)
  /\ at' = "failed" \/ (Running(scope) /\ at' = to)
  /\ UNCHANGED <<command, targets, results>>

\* provision_fabric: the test network, its tools and images, unless they are there.
Provision ==
  /\ at = "provision"
  /\ at' \in {"startup", "failed"}
  /\ UNCHANGED <<docker, volumes, files, command, targets, results>>

\* gen-secrets.sh, ensure-networks.sh and startup.sh --orgs; with --demo, demo.sh up.
Startup ==
  /\ StartStep("startup", "apps", LedgerLayer, Unnamed)
  /\ volumes' \in IF volumes = "none" THEN {"none", "new"} ELSE {volumes}
  /\ files' \in IF files = "none" THEN {"none", "new"} ELSE {files}

\* docker compose up -d; the flagging engine and the explorer may not be asked for.
ComposeUp ==
  /\ \E skipped \in SUBSET OptionalChecks : StartStep("apps", "health", AppLayer \ skipped, {})
  /\ UNCHANGED <<volumes, files>>

\* wait_for: a container that is there answers in time, or does not.
HealthCheck(c) ==
  /\ at = "health"
  /\ c \notin DOMAIN results
  /\ \E result \in IF docker[c] = "none" THEN {"bad"} ELSE {"ok", "bad"} :
       results' = [d \in DOMAIN results \cup {c} |-> IF d = c THEN result ELSE results[d]]
  /\ UNCHANGED <<docker, volumes, files, command, at, targets>>

Failed == {c \in Required : results[c] = "bad"}

\* The claims of the review queue and the smoke test come before this and do not
\* change how up.py ends.
Summary ==
  /\ at = "health"
  /\ Required \subseteq DOMAIN results
  /\ at' = IF Failed # {} THEN "failed" ELSE "up"
  /\ UNCHANGED <<docker, volumes, files, command, targets, results>>

DNext ==
  \/ Launch("up") \/ Launch("down") \/ Interrupted
  \/ ComposeDown \/ FabricDown \/ ListsLeftovers \/ RemovesLeftovers \/ RemovesVolumes
  \/ DeletesFiles \/ TeardownReturns
  \/ Provision \/ Startup \/ ComposeUp \/ Summary
  \/ \E c \in Known : HealthCheck(c)

DSpec == DInit /\ [][DNext]_dvars

-----------------------------------------------------------------------------
(* Properties. *)

\* What up.py and down.py say is so.  Once the teardown has returned 0, however
\* many of its commands failed, no container of an earlier deployment is left under
\* any name the system gives its containers, and none of its accounts, documents
\* and audit files.  It does not know of the volumes, nor of the unnamed leftovers on
\* the networks (removed with the others, but not looked for again), and it takes
\* docker to be able to list containers.  When "System is up", every required
\* service has answered, from a container that this up.py started.
ExitIsTruthful ==
  /\ at \in {"done", "provision", "startup", "apps", "health", "up"} =>
       files # "old" /\ \A c \in Known : docker[c] # "old"
  /\ at = "up" => \A c \in Required : docker[c] = "new" /\ results[c] = "ok"
=============================================================================
