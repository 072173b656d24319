-------------------------------- MODULE Topics --------------------------------
(***************************************************************************)
(* Topic provisioning (internal/infra/kafka/topics.go): every pod creates  *)
(* the topics it needs at boot and grows those that have fewer partitions  *)
(* than it wants.  Pods of one deployment boot at once, and pods of two    *)
(* releases may want different numbers.  A pod whose provisioning fails    *)
(* exits and is started again.                                             *)
(***************************************************************************)
EXTENDS Integers

CONSTANTS
    Pods,
    NTopics,        \* topics, provisioned in order
    MaxPartitions,  \* the largest number of partitions any pod wants
    MaxFaults       \* bound on crashes, failed requests, lost batches and rebalances

ASSUME TopicsAssumption == NTopics \in Nat \ {0} /\ MaxPartitions \in Nat /\ MaxFaults \in Nat

VARIABLES
    target,         \* the partitions each pod's release wants of every topic
    parts,          \* partitions of each topic; zero while it does not exist
    stage,          \* where each pod is
    turn,           \* the topic a pod is at
    faults          \* faults so far

topicVars == <<target, parts, stage, turn, faults>>

Stages == {"down", "create", "list", "grow", "ready"}

TopicsInit ==
    /\ target \in [Pods -> 1 .. MaxPartitions]
    /\ parts \in [1 .. NTopics -> 0 .. MaxPartitions]
    /\ stage = [p \in Pods |-> "down"]
    /\ turn = [p \in Pods |-> 1]
    /\ faults = 0

At(p, s) == stage[p] = s
Goto(p, s) == stage' = [stage EXCEPT ![p] = s]

\* The next topic of the loop, or the pod goes on with its boot.
NextTopic(p) ==
    IF turn[p] = NTopics
    THEN Goto(p, "ready") /\ UNCHANGED turn
    ELSE Goto(p, "create") /\ turn' = [turn EXCEPT ![p] = @ + 1]

\* EnsureTopics returns an error: the pod exits.
BootFails(p) == Goto(p, "down") /\ UNCHANGED turn

Start(p) ==
    /\ At(p, "down")
    /\ Goto(p, "create")
    /\ turn' = [turn EXCEPT ![p] = 1]
    /\ UNCHANGED <<target, parts, faults>>

\* The topic is new and has what the pod wants.
Create(p) ==
    /\ At(p, "create")
    /\ parts[turn[p]] = 0
    /\ parts' = [parts EXCEPT ![turn[p]] = target[p]]
    /\ NextTopic(p)
    /\ UNCHANGED <<target, faults>>

\* Mutant of CreateExists: an existing topic is taken as it is.
BugCreateExists(p) ==
    /\ At(p, "create")
    /\ parts[turn[p]] > 0
    /\ NextTopic(p)
    /\ UNCHANGED <<target, parts, faults>>

\* TopicAlreadyExists: only then its partitions are counted.
CreateExists(p) ==
    /\ At(p, "create")
    /\ parts[turn[p]] > 0
    /\ Goto(p, "list")
    /\ UNCHANGED <<target, parts, turn, faults>>

\* Mutant of List: more partitions than wanted are an error.
BugList(p) ==
    /\ At(p, "list")
    /\ CASE parts[turn[p]] < target[p] -> Goto(p, "grow") /\ UNCHANGED turn
         [] parts[turn[p]] > target[p] -> BootFails(p)
         [] OTHER                      -> NextTopic(p)
    /\ UNCHANGED <<target, parts, faults>>

\* decidePartitionAction: grow, and never shrink.
List(p) ==
    /\ At(p, "list")
    /\ IF parts[turn[p]] < target[p]
       THEN Goto(p, "grow") /\ UNCHANGED turn
       ELSE NextTopic(p)
    /\ UNCHANGED <<target, parts, faults>>

\* The broker refuses to set a count that the topic already has or exceeds:
\* another pod grew it since this one listed it.
Grow(p) ==
    /\ At(p, "grow")
    /\ IF parts[turn[p]] < target[p]
       THEN /\ parts' = [parts EXCEPT ![turn[p]] = target[p]]
            /\ NextTopic(p)
       ELSE BootFails(p) /\ UNCHANGED parts
    /\ UNCHANGED <<target, faults>>

\* A request fails, applied by the broker or not, or the boot's 30 s run out.
RequestFails(p) ==
    /\ stage[p] \in {"create", "list", "grow"}
    /\ faults < MaxFaults
    /\ faults' = faults + 1
    /\ \/ UNCHANGED parts
       \/ /\ stage[p] # "list"
          /\ parts[turn[p]] < target[p]
          /\ stage[p] = "create" => parts[turn[p]] = 0
          /\ parts' = [parts EXCEPT ![turn[p]] = target[p]]
    /\ BootFails(p)
    /\ UNCHANGED target

Provision(p) == Start(p) \/ Create(p) \/ CreateExists(p) \/ List(p) \/ Grow(p)

=============================================================================
