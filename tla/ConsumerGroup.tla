----------------------------- MODULE ConsumerGroup -----------------------------
(***************************************************************************)
(* The consumers of all pods on one ingest topic, as a Kafka consumer      *)
(* group (internal/infra/kafka/client.go): partitions move between pods,   *)
(* new ones appear when the topic grows, and a batch in flight is inserted *)
(* and committed by the pod that fetched it wherever its partition is by   *)
(* then.  A pod's pipeline (ConsumerPipeline) appears here as a queue of   *)
(* batches: finished in any order, stored or lost, and committed in the    *)
(* order of their fetch.  The lag poller (observability.go) reads the      *)
(* group's offsets meanwhile, in three requests.  The group protocol and   *)
(* the brokers are external.                                               *)
(***************************************************************************)
EXTENDS Topics, Sequences

CONSTANTS
    LogLen,         \* bound on the records of each partition
    MaxSamples,     \* bound on the samples of the lag poller
    MaxJobs         \* batches a pod holds

ASSUME GroupAssumption ==
    LogLen \in [1 .. MaxPartitions -> Nat] /\ MaxSamples \in Nat /\ MaxJobs \in Nat

VARIABLES
    log,            \* records of each partition
    owner,          \* the set that holds the pod a partition is assigned to
    epoch,          \* assignments of each partition so far
    position,       \* the offset the owner fetches next from, less one
    jobs,           \* batches each pod holds, in the order of their fetch
    stored,         \* <<partition, offset>>: inserted, or parked in the DLQ
    lost,           \* <<partition, offset>>: of a batch that finished as neither
    committed,      \* the committed offset of each partition
    committer,      \* history: the assignment that committed it
    step,           \* where the lag poller is in a sample
    listed,         \* partitions that the sample's metadata response listed
    sampled,        \* its first response: the offset of each partition that it names
    excused,        \* history: partitions whose commit went back after the first read,
                    \* or whose end offset was an error or was left out
    gauge,          \* the lag reported last; -1 while none was
    samples         \* samples that set gauges

groupVars == <<owner, epoch, position, jobs, stored, lost, committed, committer>>
lagVars == <<step, listed, sampled, excused, gauge, samples>>
vars == <<topicVars, log, groupVars, lagVars>>

Partitions == 1 .. MaxPartitions
Exists(q) == q <= parts[1]

Init ==
    /\ TopicsInit
    /\ log = [q \in Partitions |-> 0]
    /\ owner = [q \in Partitions |-> {}]
    /\ epoch = [q \in Partitions |-> 0]
    /\ position = [q \in Partitions |-> 0]
    /\ jobs = [p \in Pods |-> <<>>]
    /\ stored = {}
    /\ lost = {}
    /\ committed = [q \in Partitions |-> 0]
    /\ committer = [q \in Partitions |-> 0]
    /\ step = "idle"
    /\ listed = 0
    /\ sampled = <<>>
    /\ excused = {}
    /\ gauge = [q \in Partitions |-> -1]
    /\ samples = 0

-----------------------------------------------------------------------------
(* The group                                                               *)

Produce(q) ==
    /\ Exists(q)
    /\ log[q] < LogLen[q]
    /\ log' = [log EXCEPT ![q] = @ + 1]
    /\ UNCHANGED <<topicVars, groupVars, lagVars>>

\* A partition that nobody owns goes to a pod, which starts at the commit.
Assign(p, q) ==
    /\ At(p, "ready")
    /\ Exists(q) /\ owner[q] = {}
    /\ owner' = [owner EXCEPT ![q] = {p}]
    /\ epoch' = [epoch EXCEPT ![q] = @ + 1]
    /\ position' = [position EXCEPT ![q] = committed[q]]
    /\ UNCHANGED <<topicVars, log, jobs, stored, lost, committed, committer, lagVars>>

\* A cooperative rebalance takes the partition away; what was fetched stays.
Revoke(q) ==
    /\ owner[q] # {}
    /\ faults < MaxFaults
    /\ faults' = faults + 1
    /\ owner' = [owner EXCEPT ![q] = {}]
    /\ UNCHANGED <<target, parts, stage, turn, log, epoch, position, jobs, stored, lost, committed, committer, lagVars>>

Fetch(p, q) ==
    /\ owner[q] = {p}
    /\ Len(jobs[p]) < MaxJobs
    /\ \E to \in position[q] + 1 .. log[q] :
        /\ jobs' = [jobs EXCEPT ![p] =
             Append(@, [part |-> q, from |-> position[q] + 1, to |-> to, epoch |-> epoch[q],
                        done |-> FALSE])]
        /\ position' = [position EXCEPT ![q] = to]
    /\ UNCHANGED <<topicVars, log, owner, epoch, stored, lost, committed, committer, lagVars>>

RecordsOf(job) == {job.part} \X (job.from .. job.to)

\* A worker finishes a batch: inserted or parked, or, when the DLQ refuses it
\* too or its handler panics, lost.
Finish(p, i) ==
    /\ i \in 1 .. Len(jobs[p])
    /\ ~jobs[p][i].done
    /\ jobs' = [jobs EXCEPT ![p][i].done = TRUE]
    /\ \/ stored' = stored \cup RecordsOf(jobs[p][i]) /\ UNCHANGED <<lost, faults>>
       \/ /\ faults < MaxFaults
          /\ faults' = faults + 1
          /\ lost' = lost \cup RecordsOf(jobs[p][i])
          /\ UNCHANGED stored
    /\ UNCHANGED <<target, parts, stage, turn, log, owner, epoch, position, committed, committer, lagVars>>

\* The broker checks the member, and not who owns the partition.
Accepted(job) ==
    /\ committed' = [committed EXCEPT ![job.part] = job.to]
    /\ committer' = [committer EXCEPT ![job.part] = job.epoch]
    /\ excused' = IF step = "read" /\ job.to < committed[job.part]
                  THEN excused \cup {job.part} ELSE excused

\* Mutant of Commit: batches are committed as they finish.
BugCommit(p) ==
    \E i \in 1 .. Len(jobs[p]) :
        /\ jobs[p][i].done
        /\ jobs' = [jobs EXCEPT ![p] = SubSeq(@, 1, i - 1) \o SubSeq(@, i + 1, Len(@))]
        /\ Accepted(jobs[p][i])
        /\ UNCHANGED <<topicVars, log, owner, epoch, position, stored, lost, step, listed, sampled, gauge, samples>>

\* The committer commits the oldest batch, with or without success.
Commit(p) ==
    /\ jobs[p] # <<>>
    /\ Head(jobs[p]).done
    /\ jobs' = [jobs EXCEPT ![p] = Tail(@)]
    /\ Accepted(Head(jobs[p])) \/ UNCHANGED <<committed, committer, excused>>
    /\ UNCHANGED <<topicVars, log, owner, epoch, position, stored, lost, step, listed, sampled, gauge, samples>>

\* The pod dies with its batches, and the group takes its partitions back.
Crash(p) ==
    /\ stage[p] # "down"
    /\ faults < MaxFaults
    /\ faults' = faults + 1
    /\ Goto(p, "down")
    /\ jobs' = [jobs EXCEPT ![p] = <<>>]
    /\ owner' = [q \in Partitions |-> IF owner[q] = {p} THEN {} ELSE owner[q]]
    /\ UNCHANGED <<target, parts, turn, log, epoch, position, stored, lost, committed, committer, lagVars>>

-----------------------------------------------------------------------------
(* The lag poller                                                          *)

\* Mutant of FetchOrder: the end offsets first.
BugFetchOrder == <<"ends", "committed">>

\* fetchGroupLag's two reads, after it has listed the partitions.
FetchOrder == <<"committed", "ends">>

\* diffLag: an offset of -1 says that there is no commit, or hides an error.
DiffLag(end, from) ==
    LET lag == IF from < 0 THEN end ELSE end - from
    IN IF lag < 0 THEN 0 ELSE lag

Listed == {q \in Partitions : q <= listed}

\* A response names the listed partitions but those of missing; the error of
\* one in failed is ignored, which leaves -1.
Response(what, missing, failed) ==
    [q \in Listed \ missing |->
        IF q \in failed THEN -1 ELSE IF what = "committed" THEN committed[q] ELSE log[q]]

\* What a read may leave out or answer with an error.
Faulty(what, odd, before) ==
    /\ odd # {} => faults < MaxFaults
    /\ faults' = IF odd = {} THEN faults ELSE faults + 1
    /\ excused' = IF what = "ends" THEN before \cup odd ELSE before

\* The metadata request.  An answer from before a growth is that of an earlier
\* request, and one that lists nothing ends the sample without effect.
SampleStarts ==
    /\ step \in {"idle", "set"}
    /\ samples < MaxSamples
    /\ parts[1] > 0
    /\ step' = "listed"
    /\ listed' = parts[1]
    /\ UNCHANGED <<topicVars, log, groupVars, sampled, excused, gauge, samples>>

SampleReads ==
    /\ step = "listed"
    /\ step' = "read"
    /\ \E missing, failed \in SUBSET Listed :
        /\ Faulty(FetchOrder[1], missing \cup failed, {})
        /\ sampled' = Response(FetchOrder[1], missing, failed)
    /\ UNCHANGED <<target, parts, stage, turn, log, groupVars, listed, gauge, samples>>

\* A partition that the end offsets leave out keeps its gauge, like one that
\* was not listed; one that the commits leave out counts from zero.
Report(ends, commits) ==
    gauge' = [q \in Partitions |->
        IF q \in DOMAIN ends
        THEN DiffLag(ends[q], IF q \in DOMAIN commits THEN commits[q] ELSE 0)
        ELSE gauge[q]]

SampleEnds ==
    /\ step = "read"
    /\ step' = "set"
    /\ \E missing, failed \in SUBSET Listed :
        /\ Faulty(FetchOrder[2], missing \cup failed, excused)
        /\ LET second == Response(FetchOrder[2], missing, failed)
           IN IF FetchOrder[2] = "ends" THEN Report(second, sampled) ELSE Report(sampled, second)
    /\ listed' = 0
    /\ sampled' = <<>>
    /\ samples' = samples + 1
    /\ UNCHANGED <<target, parts, stage, turn, log, groupVars>>

\* A request fails: every gauge keeps its last value.
SampleFails ==
    /\ step \in {"listed", "read"}
    /\ step' = "idle"
    /\ listed' = 0
    /\ sampled' = <<>>
    /\ excused' = {}
    /\ UNCHANGED <<topicVars, log, groupVars, gauge, samples>>

-----------------------------------------------------------------------------
(* Specification                                                           *)

Boots(p) == Provision(p) /\ UNCHANGED <<log, groupVars, lagVars>>
Fails(p) == RequestFails(p) /\ UNCHANGED <<log, groupVars, lagVars>>

Next ==
    \/ \E p \in Pods :
        \/ Boots(p) \/ Fails(p) \/ Crash(p) \/ Commit(p)
        \/ \E q \in Partitions : Assign(p, q) \/ Fetch(p, q)
        \/ \E i \in 1 .. MaxJobs : Finish(p, i)
    \/ \E q \in Partitions : Produce(q) \/ Revoke(q)
    \/ SampleStarts \/ SampleReads \/ SampleEnds \/ SampleFails

Spec == Init /\ [][Next]_vars

\* A pod that is down is restarted, and its boot goes on.
FairSpec == Spec /\ \A p \in Pods : WF_vars(Boots(p))

-----------------------------------------------------------------------------
(* Properties                                                              *)

Jobs == [part : Partitions, from : Nat, to : Nat, epoch : Nat, done : BOOLEAN]

GroupTypes ==
    /\ log \in [Partitions -> Nat]
    /\ owner \in [Partitions -> SUBSET Pods]
    /\ epoch \in [Partitions -> Nat]
    /\ position \in [Partitions -> Nat]
    /\ jobs \in [Pods -> Seq(Jobs)]
    /\ stored \subseteq Partitions \X Nat
    /\ lost \subseteq Partitions \X Nat
    /\ committed \in [Partitions -> Nat]
    /\ committer \in [Partitions -> Nat]

\* A pod goes on with its boot only when every topic has the partitions it
\* wants, whatever pods of the same or another release do meanwhile.
ReadyHasTarget ==
    \A p \in Pods : At(p, "ready") => \A t \in 1 .. NTopics : parts[t] >= target[p]

\* What became of a finished batch: its records are in ClickHouse or in the
\* DLQ, or the failed publish or the panic that lost them was counted.
Accounted == stored \cup lost

\* What the group has committed is accounted for, by whichever pod: a partition
\* that moves while its batches are in flight, and batches of it that finish out
\* of order in two pods, leave no record that nobody has dealt with.
NoSilentLoss == \A q \in Partitions : {q} \X (1 .. committed[q]) \subseteq Accounted

\* A record is accounted for, or in one of the first n batches of a queue.
Covered(record, done, queue, n) ==
    record \in done \/ \E i \in 1 .. n : record \in RecordsOf(queue[i])

\* The strengthening that makes NoSilentLoss inductive: whatever lies before a
\* batch, or before the owner's position, is accounted for or held by that pod
\* in front of it; and what is done is accounted for.
GroupInv ==
    /\ GroupTypes
    /\ NoSilentLoss
    /\ \A p \in Pods : \A i \in 1 .. Len(jobs[p]) :
        LET job == jobs[p][i]
        IN /\ job.done => RecordsOf(job) \subseteq Accounted
           /\ \A o \in 1 .. job.from - 1 : Covered(<<job.part, o>>, Accounted, jobs[p], i - 1)
    /\ \A p \in Pods, q \in Partitions :
        owner[q] = {p} => \A o \in 1 .. position[q] :
            Covered(<<q, o>>, Accounted, jobs[p], Len(jobs[p]))

\* The committed offset goes back only from one assignment's commit to
\* another's: an owner never undoes its own progress, but a late commit of the
\* last owner may undo that of the next, and the other way round.
BackOnlyByHandover ==
    [][\A q \in Partitions : committed'[q] < committed[q] => committer'[q] # committer[q]]_vars

\* A sample never sets the gauge of a partition its metadata response listed
\* below the lag of that moment, unless a late commit moved the offset back
\* after it was read, or the end offset of that partition was an error, which
\* the poller takes for an offset, or was left out, which keeps the old gauge.
\* A partition that is not listed, because the topic grew since, has no claim
\* before the next sample.
LagNotUnderReported ==
    [][step = "read" /\ step' = "set" =>
        \A q \in Listed \ excused' : gauge'[q] >= log[q] - committed[q]]_vars

\* Every pod gets through its boot: a refused growth costs it one start.
AllBoot == \A p \in Pods : []<>At(p, "ready")

=============================================================================
