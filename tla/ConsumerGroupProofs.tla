-------------------------- MODULE ConsumerGroupProofs --------------------------
(* A partition may move between any number of pods at any time: what the   *)
(* group commits is accounted for, as stored or as lost by a batch that    *)
(* finished, and an offset goes back only between two owners.  A pod that  *)
(* boots finds the partitions it wants, and the lag poller never sets the  *)
(* gauge of a partition it listed and got an end offset of below the lag.  *)
EXTENDS ConsumerGroup, TLAPS

USE TopicsAssumption, GroupAssumption

\* What the invariant says beyond types.
HeldInOrder ==
    \A p \in Pods : \A i \in 1 .. Len(jobs[p]) :
        /\ jobs[p][i].done => RecordsOf(jobs[p][i]) \subseteq Accounted
        /\ \A o \in 1 .. jobs[p][i].from - 1 : 
            Covered(<<jobs[p][i].part, o>>, Accounted, jobs[p], i - 1)

OwnersCovered ==
    \A p \in Pods, q \in Partitions :
        owner[q] = {p} => \A o \in 1 .. position[q] : 
            Covered(<<q, o>>, Accounted, jobs[p], Len(jobs[p]))

\* The invariant in its three parts.
LEMMA Parts == GroupInv <=> GroupTypes /\ NoSilentLoss /\ HeldInOrder /\ OwnersCovered
BY DEF GroupInv, HeldInOrder, OwnersCovered

\* The initial state satisfies the invariant.
LEMMA Initial == Init => GroupInv
<1> SUFFICES ASSUME Init PROVE GroupInv
    OBVIOUS
<1>1. jobs \in [Pods -> Seq(Jobs)] /\ \A p \in Pods : jobs[p] = <<>>
    BY DEF Init
<1>2. GroupTypes
    BY <1>1 DEF Init, GroupTypes
<1>3. NoSilentLoss /\ HeldInOrder /\ OwnersCovered
    BY <1>1 DEF Init, NoSilentLoss, HeldInOrder, OwnersCovered
<1> QED
    BY <1>2, <1>3, Parts

-----------------------------------------------------------------------------
(* Types                                                                   *)

\* A batch that is fetched, finished or taken from the queue is a batch.
LEMMA JobsTyped ==
    ASSUME GroupTypes, NEW p \in Pods
    PROVE  /\ \A q \in Partitions : Fetch(p, q) => jobs' \in [Pods -> Seq(Jobs)]
           /\ \A i : Finish(p, i) => jobs' \in [Pods -> Seq(Jobs)]
           /\ Commit(p) => jobs' \in [Pods -> Seq(Jobs)]
<1>0. jobs \in [Pods -> Seq(Jobs)] /\ jobs[p] \in Seq(Jobs)
    BY DEF GroupTypes
<1>1. ASSUME NEW q \in Partitions, Fetch(p, q) PROVE jobs' \in [Pods -> Seq(Jobs)]
    <2>1. PICK to \in position[q] + 1 .. log[q] :
            jobs' = [jobs EXCEPT ![p] =
                Append(@, [part |-> q, from |-> position[q] + 1, to |-> to,
                           epoch |-> epoch[q], done |-> FALSE])]
        BY <1>1 DEF Fetch
    <2>2. position[q] \in Nat /\ log[q] \in Nat /\ epoch[q] \in Nat
        BY DEF GroupTypes
    <2>3. [part |-> q, from |-> position[q] + 1, to |-> to, epoch |-> epoch[q], done |-> FALSE]
            \in Jobs
        BY <2>2 DEF Jobs
    <2> QED
        BY <1>0, <2>1, <2>3
<1>2. ASSUME NEW i, Finish(p, i) PROVE jobs' \in [Pods -> Seq(Jobs)]
    <2>1. i \in 1 .. Len(jobs[p]) /\ jobs[p][i] \in Jobs
        BY <1>0, <1>2 DEF Finish
    <2>2. [jobs[p][i] EXCEPT !.done = TRUE] \in Jobs
        BY <2>1 DEF Jobs
    <2>3. jobs' = [jobs EXCEPT ![p] = [jobs[p] EXCEPT ![i] = [jobs[p][i] EXCEPT !.done = TRUE]]]
        BY <1>2 DEF Finish
    <2> QED
        BY <1>0, <2>1, <2>2, <2>3
<1>3. ASSUME Commit(p) PROVE jobs' \in [Pods -> Seq(Jobs)]
    BY <1>0, <1>3 DEF Commit
<1> QED
    BY <1>1, <1>2, <1>3

\* A batch holds offsets that exist.
LEMMA JobFields ==
    ASSUME GroupTypes, NEW p \in Pods, NEW i \in 1 .. Len(jobs[p])
    PROVE  /\ jobs[p][i].part \in Partitions /\ jobs[p][i].from \in Nat
           /\ jobs[p][i].to \in Nat /\ jobs[p][i].epoch \in Nat
           /\ RecordsOf(jobs[p][i]) \subseteq Partitions \X Nat
<1>1. jobs[p][i] \in Jobs
    BY DEF GroupTypes
<1> QED
    BY <1>1 DEF Jobs, RecordsOf

\* Steps of provisioning, of the poller and of producers leave the group alone.
GroupSame == UNCHANGED <<owner, epoch, position, jobs, stored, lost, committed, committer>>

\* Steps of producers, of provisioning (EnsureTopics) and of the lag poller
\* leave what the group holds as it is.
LEMMA OtherSteps ==
    /\ \A p \in Pods : Boots(p) \/ Fails(p) => GroupSame /\ log' = log
    /\ SampleStarts \/ SampleReads \/ SampleEnds \/ SampleFails => GroupSame /\ log' = log
    /\ \A q \in Partitions : Produce(q) => GroupSame
    /\ UNCHANGED vars => GroupSame /\ log' = log
BY DEF Boots, Fails, SampleStarts, SampleReads, SampleEnds, SampleFails, Produce, GroupSame, groupVars, vars

\* Every step of the group, of provisioning and of the poller keeps the types.
LEMMA TypeStep ==
    ASSUME GroupTypes, [Next]_vars
    PROVE  GroupTypes'
<1>1. CASE GroupSame /\ log' \in [Partitions -> Nat]
    BY <1>1 DEF GroupTypes, GroupSame
<1>2. ASSUME NEW p \in Pods, Crash(p) PROVE GroupTypes'
    <2>1. jobs' \in [Pods -> Seq(Jobs)]
        BY <1>2 DEF Crash, GroupTypes
    <2>2. owner' \in [Partitions -> SUBSET Pods]
        BY <1>2 DEF Crash, GroupTypes
    <2> QED
        BY <1>2, <2>1, <2>2 DEF Crash, GroupTypes
<1>3. ASSUME NEW p \in Pods, Commit(p) PROVE GroupTypes'
    <2>1. jobs' \in [Pods -> Seq(Jobs)]
        BY <1>3, JobsTyped
    <2>2. 1 \in 1 .. Len(jobs[p]) /\ Head(jobs[p]) = jobs[p][1]
        BY <1>3 DEF Commit, GroupTypes
    <2>3. /\ Head(jobs[p]).part \in Partitions /\ Head(jobs[p]).to \in Nat
          /\ Head(jobs[p]).epoch \in Nat
        BY <2>2, JobFields
    <2>4. committed' \in [Partitions -> Nat] /\ committer' \in [Partitions -> Nat]
        BY <1>3, <2>3 DEF Commit, Accepted, GroupTypes
    <2> QED
        BY <1>3, <2>1, <2>4 DEF Commit, GroupTypes
<1>4. ASSUME NEW p \in Pods, NEW q \in Partitions, Assign(p, q) PROVE GroupTypes'
    BY <1>4 DEF Assign, GroupTypes
<1>5. ASSUME NEW p \in Pods, NEW q \in Partitions, Fetch(p, q) PROVE GroupTypes'
    <2>1. jobs' \in [Pods -> Seq(Jobs)]
        BY <1>5, JobsTyped
    <2>2. position' \in [Partitions -> Nat]
        BY <1>5 DEF Fetch, GroupTypes
    <2> QED
        BY <1>5, <2>1, <2>2 DEF Fetch, GroupTypes
<1>6. ASSUME NEW p \in Pods, NEW i \in 1 .. MaxJobs, Finish(p, i) PROVE GroupTypes'
    <2>1. jobs' \in [Pods -> Seq(Jobs)]
        BY <1>6, JobsTyped
    <2>2. RecordsOf(jobs[p][i]) \subseteq Partitions \X Nat
        BY <1>6, JobFields DEF Finish
    <2>3. stored' \subseteq Partitions \X Nat /\ lost' \subseteq Partitions \X Nat
        BY <1>6, <2>2 DEF Finish, GroupTypes
    <2> QED
        BY <1>6, <2>1, <2>3 DEF Finish, GroupTypes
<1>7. ASSUME NEW q \in Partitions, Revoke(q) PROVE GroupTypes'
    BY <1>7 DEF Revoke, GroupTypes
<1>8. ASSUME NEW q \in Partitions, Produce(q) PROVE log' \in [Partitions -> Nat]
    BY <1>8 DEF Produce, GroupTypes
<1>9. log \in [Partitions -> Nat]
    BY DEF GroupTypes
<1> QED
    BY <1>1, <1>2, <1>3, <1>4, <1>5, <1>6, <1>7, <1>8, <1>9, OtherSteps DEF Next

-----------------------------------------------------------------------------
(* What was fetched and what is accounted for                              *)

\* What is covered stays covered while the batches keep their records.
LEMMA CoveredStays ==
    ASSUME NEW record, NEW saved, NEW saved2, NEW queue, NEW queue2, NEW n \in Nat, NEW m \in Nat,
           n <= m, saved \subseteq saved2,
           \A i \in 1 .. n : RecordsOf(queue2[i]) = RecordsOf(queue[i]),
           Covered(record, saved, queue, n)
    PROVE  Covered(record, saved2, queue2, m)
<1>1. CASE record \in saved
    BY <1>1 DEF Covered
<1>2. CASE \E i \in 1 .. n : record \in RecordsOf(queue[i])
    <2>1. PICK i \in 1 .. n : record \in RecordsOf(queue[i])
        BY <1>2
    <2>2. i \in 1 .. m /\ record \in RecordsOf(queue2[i])
        BY <2>1
    <2> QED
        BY <2>2 DEF Covered
<1> QED
    BY <1>1, <1>2 DEF Covered

\* A step that leaves batches, offsets and what became of records alone, and assigns
\* nothing anew, keeps the invariant.
LEMMA Frame ==
    ASSUME GroupInv, GroupTypes', UNCHANGED <<jobs, Accounted, committed, position>>,
           \A p \in Pods, q \in Partitions : owner'[q] = {p} => owner[q] = {p}
    PROVE  GroupInv'
<1>1. NoSilentLoss' /\ HeldInOrder' /\ OwnersCovered'
    BY Parts DEF NoSilentLoss, HeldInOrder, OwnersCovered
<1> QED
    BY <1>1, Parts DEF GroupInv, HeldInOrder, OwnersCovered

\* A partition is assigned at its committed offset, below which all is
\* accounted for.
LEMMA AssignStep ==
    ASSUME GroupInv, GroupTypes', NEW p \in Pods, NEW q \in Partitions, Assign(p, q)
    PROVE  GroupInv'
<1>1. /\ UNCHANGED <<jobs, Accounted, committed>>
      /\ owner' = [owner EXCEPT ![q] = {p}]
      /\ position' = [position EXCEPT ![q] = committed[q]]
    BY DEF Assign, Accounted
<1>2. NoSilentLoss' /\ HeldInOrder'
    BY <1>1, Parts DEF NoSilentLoss, HeldInOrder
<1>3. OwnersCovered'
    <2> SUFFICES ASSUME NEW x \in Pods, NEW r \in Partitions, owner'[r] = {x},
                        NEW o \in 1 .. position'[r]
                 PROVE  Covered(<<r, o>>, Accounted, jobs[x], Len(jobs[x]))
        BY <1>1 DEF OwnersCovered
    <2>1. CASE r = q
        BY <1>1, <2>1, Parts DEF NoSilentLoss, Covered, GroupTypes
    <2>2. CASE r # q
        BY <1>1, <2>2, Parts DEF OwnersCovered, GroupTypes
    <2> QED
        BY <2>1, <2>2
<1> QED
    BY <1>2, <1>3, Parts DEF GroupInv, HeldInOrder, OwnersCovered

\* A batch starts where the owner's position was.
LEMMA FetchStep ==
    ASSUME GroupInv, GroupTypes', NEW p \in Pods, NEW q \in Partitions, Fetch(p, q)
    PROVE  GroupInv'
<1>0. PICK n \in Nat : n = Len(jobs[p])
    BY Parts DEF GroupTypes
<1>a. PICK to \in position[q] + 1 .. log[q] :
        /\ jobs' = [jobs EXCEPT ![p] =
             Append(@, [part |-> q, from |-> position[q] + 1, to |-> to, epoch |-> epoch[q],
                        done |-> FALSE])]
        /\ position' = [position EXCEPT ![q] = to]
    BY DEF Fetch
<1>b. PICK job : job = [part |-> q, from |-> position[q] + 1, to |-> to, epoch |-> epoch[q],
                        done |-> FALSE]
    OBVIOUS
<1>1. /\ jobs' = [jobs EXCEPT ![p] = Append(@, job)]
      /\ position' = [position EXCEPT ![q] = to]
    BY <1>a, <1>b
<1>2. /\ UNCHANGED <<Accounted, committed, owner>> /\ owner[q] = {p}
      /\ jobs \in [Pods -> Seq(Jobs)] /\ position[q] \in Nat /\ log[q] \in Nat
      /\ position \in [Partitions -> Nat]
    BY Parts DEF Fetch, GroupTypes, Accounted
<1>3. \A x \in Pods : Len(jobs[x]) \in Nat /\ \A i \in 1 .. Len(jobs[x]) : jobs[x][i] \in Jobs
    BY <1>2
<1>4. job \in Jobs /\ jobs'[p] = Append(jobs[p], job)
      /\ \A x \in Pods \ {p} : jobs'[x] = jobs[x]
    BY <1>a, <1>b, <1>1, <1>2, Parts DEF GroupTypes, Jobs
<1>5. /\ Len(jobs'[p]) = n + 1 /\ jobs'[p][n + 1] = job
      /\ \A i \in 1 .. n : jobs'[p][i] = jobs[p][i]
    BY <1>0, <1>2, <1>4
<1>6. \A x \in Pods : /\ Len(jobs'[x]) \in Nat /\ Len(jobs[x]) <= Len(jobs'[x])
                       /\ \A i \in 1 .. Len(jobs[x]) : jobs'[x][i] = jobs[x][i]
    <2> SUFFICES ASSUME NEW x \in Pods
                 PROVE  /\ Len(jobs'[x]) \in Nat /\ Len(jobs[x]) <= Len(jobs'[x])
                        /\ \A i \in 1 .. Len(jobs[x]) : jobs'[x][i] = jobs[x][i]
        OBVIOUS
    <2>1. CASE x = p
        BY <1>0, <1>5, <2>1
    <2>2. CASE x # p
        BY <1>3, <1>4, <2>2
    <2> QED
        BY <2>1, <2>2
<1>7. \A x \in Pods : \A k, m \in Nat :
        k <= Len(jobs[x]) /\ k <= m =>
            \A record : Covered(record, Accounted, jobs[x], k) => Covered(record, Accounted, jobs'[x], m)
    <2> SUFFICES ASSUME NEW x \in Pods, NEW record, NEW k \in Nat, NEW m \in Nat,
                        k <= Len(jobs[x]), k <= m, Covered(record, Accounted, jobs[x], k)
                 PROVE  Covered(record, Accounted, jobs'[x], m)
        OBVIOUS
    <2>1. \A i \in 1 .. k : RecordsOf(jobs'[x][i]) = RecordsOf(jobs[x][i])
        BY <1>3, <1>6
    <2> QED
        BY <2>1, CoveredStays
<1>8. NoSilentLoss'
    BY <1>2, Parts DEF NoSilentLoss
<1>9. HeldInOrder'
    <2> SUFFICES ASSUME NEW x \in Pods, NEW i \in 1 .. Len(jobs'[x])
                 PROVE  /\ jobs'[x][i].done => RecordsOf(jobs'[x][i]) \subseteq Accounted
                        /\ \A o \in 1 .. jobs'[x][i].from - 1 :
                            Covered(<<jobs'[x][i].part, o>>, Accounted, jobs'[x], i - 1)
        BY <1>2 DEF HeldInOrder, RecordsOf
    <2>1. CASE i \in 1 .. Len(jobs[x])
        <3>1. /\ jobs'[x][i] = jobs[x][i]
              /\ jobs[x][i].done => RecordsOf(jobs[x][i]) \subseteq Accounted
              /\ \A o \in 1 .. jobs[x][i].from - 1 :
                    Covered(<<jobs[x][i].part, o>>, Accounted, jobs[x], i - 1)
            BY <1>6, <2>1, Parts DEF HeldInOrder
        <3>2. i - 1 <= Len(jobs[x]) /\ i - 1 \in Nat /\ i - 1 <= i - 1
            BY <1>3, <2>1
        <3>3. \A record : Covered(record, Accounted, jobs[x], i - 1)
                            => Covered(record, Accounted, jobs'[x], i - 1)
            BY <1>7, <3>2
        <3> QED
            BY <3>1, <3>3
    <2>2. CASE x = p /\ i = n + 1
        <3>1. jobs'[x][i] = job /\ i - 1 = n
            BY <1>5, <2>2
        <3>2. \A o \in 1 .. position[q] : Covered(<<q, o>>, Accounted, jobs[p], n)
            BY <1>0, <1>2, Parts DEF OwnersCovered
        <3>5. \A record : Covered(record, Accounted, jobs[p], n)
                            => Covered(record, Accounted, jobs'[p], n)
            <4>1. n \in Nat /\ n <= Len(jobs[p]) /\ n <= n
                BY <1>0
            <4> QED
                BY <1>7, <4>1
        <3>3. \A o \in 1 .. position[q] : Covered(<<q, o>>, Accounted, jobs'[p], n)
            BY <3>2, <3>5
        <3>4. job.from - 1 = position[q] /\ job.part = q /\ ~job.done
            BY <1>b, <1>1, <1>2
        <3> QED
            BY <2>2, <3>1, <3>3, <3>4
    <2> QED
        BY <1>0, <1>3, <1>4, <1>5, <2>1, <2>2
<1>10. OwnersCovered'
    <2> SUFFICES ASSUME NEW x \in Pods, NEW r \in Partitions, owner[r] = {x},
                        NEW o \in 1 .. position'[r]
                 PROVE  Covered(<<r, o>>, Accounted, jobs'[x], Len(jobs'[x]))
        BY <1>2 DEF OwnersCovered
    <2>1. CASE r = q /\ o > position[q]
        <3>3. x = p
            BY <1>2, <2>1
        <3>4. position'[q] = to /\ o \in 1 .. to /\ o \in Int
            BY <1>b, <1>1, <1>2, <2>1
        <3>1. x = p /\ o \in position[q] + 1 .. to
            BY <1>2, <2>1, <3>3, <3>4
        <3>2. <<r, o>> \in RecordsOf(jobs'[p][n + 1]) /\ n + 1 \in 1 .. Len(jobs'[p])
            BY <1>0, <1>a, <1>b, <1>1, <1>5, <2>1, <3>1 DEF RecordsOf
        <3> QED
            BY <3>1, <3>2 DEF Covered
    <2>2. CASE r # q \/ o <= position[q]
        <3>1. o \in 1 .. position[r]
            BY <1>b, <1>1, <1>2, <2>2
        <3>2. Covered(<<r, o>>, Accounted, jobs[x], Len(jobs[x]))
            BY <3>1, Parts DEF OwnersCovered
        <3>3. \A record : Covered(record, Accounted, jobs[x], Len(jobs[x]))
                            => Covered(record, Accounted, jobs'[x], Len(jobs'[x]))
            <4>1. /\ Len(jobs[x]) \in Nat /\ Len(jobs'[x]) \in Nat
                  /\ Len(jobs[x]) <= Len(jobs[x]) /\ Len(jobs[x]) <= Len(jobs'[x])
                BY <1>3, <1>6
            <4> QED
                BY <1>7, <4>1
        <3> QED
            BY <3>2, <3>3
    <2> QED
        BY <1>2, <2>1, <2>2
<1> QED
    BY <1>8, <1>9, <1>10, Parts DEF GroupInv, HeldInOrder, OwnersCovered

\* A batch that is done is stored or lost; nothing else changes.
LEMMA FinishStep ==
    ASSUME GroupInv, GroupTypes', NEW p \in Pods, NEW j, Finish(p, j)
    PROVE  GroupInv'
<1>1. /\ j \in 1 .. Len(jobs[p]) /\ jobs \in [Pods -> Seq(Jobs)]
      /\ Accounted' = Accounted \cup RecordsOf(jobs[p][j])
      /\ jobs' = [jobs EXCEPT ![p] = [jobs[p] EXCEPT ![j] = [jobs[p][j] EXCEPT !.done = TRUE]]]
      /\ UNCHANGED <<owner, position, committed>>
    BY Parts DEF Finish, GroupTypes, Accounted
<1>2. \A x \in Pods : Len(jobs[x]) \in Nat /\ \A i \in 1 .. Len(jobs[x]) : jobs[x][i] \in Jobs
    BY <1>1
<1>3. /\ jobs'[p] = [jobs[p] EXCEPT ![j] = [jobs[p][j] EXCEPT !.done = TRUE]]
      /\ \A x \in Pods \ {p} : jobs'[x] = jobs[x]
    BY <1>1
<1>4. \A x \in Pods : Len(jobs'[x]) = Len(jobs[x])
    BY <1>1, <1>3
<1>5. \A x \in Pods : \A i \in 1 .. Len(jobs[x]) :
        /\ jobs'[x][i].part = jobs[x][i].part
        /\ jobs'[x][i].from = jobs[x][i].from /\ jobs'[x][i].to = jobs[x][i].to
        /\ jobs'[x][i].done => jobs[x][i].done \/ (x = p /\ i = j)
    <2> SUFFICES ASSUME NEW x \in Pods, NEW i \in 1 .. Len(jobs[x])
                 PROVE  /\ jobs'[x][i].part = jobs[x][i].part
                        /\ jobs'[x][i].from = jobs[x][i].from /\ jobs'[x][i].to = jobs[x][i].to
                        /\ jobs'[x][i].done => jobs[x][i].done \/ (x = p /\ i = j)
        OBVIOUS
    <2>1. CASE x = p /\ i = j
        <3>1. jobs[p] \in Seq(Jobs) /\ j \in DOMAIN jobs[p]
            BY <1>1
        <3>2. jobs'[p][j] = [jobs[p][j] EXCEPT !.done = TRUE]
            BY <1>3, <3>1
        <3>3. jobs[p][j] \in Jobs
            BY <3>1
        <3> QED
            BY <2>1, <3>2, <3>3 DEF Jobs
    <2>2. CASE x # p \/ i # j
        <3>1. jobs'[x][i] = jobs[x][i]
            BY <1>1, <1>3, <2>2
        <3> QED
            BY <3>1
    <2> QED
        BY <2>1, <2>2
<1>6. \A x \in Pods : \A i \in 1 .. Len(jobs[x]) : RecordsOf(jobs'[x][i]) = RecordsOf(jobs[x][i])
    BY <1>5 DEF RecordsOf
<1>7. \A x \in Pods : \A k \in Nat : k <= Len(jobs[x]) =>
        \A record : Covered(record, Accounted, jobs[x], k) => Covered(record, Accounted', jobs'[x], k)
    <2> SUFFICES ASSUME NEW x \in Pods, NEW k \in Nat, k <= Len(jobs[x]), NEW record,
                        Covered(record, Accounted, jobs[x], k)
                 PROVE  Covered(record, Accounted', jobs'[x], k)
        OBVIOUS
    <2>1. \A i \in 1 .. k : RecordsOf(jobs'[x][i]) = RecordsOf(jobs[x][i])
        BY <1>2, <1>6
    <2>2. Accounted \subseteq Accounted'
        BY <1>1
    <2> QED
        BY <2>1, <2>2, CoveredStays
<1>8. NoSilentLoss'
    BY <1>1, Parts DEF NoSilentLoss
<1>9. HeldInOrder'
    <2> SUFFICES ASSUME NEW x \in Pods, NEW i \in 1 .. Len(jobs'[x])
                 PROVE  /\ jobs'[x][i].done => RecordsOf(jobs'[x][i]) \subseteq Accounted'
                        /\ \A o \in 1 .. jobs'[x][i].from - 1 :
                            Covered(<<jobs'[x][i].part, o>>, Accounted', jobs'[x], i - 1)
        BY DEF HeldInOrder, RecordsOf
    <2>0. i \in 1 .. Len(jobs[x])
        BY <1>4
    <2>1. /\ jobs[x][i].done => RecordsOf(jobs[x][i]) \subseteq Accounted
          /\ \A o \in 1 .. jobs[x][i].from - 1 :
                Covered(<<jobs[x][i].part, o>>, Accounted, jobs[x], i - 1)
        BY <2>0, Parts DEF HeldInOrder
    <2>2. i - 1 \in Nat /\ i - 1 <= Len(jobs[x])
        BY <1>2, <2>0
    <2>3. \A record : Covered(record, Accounted, jobs[x], i - 1)
                        => Covered(record, Accounted', jobs'[x], i - 1)
        BY <1>7, <2>2
    <2>4. /\ jobs'[x][i].part = jobs[x][i].part /\ jobs'[x][i].from = jobs[x][i].from
          /\ RecordsOf(jobs'[x][i]) = RecordsOf(jobs[x][i])
          /\ jobs'[x][i].done => jobs[x][i].done \/ (x = p /\ i = j)
        BY <1>5, <1>6, <2>0
    <2> QED
        BY <1>1, <2>1, <2>3, <2>4
<1>10. OwnersCovered'
    <2> SUFFICES ASSUME NEW x \in Pods, NEW r \in Partitions, owner[r] = {x},
                        NEW o \in 1 .. position[r]
                 PROVE  Covered(<<r, o>>, Accounted', jobs'[x], Len(jobs[x]))
        BY <1>1, <1>4 DEF OwnersCovered
    <2>1. Covered(<<r, o>>, Accounted, jobs[x], Len(jobs[x]))
        BY Parts DEF OwnersCovered
    <2>2. \A record : Covered(record, Accounted, jobs[x], Len(jobs[x]))
                        => Covered(record, Accounted', jobs'[x], Len(jobs[x]))
        <3>1. Len(jobs[x]) \in Nat /\ Len(jobs[x]) <= Len(jobs[x])
            BY <1>2
        <3> QED
            BY <1>7, <3>1
    <2> QED
        BY <2>1, <2>2
<1> QED
    BY <1>8, <1>9, <1>10, Parts DEF GroupInv, HeldInOrder, OwnersCovered

\* The oldest batch of a pod is done, and so is all before it: its
\* commit is safe whoever owns the partition now.
LEMMA CommitStep ==
    ASSUME GroupInv, GroupTypes', NEW p \in Pods, Commit(p)
    PROVE  GroupInv'
<1>0. PICK n \in Nat : n = Len(jobs[p])
    BY Parts DEF GroupTypes
<1>1. /\ n > 0 /\ jobs[p] # <<>> /\ Head(jobs[p]) = jobs[p][1] /\ jobs[p][1].done
      /\ jobs \in [Pods -> Seq(Jobs)] /\ jobs[p] \in Seq(Jobs)
      /\ jobs' = [jobs EXCEPT ![p] = Tail(@)]
      /\ UNCHANGED <<Accounted, owner, position>>
    BY <1>0, Parts DEF Commit, GroupTypes, Accounted
<1>2. \A x \in Pods : Len(jobs[x]) \in Nat /\ \A i \in 1 .. Len(jobs[x]) : jobs[x][i] \in Jobs
    BY <1>1
<1>3. /\ Len(jobs'[p]) = n - 1 /\ \A i \in 1 .. n - 1 : jobs'[p][i] = jobs[p][i + 1]
      /\ \A x \in Pods \ {p} : jobs'[x] = jobs[x]
    BY <1>0, <1>1
<1>4. RecordsOf(jobs[p][1]) \subseteq Accounted
    <2>1. 1 \in 1 .. Len(jobs[p])
        BY <1>0, <1>1
    <2> QED
        BY <1>1, <2>1, Parts DEF HeldInOrder
<1>5. \A k \in 1 .. n : \A record :
        Covered(record, Accounted, jobs[p], k) => Covered(record, Accounted, jobs'[p], k - 1)
    <2> SUFFICES ASSUME NEW k \in 1 .. n, NEW record, NEW i \in 1 .. k,
                        record \in RecordsOf(jobs[p][i])
                 PROVE  Covered(record, Accounted, jobs'[p], k - 1)
        BY DEF Covered
    <2>1. CASE i = 1
        BY <1>4, <2>1 DEF Covered
    <2>2. CASE i # 1
        <3>1. i - 1 \in 1 .. k - 1 /\ i - 1 \in 1 .. n - 1 /\ (i - 1) + 1 = i
            BY <1>0, <2>2
        <3>2. jobs'[p][i - 1] = jobs[p][i]
            BY <1>3, <3>1
        <3> QED
            BY <3>1, <3>2 DEF Covered
    <2> QED
        BY <2>1, <2>2
<1>6. NoSilentLoss'
    <2> DEFINE part == jobs[p][1].part
               to == jobs[p][1].to
    <2>1. jobs[p][1] \in Jobs /\ 1 \in 1 .. Len(jobs[p])
        BY <1>0, <1>1, <1>2
    <2>2. part \in Partitions /\ to \in Nat /\ jobs[p][1].from \in Nat
        BY <2>1 DEF Jobs
    <2>3. {part} \X (1 .. to) \subseteq Accounted
        <3> SUFFICES ASSUME NEW o \in 1 .. to
                     PROVE  <<part, o>> \in Accounted
            OBVIOUS
        <3>1. CASE o >= jobs[p][1].from
            BY <1>4, <2>2, <3>1 DEF RecordsOf
        <3>2. CASE o < jobs[p][1].from
            <4>1. o \in 1 .. jobs[p][1].from - 1
                BY <2>2, <3>2
            <4>2. Covered(<<part, o>>, Accounted, jobs[p], 1 - 1)
                BY <2>1, <4>1, Parts DEF HeldInOrder
            <4> QED
                BY <4>2 DEF Covered
        <3> QED
            BY <2>2, <3>1, <3>2
    <2>4. committed' = committed \/ committed' = [committed EXCEPT ![part] = to]
        BY <1>1 DEF Commit, Accepted
    <2>5. committed \in [Partitions -> Nat]
        BY Parts DEF GroupTypes
    <2> HIDE DEF part, to
    <2> SUFFICES ASSUME NEW q \in Partitions
                 PROVE  {q} \X (1 .. committed'[q]) \subseteq Accounted
        BY <1>1 DEF NoSilentLoss
    <2>6. {q} \X (1 .. committed[q]) \subseteq Accounted
        BY Parts DEF NoSilentLoss
    <2>7. committed'[q] = committed[q] \/ (q = part /\ committed'[q] = to)
        BY <2>4, <2>5
    <2> QED
        BY <2>3, <2>6, <2>7
<1>7. HeldInOrder'
    <2> SUFFICES ASSUME NEW x \in Pods, NEW i \in 1 .. Len(jobs'[x])
                 PROVE  /\ jobs'[x][i].done => RecordsOf(jobs'[x][i]) \subseteq Accounted'
                        /\ \A o \in 1 .. jobs'[x][i].from - 1 :
                            Covered(<<jobs'[x][i].part, o>>, Accounted', jobs'[x], i - 1)
        BY DEF HeldInOrder, RecordsOf
    <2>0. Accounted' = Accounted
        BY <1>1
    <2>1. CASE x # p
        <3>1. jobs'[x] = jobs[x]
            BY <1>3, <2>1
        <3> QED
            BY <2>0, <3>1, Parts DEF HeldInOrder
    <2>2. CASE x = p
        <3>1. i \in 1 .. n - 1 /\ i + 1 \in 1 .. Len(jobs[p]) /\ i \in 1 .. n /\ (i + 1) - 1 = i
            BY <1>0, <1>3, <2>2
        <3>2. jobs'[p][i] = jobs[p][i + 1]
            BY <1>3, <3>1
        <3>3. /\ jobs[p][i + 1].done => RecordsOf(jobs[p][i + 1]) \subseteq Accounted
              /\ \A o \in 1 .. jobs[p][i + 1].from - 1 :
                    Covered(<<jobs[p][i + 1].part, o>>, Accounted, jobs[p], (i + 1) - 1)
            BY <3>1, Parts DEF HeldInOrder
        <3>4. \A record : Covered(record, Accounted, jobs[p], i)
                            => Covered(record, Accounted, jobs'[p], i - 1)
            BY <1>5, <3>1
        <3> QED
            BY <2>0, <2>2, <3>1, <3>2, <3>3, <3>4
    <2> QED
        BY <2>1, <2>2
<1>8. OwnersCovered'
    <2> SUFFICES ASSUME NEW x \in Pods, NEW r \in Partitions, owner[r] = {x},
                        NEW o \in 1 .. position[r]
                 PROVE  Covered(<<r, o>>, Accounted, jobs'[x], Len(jobs'[x]))
        BY <1>1 DEF OwnersCovered
    <2>1. Covered(<<r, o>>, Accounted, jobs[x], Len(jobs[x]))
        BY Parts DEF OwnersCovered
    <2>2. CASE x # p
        BY <1>3, <2>1, <2>2
    <2>3. CASE x = p
        <3>1. \A record : Covered(record, Accounted, jobs[p], n)
                            => Covered(record, Accounted, jobs'[p], n - 1)
            <4>1. n \in 1 .. n
                BY <1>1
            <4> QED
                BY <1>5, <4>1
        <3> QED
            BY <1>0, <1>3, <2>1, <2>3, <3>1
    <2> QED
        BY <2>2, <2>3
<1> QED
    BY <1>6, <1>7, <1>8, Parts DEF GroupInv, HeldInOrder, OwnersCovered

\* A dead pod holds no batch and owns no partition.
LEMMA CrashStep ==
    ASSUME GroupInv, GroupTypes', NEW p \in Pods, Crash(p)
    PROVE  GroupInv'
<1>1. /\ jobs \in [Pods -> Seq(Jobs)] /\ jobs' = [jobs EXCEPT ![p] = <<>>]
      /\ owner' = [q \in Partitions |-> IF owner[q] = {p} THEN {} ELSE owner[q]]
      /\ owner \in [Partitions -> SUBSET Pods]
      /\ UNCHANGED <<Accounted, committed, position>>
    BY Parts DEF Crash, GroupTypes, Accounted
<1>2. jobs'[p] = <<>> /\ Len(jobs'[p]) = 0 /\ \A x \in Pods \ {p} : jobs'[x] = jobs[x]
    BY <1>1
<1>3. NoSilentLoss'
    BY <1>1, Parts DEF NoSilentLoss
<1>4. HeldInOrder'
    <2> SUFFICES ASSUME NEW x \in Pods, NEW i \in 1 .. Len(jobs'[x])
                 PROVE  /\ jobs'[x][i].done => RecordsOf(jobs'[x][i]) \subseteq Accounted'
                        /\ \A o \in 1 .. jobs'[x][i].from - 1 :
                            Covered(<<jobs'[x][i].part, o>>, Accounted', jobs'[x], i - 1)
        BY DEF HeldInOrder, RecordsOf
    <2>0. Accounted' = Accounted
        BY <1>1
    <2>1. x # p /\ jobs'[x] = jobs[x]
        BY <1>2
    <2> QED
        BY <2>0, <2>1, Parts DEF HeldInOrder
<1>5. OwnersCovered'
    <2> SUFFICES ASSUME NEW x \in Pods, NEW r \in Partitions, owner'[r] = {x},
                        NEW o \in 1 .. position[r]
                 PROVE  Covered(<<r, o>>, Accounted, jobs'[x], Len(jobs'[x]))
        BY <1>1 DEF OwnersCovered
    <2>1. x # p /\ owner[r] = {x} /\ jobs'[x] = jobs[x]
        BY <1>1, <1>2
    <2> QED
        BY <2>1, Parts DEF OwnersCovered
<1> QED
    BY <1>3, <1>4, <1>5, Parts DEF GroupInv, HeldInOrder, OwnersCovered

\* Every step preserves the invariant.
LEMMA Step == GroupInv /\ [Next]_vars => GroupInv'
<1> SUFFICES ASSUME GroupInv, [Next]_vars PROVE GroupInv'
    OBVIOUS
<1>1. GroupTypes'
    BY TypeStep, Parts
<1>2. ASSUME GroupSame PROVE GroupInv'
    BY <1>1, <1>2, Frame DEF GroupSame, Accounted
<1>3. ASSUME NEW p \in Pods,
             \/ Boots(p) \/ Fails(p) \/ Crash(p) \/ Commit(p)
             \/ \E q \in Partitions : Assign(p, q) \/ Fetch(p, q)
             \/ \E i \in 1 .. MaxJobs : Finish(p, i)
      PROVE  GroupInv'
    <2>1. CASE Boots(p) \/ Fails(p)
        BY <1>2, <2>1, OtherSteps
    <2>2. CASE Crash(p)
        BY <1>1, <2>2, CrashStep
    <2>3. CASE Commit(p)
        BY <1>1, <2>3, CommitStep
    <2>4. ASSUME NEW q \in Partitions, Assign(p, q) PROVE GroupInv'
        BY <1>1, <2>4, AssignStep
    <2>5. ASSUME NEW q \in Partitions, Fetch(p, q) PROVE GroupInv'
        BY <1>1, <2>5, FetchStep
    <2>6. ASSUME NEW i \in 1 .. MaxJobs, Finish(p, i) PROVE GroupInv'
        BY <1>1, <2>6, FinishStep
    <2> QED
        BY <1>3, <2>1, <2>2, <2>3, <2>4, <2>5, <2>6
<1>4. ASSUME NEW q \in Partitions, Revoke(q) PROVE GroupInv'
    <2>1. /\ UNCHANGED <<jobs, Accounted, committed, position>>
          /\ owner' = [owner EXCEPT ![q] = {}]
          /\ owner \in [Partitions -> SUBSET Pods]
        BY <1>4, Parts DEF Revoke, GroupTypes, Accounted
    <2>2. \A p \in Pods, r \in Partitions : owner'[r] = {p} => owner[r] = {p}
        BY <2>1
    <2> QED
        BY <1>1, <2>1, <2>2, Frame
<1>5. ASSUME NEW q \in Partitions, Produce(q) PROVE GroupInv'
    BY <1>2, <1>5, OtherSteps
<1>6. CASE SampleStarts \/ SampleReads \/ SampleEnds \/ SampleFails \/ UNCHANGED vars
    BY <1>2, <1>6, OtherSteps
<1> QED
    BY <1>3, <1>4, <1>5, <1>6 DEF Next

\* The invariant holds for any pods, partitions, rebalances and crashes.
THEOREM Inductive == Spec => []GroupInv
<1> QED
    BY Initial, Step, PTL DEF Spec

\* However partitions move between pods, with their batches in flight, what
\* the group has committed is accounted for: in ClickHouse, in the DLQ, or lost
\* by a batch that finished, whose failed publish or panic was counted.
THEOREM NothingLost == Spec => []NoSilentLoss
<1>1. GroupInv => NoSilentLoss
    BY DEF GroupInv
<1> QED
    BY <1>1, Inductive, PTL

-----------------------------------------------------------------------------
(* Provisioning                                                            *)

TopicTypes ==
    /\ target \in [Pods -> 1 .. MaxPartitions]
    /\ parts \in [1 .. NTopics -> 0 .. MaxPartitions]
    /\ stage \in [Pods -> Stages]
    /\ turn \in [Pods -> 1 .. NTopics]
    /\ faults \in Nat

\* The topics a pod has been through since it was started.
Behind(p) ==
    CASE At(p, "ready") -> 1 .. NTopics
      [] At(p, "down")  -> {}
      [] OTHER          -> 1 .. turn[p] - 1

\* The strengthening that makes ReadyHasTarget inductive: a topic keeps, whoever
\* grows it next, the partitions of every pod that has been through it.
ProvisionInv ==
    /\ TopicTypes
    /\ \A p \in Pods : \A t \in Behind(p) : parts[t] >= target[p]

\* A step that takes no partitions away keeps the invariant when every pod has
\* what it wants of the topics it is now behind.
LEMMA ProvisionKept ==
    ASSUME ProvisionInv, TopicTypes', target' = target,
           \A t \in 1 .. NTopics : parts'[t] >= parts[t],
           \A p \in Pods : \A t \in Behind(p)' : t \in Behind(p) \/ parts'[t] >= target[p]
    PROVE  ProvisionInv'
<1> SUFFICES ASSUME NEW p \in Pods, NEW t \in Behind(p)'
             PROVE  parts'[t] >= target[p]
    BY DEF ProvisionInv
<1>1. CASE t \in Behind(p)
    <2>1. t \in 1 .. NTopics
        BY <1>1 DEF Behind, ProvisionInv, TopicTypes
    <2>2. parts'[t] >= parts[t] /\ parts[t] >= target[p]
        BY <1>1, <2>1 DEF ProvisionInv
    <2>3. parts'[t] \in Int /\ parts[t] \in Int /\ target[p] \in Int
        BY <2>1 DEF ProvisionInv, TopicTypes
    <2> QED
        BY <2>2, <2>3
<1>2. CASE parts'[t] >= target[p]
    BY <1>2
<1> QED
    BY <1>1, <1>2

\* A pod that moves on in its loop has what it wants of the topic it was at.
LEMMA MovesOn ==
    ASSUME ProvisionInv, NEW p \in Pods, stage[p] \in {"create", "list", "grow"},
           NextTopic(p), target' = target, faults' = faults,
           parts' \in [1 .. NTopics -> 0 .. MaxPartitions],
           \A t \in 1 .. NTopics : parts'[t] >= parts[t],
           parts'[turn[p]] >= target[p]
    PROVE  ProvisionInv'
<1>1. /\ target \in [Pods -> 1 .. MaxPartitions] /\ parts \in [1 .. NTopics -> 0 .. MaxPartitions]
      /\ stage \in [Pods -> Stages] /\ turn \in [Pods -> 1 .. NTopics] /\ faults \in Nat
    BY DEF ProvisionInv, TopicTypes
<1>2. stage' \in [Pods -> Stages] /\ turn' \in [Pods -> 1 .. NTopics]
    <2>1. CASE turn[p] = NTopics
        BY <1>1, <2>1 DEF NextTopic, Goto, Stages
    <2>2. CASE turn[p] # NTopics
        <3>1. turn' = [turn EXCEPT ![p] = turn[p] + 1] /\ Goto(p, "create")
            BY <2>2 DEF NextTopic
        <3>2. turn[p] + 1 \in 1 .. NTopics
            BY <1>1, <2>2
        <3> QED
            BY <1>1, <3>1, <3>2 DEF Goto, Stages
    <2> QED
        BY <2>1, <2>2
<1>3. TopicTypes'
    BY <1>1, <1>2 DEF TopicTypes
<1>4. ASSUME NEW x \in Pods, NEW t \in Behind(x)'
      PROVE  t \in Behind(x) \/ parts'[t] >= target[x]
    <2>1. CASE x # p
        <3>1. stage'[x] = stage[x] /\ turn'[x] = turn[x]
            BY <1>1, <2>1 DEF NextTopic, Goto
        <3> QED
            BY <1>4, <3>1 DEF Behind, At
    <2>2. CASE x = p
        <3>1. Behind(p) = 1 .. turn[p] - 1
            BY DEF Behind, At
        <3>2. Behind(p)' = 1 .. turn[p]
            <4>1. CASE turn[p] = NTopics
                BY <1>1, <4>1 DEF NextTopic, Goto, Behind, At
            <4>2. CASE turn[p] # NTopics
                <5>1. stage'[p] = "create" /\ turn'[p] = turn[p] + 1
                    BY <1>1, <4>2 DEF NextTopic, Goto
                <5>2. (turn[p] + 1) - 1 = turn[p]
                    BY <1>1
                <5> QED
                    BY <5>1, <5>2 DEF Behind, At
            <4> QED
                BY <4>1, <4>2
        <3>3. turn[p] \in Int
            BY <1>1
        <3>4. t = turn[p] \/ t \in 1 .. turn[p] - 1
            BY <1>4, <2>2, <3>2, <3>3
        <3> QED
            BY <2>2, <3>1, <3>4
    <2> QED
        BY <2>1, <2>2
<1> QED
    BY <1>3, <1>4, ProvisionKept

\* A pod that goes to another step of the same topic, or exits, is behind none
\* that it was not behind already.
LEMMA StaysOrExits ==
    ASSUME ProvisionInv, NEW p \in Pods, NEW s \in Stages \ {"ready"}, Goto(p, s),
           s # "down" => turn' = turn /\ stage[p] \in {"create", "list", "grow"},
           turn' = turn, target' = target, faults' \in Nat,
           parts' \in [1 .. NTopics -> 0 .. MaxPartitions],
           \A t \in 1 .. NTopics : parts'[t] >= parts[t]
    PROVE  ProvisionInv'
<1>1. /\ target \in [Pods -> 1 .. MaxPartitions] /\ turn \in [Pods -> 1 .. NTopics]
      /\ stage \in [Pods -> Stages]
    BY DEF ProvisionInv, TopicTypes
<1>2. TopicTypes'
    BY <1>1 DEF Goto, TopicTypes
<1>3. \A x \in Pods : Behind(x)' \subseteq Behind(x)
    BY <1>1 DEF Behind, At, Goto, Stages
<1> QED
    BY <1>2, <1>3, ProvisionKept

\* A broker that sets a topic's count to what a pod wants takes none away.
LEMMA GrowthTyped ==
    ASSUME ProvisionInv, NEW p \in Pods, parts[turn[p]] <= target[p],
           parts' = [parts EXCEPT ![turn[p]] = target[p]]
    PROVE  /\ parts' \in [1 .. NTopics -> 0 .. MaxPartitions]
           /\ \A t \in 1 .. NTopics : parts'[t] >= parts[t]
           /\ parts'[turn[p]] >= target[p]
<1>1. /\ target[p] \in 1 .. MaxPartitions /\ turn[p] \in 1 .. NTopics
      /\ parts \in [1 .. NTopics -> 0 .. MaxPartitions]
    BY DEF ProvisionInv, TopicTypes
<1>2. target[p] \in 0 .. MaxPartitions /\ target[p] >= target[p]
    BY <1>1
<1>3. \A t \in 1 .. NTopics : parts[t] \in Int /\ parts[t] >= parts[t]
    BY <1>1
<1> QED
    BY <1>1, <1>2, <1>3

\* The steps of EnsureTopics keep the invariant.
LEMMA ProvisionStep ==
    ASSUME ProvisionInv, NEW p \in Pods, Provision(p) \/ RequestFails(p)
    PROVE  ProvisionInv'
<1>1. /\ target \in [Pods -> 1 .. MaxPartitions] /\ turn \in [Pods -> 1 .. NTopics]
      /\ parts \in [1 .. NTopics -> 0 .. MaxPartitions] /\ stage \in [Pods -> Stages]
      /\ faults \in Nat
    BY DEF ProvisionInv, TopicTypes
<1>2. parts[turn[p]] \in Int /\ target[p] \in Int /\ target[p] > 0 /\ faults + 1 \in Nat
    BY <1>1
<1>3. \A t \in 1 .. NTopics : parts[t] >= parts[t]
    <2>1. \A t \in 1 .. NTopics : parts[t] \in Int
        BY <1>1
    <2> QED
        BY <2>1
<1>4. CASE Start(p)
    <2>1. stage[p] = "down" /\ stage' = [stage EXCEPT ![p] = "create"]
          /\ turn' = [turn EXCEPT ![p] = 1] /\ UNCHANGED <<target, parts, faults>>
        BY <1>4 DEF Start, At, Goto
    <2>2. TopicTypes'
        BY <1>1, <2>1 DEF TopicTypes, Stages
    <2>3. \A x \in Pods : Behind(x)' \subseteq Behind(x)
        <3> SUFFICES ASSUME NEW x \in Pods PROVE Behind(x)' \subseteq Behind(x)
            OBVIOUS
        <3>1. CASE x # p
            <4>1. stage'[x] = stage[x] /\ turn'[x] = turn[x]
                BY <1>1, <2>1, <3>1
            <4> QED
                BY <4>1 DEF Behind, At
        <3>2. CASE x = p
            <4>1. stage'[p] = "create" /\ turn'[p] = 1
                BY <1>1, <2>1
            <4>2. Behind(p)' = 1 .. 0
                BY <4>1 DEF Behind, At
            <4> QED
                BY <3>2, <4>2
        <3> QED
            BY <3>1, <3>2
    <2> QED
        BY <1>3, <2>1, <2>2, <2>3, ProvisionKept
<1>5. CASE Create(p)
    <2>1. /\ stage[p] = "create" /\ NextTopic(p) /\ parts[turn[p]] <= target[p]
          /\ parts' = [parts EXCEPT ![turn[p]] = target[p]] /\ UNCHANGED <<target, faults>>
        BY <1>2, <1>5 DEF Create, At
    <2> QED
        BY <2>1, GrowthTyped, MovesOn
<1>6. CASE CreateExists(p)
    <2>1. stage[p] = "create" /\ Goto(p, "list") /\ UNCHANGED <<target, parts, turn, faults>>
        BY <1>6 DEF CreateExists, At
    <2> QED
        BY <1>1, <1>3, <2>1, StaysOrExits DEF Stages
<1>7. CASE List(p)
    <2>1. stage[p] = "list" /\ UNCHANGED <<target, parts, faults>>
        BY <1>7 DEF List, At
    <2>2. CASE parts[turn[p]] < target[p]
        <3>1. Goto(p, "grow") /\ turn' = turn
            BY <1>7, <2>2 DEF List
        <3> QED
            BY <1>1, <1>3, <2>1, <3>1, StaysOrExits DEF Stages
    <2>3. CASE ~(parts[turn[p]] < target[p])
        <3>1. NextTopic(p) /\ parts'[turn[p]] >= target[p]
            BY <1>2, <1>7, <2>1, <2>3 DEF List
        <3> QED
            BY <1>1, <1>3, <2>1, <3>1, MovesOn
    <2> QED
        BY <2>2, <2>3
<1>8. CASE Grow(p)
    <2>1. stage[p] = "grow" /\ UNCHANGED <<target, faults>>
        BY <1>8 DEF Grow, At
    <2>2. CASE parts[turn[p]] < target[p]
        <3>1. /\ parts' = [parts EXCEPT ![turn[p]] = target[p]] /\ NextTopic(p)
              /\ parts[turn[p]] <= target[p]
            BY <1>2, <1>8, <2>2 DEF Grow
        <3> QED
            BY <2>1, <3>1, GrowthTyped, MovesOn
    <2>3. CASE ~(parts[turn[p]] < target[p])
        <3>1. Goto(p, "down") /\ turn' = turn /\ parts' = parts
            BY <1>8, <2>3 DEF Grow, BootFails
        <3> QED
            BY <1>1, <1>3, <2>1, <3>1, StaysOrExits DEF Stages
    <2> QED
        BY <2>2, <2>3
<1>9. CASE RequestFails(p)
    <2>1. /\ Goto(p, "down") /\ turn' = turn /\ target' = target /\ faults' \in Nat
        BY <1>2, <1>9 DEF RequestFails, BootFails
    <2>2. \/ parts' = parts
          \/ parts[turn[p]] <= target[p] /\ parts' = [parts EXCEPT ![turn[p]] = target[p]]
        BY <1>2, <1>9 DEF RequestFails
    <2>3. /\ parts' \in [1 .. NTopics -> 0 .. MaxPartitions]
          /\ \A t \in 1 .. NTopics : parts'[t] >= parts[t]
        BY <1>1, <1>3, <2>2, GrowthTyped
    <2> QED
        BY <2>1, <2>3, StaysOrExits DEF Stages
<1> QED
    BY <1>4, <1>5, <1>6, <1>7, <1>8, <1>9 DEF Provision

\* Every other step leaves the topics as they are; a pod that dies starts again.
LEMMA TopicsStep == ProvisionInv /\ [Next]_vars => ProvisionInv'
<1> SUFFICES ASSUME ProvisionInv, [Next]_vars PROVE ProvisionInv'
    OBVIOUS
<1>1. ASSUME NEW p \in Pods, Boots(p) \/ Fails(p) PROVE ProvisionInv'
    BY <1>1, ProvisionStep DEF Boots, Fails
<1>2. ASSUME UNCHANGED <<target, parts, stage, turn>>, faults' = faults \/ faults' = faults + 1
      PROVE  ProvisionInv'
    BY <1>2 DEF ProvisionInv, TopicTypes, Behind, At
<1>3. ASSUME NEW p \in Pods, Crash(p) PROVE ProvisionInv'
    <2>1. Goto(p, "down") /\ UNCHANGED <<target, parts, turn>> /\ faults' = faults + 1
        BY <1>3 DEF Crash
    <2>2. faults' \in Nat /\ parts' \in [1 .. NTopics -> 0 .. MaxPartitions]
        BY <2>1 DEF ProvisionInv, TopicTypes
    <2>3. \A t \in 1 .. NTopics : parts'[t] \in Int /\ parts'[t] = parts[t]
        BY <2>1, <2>2
    <2>4. \A t \in 1 .. NTopics : parts'[t] >= parts[t]
        BY <2>3
    <2> QED
        BY <2>1, <2>2, <2>4, StaysOrExits DEF Stages
<1>4. ASSUME NEW p \in Pods,
             \/ Commit(p)
             \/ \E q \in Partitions : Assign(p, q) \/ Fetch(p, q)
             \/ \E i \in 1 .. MaxJobs : Finish(p, i)
      PROVE  ProvisionInv'
    BY <1>2, <1>4 DEF Commit, Assign, Fetch, Finish, topicVars
<1>5. ASSUME NEW q \in Partitions, Produce(q) \/ Revoke(q) PROVE ProvisionInv'
    BY <1>2, <1>5 DEF Produce, Revoke, topicVars
<1>6. CASE SampleStarts \/ SampleReads \/ SampleEnds \/ SampleFails \/ UNCHANGED vars
    BY <1>2, <1>6 DEF SampleStarts, SampleReads, SampleEnds, SampleFails, Faulty, vars, topicVars
<1> QED
    BY <1>1, <1>3, <1>4, <1>5, <1>6 DEF Next

\* Whatever other pods, of the same or another release, do to the topics
\* meanwhile, and wherever a boot is cut short: a pod that goes on with its boot
\* finds in every topic the partitions it wants.
THEOREM BootHasPartitions == Spec => []ReadyHasTarget
<1>1. Init => ProvisionInv
    BY DEF Init, TopicsInit, ProvisionInv, TopicTypes, Behind, At, Stages
<1>2. ProvisionInv => ReadyHasTarget
    <2>1. \A p \in Pods : At(p, "ready") => Behind(p) = 1 .. NTopics
        BY DEF Behind, At
    <2> QED
        BY <2>1 DEF ProvisionInv, ReadyHasTarget
<1> QED
    BY <1>1, <1>2, TopicsStep, PTL DEF Spec

-----------------------------------------------------------------------------
(* The lag poller                                                          *)

\* The strengthening that makes LagNotUnderReported inductive: between the two
\* reads, an offset that was read as committed has not gone back.
LagInv ==
    /\ step \in {"idle", "listed", "read", "set"}
    /\ step = "read" =>
        \A q \in DOMAIN sampled \ excused : sampled[q] \in Int /\ sampled[q] <= committed[q]

\* An offset read as committed is at most the commit of the moment, and an end
\* offset without an error is the end of the log.
LEMMA Responses ==
    ASSUME GroupTypes, NEW missing, NEW failed
    PROVE  /\ \A q \in DOMAIN Response("committed", missing, failed) :
                /\ Response("committed", missing, failed)[q] \in Int
                /\ Response("committed", missing, failed)[q] <= committed[q]
           /\ \A q \in (Listed \ missing) \ failed :
                /\ q \in DOMAIN Response("ends", missing, failed)
                /\ Response("ends", missing, failed)[q] = log[q]
<1>1. \A q \in Listed : log[q] \in Nat /\ committed[q] \in Nat
    BY DEF GroupTypes, Listed
<1>2. \A q \in Listed \ missing :
        Response("committed", missing, failed)[q] = IF q \in failed THEN -1 ELSE committed[q]
    BY DEF Response
<1>3. DOMAIN Response("committed", missing, failed) = Listed \ missing
    BY DEF Response
<1>4. \A q \in (Listed \ missing) \ failed :
        /\ q \in DOMAIN Response("ends", missing, failed)
        /\ Response("ends", missing, failed)[q] = log[q]
    BY DEF Response
<1> QED
    BY <1>1, <1>2, <1>3, <1>4

\* A commit that goes back after the first read excuses its partition.
LEMMA AcceptedExcuses ==
    ASSUME GroupTypes, LagInv, NEW p \in Pods, Commit(p)
    PROVE  LagInv'
<1>1. committed \in [Partitions -> Nat] /\ UNCHANGED <<step, sampled>>
    BY DEF GroupTypes, Commit
<1>2. CASE UNCHANGED <<committed, excused>>
    BY <1>1, <1>2 DEF LagInv
<1>3. CASE step # "read"
    BY <1>1, <1>3 DEF LagInv
<1>4. ASSUME step = "read", NEW job, job = Head(jobs[p]), Accepted(job) PROVE LagInv'
    <2>1. job.part \in Partitions /\ job.to \in Nat
        <3>1. 1 \in 1 .. Len(jobs[p]) /\ Head(jobs[p]) = jobs[p][1]
            BY DEF Commit, GroupTypes
        <3> QED
            BY <1>4, <3>1, JobFields
    <2>2. /\ committed' = [committed EXCEPT ![job.part] = job.to]
          /\ excused' = IF job.to < committed[job.part] THEN excused \cup {job.part} ELSE excused
        BY <1>4 DEF Accepted
    <2>3. ASSUME NEW q \in DOMAIN sampled \ excused'
          PROVE  sampled[q] \in Int /\ sampled[q] <= committed'[q]
        <3>1. q \notin excused /\ sampled[q] \in Int /\ sampled[q] <= committed[q]
            BY <1>4, <2>2, <2>3 DEF LagInv
        <3>2. CASE q = job.part
            <4>1. committed'[q] = job.to /\ ~(job.to < committed[q])
                BY <1>1, <2>1, <2>2, <2>3, <3>2
            <4>2. committed[q] \in Nat
                BY <1>1, <2>1, <3>2
            <4> QED
                BY <2>1, <3>1, <4>1, <4>2
        <3>3. CASE q # job.part
            BY <1>1, <2>1, <2>2, <3>1, <3>3
        <3> QED
            BY <3>2, <3>3
    <2> QED
        BY <1>1, <1>4, <2>3 DEF LagInv
<1> QED
    BY <1>2, <1>3, <1>4 DEF Commit

\* Every step keeps the invariant of the poller.
LEMMA LagStep == GroupTypes /\ LagInv /\ [Next]_vars => LagInv'
<1> SUFFICES ASSUME GroupTypes, LagInv, [Next]_vars PROVE LagInv'
    OBVIOUS
<1>1. ASSUME UNCHANGED <<step, sampled, excused, committed>> PROVE LagInv'
    BY <1>1 DEF LagInv
<1>2. ASSUME NEW p \in Pods,
             \/ Boots(p) \/ Fails(p) \/ Crash(p)
             \/ \E q \in Partitions : Assign(p, q) \/ Fetch(p, q)
             \/ \E i \in 1 .. MaxJobs : Finish(p, i)
      PROVE  LagInv'
    BY <1>1, <1>2 DEF Boots, Fails, Crash, Assign, Fetch, Finish, lagVars, groupVars
<1>3. ASSUME NEW p \in Pods, Commit(p) PROVE LagInv'
    BY <1>3, AcceptedExcuses
<1>4. ASSUME NEW q \in Partitions, Produce(q) \/ Revoke(q) PROVE LagInv'
    BY <1>1, <1>4 DEF Produce, Revoke, lagVars, groupVars
<1>5. CASE SampleReads
    <2>1. PICK missing \in SUBSET Listed, failed \in SUBSET Listed :
            sampled' = Response("committed", missing, failed)
        BY <1>5 DEF SampleReads, FetchOrder
    <2>2. step' = "read" /\ committed' = committed
        BY <1>5 DEF SampleReads, groupVars
    <2>3. \A q \in DOMAIN Response("committed", missing, failed) :
            /\ Response("committed", missing, failed)[q] \in Int
            /\ Response("committed", missing, failed)[q] <= committed[q]
        BY Responses
    <2> QED
        BY <2>1, <2>2, <2>3 DEF LagInv
<1>6. CASE SampleStarts \/ SampleEnds \/ SampleFails
    BY <1>6 DEF SampleStarts, SampleEnds, SampleFails, LagInv
<1>7. CASE UNCHANGED vars
    BY <1>1, <1>7 DEF vars, lagVars, groupVars
<1> QED
    BY <1>2, <1>3, <1>4, <1>5, <1>6, <1>7 DEF Next

\* The gauge is set from a commit that has not gone back since, and from the end
\* offset of the moment.
LEMMA GaugeCovers ==
    ASSUME GroupTypes, LagInv, [Next]_vars, step = "read", step' = "set",
           NEW q \in Listed \ excused'
    PROVE  gauge'[q] >= log[q] - committed[q]
<1>1. SampleEnds
    BY DEF Next, Boots, Fails, Crash, Commit, Assign, Fetch, Finish, Produce, Revoke,
           SampleStarts, SampleReads, SampleFails, vars, lagVars
<1>2. PICK missing \in SUBSET Listed, failed \in SUBSET Listed :
        /\ excused' = excused \cup (missing \cup failed)
        /\ Report(Response("ends", missing, failed), sampled)
    BY <1>1 DEF SampleEnds, FetchOrder, Faulty
<1>3. q \in Partitions /\ log[q] \in Nat /\ committed[q] \in Nat
    BY DEF GroupTypes, Listed
<1>4. PICK ends : ends = Response("ends", missing, failed)
    OBVIOUS
<1>5. q \in DOMAIN ends /\ ends[q] = log[q]
    <2>1. q \in (Listed \ missing) \ failed
        BY <1>2
    <2> QED
        BY <1>4, <2>1, Responses
<1>6. PICK from : from = IF q \in DOMAIN sampled THEN sampled[q] ELSE 0
    OBVIOUS
<1>7. gauge'[q] = DiffLag(log[q], from)
    BY <1>2, <1>3, <1>4, <1>5, <1>6 DEF Report
<1>8. from \in Int /\ from <= committed[q]
    BY <1>2, <1>3, <1>6 DEF LagInv
<1> QED
    BY <1>3, <1>7, <1>8 DEF DiffLag

\* Reading the committed offsets before the end offsets never hides lag of a
\* partition that the sample listed and got the end offset of: the group may
\* commit, and producers append, between the poller's requests.
THEOREM LagIsReported == Spec => LagNotUnderReported
<1>1. Init => LagInv
    BY DEF Init, LagInv
<1>2. GroupInv => GroupTypes
    BY DEF GroupInv
<1>3. GroupTypes /\ LagInv /\ [Next]_vars =>
        (step = "read" /\ step' = "set" =>
            \A q \in Listed \ excused' : gauge'[q] >= log[q] - committed[q])
    BY GaugeCovers
<1>4. Spec => []LagInv
    BY <1>1, <1>2, Inductive, LagStep, PTL DEF Spec
<1> QED
    BY <1>2, <1>3, <1>4, Inductive, PTL DEF Spec, LagNotUnderReported

-----------------------------------------------------------------------------
(* Commits that go back                                                    *)

\* Two batches of one queue that one assignment fetched.
Siblings(queue, i, k) ==
    i < k /\ queue[i].part = queue[k].part /\ queue[i].epoch = queue[k].epoch

\* An assignment's commits stay below the position it fetches next from.
CommitsOrdered ==
    \A q \in Partitions :
        /\ committer[q] <= epoch[q]
        /\ owner[q] # {} /\ committer[q] = epoch[q] => committed[q] <= position[q]

\* A batch lies above what its assignment has committed, below its later ones
\* and below the position of the owner, when that is the pod that holds it.
BatchOrdered(p, i) ==
    LET job == jobs[p][i]
    IN /\ job.epoch <= epoch[job.part]
       /\ job.epoch = committer[job.part] => committed[job.part] <= job.to
       /\ job.epoch = epoch[job.part] /\ owner[job.part] # {} =>
            owner[job.part] = {p} /\ job.to <= position[job.part]
       /\ \A k \in 1 .. Len(jobs[p]) : Siblings(jobs[p], i, k) => job.to <= jobs[p][k].to

BatchesOrdered == \A p \in Pods : \A i \in 1 .. Len(jobs[p]) : BatchOrdered(p, i)

\* The batches of an assignment are all held by one pod.
EpochsExclusive ==
    \A p1, p2 \in Pods : \A i \in 1 .. Len(jobs[p1]), k \in 1 .. Len(jobs[p2]) :
        /\ jobs[p1][i].part = jobs[p2][k].part
        /\ jobs[p1][i].epoch = jobs[p2][k].epoch
        => p1 = p2

\* The strengthening that makes BackOnlyByHandover inductive.
HandoverInv == CommitsOrdered /\ BatchesOrdered /\ EpochsExclusive

\* Two batches of the same records, done or not.
SameBatch(a, b) == a.part = b.part /\ a.to = b.to /\ a.epoch = b.epoch

\* A step after which each queue is what it was, less its first batches.
Shifted(shift) ==
    \A p \in Pods : \A i \in 1 .. Len(jobs'[p]) :
        i + shift[p] \in 1 .. Len(jobs[p]) /\ SameBatch(jobs'[p][i], jobs[p][i + shift[p]])

\* A batch lies above the commits of its assignment.
AboveCommits ==
    \A p \in Pods : \A i \in 1 .. Len(jobs[p]) :
        jobs[p][i].epoch = committer[jobs[p][i].part] => committed[jobs[p][i].part] <= jobs[p][i].to

\* A step that fetches and assigns nothing keeps the order of the batches.
LEMMA ShiftedStep ==
    ASSUME HandoverInv, NEW shift \in [Pods -> Nat], Shifted(shift),
           UNCHANGED <<epoch, position>>,
           \A q \in Partitions : owner'[q] # {} => owner'[q] = owner[q],
           GroupTypes', CommitsOrdered', AboveCommits'
    PROVE  HandoverInv'
<1>1. ASSUME NEW p \in Pods, NEW i \in 1 .. Len(jobs'[p])
      PROVE  /\ i + shift[p] \in 1 .. Len(jobs[p])
             /\ SameBatch(jobs'[p][i], jobs[p][i + shift[p]])
             /\ jobs'[p][i].part \in Partitions
    <2>1. jobs'[p][i] \in Jobs
        BY DEF GroupTypes
    <2> QED
        BY <2>1 DEF Shifted, Jobs
<1>2. BatchesOrdered'
    <2> SUFFICES ASSUME NEW p \in Pods, NEW i \in 1 .. Len(jobs'[p])
                 PROVE  BatchOrdered(p, i)'
        BY DEF BatchesOrdered
    <2>1. PICK j \in 1 .. Len(jobs[p]) : j = i + shift[p] /\ SameBatch(jobs'[p][i], jobs[p][j])
        BY <1>1
    <2>2. /\ jobs[p][j].epoch <= epoch[jobs[p][j].part]
          /\ jobs[p][j].epoch = epoch[jobs[p][j].part] /\ owner[jobs[p][j].part] # {} =>
                owner[jobs[p][j].part] = {p} /\ jobs[p][j].to <= position[jobs[p][j].part]
          /\ \A k \in 1 .. Len(jobs[p]) : Siblings(jobs[p], j, k) => jobs[p][j].to <= jobs[p][k].to
        BY DEF HandoverInv, BatchesOrdered, BatchOrdered
    <2>3. jobs'[p][i].epoch = committer'[jobs'[p][i].part]
            => committed'[jobs'[p][i].part] <= jobs'[p][i].to
        BY DEF AboveCommits
    <2>4. ASSUME NEW k \in 1 .. Len(jobs'[p]), Siblings(jobs'[p], i, k)
          PROVE  jobs'[p][i].to <= jobs'[p][k].to
        <3>1. k + shift[p] \in 1 .. Len(jobs[p]) /\ SameBatch(jobs'[p][k], jobs[p][k + shift[p]])
            BY <1>1
        <3>2. j < k + shift[p]
            BY <2>1, <2>4 DEF Siblings
        <3>3. Siblings(jobs[p], j, k + shift[p])
            BY <2>1, <2>4, <3>1, <3>2 DEF Siblings, SameBatch
        <3> QED
            BY <2>1, <2>2, <3>1, <3>3 DEF SameBatch
    <2> QED
        BY <1>1, <2>1, <2>2, <2>3, <2>4 DEF SameBatch, BatchOrdered
<1>3. EpochsExclusive'
    <2> SUFFICES ASSUME NEW p1 \in Pods, NEW p2 \in Pods,
                        NEW i \in 1 .. Len(jobs'[p1]), NEW k \in 1 .. Len(jobs'[p2]),
                        jobs'[p1][i].part = jobs'[p2][k].part,
                        jobs'[p1][i].epoch = jobs'[p2][k].epoch
                 PROVE  p1 = p2
        BY DEF EpochsExclusive
    <2>1. /\ i + shift[p1] \in 1 .. Len(jobs[p1]) /\ k + shift[p2] \in 1 .. Len(jobs[p2])
          /\ SameBatch(jobs'[p1][i], jobs[p1][i + shift[p1]])
          /\ SameBatch(jobs'[p2][k], jobs[p2][k + shift[p2]])
        BY <1>1
    <2>2. PICK j1 \in 1 .. Len(jobs[p1]) : SameBatch(jobs'[p1][i], jobs[p1][j1])
        BY <2>1
    <2>3. PICK j2 \in 1 .. Len(jobs[p2]) : SameBatch(jobs'[p2][k], jobs[p2][j2])
        BY <2>1
    <2>4. jobs[p1][j1].part = jobs[p2][j2].part /\ jobs[p1][j1].epoch = jobs[p2][j2].epoch
        BY <2>2, <2>3 DEF SameBatch
    <2> QED
        BY <2>4 DEF HandoverInv, EpochsExclusive
<1> QED
    BY <1>2, <1>3 DEF HandoverInv

\* A step that leaves offsets and commits alone keeps the invariant when it
\* takes batches and partitions away at most.
LEMMA HandoverFrame ==
    ASSUME HandoverInv, GroupTypes, GroupTypes', UNCHANGED <<epoch, position, committed, committer>>,
           \A q \in Partitions : owner'[q] # {} => owner'[q] = owner[q],
           \A p \in Pods :
                \/ Len(jobs'[p]) = 0
                \/ /\ Len(jobs'[p]) = Len(jobs[p])
                   /\ \A i \in 1 .. Len(jobs[p]) : SameBatch(jobs'[p][i], jobs[p][i])
    PROVE  HandoverInv'
<1> DEFINE shift == [p \in Pods |-> 0]
<1>1. shift \in [Pods -> Nat] /\ \A p \in Pods : shift[p] = 0
    OBVIOUS
<1>2. Shifted(shift)
    BY <1>1 DEF Shifted
<1>3. CommitsOrdered'
    <2>1. \A q \in Partitions : owner'[q] # {} => owner[q] # {}
        OBVIOUS
    <2> QED
        BY <2>1 DEF HandoverInv, CommitsOrdered
<1>4. AboveCommits'
    <2> SUFFICES ASSUME NEW p \in Pods, NEW i \in 1 .. Len(jobs'[p])
                 PROVE  jobs'[p][i].epoch = committer[jobs'[p][i].part]
                            => committed[jobs'[p][i].part] <= jobs'[p][i].to
        BY DEF AboveCommits
    <2>1. i \in 1 .. Len(jobs[p]) /\ SameBatch(jobs'[p][i], jobs[p][i])
        OBVIOUS
    <2>2. jobs[p][i].epoch = committer[jobs[p][i].part]
            => committed[jobs[p][i].part] <= jobs[p][i].to
        BY <2>1 DEF HandoverInv, BatchesOrdered, BatchOrdered
    <2> QED
        BY <2>1, <2>2 DEF SameBatch
<1> HIDE DEF shift
<1> QED
    BY <1>1, <1>2, <1>3, <1>4, ShiftedStep

\* A new assignment has no batch and no commit yet.
LEMMA AssignHandover ==
    ASSUME HandoverInv, GroupTypes, NEW p \in Pods, NEW q \in Partitions, Assign(p, q)
    PROVE  HandoverInv'
<1>1. /\ UNCHANGED <<jobs, committed, committer>> /\ epoch \in [Partitions -> Nat]
      /\ owner \in [Partitions -> SUBSET Pods] /\ position \in [Partitions -> Nat]
      /\ committer \in [Partitions -> Nat]
      /\ epoch' = [epoch EXCEPT ![q] = @ + 1]
      /\ owner' = [owner EXCEPT ![q] = {p}]
      /\ position' = [position EXCEPT ![q] = committed[q]]
    BY DEF Assign, GroupTypes
<1>2. CommitsOrdered'
    <2> SUFFICES ASSUME NEW r \in Partitions
                 PROVE  /\ committer[r] <= epoch'[r]
                        /\ owner'[r] # {} /\ committer[r] = epoch'[r] => committed[r] <= position'[r]
        BY <1>1 DEF CommitsOrdered
    <2>1. /\ committer[r] <= epoch[r] /\ committer[r] \in Nat /\ epoch[r] \in Nat
          /\ owner[r] # {} /\ committer[r] = epoch[r] => committed[r] <= position[r]
        BY <1>1 DEF HandoverInv, CommitsOrdered
    <2>2. CASE r = q
        BY <1>1, <2>1, <2>2
    <2>3. CASE r # q
        BY <1>1, <2>1, <2>3
    <2> QED
        BY <2>2, <2>3
<1>3. BatchesOrdered'
    <2> SUFFICES ASSUME NEW x \in Pods, NEW i \in 1 .. Len(jobs[x])
                 PROVE  BatchOrdered(x, i)'
        BY <1>1 DEF BatchesOrdered
    <2> DEFINE job == jobs[x][i]
    <2>1. /\ job.epoch <= epoch[job.part]
          /\ job.epoch = committer[job.part] => committed[job.part] <= job.to
          /\ job.epoch = epoch[job.part] /\ owner[job.part] # {} =>
                owner[job.part] = {x} /\ job.to <= position[job.part]
          /\ \A k \in 1 .. Len(jobs[x]) : Siblings(jobs[x], i, k) => job.to <= jobs[x][k].to
        BY DEF HandoverInv, BatchesOrdered, BatchOrdered
    <2>2. job.part \in Partitions /\ job.epoch \in Nat /\ epoch[job.part] \in Nat
        BY <1>1, JobFields
    <2> HIDE DEF job
    <2>3. CASE job.part = q
        <3>1. epoch'[job.part] = epoch[job.part] + 1
            BY <1>1, <2>2, <2>3
        <3>2. job.epoch <= epoch'[job.part] /\ job.epoch # epoch'[job.part]
            BY <2>1, <2>2, <3>1
        <3> QED
            BY <1>1, <2>1, <3>2 DEF job, BatchOrdered, Siblings
    <2>4. CASE job.part # q
        <3>1. /\ epoch'[job.part] = epoch[job.part] /\ owner'[job.part] = owner[job.part]
              /\ position'[job.part] = position[job.part]
            BY <1>1, <2>2, <2>4
        <3> QED
            BY <1>1, <2>1, <3>1 DEF job, BatchOrdered, Siblings
    <2> QED
        BY <2>3, <2>4
<1>4. EpochsExclusive'
    BY <1>1 DEF HandoverInv, EpochsExclusive
<1> QED
    BY <1>2, <1>3, <1>4 DEF HandoverInv

\* The owner's next batch lies above its others, and nobody else holds any of
\* the same assignment.
LEMMA FetchHandover ==
    ASSUME HandoverInv, GroupTypes, NEW p \in Pods, NEW q \in Partitions, Fetch(p, q)
    PROVE  HandoverInv'
<1>1. PICK to \in position[q] + 1 .. log[q] :
        /\ jobs' = [jobs EXCEPT ![p] =
             Append(@, [part |-> q, from |-> position[q] + 1, to |-> to, epoch |-> epoch[q],
                        done |-> FALSE])]
        /\ position' = [position EXCEPT ![q] = to]
    BY DEF Fetch
<1>2. /\ owner[q] = {p} /\ UNCHANGED <<epoch, owner, committed, committer>>
      /\ jobs \in [Pods -> Seq(Jobs)] /\ position \in [Partitions -> Nat]
      /\ position[q] \in Nat /\ to \in Nat /\ to > position[q] /\ log[q] \in Nat
      /\ committed \in [Partitions -> Nat] /\ epoch \in [Partitions -> Nat]
    BY <1>1 DEF Fetch, GroupTypes
<1>3. PICK job : /\ job = [part |-> q, from |-> position[q] + 1, to |-> to, epoch |-> epoch[q],
                           done |-> FALSE]
                 /\ jobs'[p] = Append(jobs[p], job)
    BY <1>1, <1>2
<1>4. job.part = q /\ job.to = to /\ job.epoch = epoch[q]
    BY <1>3
<1>5. PICK n \in Nat : n = Len(jobs[p])
    BY DEF GroupTypes
<1>6. /\ Len(jobs'[p]) = n + 1 /\ jobs'[p][n + 1] = job
      /\ \A i \in 1 .. n : jobs'[p][i] = jobs[p][i]
    BY <1>2, <1>3, <1>5
<1>7. \A x \in Pods \ {p} : jobs'[x] = jobs[x]
    BY <1>1, <1>2
<1>8. /\ \A r \in Partitions : position'[r] >= position[r] /\ position'[r] \in Nat
      /\ position'[q] = to
    BY <1>1, <1>2
<1>9. CommitsOrdered'
    <2> SUFFICES ASSUME NEW r \in Partitions, owner[r] # {}, committer[r] = epoch[r]
                 PROVE  committed[r] <= position'[r]
        BY <1>2 DEF HandoverInv, CommitsOrdered
    <2>1. committed[r] <= position[r] /\ position[r] \in Nat /\ committed[r] \in Nat
        BY <1>2 DEF HandoverInv, CommitsOrdered
    <2> QED
        BY <1>8, <2>1
<1>10. ASSUME NEW x \in Pods, NEW i \in 1 .. Len(jobs[x])
       PROVE  /\ i \in 1 .. Len(jobs'[x]) /\ jobs'[x][i] = jobs[x][i]
              /\ jobs[x][i].part = q /\ jobs[x][i].epoch = epoch[q]
                    => x = p /\ jobs[x][i].to <= position[q]
              /\ jobs[x][i].part \in Partitions /\ jobs[x][i].to \in Nat
    <2>1. i \in 1 .. Len(jobs'[x]) /\ jobs'[x][i] = jobs[x][i]
        <3>1. CASE x = p
            BY <1>5, <1>6, <3>1
        <3>2. CASE x # p
            BY <1>7, <3>2
        <3> QED
            BY <3>1, <3>2
    <2>2. jobs[x][i].part \in Partitions /\ jobs[x][i].to \in Nat
        BY JobFields
    <2>3. jobs[x][i].part = q /\ jobs[x][i].epoch = epoch[q]
            => owner[q] = {x} /\ jobs[x][i].to <= position[q]
        <3>1. BatchOrdered(x, i)
            BY DEF HandoverInv, BatchesOrdered
        <3>2. owner[q] # {}
            BY <1>2
        <3> QED
            BY <3>1, <3>2 DEF BatchOrdered
    <2>4. owner[q] = {x} => x = p
        BY <1>2
    <2> QED
        BY <2>1, <2>2, <2>3, <2>4
<1>11. ASSUME NEW x \in Pods, NEW i \in 1 .. Len(jobs'[x])
       PROVE  i \in 1 .. Len(jobs[x]) \/ (x = p /\ i = n + 1)
    BY <1>5, <1>6, <1>7
<1>12. BatchesOrdered'
    <2> SUFFICES ASSUME NEW x \in Pods, NEW i \in 1 .. Len(jobs'[x])
                 PROVE  BatchOrdered(x, i)'
        BY DEF BatchesOrdered
    <2>1. CASE i \in 1 .. Len(jobs[x])
        <3> DEFINE old == jobs[x][i]
        <3>1. /\ old.epoch <= epoch[old.part]
              /\ old.epoch = committer[old.part] => committed[old.part] <= old.to
              /\ old.epoch = epoch[old.part] /\ owner[old.part] # {} =>
                    owner[old.part] = {x} /\ old.to <= position[old.part]
              /\ \A k \in 1 .. Len(jobs[x]) : Siblings(jobs[x], i, k) => old.to <= jobs[x][k].to
            BY <2>1 DEF HandoverInv, BatchesOrdered, BatchOrdered
        <3>2. /\ jobs'[x][i] = old /\ old.part \in Partitions /\ old.to \in Nat
              /\ old.part = q /\ old.epoch = epoch[q] => x = p /\ old.to <= position[q]
            BY <1>10, <2>1
        <3>3. old.to <= position[old.part] => old.to <= position'[old.part]
            <4>1. position[old.part] \in Nat /\ position'[old.part] \in Nat
                BY <1>2, <1>8, <3>2
            <4>2. position'[old.part] >= position[old.part]
                BY <1>8, <3>2
            <4> QED
                BY <3>2, <4>1, <4>2
        <3> HIDE DEF old
        <3>4. ASSUME NEW k \in 1 .. Len(jobs'[x]), Siblings(jobs'[x], i, k)
              PROVE  old.to <= jobs'[x][k].to
            <4>1. CASE k \in 1 .. Len(jobs[x])
                <5>1. jobs'[x][k] = jobs[x][k]
                    BY <1>10, <4>1
                <5>2. Siblings(jobs[x], i, k)
                    BY <3>2, <3>4, <5>1 DEF Siblings, old
                <5> QED
                    BY <3>1, <4>1, <5>1, <5>2
            <4>2. CASE x = p /\ k = n + 1
                <5>1. old.part = q /\ old.epoch = epoch[q]
                    BY <1>4, <1>6, <3>2, <3>4, <4>2 DEF Siblings
                <5>2. old.to <= position[q]
                    BY <3>2, <5>1
                <5> QED
                    BY <1>2, <1>4, <1>6, <3>2, <4>2, <5>2
            <4> QED
                BY <1>11, <4>1, <4>2
        <3> QED
            BY <1>2, <3>1, <3>2, <3>3, <3>4 DEF BatchOrdered
    <2>2. CASE x = p /\ i = n + 1
        <3>1. jobs'[x][i] = job
            BY <1>6, <2>2
        <3>2. epoch[q] = committer[q] => committed[q] <= to
            <4>1. epoch[q] = committer[q] => committed[q] <= position[q]
                BY <1>2 DEF HandoverInv, CommitsOrdered
            <4>2. committed[q] \in Nat
                BY <1>2
            <4> QED
                BY <1>2, <4>1, <4>2
        <3>3. \A k \in 1 .. Len(jobs'[x]) : ~Siblings(jobs'[x], i, k)
            BY <1>6, <2>2 DEF Siblings
        <3>4. epoch[q] \in Nat /\ to <= position'[q]
            BY <1>2, <1>8
        <3> QED
            BY <1>2, <1>4, <2>2, <3>1, <3>2, <3>3, <3>4 DEF BatchOrdered
    <2> QED
        BY <1>11, <2>1, <2>2
<1>13. EpochsExclusive'
    <2> SUFFICES ASSUME NEW p1 \in Pods, NEW p2 \in Pods,
                        NEW i \in 1 .. Len(jobs'[p1]), NEW k \in 1 .. Len(jobs'[p2]),
                        jobs'[p1][i].part = jobs'[p2][k].part,
                        jobs'[p1][i].epoch = jobs'[p2][k].epoch
                 PROVE  p1 = p2
        BY DEF EpochsExclusive
    <2>1. CASE i \in 1 .. Len(jobs[p1]) /\ k \in 1 .. Len(jobs[p2])
        <3>1. jobs'[p1][i] = jobs[p1][i] /\ jobs'[p2][k] = jobs[p2][k]
            BY <1>10, <2>1
        <3> QED
            BY <2>1, <3>1 DEF HandoverInv, EpochsExclusive
    <2>2. CASE i \in 1 .. Len(jobs[p1]) /\ p2 = p /\ k = n + 1
        BY <1>4, <1>6, <1>10, <2>2
    <2>3. CASE p1 = p /\ i = n + 1 /\ k \in 1 .. Len(jobs[p2])
        BY <1>4, <1>6, <1>10, <2>3
    <2> QED
        BY <1>11, <2>1, <2>2, <2>3
<1> QED
    BY <1>9, <1>12, <1>13 DEF HandoverInv

\* A commit comes from the first batch of a queue, below the batches of its
\* assignment that are left.
LEMMA CommitHandover ==
    ASSUME HandoverInv, GroupTypes, GroupTypes', NEW p \in Pods, Commit(p)
    PROVE  /\ HandoverInv'
           /\ \A q \in Partitions : committed'[q] < committed[q] => committer'[q] # committer[q]
<1>1. PICK n \in Nat : n = Len(jobs[p])
    BY DEF GroupTypes
<1>2. PICK job : /\ job = jobs[p][1] /\ job = Head(jobs[p]) /\ n > 0
    BY <1>1 DEF Commit, GroupTypes
<1>3. /\ job.part \in Partitions /\ job.to \in Nat /\ job.epoch \in Nat
      /\ BatchOrdered(p, 1) /\ 1 \in 1 .. Len(jobs[p])
    <2>1. 1 \in 1 .. Len(jobs[p])
        BY <1>1, <1>2
    <2> QED
        BY <1>2, <2>1, JobFields DEF HandoverInv, BatchesOrdered
<1>4. /\ UNCHANGED <<owner, epoch, position>>
      /\ Len(jobs'[p]) = n - 1 /\ \A i \in 1 .. n - 1 : jobs'[p][i] = jobs[p][i + 1]
      /\ \A x \in Pods \ {p} : jobs'[x] = jobs[x]
    <2>1. /\ jobs \in [Pods -> Seq(Jobs)] /\ jobs[p] \in Seq(Jobs) /\ jobs[p] # <<>>
          /\ jobs' = [jobs EXCEPT ![p] = Tail(@)] /\ UNCHANGED <<owner, epoch, position>>
        BY DEF Commit, GroupTypes
    <2> QED
        BY <1>1, <2>1
<1>5. /\ committed \in [Partitions -> Nat] /\ committer \in [Partitions -> Nat]
      /\ epoch \in [Partitions -> Nat] /\ position \in [Partitions -> Nat]
    BY DEF GroupTypes
<1>6. \/ UNCHANGED <<committed, committer>>
      \/ /\ committed' = [committed EXCEPT ![job.part] = job.to]
         /\ committer' = [committer EXCEPT ![job.part] = job.epoch]
    BY <1>2 DEF Commit, Accepted
<1> DEFINE shift == [x \in Pods |-> IF x = p THEN 1 ELSE 0]
<1>7. shift \in [Pods -> Nat] /\ Shifted(shift)
    <2>1. shift \in [Pods -> Nat]
        OBVIOUS
    <2> SUFFICES ASSUME NEW x \in Pods, NEW i \in 1 .. Len(jobs'[x])
                 PROVE  /\ i + shift[x] \in 1 .. Len(jobs[x])
                        /\ SameBatch(jobs'[x][i], jobs[x][i + shift[x]])
        BY <2>1 DEF Shifted
    <2>2. CASE x = p
        <3>1. shift[x] = 1 /\ i \in 1 .. n - 1
            BY <1>4, <2>2
        <3> QED
            BY <1>1, <1>4, <2>2, <3>1 DEF SameBatch
    <2>3. CASE x # p
        <3>1. shift[x] = 0 /\ jobs'[x] = jobs[x]
            BY <1>4, <2>3
        <3>2. i + shift[x] = i
            BY <3>1
        <3> QED
            BY <3>1, <3>2 DEF SameBatch
    <2> QED
        BY <2>2, <2>3
<1> HIDE DEF shift
<1>8. CommitsOrdered'
    <2> SUFFICES ASSUME NEW r \in Partitions
                 PROVE  /\ committer'[r] <= epoch[r]
                        /\ owner[r] # {} /\ committer'[r] = epoch[r] => committed'[r] <= position[r]
        BY <1>4 DEF CommitsOrdered
    <2>1. /\ committer[r] <= epoch[r]
          /\ owner[r] # {} /\ committer[r] = epoch[r] => committed[r] <= position[r]
        BY DEF HandoverInv, CommitsOrdered
    <2>2. CASE committed'[r] = committed[r] /\ committer'[r] = committer[r]
        BY <2>1, <2>2
    <2>3. CASE r = job.part /\ committed'[r] = job.to /\ committer'[r] = job.epoch
        BY <1>2, <1>3, <2>3 DEF BatchOrdered
    <2> QED
        BY <1>3, <1>5, <1>6, <2>2, <2>3
<1>9. AboveCommits'
    <2> SUFFICES ASSUME NEW x \in Pods, NEW i \in 1 .. Len(jobs'[x]),
                        jobs'[x][i].epoch = committer'[jobs'[x][i].part]
                 PROVE  committed'[jobs'[x][i].part] <= jobs'[x][i].to
        BY DEF AboveCommits
    <2>1. PICK j \in 1 .. Len(jobs[x]) : j = i + shift[x] /\ SameBatch(jobs'[x][i], jobs[x][j])
        BY <1>7 DEF Shifted
    <2>2. PICK b : b = jobs[x][j]
        OBVIOUS
    <2>3. /\ b.epoch = committer[b.part] => committed[b.part] <= b.to
          /\ b.part \in Partitions /\ b.to \in Nat
        BY <2>2, JobFields DEF HandoverInv, BatchesOrdered, BatchOrdered
    <2>4. jobs'[x][i].part = b.part /\ jobs'[x][i].to = b.to /\ jobs'[x][i].epoch = b.epoch
        BY <2>1, <2>2 DEF SameBatch
    <2>5. CASE committed'[b.part] = committed[b.part] /\ committer'[b.part] = committer[b.part]
        BY <2>3, <2>4, <2>5
    <2>6. CASE b.part = job.part /\ committed'[b.part] = job.to /\ committer'[b.part] = job.epoch
        <3>1. x = p
            BY <1>2, <1>3, <2>2, <2>4, <2>6 DEF HandoverInv, EpochsExclusive
        <3>2. j = i + 1
            <4>1. shift[x] = 1
                BY <3>1 DEF shift
            <4> QED
                BY <2>1, <4>1
        <3>3. Siblings(jobs[p], 1, j)
            BY <1>2, <2>2, <2>4, <2>6, <3>1, <3>2 DEF Siblings
        <3>4. job.to <= b.to
            BY <1>2, <1>3, <2>2, <3>1, <3>3 DEF BatchOrdered
        <3> QED
            BY <2>4, <2>6, <3>4
    <2> QED
        BY <1>3, <1>5, <1>6, <2>3, <2>5, <2>6
<1>10. HandoverInv'
    BY <1>4, <1>7, <1>8, <1>9, ShiftedStep
<1>11. ASSUME NEW q \in Partitions, committed'[q] < committed[q]
       PROVE  committer'[q] # committer[q]
    <2>1. CASE UNCHANGED committed
        BY <1>5, <1>11, <2>1
    <2>2. CASE /\ committed' = [committed EXCEPT ![job.part] = job.to]
               /\ committer' = [committer EXCEPT ![job.part] = job.epoch]
        <3>1. q = job.part /\ job.to < committed[q] /\ committer'[q] = job.epoch
            BY <1>3, <1>5, <1>11, <2>2
        <3>2. job.epoch = committer[job.part] => committed[job.part] <= job.to
            BY <1>2, <1>3 DEF BatchOrdered
        <3> QED
            BY <1>3, <1>5, <3>1, <3>2
    <2> QED
        BY <1>6, <2>1, <2>2
<1> QED
    BY <1>10, <1>11

\* Every step keeps the invariant of the handovers.
LEMMA HandoverStep == HandoverInv /\ GroupTypes /\ [Next]_vars => HandoverInv'
<1> SUFFICES ASSUME HandoverInv, GroupTypes, [Next]_vars PROVE HandoverInv'
    OBVIOUS
<1>1. GroupTypes'
    BY TypeStep
<1>2. \A x \in Pods : \A i \in 1 .. Len(jobs[x]) : SameBatch(jobs[x][i], jobs[x][i])
    BY DEF SameBatch
<1>3. ASSUME UNCHANGED <<jobs, epoch, position, committed, committer>>,
             \A q \in Partitions : owner'[q] # {} => owner'[q] = owner[q]
      PROVE  HandoverInv'
    <2>1. \A x \in Pods :
            /\ Len(jobs'[x]) = Len(jobs[x])
            /\ \A i \in 1 .. Len(jobs[x]) : SameBatch(jobs'[x][i], jobs[x][i])
        BY <1>2, <1>3
    <2> QED
        BY <1>1, <1>3, <2>1, HandoverFrame
<1>4. ASSUME NEW p \in Pods, Crash(p) PROVE HandoverInv'
    <2>1. /\ jobs' = [jobs EXCEPT ![p] = <<>>] /\ jobs \in [Pods -> Seq(Jobs)]
          /\ UNCHANGED <<epoch, position, committed, committer>>
          /\ owner' = [q \in Partitions |-> IF owner[q] = {p} THEN {} ELSE owner[q]]
        BY <1>4 DEF Crash, GroupTypes
    <2>2. \A q \in Partitions : owner'[q] # {} => owner'[q] = owner[q]
        BY <2>1
    <2>3. jobs'[p] = <<>> /\ Len(jobs'[p]) = 0 /\ \A x \in Pods \ {p} : jobs'[x] = jobs[x]
        BY <2>1
    <2> QED
        BY <1>1, <1>2, <2>1, <2>2, <2>3, HandoverFrame
<1>5. ASSUME NEW p \in Pods, NEW j \in 1 .. MaxJobs, Finish(p, j) PROVE HandoverInv'
    <2>1. /\ j \in 1 .. Len(jobs[p]) /\ jobs \in [Pods -> Seq(Jobs)]
          /\ jobs' = [jobs EXCEPT ![p] = [jobs[p] EXCEPT ![j] = [jobs[p][j] EXCEPT !.done = TRUE]]]
          /\ UNCHANGED <<owner, epoch, position, committed, committer>>
        BY <1>5 DEF Finish, GroupTypes
    <2>2. PICK b : b = [jobs[p][j] EXCEPT !.done = TRUE]
        OBVIOUS
    <2>3. jobs'[p] = [jobs[p] EXCEPT ![j] = b] /\ \A x \in Pods \ {p} : jobs'[x] = jobs[x]
        BY <2>1, <2>2
    <2>4. jobs[p] \in Seq(Jobs) /\ jobs[p][j] \in Jobs
        BY <2>1
    <2>5. SameBatch(b, jobs[p][j])
        BY <2>2, <2>4 DEF Jobs, SameBatch
    <2>6. Len(jobs'[p]) = Len(jobs[p])
        BY <2>3, <2>4
    <2>7. ASSUME NEW i \in 1 .. Len(jobs[p]) PROVE SameBatch(jobs'[p][i], jobs[p][i])
        <3>1. i \in DOMAIN jobs[p]
            BY <2>4
        <3>2. jobs'[p][i] = IF i = j THEN b ELSE jobs[p][i]
            BY <2>3, <3>1
        <3> QED
            BY <1>2, <2>5, <3>2
    <2> QED
        BY <1>1, <1>2, <2>1, <2>3, <2>6, <2>7, HandoverFrame
<1>6. ASSUME NEW p \in Pods,
             \/ Boots(p) \/ Fails(p) \/ Commit(p)
             \/ \E q \in Partitions : Assign(p, q) \/ Fetch(p, q)
      PROVE  HandoverInv'
    BY <1>1, <1>3, <1>6, OtherSteps, CommitHandover, AssignHandover, FetchHandover DEF GroupSame
<1>7. ASSUME NEW q \in Partitions, Produce(q) PROVE HandoverInv'
    BY <1>3, <1>7, OtherSteps DEF GroupSame
<1>8. ASSUME NEW q \in Partitions, Revoke(q) PROVE HandoverInv'
    <2>1. /\ UNCHANGED <<jobs, epoch, position, committed, committer>>
          /\ owner' = [owner EXCEPT ![q] = {}] /\ owner \in [Partitions -> SUBSET Pods]
        BY <1>8 DEF Revoke, GroupTypes
    <2> QED
        BY <1>3, <2>1
<1>9. CASE SampleStarts \/ SampleReads \/ SampleEnds \/ SampleFails \/ UNCHANGED vars
    BY <1>3, <1>9, OtherSteps DEF GroupSame
<1> QED
    BY <1>4, <1>5, <1>6, <1>7, <1>8, <1>9 DEF Next

\* Only a commit moves an offset, and the committing assignment with it.
LEMMA BackByCommit ==
    ASSUME HandoverInv, GroupTypes, [Next]_vars,
           NEW q \in Partitions, committed'[q] < committed[q]
    PROVE  committer'[q] # committer[q]
<1>1. committed[q] \in Nat
    BY DEF GroupTypes
<1>2. committed' # committed
    BY <1>1
<1>3. PICK p \in Pods : Commit(p)
    BY <1>2 DEF Next, Boots, Fails, Crash, Assign, Fetch, Finish, Produce, Revoke,
                SampleStarts, SampleReads, SampleEnds, SampleFails, vars, groupVars
<1> QED
    BY <1>3, CommitHandover, TypeStep

\* However often a partition changes hands, an owner never undoes its own
\* progress: an offset goes back only from one assignment's commit to another's.
THEOREM BackOnlyBetweenOwners == Spec => BackOnlyByHandover
<1>1. Init => HandoverInv
    BY DEF Init, HandoverInv, CommitsOrdered, BatchesOrdered, EpochsExclusive
<1>2. GroupInv => GroupTypes
    BY DEF GroupInv
<1>3. Spec => []HandoverInv
    BY <1>1, <1>2, Inductive, HandoverStep, PTL DEF Spec
<1>4. HandoverInv /\ GroupTypes /\ [Next]_vars =>
        \A q \in Partitions : committed'[q] < committed[q] => committer'[q] # committer[q]
    BY BackByCommit
<1> QED
    BY <1>2, <1>3, <1>4, Inductive, PTL DEF Spec, BackOnlyByHandover

=============================================================================
