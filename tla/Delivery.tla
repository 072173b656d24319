------------------------------ MODULE Delivery ------------------------------
(***************************************************************************)
(* What the consumer of a topic promises: the group's committed offsets    *)
(* only move forward, and only over records that are accounted for (in     *)
(* ClickHouse, in the dead-letter queue, or in a counter of records that   *)
(* were dropped).  It says nothing of batches, workers, order or restarts. *)
(***************************************************************************)
EXTENDS Integers

CONSTANTS
    Partitions,     \* partitions of the topic
    LogLen          \* offsets in each partition

VARIABLES
    committed,      \* the group's committed offset of each partition
    accounted       \* the records accounted for

vars == <<committed, accounted>>

Records == Partitions \X (0 .. LogLen - 1)
Offsets == [Partitions -> 0 .. LogLen]
Below(offs) == {r \in Records : r[2] < offs[r[1]]}

Init ==
    /\ committed = [p \in Partitions |-> 0]
    /\ accounted = {}

\* Records become accounted for, in any order and any number at once.
Account ==
    /\ accounted' \in SUBSET Records
    /\ accounted \subseteq accounted'
    /\ UNCHANGED committed

\* The committed offsets pass accounted records only.
Commit ==
    /\ committed' \in Offsets
    /\ \A p \in Partitions : committed[p] <= committed'[p]
    /\ Below(committed') \subseteq accounted
    /\ UNCHANGED accounted

Next == Account \/ Commit

Spec == Init /\ [][Next]_vars

=============================================================================
