------------------------------ MODULE Attributes ------------------------------
(***************************************************************************)
(* Attributes of OTLP requests and what all mappers do with them           *)
(* (internal/infra/otlp, fingerprint, timebucket).  Texts are opaque; a    *)
(* list of attributes is a function from its keys to values.  A value has  *)
(* a kind, the text AnyValueString renders it as and, for bytes, the bytes *)
(* themselves taken for a text.  Fields a mapper copies are left out.      *)
(***************************************************************************)
EXTENDS Integers, FiniteSets, Sequences, Functions

CONSTANTS
    KeyOrder,       \* the attribute keys, in lexical order
    MaxAttributes,  \* maxSpanAttributes and maxLogAttributes
    MaxBytes,       \* maxGenAIContentBytes and maxCommentBytes
    RuneStarts,     \* the texts longer than that, and where their runes start
    Prefix,         \* what remains of each when it is cut
    Numbers,        \* the texts that parse as numbers, and their values
    Word,           \* the number of values of a uint32
    NsPerSecond,
    BucketSeconds

ASSUME MappingAssumption ==
    /\ {MaxAttributes, MaxBytes, Word, NsPerSecond, BucketSeconds} \subseteq Nat \ {0}
    /\ DOMAIN RuneStarts = DOMAIN Prefix

ASSUME OrderAssumption ==
    /\ KeyOrder \in Seq(Range(KeyOrder))
    /\ \A i, j \in DOMAIN KeyOrder : KeyOrder[i] = KeyOrder[j] => i = j

Get(m, key) == IF key \in DOMAIN m THEN m[key] ELSE ""
Put(m, key, v) == [k \in DOMAIN m \cup {key} |-> IF k = key THEN v ELSE m[k]]

\* The entries of m and n; where both have a key, those of n.
Over(m, n) == [k \in DOMAIN m \cup DOMAIN n |-> IF k \in DOMAIN n THEN n[k] ELSE m[k]]

Least(S) == CHOOSE x \in S : \A y \in S : x <= y
Greatest(S) == CHOOSE x \in S : \A y \in S : x >= y

\* A value without content is the JSON of nil.
AnyValueString(v) == CASE v.kind = "nil" -> "" [] v.kind = "unset" -> "null" [] OTHER -> v.text

AttrsToMap(kvs) == [k \in DOMAIN kvs |-> AnyValueString(kvs[k])]

FirstNonEmpty(m, keys) ==
    LET present == {i \in DOMAIN keys : Get(m, keys[i]) # ""}
    IN IF present = {} THEN "" ELSE m[keys[Least(present)]]

Rank(key) == CHOOSE i \in DOMAIN KeyOrder : KeyOrder[i] = key
Smallest(keys, n) == {k \in keys : Cardinality({j \in keys : Rank(j) < Rank(k)}) < n}
CapStringMap(m) == Restrict(m, Smallest(DOMAIN m, MaxAttributes))

\* Mutant of TruncateUTF8: cut at the byte.
BugTruncateUTF8(text) ==
    IF text \notin DOMAIN Prefix THEN text ELSE Prefix[text][MaxBytes]

\* The last rune that starts at or before the limit does not fit.
TruncateUTF8(text) ==
    IF text \notin DOMAIN Prefix THEN text
    ELSE Prefix[text][Greatest({0} \cup {c \in RuneStarts[text] : c <= MaxBytes})]

OfKind(kvs, kinds) == {k \in DOMAIN kvs : kvs[k].kind \in kinds}

\* Bytes are taken as a text; lists and nested attributes are left out.
TypedAttrs(kvs) ==
    [str  |-> CapStringMap([k \in OfKind(kvs, {"string", "bytes"}) |->
                    IF kvs[k].kind = "bytes" THEN kvs[k].raw ELSE kvs[k].text]),
     num  |-> [k \in OfKind(kvs, {"int", "double"}) |-> kvs[k].text],
     bool |-> [k \in OfKind(kvs, {"bool"}) |-> kvs[k].text]]

\* An identifier of zeros is none.
BytesToHex(id) == IF id = "zero" THEN "" ELSE id

ParseUint(text) == IF text \in DOMAIN Numbers THEN Numbers[text] ELSE 0

BucketStart(seconds) == ((seconds \div BucketSeconds) * BucketSeconds) % Word

ServiceNameLabels ==
    <<"service.name", "cloudwatch.log.group.name", "k8s.deployment.name", "k8s.deployment.uid",
      "k8s.statefulset.name", "k8s.statefulset.uid", "k8s.daemonset.name", "k8s.daemonset.uid",
      "k8s.job.name", "k8s.job.uid", "k8s.cronjob.name", "k8s.cronjob.uid", "faas.name">>

ResolveResource(m) ==
    [service     |-> FirstNonEmpty(m, ServiceNameLabels),
     host        |-> FirstNonEmpty(m, <<"k8s.node.name", "k8s.node.uid", "host.id", "host.name",
                                        "host.ip", "host">>),
     pod         |-> FirstNonEmpty(m, <<"k8s.pod.name", "k8s.pod.uid">>),
     container   |-> FirstNonEmpty(m, <<"k8s.container.name", "container.name", "container_name">>),
     environment |-> FirstNonEmpty(m, <<"deployment.environment", "env">>),
     version     |-> FirstNonEmpty(m, <<"service.version", "version">>),
     namespace   |-> FirstNonEmpty(m, <<"service.namespace", "k8s.namespace.name">>)]

=============================================================================
