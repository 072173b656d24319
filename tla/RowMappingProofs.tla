--------------------------- MODULE RowMappingProofs ---------------------------
(***************************************************************************)
(* Theorems about the mapping of requests to rows, for any attributes,     *)
(* resources and records: capping attributes twice changes nothing, rows   *)
(* that share a map stay as they are and keep what their records say, all  *)
(* can be marshalled, every point has its series, and usage adds up.       *)
(* Adding up rests on a theory of sums over finite sets, which the library *)
(* of the prover does not have.                                            *)
(***************************************************************************)
EXTENDS RowMapping, FiniteSetTheorems, TLAPS

-----------------------------------------------------------------------------
(* The n smallest keys                                                     *)

Below(S, k) == {j \in S : Rank(j) < Rank(k)}

\* Every key has its place in the order.
LEMMA RankType ==
    ASSUME NEW k \in Range(KeyOrder)
    PROVE  Rank(k) \in DOMAIN KeyOrder /\ KeyOrder[Rank(k)] = k /\ Rank(k) \in Nat
<1>1. PICK i \in DOMAIN KeyOrder : KeyOrder[i] = k  BY DEF Range
<1>2. Rank(k) \in DOMAIN KeyOrder /\ KeyOrder[Rank(k)] = k  BY <1>1 DEF Rank
<1>3. DOMAIN KeyOrder = 1 .. Len(KeyOrder) /\ Len(KeyOrder) \in Nat  BY OrderAssumption
<1> QED  BY <1>2, <1>3

\* There are finitely many keys.
LEMMA KeysFinite == IsFiniteSet(Range(KeyOrder))
<1>1. DOMAIN KeyOrder = 1 .. Len(KeyOrder) /\ Len(KeyOrder) \in Nat  BY OrderAssumption
<1>2. ASSUME NEW last \in Int PROVE IsFiniteSet(1 .. last)  BY FS_Interval
<1>3. IsFiniteSet(DOMAIN KeyOrder)  BY <1>1, <1>2
<1>4. KeyOrder \in Surjection(DOMAIN KeyOrder, Range(KeyOrder))
  BY OrderAssumption, <1>1 DEF Surjection, Range
<1> QED  BY <1>3, <1>4, FS_Surjection DEF ExistsSurjection

\* What is below a key in a set of keys is finite, and grows with the set and
\* with the key.
LEMMA BelowBounds ==
    ASSUME NEW S, NEW T, S \subseteq T, T \subseteq Range(KeyOrder), NEW k, NEW l,
           Below(S, k) \subseteq Below(T, l)
    PROVE  /\ Cardinality(Below(S, k)) \in Nat
           /\ Cardinality(Below(T, l)) \in Nat
           /\ Cardinality(Below(S, k)) <= Cardinality(Below(T, l))
<1>1. IsFiniteSet(T)  BY KeysFinite, FS_Subset
<1>2. Below(T, l) \subseteq T  BY DEF Below
<1>3. IsFiniteSet(Below(T, l))  BY <1>1, <1>2, FS_Subset
<1> QED  BY <1>3, FS_Subset, FS_CardinalityType

\* Of keys that are left out, one has none below it that is left out too.
LEMMA LeastKey ==
    ASSUME NEW T, T \subseteq Range(KeyOrder), NEW j \in T
    PROVE  \E i \in T : \A k \in T : ~(Rank(k) < Rank(i))
<1> DEFINE less == {ss \in Nat \X Nat : ss[1] < ss[2]}
           ranks == {Rank(k) : k \in T}
<1>1. IsWellFoundedOn(less, Nat)  BY NatLessThanWellFounded DEF OpToRel
<1>2. ranks \subseteq Nat /\ ranks # {}  BY RankType
<1>3. PICK r \in ranks : \A x \in ranks : ~(<<x, r>> \in less)
  <2> HIDE DEF less, ranks
  <2> QED  BY <1>1, <1>2, WFMin
<1>4. PICK i \in T : r = Rank(i)  OBVIOUS
<1>5. ASSUME NEW k \in T PROVE ~(Rank(k) < Rank(i))
  <2>1. Rank(k) \in ranks /\ Rank(k) \in Nat /\ Rank(i) \in Nat  BY RankType
  <2> QED  BY <2>1, <1>3, <1>4
<1> QED  BY <1>5

\* The n smallest keys of two sets are those of the n smallest of the first and
\* all of the second (CapStringMap once for the resource, typed_attrs.go:44).
LEMMA SmallestOnce ==
    \A A, B \in SUBSET Range(KeyOrder), n \in Nat :
        Smallest(Smallest(A, n) \cup B, n) = Smallest(A \cup B, n)
<1> SUFFICES ASSUME NEW A \in SUBSET Range(KeyOrder), NEW B \in SUBSET Range(KeyOrder), NEW n \in Nat
             PROVE  Smallest(Smallest(A, n) \cup B, n) = Smallest(A \cup B, n)
  OBVIOUS
<1> DEFINE L == Smallest(A, n)
           U == A \cup B
           V == L \cup B
<1>1. L = {k \in A : Cardinality(Below(A, k)) < n}
      /\ Smallest(U, n) = {k \in U : Cardinality(Below(U, k)) < n}
      /\ Smallest(V, n) = {k \in V : Cardinality(Below(V, k)) < n}
  BY DEF Smallest, Below
<1>2. L \subseteq A /\ V \subseteq U /\ A \subseteq U /\ U \subseteq Range(KeyOrder)  BY <1>1
<1> HIDE DEF L, U, V
<1>3. ASSUME NEW k \in Smallest(U, n) PROVE k \in Smallest(V, n)
  <2>1. k \in U /\ Cardinality(Below(U, k)) < n  BY <1>1
  <2>2. Below(A, k) \subseteq Below(U, k) /\ Below(V, k) \subseteq Below(U, k)  BY <1>2 DEF Below
  <2>3. Cardinality(Below(A, k)) < n  BY <2>1, <2>2, <1>2, BelowBounds
  <2>4. Cardinality(Below(V, k)) < n  BY <2>1, <2>2, <1>2, BelowBounds
  <2>5. k \in V  BY <2>1, <2>3, <1>1 DEF U, V
  <2> QED  BY <2>4, <2>5, <1>1
<1>4. ASSUME NEW k \in Smallest(V, n) PROVE k \in Smallest(U, n)
  <2>1. k \in V /\ k \in U /\ Cardinality(Below(V, k)) < n  BY <1>1, <1>2
  <2>2. ASSUME NEW j \in A \ L, Rank(j) < Rank(k) PROVE FALSE
    <3>1. A \ L \subseteq Range(KeyOrder)  OBVIOUS
    <3>2. PICK i \in A \ L : \A x \in A \ L : ~(Rank(x) < Rank(i))  BY <3>1, LeastKey, <2>2
    <3>3. Rank(i) \in Nat /\ Rank(j) \in Nat /\ Rank(k) \in Nat  BY <2>1, <1>2, RankType
    <3>4. Rank(i) < Rank(k)  BY <3>2, <3>3, <2>2
    <3>5. Below(A, i) \subseteq L  BY <3>2 DEF Below
    <3>6. Below(A, i) \subseteq Below(V, k)
      <4> SUFFICES ASSUME NEW x \in Below(A, i) PROVE x \in Below(V, k)  OBVIOUS
      <4>1. x \in A /\ Rank(x) < Rank(i) /\ Rank(x) \in Nat  BY RankType DEF Below
      <4>2. Rank(x) < Rank(k)  BY <4>1, <3>3, <3>4
      <4> QED  BY <4>2, <3>5 DEF Below, V
    <3>7. Below(A, i) = Below(L, i)  BY <3>5, <1>2 DEF Below
    <3>8. Below(L, i) \subseteq Below(V, k) /\ L \subseteq V /\ V \subseteq Range(KeyOrder)
      BY <3>6, <3>7, <1>2 DEF V
    <3>9. Cardinality(Below(L, i)) < n  BY <3>8, BelowBounds, <2>1
    <3>10. i \in L  BY <3>9, <3>7, <1>1
    <3> QED  BY <3>10
  <2>3. Below(U, k) = Below(V, k)  BY <2>2, <1>2 DEF Below, U, V
  <2> QED  BY <2>1, <2>3, <1>1
<1> QED  BY <1>3, <1>4 DEF L, U, V

\* A map capped, extended and capped again is the map extended and capped.
LEMMA CapOnce ==
    ASSUME NEW base, NEW own,
           NEW A, A \subseteq Range(KeyOrder), DOMAIN base = A,
           NEW B, B \subseteq Range(KeyOrder), DOMAIN own = B
    PROVE  CapStringMap(Over(CapStringMap(base), own)) = CapStringMap(Over(base, own))
<1> DEFINE n == MaxAttributes
<1>1. n \in Nat  BY MappingAssumption
<1>2. CapStringMap(base) = [k \in Smallest(A, n) |-> base[k]]  BY DEF CapStringMap, Restrict
<1>3. Over(CapStringMap(base), own) =
        [k \in Smallest(A, n) \cup B |-> IF k \in B THEN own[k] ELSE CapStringMap(base)[k]]
  BY <1>2 DEF Over
<1>4. Over(base, own) = [k \in A \cup B |-> IF k \in B THEN own[k] ELSE base[k]]  BY DEF Over
<1>5. Smallest(Smallest(A, n) \cup B, n) = Smallest(A \cup B, n)
  <2>1. A \in SUBSET Range(KeyOrder) /\ B \in SUBSET Range(KeyOrder)  OBVIOUS
  <2> HIDE DEF n
  <2> QED  BY <1>1, <2>1, SmallestOnce, Zenon
<1>6. Smallest(A \cup B, n) \subseteq Smallest(A, n) \cup B
  <2>1. Smallest(Smallest(A, n) \cup B, n) \subseteq Smallest(A, n) \cup B  BY DEF Smallest
  <2> QED  BY <2>1, <1>5
<1>7. CapStringMap(Over(CapStringMap(base), own)) =
        [k \in Smallest(A \cup B, n) |-> IF k \in B THEN own[k] ELSE CapStringMap(base)[k]]
  BY <1>3, <1>5, <1>6 DEF CapStringMap, Restrict
<1>8. Smallest(A \cup B, n) \subseteq A \cup B  BY DEF Smallest
<1>9. CapStringMap(Over(base, own)) =
        [k \in Smallest(A \cup B, n) |-> IF k \in B THEN own[k] ELSE base[k]]
  BY <1>4, <1>8 DEF CapStringMap, Restrict
<1> QED  BY <1>2, <1>6, <1>7, <1>9

-----------------------------------------------------------------------------
(* The rows of a request                                                   *)

\* A list of whatever it holds.
Listed(s) == s \in Seq(Range(s))

\* The lists of a request grow together, and its records are of its resources.
Indexed ==
    /\ Listed(resources) /\ Listed(bases) /\ Listed(inputs) /\ Listed(rows)
    /\ Len(bases) = Len(resources)
    /\ Len(rows) = Len(inputs)
    /\ phase = "open" => Len(bases) > 0
    /\ \A i \in DOMAIN inputs : inputs[i].of \in DOMAIN bases

\* What a signal makes of a resource and of a record.
BaseOf(kind, res) == IF kind = "spans" THEN ResourceBaseAttrs(res) ELSE res

\* The row of a record, given the map of its resource.
SpanRowOf(base, res, s) ==
    LET m == NormalizeMessagingAttrs(AttrsToMap(s.attrs))
    IN BuildSpanRow(MergeAndCapAttrs(base, m, IsGenAI(m)), ResolveResource(res), s)

LogRowOf(base, lr, time) == BuildLogRow(PatchResource(base, TypedAttrs(lr.attrs).str), lr, time)

RowOf(kind, time, base, res, record) ==
    CASE kind = "spans" -> SpanRowOf(base, res, record)
      [] kind = "logs"  -> LogRowOf(base, record, time)
      [] OTHER          -> ScalarRow(base, ResolveResource(res), record).row

\* The records a request of this signal may bring.
RecordsOf(kind) ==
    CASE kind = "spans" -> Spans [] kind = "logs" -> Logs [] OTHER -> Points

\* The map of a resource is still that its attributes had, and a row is that of
\* its record and this map.
RowsAsBuilt ==
    /\ \A j \in DOMAIN bases :
        /\ resources[j] \in {AttrsToMap(attrs) : attrs \in Resources}
        /\ bases[j] = BaseOf(signal, resources[j])
    /\ \A i \in DOMAIN rows :
        /\ inputs[i].record \in RecordsOf(signal)
        /\ rows[i] = RowOf(signal, now, bases[inputs[i].of], resources[inputs[i].of],
                           inputs[i].record)

\* The invariant of the rows.
RowInv == Indexed /\ RowsAsBuilt

\* Appending to a list leaves its entries.
LEMMA Appended ==
    ASSUME NEW s, Listed(s), NEW x
    PROVE  /\ Listed(Append(s, x))
           /\ Len(s) \in Nat /\ DOMAIN s = 1 .. Len(s)
           /\ Len(Append(s, x)) = Len(s) + 1
           /\ DOMAIN Append(s, x) = 1 .. Len(s) + 1
           /\ \A i \in DOMAIN s : Append(s, x)[i] = s[i]
           /\ Append(s, x)[Len(s) + 1] = x
<1> DEFINE S == Range(s) \cup {x}
<1>1. s \in Seq(S) /\ x \in S
  <2>1. s \in Seq(Range(s))  BY DEF Listed
  <2> HIDE DEF S
  <2>2. Range(s) \subseteq S /\ x \in S  BY DEF S
  <2> QED  BY <2>1, <2>2
<1> HIDE DEF S
<1>2. /\ Append(s, x) \in Seq(S)
      /\ Len(s) \in Nat /\ DOMAIN s = 1 .. Len(s)
      /\ Len(Append(s, x)) = Len(s) + 1
      /\ DOMAIN Append(s, x) = 1 .. Len(s) + 1
      /\ \A i \in DOMAIN s : Append(s, x)[i] = s[i]
      /\ Append(s, x)[Len(s) + 1] = x
  BY <1>1
<1>3. Listed(Append(s, x))
  <2> DEFINE t == Append(s, x)
  <2>1. t \in Seq(S)  BY <1>2
  <2> HIDE DEF t
  <2>2. t \in Seq(Range(t))  BY <2>1 DEF Range
  <2> QED  BY <2>2 DEF Listed, t
<1> QED  BY <1>2, <1>3

\* No list holds anything at first.
LEMMA InitInv == Init => RowInv
<1> SUFFICES ASSUME Init PROVE RowInv  OBVIOUS
<1>1. Listed(<<>>) /\ Len(<<>>) = 0 /\ DOMAIN <<>> = {}  BY DEF Listed
<1>2. resources = <<>> /\ bases = <<>> /\ inputs = <<>> /\ rows = <<>> /\ phase = "between"  BY DEF Init
<1>3. Indexed  BY <1>1, <1>2 DEF Indexed
<1>4. RowsAsBuilt  BY <1>1, <1>2 DEF RowsAsBuilt
<1> QED  BY <1>3, <1>4 DEF RowInv

\* A resource is listed with its map.
LEMMA StartResourceInv ==
    ASSUME RowInv, NEW attrs \in Resources, StartResource(attrs)
    PROVE  /\ RowInv' /\ UNCHANGED <<signal, inputs, rows>>
           /\ \A i \in DOMAIN rows : bases'[inputs[i].of] = bases[inputs[i].of]
<1> DEFINE res == AttrsToMap(attrs)
           base == BaseOf(signal, res)
<1>1. /\ resources' = Append(resources, res) /\ bases' = Append(bases, base)
      /\ UNCHANGED <<signal, now, inputs, rows>>
  BY DEF StartResource, BaseOf
<1>2. base = BaseOf(signal, res) /\ res \in {AttrsToMap(a) : a \in Resources}  OBVIOUS
<1> HIDE DEF res, base
<1>3. /\ Listed(resources) /\ Listed(bases) /\ Len(bases) = Len(resources)
      /\ \A i \in DOMAIN inputs : inputs[i].of \in DOMAIN bases
      /\ Listed(inputs) /\ Listed(rows) /\ Len(rows) = Len(inputs)
  BY DEF RowInv, Indexed
<1>4. /\ Listed(resources') /\ Len(resources) \in Nat /\ DOMAIN resources = 1 .. Len(resources)
      /\ Len(resources') = Len(resources) + 1
      /\ \A j \in DOMAIN resources : resources'[j] = resources[j]
      /\ resources'[Len(resources) + 1] = res
  BY <1>1, <1>3, Appended
<1>5. /\ Listed(bases') /\ Len(bases) \in Nat /\ DOMAIN bases = 1 .. Len(bases)
      /\ Len(bases') = Len(bases) + 1 /\ DOMAIN bases' = 1 .. Len(bases) + 1
      /\ \A j \in DOMAIN bases : bases'[j] = bases[j]
      /\ bases'[Len(bases) + 1] = base
  BY <1>1, <1>3, Appended
<1>6. Indexed'  BY <1>1, <1>3, <1>4, <1>5 DEF Indexed
<1>7. ASSUME NEW i \in DOMAIN rows
      PROVE  /\ bases'[inputs[i].of] = bases[inputs[i].of]
             /\ resources'[inputs[i].of] = resources[inputs[i].of]
  <2>1. DOMAIN rows = DOMAIN inputs /\ DOMAIN bases = DOMAIN resources  BY <1>3, Appended
  <2> QED  BY <2>1, <1>3, <1>4, <1>5
<1>8. RowsAsBuilt'
  <2>1. ASSUME NEW j \in DOMAIN bases'
        PROVE  /\ resources'[j] \in {AttrsToMap(a) : a \in Resources}
               /\ bases'[j] = BaseOf(signal, resources'[j])
    <3>1. CASE j = Len(bases) + 1  BY <3>1, <1>2, <1>3, <1>4, <1>5
    <3>2. CASE j # Len(bases) + 1
      <4>1. j \in DOMAIN bases /\ j \in DOMAIN resources  BY <3>2, <1>3, <1>4, <1>5
      <4> QED  BY <4>1, <1>4, <1>5 DEF RowInv, RowsAsBuilt
    <3> QED  BY <3>1, <3>2
  <2> QED  BY <1>1, <1>7, <2>1 DEF RowInv, RowsAsBuilt
<1> QED  BY <1>1, <1>6, <1>7, <1>8 DEF RowInv

\* A row whose mapper left the map of its resource is added and no other changes.
LEMMA AddRowAppends ==
    ASSUME Indexed, NEW record, NEW row, NEW base, base = bases[Len(resources)],
           AddRow(record, row, base)
    PROVE  /\ Indexed'
           /\ UNCHANGED <<signal, resources, bases>>
           /\ DOMAIN rows = 1 .. Len(rows) /\ Len(rows) \in Nat
           /\ DOMAIN rows' = 1 .. Len(rows) + 1
           /\ \A i \in DOMAIN rows : rows'[i] = rows[i] /\ inputs'[i] = inputs[i]
           /\ rows'[Len(rows) + 1] = row
           /\ inputs'[Len(rows) + 1] = [of |-> Len(resources), record |-> record]
           /\ Len(resources) \in DOMAIN bases
<1> DEFINE input == [of |-> Len(resources), record |-> record]
<1>1. /\ inputs' = Append(inputs, input) /\ rows' = Append(rows, row)
      /\ bases' = [bases EXCEPT ![Len(resources)] = base]
      /\ phase = "open" /\ UNCHANGED <<signal, phase, resources>>
  BY DEF AddRow, Current
<1>2. input.of = Len(resources)  OBVIOUS
<1> HIDE DEF input
<1>3. /\ Listed(resources) /\ Listed(bases) /\ Listed(inputs) /\ Listed(rows)
      /\ Len(bases) = Len(resources) /\ Len(rows) = Len(inputs) /\ Len(bases) > 0
      /\ \A i \in DOMAIN inputs : inputs[i].of \in DOMAIN bases
  BY <1>1 DEF Indexed
<1>4. /\ Listed(inputs') /\ Len(inputs) \in Nat /\ DOMAIN inputs = 1 .. Len(inputs)
      /\ Len(inputs') = Len(inputs) + 1 /\ DOMAIN inputs' = 1 .. Len(inputs) + 1
      /\ \A i \in DOMAIN inputs : inputs'[i] = inputs[i]
      /\ inputs'[Len(inputs) + 1] = input
  BY <1>1, <1>3, Appended
<1>5. /\ Listed(rows') /\ Len(rows) \in Nat /\ DOMAIN rows = 1 .. Len(rows)
      /\ Len(rows') = Len(rows) + 1 /\ DOMAIN rows' = 1 .. Len(rows) + 1
      /\ \A i \in DOMAIN rows : rows'[i] = rows[i]
      /\ rows'[Len(rows) + 1] = row
  BY <1>1, <1>3, Appended
<1>6. Len(bases) \in Nat /\ DOMAIN bases = 1 .. Len(bases)  BY <1>3, Appended
<1>7. Len(resources) \in DOMAIN bases  BY <1>3, <1>6
<1>8. bases' = bases
  <2>1. bases = [j \in DOMAIN bases |-> bases[j]]  BY <1>3 DEF Listed
  <2> QED  BY <1>1, <1>7, <2>1
<1>9. Indexed'
  <2>1. ASSUME NEW i \in DOMAIN inputs' PROVE inputs'[i].of \in DOMAIN bases
    <3>1. CASE i = Len(inputs) + 1  BY <3>1, <1>4, <1>2, <1>7
    <3>2. CASE i # Len(inputs) + 1
      <4>1. i \in DOMAIN inputs  BY <3>2, <1>4
      <4> QED  BY <4>1, <1>3, <1>4
    <3> QED  BY <3>1, <3>2
  <2> QED  BY <2>1, <1>1, <1>3, <1>4, <1>5, <1>8 DEF Indexed
<1> QED  BY <1>1, <1>3, <1>4, <1>5, <1>7, <1>8, <1>9 DEF input

\* Whatever the signal, a record becomes the row it makes with the map of its
\* resource, and leaves that map: a log's patch is made on a copy.
LEMMA MapRecordRow ==
    ASSUME (\E s \in Spans : MapSpan(s)) \/ (\E lr \in Logs : MapLog(lr))
               \/ (\E dp \in Points : MapPoint(dp))
    PROVE  \E record \in RecordsOf(signal) :
               AddRow(record, RowOf(signal, now, bases[Current], resources[Current], record),
                      bases[Current])
<1>1. ASSUME NEW s \in Spans, MapSpan(s)
      PROVE  AddRow(s, RowOf("spans", now, bases[Current], resources[Current], s), bases[Current])
             /\ signal = "spans"
  BY <1>1 DEF MapSpan, RowOf, SpanRowOf, MergeAndCapAttrs
<1>2. ASSUME NEW lr \in Logs, MapLog(lr)
      PROVE  AddRow(lr, RowOf("logs", now, bases[Current], resources[Current], lr), bases[Current])
             /\ signal = "logs"
  BY <1>2 DEF MapLog, RowOf, LogRowOf, PatchResource
<1>3. ASSUME NEW dp \in Points, MapPoint(dp)
      PROVE  AddRow(dp, RowOf("metrics", now, bases[Current], resources[Current], dp), bases[Current])
             /\ signal = "metrics"
  BY <1>3 DEF MapPoint, RowOf
<1> QED  BY <1>1, <1>2, <1>3 DEF RecordsOf

\* Whatever a record is, its mapper appends one row, made by the current map of
\* its resource, and leaves the maps and the other rows alone.
LEMMA MapRecordInv ==
    ASSUME RowInv,
           (\E s \in Spans : MapSpan(s)) \/ (\E lr \in Logs : MapLog(lr))
               \/ (\E dp \in Points : MapPoint(dp))
    PROVE  /\ RowInv' /\ UNCHANGED <<signal, bases>>
           /\ \A i \in DOMAIN rows : rows'[i] = rows[i] /\ inputs'[i] = inputs[i]
<1>1. PICK record \in RecordsOf(signal) :
          AddRow(record, RowOf(signal, now, bases[Current], resources[Current], record),
                 bases[Current])
  BY MapRecordRow
<1>2. PICK row : row = RowOf(signal, now, bases[Current], resources[Current], record)
  OBVIOUS
<1>3. /\ Indexed' /\ UNCHANGED <<signal, resources, bases>>
      /\ DOMAIN rows = 1 .. Len(rows) /\ Len(rows) \in Nat
      /\ DOMAIN rows' = 1 .. Len(rows) + 1
      /\ \A i \in DOMAIN rows : rows'[i] = rows[i] /\ inputs'[i] = inputs[i]
      /\ rows'[Len(rows) + 1] = row
      /\ inputs'[Len(rows) + 1] = [of |-> Len(resources), record |-> record]
  BY <1>1, <1>2, AddRowAppends DEF RowInv, Current
<1>4. UNCHANGED now  BY <1>1 DEF AddRow
<1>5. ASSUME NEW i \in DOMAIN rows'
      PROVE  /\ inputs'[i].record \in RecordsOf(signal)
             /\ rows'[i] = RowOf(signal, now, bases[inputs'[i].of], resources[inputs'[i].of],
                                 inputs'[i].record)
  <2>1. CASE i = Len(rows) + 1
    <3>1. inputs'[i].record = record /\ inputs'[i].of = Len(resources)  BY <1>3, <2>1
    <3> QED  BY <1>2, <1>3, <2>1, <3>1 DEF Current
  <2>2. CASE i # Len(rows) + 1
    <3>1. i \in DOMAIN rows  BY <2>2, <1>3
    <3>2. rows'[i] = rows[i] /\ inputs'[i] = inputs[i]  BY <3>1, <1>3
    <3> QED  BY <3>1, <3>2 DEF RowInv, RowsAsBuilt
  <2> QED  BY <2>1, <2>2
<1>6. RowsAsBuilt'  BY <1>3, <1>4, <1>5 DEF RowInv, RowsAsBuilt
<1> QED  BY <1>3, <1>6 DEF RowInv

\* What ends a resource or the request leaves its lists.
LEMMA EndsKeep ==
    ASSUME RowInv,
           EndResource \/ (\E total \in Sizes : Finish(total)) \/ UNCHANGED vars
    PROVE  RowInv' /\ UNCHANGED <<signal, bases, rows, inputs>>
<1>1. UNCHANGED <<signal, now, resources, bases, inputs, rows>>
      /\ (phase' = "open" => phase = "open")
  BY DEF EndResource, Finish, vars
<1>2. Indexed'  BY <1>1 DEF RowInv, Indexed
<1>3. RowsAsBuilt'  BY <1>1 DEF RowInv, RowsAsBuilt
<1> QED  BY <1>1, <1>2, <1>3 DEF RowInv

-----------------------------------------------------------------------------
(* What holds of the rows of every request                                 *)

\* Rows are as their records and the map of their resource make them, however
\* many share it (mapRequest of spans and of logs).
THEOREM Inductive == Spec => []RowInv
<1>1. Init => RowInv  BY InitInv
<1>2. RowInv /\ [Next]_vars => RowInv'
  <2> SUFFICES ASSUME RowInv, [Next]_vars PROVE RowInv'  OBVIOUS
  <2>1. CASE \E attrs \in Resources : StartResource(attrs)  BY <2>1, StartResourceInv
  <2>2. CASE (\E s \in Spans : MapSpan(s)) \/ (\E lr \in Logs : MapLog(lr))
             \/ (\E dp \in Points : MapPoint(dp))
    BY <2>2, MapRecordInv
  <2>3. CASE EndResource \/ (\E total \in Sizes : Finish(total)) \/ UNCHANGED vars  BY <2>3, EndsKeep
  <2> QED  BY <2>1, <2>2, <2>3 DEF Next
<1> QED  BY <1>1, <1>2, PTL DEF Spec

\* No record changes a row that was made before it, not even through the map
\* both may share (mergeAndCapAttrs, patchResource).
THEOREM SharedMapsStable == Spec => RowsStable
<1> DEFINE Stable(i) == /\ rows'[i] = rows[i]
                        /\ Held(rows', bases', inputs', i) = Held(rows, bases, inputs, i)
<1>1. RowInv /\ [Next]_vars /\ Shared => \A i \in DOMAIN rows : Stable(i)
  <2> SUFFICES ASSUME RowInv, [Next]_vars, Shared, NEW i \in DOMAIN rows PROVE Stable(i)  OBVIOUS
  <2>1. CASE \E attrs \in Resources : StartResource(attrs)
    <3>1. PICK attrs \in Resources : StartResource(attrs)  BY <2>1
    <3>2. UNCHANGED <<inputs, rows>> /\ bases'[inputs[i].of] = bases[inputs[i].of]
      BY <3>1, StartResourceInv
    <3> QED  BY <3>2 DEF Held
  <2>2. CASE (\E s \in Spans : MapSpan(s)) \/ (\E lr \in Logs : MapLog(lr))
             \/ (\E dp \in Points : MapPoint(dp))
    <3>1. UNCHANGED bases /\ rows'[i] = rows[i] /\ inputs'[i] = inputs[i]  BY <2>2, MapRecordInv
    <3> QED  BY <3>1 DEF Held
  <2>3. CASE EndResource \/ (\E total \in Sizes : Finish(total)) \/ UNCHANGED vars
    <3>1. UNCHANGED <<bases, rows, inputs>>  BY <2>3, EndsKeep
    <3> QED  BY <3>1 DEF Held
  <2> QED  BY <2>1, <2>2, <2>3 DEF Next
<1>2. RowInv /\ [Next]_vars => [Shared => \A i \in DOMAIN rows :
        /\ rows'[i] = rows[i]
        /\ Held(rows', bases', inputs', i) = Held(rows, bases, inputs, i)]_vars
  BY <1>1
<1> QED  BY <1>2, Inductive, PTL DEF Spec, RowsStable

\* What a span's row takes from the merge of its attributes, and its columns.
LEMMA SpanRowFields ==
    ASSUME NEW base, NEW res, NEW s,
           NEW m, m = NormalizeMessagingAttrs(AttrsToMap(s.attrs)),
           NEW merge, merge = MergeAndCapAttrs(base, m, IsGenAI(m))
    PROVE  /\ SpanRowOf(base, res, s).shared = merge.shared
           /\ SpanRowOf(base, res, s).own = IF merge.shared THEN <<>> ELSE merge.own
           /\ SpanRowOf(base, res, s).columns =
                Over(Read(m, SpanColumns),
                     ExtractGenAI(m, SpanDuration(s), ResolveResource(res).version))
           /\ SpanRowOf(base, res, s).events = s.events
           /\ SpanRowOf(base, res, s).dims = ResolveResource(res)
<1>1. SpanRowOf(base, res, s) = BuildSpanRow(merge, ResolveResource(res), s)
  BY DEF SpanRowOf
<1>2. PICK row : row = BuildSpanRow(merge, ResolveResource(res), s)
  OBVIOUS
<1>3. row.shared = merge.shared /\ row.own = (IF merge.shared THEN <<>> ELSE merge.own)
  BY <1>2, Zenon DEF BuildSpanRow
<1>4. row.columns = Over(Read(m, SpanColumns),
                         ExtractGenAI(m, SpanDuration(s), ResolveResource(res).version))
  BY <1>2, Zenon DEF BuildSpanRow
<1>5. row.events = s.events /\ row.dims = ResolveResource(res)
  BY <1>2, Zenon DEF BuildSpanRow
<1> QED  BY <1>1, <1>2, <1>3, <1>4, <1>5

\* What a span's row has in its columns.
LEMMA SpanRowColumns ==
    ASSUME NEW base, NEW res, NEW s
    PROVE  SpanRowOf(base, res, s).columns =
             LET m == NormalizeMessagingAttrs(AttrsToMap(s.attrs))
             IN Over(Read(m, SpanColumns),
                     ExtractGenAI(m, SpanDuration(s), ResolveResource(res).version))
<1>1. PICK m : m = NormalizeMessagingAttrs(AttrsToMap(s.attrs))  OBVIOUS
<1>2. PICK merge : merge = MergeAndCapAttrs(base, m, IsGenAI(m))  OBVIOUS
<1> QED  BY <1>1, <1>2, SpanRowFields

\* The keys of a span's attributes, once its messaging keys are normalised, all
\* have a place in the order.
LEMMA SpanKeys ==
    ASSUME NEW s \in Spans
    PROVE  LET m == NormalizeMessagingAttrs(AttrsToMap(s.attrs))
           IN /\ KeptKeys(m, IsGenAI(m)) \subseteq DOMAIN m \ PromotedKeys
              /\ DOMAIN m \ PromotedKeys \subseteq Range(KeyOrder)
<1> DEFINE m == NormalizeMessagingAttrs(AttrsToMap(s.attrs))
<1>1. ASSUME NEW f, NEW key, NEW legacy PROVE DOMAIN Fill(f, key, legacy) \subseteq DOMAIN f \cup {key}
  BY DEF Fill, Put
<1>2. DOMAIN AttrsToMap(s.attrs) = DOMAIN s.attrs  BY DEF AttrsToMap
<1>3. DOMAIN m \subseteq DOMAIN s.attrs \cup {"messaging.destination.name", "messaging.consumer.group.name"}
  BY <1>1, <1>2 DEF NormalizeMessagingAttrs
<1> HIDE DEF m
<1>4. KeptKeys(m, IsGenAI(m)) \subseteq DOMAIN m \ PromotedKeys  BY DEF KeptKeys
<1>5. DOMAIN m \ PromotedKeys \subseteq Range(KeyOrder)  BY <1>3, KeysAssumption
<1> QED  BY <1>4, <1>5 DEF m

\* A row's attributes are the smallest keys of its resource and its span, the
\* span's values first: that the resource was capped before (resourceBaseAttrs)
\* and the rest capped after (mergeAndCapAttrs) changes nothing.
THEOREM AttributesAsMerged == Spec => []AttributesKept
<1>1. RowInv => AttributesKept
  <2> SUFFICES ASSUME RowInv, signal = "spans", NEW i \in DOMAIN rows
               PROVE  Attributes(i) = CapStringMap(Over(
                        Restrict(Source(i), DOMAIN Source(i) \ PromotedKeys),
                        Restrict(SpanMap(i), KeptKeys(SpanMap(i), IsGenAI(SpanMap(i))))))
    BY DEF AttributesKept
  <2> DEFINE of == inputs[i].of
             kept == KeptKeys(SpanMap(i), IsGenAI(SpanMap(i)))
             own == Restrict(SpanMap(i), kept)
             base == Restrict(Source(i), DOMAIN Source(i) \ PromotedKeys)
  <2>1. of \in DOMAIN bases
    <3>1. DOMAIN rows = DOMAIN inputs  BY Appended DEF RowInv, Indexed
    <3> QED  BY <3>1 DEF RowInv, Indexed
  <2>2. /\ Source(i) \in {AttrsToMap(attrs) : attrs \in Resources}
        /\ bases[of] = CapStringMap(base)
        /\ inputs[i].record \in Spans
        /\ rows[i].shared = (kept = {})
        /\ rows[i].own = IF kept = {} THEN <<>> ELSE CapStringMap(Over(bases[of], own))
    <3>1. /\ Source(i) \in {AttrsToMap(attrs) : attrs \in Resources}
          /\ bases[of] = BaseOf("spans", Source(i))
          /\ inputs[i].record \in RecordsOf("spans")
          /\ rows[i] = RowOf("spans", now, bases[of], Source(i), inputs[i].record)
      BY <2>1 DEF RowInv, RowsAsBuilt, Source
    <3>2. inputs[i].record \in Spans /\ bases[of] = CapStringMap(base)
      BY <3>1 DEF RecordsOf, BaseOf, ResourceBaseAttrs
    <3>3. PICK merge : merge = MergeAndCapAttrs(bases[of], SpanMap(i), IsGenAI(SpanMap(i)))
      OBVIOUS
    <3>4. rows[i] = SpanRowOf(bases[of], Source(i), inputs[i].record)
      BY <3>1 DEF RowOf
    <3>5. rows[i].shared = merge.shared
          /\ rows[i].own = IF merge.shared THEN <<>> ELSE merge.own
      BY <3>3, <3>4, SpanRowFields DEF SpanMap
    <3>6. merge.shared = (kept = {}) /\ merge.own = CapStringMap(Over(bases[of], own))
      BY <3>3 DEF MergeAndCapAttrs
    <3> QED  BY <3>1, <3>2, <3>5, <3>6
  <2>3. DOMAIN base = DOMAIN Source(i) \ PromotedKeys /\ DOMAIN base \subseteq Range(KeyOrder)
    BY <2>2, KeysAssumption DEF AttrsToMap, Restrict
  <2>4. DOMAIN own = kept /\ kept \subseteq Range(KeyOrder)
    BY <2>2, SpanKeys DEF SpanMap, Restrict
  <2> HIDE DEF base, own, kept, of
  <2>5. CapStringMap(Over(CapStringMap(base), own)) = CapStringMap(Over(base, own))
    BY <2>3, <2>4, CapOnce
  <2>6. CASE kept = {}
    <3>1. Attributes(i) = CapStringMap(base)  BY <2>2, <2>6 DEF Attributes, Held, of
    <3>2. Over(base, own) = base
      <4>1. base = [k \in DOMAIN base |-> base[k]]  BY DEF base, Restrict
      <4> QED  BY <4>1, <2>4, <2>6 DEF Over
    <3> QED  BY <3>1, <3>2 DEF base, own, kept
  <2>7. CASE kept # {}
    <3>1. Attributes(i) = CapStringMap(Over(bases[of], own))  BY <2>2, <2>7 DEF Attributes, Held, of
    <3> QED  BY <3>1, <2>2, <2>5 DEF base, own, kept
  <2> QED  BY <2>6, <2>7
<1> QED  BY <1>1, Inductive, PTL

-----------------------------------------------------------------------------
(* Log rows                                                                *)

\* What a log's row takes from its record, and the attributes it holds.
LEMMA LogRowFields ==
    ASSUME NEW base, NEW lr, NEW time
    PROVE  LET row == LogRowOf(base, lr, time)
               patch == PatchResource(base, TypedAttrs(lr.attrs).str)
           IN /\ row.shared = patch.shared
              /\ row.own = IF patch.shared THEN <<>> ELSE patch.own
              /\ row.attrs = TypedAttrs(lr.attrs)
              /\ row.body = AnyValueString(lr.body)
              /\ row.id = ComputeLogID(BytesToHex(lr.trace), Timestamp(lr, time),
                                      AnyValueString(lr.body))
<1>1. PICK patch : patch = PatchResource(base, TypedAttrs(lr.attrs).str)
  OBVIOUS
<1>2. PICK row : row = BuildLogRow(patch, lr, time)
  OBVIOUS
<1>3. row = LogRowOf(base, lr, time)
  BY <1>1, <1>2 DEF LogRowOf
<1>4. row.shared = patch.shared /\ row.own = (IF patch.shared THEN <<>> ELSE patch.own)
  BY <1>2, Zenon DEF BuildLogRow
<1>5. row.attrs = TypedAttrs(lr.attrs) /\ row.body = AnyValueString(lr.body)
  BY <1>2, Zenon DEF BuildLogRow
<1>6. row.id = ComputeLogID(BytesToHex(lr.trace), Timestamp(lr, time), AnyValueString(lr.body))
  BY <1>2, Zenon DEF BuildLogRow
<1> QED  BY <1>1, <1>3, <1>4, <1>5, <1>6

\* The attributes of a log's row: its resource, with what that lacks from the
\* record's own.
LEMMA PatchFills ==
    ASSUME NEW res, NEW attrs, NEW k,
           k \in DOMAIN PatchResource(res, attrs).own \cup DOMAIN res \cup ResourceFallbackKeys
    PROVE  LET patch == PatchResource(res, attrs)
           IN /\ Get(patch.own, k) = IF k \in ResourceFallbackKeys /\ Get(res, k) = ""
                                     THEN Get(attrs, k) ELSE Get(res, k)
              /\ patch.shared => Get(patch.own, k) = Get(res, k)
<1> DEFINE gaps == {x \in Missing(res) : Get(attrs, x) # ""}
           fill == Restrict(attrs, gaps)
           own == Over(res, fill)
<1>1. DOMAIN fill = gaps /\ \A x \in gaps : fill[x] = attrs[x]
  BY DEF Restrict
<1>2. DOMAIN own = DOMAIN res \cup gaps
      /\ \A x \in DOMAIN own : own[x] = IF x \in gaps THEN attrs[x] ELSE res[x]
  BY <1>1 DEF Over
<1>3. PatchResource(res, attrs).own = own /\ (PatchResource(res, attrs).shared <=> gaps = {})
  BY <1>1 DEF PatchResource
<1>4. gaps = {x \in ResourceFallbackKeys : Get(res, x) = "" /\ Get(attrs, x) # ""}
  BY DEF Missing
<1> HIDE DEF gaps, fill, own
<1>5. CASE k \in gaps
  <2>1. k \in DOMAIN attrs /\ Get(attrs, k) = attrs[k]
    BY <1>4, <1>5 DEF Get
  <2> QED  BY <1>2, <1>3, <1>4, <1>5, <2>1 DEF Get
<1>6. CASE k \notin gaps
  <2>1. Get(own, k) = Get(res, k)
    BY <1>2, <1>6 DEF Get
  <2>2. k \in ResourceFallbackKeys /\ Get(res, k) = "" => Get(attrs, k) = ""
    BY <1>4, <1>6
  <2> QED  BY <1>3, <2>1, <2>2
<1> QED  BY <1>5, <1>6

\* A log's row takes from its record alone what its resource lacks
\* (patchResource), and its id is the same when the record is sent again with a
\* time of its own (computeLogID).
THEOREM LogsFromTheirRecords == Spec => []LogsKept
<1>1. RowInv => LogsKept
  <2> SUFFICES ASSUME RowInv, signal = "logs", NEW i \in DOMAIN rows
               PROVE  /\ \A k \in DOMAIN Attributes(i) \cup DOMAIN Source(i) \cup ResourceFallbackKeys :
                            Get(Attributes(i), k) =
                                IF k \in ResourceFallbackKeys /\ Get(Source(i), k) = ""
                                THEN Get(rows[i].attrs.str, k) ELSE Get(Source(i), k)
                      /\ LET lr == inputs[i].record
                         IN lr.time # 0 \/ lr.observed # 0 =>
                             ComputeLogID(BytesToHex(lr.trace), Timestamp(lr, now + 1),
                                          AnyValueString(lr.body)) = rows[i].id
    BY DEF LogsKept, FallbackOnly, RetryKeepsID
  <2> DEFINE lr == inputs[i].record
             str == TypedAttrs(lr.attrs).str
             patch == PatchResource(Source(i), str)
  <2>1. inputs[i].of \in DOMAIN bases
    <3>1. DOMAIN rows = DOMAIN inputs  BY Appended DEF RowInv, Indexed
    <3> QED  BY <3>1 DEF RowInv, Indexed
  <2>2. bases[inputs[i].of] = Source(i)
    BY <2>1 DEF RowInv, RowsAsBuilt, Source, BaseOf
  <2>3. rows[i] = LogRowOf(Source(i), lr, now)
    BY <2>2 DEF RowInv, RowsAsBuilt, RowOf
  <2>4. /\ rows[i].shared = patch.shared
        /\ rows[i].own = IF patch.shared THEN <<>> ELSE patch.own
        /\ rows[i].attrs.str = str
        /\ rows[i].id = ComputeLogID(BytesToHex(lr.trace), Timestamp(lr, now),
                                     AnyValueString(lr.body))
    BY <2>3, LogRowFields
  <2>5. Attributes(i) = IF patch.shared THEN Source(i) ELSE patch.own
    BY <2>2, <2>4 DEF Attributes, Held
  <2> HIDE DEF patch, str
  <2>6. ASSUME NEW k \in DOMAIN Attributes(i) \cup DOMAIN Source(i) \cup ResourceFallbackKeys
        PROVE  Get(Attributes(i), k) = IF k \in ResourceFallbackKeys /\ Get(Source(i), k) = ""
                                       THEN Get(str, k) ELSE Get(Source(i), k)
    <3>1. k \in DOMAIN patch.own \cup DOMAIN Source(i) \cup ResourceFallbackKeys
      BY <2>5, <2>6
    <3>2. /\ Get(patch.own, k) = IF k \in ResourceFallbackKeys /\ Get(Source(i), k) = ""
                                 THEN Get(str, k) ELSE Get(Source(i), k)
          /\ patch.shared => Get(patch.own, k) = Get(Source(i), k)
      BY <3>1, PatchFills DEF patch
    <3> QED  BY <2>5, <3>2
  <2>7. lr.time # 0 \/ lr.observed # 0 => Timestamp(lr, now + 1) = Timestamp(lr, now)
    BY DEF Timestamp
  <2> QED  BY <2>4, <2>6, <2>7
<1> QED  BY <1>1, Inductive, PTL

-----------------------------------------------------------------------------
(* The columns of a span's row                                             *)

\* A set of numbers has a least.
LEMMA LeastIs ==
    ASSUME NEW S, S \subseteq Nat, S # {}
    PROVE  Least(S) \in S /\ \A y \in S : Least(S) <= y
<1> DEFINE less == {ss \in Nat \X Nat : ss[1] < ss[2]}
<1>1. IsWellFoundedOn(less, Nat)  BY NatLessThanWellFounded DEF OpToRel
<1>2. PICK x \in S : \A y \in S : ~(<<y, x>> \in less)
  <2> HIDE DEF less
  <2> QED  BY <1>1, WFMin
<1>3. ASSUME NEW y \in S PROVE x <= y
  <2>1. x \in Nat /\ y \in Nat  OBVIOUS
  <2>2. ~(y < x)  BY <1>2, <2>1
  <2> QED  BY <2>1, <2>2
<1> QED  BY <1>3 DEF Least

\* Where one of the keys is set, the first that is gives the text: its own, or
\* that of a key before it.
LEMMA FirstIsSet ==
    ASSUME NEW m, NEW keys, DOMAIN keys \subseteq Nat, NEW k \in Range(keys), Get(m, k) # ""
    PROVE  FirstNonEmpty(m, keys) # "" /\ FirstNonEmpty(m, keys) \in Spellings(m, keys, k)
<1> DEFINE present == {i \in DOMAIN keys : Get(m, keys[i]) # ""}
<1>1. PICK i \in DOMAIN keys : keys[i] = k  BY DEF Range
<1>2. present \subseteq Nat /\ i \in present  BY <1>1
<1>3. FirstNonEmpty(m, keys) = m[keys[Least(present)]]  BY <1>2 DEF FirstNonEmpty
<1>4. Least(present) \in present /\ Least(present) <= i
  <2> HIDE DEF present
  <2> QED  BY <1>2, LeastIs
<1>5. Get(m, keys[Least(present)]) # ""  BY <1>4
<1>6. Get(m, keys[Least(present)]) = m[keys[Least(present)]]  BY <1>5 DEF Get
<1>7. m[keys[Least(present)]] \in Spellings(m, keys, k)
  <2>1. PICK j : j = Least(present)  OBVIOUS
  <2>2. j \in DOMAIN keys /\ Get(m, keys[j]) # "" /\ j <= i  BY <1>4, <2>1
  <2> QED  BY <1>1, <2>1, <2>2 DEF Spellings
<1> QED  BY <1>3, <1>5, <1>6, <1>7

\* The names of the columns, table by table.
SpanNames == DOMAIN SpanColumns
IdentityNames == DOMAIN IdentityColumns
GenAINames == DOMAIN GenAIColumns

\* The columns of a span's own attributes, none in two tables.
LEMMA ColumnNames ==
    /\ DOMAIN OwnColumns = SpanNames \cup GenAINames \cup IdentityNames \cup {"gen_ai_span_kind"}
    /\ \A c \in SpanNames : OwnColumns[c] = SpanColumns[c]
    /\ \A c \in GenAINames : OwnColumns[c] = GenAIColumns[c]
    /\ \A c \in IdentityNames : OwnColumns[c] = IdentityColumns[c]
    /\ OwnColumns["gen_ai_span_kind"] = TypeKeys
    /\ SpanNames \cap (GenAINames \cup IdentityNames) = {}
    /\ GenAINames \cap IdentityNames = {}
    /\ {"is_gen_ai", "gen_ai_span_kind"} \cap (SpanNames \cup GenAINames \cup IdentityNames) = {}
<1>1. SpanNames = {"http_method", "http_url", "http_host", "response_status_code", "db_system",
                   "db_name", "db_statement", "peer_service", "http_route"}
  BY DEF SpanNames, SpanColumns
<1>2. IdentityNames = {"llm_user_id", "llm_session_id", "llm_release"}
  BY DEF IdentityNames, IdentityColumns
<1>3. GenAINames = {"gen_ai_system", "gen_ai_operation", "gen_ai_request_model",
        "gen_ai_response_model", "gen_ai_prompt", "gen_ai_completion", "gen_ai_input_tokens",
        "gen_ai_output_tokens", "llm_tags", "llm_prompt_name", "llm_prompt_version"}
  BY DEF GenAINames, GenAIColumns
<1>4. SpanNames \cap (GenAINames \cup IdentityNames) = {}
  BY <1>1, <1>2, <1>3
<1>5. GenAINames \cap IdentityNames = {}
  BY <1>2, <1>3
<1>6. {"is_gen_ai", "gen_ai_span_kind"} \cap (SpanNames \cup GenAINames \cup IdentityNames) = {}
  BY <1>1, <1>2, <1>3
<1>7. /\ DOMAIN OwnColumns = SpanNames \cup GenAINames \cup IdentityNames \cup {"gen_ai_span_kind"}
      /\ \A c \in SpanNames : OwnColumns[c] = SpanColumns[c]
      /\ \A c \in GenAINames : OwnColumns[c] = GenAIColumns[c]
      /\ \A c \in IdentityNames : OwnColumns[c] = IdentityColumns[c]
      /\ OwnColumns["gen_ai_span_kind"] = TypeKeys
  <2> DEFINE kind == [gen_ai_span_kind |-> TypeKeys]
             last == Over(IdentityColumns, kind)
             rest == Over(GenAIColumns, last)
  <2>1. DOMAIN kind = {"gen_ai_span_kind"} /\ kind["gen_ai_span_kind"] = TypeKeys
    OBVIOUS
  <2> HIDE DEF kind
  <2>2. /\ DOMAIN last = IdentityNames \cup {"gen_ai_span_kind"}
        /\ last["gen_ai_span_kind"] = TypeKeys
        /\ \A c \in IdentityNames : last[c] = IdentityColumns[c]
    BY <1>6, <2>1 DEF Over, IdentityNames
  <2> HIDE DEF last
  <2>3. /\ DOMAIN rest = GenAINames \cup IdentityNames \cup {"gen_ai_span_kind"}
        /\ rest["gen_ai_span_kind"] = TypeKeys
        /\ \A c \in IdentityNames : rest[c] = IdentityColumns[c]
        /\ \A c \in GenAINames : rest[c] = GenAIColumns[c]
    BY <1>5, <1>6, <2>2 DEF Over, GenAINames
  <2>4. OwnColumns = Over(SpanColumns, rest)
    BY DEF OwnColumns, kind, last
  <2> HIDE DEF rest
  <2> QED  BY <1>4, <1>6, <2>3, <2>4 DEF Over, SpanNames
<1> QED  BY <1>4, <1>5, <1>6, <1>7

\* The keys of each are listed.
LEMMA ColumnKeys == \A c \in DOMAIN OwnColumns : DOMAIN OwnColumns[c] \subseteq Nat
<1>1. \A c \in SpanNames : DOMAIN SpanColumns[c] \subseteq Nat
  BY DEF SpanNames, SpanColumns
<1>2. \A c \in IdentityNames : DOMAIN IdentityColumns[c] \subseteq Nat
  BY DEF IdentityNames, IdentityColumns
<1>3. \A c \in GenAINames : DOMAIN GenAIColumns[c] \subseteq Nat
  BY DEF GenAINames, GenAIColumns
<1>4. DOMAIN TypeKeys \subseteq Nat
  BY DEF TypeKeys
<1> QED  BY <1>1, <1>2, <1>3, <1>4, ColumnNames

\* What the GenAI column c makes of the text it takes.
Made(c, text) ==
    CASE c \in {"gen_ai_prompt", "gen_ai_completion"} -> TruncateUTF8(text)
      [] c = "gen_ai_operation" -> NormalizeGenAIOperation(text)
      [] c = "llm_prompt_version" -> ParseUint(text) % Word
      [] c \in {"gen_ai_input_tokens", "gen_ai_output_tokens"} -> ParseUint(text)
      [] OTHER -> text

\* What ExtractGenAI makes of those of them that are its own.
LEMMA GenAITexts ==
    ASSUME NEW m, NEW duration, NEW version
    PROVE  LET columns == ExtractGenAI(m, duration, version)
           IN /\ DOMAIN columns \cap SpanNames = {}
              /\ {"is_gen_ai", "gen_ai_span_kind"} \subseteq DOMAIN columns
              /\ columns.is_gen_ai = IsGenAI(m)
              /\ columns.gen_ai_span_kind = GenAISpanKind(m, duration)
              /\ \A c \in GenAINames :
                    c \in DOMAIN columns /\ columns[c] = Made(c, FirstNonEmpty(m, GenAIColumns[c]))
              /\ \A c \in IdentityNames :
                    IsGenAI(m) /\ FirstNonEmpty(m, IdentityColumns[c]) # "" =>
                        c \in DOMAIN columns /\ columns[c] = FirstNonEmpty(m, IdentityColumns[c])
<1> DEFINE read == Read(m, GenAIColumns)
           identity == Read(m, IdentityColumns)
           made == [gen_ai_operation |-> NormalizeGenAIOperation(read.gen_ai_operation),
                    gen_ai_prompt |-> TruncateUTF8(read.gen_ai_prompt),
                    gen_ai_completion |-> TruncateUTF8(read.gen_ai_completion),
                    gen_ai_input_tokens |-> ParseUint(read.gen_ai_input_tokens),
                    gen_ai_output_tokens |-> ParseUint(read.gen_ai_output_tokens),
                    llm_prompt_version |-> ParseUint(read.llm_prompt_version) % Word,
                    is_gen_ai |-> IsGenAI(m),
                    gen_ai_span_kind |-> GenAISpanKind(m, duration)]
           own == IF ~IsGenAI(m) THEN [c \in DOMAIN identity |-> ""]
                  ELSE IF identity.llm_release = "" THEN [identity EXCEPT !.llm_release = version]
                  ELSE identity
           counted == {"gen_ai_operation", "gen_ai_prompt", "gen_ai_completion",
                       "gen_ai_input_tokens", "gen_ai_output_tokens", "llm_prompt_version"}
<1>1. ExtractGenAI(m, duration, version) = Over(Over(read, made), own)
  BY DEF ExtractGenAI
<1>2. /\ DOMAIN made = counted \cup {"is_gen_ai", "gen_ai_span_kind"}
      /\ made.is_gen_ai = IsGenAI(m)
      /\ made.gen_ai_span_kind = GenAISpanKind(m, duration)
      /\ made.gen_ai_operation = NormalizeGenAIOperation(read.gen_ai_operation)
      /\ made.gen_ai_prompt = TruncateUTF8(read.gen_ai_prompt)
      /\ made.gen_ai_completion = TruncateUTF8(read.gen_ai_completion)
      /\ made.gen_ai_input_tokens = ParseUint(read.gen_ai_input_tokens)
      /\ made.gen_ai_output_tokens = ParseUint(read.gen_ai_output_tokens)
      /\ made.llm_prompt_version = ParseUint(read.llm_prompt_version) % Word
  BY DEF made
<1>3. DOMAIN read = GenAINames
      /\ \A c \in DOMAIN read : read[c] = FirstNonEmpty(m, GenAIColumns[c])
  BY DEF Read, GenAINames
<1>4. DOMAIN identity = IdentityNames
      /\ \A c \in DOMAIN identity : identity[c] = FirstNonEmpty(m, IdentityColumns[c])
  BY DEF Read, IdentityNames
<1> HIDE DEF read, identity, made
<1>5. DOMAIN own = IdentityNames
      /\ (IsGenAI(m) => \A c \in IdentityNames : identity[c] # "" => own[c] = identity[c])
  BY <1>4
<1> HIDE DEF own
<1>6. counted \subseteq GenAINames
  BY DEF GenAINames, GenAIColumns
<1>7. PICK columns : columns = Over(Over(read, made), own)
  OBVIOUS
<1>8. DOMAIN columns = DOMAIN read \cup DOMAIN made \cup IdentityNames
      /\ \A c \in DOMAIN columns :
            columns[c] = IF c \in IdentityNames THEN own[c]
                         ELSE IF c \in DOMAIN made THEN made[c] ELSE read[c]
  BY <1>5, <1>7 DEF Over
<1>9. DOMAIN columns \cap SpanNames = {}
  BY <1>2, <1>3, <1>6, <1>8, ColumnNames
<1>10. /\ {"is_gen_ai", "gen_ai_span_kind"} \subseteq DOMAIN columns
       /\ columns.is_gen_ai = IsGenAI(m)
       /\ columns.gen_ai_span_kind = GenAISpanKind(m, duration)
  BY <1>2, <1>8, ColumnNames
<1>11. ASSUME NEW c \in GenAINames
       PROVE  c \in DOMAIN columns /\ columns[c] = Made(c, FirstNonEmpty(m, GenAIColumns[c]))
  <2>1. c \in DOMAIN columns /\ c \notin IdentityNames
    BY <1>3, <1>8, ColumnNames
  <2>2. read[c] = FirstNonEmpty(m, GenAIColumns[c])
    BY <1>3
  <2>3. CASE c \in counted
    <3>1. columns[c] = made[c]
      BY <1>2, <1>8, <2>1, <2>3
    <3>2. made[c] = Made(c, read[c])
      BY <1>2, <2>3 DEF Made
    <3> QED  BY <2>1, <2>2, <3>1, <3>2
  <2>4. CASE c \notin counted
    <3>1. c \notin DOMAIN made
      BY <1>2, <2>4, ColumnNames
    <3>2. Made(c, read[c]) = read[c]
      BY <2>4 DEF Made
    <3> QED  BY <1>8, <2>1, <2>2, <3>1, <3>2
  <2> QED  BY <2>3, <2>4
<1>12. ASSUME NEW c \in IdentityNames, IsGenAI(m), FirstNonEmpty(m, IdentityColumns[c]) # ""
       PROVE  c \in DOMAIN columns /\ columns[c] = FirstNonEmpty(m, IdentityColumns[c])
  BY <1>4, <1>5, <1>8, <1>12
<1> QED  BY <1>1, <1>7, <1>9, <1>10, <1>11, <1>12

\* The entries of a list of one.
LEMMA RangeOf1 == ASSUME NEW a PROVE Range(<<a>>) = {a}
BY DEF Range

\* And of one of two.
LEMMA RangeOf2 == ASSUME NEW a, NEW b PROVE Range(<<a, b>>) = {a, b}
<1> DEFINE s == <<a, b>>
<1>1. DOMAIN s = {1, 2} /\ s[1] = a /\ s[2] = b  OBVIOUS
<1> HIDE DEF s
<1>2. Range(s) = {a, b}  BY <1>1 DEF Range
<1> QED  BY <1>2 DEF s

\* Of one of three.
LEMMA RangeOf3 == ASSUME NEW a, NEW b, NEW c PROVE Range(<<a, b, c>>) = {a, b, c}
<1> DEFINE s == <<a, b, c>>
<1>1. DOMAIN s = {1, 2, 3} /\ s[1] = a /\ s[2] = b /\ s[3] = c  OBVIOUS
<1> HIDE DEF s
<1>2. Range(s) = {a, b, c}  BY <1>1 DEF Range
<1> QED  BY <1>2 DEF s

\* And of one of four.
LEMMA RangeOf4 == ASSUME NEW a, NEW b, NEW c, NEW d PROVE Range(<<a, b, c, d>>) = {a, b, c, d}
<1> DEFINE s == <<a, b, c, d>>
<1>1. DOMAIN s = {1, 2, 3, 4} /\ s[1] = a /\ s[2] = b /\ s[3] = c /\ s[4] = d  OBVIOUS
<1> HIDE DEF s
<1>2. Range(s) = {a, b, c, d}  BY <1>1 DEF Range
<1> QED  BY <1>2 DEF s

\* A list and another after it.
LEMMA Joined ==
    ASSUME NEW S, NEW s \in Seq(S), NEW t \in Seq(S)
    PROVE  /\ s \o t \in Seq(S) /\ Len(s \o t) = Len(s) + Len(t)
           /\ \A i \in 1 .. Len(s) : (s \o t)[i] = s[i]
OBVIOUS

\* The entries of the other.
LEMMA After ==
    ASSUME NEW S, NEW s \in Seq(S), NEW t \in Seq(S)
    PROVE  \A i \in (Len(s) + 1) .. (Len(s) + Len(t)) : (s \o t)[i] = t[i - Len(s)]
OBVIOUS

\* The keys of identities.
LEMMA IdentityKeys ==
    /\ Range(IdentityColumns["llm_user_id"])
         = {"gen_ai.request.user", "user.id", "enduser.id", "langfuse.user.id"}
    /\ Range(IdentityColumns["llm_session_id"])
         = {"gen_ai.conversation.id", "session.id", "langfuse.session.id"}
    /\ Range(IdentityColumns["llm_release"]) = {"langfuse.release"}
    /\ IdentityNames = {"llm_user_id", "llm_session_id", "llm_release"}
<1> DEFINE users == <<"gen_ai.request.user", "user.id", "enduser.id", "langfuse.user.id">>
           sessions == <<"gen_ai.conversation.id", "session.id", "langfuse.session.id">>
           releases == <<"langfuse.release">>
<1>1. Range(users) = {"gen_ai.request.user", "user.id", "enduser.id", "langfuse.user.id"}
  BY RangeOf4
<1>2. Range(sessions) = {"gen_ai.conversation.id", "session.id", "langfuse.session.id"}
  BY RangeOf3
<1>3. Range(releases) = {"langfuse.release"}
  BY RangeOf1
<1>4. IdentityColumns["llm_user_id"] = users /\ IdentityColumns["llm_session_id"] = sessions
      /\ IdentityColumns["llm_release"] = releases
  BY DEF IdentityColumns
<1> HIDE DEF users, sessions, releases
<1>5. IdentityNames = {"llm_user_id", "llm_session_id", "llm_release"}
  BY DEF IdentityColumns, IdentityNames
<1> QED  BY <1>1, <1>2, <1>3, <1>4, <1>5

\* The keys that some column is read from.
OwnKeys == UNION {Range(OwnColumns[c]) : c \in DOMAIN OwnColumns}

\* A column's keys are among them.
LEMMA Placed ==
    ASSUME NEW c \in DOMAIN OwnColumns
    PROVE  /\ \A a : OwnColumns[c] = <<a>> => a \in OwnKeys
           /\ \A a, b : OwnColumns[c] = <<a, b>> => {a, b} \subseteq OwnKeys
<1>1. Range(OwnColumns[c]) \subseteq OwnKeys  BY DEF OwnKeys
<1>2. ASSUME NEW a, OwnColumns[c] = <<a>> PROVE a \in OwnKeys
  BY <1>1, <1>2, RangeOf1
<1>3. ASSUME NEW a, NEW b, OwnColumns[c] = <<a, b>> PROVE {a, b} \subseteq OwnKeys
  BY <1>1, <1>3, RangeOf2
<1> QED  BY <1>2, <1>3

\* The keys of what marks a GenAI span.
LEMMA MarkList ==
    LET marks == <<"gen_ai.provider.name", "gen_ai.system", "gen_ai.operation.name",
                   "gen_ai.request.model", "gen_ai.response.model", "gen_ai.conversation.id",
                   "gen_ai.request.user", "langfuse.session.id", "langfuse.user.id">> \o TypeKeys
    IN /\ DOMAIN marks \subseteq Nat
       /\ {"gen_ai.conversation.id", "gen_ai.request.user", "langfuse.session.id",
            "langfuse.user.id"} \cup Range(TypeKeys) \subseteq Range(marks)
<1> DEFINE marks == <<"gen_ai.provider.name", "gen_ai.system", "gen_ai.operation.name",
                      "gen_ai.request.model", "gen_ai.response.model", "gen_ai.conversation.id",
                      "gen_ai.request.user", "langfuse.session.id", "langfuse.user.id">>
           texts == {"gen_ai.provider.name", "gen_ai.system", "gen_ai.operation.name",
                     "gen_ai.request.model", "gen_ai.response.model", "gen_ai.conversation.id",
                     "gen_ai.request.user", "langfuse.session.id", "langfuse.user.id",
                     "langfuse.observation.type", "gen_ai.observation.type"}
<1>1. marks \in Seq(texts) /\ Len(marks) = 9
  OBVIOUS
<1>2. TypeKeys \in Seq(texts) /\ Len(TypeKeys) = 2
  BY DEF TypeKeys
<1>3. /\ marks[6] = "gen_ai.conversation.id" /\ marks[7] = "gen_ai.request.user"
      /\ marks[8] = "langfuse.session.id" /\ marks[9] = "langfuse.user.id"
  OBVIOUS
<1> HIDE DEF marks, texts
<1>4. PICK all : all = marks \o TypeKeys
  OBVIOUS
<1>5. /\ all \in Seq(texts) /\ Len(all) = 11 /\ \A i \in 1 .. 9 : all[i] = marks[i]
      /\ all[10] = TypeKeys[1] /\ all[11] = TypeKeys[2]
  <2>1. /\ all \in Seq(texts) /\ Len(all) = Len(marks) + Len(TypeKeys)
        /\ \A i \in 1 .. Len(marks) : all[i] = marks[i]
    BY <1>1, <1>2, <1>4, Joined, Zenon
  <2>2. Len(marks) + Len(TypeKeys) = 11
    BY <1>1, <1>2
  <2>3. \A i \in (Len(marks) + 1) .. (Len(marks) + Len(TypeKeys)) :
            all[i] = TypeKeys[i - Len(marks)]
    BY <1>1, <1>2, <1>4, After, Zenon
  <2>4. all[10] = TypeKeys[1] /\ all[11] = TypeKeys[2]
    <3>1. \A i \in 10 .. 11 : all[i] = TypeKeys[i - 9]
      BY <1>1, <1>2, <2>3
    <3>2. 10 \in 10 .. 11 /\ 11 \in 10 .. 11 /\ 10 - 9 = 1 /\ 11 - 9 = 2
      OBVIOUS
    <3>3. all[10] = TypeKeys[10 - 9] /\ all[11] = TypeKeys[11 - 9]
      BY <3>1, <3>2, Zenon
    <3> QED  BY <3>2, <3>3
  <2> QED  BY <1>1, <2>1, <2>2, <2>4, Zenon
<1>6. DOMAIN all = 1 .. 11
  BY <1>5
<1>7. /\ all[6] = "gen_ai.conversation.id" /\ all[7] = "gen_ai.request.user"
      /\ all[8] = "langfuse.session.id" /\ all[9] = "langfuse.user.id"
  BY <1>3, <1>5
<1>8. {6, 7, 8, 9, 10, 11} \subseteq DOMAIN all /\ DOMAIN all \subseteq Nat
  BY <1>6
<1>9. {all[6], all[7], all[8], all[9], all[10], all[11]} \subseteq Range(all)
  BY <1>8 DEF Range
<1>10. Range(TypeKeys) = {TypeKeys[1], TypeKeys[2]}
  BY RangeOf2 DEF TypeKeys
<1> QED  BY <1>4, <1>5, <1>7, <1>8, <1>9, <1>10 DEF marks

\* An identity or a type marks a GenAI span, unless it is one any span may have,
\* or the release.
LEMMA IdentityMarks ==
    ASSUME NEW m, NEW k, Get(m, k) # "", ~IsGenAI(m)
    PROVE  /\ k \notin Range(TypeKeys)
           /\ \A c \in IdentityNames : k \in Range(IdentityColumns[c]) =>
                k \in GenAIIdentityKeys \cup {"langfuse.release"}
<1> DEFINE marks == <<"gen_ai.provider.name", "gen_ai.system", "gen_ai.operation.name",
                      "gen_ai.request.model", "gen_ai.response.model", "gen_ai.conversation.id",
                      "gen_ai.request.user", "langfuse.session.id", "langfuse.user.id">> \o TypeKeys
<1>1. FirstNonEmpty(m, marks) = ""
  BY DEF IsGenAI
<1>2. DOMAIN marks \subseteq Nat
      /\ {"gen_ai.conversation.id", "gen_ai.request.user", "langfuse.session.id",
           "langfuse.user.id"} \cup Range(TypeKeys) \subseteq Range(marks)
  BY MarkList
<1> HIDE DEF marks
<1>3. k \notin Range(marks)
  BY <1>1, <1>2, FirstIsSet
<1>4. k \notin {"gen_ai.conversation.id", "gen_ai.request.user", "langfuse.session.id",
               "langfuse.user.id"}
  BY <1>2, <1>3
<1> QED  BY <1>2, <1>3, <1>4, IdentityKeys DEF GenAIIdentityKeys

\* A known type is the span's kind, unless it is marked as an evaluation.
LEMMA KindShown ==
    ASSUME NEW m, NEW duration, FirstNonEmpty(m, TypeKeys) # "", IsGenAI(m)
    PROVE  LET type == FirstNonEmpty(m, TypeKeys)
           IN Unfit("gen_ai_span_kind", type, m) \/ GenAISpanKind(m, duration) = type
<1>1. PICK type : type = FirstNonEmpty(m, TypeKeys)  OBVIOUS
<1>2. CASE type \notin Kinds \/ "optikk.eval" \in DOMAIN m
  BY <1>1, <1>2 DEF Unfit
<1>3. CASE type \in Kinds /\ "optikk.eval" \notin DOMAIN m
  <2>1. GenAISpanKind(m, duration) = type
    BY <1>1, <1>3 DEF GenAISpanKind, Kinds
  <2> QED  BY <1>1, <2>1
<1> QED  BY <1>2, <1>3

\* What column c shows is made of the text of k, or of an earlier spelling.
ShownBy(m, c, k, shown) ==
    \E text \in Spellings(m, OwnColumns[c], k) : Unfit(c, text, m) \/ shown = Shown(c, text)

\* A column takes one of the texts its keys are set to; those of identities only
\* on a GenAI span.
LEMMA ColumnShows ==
    ASSUME NEW m, NEW duration, NEW version, NEW c \in DOMAIN OwnColumns,
           NEW k \in Range(OwnColumns[c]), Get(m, k) # "",
           c \in IdentityNames => IsGenAI(m)
    PROVE  ShownBy(m, c, k, Over(Read(m, SpanColumns), ExtractGenAI(m, duration, version))[c])
<1> DEFINE read == Read(m, SpanColumns)
           extracted == ExtractGenAI(m, duration, version)
<1>1. DOMAIN read = SpanNames /\ \A n \in SpanNames : read[n] = FirstNonEmpty(m, SpanColumns[n])
  BY DEF Read, SpanNames
<1>2. /\ DOMAIN extracted \cap SpanNames = {}
      /\ "gen_ai_span_kind" \in DOMAIN extracted
      /\ extracted.gen_ai_span_kind = GenAISpanKind(m, duration)
      /\ \A n \in GenAINames :
            n \in DOMAIN extracted /\ extracted[n] = Made(n, FirstNonEmpty(m, GenAIColumns[n]))
      /\ \A n \in IdentityNames :
            IsGenAI(m) /\ FirstNonEmpty(m, IdentityColumns[n]) # "" =>
                n \in DOMAIN extracted /\ extracted[n] = FirstNonEmpty(m, IdentityColumns[n])
  BY GenAITexts
<1> HIDE DEF read, extracted
<1>3. PICK text : text = FirstNonEmpty(m, OwnColumns[c])
  OBVIOUS
<1>4. text # "" /\ text \in Spellings(m, OwnColumns[c], k)
  <2>1. DOMAIN OwnColumns[c] \subseteq Nat
    BY ColumnKeys
  <2> QED  BY <1>3, <2>1, FirstIsSet
<1>5. SUFFICES Unfit(c, text, m) \/ Over(read, extracted)[c] = Shown(c, text)
  BY <1>4 DEF read, extracted, ShownBy
<1>6. CASE c \in SpanNames
  <2>1. c \in DOMAIN read /\ c \notin DOMAIN extracted /\ read[c] = text
    BY <1>1, <1>2, <1>3, <1>6, ColumnNames
  <2>2. Shown(c, text) = text
    <3>1. {"gen_ai_prompt", "gen_ai_completion", "gen_ai_operation", "llm_prompt_version",
           "gen_ai_input_tokens", "gen_ai_output_tokens"} \subseteq GenAINames
      BY DEF GenAINames, GenAIColumns
    <3>2. c \notin GenAINames
      BY <1>6, ColumnNames
    <3> QED  BY <3>1, <3>2 DEF Shown, Counts
  <2> QED  BY <2>1, <2>2 DEF Over
<1>7. CASE c \in GenAINames
  <2>1. c \in DOMAIN extracted /\ extracted[c] = Made(c, text)
    BY <1>2, <1>3, <1>7, ColumnNames
  <2>2. Unfit(c, text, m) \/ Made(c, text) = Shown(c, text)
    BY DEF Unfit, Made, Shown, Counts, ParseUint
  <2> QED  BY <2>1, <2>2 DEF Over
<1>8. CASE c \in IdentityNames
  <2>1. c \in DOMAIN extracted /\ extracted[c] = text
    BY <1>2, <1>3, <1>4, <1>8, ColumnNames
  <2>2. Shown(c, text) = text
    BY <1>8, IdentityKeys DEF Shown, Counts
  <2> QED  BY <2>1, <2>2 DEF Over
<1>9. CASE c = "gen_ai_span_kind"
  <2>1. text = FirstNonEmpty(m, TypeKeys) /\ k \in Range(TypeKeys)
    BY <1>3, <1>9, ColumnNames
  <2>2. IsGenAI(m)
    BY <2>1, IdentityMarks
  <2>3. Unfit(c, text, m) \/ GenAISpanKind(m, duration) = text
    BY <1>4, <1>9, <2>1, <2>2, KindShown
  <2>4. Shown(c, text) = text
    BY <1>9 DEF Shown, Counts
  <2> QED  BY <1>2, <1>9, <2>3, <2>4 DEF Over
<1> QED  BY <1>6, <1>7, <1>8, <1>9, ColumnNames

\* The two lists agree: what is kept out of the attributes is read into a column,
\* is the exception's or the resource's, or marks an evaluation.
LEMMA PromotedPlaced ==
    /\ PromotedKeys \subseteq OwnKeys \cup ExceptionKeys \cup ResourceKeys \cup {"optikk.eval"}
    /\ GenAIIdentityKeys \subseteq OwnKeys
    /\ GenAIIdentityKeys \cap PromotedKeys = {}
<1>1. {"http.method", "http.request.method", "http.url", "url.full", "http.host", "net.host.name",
       "http.status_code", "http.response.status_code", "db.system", "db.system.name", "db.name",
       "db.namespace", "db.statement", "db.query.text", "peer.service", "http.route"}
        \subseteq OwnKeys
  <2>1. /\ OwnColumns["http_method"] = <<"http.method", "http.request.method">>
        /\ OwnColumns["http_url"] = <<"http.url", "url.full">>
        /\ OwnColumns["http_host"] = <<"http.host", "net.host.name">>
        /\ OwnColumns["response_status_code"]
             = <<"http.status_code", "http.response.status_code">>
        /\ OwnColumns["db_system"] = <<"db.system", "db.system.name">>
        /\ OwnColumns["db_name"] = <<"db.name", "db.namespace">>
        /\ OwnColumns["db_statement"] = <<"db.statement", "db.query.text">>
        /\ OwnColumns["peer_service"] = <<"peer.service">>
        /\ OwnColumns["http_route"] = <<"http.route">>
        /\ SpanNames \subseteq DOMAIN OwnColumns
    BY ColumnNames DEF SpanNames, SpanColumns
  <2>2. {"http_method", "http_url", "http_host", "response_status_code", "db_system", "db_name",
         "db_statement", "peer_service", "http_route"} \subseteq DOMAIN OwnColumns
    BY <2>1 DEF SpanNames, SpanColumns
  <2> QED  BY <2>1, <2>2, Placed
<1>2. {"gen_ai.provider.name", "gen_ai.system", "gen_ai.operation.name", "gen_ai.request.model",
       "gen_ai.response.model", "gen_ai.prompt", "gen_ai.input.messages", "gen_ai.completion",
       "gen_ai.output.messages", "gen_ai.usage.input_tokens", "gen_ai.usage.prompt_tokens",
       "gen_ai.usage.output_tokens", "gen_ai.usage.completion_tokens", "langfuse.trace.tags",
       "optikk.llm.tags", "langfuse.prompt.name", "optikk.prompt.name",
       "langfuse.prompt.version", "optikk.prompt.version"} \subseteq OwnKeys
  <2>1. /\ OwnColumns["gen_ai_system"] = <<"gen_ai.provider.name", "gen_ai.system">>
        /\ OwnColumns["gen_ai_operation"] = <<"gen_ai.operation.name">>
        /\ OwnColumns["gen_ai_request_model"] = <<"gen_ai.request.model">>
        /\ OwnColumns["gen_ai_response_model"] = <<"gen_ai.response.model">>
        /\ OwnColumns["gen_ai_prompt"] = <<"gen_ai.prompt", "gen_ai.input.messages">>
        /\ OwnColumns["gen_ai_completion"] = <<"gen_ai.completion", "gen_ai.output.messages">>
        /\ OwnColumns["gen_ai_input_tokens"]
             = <<"gen_ai.usage.input_tokens", "gen_ai.usage.prompt_tokens">>
        /\ OwnColumns["gen_ai_output_tokens"]
             = <<"gen_ai.usage.output_tokens", "gen_ai.usage.completion_tokens">>
        /\ OwnColumns["llm_tags"] = <<"langfuse.trace.tags", "optikk.llm.tags">>
        /\ OwnColumns["llm_prompt_name"] = <<"langfuse.prompt.name", "optikk.prompt.name">>
        /\ OwnColumns["llm_prompt_version"]
             = <<"langfuse.prompt.version", "optikk.prompt.version">>
        /\ GenAINames \subseteq DOMAIN OwnColumns
    BY ColumnNames DEF GenAINames, GenAIColumns
  <2>2. {"gen_ai_system", "gen_ai_operation", "gen_ai_request_model", "gen_ai_response_model",
         "gen_ai_prompt", "gen_ai_completion", "gen_ai_input_tokens", "gen_ai_output_tokens",
         "llm_tags", "llm_prompt_name", "llm_prompt_version"} \subseteq DOMAIN OwnColumns
    BY <2>1 DEF GenAINames, GenAIColumns
  <2> QED  BY <2>1, <2>2, Placed
<1>3. {"gen_ai.request.user", "user.id", "enduser.id", "langfuse.user.id", "gen_ai.conversation.id",
       "session.id", "langfuse.session.id", "langfuse.release"} \subseteq OwnKeys
  <2>1. \A c \in IdentityNames :
          c \in DOMAIN OwnColumns /\ Range(OwnColumns[c]) = Range(IdentityColumns[c])
    BY ColumnNames
  <2>2. \A c \in IdentityNames : Range(IdentityColumns[c]) \subseteq OwnKeys
    BY <2>1 DEF OwnKeys
  <2> QED  BY <2>2, IdentityKeys
<1>4. {"langfuse.observation.type", "gen_ai.observation.type"} \subseteq OwnKeys
  <2>1. /\ "gen_ai_span_kind" \in DOMAIN OwnColumns
        /\ OwnColumns["gen_ai_span_kind"]
             = <<"langfuse.observation.type", "gen_ai.observation.type">>
    BY ColumnNames DEF TypeKeys
  <2> QED  BY <2>1, Placed
<1>5. GenAIIdentityKeys \subseteq OwnKeys
  BY <1>3 DEF GenAIIdentityKeys
<1>6. GenAIIdentityKeys \cap PromotedKeys = {}
  BY DEF GenAIIdentityKeys, PromotedKeys
<1>7. PromotedKeys \subseteq OwnKeys \cup ExceptionKeys \cup ResourceKeys \cup {"optikk.eval"}
  BY <1>1, <1>2, <1>3, <1>4 DEF PromotedKeys, ExceptionKeys, ResourceKeys
<1> QED  BY <1>5, <1>6, <1>7

\* What a span's row holds of a text of the span that may become an attribute.
LEMMA KeptOrCapped ==
    ASSUME NEW base, NEW own,
           NEW D, D = DOMAIN base \cup DOMAIN own,
           NEW kept, D \subseteq kept, kept \subseteq Range(KeyOrder),
           NEW k \in DOMAIN own
    PROVE  \/ Get(CapStringMap(Over(base, own)), k) = own[k]
           \/ k \notin Smallest(kept, MaxAttributes)
<1> SUFFICES ASSUME k \in Smallest(kept, MaxAttributes)
             PROVE  Get(CapStringMap(Over(base, own)), k) = own[k]
  OBVIOUS
<1> DEFINE n == MaxAttributes
<1>1. n \in Nat  BY MappingAssumption
<1>2. Below(D, k) \subseteq Below(kept, k)  BY DEF Below
<1>3. Cardinality(Below(kept, k)) < n  BY DEF Smallest, Below
<1>4. /\ Cardinality(Below(D, k)) \in Nat /\ Cardinality(Below(kept, k)) \in Nat
      /\ Cardinality(Below(D, k)) <= Cardinality(Below(kept, k))
  BY <1>2, BelowBounds
<1>5. Cardinality(Below(D, k)) < n  BY <1>1, <1>3, <1>4
<1>6. k \in Smallest(D, n)  BY <1>5 DEF Smallest, Below
<1>7. DOMAIN Over(base, own) = D /\ Over(base, own)[k] = own[k]  BY DEF Over
<1>8. CapStringMap(Over(base, own)) = [x \in Smallest(D, n) |-> Over(base, own)[x]]
  BY <1>7 DEF CapStringMap, Restrict
<1> QED  BY <1>6, <1>7, <1>8 DEF Get

\* A span's texts, with its messaging keys normalised.
TextsOf(s) == NormalizeMessagingAttrs(AttrsToMap(s.attrs))

\* What the row has of those that are not attributes.
LEMMA OwnRow ==
    ASSUME NEW base, NEW res, NEW s
    PROVE  /\ SpanRowOf(base, res, s).columns =
                 Over(Read(TextsOf(s), SpanColumns),
                      ExtractGenAI(TextsOf(s), SpanDuration(s), ResolveResource(res).version))
           /\ SpanRowOf(base, res, s).events = s.events
           /\ SpanRowOf(base, res, s).dims = ResolveResource(res)
<1>1. PICK m : m = NormalizeMessagingAttrs(AttrsToMap(s.attrs))  OBVIOUS
<1>2. PICK merge : merge = MergeAndCapAttrs(base, m, IsGenAI(m))  OBVIOUS
<1> QED  BY <1>1, <1>2, SpanRowFields DEF TextsOf

\* A row's exception is what the span says of it, unless an event says it.
LEMMA ExceptionShown ==
    ASSUME NEW base, NEW res, NEW s, NEW k \in ExceptionKeys, k \in DOMAIN TextsOf(s)
    PROVE  \/ FromEvent(TextsOf(s), s.events)
           \/ SpanRowOf(base, res, s).exception[k] =
                IF k = "exception.escaped" THEN TextsOf(s)[k] = "true" ELSE TextsOf(s)[k]
<1>1. PICK m : m = NormalizeMessagingAttrs(AttrsToMap(s.attrs))  OBVIOUS
<1>2. PICK row : row = BuildSpanRow(MergeAndCapAttrs(base, m, IsGenAI(m)), ResolveResource(res), s)
  OBVIOUS
<1>3. row.exception = [x \in ExceptionKeys |->
            IF x = "exception.escaped" THEN Get(ExceptionAttrs(m, s.events), x) = "true"
            ELSE Get(ExceptionAttrs(m, s.events), x)]
  BY <1>1, <1>2, Zenon DEF BuildSpanRow
<1>4. row = SpanRowOf(base, res, s)
  BY <1>1, <1>2 DEF SpanRowOf
<1>5. CASE ~FromEvent(m, s.events)
  <2>1. ExceptionAttrs(m, s.events) = m
    BY <1>5 DEF FromEvent, ExceptionAttrs
  <2>2. row.exception[k] = IF k = "exception.escaped" THEN Get(m, k) = "true" ELSE Get(m, k)
    BY <1>3, <2>1
  <2>3. Get(m, k) = m[k]
    BY <1>1 DEF Get, TextsOf
  <2> QED  BY <1>1, <1>4, <2>2, <2>3 DEF TextsOf
<1> QED  BY <1>1, <1>5 DEF TextsOf

\* A text that is not an attribute is shown, or lost by a rule.
Ruled(row, m, res, k) ==
    \/ \E c \in DOMAIN OwnColumns : \E text \in Spellings(m, OwnColumns[c], k) :
        Unfit(c, text, m) \/ row.columns[c] = Shown(c, text)
    \/ /\ k \in ExceptionKeys
       /\ \/ row.exception[k] = IF k = "exception.escaped" THEN m[k] = "true" ELSE m[k]
          \/ FromEvent(m, row.events)
    \/ k = "optikk.eval" /\ row.columns.gen_ai_span_kind = IF IsGenAI(m) THEN "eval" ELSE ""
    \/ k \in ResourceKeys /\ row.dims = ResolveResource(res)

\* So is every text that KeptKeys leaves out.
LEMMA ShownOrRuled ==
    ASSUME NEW base, NEW res, NEW s, NEW k \in DOMAIN TextsOf(s), TextsOf(s)[k] # "",
           k \notin KeptKeys(TextsOf(s), IsGenAI(TextsOf(s)))
    PROVE  Ruled(SpanRowOf(base, res, s), TextsOf(s), res, k)
<1>1. PICK m : m = TextsOf(s)  OBVIOUS
<1>2. PICK row : row = SpanRowOf(base, res, s)  OBVIOUS
<1>3. PICK duration, version :
        duration = SpanDuration(s) /\ version = ResolveResource(res).version
  OBVIOUS
<1>4. /\ row.columns = Over(Read(m, SpanColumns), ExtractGenAI(m, duration, version))
      /\ row.events = s.events /\ row.dims = ResolveResource(res)
  <2>1. /\ SpanRowOf(base, res, s).columns =
                 Over(Read(TextsOf(s), SpanColumns),
                      ExtractGenAI(TextsOf(s), SpanDuration(s), ResolveResource(res).version))
        /\ SpanRowOf(base, res, s).events = s.events
        /\ SpanRowOf(base, res, s).dims = ResolveResource(res)
    BY OwnRow, Zenon
  <2> QED  BY <1>1, <1>2, <1>3, <2>1
<1>5. k \in DOMAIN m /\ Get(m, k) = m[k] /\ Get(m, k) # ""
  BY <1>1 DEF Get
<1>6. k \in PromotedKeys \/ (IsGenAI(m) /\ k \in GenAIIdentityKeys)
  BY <1>1 DEF KeptKeys
<1>7. ASSUME NEW c \in DOMAIN OwnColumns, k \in Range(OwnColumns[c]),
             c \in IdentityNames => IsGenAI(m)
      PROVE  Ruled(row, m, res, k)
  <2>1. ShownBy(m, c, k, Over(Read(m, SpanColumns), ExtractGenAI(m, duration, version))[c])
    BY <1>5, <1>7, ColumnShows, Zenon
  <2>2. ShownBy(m, c, k, row.columns[c])
    BY <1>4, <2>1
  <2> QED  BY <2>2 DEF Ruled, ShownBy
<1>8. CASE k \in OwnKeys
  <2>1. PICK c \in DOMAIN OwnColumns : k \in Range(OwnColumns[c])
    BY <1>8 DEF OwnKeys
  <2>2. CASE c \in IdentityNames => IsGenAI(m)
    BY <1>1, <1>2, <1>7, <2>1, <2>2
  <2>3. CASE c \in IdentityNames /\ ~IsGenAI(m)
    <3>1. k = "langfuse.release"
      <4>1. k \in Range(IdentityColumns[c])
        BY <2>1, <2>3, ColumnNames
      <4>2. k \in GenAIIdentityKeys \cup {"langfuse.release"}
        BY <1>5, <2>3, <4>1, IdentityMarks
      <4> QED  BY <1>6, <2>3, <4>2, PromotedPlaced
    <3>2. "llm_release" \in DOMAIN OwnColumns /\ k \in Range(OwnColumns["llm_release"])
      BY <3>1, ColumnNames, IdentityKeys
    <3>3. DOMAIN OwnColumns["llm_release"] \subseteq Nat
      BY <3>2, ColumnKeys
    <3>4. PICK text \in Spellings(m, OwnColumns["llm_release"], k) : TRUE
      BY <1>5, <3>2, <3>3, FirstIsSet
    <3>5. Unfit("llm_release", text, m)
      BY <2>3 DEF Unfit
    <3> QED  BY <1>1, <1>2, <3>2, <3>4, <3>5 DEF Ruled
  <2> QED  BY <2>2, <2>3
<1>9. CASE k \in ExceptionKeys
  <2>1. \/ FromEvent(m, row.events)
        \/ row.exception[k] = IF k = "exception.escaped" THEN m[k] = "true" ELSE m[k]
    <3>1. \/ FromEvent(TextsOf(s), s.events)
          \/ SpanRowOf(base, res, s).exception[k] =
                IF k = "exception.escaped" THEN TextsOf(s)[k] = "true" ELSE TextsOf(s)[k]
      BY <1>9, ExceptionShown, Zenon
    <3> QED  BY <1>1, <1>2, <1>4, <3>1
  <2> QED  BY <1>1, <1>2, <1>9, <2>1 DEF Ruled
<1>10. CASE k = "optikk.eval"
  <2>1. PICK extracted : extracted = ExtractGenAI(m, duration, version)
    OBVIOUS
  <2>2. /\ extracted.gen_ai_span_kind = GenAISpanKind(m, duration)
        /\ "gen_ai_span_kind" \in DOMAIN extracted
    BY <2>1, GenAITexts
  <2>3. GenAISpanKind(m, duration) = IF IsGenAI(m) THEN "eval" ELSE ""
    BY <1>5, <1>10 DEF GenAISpanKind
  <2>4. row.columns.gen_ai_span_kind = extracted.gen_ai_span_kind
    BY <1>4, <2>1, <2>2 DEF Over
  <2> QED  BY <1>1, <1>2, <1>10, <2>2, <2>3, <2>4 DEF Ruled
<1>11. CASE k \in ResourceKeys
  BY <1>1, <1>2, <1>4, <1>11 DEF Ruled
<1> QED  BY <1>6, <1>8, <1>9, <1>10, <1>11, PromotedPlaced

\* Every text of a span is in its row, or lost by one of the rules NothingLost
\* lists: of the two lists kept by hand, that of the promoted keys names none
\* that the row does not read for itself, but for the resource's (buildSpanRow,
\* mergeAndCapAttrs, extractGenAI, promotedSpanKeys).
THEOREM SpansKept == Spec => []NothingLost
<1>1. RowInv /\ AttributesKept => NothingLost
  <2> SUFFICES ASSUME RowInv, AttributesKept, signal = "spans", NEW i \in DOMAIN rows,
                      NEW k \in DOMAIN SpanMap(i), SpanMap(i)[k] # ""
               PROVE  LET kept == (DOMAIN SpanMap(i) \cup DOMAIN Source(i)) \ PromotedKeys
                      IN \/ Get(Attributes(i), k) = SpanMap(i)[k]
                         \/ k \in kept /\ k \notin Smallest(kept, MaxAttributes)
                         \/ Ruled(rows[i], SpanMap(i), Source(i), k)
    BY DEF NothingLost, Ruled
  <2>0. PICK m : m = SpanMap(i)
    OBVIOUS
  <2> DEFINE kept == (DOMAIN m \cup DOMAIN Source(i)) \ PromotedKeys
             base == Restrict(Source(i), DOMAIN Source(i) \ PromotedKeys)
             own == Restrict(m, KeptKeys(m, IsGenAI(m)))
  <2>1. inputs[i].of \in DOMAIN bases
    <3>1. DOMAIN rows = DOMAIN inputs  BY Appended DEF RowInv, Indexed
    <3> QED  BY <3>1 DEF RowInv, Indexed
  <2>2. PICK s : s = inputs[i].record
    OBVIOUS
  <2>3. /\ Source(i) \in {AttrsToMap(attrs) : attrs \in Resources} /\ s \in Spans
        /\ rows[i] = SpanRowOf(bases[inputs[i].of], Source(i), s)
    BY <2>1, <2>2 DEF RowInv, RowsAsBuilt, Source, RecordsOf, RowOf
  <2>4. m = TextsOf(s)
    BY <2>0, <2>2 DEF SpanMap, TextsOf
  <2>5. CASE k \notin KeptKeys(m, IsGenAI(m))
    <3>1. Ruled(SpanRowOf(bases[inputs[i].of], Source(i), s), TextsOf(s), Source(i), k)
      BY <2>0, <2>4, <2>5, ShownOrRuled
    <3> QED  BY <2>0, <2>3, <2>4, <3>1
  <2>6. CASE k \in KeptKeys(m, IsGenAI(m))
    <3>1. Attributes(i) = CapStringMap(Over(base, own))
      BY <2>0 DEF AttributesKept
    <3>2. KeptKeys(m, IsGenAI(m)) \subseteq kept /\ kept \subseteq Range(KeyOrder)
      <4>1. DOMAIN Source(i) \ PromotedKeys \subseteq Range(KeyOrder)
        BY <2>3, KeysAssumption DEF AttrsToMap
      <4>2. /\ KeptKeys(m, IsGenAI(m)) \subseteq DOMAIN m \ PromotedKeys
            /\ DOMAIN m \ PromotedKeys \subseteq Range(KeyOrder)
        BY <2>3, <2>4, SpanKeys DEF TextsOf
      <4> QED  BY <4>1, <4>2
    <3>3. /\ DOMAIN base = DOMAIN Source(i) \ PromotedKeys
          /\ DOMAIN own = KeptKeys(m, IsGenAI(m)) /\ \A x \in DOMAIN own : own[x] = m[x]
      BY DEF Restrict
    <3> HIDE DEF base, own
    <3>4. DOMAIN base \cup DOMAIN own \subseteq kept
      BY <3>2, <3>3
    <3>5. \/ Get(CapStringMap(Over(base, own)), k) = own[k]
          \/ k \notin Smallest(kept, MaxAttributes)
      <4> HIDE DEF kept
      <4> QED  BY <2>6, <3>2, <3>3, <3>4, KeptOrCapped
    <3> QED  BY <2>0, <2>6, <3>1, <3>2, <3>3, <3>5
  <2> QED  BY <2>5, <2>6
<1> QED  BY <1>1, Inductive, AttributesAsMerged, PTL

-----------------------------------------------------------------------------
(* Texts that can be marshalled                                            *)

\* The first key that is set has a text of the map.
LEMMA FirstIsValid ==
    ASSUME NEW m, \A k \in DOMAIN m : m[k] \notin Invalid,
           NEW keys, DOMAIN keys \subseteq Nat
    PROVE  FirstNonEmpty(m, keys) \notin Invalid
<1> DEFINE present == {i \in DOMAIN keys : Get(m, keys[i]) # ""}
<1>1. CASE present = {}
  BY <1>1, TextsAssumption DEF FirstNonEmpty
<1>2. CASE present # {}
  <2>1. FirstNonEmpty(m, keys) = m[keys[Least(present)]]  BY <1>2 DEF FirstNonEmpty
  <2>2. present \subseteq Nat  OBVIOUS
  <2>3. Least(present) \in present
    <3> HIDE DEF present
    <3> QED  BY <1>2, <2>2, LeastIs
  <2>4. keys[Least(present)] \in DOMAIN m  BY <2>3 DEF Get
  <2> QED  BY <2>1, <2>4
<1> QED  BY <1>1, <1>2

\* A set of numbers up to a bound has a greatest.
LEMMA GreatestIs ==
    ASSUME NEW S, S \subseteq Nat, S # {}, NEW n \in Nat, \A x \in S : x <= n
    PROVE  Greatest(S) \in S /\ \A y \in S : Greatest(S) >= y
<1> DEFINE T == {n - x : x \in S}
<1>1. T \subseteq Nat /\ T # {}
  <2>1. ASSUME NEW x \in S PROVE n - x \in Nat
    <3>1. x \in Nat /\ x <= n  OBVIOUS
    <3> QED  BY <3>1
  <2> QED  BY <2>1
<1>2. Least(T) \in T /\ \A y \in T : Least(T) <= y
  <2> HIDE DEF T
  <2> QED  BY <1>1, LeastIs
<1>3. PICK x \in S : Least(T) = n - x  BY <1>2
<1>4. ASSUME NEW y \in S PROVE x >= y
  <2>1. x \in Nat /\ y \in Nat  OBVIOUS
  <2>2. n - x <= n - y  BY <1>2, <1>3
  <2> QED  BY <2>1, <2>2
<1> QED  BY <1>4 DEF Greatest

\* A text that is cut is cut where a rune starts.
LEMMA CutIsValid ==
    ASSUME NEW text, text \notin Invalid
    PROVE  TruncateUTF8(text) \notin Invalid
<1>1. CASE text \notin DOMAIN Prefix
  BY <1>1 DEF TruncateUTF8
<1>2. CASE text \in DOMAIN Prefix
  <2> DEFINE cuts == {0} \cup {c \in RuneStarts[text] : c <= MaxBytes}
  <2>1. cuts \subseteq Nat /\ cuts # {} /\ MaxBytes \in Nat /\ \A c \in cuts : c <= MaxBytes
    <3>1. MaxBytes \in Nat  BY MappingAssumption
    <3>2. 0 <= MaxBytes  BY <3>1
    <3>3. RuneStarts[text] \subseteq Nat  BY <1>2, TextsAssumption
    <3> QED  BY <3>1, <3>2, <3>3
  <2>2. TruncateUTF8(text) = Prefix[text][Greatest(cuts)]
    BY <1>2 DEF TruncateUTF8
  <2>3. \A c \in cuts : Prefix[text][c] \notin Invalid
    BY <1>2, TextsAssumption
  <2> HIDE DEF cuts
  <2>4. Greatest(cuts) \in cuts
    BY <2>1, GreatestIs
  <2> QED  BY <2>2, <2>3, <2>4
<1> QED  BY <1>1, <1>2

\* Normalising the keys of a span brings no text it did not have.
LEMMA SpanTexts ==
    ASSUME NEW s \in Spans
    PROVE  LET m == NormalizeMessagingAttrs(AttrsToMap(s.attrs))
           IN \A k \in DOMAIN m : m[k] \notin Invalid
<1>1. ASSUME NEW f, \A k \in DOMAIN f : f[k] \notin Invalid,
             NEW key, NEW legacy, DOMAIN legacy \subseteq Nat
      PROVE  \A k \in DOMAIN Fill(f, key, legacy) : Fill(f, key, legacy)[k] \notin Invalid
  <2>1. FirstNonEmpty(f, legacy) \notin Invalid  BY <1>1, FirstIsValid
  <2> QED  BY <1>1, <2>1 DEF Fill, Put
<1>2. \A k \in DOMAIN AttrsToMap(s.attrs) : AttrsToMap(s.attrs)[k] \notin Invalid
  BY TextsAssumption DEF AttrsToMap
<1>3. /\ DOMAIN <<"messaging.source.name", "messaging.destination">> \subseteq Nat
      /\ DOMAIN <<"messaging.kafka.consumer.group">> \subseteq Nat
  OBVIOUS
<1>4. PICK f : f = Fill(AttrsToMap(s.attrs), "messaging.destination.name",
                        <<"messaging.source.name", "messaging.destination">>)
  OBVIOUS
<1>5. \A k \in DOMAIN f : f[k] \notin Invalid
  BY <1>1, <1>2, <1>3, <1>4
<1>6. PICK g : g = Fill(f, "messaging.consumer.group.name", <<"messaging.kafka.consumer.group">>)
  OBVIOUS
<1>7. \A k \in DOMAIN g : g[k] \notin Invalid
  BY <1>1, <1>3, <1>5, <1>6
<1> QED  BY <1>4, <1>6, <1>7 DEF NormalizeMessagingAttrs

\* So neither prompt nor completion does.
LEMMA ContentIsValid ==
    ASSUME NEW base, NEW res, NEW s \in Spans, NEW c \in {"gen_ai_prompt", "gen_ai_completion"}
    PROVE  SpanRowOf(base, res, s).columns[c] \notin Invalid
<1>1. PICK m : m = NormalizeMessagingAttrs(AttrsToMap(s.attrs))  OBVIOUS
<1>2. PICK extracted : extracted = ExtractGenAI(m, SpanDuration(s), ResolveResource(res).version)
  OBVIOUS
<1>3. c \in DOMAIN extracted /\ extracted[c] = TruncateUTF8(FirstNonEmpty(m, GenAIColumns[c]))
  <2>1. PICK version : version = ResolveResource(res).version  OBVIOUS
  <2>2. \A x \in GenAINames :
            /\ x \in DOMAIN ExtractGenAI(m, SpanDuration(s), version)
            /\ ExtractGenAI(m, SpanDuration(s), version)[x]
                    = Made(x, FirstNonEmpty(m, GenAIColumns[x]))
    BY GenAITexts
  <2>3. {"gen_ai_prompt", "gen_ai_completion"} \subseteq GenAINames
    BY DEF GenAINames, GenAIColumns
  <2>4. \A x \in {"gen_ai_prompt", "gen_ai_completion"} : \A text :
            Made(x, text) = TruncateUTF8(text)
    BY DEF Made
  <2> QED  BY <1>2, <2>1, <2>2, <2>3, <2>4
<1>4. SpanRowOf(base, res, s).columns = Over(Read(m, SpanColumns), extracted)
  <2>1. SpanRowOf(base, res, s).columns =
          Over(Read(NormalizeMessagingAttrs(AttrsToMap(s.attrs)), SpanColumns),
               ExtractGenAI(NormalizeMessagingAttrs(AttrsToMap(s.attrs)), SpanDuration(s),
                            ResolveResource(res).version))
    BY SpanRowColumns
  <2> QED  BY <1>1, <1>2, <2>1
<1>5. SpanRowOf(base, res, s).columns[c] = extracted[c]
  BY <1>3, <1>4 DEF Over
<1>6. \A k \in DOMAIN m : m[k] \notin Invalid
  BY <1>1, SpanTexts
<1>7. DOMAIN GenAIColumns[c] \subseteq Nat
  BY DEF GenAIColumns
<1>8. FirstNonEmpty(m, GenAIColumns[c]) \notin Invalid
  BY <1>6, <1>7, FirstIsValid
<1> QED  BY <1>3, <1>5, <1>8, CutIsValid

\* The comment of a score is the text under its event's second key.
LEMMA ScoreComment ==
    ASSUME NEW row, NEW event
    PROVE  ScoreOf(row, event).comment
             = TruncateUTF8(Get(event.attrs, ScoreKeys(event.name)[2]))
<1>1. PICK field : field = [i \in 1 .. 5 |-> Get(event.attrs, ScoreKeys(event.name)[i])]
  OBVIOUS
<1>2. field[2] = Get(event.attrs, ScoreKeys(event.name)[2])
  BY <1>1
<1>3. ScoreOf(row, event).comment = TruncateUTF8(field[2])
  BY <1>1, Zenon DEF ScoreOf
<1> QED  BY <1>2, <1>3

\* Without bytes, a log's texts are valid.
LEMMA LogTexts ==
    ASSUME NEW lr \in Logs, OfKind(lr.attrs, {"bytes"}) = {}
    PROVE  \A k \in DOMAIN TypedAttrs(lr.attrs).str : TypedAttrs(lr.attrs).str[k] \notin Invalid
<1> DEFINE texts == [k \in OfKind(lr.attrs, {"string", "bytes"}) |->
                        IF lr.attrs[k].kind = "bytes" THEN lr.attrs[k].raw ELSE lr.attrs[k].text]
<1>1. TypedAttrs(lr.attrs).str = CapStringMap(texts)  BY DEF TypedAttrs
<1>2. ASSUME NEW k \in DOMAIN texts PROVE texts[k] \notin Invalid
  <2>1. k \in OfKind(lr.attrs, {"string"})  BY DEF OfKind
  <2>2. texts[k] = lr.attrs[k].text  BY <2>1 DEF OfKind
  <2> QED  BY <2>1, <2>2, TextsAssumption
<1> HIDE DEF texts
<1>3. DOMAIN CapStringMap(texts) \subseteq DOMAIN texts
      /\ \A k \in DOMAIN CapStringMap(texts) : CapStringMap(texts)[k] = texts[k]
  BY DEF CapStringMap, Restrict, Smallest
<1> QED  BY <1>1, <1>2, <1>3

\* The scores are those of the rows, once there are any.
ScoresAsExtracted ==
    /\ phase \in {"between", "open", "done"}
    /\ scores = IF phase = "done" /\ signal = "spans" THEN ScoresOf(rows) ELSE <<>>

\* The scores of a finished request of spans are those of its rows.
LEMMA ScoresInductive == Spec => []ScoresAsExtracted
<1>1. Init => ScoresAsExtracted  BY DEF Init, ScoresAsExtracted
<1>2. ScoresAsExtracted /\ [Next]_vars => ScoresAsExtracted'
  <2> SUFFICES ASSUME ScoresAsExtracted, [Next]_vars PROVE ScoresAsExtracted'  OBVIOUS
  <2>1. CASE \E attrs \in Resources : StartResource(attrs)
    BY <2>1 DEF StartResource, ScoresAsExtracted
  <2>2. CASE (\E s \in Spans : MapSpan(s)) \/ (\E lr \in Logs : MapLog(lr))
             \/ (\E dp \in Points : MapPoint(dp))
    <3>1. phase = "open" /\ UNCHANGED <<phase, scores>>
      BY <2>2 DEF MapSpan, MapLog, MapPoint, AddRow
    <3> QED  BY <3>1 DEF ScoresAsExtracted
  <2>3. CASE EndResource
    BY <2>3 DEF EndResource, ScoresAsExtracted
  <2>4. CASE \E total \in Sizes : Finish(total)
    BY <2>4 DEF Finish, ScoresAsExtracted
  <2>5. CASE UNCHANGED vars
    BY <2>5 DEF vars, ScoresAsExtracted
  <2> QED  BY <2>1, <2>2, <2>3, <2>4, <2>5 DEF Next
<1> QED  BY <1>1, <1>2, PTL DEF Spec

\* Every row can be marshalled, and every score, unless a log brought bytes that
\* are no text (TruncateUTF8, and TypedAttrs for bytes).
THEOREM RowsMarshal == Spec => []MarshalOK
<1>1. RowInv /\ ScoresAsExtracted => MarshalOK
  <2> SUFFICES ASSUME RowInv, ScoresAsExtracted PROVE MarshalOK  OBVIOUS
  <2>1. ASSUME NEW i \in DOMAIN rows
        PROVE  /\ inputs[i].of \in DOMAIN bases
               /\ Source(i) \in {AttrsToMap(attrs) : attrs \in Resources}
               /\ bases[inputs[i].of] = BaseOf(signal, Source(i))
               /\ inputs[i].record \in RecordsOf(signal)
               /\ rows[i] = RowOf(signal, now, BaseOf(signal, Source(i)), Source(i), inputs[i].record)
    <3>1. DOMAIN rows = DOMAIN inputs  BY Appended DEF RowInv, Indexed
    <3>2. inputs[i].of \in DOMAIN bases  BY <3>1 DEF RowInv, Indexed
    <3> QED  BY <3>2 DEF RowInv, RowsAsBuilt, Source
  <2>2. ASSUME signal = "spans", NEW i \in DOMAIN rows
        PROVE  /\ inputs[i].record \in Spans
               /\ rows[i] = SpanRowOf(BaseOf(signal, Source(i)), Source(i), inputs[i].record)
    BY <2>1, <2>2 DEF RecordsOf, RowOf
  <2>3. ASSUME signal = "spans", NEW i \in DOMAIN rows
        PROVE  {rows[i].columns.gen_ai_prompt, rows[i].columns.gen_ai_completion} \cap Invalid = {}
    <3>1. \A c \in {"gen_ai_prompt", "gen_ai_completion"} : rows[i].columns[c] \notin Invalid
      BY <2>2, <2>3, ContentIsValid
    <3> QED  BY <3>1
  <2>4. ASSUME signal = "spans", NEW at \in DOMAIN scores
        PROVE  scores[at].comment \notin Invalid
    <3>1. scores = ScoresOf(rows)
      BY <2>4 DEF ScoresAsExtracted
    <3>2. PICK i \in DOMAIN rows : \E j \in DOMAIN rows[i].events :
              scores[at] = ScoreOf(rows[i], rows[i].events[j])
      BY <2>4, <3>1 DEF ScoresOf
    <3>3. PICK event : scores[at] = ScoreOf(rows[i], event)
                       /\ \E j \in DOMAIN rows[i].events : event = rows[i].events[j]
      BY <3>2
    <3>4. rows[i].events = inputs[i].record.events /\ inputs[i].record \in Spans
      <4>1. PICK base : rows[i] = SpanRowOf(base, Source(i), inputs[i].record)
        BY <2>2, <2>4
      <4>2. PICK m, merge : m = NormalizeMessagingAttrs(AttrsToMap(inputs[i].record.attrs))
                            /\ merge = MergeAndCapAttrs(base, m, IsGenAI(m))
        OBVIOUS
      <4>3. rows[i].events = inputs[i].record.events
        BY <4>1, <4>2, SpanRowFields
      <4> QED  BY <2>2, <2>4, <4>3
    <3>5. Range(event.attrs) \cap Invalid = {}
      BY <3>3, <3>4, TextsAssumption
    <3>6. \A key : Get(event.attrs, key) \notin Invalid
      BY <3>5, TextsAssumption DEF Get, Range
    <3>7. scores[at].comment = TruncateUTF8(Get(event.attrs, ScoreKeys(event.name)[2]))
      BY <3>3, ScoreComment
    <3> QED  BY <3>6, <3>7, CutIsValid
  <2>5. ASSUME signal = "logs", NEW i \in DOMAIN rows, OfKind(inputs[i].record.attrs, {"bytes"}) = {}
        PROVE  (({rows[i].body} \cup Range(rows[i].attrs.str) \cup Range(Attributes(i))) \cap Invalid) = {}
    <3> DEFINE lr == inputs[i].record
               str == TypedAttrs(lr.attrs).str
               patch == PatchResource(Source(i), str)
    <3>1. lr \in Logs /\ rows[i] = LogRowOf(Source(i), lr, now)
      BY <2>1, <2>5 DEF RecordsOf, RowOf, BaseOf
    <3>2. /\ rows[i].shared = patch.shared
          /\ rows[i].own = IF patch.shared THEN <<>> ELSE patch.own
          /\ rows[i].attrs.str = str /\ rows[i].body = AnyValueString(lr.body)
      BY <3>1, LogRowFields
    <3>3. \A k \in DOMAIN str : str[k] \notin Invalid
      BY <2>5, <3>1, LogTexts
    <3>4. \A k \in DOMAIN Source(i) : Source(i)[k] \notin Invalid
      <4>1. PICK attrs \in Resources : Source(i) = AttrsToMap(attrs)
        BY <2>1
      <4>2. \A k \in DOMAIN attrs : AnyValueString(attrs[k]) \notin Invalid
        BY TextsAssumption
      <4>3. DOMAIN Source(i) = DOMAIN attrs
            /\ \A k \in DOMAIN attrs : Source(i)[k] = AnyValueString(attrs[k])
        BY <4>1 DEF AttrsToMap
      <4> QED  BY <4>2, <4>3
    <3>5. Attributes(i) = IF patch.shared THEN Source(i) ELSE patch.own
      BY <2>1, <2>5, <3>2 DEF Attributes, Held, BaseOf
    <3>6. \A k \in DOMAIN patch.own : patch.own[k] \notin Invalid
      <4> HIDE DEF str
      <4> DEFINE gaps == {k \in Missing(Source(i)) : Get(str, k) # ""}
      <4>1. patch.own = Over(Source(i), Restrict(str, gaps))
        BY DEF PatchResource
      <4>2. gaps \subseteq DOMAIN str
        BY DEF Get
      <4> HIDE DEF gaps, patch
      <4> QED  BY <3>3, <3>4, <4>1, <4>2 DEF Over, Restrict
    <3>7. AnyValueString(lr.body) \notin Invalid
      BY <3>1, TextsAssumption
    <3> HIDE DEF lr, str, patch
    <3> QED  BY <3>2, <3>3, <3>4, <3>5, <3>6, <3>7 DEF Range
  <2> QED  BY <2>3, <2>4, <2>5 DEF MarshalOK
<1> QED  BY <1>1, Inductive, ScoresInductive, PTL

-----------------------------------------------------------------------------
(* Sums over finite sets                                                   *)

\* A set of numbers that has zero and with each its successor has all.
LEMMA Counting ==
    ASSUME NEW P, P \subseteq Nat, 0 \in P, \A n \in P : n + 1 \in P
    PROVE  P = Nat
<1> SUFFICES ASSUME Nat \ P # {} PROVE FALSE  OBVIOUS
<1> DEFINE n == Least(Nat \ P)
<1>1. n \in Nat \ P /\ \A m \in Nat \ P : n <= m  BY LeastIs
<1> HIDE DEF n
<1>2. n - 1 \in Nat /\ ~(n <= n - 1)  BY <1>1
<1>3. n - 1 \in P  BY <1>1, <1>2
<1>4. (n - 1) + 1 = n  BY <1>1
<1> QED  BY <1>1, <1>3, <1>4

\* Induction on the subsets of a finite set.
LEMMA SubsetInduction ==
    ASSUME NEW S, IsFiniteSet(S), NEW P,
           \A T \in SUBSET S : (\A x \in T : T \ {x} \in P) => T \in P
    PROVE  \A T \in SUBSET S : T \in P
<1> DEFINE not == {T \in SUBSET S : T \notin P}
           sizes == {Cardinality(T) : T \in not}
<1> SUFFICES ASSUME not # {} PROVE FALSE  OBVIOUS
<1>1. ASSUME NEW T \in SUBSET S PROVE IsFiniteSet(T) /\ Cardinality(T) \in Nat
  BY FS_Subset, FS_CardinalityType
<1>2. sizes \subseteq Nat /\ sizes # {}  BY <1>1
<1>3. Least(sizes) \in sizes /\ \A n \in sizes : Least(sizes) <= n
  <2> HIDE DEF sizes
  <2> QED  BY <1>2, LeastIs
<1>4. PICK T \in not : Least(sizes) = Cardinality(T)  BY <1>3
<1>5. PICK x \in T : T \ {x} \notin P  BY <1>4
<1>6. Cardinality(T \ {x}) = Cardinality(T) - 1
  BY <1>1, <1>4, <1>5, FS_RemoveElement
<1>7. Cardinality(T \ {x}) \in sizes  BY <1>4, <1>5
<1>8. Cardinality(T) <= Cardinality(T \ {x})
  <2> HIDE DEF sizes
  <2> QED  BY <1>3, <1>4, <1>7
<1>9. Cardinality(T) \in Nat  BY <1>1, <1>4
<1> QED  BY <1>6, <1>8, <1>9

\* The recursive function behind SumFunctionOnSet, and what it satisfies.
Pick(T) == CHOOSE x \in T : TRUE
Sums(f, S) == CHOOSE sum : sum = [T \in SUBSET S |->
    IF T = {} THEN 0 ELSE LET x == CHOOSE x \in T : TRUE IN f[x] + sum[T \ {x}]]
Adds(sum, f, parts) ==
    sum = [T \in parts |-> IF T = {} THEN 0 ELSE f[Pick(T)] + sum[T \ {Pick(T)}]]

\* The library's sum is the value of these for the whole set.
LEMMA SumIs == ASSUME NEW f, NEW S PROVE SumFunctionOnSet(f, S) = Sums(f, S)[S]
BY Zenon DEF SumFunctionOnSet, FoldFunctionOnSet, MapThenFoldSet, Sums

\* The recursive function exists: over parts of up to n elements, for every n.
LEMMA SumsExist ==
    ASSUME NEW f, NEW S, IsFiniteSet(S)
    PROVE  Adds(Sums(f, S), f, SUBSET S)
<1> DEFINE Small(n) == {T \in SUBSET S : Cardinality(T) <= n}
           P == {n \in Nat : \E sum : Adds(sum, f, Small(n))}
<1>0. ASSUME NEW T \in SUBSET S
      PROVE  /\ IsFiniteSet(T) /\ Cardinality(T) \in Nat
             /\ Cardinality(T) = 0 <=> T = {}
  BY FS_Subset, FS_CardinalityType, FS_EmptySet
<1>1. 0 \in P
  <2>1. \A T \in Small(0) : T = {}  BY <1>0
  <2>2. Adds([T \in Small(0) |-> 0], f, Small(0))  BY <2>1 DEF Adds
  <2> QED  BY <2>2
<1>2. ASSUME NEW n \in P PROVE n + 1 \in P
  <2> DEFINE A == Small(n)
             B == Small(n + 1)
  <2>1. PICK sum : Adds(sum, f, A)  OBVIOUS
  <2> DEFINE next == [T \in B |-> IF T = {} THEN 0 ELSE f[Pick(T)] + sum[T \ {Pick(T)}]]
  <2>2. n \in Nat /\ A \subseteq B  BY <1>0
  <2>3. ASSUME NEW T \in A PROVE next[T] = sum[T]
    <3> HIDE DEF A, B
    <3> QED  BY <2>1, <2>2, <2>3 DEF Adds
  <2>4. ASSUME NEW T \in B, T # {} PROVE T \ {Pick(T)} \in A
    <3>1. Pick(T) \in T  BY <2>4 DEF Pick
    <3>2. Cardinality(T \ {Pick(T)}) = Cardinality(T) - 1  BY <1>0, <3>1, FS_RemoveElement
    <3>3. Cardinality(T) \in Nat /\ Cardinality(T) <= n + 1  BY <1>0
    <3>4. Cardinality(T \ {Pick(T)}) <= n  BY <2>2, <3>2, <3>3
    <3> QED  BY <3>4
  <2>5. ASSUME NEW T \in B
        PROVE  next[T] = IF T = {} THEN 0 ELSE f[Pick(T)] + next[T \ {Pick(T)}]
    <3> HIDE DEF A, B
    <3> QED  BY <2>3, <2>4
  <2>6. Adds(next, f, B)
    <3> DEFINE N(T) == next[T \ {Pick(T)}]
    <3>1. next = [T \in B |-> next[T]]  BY Zenon
    <3> HIDE DEF next, B
    <3> QED  BY <2>5, <3>1 DEF Adds
  <2>7. \E s : Adds(s, f, B)
    <3> HIDE DEF next, B
    <3> QED  BY <2>6
  <2>8. n + 1 \in Nat  BY <2>2
  <2> HIDE DEF Small, next
  <2> QED  BY <2>7, <2>8
<1>3. P = Nat
  <2> HIDE DEF P
  <2>1. P \subseteq Nat  BY DEF P
  <2> QED  BY <1>1, <1>2, <2>1, Counting
<1>4. Small(Cardinality(S)) = SUBSET S  BY <1>0, FS_Subset
<1>5. PICK sum : Adds(sum, f, SUBSET S)
  <2>1. Cardinality(S) \in P  BY <1>0, <1>3
  <2> QED  BY <1>4, <2>1
<1>6. sum = [T \in SUBSET S |->
        IF T = {} THEN 0 ELSE LET x == CHOOSE x \in T : TRUE IN f[x] + sum[T \ {x}]]
  BY <1>5, Zenon DEF Adds, Pick
<1>7. Sums(f, S) = [T \in SUBSET S |->
        IF T = {} THEN 0 ELSE LET x == CHOOSE x \in T : TRUE IN f[x] + Sums(f, S)[T \ {x}]]
  BY <1>6, Zenon DEF Sums
<1> QED  BY <1>7, Zenon DEF Adds, Pick

\* A sum over a set is that over what remains without an element the choice of
\* which is fixed, and that element.
LEMMA SumStep ==
    ASSUME NEW f, NEW S, IsFiniteSet(S)
    PROVE  SumFunctionOnSet(f, S) =
             IF S = {} THEN 0 ELSE f[Pick(S)] + SumFunctionOnSet(f, S \ {Pick(S)})
<1>1. ASSUME NEW T, IsFiniteSet(T), NEW U \in SUBSET T
      PROVE  Sums(f, T)[U] = IF U = {} THEN 0 ELSE f[Pick(U)] + Sums(f, T)[U \ {Pick(U)}]
  <2> DEFINE sum == Sums(f, T)
  <2>1. Adds(sum, f, SUBSET T)  BY <1>1, SumsExist
  <2> HIDE DEF sum
  <2>2. sum[U] = IF U = {} THEN 0 ELSE f[Pick(U)] + sum[U \ {Pick(U)}]  BY <2>1 DEF Adds
  <2> QED  BY <2>2 DEF sum
<1>2. ASSUME S # {}
      PROVE  Sums(f, S)[S \ {Pick(S)}] = Sums(f, S \ {Pick(S)})[S \ {Pick(S)}]
  <2> DEFINE R == S \ {Pick(S)}
             P == {T \in SUBSET R : Sums(f, S)[T] = Sums(f, R)[T]}
  <2>1. IsFiniteSet(R)  BY FS_RemoveElement
  <2>2. ASSUME NEW T \in SUBSET R, \A x \in T : T \ {x} \in P PROVE T \in P
    <3>1. T \in SUBSET S  OBVIOUS
    <3>2. Sums(f, S)[T] = IF T = {} THEN 0 ELSE f[Pick(T)] + Sums(f, S)[T \ {Pick(T)}]
      BY <1>1, <3>1
    <3>3. Sums(f, R)[T] = IF T = {} THEN 0 ELSE f[Pick(T)] + Sums(f, R)[T \ {Pick(T)}]
      <4> HIDE DEF R
      <4> QED  BY <1>1, <2>1
    <3>4. T # {} => Pick(T) \in T  BY DEF Pick
    <3>5. T # {} => Sums(f, S)[T \ {Pick(T)}] = Sums(f, R)[T \ {Pick(T)}]  BY <2>2, <3>4
    <3>6. Sums(f, S)[T] = Sums(f, R)[T]
      <4> HIDE DEF R
      <4> QED  BY <3>2, <3>3, <3>5
    <3> QED  BY <3>6
  <2>3. R \in P
    <3> HIDE DEF P, R
    <3>1. \A T \in SUBSET R : T \in P  BY <2>1, <2>2, SubsetInduction
    <3> QED  BY <3>1
  <2> QED  BY <2>3
<1>3. S # {} => Sums(f, S)[S] = f[Pick(S)] + Sums(f, S)[S \ {Pick(S)}]  BY <1>1
<1>4. S = {} => Sums(f, S)[S] = 0  BY <1>1
<1> QED  BY <1>2, <1>3, <1>4, SumIs

\* Numbers add up to a number.
LEMMA SumIn ==
    ASSUME NEW f, NEW S, IsFiniteSet(S), \A x \in S : f[x] \in Nat
    PROVE  SumFunctionOnSet(f, S) \in Nat
<1> DEFINE P == {T \in SUBSET S : SumFunctionOnSet(f, T) \in Nat}
<1>1. ASSUME NEW T \in SUBSET S, \A x \in T : T \ {x} \in P PROVE T \in P
  <2>1. IsFiniteSet(T)  BY FS_Subset
  <2>2. SumFunctionOnSet(f, T) =
          IF T = {} THEN 0 ELSE f[Pick(T)] + SumFunctionOnSet(f, T \ {Pick(T)})
    BY <2>1, SumStep
  <2>3. T # {} => Pick(T) \in T  BY DEF Pick
  <2>4. T # {} => f[Pick(T)] \in Nat /\ SumFunctionOnSet(f, T \ {Pick(T)}) \in Nat
    BY <1>1, <2>3
  <2> QED  BY <2>2, <2>4
<1>2. \A T \in SUBSET S : T \in P
  <2> HIDE DEF P
  <2> QED  BY <1>1, SubsetInduction
<1> QED  BY <1>2

\* Any element may be taken first.
LEMMA SumWithout ==
    ASSUME NEW f, NEW S, IsFiniteSet(S), \A x \in S : f[x] \in Nat, NEW y \in S
    PROVE  SumFunctionOnSet(f, S) = f[y] + SumFunctionOnSet(f, S \ {y})
<1> DEFINE Sum(T) == SumFunctionOnSet(f, T)
           P == {T \in SUBSET S : \A z \in T : Sum(T) = f[z] + Sum(T \ {z})}
<1>0. ASSUME NEW T \in SUBSET S PROVE IsFiniteSet(T) /\ Sum(T) \in Nat
  BY FS_Subset, SumIn
<1>1. ASSUME NEW T \in SUBSET S, \A x \in T : T \ {x} \in P PROVE T \in P
  <2> SUFFICES ASSUME NEW z \in T PROVE Sum(T) = f[z] + Sum(T \ {z})  OBVIOUS
  <2> DEFINE x == Pick(T)
  <2>1. x \in T  BY DEF Pick
  <2>2. Sum(T) = f[x] + Sum(T \ {x})  BY <1>0, SumStep
  <2> HIDE DEF x, Sum
  <2>3. CASE x = z  BY <2>2, <2>3
  <2>4. CASE x # z
    <3>1. Sum(T \ {x}) = f[z] + Sum((T \ {x}) \ {z})  BY <1>1, <2>1, <2>4
    <3>2. Sum(T \ {z}) = f[x] + Sum((T \ {z}) \ {x})  BY <1>1, <2>1, <2>4
    <3>3. (T \ {x}) \ {z} = (T \ {z}) \ {x}  OBVIOUS
    <3>4. f[x] \in Nat /\ f[z] \in Nat /\ Sum((T \ {x}) \ {z}) \in Nat  BY <1>0, <2>1
    <3> QED  BY <2>2, <3>1, <3>2, <3>3, <3>4
  <2> QED  BY <2>3, <2>4
<1>2. \A T \in SUBSET S : T \in P
  <2> HIDE DEF P
  <2> QED  BY <1>1, SubsetInduction
<1> QED  BY <1>2

\* A sum of naturals is at least each of them.
LEMMA SumAtLeast ==
    ASSUME NEW f, NEW S, IsFiniteSet(S), \A x \in S : f[x] \in Nat, NEW y \in S
    PROVE  f[y] <= SumFunctionOnSet(f, S)
<1>1. SumFunctionOnSet(f, S) = f[y] + SumFunctionOnSet(f, S \ {y})  BY SumWithout
<1>2. IsFiniteSet(S \ {y})  BY FS_RemoveElement
<1>3. SumFunctionOnSet(f, S \ {y}) \in Nat  BY <1>2, SumIn
<1>4. f[y] \in Nat  OBVIOUS
<1> QED  BY <1>1, <1>3, <1>4

\* Only the terms of a sum matter.
LEMMA SumOfEqual ==
    ASSUME NEW f, NEW g, NEW S, IsFiniteSet(S), \A x \in S : f[x] = g[x]
    PROVE  SumFunctionOnSet(f, S) = SumFunctionOnSet(g, S)
<1> DEFINE P == {T \in SUBSET S : SumFunctionOnSet(f, T) = SumFunctionOnSet(g, T)}
<1>1. ASSUME NEW T \in SUBSET S, \A x \in T : T \ {x} \in P PROVE T \in P
  <2>1. IsFiniteSet(T)  BY FS_Subset
  <2>2. /\ SumFunctionOnSet(f, T) =
             IF T = {} THEN 0 ELSE f[Pick(T)] + SumFunctionOnSet(f, T \ {Pick(T)})
        /\ SumFunctionOnSet(g, T) =
             IF T = {} THEN 0 ELSE g[Pick(T)] + SumFunctionOnSet(g, T \ {Pick(T)})
    BY <2>1, SumStep
  <2>3. T # {} => Pick(T) \in T  BY DEF Pick
  <2> QED  BY <1>1, <2>2, <2>3
<1>2. \A T \in SUBSET S : T \in P
  <2> HIDE DEF P
  <2> QED  BY <1>1, SubsetInduction
<1> QED  BY <1>2

\* A proportion that bounds each term bounds the sum.
LEMMA SumBounded ==
    ASSUME NEW f, NEW g, NEW c \in Nat, NEW r \in Nat, NEW S, IsFiniteSet(S),
           \A x \in S : f[x] \in Nat /\ g[x] \in Nat /\ r * f[x] <= c * g[x]
    PROVE  r * SumFunctionOnSet(f, S) <= c * SumFunctionOnSet(g, S)
<1> DEFINE P == {T \in SUBSET S : r * SumFunctionOnSet(f, T) <= c * SumFunctionOnSet(g, T)}
<1>1. ASSUME NEW T \in SUBSET S, \A x \in T : T \ {x} \in P PROVE T \in P
  <2>1. IsFiniteSet(T)  BY FS_Subset
  <2>2. /\ SumFunctionOnSet(f, T) =
             IF T = {} THEN 0 ELSE f[Pick(T)] + SumFunctionOnSet(f, T \ {Pick(T)})
        /\ SumFunctionOnSet(g, T) =
             IF T = {} THEN 0 ELSE g[Pick(T)] + SumFunctionOnSet(g, T \ {Pick(T)})
    BY <2>1, SumStep
  <2>3. CASE T = {}  BY <2>2, <2>3
  <2>4. CASE T # {}
    <3> DEFINE x == Pick(T)
               F == SumFunctionOnSet(f, T \ {x})
               G == SumFunctionOnSet(g, T \ {x})
    <3>1. x \in T  BY <2>4 DEF Pick
    <3>2. T \ {x} \in SUBSET S /\ IsFiniteSet(T \ {x})  BY <2>1, FS_RemoveElement
    <3>3. F \in Nat /\ G \in Nat  BY <3>2, SumIn
    <3>4. r * F <= c * G  BY <1>1, <3>1
    <3>5. f[x] \in Nat /\ g[x] \in Nat /\ r * f[x] <= c * g[x]  BY <3>1
    <3>6. SumFunctionOnSet(f, T) = f[x] + F /\ SumFunctionOnSet(g, T) = g[x] + G
      BY <2>2, <2>4
    <3> HIDE DEF x, F, G
    <3>7. /\ r * (f[x] + F) = r * f[x] + r * F
          /\ c * (g[x] + G) = c * g[x] + c * G
      BY <3>3, <3>5
    <3>8. r * f[x] + r * F <= c * g[x] + c * G
      <4> DEFINE a1 == r * f[x]
                 a2 == r * F
                 b1 == c * g[x]
                 b2 == c * G
      <4>1. a1 \in Int /\ a2 \in Int /\ b1 \in Int /\ b2 \in Int  BY <3>3, <3>5
      <4>2. a1 <= b1 /\ a2 <= b2  BY <3>4, <3>5
      <4> HIDE DEF a1, a2, b1, b2
      <4>3. a1 + a2 <= b1 + b2  BY <4>1, <4>2
      <4> QED  BY <4>3 DEF a1, a2, b1, b2
    <3> QED  BY <3>6, <3>7, <3>8
  <2> QED  BY <2>3, <2>4
<1>2. \A T \in SUBSET S : T \in P
  <2> HIDE DEF P
  <2> QED  BY <1>1, SubsetInduction
<1> QED  BY <1>2

\* A sum over numbers from a on, and its last term.
LEMMA SumUpTo ==
    ASSUME NEW f, NEW a \in Int, NEW n \in Int, a <= n + 1,
           \A i \in a .. n + 1 : f[i] \in Nat
    PROVE  /\ SumFunctionOnSet(f, a .. n + 1) = f[n + 1] + SumFunctionOnSet(f, a .. n)
           /\ SumFunctionOnSet(f, a .. n) \in Nat
<1> DEFINE S == a .. n + 1
           last == n + 1
<1>1. IsFiniteSet(S) /\ IsFiniteSet(a .. n)  BY FS_Interval
<1>2. last \in S /\ S \ {last} = a .. n  OBVIOUS
<1>3. \A i \in S : f[i] \in Nat  OBVIOUS
<1>4. SumFunctionOnSet(f, S) = f[last] + SumFunctionOnSet(f, S \ {last})
  <2> HIDE DEF S, last
  <2> QED  BY <1>1, <1>2, <1>3, SumWithout
<1>5. \A i \in a .. n : f[i] \in Nat  BY <1>3
<1>6. SumFunctionOnSet(f, a .. n) \in Nat  BY <1>1, <1>5, SumIn
<1> QED  BY <1>2, <1>4, <1>6

\* The terms of a sequence add up to the same one place further on.
LEMMA SumShifted ==
    ASSUME NEW f, NEW g, NEW n \in Nat,
           \A i \in 1 .. n : f[i] \in Nat /\ g[i + 1] = f[i]
    PROVE  SumFunctionOnSet(g, 2 .. n + 1) = SumFunctionOnSet(f, 1 .. n)
<1> DEFINE P == {m \in Nat : m <= n =>
                    SumFunctionOnSet(g, 2 .. m + 1) = SumFunctionOnSet(f, 1 .. m)}
<1>1. 0 \in P
  <2>1. 2 .. 0 + 1 = {} /\ 1 .. 0 = {} /\ 0 \in Nat  OBVIOUS
  <2>2. SumFunctionOnSet(g, {}) = 0 /\ SumFunctionOnSet(f, {}) = 0  BY FS_EmptySet, SumStep
  <2> QED  BY <2>1, <2>2
<1>2. ASSUME NEW m \in P PROVE m + 1 \in P
  <2> SUFFICES ASSUME m + 1 <= n
               PROVE  SumFunctionOnSet(g, 2 .. (m + 1) + 1) = SumFunctionOnSet(f, 1 .. m + 1)
    OBVIOUS
  <2>1. m \in Nat /\ m <= n  OBVIOUS
  <2>2. SumFunctionOnSet(g, 2 .. m + 1) = SumFunctionOnSet(f, 1 .. m)  BY <2>1
  <2>3. (\A i \in 1 .. m + 1 : f[i] \in Nat) /\ g[(m + 1) + 1] = f[m + 1]
    BY <2>1
  <2>4. ASSUME NEW i \in 2 .. (m + 1) + 1 PROVE g[i] \in Nat
    <3>1. i - 1 \in 1 .. n /\ (i - 1) + 1 = i  BY <2>1
    <3> QED  BY <3>1
  <2>5. SumFunctionOnSet(f, 1 .. m + 1) = f[m + 1] + SumFunctionOnSet(f, 1 .. m)
    <3>1. 1 \in Int /\ m \in Int /\ 1 <= m + 1  BY <2>1
    <3> QED  BY <2>3, <3>1, SumUpTo
  <2>6. SumFunctionOnSet(g, 2 .. (m + 1) + 1) = g[(m + 1) + 1] + SumFunctionOnSet(g, 2 .. m + 1)
    <3> DEFINE k == m + 1
    <3>1. 2 \in Int /\ k \in Int /\ 2 <= k + 1  BY <2>1
    <3> HIDE DEF k
    <3>2. \A i \in 2 .. k + 1 : g[i] \in Nat  BY <2>4 DEF k
    <3>3. SumFunctionOnSet(g, 2 .. k + 1) = g[k + 1] + SumFunctionOnSet(g, 2 .. k)
      BY <3>1, <3>2, SumUpTo
    <3> QED  BY <3>3 DEF k
  <2> QED  BY <2>2, <2>3, <2>5, <2>6
<1>3. n \in P
  <2> HIDE DEF P
  <2>1. P \subseteq Nat  BY DEF P
  <2>2. P = Nat  BY <1>1, <1>2, <2>1, Counting
  <2> QED  BY <2>2
<1> QED  BY <1>3

\* What is put before and after the terms of a sequence is added to its sum.
LEMMA SumFramed ==
    ASSUME NEW s \in Seq(Nat), NEW first \in Nat
    PROVE  SumFunction(<<first>> \o s \o <<0>>) = first + SumFunction(s)
<1> DEFINE t == <<first>> \o s \o <<0>>
           n == Len(s)
<1>1. /\ n \in Nat /\ DOMAIN s = 1 .. n /\ \A i \in 1 .. n : s[i] \in Nat
      /\ DOMAIN t = 1 .. n + 2 /\ t[1] = first /\ t[n + 2] = 0
      /\ \A i \in 1 .. n : t[i + 1] = s[i]
  OBVIOUS
<1> HIDE DEF t, n
<1>2. ASSUME NEW i \in 1 .. n + 2 PROVE t[i] \in Nat
  <2>1. CASE i = 1 \/ i = n + 2  BY <2>1, <1>1
  <2>2. CASE i # 1 /\ i # n + 2
    <3>1. i - 1 \in 1 .. n /\ (i - 1) + 1 = i  BY <2>2, <1>1
    <3> QED  BY <3>1, <1>1
  <2> QED  BY <2>1, <2>2
<1>3. SumFunctionOnSet(t, 1 .. n + 2) = t[1] + SumFunctionOnSet(t, 2 .. n + 2)
  <2> DEFINE S == 1 .. n + 2
  <2>1. IsFiniteSet(S)  BY <1>1, FS_Interval
  <2>2. 1 \in S /\ S \ {1} = 2 .. n + 2  BY <1>1
  <2>3. \A i \in S : t[i] \in Nat  BY <1>2
  <2>4. SumFunctionOnSet(t, S) = t[1] + SumFunctionOnSet(t, S \ {1})
    <3> HIDE DEF S
    <3> QED  BY <2>1, <2>2, <2>3, SumWithout
  <2> QED  BY <2>2, <2>4
<1>4. SumFunctionOnSet(t, 2 .. n + 2) = t[n + 2] + SumFunctionOnSet(t, 2 .. n + 1)
  <2> DEFINE k == n + 1
  <2>1. 2 \in Int /\ k \in Int /\ 2 <= k + 1 /\ k + 1 = n + 2  BY <1>1
  <2> HIDE DEF k
  <2>2. \A i \in 2 .. k + 1 : t[i] \in Nat  BY <1>1, <1>2, <2>1
  <2>3. SumFunctionOnSet(t, 2 .. k + 1) = t[k + 1] + SumFunctionOnSet(t, 2 .. k)
    BY <2>1, <2>2, SumUpTo
  <2> QED  BY <2>1, <2>3 DEF k
<1>5. SumFunctionOnSet(t, 2 .. n + 1) = SumFunctionOnSet(s, 1 .. n)
  BY <1>1, SumShifted
<1>6. SumFunctionOnSet(s, 1 .. n) \in Nat
  <2>1. IsFiniteSet(1 .. n)  BY <1>1, FS_Interval
  <2> QED  BY <1>1, <2>1, SumIn
<1> QED  BY <1>1, <1>3, <1>4, <1>5, <1>6 DEF SumFunction, t

-----------------------------------------------------------------------------
(* The series and the counts of points                                     *)

\* A hash tells what identifies a series.
LEMMA HashTells ==
    ASSUME NEW n1, NEW n2, NEW t1, NEW t2, NEW r1, NEW r2, NEW a1, NEW a2,
           SeriesHash(n1, t1, r1, a1) = SeriesHash(n2, t2, r2, a2)
    PROVE  LET Keys(r, a) ==
                 DOMAIN Over(r, a) \ (HighCardinalityKeys \cup {"__name__", "__temporality__"})
           IN /\ n1 = n2 /\ t1 = t2
              /\ Restrict(Over(r1, a1), Keys(r1, a1)) = Restrict(Over(r2, a2), Keys(r2, a2))
<1> DEFINE Marks == {"__name__", "__temporality__"}
           Keys(r, a) == DOMAIN Over(r, a) \ (HighCardinalityKeys \cup Marks)
<1>1. ASSUME NEW n, NEW t, NEW r, NEW a
      PROVE  LET hash == SeriesHash(n, t, r, a)
             IN /\ hash["__name__"] = n /\ hash["__temporality__"] = t
                /\ Keys(r, a) = DOMAIN hash \ Marks
                /\ \A k \in Keys(r, a) : hash[k] = Over(r, a)[k]
  <2> DEFINE own == Restrict(Over(r, a), (DOMAIN r \cup DOMAIN a) \ HighCardinalityKeys)
             one == Put(own, "__temporality__", t)
             two == Put(one, "__name__", n)
  <2>1. DOMAIN Over(r, a) = DOMAIN r \cup DOMAIN a  BY DEF Over
  <2>2. /\ DOMAIN own = DOMAIN Over(r, a) \ HighCardinalityKeys
        /\ \A k \in DOMAIN own : own[k] = Over(r, a)[k]
    BY <2>1 DEF Restrict
  <2>3. two = SeriesHash(n, t, r, a)  BY DEF SeriesHash
  <2> HIDE DEF own
  <2>4. /\ DOMAIN one = DOMAIN own \cup {"__temporality__"}
        /\ one["__temporality__"] = t
        /\ \A k \in DOMAIN own \ {"__temporality__"} : one[k] = own[k]
    BY DEF Put
  <2> HIDE DEF one
  <2>5. /\ DOMAIN two = DOMAIN one \cup {"__name__"}
        /\ two["__name__"] = n
        /\ \A k \in DOMAIN one \ {"__name__"} : two[k] = one[k]
    BY DEF Put
  <2> HIDE DEF two
  <2>6. two["__temporality__"] = t  BY <2>4, <2>5
  <2>7. Keys(r, a) = DOMAIN two \ Marks  BY <2>2, <2>4, <2>5
  <2>8. \A k \in Keys(r, a) : two[k] = Over(r, a)[k]  BY <2>2, <2>4, <2>5
  <2> QED  BY <2>3, <2>5, <2>6, <2>7, <2>8
<1>2. n1 = n2 /\ t1 = t2  BY <1>1
<1>3. Keys(r1, a1) = Keys(r2, a2)  BY <1>1
<1>4. \A k \in Keys(r1, a1) : Over(r1, a1)[k] = Over(r2, a2)[k]  BY <1>1, <1>3
<1>5. Restrict(Over(r1, a1), Keys(r1, a1)) = Restrict(Over(r2, a2), Keys(r2, a2))
  <2> HIDE DEF Keys
  <2> QED  BY <1>3, <1>4 DEF Restrict
<1> QED  BY <1>2, <1>5

\* The hash of a row or of a series is that of its own fields and of the
\* attributes of a resource.
HashedWith(x, resAttrs) == x.fp = SeriesHash(x.name, x.temporality, resAttrs, x.attrs)

\* A list has one entry for each fingerprint.
OneEach(list) == \A j, k \in DOMAIN list : list[j].fp = list[k].fp => j = k

\* A series is listed once, with the resource it was first seen in, and every
\* row has one.
SeriesListed ==
    /\ Listed(series) /\ OneEach(series)
    /\ \A j \in DOMAIN series :
        /\ series[j].of \in DOMAIN resources
        /\ HashedWith(series[j], resources[series[j].of])
    /\ signal = "metrics" => \A i \in DOMAIN rows : \E j \in DOMAIN series : series[j].fp = rows[i].fp

\* What a point's row and its series take from it.
LEMMA ScalarFields ==
    ASSUME NEW res, NEW dims, NEW dp, NEW of,
           NEW row, row = ScalarRow(res, dims, dp).row,
           NEW own, own = Over(ScalarRow(res, dims, dp).series, [of |-> of])
    PROVE  /\ HashedWith(row, res) /\ HashedWith(own, res)
           /\ own.of = of /\ own.fp = row.fp
           /\ row.hist = Histogram(dp) /\ row.dims = dims
           /\ dp.type = "ExponentialHistogram" => row.count = dp.count
<1> DEFINE attrs == NormalizeAttrs(dp.name, AttrsToMap(dp.attrs))
<1>1. PICK common : common =
        [name |-> dp.name, temporality |-> PointTemporality(dp), attrs |-> attrs,
         time |-> dp.time, dims |-> dims,
         fp |-> SeriesHash(dp.name, PointTemporality(dp), res, attrs)]
  OBVIOUS
<1>2. PICK values : values =
        [value |-> IF dp.type \in {"Gauge", "Sum"} THEN dp.value ELSE 0,
         count |-> IF dp.type \in {"Gauge", "Sum"} THEN 0 ELSE dp.count,
         hist  |-> Histogram(dp),
         cloud |-> [provider |-> Get(res, "cloud.provider"),
                    account  |-> Get(res, "cloud.account.id"),
                    region   |-> FirstNonEmpty(res, <<"cloud.region", "aws.region">>),
                    platform |-> Get(res, "cloud.platform"),
                    node     |-> Get(res, "k8s.node.name")]]
  OBVIOUS
<1>3. PICK kind : kind =
        [type |-> dp.type, monotonic |-> dp.type = "Sum" /\ dp.monotonic,
         resource |-> HostResourceAttrs(res)]
  OBVIOUS
<1>4. ScalarRow(res, dims, dp) = [row |-> Over(common, values), series |-> Over(common, kind)]
  BY <1>1, <1>2, <1>3, Zenon DEF ScalarRow
<1> HIDE DEF attrs
<1>5. /\ DOMAIN common = {"name", "temporality", "attrs", "time", "dims", "fp"}
      /\ common.dims = dims
      /\ common.fp = SeriesHash(common.name, common.temporality, res, common.attrs)
  BY <1>1
<1>6. /\ DOMAIN values = {"value", "count", "hist", "cloud"}
      /\ values.hist = Histogram(dp)
      /\ dp.type = "ExponentialHistogram" => values.count = dp.count
  BY <1>2
<1>7. DOMAIN kind = {"type", "monotonic", "resource"}  BY <1>3
<1>8. row = Over(common, values) /\ own = Over(Over(common, kind), [of |-> of])
  BY <1>4
<1>9. /\ \A f \in {"name", "temporality", "attrs", "fp", "dims"} : row[f] = common[f]
      /\ row.hist = values.hist /\ row.count = values.count
  BY <1>5, <1>6, <1>8 DEF Over
<1>10. /\ \A f \in {"name", "temporality", "attrs", "fp"} : own[f] = common[f]
       /\ own.of = of
  <2>1. PICK mid : mid = Over(common, kind)  OBVIOUS
  <2>2. /\ {"name", "temporality", "attrs", "fp"} \subseteq DOMAIN mid
        /\ \A f \in {"name", "temporality", "attrs", "fp"} : mid[f] = common[f]
    BY <1>5, <1>7, <2>1 DEF Over
  <2>3. DOMAIN [of |-> of] = {"of"} /\ [of |-> of].of = of  OBVIOUS
  <2> QED  BY <1>8, <2>1, <2>2, <2>3 DEF Over
<1> QED  BY <1>5, <1>6, <1>9, <1>10 DEF HashedWith

\* A fingerprint is never 0: the name and the temporality are always hashed.
LEMMA HashIsSet ==
    ASSUME NEW x, NEW res, HashedWith(x, res)
    PROVE  ~NoFingerprint(x.fp)
<1>1. PICK own : own = Put(Restrict(Over(res, x.attrs),
                                    (DOMAIN res \cup DOMAIN x.attrs) \ HighCardinalityKeys),
                           "__temporality__", x.temporality)
  OBVIOUS
<1>2. x.fp = Put(own, "__name__", x.name)  BY <1>1 DEF HashedWith, SeriesHash
<1>3. "__name__" \in DOMAIN x.fp  BY <1>2 DEF Put
<1> QED  BY <1>3 DEF NoFingerprint

\* A series that is new is listed, and one that is not leaves the list.
LEMMA AddedOnce ==
    ASSUME NEW list, NEW s, NEW added, ~NoFingerprint(s.fp),
           Listed(list), OneEach(list), added = AddSeries(list, s)
    PROVE  /\ Listed(added)
           /\ DOMAIN list \subseteq DOMAIN added
           /\ \A j \in DOMAIN list : added[j] = list[j]
           /\ \A j \in DOMAIN added : j \in DOMAIN list \/ added[j] = s
           /\ OneEach(added)
           /\ \E j \in DOMAIN added : added[j].fp = s.fp
<1>1. CASE \E i \in DOMAIN list : list[i].fp = s.fp  BY <1>1 DEF AddSeries
<1>2. CASE ~\E i \in DOMAIN list : list[i].fp = s.fp
  <2>1. added = Append(list, s)  BY <1>2 DEF AddSeries
  <2>2. /\ Listed(added) /\ Len(list) \in Nat /\ DOMAIN list = 1 .. Len(list)
        /\ DOMAIN added = 1 .. Len(list) + 1
        /\ \A i \in DOMAIN list : added[i] = list[i]
        /\ added[Len(list) + 1] = s
    BY <2>1, Appended
  <2>3. \A j \in DOMAIN added : j \in DOMAIN list \/ j = Len(list) + 1  BY <2>2
  <2>4. DOMAIN list \subseteq DOMAIN added /\ Len(list) + 1 \in DOMAIN added  BY <2>2
  <2>5. ASSUME NEW j \in DOMAIN added, NEW k \in DOMAIN added, added[j].fp = added[k].fp
        PROVE  j = k
    <3>1. CASE j \in DOMAIN list /\ k \in DOMAIN list  BY <2>2, <2>5, <3>1 DEF OneEach
    <3>2. CASE j \in DOMAIN list /\ k = Len(list) + 1  BY <1>2, <2>2, <2>5, <3>2
    <3>3. CASE j = Len(list) + 1 /\ k \in DOMAIN list  BY <1>2, <2>2, <2>5, <3>3
    <3> QED  BY <2>3, <3>1, <3>2, <3>3
  <2> QED  BY <2>2, <2>3, <2>4, <2>5 DEF OneEach
<1> QED  BY <1>1, <1>2

\* A point adds its series, or the one it shares is there.
LEMMA MapPointLists ==
    ASSUME RowInv, SeriesListed, NEW dp \in Points, MapPoint(dp)
    PROVE  SeriesListed'
<1>1. PICK res, of : res = resources[Len(resources)] /\ of = Len(resources)  OBVIOUS
<1>2. PICK row, s : /\ row = ScalarRow(res, ResolveResource(res), dp).row
                    /\ s = Over(ScalarRow(res, ResolveResource(res), dp).series, [of |-> of])
  OBVIOUS
<1>3. HashedWith(s, res) /\ s.of = of /\ s.fp = row.fp  BY <1>2, ScalarFields
<1>4. /\ AddRow(dp, ScalarRow(bases[of], ResolveResource(res), dp).row, bases[of])
      /\ series' = AddSeries(series, Over(ScalarRow(bases[of], ResolveResource(res), dp).series,
                                          [of |-> of]))
      /\ signal = "metrics"
  BY <1>1 DEF MapPoint, Current
<1>5. of \in DOMAIN bases /\ DOMAIN bases = DOMAIN resources
  <2>1. Indexed  BY DEF RowInv
  <2>2. of \in DOMAIN bases  BY <2>1, <1>1, <1>4, AddRowAppends
  <2> QED  BY <2>1, <2>2, Appended DEF Indexed
<1>6. bases[of] = res  BY <1>1, <1>4, <1>5 DEF RowInv, RowsAsBuilt, BaseOf
<1>7. series' = AddSeries(series, s)  BY <1>2, <1>4, <1>6
<1>8. /\ UNCHANGED <<signal, resources>>
      /\ DOMAIN rows = 1 .. Len(rows) /\ Len(rows) \in Nat
      /\ DOMAIN rows' = 1 .. Len(rows) + 1
      /\ \A i \in DOMAIN rows : rows'[i] = rows[i]
      /\ rows'[Len(rows) + 1] = row
  <2>1. Indexed /\ bases[of] = bases[Len(resources)]  BY <1>1 DEF RowInv
  <2>2. AddRow(dp, row, bases[of])  BY <1>2, <1>4, <1>6
  <2> QED  BY <2>1, <2>2, AddRowAppends
<1>9. /\ Listed(series') /\ OneEach(series')
      /\ DOMAIN series \subseteq DOMAIN series'
      /\ \A j \in DOMAIN series : series'[j] = series[j]
      /\ \A j \in DOMAIN series' : j \in DOMAIN series \/ series'[j] = s
      /\ \E j \in DOMAIN series' : series'[j].fp = s.fp
  <2>1. Listed(series) /\ OneEach(series)  BY DEF SeriesListed
  <2>2. PICK list, added : list = series /\ added = series'  OBVIOUS
  <2>3. Listed(list) /\ OneEach(list) /\ added = AddSeries(list, s) /\ ~NoFingerprint(s.fp)
    BY <1>3, <1>7, <2>1, <2>2, HashIsSet
  <2>4. /\ Listed(added) /\ OneEach(added)
        /\ DOMAIN list \subseteq DOMAIN added
        /\ \A j \in DOMAIN list : added[j] = list[j]
        /\ \A j \in DOMAIN added : j \in DOMAIN list \/ added[j] = s
        /\ \E j \in DOMAIN added : added[j].fp = s.fp
    BY <2>3, AddedOnce
  <2> QED  BY <2>2, <2>4
<1>10. ASSUME NEW j \in DOMAIN series'
       PROVE  /\ series'[j].of \in DOMAIN resources
              /\ HashedWith(series'[j], resources[series'[j].of])
  <2>1. CASE j \in DOMAIN series  BY <2>1, <1>9 DEF SeriesListed
  <2>2. CASE series'[j] = s  BY <2>2, <1>1, <1>3, <1>5
  <2> QED  BY <2>1, <2>2, <1>9
<1>11. ASSUME NEW i \in DOMAIN rows'
       PROVE  \E j \in DOMAIN series' : series'[j].fp = rows'[i].fp
  <2>1. CASE i = Len(rows) + 1  BY <2>1, <1>3, <1>8, <1>9
  <2>2. CASE i # Len(rows) + 1
    <3>1. i \in DOMAIN rows  BY <2>2, <1>8
    <3>2. PICK j \in DOMAIN series : series[j].fp = rows[i].fp
      BY <3>1, <1>4 DEF SeriesListed
    <3> QED  BY <3>1, <3>2, <1>8, <1>9
  <2> QED  BY <2>1, <2>2
<1> QED  BY <1>8, <1>9, <1>10, <1>11 DEF SeriesListed

\* What is listed of series and points holds in every state.
LEMMA SeriesInductive == Spec => []SeriesListed
<1>1. Init => SeriesListed
  <2> SUFFICES ASSUME Init PROVE SeriesListed  OBVIOUS
  <2>1. Listed(<<>>) /\ DOMAIN <<>> = {}  BY DEF Listed
  <2>2. series = <<>> /\ rows = <<>>  BY DEF Init
  <2> QED  BY <2>1, <2>2 DEF SeriesListed, OneEach
<1>2. RowInv /\ SeriesListed /\ [Next]_vars => SeriesListed'
  <2> SUFFICES ASSUME RowInv, SeriesListed, [Next]_vars PROVE SeriesListed'  OBVIOUS
  <2>1. CASE \E attrs \in Resources : StartResource(attrs)
    <3>1. PICK attrs \in Resources : StartResource(attrs)  BY <2>1
    <3>2. /\ UNCHANGED <<signal, rows, series>>
          /\ resources' = Append(resources, AttrsToMap(attrs))
      BY <3>1 DEF StartResource
    <3>3. /\ DOMAIN resources \subseteq DOMAIN resources'
          /\ \A j \in DOMAIN resources : resources'[j] = resources[j]
      <4>1. Listed(resources)  BY DEF RowInv, Indexed
      <4>2. /\ Len(resources) \in Nat /\ DOMAIN resources = 1 .. Len(resources)
            /\ DOMAIN resources' = 1 .. Len(resources) + 1
            /\ \A j \in DOMAIN resources : resources'[j] = resources[j]
        BY <3>2, <4>1, Appended
      <4> QED  BY <4>2
    <3> QED  BY <3>2, <3>3 DEF SeriesListed
  <2>2. CASE \E s \in Spans : MapSpan(s)
    <3>1. /\ UNCHANGED <<resources, series, signal>> /\ signal = "spans"
      BY <2>2 DEF MapSpan, AddRow
    <3> QED  BY <3>1 DEF SeriesListed
  <2>3. CASE \E lr \in Logs : MapLog(lr)
    <3>1. /\ UNCHANGED <<resources, series, signal>> /\ signal = "logs"
      BY <2>3 DEF MapLog, AddRow
    <3> QED  BY <3>1 DEF SeriesListed
  <2>4. CASE \E dp \in Points : MapPoint(dp)  BY <2>4, MapPointLists
  <2>5. CASE EndResource \/ (\E total \in Sizes : Finish(total)) \/ UNCHANGED vars
    <3>1. UNCHANGED <<signal, rows, series, resources>>  BY <2>5 DEF EndResource, Finish, vars
    <3> QED  BY <3>1 DEF SeriesListed
  <2> QED  BY <2>1, <2>2, <2>3, <2>4, <2>5 DEF Next
<1> QED  BY <1>1, <1>2, Inductive, PTL DEF Spec

\* A point is found under one series that agrees with it in all that
\* identifies a series, and the buckets it is put in count what it counted
\* (rowAccumulator.add, seriesHash, expBucketsToExplicit).
THEOREM PointsComplete == Spec => []PointsKept
<1>1. RowInv /\ SeriesListed => PointsKept
  <2> SUFFICES ASSUME RowInv, SeriesListed, signal = "metrics", NEW i \in DOMAIN rows
               PROVE  /\ \E j \in DOMAIN series :
                            /\ Identity(series[j], series[j].of) = Identity(rows[i], inputs[i].of)
                            /\ \A k \in DOMAIN series : series[k].fp = rows[i].fp <=> k = j
                      /\ LET dp == inputs[i].record
                             hist == rows[i].hist
                         IN dp.type = "ExponentialHistogram" /\ dp.positive # <<>> =>
                             /\ SumFunction(hist.counts) + dp.negative = rows[i].count
                             /\ Len(hist.counts) = Len(hist.bounds) + 1
    BY DEF PointsKept, SeriesComplete, CountsConserved
  <2>1. PICK dp, res : dp = inputs[i].record /\ res = resources[inputs[i].of]  OBVIOUS
  <2>2. dp \in Points /\ rows[i] = ScalarRow(res, ResolveResource(res), dp).row
    <3>1. DOMAIN rows = DOMAIN inputs  BY Appended DEF RowInv, Indexed
    <3>2. inputs[i].of \in DOMAIN bases  BY <3>1 DEF RowInv, Indexed
    <3> QED  BY <3>2, <2>1 DEF RowInv, RowsAsBuilt, RecordsOf, RowOf, BaseOf
  <2>3. /\ HashedWith(rows[i], res) /\ rows[i].hist = Histogram(dp)
        /\ dp.type = "ExponentialHistogram" => rows[i].count = dp.count
    <3>1. PICK dims, row, own : /\ dims = ResolveResource(res)
                                /\ row = ScalarRow(res, dims, dp).row
                                /\ own = Over(ScalarRow(res, dims, dp).series, [of |-> 0])
      OBVIOUS
    <3>2. /\ HashedWith(row, res) /\ row.hist = Histogram(dp)
          /\ dp.type = "ExponentialHistogram" => row.count = dp.count
      BY <3>1, ScalarFields
    <3> QED  BY <2>2, <3>1, <3>2
  <2>4. PICK j \in DOMAIN series : series[j].fp = rows[i].fp  BY DEF SeriesListed
  <2>5. \A k \in DOMAIN series : series[k].fp = rows[i].fp <=> k = j  BY <2>4 DEF SeriesListed, OneEach
  <2>6. Identity(series[j], series[j].of) = Identity(rows[i], inputs[i].of)
    <3>1. HashedWith(series[j], resources[series[j].of])  BY DEF SeriesListed
    <3>2. SeriesHash(series[j].name, series[j].temporality, resources[series[j].of], series[j].attrs)
            = SeriesHash(rows[i].name, rows[i].temporality, res, rows[i].attrs)
      BY <2>3, <2>4, <3>1 DEF HashedWith
    <3> QED  BY <2>1, <3>2, HashTells DEF Identity
  <2>7. ASSUME dp.type = "ExponentialHistogram", dp.positive # <<>>
        PROVE  /\ SumFunction(rows[i].hist.counts) + dp.negative = rows[i].count
               /\ Len(rows[i].hist.counts) = Len(rows[i].hist.bounds) + 1
    <3>1. PICK s, zero : s = dp.positive /\ zero = dp.zero  OBVIOUS
    <3>2. /\ s \in Seq(Nat) /\ zero \in Nat /\ dp.negative \in Nat
          /\ dp.count = zero + SumFunction(s) + dp.negative
      BY <2>2, <2>7, <3>1, PointsAssumption
    <3>3. rows[i].hist = ExpBucketsToExplicit(dp)  BY <2>3, <2>7 DEF Histogram
    <3>4. /\ rows[i].hist.counts = <<zero>> \o s \o <<0>>
          /\ rows[i].hist.bounds = [b \in 1 .. Len(s) + 1 |-> dp.offset + b - 1]
      BY <2>7, <3>1, <3>3 DEF ExpBucketsToExplicit
    <3>5. SumFunction(<<zero>> \o s \o <<0>>) = zero + SumFunction(s)  BY <3>2, SumFramed
    <3>6. Len(<<zero>> \o s \o <<0>>) = Len(s) + 2 /\ Len(s) \in Nat  BY <3>2
    <3>7. Len(rows[i].hist.bounds) = Len(s) + 1  BY <3>4, <3>6
    <3>8. rows[i].count = zero + SumFunction(s) + dp.negative  BY <2>3, <2>7, <3>2
    <3> QED  BY <3>4, <3>5, <3>6, <3>7, <3>8
  <2> QED  BY <2>1, <2>5, <2>6, <2>7
<1> QED  BY <1>1, Inductive, SeriesInductive, PTL

-----------------------------------------------------------------------------
(* Scores and usage                                                        *)

\* What a type says of a value.
TypeSays(v) ==
    /\ v.type = "numeric" => v.text = ""
    /\ v.type = "boolean" => v.text \in {"true", "pass", "yes", "false", "fail", "no"}
    /\ v.type = "categorical" => v.value = 0

\* The fields of a score's value, whatever they are.
LEMMA ValueFields ==
    ASSUME NEW type, NEW value, NEW text, NEW v, v = [type |-> type, value |-> value, text |-> text]
    PROVE  v.type = type /\ v.value = value /\ v.text = text
OBVIOUS

\* What a score's value is read as, when nothing declares its type.
LEMMA ValueTyped ==
    ASSUME NEW raw, NEW label, NEW v
    PROVE  v = AssignValue("", raw, label) => TypeSays(v)
<1>0. SUFFICES ASSUME v = AssignValue("", raw, label) PROVE TypeSays(v)  OBVIOUS
<1>1. PICK text : text = IF label = "" THEN raw ELSE label  OBVIOUS
<1> DEFINE yes == text \in {"true", "pass", "yes"}
           no  == text \in {"false", "fail", "no"}
           num == raw \in DOMAIN Numbers
<1>2. ~(yes /\ no)  OBVIOUS
<1>3. v = CASE num -> [type |-> "numeric", value |-> Numbers[raw], text |-> ""]
            [] ~num /\ yes -> [type |-> "boolean", value |-> 1, text |-> text]
            [] ~num /\ no -> [type |-> "boolean", value |-> 0, text |-> text]
            [] OTHER -> [type |-> "categorical", value |-> 0, text |-> text]
  BY <1>0, <1>1 DEF AssignValue
<1> HIDE DEF num
<1>4. CASE num
  <2>1. v = [type |-> "numeric", value |-> Numbers[raw], text |-> ""]  BY <1>3, <1>4
  <2>2. v.type = "numeric" /\ v.text = ""  BY <2>1, ValueFields
  <2> QED  BY <2>2 DEF TypeSays
<1>5. CASE ~num /\ yes
  <2>1. v = [type |-> "boolean", value |-> 1, text |-> text]  BY <1>2, <1>3, <1>5
  <2>2. v.type = "boolean" /\ v.text = text  BY <2>1, ValueFields
  <2> QED  BY <2>2, <1>5 DEF TypeSays
<1>6. CASE ~num /\ no
  <2>1. v = [type |-> "boolean", value |-> 0, text |-> text]  BY <1>2, <1>3, <1>6
  <2>2. v.type = "boolean" /\ v.text = text  BY <2>1, ValueFields
  <2> QED  BY <2>2, <1>6 DEF TypeSays
<1>7. CASE ~num /\ ~yes /\ ~no
  <2>1. v = [type |-> "categorical", value |-> 0, text |-> text]  BY <1>3, <1>7
  <2>2. v.type = "categorical" /\ v.value = 0  BY <2>1, ValueFields
  <2> QED  BY <2>2 DEF TypeSays
<1> QED  BY <1>4, <1>5, <1>6, <1>7

\* Without a declared type, a score's value is what assignValue makes of its
\* two texts.
LEMMA ScoreFields ==
    ASSUME NEW row, NEW event, NEW score, score = ScoreOf(row, event)
    PROVE  \E raw, label :
             score.declared = "" => score.value = AssignValue("", raw, label)
<1> DEFINE field == [i \in 1 .. 5 |-> Get(event.attrs, ScoreKeys(event.name)[i])]
<1>1. ScoreOf(row, event).declared = field[3]
  BY Zenon DEF ScoreOf
<1>2. ScoreOf(row, event).value
        = AssignValue(IF field[3] = "" THEN "" ELSE NormalizeType(field[3]), field[4], field[5])
  BY Zenon DEF ScoreOf
<1> HIDE DEF field
<1>3. score.declared = "" => score.value = AssignValue("", field[4], field[5])  BY <1>1, <1>2
<1> QED  BY <1>3

\* So the type of such a score says what its value is.
LEMMA ScoreTyped ==
    ASSUME NEW row, NEW event
    PROVE  ScoreOf(row, event).declared = "" => TypeSays(ScoreOf(row, event).value)
<1>1. PICK score, v : score = ScoreOf(row, event) /\ v = score.value  OBVIOUS
<1>2. PICK raw, label : score.declared = "" => score.value = AssignValue("", raw, label)
  BY <1>1, ScoreFields
<1>3. v = AssignValue("", raw, label) => TypeSays(v)  BY ValueTyped
<1> QED  BY <1>1, <1>2, <1>3

\* A whole part of a product.
LEMMA Division ==
    ASSUME NEW a \in Nat, NEW r \in Nat \ {0}
    PROVE  a \div r \in Nat /\ r * (a \div r) <= a
OBVIOUS

\* A factor that both sides of an inequality have can go.
LEMMA Cancelled ==
    ASSUME NEW a \in Nat, NEW b \in Nat, NEW r \in Nat \ {0}, r * a <= r * b
    PROVE  a <= b
<1> SUFFICES ASSUME a > b PROVE FALSE  OBVIOUS
<1>1. r * a = r * b + r * (a - b)  OBVIOUS
<1>2. r * (a - b) >= 1
  <2>1. PICK d \in Nat : d = a - b /\ d >= 1  OBVIOUS
  <2>2. r >= 1 /\ r \in Nat  OBVIOUS
  <2>3. r * d >= 1  BY <2>1, <2>2
  <2> QED  BY <2>1, <2>3
<1>3. r * b \in Int /\ r * (a - b) \in Int  OBVIOUS
<1> QED  BY <1>1, <1>2, <1>3

\* And both sides can be multiplied.
LEMMA Scaled ==
    ASSUME NEW a \in Nat, NEW b \in Nat, NEW c \in Nat, a <= b
    PROVE  c * a <= c * b
<1>1. c * b = c * a + c * (b - a)  OBVIOUS
<1>2. PICK d \in Nat : d = b - a  OBVIOUS
<1>3. c * d \in Nat /\ c * a \in Nat  OBVIOUS
<1> QED  BY <1>1, <1>2, <1>3

\* How many entries of a list are of one resource.
CountOf(list, of) == Cardinality({j \in DOMAIN list : list[j].of = of})

\* A record more counts for its resource alone.
LEMMA CountAppended ==
    ASSUME NEW list, NEW x, NEW of, Listed(list)
    PROVE  /\ CountOf(Append(list, x), of) = CountOf(list, of) + (IF x.of = of THEN 1 ELSE 0)
           /\ CountOf(list, of) \in Nat
<1>1. PICK longer : longer = Append(list, x)  OBVIOUS
<1>2. /\ Len(list) \in Nat /\ DOMAIN list = 1 .. Len(list)
      /\ DOMAIN longer = 1 .. Len(list) + 1
      /\ \A i \in DOMAIN list : longer[i] = list[i]
      /\ longer[Len(list) + 1] = x
  BY <1>1, Appended
<1> DEFINE n == Len(list) + 1
           S == {j \in DOMAIN list : list[j].of = of}
           T == {j \in DOMAIN longer : longer[j].of = of}
<1>3. IsFiniteSet(S)
  <2>1. IsFiniteSet(DOMAIN list)  BY <1>2, FS_Interval
  <2> QED  BY <2>1, FS_Subset
<1>4. n \notin S /\ T = IF x.of = of THEN S \cup {n} ELSE S  BY <1>2
<1>5. Cardinality(S) \in Nat
  <2> HIDE DEF S
  <2> QED  BY <1>3, FS_CardinalityType
<1>6. Cardinality(T) = Cardinality(S) + (IF x.of = of THEN 1 ELSE 0)
  <2> HIDE DEF S, T, n
  <2>1. Cardinality(S \cup {n}) = Cardinality(S) + 1  BY <1>3, <1>4, FS_AddElement
  <2> QED  BY <1>4, <1>5, <2>1
<1> QED  BY <1>1, <1>5, <1>6 DEF CountOf

\* The total of a list is at least each of its terms.
LEMMA TotalIs ==
    ASSUME NEW list, NEW field, Listed(list), \A i \in DOMAIN list : list[i][field] \in Nat
    PROVE  /\ Total(list, field) \in Nat
           /\ \A i \in DOMAIN list : list[i][field] <= Total(list, field)
<1> DEFINE S == DOMAIN list
           f == [i \in S |-> list[i][field]]
<1>1. IsFiniteSet(S)
  <2>1. list \in Seq(Range(list))  BY DEF Listed
  <2>2. Len(list) \in Nat /\ DOMAIN list = 1 .. Len(list)  BY <2>1
  <2> QED  BY <2>2, FS_Interval
<1>2. \A i \in S : f[i] \in Nat  OBVIOUS
<1>3. Total(list, field) = SumFunctionOnSet(f, S)  BY DEF Total, SumFunction
<1>4. SumFunctionOnSet(f, S) \in Nat
  <2> HIDE DEF f, S
  <2> QED  BY <1>1, <1>2, SumIn
<1>5. ASSUME NEW i \in S PROVE f[i] <= SumFunctionOnSet(f, S)
  <2> HIDE DEF f, S
  <2> QED  BY <1>1, <1>2, SumAtLeast
<1> QED  BY <1>3, <1>4, <1>5

\* The total of a list that gets one more element.
LEMMA TotalAppended ==
    ASSUME NEW list, NEW x, NEW field, Listed(list),
           \A i \in DOMAIN list : list[i][field] \in Nat, x[field] \in Nat
    PROVE  Total(Append(list, x), field) = Total(list, field) + x[field]
<1>1. PICK longer : longer = Append(list, x)  OBVIOUS
<1>2. /\ Len(list) \in Nat /\ DOMAIN list = 1 .. Len(list)
      /\ DOMAIN longer = 1 .. Len(list) + 1
      /\ \A i \in DOMAIN list : longer[i] = list[i]
      /\ longer[Len(list) + 1] = x
  BY <1>1, Appended
<1> DEFINE n == Len(list)
           f == [i \in DOMAIN list |-> list[i][field]]
           g == [i \in DOMAIN longer |-> longer[i][field]]
<1>3. /\ Total(list, field) = SumFunctionOnSet(f, 1 .. n)
      /\ Total(longer, field) = SumFunctionOnSet(g, 1 .. n + 1)
  BY <1>2 DEF Total, SumFunction
<1>4. /\ \A i \in 1 .. n : f[i] = g[i]
      /\ g[n + 1] = x[field]
      /\ \A i \in 1 .. n + 1 : g[i] \in Nat
  <2>1. ASSUME NEW i \in 1 .. n PROVE f[i] = g[i] /\ g[i] \in Nat
    <3>1. i \in DOMAIN list /\ i \in DOMAIN longer  BY <1>2
    <3> QED  BY <3>1, <1>2
  <2>2. n + 1 \in DOMAIN longer  BY <1>2
  <2>3. g[n + 1] = x[field]  BY <1>2, <2>2
  <2>4. \A i \in 1 .. n + 1 : i \in 1 .. n \/ i = n + 1  BY <1>2
  <2> HIDE DEF f, g
  <2> QED  BY <2>1, <2>3, <2>4
<1>5. n \in Nat /\ IsFiniteSet(1 .. n)  BY <1>2, FS_Interval
<1> HIDE DEF f, g, n
<1>6. SumFunctionOnSet(g, 1 .. n + 1) = g[n + 1] + SumFunctionOnSet(g, 1 .. n)
      /\ SumFunctionOnSet(g, 1 .. n) \in Nat
  <2>1. 1 \in Int /\ n \in Int /\ 1 <= n + 1  BY <1>5
  <2> QED  BY <2>1, <1>4, SumUpTo
<1>7. SumFunctionOnSet(f, 1 .. n) = SumFunctionOnSet(g, 1 .. n)  BY <1>4, <1>5, SumOfEqual
<1> QED  BY <1>1, <1>3, <1>4, <1>6, <1>7

\* What a request's usage must be for its bytes to be shared out.
Countable(shares) ==
    /\ Listed(shares)
    /\ \A i \in DOMAIN shares :
        /\ {"of", "service", "records"} \subseteq DOMAIN shares[i]
        /\ shares[i].records \in Nat \ {0}

\* The parts rounded down are not more than the whole, and none is.
LEMMA PartsFit ==
    ASSUME NEW n \in Nat, NEW part, NEW weight, NEW total \in Nat, NEW sum \in Nat \ {0},
           \A i \in 1 .. n + 1 : weight[i] \in Nat,
           sum = SumFunctionOnSet(weight, 1 .. n + 1),
           \A i \in 1 .. n + 1 : part[i] = (total * weight[i]) \div sum
    PROVE  /\ SumFunctionOnSet(part, 1 .. n) \in 0 .. total
           /\ \A i \in 1 .. n : part[i] \in Nat
<1>1. ASSUME NEW i \in 1 .. n + 1
      PROVE  part[i] \in Nat /\ sum * part[i] <= total * weight[i]
  <2>1. PICK a : a = total * weight[i]  OBVIOUS
  <2>2. weight[i] \in Nat /\ part[i] = a \div sum  BY <2>1
  <2>3. a \in Nat  BY <2>1, <2>2
  <2> QED  BY <2>1, <2>2, <2>3, Division
<1>2. IsFiniteSet(1 .. n)  BY FS_Interval
<1>3. \A i \in 1 .. n : part[i] \in Nat /\ weight[i] \in Nat /\ sum * part[i] <= total * weight[i]
  BY <1>1
<1>4. SumFunctionOnSet(part, 1 .. n) \in Nat /\ SumFunctionOnSet(weight, 1 .. n) \in Nat
  BY <1>2, <1>3, SumIn
<1>5. sum * SumFunctionOnSet(part, 1 .. n) <= total * SumFunctionOnSet(weight, 1 .. n)
  <2>1. sum \in Nat  OBVIOUS
  <2> QED  BY <1>2, <1>3, <2>1, SumBounded
<1>6. SumFunctionOnSet(weight, 1 .. n) <= sum
  <2>1. 1 \in Int /\ n \in Int /\ 1 <= n + 1  OBVIOUS
  <2>2. sum = weight[n + 1] + SumFunctionOnSet(weight, 1 .. n)  BY <2>1, SumUpTo
  <2>3. weight[n + 1] \in Nat  OBVIOUS
  <2> QED  BY <1>4, <2>2, <2>3
<1>7. PICK p, w : p = SumFunctionOnSet(part, 1 .. n) /\ w = SumFunctionOnSet(weight, 1 .. n)
  OBVIOUS
<1>8. p \in Nat /\ w \in Nat /\ w <= sum /\ sum * p <= total * w  BY <1>4, <1>5, <1>6, <1>7
<1>9. p <= total
  <2>1. total * w <= total * sum  BY <1>8, Scaled
  <2>2. total * sum = sum * total  OBVIOUS
  <2>3. sum * p <= sum * total
    <3>1. PICK a, b, c : a = sum * p /\ b = total * w /\ c = sum * total  OBVIOUS
    <3>2. a \in Int /\ b \in Int /\ c \in Int  BY <1>8, <3>1
    <3> QED  BY <1>8, <2>1, <2>2, <3>1, <3>2
  <2> QED  BY <1>8, <2>3, Cancelled
<1> QED  BY <1>3, <1>7, <1>8, <1>9

\* The bytes of a request are shared out to the last, and each share says what
\* its resource's usage did.
LEMMA SharesAddUp ==
    ASSUME NEW shares, NEW total \in Nat, Countable(shares),
           NEW out, out = UsageRows(shares, total)
    PROVE  /\ DOMAIN out = DOMAIN shares
           /\ Total(out, "records") = Total(shares, "records")
           /\ DOMAIN shares # {} => Total(out, "bytes") = total
           /\ \A i \in DOMAIN out :
                /\ out[i].of = shares[i].of /\ out[i].service = shares[i].service
                /\ out[i].records = shares[i].records
                /\ out[i].bytes \in 0 .. total
<1> DEFINE sum == Total(shares, "records")
           n == Len(shares)
           share == [i \in DOMAIN shares |-> [bytes |-> (total * shares[i].records) \div sum]]
           before == SubSeq(share, 1, Len(share) - 1)
           bytes(i) == IF i = n THEN total - Total(before, "bytes") ELSE share[i].bytes
<1>1. n \in Nat /\ DOMAIN shares = 1 .. n
  <2>1. shares \in Seq(Range(shares))  BY DEF Countable, Listed
  <2> QED  BY <2>1
<1>2. /\ out = [i \in DOMAIN shares |-> Over(shares[i],
                    IF i = n THEN [bytes |-> total - Total(before, "bytes")] ELSE share[i])]
      /\ DOMAIN out = DOMAIN shares
  BY DEF UsageRows
<1>3. ASSUME NEW i \in DOMAIN shares
      PROVE  /\ out[i].of = shares[i].of /\ out[i].service = shares[i].service
             /\ out[i].records = shares[i].records
             /\ out[i].bytes = bytes(i)
  <2>1. PICK own, more, b : /\ own = shares[i] /\ b = bytes(i)
                            /\ more = [bytes |-> b]
    OBVIOUS
  <2>2. more = IF i = n THEN [bytes |-> total - Total(before, "bytes")] ELSE share[i]
    <3>1. share[i] = [bytes |-> share[i].bytes]  OBVIOUS
    <3> HIDE DEF share, before
    <3> QED  BY <2>1, <3>1
  <2>3. out[i] = Over(own, more)
    <3> HIDE DEF share, before
    <3> QED  BY <1>2, <2>1, <2>2
  <2>4. {"of", "service", "records"} \subseteq DOMAIN own  BY <2>1 DEF Countable
  <2> HIDE DEF share, before, bytes
  <2>5. DOMAIN more = {"bytes"} /\ more.bytes = b  BY <2>1
  <2>6. /\ Over(own, more).of = own.of /\ Over(own, more).service = own.service
        /\ Over(own, more).records = own.records /\ Over(own, more).bytes = b
    BY <2>4, <2>5 DEF Over
  <2> QED  BY <2>1, <2>3, <2>6
<1>4. Total(out, "records") = Total(shares, "records")
  <2>1. [i \in DOMAIN out |-> out[i].records] = [i \in DOMAIN shares |-> shares[i].records]
    <3> HIDE DEF share, before, bytes
    <3> QED  BY <1>2, <1>3
  <2> HIDE DEF share, before, bytes
  <2> QED  BY <2>1 DEF Total
<1>5. ASSUME n # 0
      PROVE  /\ Total(out, "bytes") = total
             /\ \A i \in DOMAIN out : out[i].bytes \in 0 .. total
  <2>1. PICK m : m = n - 1  OBVIOUS
  <2>2. m \in Nat /\ m + 1 = n  BY <1>1, <1>5, <2>1
  <2> DEFINE weight == [i \in DOMAIN shares |-> shares[i].records]
             part == [i \in DOMAIN shares |-> share[i].bytes]
             head == [i \in DOMAIN before |-> before[i].bytes]
  <2>3. sum \in Nat \ {0}
    <3>1. \A i \in DOMAIN shares : shares[i].records \in Nat /\ shares[i].records # 0
      BY DEF Countable
    <3>2. Listed(shares) /\ 1 \in DOMAIN shares  BY <1>1, <1>5 DEF Countable
    <3>3. Total(shares, "records") \in Nat /\ shares[1].records <= Total(shares, "records")
      BY <3>1, <3>2, TotalIs
    <3> QED  BY <3>1, <3>2, <3>3
  <2>4. /\ \A i \in 1 .. m + 1 : weight[i] \in Nat
        /\ sum = SumFunctionOnSet(weight, 1 .. m + 1)
        /\ \A i \in 1 .. m + 1 : part[i] = (total * weight[i]) \div sum
    <3>1. \A i \in 1 .. m + 1 : weight[i] \in Nat  BY <1>1, <2>2 DEF Countable
    <3>2. sum = SumFunctionOnSet(weight, 1 .. m + 1)
      BY <1>1, <2>2 DEF Total, SumFunction
    <3>3. ASSUME NEW i \in 1 .. m + 1 PROVE part[i] = (total * weight[i]) \div sum
      <4>1. i \in DOMAIN shares  BY <1>1, <2>2
      <4> HIDE DEF sum
      <4> QED  BY <4>1
    <3> HIDE DEF sum, part, weight
    <3> QED  BY <3>1, <3>2, <3>3
  <2>5. /\ SumFunctionOnSet(part, 1 .. m) \in 0 .. total
        /\ \A i \in 1 .. m : part[i] \in Nat
    <3> HIDE DEF sum, part, weight
    <3> QED  BY <2>2, <2>3, <2>4, PartsFit
  <2>6. DOMAIN before = 1 .. m /\ \A i \in 1 .. m : before[i] = share[i]
    <3>1. DOMAIN share = 1 .. n  BY <1>1
    <3>2. share \in Seq(Range(share))
      <4>1. share = [i \in 1 .. n |-> share[i]]  BY <1>1
      <4>2. \A i \in 1 .. n : share[i] \in Range(share)  BY <3>1 DEF Range
      <4> HIDE DEF share
      <4> QED  BY <1>1, <4>1, <4>2
    <3> HIDE DEF share
    <3>3. Len(share) = n  BY <1>1, <3>1, <3>2
    <3>4. before = [i \in 1 .. m |-> share[i]]  BY <2>1, <2>2, <3>2, <3>3
    <3> QED  BY <3>4
  <2>7. Total(before, "bytes") = SumFunctionOnSet(part, 1 .. m)
    <3>1. Total(before, "bytes") = SumFunctionOnSet(head, 1 .. m)
      BY <2>6 DEF Total, SumFunction
    <3>2. \A i \in 1 .. m : head[i] = part[i]
      <4>1. \A i \in 1 .. m : i \in DOMAIN shares  BY <1>1, <2>2
      <4> HIDE DEF share, before
      <4> QED  BY <2>6, <4>1
    <3>3. IsFiniteSet(1 .. m)  BY <2>2, FS_Interval
    <3> HIDE DEF head, part, before, share
    <3> QED  BY <3>1, <3>2, <3>3, SumOfEqual
  <2>8. PICK rest : rest = SumFunctionOnSet(part, 1 .. m)  OBVIOUS
  <2> DEFINE got == [i \in DOMAIN out |-> out[i].bytes]
  <2>9. /\ DOMAIN out = 1 .. m + 1
        /\ \A i \in 1 .. m : got[i] = part[i]
        /\ got[m + 1] = total - rest
        /\ \A i \in 1 .. m + 1 : got[i] = out[i].bytes
    <3>1. DOMAIN out = 1 .. m + 1  BY <1>1, <1>2, <2>2
    <3>2. \A i \in 1 .. m + 1 : got[i] = out[i].bytes  BY <3>1
    <3>3. \A i \in 1 .. m + 1 : out[i].bytes = bytes(i)  BY <1>1, <1>3, <2>2
    <3>4. bytes(m + 1) = total - rest  BY <2>2, <2>7, <2>8
    <3>5. ASSUME NEW i \in 1 .. m PROVE bytes(i) = part[i]
      <4>1. i # n /\ i \in DOMAIN shares
        <5> HIDE DEF n, share, before, part
        <5> QED  BY <1>1, <2>2
      <4> HIDE DEF share, before
      <4> QED  BY <4>1
    <3>6. m + 1 \in 1 .. m + 1 /\ \A i \in 1 .. m : i \in 1 .. m + 1  BY <2>2
    <3> HIDE DEF bytes, part, got
    <3> QED  BY <3>1, <3>2, <3>3, <3>4, <3>5, <3>6
  <2>10. Total(out, "bytes") = SumFunctionOnSet(got, 1 .. m + 1)
    <3> HIDE DEF share, before, part
    <3> QED  BY <2>9 DEF Total, SumFunction
  <2> HIDE DEF sum, share, before, bytes, weight, part, head, got
  <2>11. rest \in Nat /\ rest <= total  BY <2>5, <2>8
  <2>12. \A i \in 1 .. m + 1 : got[i] \in Nat
    <3>1. \A i \in 1 .. m + 1 : i \in 1 .. m \/ i = m + 1  BY <2>2
    <3>2. total - rest \in Nat  BY <2>11
    <3> QED  BY <2>5, <2>9, <3>1, <3>2
  <2>13. Total(out, "bytes") = total
    <3>1. 1 \in Int /\ m \in Int /\ 1 <= m + 1 /\ IsFiniteSet(1 .. m)  BY <2>2, FS_Interval
    <3>2. SumFunctionOnSet(got, 1 .. m + 1) = got[m + 1] + SumFunctionOnSet(got, 1 .. m)
      BY <2>12, <3>1, SumUpTo
    <3>3. SumFunctionOnSet(got, 1 .. m) = rest  BY <2>8, <2>9, <3>1, SumOfEqual
    <3> QED  BY <2>9, <2>10, <2>11, <3>2, <3>3
  <2>14. ASSUME NEW i \in DOMAIN out PROVE out[i].bytes \in 0 .. total
    <3>1. PICK S : S = 1 .. m + 1  OBVIOUS
    <3>2. IsFiniteSet(S) /\ i \in S  BY <2>2, <2>9, <3>1, FS_Interval
    <3>3. \A j \in S : got[j] \in Nat  BY <2>12, <3>1
    <3>4. got[i] <= SumFunctionOnSet(got, S)  BY <3>2, <3>3, SumAtLeast
    <3>5. SumFunctionOnSet(got, S) = total  BY <2>10, <2>13, <3>1
    <3>6. got[i] \in Nat /\ got[i] = out[i].bytes  BY <2>9, <3>1, <3>2, <3>3
    <3> QED  BY <3>4, <3>5, <3>6
  <2> QED  BY <2>13, <2>14
<1>6. n = 0 => DOMAIN shares = {}  BY <1>1
<1> HIDE DEF sum, share, before, bytes
<1> QED  BY <1>2, <1>3, <1>4, <1>5, <1>6

\* The records of the resource that is open are in no usage yet.
Uncounted == IF phase = "open" THEN CountOf(inputs, Len(resources)) ELSE 0

\* What was counted and what was not are all the records there are, and each
\* usage has the count and the service of its resource.
UsageCounted ==
    /\ phase \in {"between", "open", "done"}
    /\ Countable(usage)
    /\ \A i \in DOMAIN usage :
        /\ usage[i].of \in DOMAIN resources
        /\ phase = "open" => usage[i].of # Len(resources)
        /\ usage[i].records = CountOf(inputs, usage[i].of)
        /\ usage[i].service = ResolveResource(resources[usage[i].of]).service
    /\ Total(usage, "records") + Uncounted = Len(inputs)
    /\ phase = "done" => size \in Nat /\ stats = UsageRows(usage, size)

\* Nothing is counted before the first resource.
LEMMA InitCounted == Init => UsageCounted
<1> SUFFICES ASSUME Init PROVE UsageCounted  OBVIOUS
<1>1. usage = <<>> /\ inputs = <<>> /\ phase = "between"  BY DEF Init
<1>2. Listed(<<>>) /\ DOMAIN <<>> = {} /\ Len(<<>>) = 0  BY DEF Listed
<1>3. Total(<<>>, "records") = 0
  <2>1. PICK f : f = [i \in DOMAIN <<>> |-> <<>>[i]["records"]]  OBVIOUS
  <2>2. DOMAIN f = {}  BY <1>2, <2>1
  <2>3. SumFunctionOnSet(f, {}) = 0  BY FS_EmptySet, SumStep
  <2> QED  BY <2>1, <2>2, <2>3 DEF Total, SumFunction
<1> QED  BY <1>1, <1>2, <1>3 DEF UsageCounted, Countable, Uncounted

\* A resource that starts has no records.
LEMMA StartCounted ==
    ASSUME Indexed, UsageCounted, NEW attrs \in Resources, StartResource(attrs)
    PROVE  UsageCounted'
<1>1. /\ phase = "between" /\ phase' = "open"
      /\ resources' = Append(resources, AttrsToMap(attrs))
      /\ UNCHANGED <<inputs, usage, size, stats>>
  BY DEF StartResource
<1>2. /\ Len(resources) \in Nat /\ DOMAIN resources = 1 .. Len(resources)
      /\ DOMAIN resources' = 1 .. Len(resources) + 1 /\ Len(resources') = Len(resources) + 1
      /\ \A j \in DOMAIN resources : resources'[j] = resources[j]
  BY <1>1, Appended DEF Indexed
<1>3. CountOf(inputs, Len(resources')) = 0
  <2>1. \A j \in DOMAIN inputs : inputs[j].of \in DOMAIN resources
    BY Appended DEF Indexed
  <2>2. {j \in DOMAIN inputs : inputs[j].of = Len(resources')} = {}  BY <1>2, <2>1
  <2> QED  BY <2>2, FS_EmptySet DEF CountOf
<1>4. Uncounted = 0 /\ Uncounted' = 0  BY <1>1, <1>3 DEF Uncounted
<1>5. ASSUME NEW i \in DOMAIN usage
      PROVE  /\ usage[i].of \in DOMAIN resources'
             /\ usage[i].of # Len(resources')
             /\ usage[i].service = ResolveResource(resources'[usage[i].of]).service
  <2>1. usage[i].of \in DOMAIN resources
        /\ usage[i].service = ResolveResource(resources[usage[i].of]).service
    BY DEF UsageCounted
  <2>2. usage[i].of \in DOMAIN resources' /\ usage[i].of # Len(resources')
    BY <1>2, <2>1
  <2> QED  BY <1>2, <2>1, <2>2
<1>6. Total(usage, "records") + Uncounted' = Len(inputs)  BY <1>4 DEF UsageCounted
<1> QED  BY <1>1, <1>5, <1>6 DEF UsageCounted, Uncounted

\* A record is one more of its resource, which has no usage yet.
LEMMA RecordCounted ==
    ASSUME Indexed, UsageCounted, NEW record, NEW row, NEW base, AddRow(record, row, base)
    PROVE  UsageCounted'
<1>1. PICK input : input = [of |-> Len(resources), record |-> record]  OBVIOUS
<1>2. input.of = Len(resources)  BY <1>1
<1>3. /\ phase = "open" /\ inputs' = Append(inputs, input)
      /\ UNCHANGED <<phase, resources, usage, size, stats>>
  BY <1>1 DEF AddRow, Current
<1>4. ASSUME NEW of
      PROVE  /\ CountOf(inputs', of) = CountOf(inputs, of) + (IF input.of = of THEN 1 ELSE 0)
             /\ CountOf(inputs, of) \in Nat
  BY <1>3, CountAppended DEF Indexed
<1>5. Len(inputs') = Len(inputs) + 1 /\ Len(inputs) \in Nat  BY <1>3, Appended DEF Indexed
<1>6. Total(usage, "records") \in Nat
  <2>1. Listed(usage) /\ \A i \in DOMAIN usage : usage[i]["records"] \in Nat
    BY DEF UsageCounted, Countable
  <2> QED  BY <2>1, TotalIs
<1>7. Total(usage, "records") + Uncounted' = Len(inputs')
  <2>1. Uncounted = CountOf(inputs, Len(resources)) /\ Uncounted' = CountOf(inputs', Len(resources))
    BY <1>3 DEF Uncounted
  <2>2. Uncounted' = Uncounted + 1 /\ Uncounted \in Nat  BY <1>2, <1>4, <2>1
  <2>3. Total(usage, "records") + Uncounted = Len(inputs)  BY DEF UsageCounted
  <2> QED  BY <1>5, <1>6, <2>2, <2>3
<1>8. ASSUME NEW i \in DOMAIN usage PROVE usage[i].records = CountOf(inputs', usage[i].of)
  <2>1. usage[i].of # input.of /\ usage[i].records = CountOf(inputs, usage[i].of)
    BY <1>2, <1>3 DEF UsageCounted
  <2> QED  BY <1>4, <2>1
<1> QED  BY <1>3, <1>7, <1>8 DEF UsageCounted

\* A resource that ends is counted whole, or had nothing to count.
LEMMA EndCounted ==
    ASSUME Indexed, UsageCounted, EndResource
    PROVE  UsageCounted'
<1>1. PICK of, n : of = Len(resources) /\ n = CountOf(inputs, of)  OBVIOUS
<1>2. PICK dims, x : /\ dims = ResolveResource(resources[of])
                     /\ x = [of |-> of, service |-> dims.service,
                             environment |-> dims.environment, records |-> n]
  OBVIOUS
<1>3. /\ phase = "open" /\ phase' = "between"
      /\ usage' = IF n = 0 THEN usage ELSE Append(usage, x)
      /\ UNCHANGED <<resources, inputs, size, stats>>
  BY <1>1, <1>2 DEF EndResource, Current, CountOf
<1>4. /\ DOMAIN x = {"of", "service", "environment", "records"}
      /\ x.of = of /\ x.service = dims.service /\ x.records = n
  BY <1>2
<1>5. n \in Nat  BY <1>1, CountAppended DEF Indexed
<1>6. Listed(usage) /\ \A i \in DOMAIN usage : usage[i]["records"] \in Nat
  BY DEF UsageCounted, Countable
<1>7. Total(usage, "records") + n = Len(inputs) /\ Total(usage, "records") \in Nat
  BY <1>1, <1>3, <1>6, TotalIs DEF UsageCounted, Uncounted
<1>8. Uncounted' = 0  BY <1>3 DEF Uncounted
<1>9. CASE n = 0
  <2>1. Total(usage, "records") + Uncounted' = Len(inputs)  BY <1>7, <1>8, <1>9
  <2> QED  BY <1>3, <1>9, <2>1 DEF UsageCounted
<1>10. CASE n # 0
  <2>1. usage' = Append(usage, x)  BY <1>3, <1>10
  <2>2. /\ Listed(usage') /\ Len(usage) \in Nat /\ DOMAIN usage = 1 .. Len(usage)
        /\ DOMAIN usage' = 1 .. Len(usage) + 1
        /\ \A i \in DOMAIN usage : usage'[i] = usage[i]
        /\ usage'[Len(usage) + 1] = x
    BY <1>6, <2>1, Appended
  <2>3. Total(usage', "records") = Total(usage, "records") + n
    <3>1. x["records"] = n /\ x["records"] \in Nat  BY <1>4, <1>5
    <3> QED  BY <1>6, <2>1, <3>1, TotalAppended
  <2>4. of \in DOMAIN resources
    <3>1. Len(bases) = Len(resources) /\ Len(bases) > 0  BY <1>3 DEF Indexed
    <3>2. Len(resources) \in Nat /\ DOMAIN resources = 1 .. Len(resources)
      BY Appended DEF Indexed
    <3> QED  BY <1>1, <3>1, <3>2
  <2>5. ASSUME NEW i \in DOMAIN usage'
        PROVE  /\ {"of", "service", "records"} \subseteq DOMAIN usage'[i]
               /\ usage'[i].records \in Nat \ {0}
               /\ usage'[i].of \in DOMAIN resources
               /\ usage'[i].records = CountOf(inputs, usage'[i].of)
               /\ usage'[i].service = ResolveResource(resources[usage'[i].of]).service
    <3>1. CASE i = Len(usage) + 1
      <4>1. usage'[i] = x  BY <2>2, <3>1
      <4> QED  BY <1>1, <1>2, <1>4, <1>5, <1>10, <2>4, <4>1
    <3>2. CASE i # Len(usage) + 1
      <4>1. i \in DOMAIN usage  BY <2>2, <3>2
      <4>2. usage'[i] = usage[i]  BY <2>2, <4>1
      <4> QED  BY <4>1, <4>2 DEF UsageCounted, Countable
    <3> QED  BY <3>1, <3>2
  <2>6. Total(usage', "records") + Uncounted' = Len(inputs)  BY <1>7, <1>8, <2>3
  <2> QED  BY <1>3, <2>2, <2>5, <2>6 DEF UsageCounted, Countable
<1> QED  BY <1>9, <1>10

\* What is counted holds in every state.
LEMMA UsageInductive == Spec => []UsageCounted
<1>1. RowInv /\ UsageCounted /\ [Next]_vars => UsageCounted'
  <2> SUFFICES ASSUME RowInv, UsageCounted, [Next]_vars PROVE UsageCounted'  OBVIOUS
  <2>1. Indexed  BY DEF RowInv
  <2>2. CASE \E attrs \in Resources : StartResource(attrs)  BY <2>1, <2>2, StartCounted
  <2>3. CASE (\E s \in Spans : MapSpan(s)) \/ (\E lr \in Logs : MapLog(lr))
             \/ (\E dp \in Points : MapPoint(dp))
    <3>1. PICK record, row, base : AddRow(record, row, base)  BY <2>3 DEF MapSpan, MapLog, MapPoint
    <3> QED  BY <2>1, <3>1, RecordCounted
  <2>4. CASE EndResource  BY <2>1, <2>4, EndCounted
  <2>5. CASE \E total \in Sizes : Finish(total)
    <3>1. PICK total \in Sizes : Finish(total)  BY <2>5
    <3>2. /\ phase = "between" /\ phase' = "done" /\ size' = total
          /\ stats' = UsageRows(usage, total)
          /\ UNCHANGED <<resources, inputs, usage>>
      BY <3>1 DEF Finish
    <3>3. total \in Nat  BY RequestAssumption
    <3>4. Uncounted = 0 /\ Uncounted' = 0  BY <3>2 DEF Uncounted
    <3> QED  BY <3>2, <3>3, <3>4 DEF UsageCounted
  <2>6. CASE UNCHANGED vars
    <3>1. UNCHANGED <<phase, resources, inputs, usage, size, stats>>  BY <2>6 DEF vars
    <3> QED  BY <3>1 DEF UsageCounted, Uncounted
  <2> QED  BY <2>2, <2>3, <2>4, <2>5, <2>6 DEF Next
<1> QED  BY <1>1, InitCounted, Inductive, PTL DEF Spec

\* A row has the dimensions of its resource, unless a log patched it.
LEMMA RowService ==
    ASSUME NEW kind \in {"spans", "logs", "metrics"}, NEW time, NEW record, NEW row,
           NEW res, res = [k \in DOMAIN res |-> res[k]]
    PROVE  row = RowOf(kind, time, BaseOf(kind, res), res, record) =>
             \/ row.dims.service = ResolveResource(res).service
             \/ kind = "logs" /\ ~row.shared
<1>0. SUFFICES ASSUME row = RowOf(kind, time, BaseOf(kind, res), res, record)
               PROVE  \/ row.dims.service = ResolveResource(res).service
                      \/ kind = "logs" /\ ~row.shared
  OBVIOUS
<1>1. PICK base, dims : base = BaseOf(kind, res) /\ dims = ResolveResource(res)  OBVIOUS
<1>2. CASE kind = "spans"
  <2>1. PICK merge : row = BuildSpanRow(merge, dims, record)
    BY <1>0, <1>1, <1>2 DEF RowOf, SpanRowOf
  <2>2. row.dims = dims  BY <2>1, Zenon DEF BuildSpanRow
  <2> QED  BY <1>1, <2>2
<1>3. CASE kind = "logs"
  <2>1. PICK patch : /\ patch = PatchResource(res, TypedAttrs(record.attrs).str)
                     /\ row = BuildLogRow(patch, record, time)
    BY <1>0, <1>3 DEF RowOf, LogRowOf, BaseOf
  <2>2. row.dims = ResolveResource(patch.own) /\ row.shared = patch.shared
    <3>1. row = BuildLogRow(patch, record, time)  BY <2>1
    <3> QED  BY <3>1, Zenon DEF BuildLogRow
  <2>3. CASE patch.shared
    <3>1. PICK added : /\ patch.own = Over(res, added)
                       /\ patch.shared = (DOMAIN added = {})
      BY <2>1, Zenon DEF PatchResource
    <3>2. Over(res, added) = [k \in DOMAIN res |-> res[k]]  BY <2>3, <3>1 DEF Over
    <3> QED  BY <2>2, <3>1, <3>2
  <2>4. CASE ~patch.shared  BY <1>3, <2>2, <2>4
  <2> QED  BY <2>3, <2>4
<1>4. CASE kind = "metrics"
  <2>1. row = ScalarRow(base, dims, record).row  BY <1>0, <1>1, <1>4 DEF RowOf
  <2>2. PICK own : own = Over(ScalarRow(base, dims, record).series, [of |-> 0])  OBVIOUS
  <2>3. row.dims = dims  BY <2>1, <2>2, ScalarFields
  <2> QED  BY <1>1, <2>3
<1> QED  BY <1>2, <1>3, <1>4

\* The empty list has no place.
LEMMA NothingListed == DOMAIN <<>> = {}
OBVIOUS

\* A request is of one of three signals.
SignalKnown == signal \in {"spans", "logs", "metrics"}

\* A request's usage counts every row and every byte once and for the service
\* of its resource, and a score's type says what its value is (apportionBytes,
\* EmitUsage, assignValue).
THEOREM UsageAddsUp == Spec => []DerivedExact
<1>1. ScoresAsExtracted => ScoresTyped
  <2> SUFFICES ASSUME ScoresAsExtracted, NEW at \in DOMAIN scores, scores[at].declared = ""
               PROVE  TypeSays(scores[at].value)
    BY Zenon DEF ScoresTyped, TypeSays
  <2>1. scores # <<>>  BY NothingListed
  <2>2. scores = ScoresOf(rows)  BY <2>1 DEF ScoresAsExtracted
  <2>3. PICK row, event : scores[at] = ScoreOf(row, event)  BY <2>2 DEF ScoresOf
  <2>4. ScoreOf(row, event).declared = ""  BY <2>3
  <2>5. TypeSays(ScoreOf(row, event).value)  BY <2>4, ScoreTyped
  <2> QED  BY <2>3, <2>5
<1>2. RowInv /\ SignalKnown /\ UsageCounted => UsageExact
  <2> SUFFICES ASSUME RowInv, SignalKnown, UsageCounted, phase = "done"
               PROVE  /\ Total(stats, "records") = Len(rows)
                      /\ rows # <<>> => Total(stats, "bytes") = size
                      /\ \A i \in DOMAIN stats :
                          /\ stats[i].bytes \in 0 .. size
                          /\ stats[i].records
                                = Cardinality({j \in DOMAIN rows : inputs[j].of = stats[i].of})
                          /\ \A j \in DOMAIN rows : inputs[j].of = stats[i].of =>
                              \/ rows[j].dims.service = stats[i].service
                              \/ signal = "logs" /\ ~rows[j].shared
    BY DEF UsageExact
  <2>1. Countable(usage) /\ size \in Nat /\ stats = UsageRows(usage, size)  BY DEF UsageCounted
  <2>2. /\ DOMAIN stats = DOMAIN usage
        /\ Total(stats, "records") = Total(usage, "records")
        /\ DOMAIN usage # {} => Total(stats, "bytes") = size
        /\ \A i \in DOMAIN stats :
            /\ stats[i].of = usage[i].of /\ stats[i].service = usage[i].service
            /\ stats[i].records = usage[i].records
            /\ stats[i].bytes \in 0 .. size
    BY <2>1, SharesAddUp
  <2>3. /\ Listed(inputs) /\ Listed(rows) /\ Len(rows) = Len(inputs)
        /\ DOMAIN rows = DOMAIN inputs
    BY Appended DEF RowInv, Indexed
  <2>4. Total(usage, "records") = Len(inputs)
    <3>1. Total(usage, "records") \in Nat
      <4>1. Listed(usage) /\ \A i \in DOMAIN usage : usage[i]["records"] \in Nat
        BY <2>1 DEF Countable
      <4> QED  BY <4>1, TotalIs
    <3>2. Uncounted = 0  BY DEF Uncounted
    <3> QED  BY <3>1, <3>2 DEF UsageCounted
  <2>5. Total(stats, "records") = Len(rows)  BY <2>2, <2>3, <2>4
  <2>6. ASSUME rows # <<>> PROVE Total(stats, "bytes") = size
    <3>1. Len(rows) # 0
      <4>1. rows \in Seq(Range(rows))  BY <2>3 DEF Listed
      <4> QED  BY <2>6, <4>1
    <3>2. DOMAIN usage # {}
      <4> SUFFICES ASSUME DOMAIN usage = {} PROVE FALSE  OBVIOUS
      <4>1. PICK f : f = [i \in DOMAIN usage |-> usage[i]["records"]]  OBVIOUS
      <4>2. DOMAIN f = {}  BY <4>1
      <4>3. SumFunctionOnSet(f, {}) = 0  BY FS_EmptySet, SumStep
      <4>4. Total(usage, "records") = 0  BY <4>1, <4>2, <4>3 DEF Total, SumFunction
      <4> QED  BY <2>3, <2>4, <3>1, <4>4
    <3> QED  BY <2>2, <3>2
  <2>7. ASSUME NEW i \in DOMAIN stats
        PROVE  /\ stats[i].bytes \in 0 .. size
               /\ stats[i].records = Cardinality({j \in DOMAIN rows : inputs[j].of = stats[i].of})
               /\ \A j \in DOMAIN rows : inputs[j].of = stats[i].of =>
                    \/ rows[j].dims.service = stats[i].service
                    \/ signal = "logs" /\ ~rows[j].shared
    <3>1. /\ i \in DOMAIN usage
          /\ stats[i].of = usage[i].of /\ stats[i].service = usage[i].service
          /\ stats[i].records = usage[i].records
          /\ stats[i].bytes \in 0 .. size
      BY <2>2
    <3>2. /\ usage[i].records = CountOf(inputs, usage[i].of)
          /\ usage[i].service = ResolveResource(resources[usage[i].of]).service
      BY <3>1 DEF UsageCounted
    <3>3. stats[i].records = Cardinality({j \in DOMAIN rows : inputs[j].of = stats[i].of})
      BY <2>3, <3>1, <3>2 DEF CountOf
    <3>4. ASSUME NEW j \in DOMAIN rows, inputs[j].of = stats[i].of
          PROVE  \/ rows[j].dims.service = stats[i].service
                 \/ signal = "logs" /\ ~rows[j].shared
      <4>1. PICK res, row : res = resources[inputs[j].of] /\ row = rows[j]  OBVIOUS
      <4>2. inputs[j].of \in DOMAIN bases  BY <2>3 DEF RowInv, Indexed
      <4>3. /\ res \in {AttrsToMap(attrs) : attrs \in Resources}
            /\ row = RowOf(signal, now, BaseOf(signal, res), res, inputs[j].record)
        BY <4>1, <4>2 DEF RowInv, RowsAsBuilt
      <4>4. res = [k \in DOMAIN res |-> res[k]]  BY <4>3 DEF AttrsToMap
      <4>5. row.dims.service = ResolveResource(res).service \/ (signal = "logs" /\ ~row.shared)
        BY <4>3, <4>4, RowService DEF SignalKnown
      <4> QED  BY <3>1, <3>2, <3>4, <4>1, <4>5
    <3> QED  BY <3>1, <3>3, <3>4
  <2> QED  BY <2>5, <2>6, <2>7
<1>3. Spec => []SignalKnown
  <2>1. Init => SignalKnown  BY DEF Init, SignalKnown
  <2>2. SignalKnown /\ [Next]_vars => SignalKnown'
    <3>1. [Next]_vars => UNCHANGED signal
      BY DEF Next, vars, StartResource, MapSpan, MapLog, MapPoint, AddRow, EndResource, Finish
    <3> QED  BY <3>1 DEF SignalKnown
  <2> QED  BY <2>1, <2>2, PTL DEF Spec
<1> QED  BY <1>1, <1>2, <1>3, Inductive, ScoresInductive, UsageInductive, PTL DEF DerivedExact

=============================================================================
