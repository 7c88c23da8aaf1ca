----------------------------- MODULE DataProofs -----------------------------
(***************************************************************************)
(* The data directory of the API: the table of translations, for any       *)
(* number of threads and keys and any size, and the credential of its      *)
(* cleanup, for any number of processes.                                   *)
(***************************************************************************)
EXTENDS TranslationCache, CleanupToken, FiniteSetTheorems, TLAPS

----------------------------------------------------------------------------
(* TranslationCache                                                        *)

----------------------------------------------------------------------------
(* Sums of functions from keys to numbers                                  *)

LEMMA MarksFact ==
    ASSUME NEW f \in [Keys -> Nat], NEW x
    PROVE  x \in Marks(f) <=> \E k \in Keys, i \in Nat : x = <<k, i>> /\ i \in 1 .. f[k]
BY DEF Marks

LEMMA MarksFinite ==
    ASSUME NEW f \in [Keys -> Nat]
    PROVE  IsFiniteSet(Marks(f)) /\ SumOf(f) \in Nat
<1> DEFINE Row1(k) == {k} \X (1 .. f[k])
           All == {Row1(k) : k \in Keys}
           rowOf == [k \in Keys |-> Row1(k)]
<1>1. \A k \in Keys : IsFiniteSet(Row1(k))
  <2> SUFFICES ASSUME NEW k \in Keys PROVE IsFiniteSet(Row1(k)) OBVIOUS
  <2>1. IsFiniteSet(1 .. f[k]) BY FS_Interval
  <2>2. IsFiniteSet({k}) BY FS_Singleton
  <2> QED BY <2>1, <2>2, FS_Product
<1>2. rowOf \in Surjection(Keys, All) BY DEF Surjection
<1>3. IsFiniteSet(All) BY <1>2, KeysAssumption, FS_Surjection
<1>4. \A T \in All : IsFiniteSet(T) BY <1>1
<1> HIDE DEF All
<1>5. IsFiniteSet(UNION All) BY <1>3, <1>4, FS_UNION
<1>6. IsFiniteSet(Marks(f)) BY <1>5 DEF Marks, All
<1> QED BY <1>6, FS_CardinalityType DEF SumOf

\* Sums add up, key by key.
LEMMA SumAdds ==
    ASSUME NEW f \in [Keys -> Nat], NEW g \in [Keys -> Nat], NEW h \in [Keys -> Nat],
           \A k \in Keys : h[k] = f[k] + g[k]
    PROVE  SumOf(h) = SumOf(f) + SumOf(g)
<1> DEFINE Above == Marks(h) \ Marks(f)
           lift == [x \in Marks(g) |-> <<x[1], f[x[1]] + x[2]>>]
<1>1. \A x \in Marks(f) : x \in Marks(h)
  <2> SUFFICES ASSUME NEW x \in Marks(f) PROVE x \in Marks(h) OBVIOUS
  <2>1. PICK k \in Keys, i \in Nat : x = <<k, i>> /\ i \in 1 .. f[k] BY MarksFact
  <2>2. i \in 1 .. h[k] BY <2>1
  <2> QED BY <2>1, <2>2, MarksFact
<1>2. \A x : x \in Above <=> \E k \in Keys, i \in Nat : x = <<k, i>> /\ i \in f[k] + 1 .. h[k]
  <2>1. ASSUME NEW x \in Above
        PROVE  \E k \in Keys, i \in Nat : x = <<k, i>> /\ i \in f[k] + 1 .. h[k]
    <3>1. PICK k \in Keys, i \in Nat : x = <<k, i>> /\ i \in 1 .. h[k] BY MarksFact
    <3>2. ~(i \in 1 .. f[k]) BY <3>1, MarksFact
    <3> QED BY <3>1, <3>2
  <2>2. ASSUME NEW k \in Keys, NEW i \in Nat, i \in f[k] + 1 .. h[k]
        PROVE  <<k, i>> \in Above
    <3>1. i \in 1 .. h[k] /\ ~(i \in 1 .. f[k]) BY <2>2
    <3>2. <<k, i>> \in Marks(h) BY <3>1, MarksFact
    <3>3. <<k, i>> \notin Marks(f) BY <3>1, MarksFact
    <3> QED BY <3>2, <3>3
  <2> QED BY <2>1, <2>2
<1>3. lift \in Bijection(Marks(g), Above)
  <2>0. ASSUME NEW x \in Marks(g)
        PROVE  \E k \in Keys, i \in Nat : /\ x = <<k, i>> /\ i \in 1 .. g[k]
                                          /\ lift[x] = <<k, f[k] + i>>
    BY MarksFact
  <2> HIDE DEF lift, Above
  <2>1. lift \in [Marks(g) -> Above]
    <3>1. ASSUME NEW x \in Marks(g) PROVE lift[x] \in Above
      <4>1. PICK k \in Keys, i \in Nat : /\ x = <<k, i>> /\ i \in 1 .. g[k]
                                         /\ lift[x] = <<k, f[k] + i>>
        BY <2>0
      <4>2. f[k] + i \in Nat /\ f[k] + i \in f[k] + 1 .. h[k] BY <4>1
      <4> QED BY <4>1, <4>2, <1>2
    <3> QED BY <3>1 DEF lift
  <2>2. ASSUME NEW x \in Marks(g), NEW y \in Marks(g), lift[x] = lift[y] PROVE x = y
    <3>1. PICK k \in Keys, i \in Nat : /\ x = <<k, i>> /\ i \in 1 .. g[k]
                                       /\ lift[x] = <<k, f[k] + i>>
      BY <2>0
    <3>2. PICK l \in Keys, j \in Nat : /\ y = <<l, j>> /\ j \in 1 .. g[l]
                                       /\ lift[y] = <<l, f[l] + j>>
      BY <2>0
    <3> QED BY <2>2, <3>1, <3>2
  <2>3. ASSUME NEW y \in Above PROVE \E x \in Marks(g) : lift[x] = y
    <3>1. PICK k \in Keys, i \in Nat : y = <<k, i>> /\ i \in f[k] + 1 .. h[k] BY <1>2
    <3>2. i - f[k] \in Nat /\ i - f[k] \in 1 .. g[k] BY <3>1
    <3>3. <<k, i - f[k]>> \in Marks(g) BY <3>2, MarksFact
    <3>4. lift[<<k, i - f[k]>>] = <<k, f[k] + (i - f[k])>> BY <3>3 DEF lift
    <3> QED BY <3>1, <3>3, <3>4
  <2> QED BY <2>1, <2>2, <2>3 DEF Bijection, Injection, Surjection, IsInjective
<1>4. IsFiniteSet(Above) /\ Cardinality(Above) = SumOf(g)
  BY <1>3, MarksFinite, FS_Bijection DEF ExistsBijection, SumOf
<1>5. Marks(f) \cap Above = {} /\ Marks(h) = Marks(f) \cup Above BY <1>1
<1> HIDE DEF Above
<1>6. Cardinality(Marks(f) \cup Above)
        = Cardinality(Marks(f)) + Cardinality(Above) - Cardinality(Marks(f) \cap Above)
  BY <1>4, MarksFinite, FS_Union
<1>7. SumOf(f) \in Nat /\ SumOf(g) \in Nat BY MarksFinite
<1>8. Cardinality(Marks(f) \cap Above) = 0 BY <1>5, FS_EmptySet
<1>9. Cardinality(Marks(h)) = Cardinality(Marks(f)) + Cardinality(Above) - 0
  BY <1>5, <1>6, <1>8
<1> QED BY <1>4, <1>7, <1>9 DEF SumOf

LEMMA SumZero == Zero \in [Keys -> Nat] /\ SumOf(Zero) = 0
<1>1. Zero \in [Keys -> Nat] BY DEF Zero
<1>2. \A x : x \notin Marks(Zero)
  <2> SUFFICES ASSUME NEW x \in Marks(Zero) PROVE FALSE OBVIOUS
  <2>1. PICK k \in Keys, i \in Nat : x = <<k, i>> /\ i \in 1 .. Zero[k] BY <1>1, MarksFact
  <2> QED BY <2>1 DEF Zero
<1>3. Marks(Zero) = {} BY <1>2
<1> QED BY <1>1, <1>3, FS_EmptySet DEF SumOf

\* One more for one key is one more in all.
LEMMA SumOneMore ==
    ASSUME NEW f \in [Keys -> Nat], NEW k \in Keys
    PROVE  SumOf([f EXCEPT ![k] = @ + 1]) = SumOf(f) + 1
<1> DEFINE h == [f EXCEPT ![k] = @ + 1]
<1>1. h \in [Keys -> Nat] OBVIOUS
<1>2. <<k, f[k] + 1>> \notin Marks(f)
  <2>1. f[k] + 1 \in Nat /\ ~(f[k] + 1 \in 1 .. f[k]) OBVIOUS
  <2> QED BY <2>1, MarksFact
<1>3. Marks(h) = Marks(f) \cup {<<k, f[k] + 1>>}
  <2>1. ASSUME NEW x \in Marks(h) PROVE x \in Marks(f) \cup {<<k, f[k] + 1>>}
    <3>1. PICK l \in Keys, i \in Nat : x = <<l, i>> /\ i \in 1 .. h[l] BY <1>1, MarksFact
    <3>2. i \in 1 .. f[l] \/ (l = k /\ i = f[k] + 1) BY <3>1
    <3> QED BY <3>1, <3>2, MarksFact
  <2>2. ASSUME NEW x \in Marks(f) PROVE x \in Marks(h)
    <3>1. PICK l \in Keys, i \in Nat : x = <<l, i>> /\ i \in 1 .. f[l] BY MarksFact
    <3>2. i \in 1 .. h[l] BY <3>1
    <3> QED BY <1>1, <3>1, <3>2, MarksFact
  <2>3. <<k, f[k] + 1>> \in Marks(h)
    <3>1. f[k] + 1 \in Nat /\ f[k] + 1 \in 1 .. h[k] OBVIOUS
    <3> QED BY <1>1, <3>1, MarksFact
  <2> QED BY <2>1, <2>2, <2>3
<1> HIDE DEF h
<1>4. Cardinality(Marks(f) \cup {<<k, f[k] + 1>>}) = Cardinality(Marks(f)) + 1
  BY <1>2, MarksFinite, FS_AddElement
<1>5. SumOf(h) = SumOf(f) + 1 BY <1>3, <1>4 DEF SumOf
<1> QED BY <1>5 DEF h

----------------------------------------------------------------------------
(* Retention                                                               *)

\* Every non-empty set of numbers has a least element.
LEMMA LeastNumber ==
    ASSUME NEW T \in SUBSET Nat, T # {}
    PROVE  \E n \in T : \A m \in T : n <= m
<1>1. PICK n \in T : \A m \in T : ~(<<m, n>> \in OpToRel(<, Nat))
  BY NatLessThanWellFounded, WFMin
<1>2. ASSUME NEW m \in T PROVE n <= m
  <2>1. n \in Nat /\ m \in Nat OBVIOUS
  <2>2. ~(m < n) BY <1>1, <2>1 DEF OpToRel
  <2> QED BY <2>1, <2>2
<1> QED BY <1>2

Table == [Keys -> Row \cup {NoRow}]

\* The rows that ORDER BY puts before the row of k.
Ahead(table, k) == {j \in Stored(table) : Before(table, j, k)}

LEMMA RowFacts ==
    ASSUME NEW row \in Row \cup {NoRow}
    PROVE  /\ row.created \in Int /\ row.accessed \in Int /\ row.hits \in Nat
           /\ row = NoRow <=> row.created = Never
           /\ row.created <= MaxClock
           /\ row # NoRow => row \in Row /\ row.created \in Days /\ row.accessed \in Days
           /\ row = NoRow => row.hits = 0
<1>0. MaxClock \in Nat BY LimitsAssumption
<1>1. CASE row = NoRow
  <2>1. /\ row.created = -1 /\ row.accessed = -1 /\ row.hits = 0
    BY <1>1 DEF NoRow, Never
  <2> QED BY <1>0, <1>1, <2>1 DEF Never
<1>2. CASE row \in Row
  <2>1. /\ row.created \in 0 .. MaxClock /\ row.accessed \in 0 .. MaxClock
        /\ row.hits \in Nat
    BY <1>2 DEF Row, Days
  <2>2. row.created # Never BY <1>0, <2>1 DEF Never
  <2>3. NoRow.created = Never BY DEF NoRow
  <2> QED BY <1>0, <1>2, <2>1, <2>2, <2>3 DEF Days
<1> QED BY <1>1, <1>2

LEMMA StoredFinite ==
    ASSUME NEW table
    PROVE  /\ IsFiniteSet(Stored(table)) /\ Cardinality(Stored(table)) \in Nat
           /\ \A k : /\ IsFiniteSet(Ahead(table, k)) /\ Cardinality(Ahead(table, k)) \in Nat
<1>1. Stored(table) \in SUBSET Keys BY DEF Stored
<1>2. \A k : Ahead(table, k) \in SUBSET Keys BY DEF Stored, Ahead
<1> QED BY <1>1, <1>2, KeysAssumption, FS_Subset, FS_CardinalityType

LEMMA BeforeIsOrder ==
    ASSUME NEW table \in Table
    PROVE  /\ \A k \in Keys : ~Before(table, k, k)
           /\ \A j, k, l \in Keys : Before(table, j, k) /\ Before(table, k, l) => Before(table, j, l)
           /\ \A j, k \in Keys : j # k => Before(table, j, k) \/ Before(table, k, j)
<1>1. \A k \in Keys : table[k].accessed \in Int /\ table[k].created \in Int /\ k \in Int
  BY RowFacts, KeysAssumption DEF Table
<1>2. \A k \in Keys : ~Before(table, k, k) BY <1>1 DEF Before
<1>3. ASSUME NEW j \in Keys, NEW k \in Keys, j # k
      PROVE  Before(table, j, k) \/ Before(table, k, j)
  BY <1>1, <1>3 DEF Before
<1>4. ASSUME NEW j \in Keys, NEW k \in Keys, NEW l \in Keys,
             Before(table, j, k), Before(table, k, l)
      PROVE  Before(table, j, l)
  BY <1>1, <1>4 DEF Before
<1> QED BY <1>2, <1>3, <1>4

LEMMA AheadGrows ==
    ASSUME NEW table \in Table, NEW j \in Stored(table), NEW k \in Keys, Before(table, j, k)
    PROVE  Cardinality(Ahead(table, j)) < Cardinality(Ahead(table, k))
<1>1. Ahead(table, j) \cup {j} \in SUBSET Ahead(table, k)
  BY BeforeIsOrder DEF Ahead, Stored
<1>2. j \notin Ahead(table, j) BY BeforeIsOrder DEF Ahead, Stored
<1>3. Cardinality(Ahead(table, j) \cup {j}) = Cardinality(Ahead(table, j)) + 1
  BY <1>2, StoredFinite, FS_AddElement
<1>4. Cardinality(Ahead(table, j) \cup {j}) <= Cardinality(Ahead(table, k))
  BY <1>1, StoredFinite, FS_Subset
<1> QED BY <1>3, <1>4, StoredFinite

\* _enforce_cap leaves at most MaxEntries rows, and that many when it deletes one.
LEMMA CapFacts ==
    ASSUME NEW table \in Table
    PROVE  /\ EnforceCap(table) \in Table
           /\ \A k \in Keys : EnforceCap(table)[k] \in {NoRow, table[k]}
           /\ Cardinality(Stored(EnforceCap(table))) <= MaxEntries
           /\ \A k \in Keys : table[k] # NoRow /\ EnforceCap(table)[k] = NoRow
                => Cardinality(Stored(EnforceCap(table))) = MaxEntries
<1> DEFINE left == EnforceCap(table)
           kept == {k \in Stored(table) : Cardinality(Ahead(table, k)) < MaxEntries}
           rank == [k \in kept |-> Cardinality(Ahead(table, k))]
           ranks == {Cardinality(Ahead(table, k)) : k \in Stored(table) \ kept}
<1>0. MaxEntries \in Nat \ {0} BY LimitsAssumption
<1>1. \A k \in Keys : left[k] = IF Cardinality(Ahead(table, k)) >= MaxEntries THEN NoRow ELSE table[k]
  BY DEF EnforceCap, Ahead
<1>2. left \in Table BY DEF EnforceCap, Table
<1>3. \A k \in Keys : left[k] \in {NoRow, table[k]} BY <1>1
<1> HIDE DEF left
<1>a. \A k \in Keys : Cardinality(Ahead(table, k)) \in Nat BY StoredFinite
<1>4. Stored(left) = kept
  <2>1. ASSUME NEW k \in Keys PROVE k \in Stored(left) <=> k \in kept
    <3>1. (Cardinality(Ahead(table, k)) >= MaxEntries) <=> ~(Cardinality(Ahead(table, k)) < MaxEntries)
      BY <1>0, <1>a
    <3> QED BY <1>1, <3>1 DEF Stored
  <2> QED BY <2>1 DEF Stored
<1>5. rank \in Injection(kept, 0 .. MaxEntries - 1)
  <2>1. rank \in [kept -> 0 .. MaxEntries - 1] BY <1>0, StoredFinite
  <2>2. ASSUME NEW j \in kept, NEW k \in kept, rank[j] = rank[k] PROVE j = k
    <3>1. j \in Keys /\ k \in Keys /\ j \in Stored(table) /\ k \in Stored(table) BY DEF Stored
    <3>2. ~Before(table, j, k) /\ ~Before(table, k, j)
      BY <2>2, <3>1, AheadGrows, StoredFinite
    <3> QED BY <3>1, <3>2, BeforeIsOrder
  <2> QED BY <2>1, <2>2 DEF Injection, IsInjective
<1>6. Cardinality(kept) <= MaxEntries
  <2>1. IsFiniteSet(0 .. MaxEntries - 1) /\ Cardinality(0 .. MaxEntries - 1) = MaxEntries
    BY <1>0, FS_Interval
  <2> HIDE DEF kept, rank
  <2> QED BY <1>5, <2>1, FS_Injection
<1>7. ASSUME NEW k \in Keys, table[k] # NoRow, left[k] = NoRow
      PROVE  Cardinality(kept) = MaxEntries
  <2>1. k \in Stored(table) \ kept
    <3>1. k \in Stored(table) BY <1>7 DEF Stored
    <3>2. Cardinality(Ahead(table, k)) >= MaxEntries BY <1>1, <1>7
    <3> QED BY <1>0, <1>a, <3>1, <3>2
  <2>2. ranks \in SUBSET Nat /\ ranks # {} BY <2>1, StoredFinite
  <2>3. PICK n \in ranks : \A m \in ranks : n <= m BY <2>2, LeastNumber
  <2>4. PICK l \in Stored(table) \ kept : n = Cardinality(Ahead(table, l)) BY <2>3
  <2>5. Ahead(table, l) \in SUBSET kept
    <3> SUFFICES ASSUME NEW j \in Ahead(table, l), j \notin kept PROVE FALSE BY DEF Ahead
    <3>1. j \in Stored(table) /\ Before(table, j, l) BY DEF Ahead
    <3>2. Cardinality(Ahead(table, j)) < n BY <2>4, <3>1, AheadGrows DEF Stored
    <3>3. n <= Cardinality(Ahead(table, j)) BY <2>3, <3>1
    <3> QED BY <3>2, <3>3, <2>4, StoredFinite
  <2>6. n >= MaxEntries BY <1>0, <2>4, StoredFinite
  <2>7. IsFiniteSet(kept) BY StoredFinite, FS_Subset
  <2>8. Cardinality(kept) >= n BY <2>4, <2>5, <2>7, FS_Subset
  <2> QED BY <1>0, <1>6, <2>4, <2>6, <2>7, <2>8, StoredFinite, FS_CardinalityType
<1> QED BY <1>2, <1>3, <1>4, <1>6, <1>7 DEF left

\* What retention deletes is expired, or makes room in a table that it leaves full.
LEMMA PruneFacts ==
    ASSUME NEW table \in Table, NEW now \in Int, NEW days \in Nat
    PROVE  /\ Prune(table, now, days) \in Table
           /\ \A k \in Keys : Prune(table, now, days)[k] \in {NoRow, table[k]}
           /\ Cardinality(Stored(Prune(table, now, days))) <= MaxEntries
           /\ \A k \in Keys : table[k] # NoRow /\ Prune(table, now, days)[k] = NoRow
                => \/ ExpiredRow(table[k], now, days)
                   \/ Cardinality(Stored(Prune(table, now, days))) = MaxEntries
<1> DEFINE young == DeleteExpired(table, now, days)
<1>1. young \in Table /\ \A k \in Keys : young[k] = IF ExpiredRow(table[k], now, days) THEN NoRow ELSE table[k]
  BY DEF DeleteExpired, Table
<1> HIDE DEF young
<1>2. Prune(table, now, days) = EnforceCap(young) BY DEF Prune, young
<1> QED BY <1>1, <1>2, CapFacts

----------------------------------------------------------------------------
(* Hits of a table                                                         *)

Hits(table) == [k \in Keys |-> table[k].hits]

LEMMA HitsType ==
    ASSUME NEW table \in Table
    PROVE  Hits(table) \in [Keys -> Nat] /\ SumOf(Hits(table)) \in Nat
<1>1. Hits(table) \in [Keys -> Nat] BY RowFacts DEF Hits, Table
<1> QED BY <1>1, MarksFinite

\* A transaction that only deletes rows moves their hits to the dropped ones.
LEMMA GoneFacts ==
    ASSUME NEW old \in Table, NEW new \in Table,
           \A k \in Keys : new[k] \in {NoRow, old[k]}
    PROVE  /\ HitsGone(old, new) \in Nat
           /\ SumOf(Hits(old)) = SumOf(Hits(new)) + HitsGone(old, new)
<1> DEFINE gone == [k \in Keys |-> IF new[k] = NoRow THEN old[k].hits ELSE 0]
<1>1. gone \in [Keys -> Nat] BY RowFacts DEF Table
<1>2. HitsGone(old, new) = SumOf(gone) BY DEF HitsGone
<1>3. \A k \in Keys : Hits(old)[k] = Hits(new)[k] + gone[k]
  <2> SUFFICES ASSUME NEW k \in Keys PROVE Hits(old)[k] = Hits(new)[k] + gone[k] OBVIOUS
  <2>1. Hits(old)[k] = old[k].hits /\ Hits(new)[k] = new[k].hits BY DEF Hits
  <2>2. old[k] \in Row \cup {NoRow} /\ new[k] \in Row \cup {NoRow} BY DEF Table
  <2>3. old[k].hits \in Nat /\ (new[k] = NoRow => new[k].hits = 0) BY <2>2, RowFacts
  <2> QED BY <2>1, <2>3
<1> HIDE DEF gone
<1> QED BY <1>1, <1>2, <1>3, HitsType, MarksFinite, SumAdds

----------------------------------------------------------------------------
(* Types                                                                   *)

LEMMA Limits ==
    /\ TTL \in Nat \ {0} /\ CleanupDays \in Nat \ {0} /\ MaxEntries \in Nat \ {0}
    /\ FlushThreshold \in Nat \ {0}
    /\ MaxClock \in Nat /\ MaxOps \in Nat /\ MaxFailures \in Nat
BY LimitsAssumption

\* The part of TypeOK that Begin and Fail keep.
LocalsOK == /\ pc \in [Threads -> Places]
            /\ stamp \in [Threads -> Days]
            /\ want \in [Threads -> SUBSET Keys]

LEMMA OnwardType ==
    ASSUME TypeOK, NEW t \in Threads
    PROVE  Onward(t) \in {"idle", "hits", "cleanup"}
BY DEF TypeOK, Onward, HitsOrIdle

LEMMA WantFinite ==
    ASSUME TypeOK, NEW t \in Threads
    PROVE  /\ IsFiniteSet(want[t]) /\ Cardinality(want[t]) \in Nat
           /\ Counted(t) \in Nat
<1>1. want[t] \in SUBSET Keys BY DEF TypeOK
<1>2. IsFiniteSet(want[t]) /\ Cardinality(want[t]) \in Nat
  BY <1>1, KeysAssumption, FS_Subset, FS_CardinalityType
<1> QED BY <1>2 DEF TypeOK, Counted

LEMMA UpsertFacts ==
    ASSUME TypeOK, NEW t \in Threads
    PROVE  /\ Upsert(t) \in Table
           /\ Hits(Upsert(t)) = Hits(rows)
           /\ \A k \in Keys : Upsert(t)[k] = NoRow => rows[k] = NoRow
           /\ Stored(Upsert(t)) \subseteq Stored(rows) \cup want[t]
           /\ Stored(rows) \subseteq Stored(Upsert(t))
<1> DEFINE new(k) == [created |-> stamp[t], accessed |-> stamp[t], hits |-> rows[k].hits, think |-> FALSE]
<1>1. ASSUME NEW k \in Keys PROVE new(k) \in Row /\ new(k) # NoRow /\ new(k).hits = rows[k].hits
  <2>1. stamp[t] \in Days /\ rows[k].hits \in Nat BY RowFacts DEF TypeOK
  <2>2. new(k) \in Row BY <2>1 DEF Row
  <2>3. new(k).created = stamp[t] /\ NoRow.created = -1 BY DEF NoRow, Never
  <2> QED BY <2>1, <2>2, <2>3, Limits DEF Days
<1>2. \A k \in Keys : Upsert(t)[k] = IF k \in want[t] THEN new(k) ELSE rows[k] BY DEF Upsert
<1>3. DOMAIN Upsert(t) = Keys /\ Upsert(t) = [k \in Keys |-> Upsert(t)[k]] BY DEF Upsert
<1> HIDE DEF new
<1>4. Upsert(t) \in Table BY <1>1, <1>2, <1>3 DEF Table, TypeOK
<1>5. Hits(Upsert(t)) = Hits(rows) BY <1>1, <1>2 DEF Hits
<1>6. \A k \in Keys : Upsert(t)[k] = NoRow => rows[k] = NoRow BY <1>1, <1>2
<1>7. \A k \in Keys : Upsert(t)[k] # NoRow => rows[k] # NoRow \/ k \in want[t] BY <1>2
<1> QED BY <1>4, <1>5, <1>6, <1>7 DEF Stored

LEMMA InitType == Init => TypeOK
<1> SUFFICES ASSUME Init PROVE TypeOK OBVIOUS
<1> USE Limits DEF Init
<1> DEFINE old == [k \in Keys |->
      IF k \in Reasoning THEN [created |-> 0, accessed |-> 0, hits |-> 0, think |-> TRUE] ELSE NoRow]
<1>1. old \in Table BY DEF Table, Row, Days
<1> HIDE DEF old
<1>2. rows \in [Keys -> Row \cup {NoRow}] BY <1>1, CapFacts DEF old, Table
<1>3. carry \in [Keys -> Nat] /\ pending \in [Keys -> Nat] BY SumZero
<1>4. pc \in [Threads -> Places] BY DEF Places
<1>5. seen \in [Threads -> [Keys -> Days \cup {Never}]] OBVIOUS
<1>6. then \in [Threads -> {"idle", "hits", "cleanup"}] OBVIOUS
<1>7. stamp \in [Threads -> Days] /\ clock \in Days BY DEF Days
<1>8. skipped \in BOOLEAN OBVIOUS
<1> QED BY <1>2, <1>3, <1>4, <1>5, <1>6, <1>7, <1>8 DEF TypeOK

LEMMA BeginType ==
    ASSUME TypeOK, NEW t \in Threads, NEW place \in Places, NEW keys \in SUBSET Keys,
           Begin(t, place, keys)
    PROVE  LocalsOK' /\ ops' \in 0 .. MaxOps
BY Limits DEF TypeOK, Begin, LocalsOK

LEMMA FailType ==
    ASSUME TypeOK, NEW t \in Threads, Fail(t)
    PROVE  /\ LocalsOK' /\ failures' \in 0 .. MaxFailures
           /\ clock' \in Days /\ seen' = seen /\ then' = then /\ ops' = ops
BY Limits DEF TypeOK, Fail, LocalsOK, Places

LEMMA NextType == TypeOK /\ [Next]_vars => TypeOK'
<1> SUFFICES ASSUME TypeOK, [Next]_vars PROVE TypeOK' OBVIOUS
<1> USE Limits
<1>1. ASSUME NEW t \in Threads, NEW keys \in Batches, Lookup(t, keys) PROVE TypeOK'
  <2>1. keys \in SUBSET Keys BY KeysAssumption
  <2>2. LocalsOK' /\ ops' \in 0 .. MaxOps BY <1>1, <2>1, BeginType DEF Lookup, Places
  <2> QED BY <1>1, <2>2 DEF TypeOK, Lookup, LocalsOK, store, ghosts
<1>2. ASSUME NEW t \in Threads, NEW keys \in Batches, Put(t, keys) PROVE TypeOK'
  <2>1. keys \in SUBSET Keys BY KeysAssumption
  <2>2. LocalsOK' /\ ops' \in 0 .. MaxOps BY <1>2, <2>1, BeginType DEF Put, Places
  <2> QED BY <1>2, <2>2 DEF TypeOK, Put, LocalsOK, store, ghosts
<1>3. ASSUME NEW t \in Threads, NEW next \in {"idle", "cleanup"}, FlushCall(t, next) PROVE TypeOK'
  <2>1. LocalsOK' /\ ops' \in 0 .. MaxOps BY <1>3, BeginType DEF FlushCall, Places
  <2>2. then' \in [Threads -> {"idle", "hits", "cleanup"}] BY <1>3 DEF FlushCall, TypeOK
  <2> QED BY <1>3, <2>1, <2>2 DEF TypeOK, FlushCall, LocalsOK, store, ghosts
<1>4. ASSUME NEW t \in Threads, Select(t) PROVE TypeOK'
  <2>1. pc' \in [Threads -> Places] BY <1>4 DEF Select, TypeOK, Places, HitsOrIdle
  <2>2. want' \in [Threads -> SUBSET Keys] BY <1>4 DEF Select, TypeOK
  <2>3. seen' \in [Threads -> [Keys -> Days \cup {Never}]]
    <3> DEFINE old == {k \in want[t] : ExpiredRow(rows[k], stamp[t], TTL)}
               read == [k \in Keys |-> IF k \in old THEN rows[k].created ELSE Never]
    <3>1. read \in [Keys -> Days \cup {Never}] BY RowFacts DEF TypeOK, ExpiredRow
    <3>2. seen' = [seen EXCEPT ![t] = read] BY <1>4 DEF Select
    <3> HIDE DEF read
    <3> QED BY <3>1, <3>2 DEF TypeOK
  <2> QED BY <1>4, <2>1, <2>2, <2>3 DEF TypeOK, Select, store, ghosts
<1>5. ASSUME NEW t \in Threads, Evict(t) PROVE TypeOK'
  <2>1. rows' \in Table /\ \A k \in Keys : rows'[k] \in {NoRow, rows[k]}
    BY <1>5 DEF Evict, TypeOK, Table
  <2>2. dropped' \in Nat
    <3>1. dropped' = dropped + HitsGone(rows, rows') BY <1>5 DEF Evict
    <3>2. rows \in Table BY DEF TypeOK, Table
    <3>3. HitsGone(rows, rows') \in Nat BY <2>1, <3>2, GoneFacts
    <3> QED BY <3>1, <3>3 DEF TypeOK
  <2>3. pc' \in [Threads -> Places] BY <1>5 DEF Evict, TypeOK, Places, HitsOrIdle
  <2> QED BY <1>5, <2>1, <2>2, <2>3 DEF TypeOK, Evict, Table
<1>6. ASSUME NEW t \in Threads, EvictFail(t) PROVE TypeOK'
  BY <1>6, FailType DEF TypeOK, EvictFail, LocalsOK, store, ghosts
<1>7. ASSUME NEW t \in Threads, NEW k \in Keys, RecordHit(t, k) PROVE TypeOK'
  <2>1. pc' \in [Threads -> Places] BY <1>7 DEF RecordHit, TypeOK, Places, HitsOrIdle
  <2>2. pending' \in [Keys -> Nat] /\ total' \in Nat /\ recorded' \in Nat BY <1>7 DEF RecordHit, TypeOK
  <2>3. want' \in [Threads -> SUBSET Keys] /\ then' \in [Threads -> {"idle", "hits", "cleanup"}]
    BY <1>7 DEF RecordHit, TypeOK
  <2> QED BY <1>7, <2>1, <2>2, <2>3 DEF TypeOK, RecordHit
<1>8. ASSUME NEW t \in Threads, Ignore(t) PROVE TypeOK'
  <2>1. pc' \in [Threads -> Places] BY <1>8 DEF Ignore, TypeOK, Places
  <2> QED BY <1>8, <2>1 DEF TypeOK, Ignore, store, ghosts
<1>9. ASSUME NEW t \in Threads, FlushTake(t) PROVE TypeOK'
  <2>1. pc' \in [Threads -> Places] BY <1>9, OnwardType DEF FlushTake, TypeOK, Places
  <2>2. stamp' \in [Threads -> Days] BY <1>9 DEF FlushTake, TypeOK
  <2>3. /\ flusher' \in Threads \cup {"nobody"} /\ carry' \in [Keys -> Nat] /\ carried' \in Nat
        /\ pending' \in [Keys -> Nat] /\ total' \in Nat /\ rows' = rows /\ writes' = writes
    BY <1>9, SumZero DEF FlushTake, TypeOK, store
  <2> QED BY <1>9, <2>1, <2>2, <2>3 DEF TypeOK, FlushTake, ghosts
<1>10. ASSUME NEW t \in Threads, FlushCommit(t) PROVE TypeOK'
  <2> DEFINE new(k) == [rows[k] EXCEPT !.hits = @ + carry[k], !.accessed = stamp[t]]
             lost == [k \in Keys |-> IF rows[k] = NoRow THEN carry[k] ELSE 0]
  <2>1. ASSUME NEW k \in Keys, rows[k] # NoRow PROVE new(k) \in Row
    <3>1. rows[k] \in Row BY <2>1 DEF TypeOK
    <3>2. stamp[t] \in Days /\ carry[k] \in Nat BY DEF TypeOK
    <3>3. rows[k].hits + carry[k] \in Nat BY <3>1, <3>2 DEF Row
    <3> QED BY <3>1, <3>2, <3>3 DEF Row
  <2>2. rows' = [k \in Keys |-> IF carry[k] > 0 /\ rows[k] # NoRow THEN new(k) ELSE rows[k]]
    BY <1>10 DEF FlushCommit
  <2> HIDE DEF new
  <2>3. rows' \in [Keys -> Row \cup {NoRow}] BY <2>1, <2>2 DEF TypeOK
  <2>4. lost \in [Keys -> Nat] BY DEF TypeOK
  <2>5. dropped' = dropped + SumOf(lost) BY <1>10 DEF FlushCommit
  <2> HIDE DEF lost
  <2>6. dropped' \in Nat BY <2>4, <2>5, MarksFinite DEF TypeOK
  <2>7. pc' \in [Threads -> Places] BY <1>10, OnwardType DEF FlushCommit, TypeOK, Places
  <2>8. stamp' \in [Threads -> Days] BY <1>10 DEF FlushCommit, TypeOK
  <2>9. carry' \in [Keys -> Nat] /\ carried' \in Nat /\ flusher' \in Threads \cup {"nobody"}
    BY <1>10, SumZero DEF FlushCommit
  <2> QED BY <1>10, <2>3, <2>6, <2>7, <2>8, <2>9 DEF TypeOK, FlushCommit
<1>11. ASSUME NEW t \in Threads, FlushFail(t) PROVE TypeOK'
  <2>1. /\ pending' \in [Keys -> Nat] /\ total' \in Nat /\ carry' \in [Keys -> Nat] /\ carried' \in Nat
        /\ flusher' \in Threads \cup {"nobody"}
    BY <1>11, SumZero DEF FlushFail, TypeOK
  <2> QED BY <1>11, <2>1, FailType DEF TypeOK, FlushFail, LocalsOK, ghosts
<1>12. ASSUME NEW t \in Threads, PutCommit(t) PROVE TypeOK'
  <2>1. /\ rows' \in Table /\ dropped' \in Nat
    <3> DEFINE left == IF Due(t) THEN Prune(Upsert(t), clock, TTL) ELSE Upsert(t)
    <3>1. left \in Table /\ \A k \in Keys : left[k] \in {NoRow, Upsert(t)[k]}
      <4>1. clock \in Int BY DEF TypeOK, Days
      <4> QED BY <4>1, UpsertFacts, PruneFacts
    <3>2. rows' = left /\ dropped' = dropped + HitsGone(Upsert(t), left) BY <1>12 DEF PutCommit
    <3> HIDE DEF left
    <3> QED BY <3>1, <3>2, UpsertFacts, GoneFacts DEF TypeOK
  <2>2. writes' \in Nat BY <1>12, WantFinite DEF PutCommit
  <2>3. skipped' \in BOOLEAN BY <1>12 DEF PutCommit
  <2>4. pc' \in [Threads -> Places] BY <1>12 DEF PutCommit, TypeOK, Places
  <2> QED BY <1>12, <2>1, <2>2, <2>3, <2>4 DEF TypeOK, PutCommit, Table
<1>13. ASSUME NEW t \in Threads, PutFail(t) PROVE TypeOK'
  <2>1. writes' \in Nat BY <1>13, WantFinite DEF PutFail, TypeOK
  <2>2. skipped' \in BOOLEAN BY <1>13, Zenon DEF PutFail, TypeOK
  <2> QED BY <1>13, <2>1, <2>2, FailType DEF TypeOK, PutFail, LocalsOK
<1>14. ASSUME NEW t \in Threads, CleanupCommit(t) PROVE TypeOK'
  <2>1. stamp[t] \in Int /\ rows \in Table BY DEF TypeOK, Days, Table
  <2>2. rows' \in Table /\ dropped' \in Nat
    BY <1>14, <2>1, PruneFacts, GoneFacts DEF CleanupCommit, TypeOK
  <2>3. pc' \in [Threads -> Places] BY <1>14 DEF CleanupCommit, TypeOK, Places
  <2> QED BY <1>14, <2>2, <2>3 DEF TypeOK, CleanupCommit, Table
<1>15. ASSUME NEW t \in Threads, CleanupFail(t) PROVE TypeOK'
  BY <1>15, FailType DEF TypeOK, CleanupFail, LocalsOK, store, ghosts
<1>16. ASSUME Restart PROVE TypeOK'
  <2>1. clock \in Int /\ rows \in Table BY DEF TypeOK, Days, Table
  <2>2. rows' \in Table /\ HitsGone(rows, rows') \in Nat
    BY <1>16, <2>1, PruneFacts, GoneFacts DEF Restart
  <2>3. SumOf(pending) \in Nat /\ SumOf(carry) \in Nat BY MarksFinite DEF TypeOK
  <2>4. dropped' \in Nat BY <1>16, <2>2, <2>3 DEF Restart, TypeOK
  <2>5. pc' \in [Threads -> Places] BY <1>16 DEF Restart, Places
  <2>6. pending' \in [Keys -> Nat] /\ carry' \in [Keys -> Nat] BY <1>16, SumZero DEF Restart
  <2>7. skipped' \in BOOLEAN BY <1>16 DEF Restart
  <2> QED BY <1>16, <2>2, <2>4, <2>5, <2>6, <2>7 DEF TypeOK, Restart, Table
<1>17. ASSUME Tick PROVE TypeOK'
  BY <1>17 DEF TypeOK, Tick, Days, store, locals, ghosts
<1>18. ASSUME UNCHANGED vars PROVE TypeOK'
  BY <1>18 DEF TypeOK, vars, store, locals, ghosts
<1> QED BY <1>1, <1>2, <1>3, <1>4, <1>5, <1>6, <1>7, <1>8, <1>9, <1>10, <1>11, <1>12, <1>13,
           <1>14, <1>15, <1>16, <1>17, <1>18 DEF Next, Call, Step, Terminated

\* The types of the state hold throughout: theorem of the whole specification.
THEOREM CacheTypes == Spec => []TypeOK
BY InitType, NextType, PTL DEF Spec

----------------------------------------------------------------------------
(* Hits are conserved                                                      *)

\* Only the holder of _flush_lock has hits in its hands.
Handed == /\ flusher = "nobody" => carry = Zero /\ carried = 0
          /\ \A t \in Threads : pc[t] = "flushing" => flusher = t

HitsInv == TypeOK /\ Handed /\ HitsConserved

LEMMA InitHits == Init => HitsInv
<1> SUFFICES ASSUME Init PROVE HitsInv OBVIOUS
<1>1. TypeOK BY InitType
<1>2. Handed BY DEF Init, Handed
<1>3. rows \in Table BY <1>1 DEF TypeOK, Table
<1>4. \A k \in Keys : rows[k].hits = 0
  <2> DEFINE old == [k \in Keys |->
        IF k \in Reasoning THEN [created |-> 0, accessed |-> 0, hits |-> 0, think |-> TRUE] ELSE NoRow]
  <2>1. old \in Table BY Limits DEF Table, Row, Days
  <2>2. \A k \in Keys : old[k].hits = 0 BY DEF NoRow
  <2>3. rows = EnforceCap(old) BY DEF Init
  <2> HIDE DEF old
  <2> QED BY <2>1, <2>2, <2>3, CapFacts DEF NoRow
<1>5. Hits(rows) = Zero BY <1>4 DEF Hits, Zero
<1>6. SumOf([k \in Keys |-> rows[k].hits]) = 0 BY <1>5, SumZero DEF Hits
<1>7. HitsConserved BY <1>6, SumZero DEF HitsConserved, Init
<1> QED BY <1>1, <1>2, <1>7 DEF HitsInv

\* Steps that neither move hits nor the lock, and make nobody a flusher.
LEMMA HitsUntouched ==
    ASSUME HitsInv, UNCHANGED <<pending, total, flusher, carry, carried, recorded, dropped>>,
           Hits(rows') = Hits(rows),
           \A t \in Threads : pc'[t] = "flushing" => pc[t] = "flushing"
    PROVE  Handed' /\ HitsConserved'
BY DEF HitsInv, Handed, HitsConserved, Hits

\* Steps that delete rows.
LEMMA HitsDeleted ==
    ASSUME HitsInv, UNCHANGED <<pending, total, flusher, carry, carried, recorded>>,
           NEW old \in Table, Hits(old) = Hits(rows),
           rows' \in Table, \A k \in Keys : rows'[k] \in {NoRow, old[k]},
           dropped' = dropped + HitsGone(old, rows'),
           \A t \in Threads : pc'[t] = "flushing" => pc[t] = "flushing"
    PROVE  Handed' /\ HitsConserved'
<1>1. Handed' BY DEF HitsInv, Handed
<1>2. /\ HitsGone(old, rows') \in Nat
      /\ SumOf(Hits(rows)) = SumOf(Hits(rows')) + HitsGone(old, rows')
  BY GoneFacts
<1>3. SumOf(Hits(rows')) \in Nat BY HitsType
<1>4. recorded = SumOf(Hits(rows)) + total + carried + dropped BY DEF HitsInv, HitsConserved, Hits
<1>5. total \in Nat /\ carried \in Nat /\ dropped \in Nat /\ recorded \in Nat BY DEF HitsInv, TypeOK
<1>6. recorded' = SumOf(Hits(rows')) + total' + carried' + dropped'
  BY <1>2, <1>3, <1>4, <1>5
<1> QED BY <1>1, <1>6 DEF HitsInv, HitsConserved, Hits

LEMMA NextHits == HitsInv /\ [Next]_vars => HitsInv'
<1> SUFFICES ASSUME HitsInv, [Next]_vars PROVE HitsInv' OBVIOUS
<1>0. TypeOK /\ TypeOK' BY NextType DEF HitsInv
<1>a. rows \in Table /\ rows' \in Table BY <1>0 DEF TypeOK, Table
<1> SUFFICES Handed' /\ HitsConserved' BY <1>0 DEF HitsInv
<1>1. ASSUME NEW t \in Threads,
             \/ \E keys \in Batches : Lookup(t, keys) \/ Put(t, keys)
             \/ \E next \in {"idle", "cleanup"} : FlushCall(t, next)
             \/ Select(t) \/ EvictFail(t) \/ Ignore(t) \/ PutFail(t) \/ CleanupFail(t)
      PROVE  Handed' /\ HitsConserved'
  <2>1. UNCHANGED <<rows, pending, total, flusher, carry, carried, recorded, dropped>>
    BY <1>1 DEF Lookup, Put, FlushCall, Select, EvictFail, Ignore, PutFail, CleanupFail, store, ghosts
  <2>2. \E place \in Places \ {"flushing"} : pc' = [pc EXCEPT ![t] = place]
    BY <1>1 DEF Lookup, Put, FlushCall, Select, EvictFail, Ignore, PutFail, CleanupFail, Begin, Fail,
                HitsOrIdle, Places
  <2>3. \A u \in Threads : pc'[u] = "flushing" => pc[u] = "flushing" BY <1>0, <2>2 DEF TypeOK
  <2> QED BY <2>1, <2>3, HitsUntouched
<1>2. ASSUME NEW t \in Threads, Evict(t) PROVE Handed' /\ HitsConserved'
  <2>1. \A k \in Keys : rows'[k] \in {NoRow, rows[k]} BY <1>2 DEF Evict
  <2>2. dropped' = dropped + HitsGone(rows, rows') BY <1>2 DEF Evict
  <2>3. \A u \in Threads : pc'[u] = "flushing" => pc[u] = "flushing"
    BY <1>0, <1>2 DEF Evict, HitsOrIdle, TypeOK
  <2>4. UNCHANGED <<pending, total, flusher, carry, carried, recorded>> BY <1>2 DEF Evict
  <2> QED BY <1>a, <2>1, <2>2, <2>3, <2>4, HitsDeleted
<1>3. ASSUME NEW t \in Threads, CleanupCommit(t) PROVE Handed' /\ HitsConserved'
  <2>1. rows' = Prune(rows, stamp[t], CleanupDays) BY <1>3 DEF CleanupCommit
  <2>2. stamp[t] \in Int BY <1>0 DEF TypeOK, Days
  <2>3. \A k \in Keys : rows'[k] \in {NoRow, rows[k]} BY <1>a, <2>1, <2>2, PruneFacts, Limits
  <2>4. dropped' = dropped + HitsGone(rows, rows') BY <1>3 DEF CleanupCommit
  <2>5. \A u \in Threads : pc'[u] = "flushing" => pc[u] = "flushing"
    BY <1>0, <1>3 DEF CleanupCommit, TypeOK
  <2>6. UNCHANGED <<pending, total, flusher, carry, carried, recorded>> BY <1>3 DEF CleanupCommit
  <2> QED BY <1>a, <2>3, <2>4, <2>5, <2>6, HitsDeleted
<1>4. ASSUME NEW t \in Threads, PutCommit(t) PROVE Handed' /\ HitsConserved'
  <2>1. rows' = IF Due(t) THEN Prune(Upsert(t), clock, TTL) ELSE Upsert(t) BY <1>4 DEF PutCommit
  <2>2. Upsert(t) \in Table /\ Hits(Upsert(t)) = Hits(rows) BY <1>0, UpsertFacts
  <2>3. clock \in Int BY <1>0 DEF TypeOK, Days
  <2>4. \A k \in Keys : rows'[k] \in {NoRow, Upsert(t)[k]} BY <2>1, <2>2, <2>3, PruneFacts, Limits
  <2>5. dropped' = dropped + HitsGone(Upsert(t), rows') BY <1>4 DEF PutCommit
  <2>6. \A u \in Threads : pc'[u] = "flushing" => pc[u] = "flushing"
    BY <1>0, <1>4 DEF PutCommit, TypeOK
  <2>7. UNCHANGED <<pending, total, flusher, carry, carried, recorded>> BY <1>4 DEF PutCommit
  <2> QED BY <1>a, <2>2, <2>4, <2>5, <2>6, <2>7, HitsDeleted
<1>5. ASSUME NEW t \in Threads, NEW k \in Keys, RecordHit(t, k) PROVE Handed' /\ HitsConserved'
  <2>1. /\ pending' = [pending EXCEPT ![k] = @ + 1] /\ total' = total + 1 /\ recorded' = recorded + 1
        /\ UNCHANGED <<rows, flusher, carry, carried, dropped>>
    BY <1>5 DEF RecordHit
  <2>2. SumOf(pending') = SumOf(pending) + 1 BY <1>0, <2>1, SumOneMore DEF TypeOK
  <2>3. \A u \in Threads : pc'[u] = "flushing" => pc[u] = "flushing"
    BY <1>0, <1>5 DEF RecordHit, HitsOrIdle, TypeOK
  <2>4. Handed' BY <2>1, <2>3 DEF HitsInv, Handed
  <2>5. SumOf(Hits(rows)) \in Nat BY <1>a, HitsType
  <2>6. recorded = SumOf(Hits(rows)) + total + carried + dropped BY DEF HitsInv, HitsConserved, Hits
  <2>7. recorded' = SumOf(Hits(rows')) + total' + carried' + dropped'
    BY <1>0, <2>1, <2>5, <2>6 DEF TypeOK
  <2> QED BY <2>1, <2>2, <2>4, <2>7 DEF HitsInv, HitsConserved, Hits
<1>6. ASSUME NEW t \in Threads, FlushTake(t) PROVE Handed' /\ HitsConserved'
  <2>1. CASE pending = Zero
    <3>1. UNCHANGED <<rows, pending, total, flusher, carry, carried, recorded, dropped>>
      BY <1>6, <2>1 DEF FlushTake, store, ghosts
    <3>2. pc' = [pc EXCEPT ![t] = Onward(t)] BY <1>6, <2>1 DEF FlushTake
    <3>3. \A u \in Threads : pc'[u] = "flushing" => pc[u] = "flushing"
      BY <1>0, <3>2, OnwardType DEF TypeOK
    <3> QED BY <3>1, <3>3, HitsUntouched
  <2>2. CASE pending # Zero
    <3>1. /\ pc' = [pc EXCEPT ![t] = "flushing"] /\ flusher = "nobody" /\ flusher' = t
          /\ carry' = pending /\ carried' = total /\ pending' = Zero /\ total' = 0
          /\ UNCHANGED <<rows, recorded, dropped>>
      BY <1>6, <2>2 DEF FlushTake, ghosts
    <3>2. carry = Zero /\ carried = 0 BY <3>1 DEF HitsInv, Handed
    <3>3. Handed' BY <1>0, <3>1, ThreadsAssumption DEF HitsInv, Handed, TypeOK
    <3>4. SumOf(Hits(rows)) \in Nat BY <1>a, HitsType
    <3>5. recorded = SumOf(Hits(rows)) + total + carried + dropped BY DEF HitsInv, HitsConserved, Hits
    <3>6. recorded' = SumOf(Hits(rows')) + total' + carried' + dropped'
      BY <1>0, <3>1, <3>2, <3>4, <3>5 DEF TypeOK
    <3> QED BY <3>1, <3>3, <3>6, SumZero DEF HitsInv, HitsConserved, Hits
  <2> QED BY <2>1, <2>2
<1>7. ASSUME NEW t \in Threads, FlushCommit(t) PROVE Handed' /\ HitsConserved'
  <2> DEFINE kept == [k \in Keys |-> IF rows[k] = NoRow THEN 0 ELSE carry[k]]
             lost == [k \in Keys |-> IF rows[k] = NoRow THEN carry[k] ELSE 0]
  <2>1. kept \in [Keys -> Nat] /\ lost \in [Keys -> Nat] /\ carry \in [Keys -> Nat]
        /\ \A k \in Keys : carry[k] = kept[k] + lost[k]
    BY <1>0 DEF TypeOK
  <2>2. \A k \in Keys : Hits(rows')[k] = Hits(rows)[k] + kept[k]
    <3> SUFFICES ASSUME NEW k \in Keys PROVE Hits(rows')[k] = Hits(rows)[k] + kept[k] OBVIOUS
    <3>1. Hits(rows')[k] = rows'[k].hits /\ Hits(rows)[k] = rows[k].hits BY DEF Hits
    <3>2. rows'[k] = IF carry[k] > 0 /\ rows[k] # NoRow
                       THEN [rows[k] EXCEPT !.hits = @ + carry[k], !.accessed = stamp[t]]
                       ELSE rows[k]
      BY <1>7 DEF FlushCommit
    <3>3. rows[k] \in Row \cup {NoRow} /\ carry[k] \in Nat /\ rows[k].hits \in Nat
      BY <1>0, RowFacts DEF TypeOK
    <3>4. CASE carry[k] > 0 /\ rows[k] # NoRow
      <4>1. rows[k] \in Row BY <3>3, <3>4
      <4>2. rows'[k].hits = rows[k].hits + carry[k] BY <3>2, <3>4, <4>1 DEF Row
      <4> QED BY <3>1, <3>4, <4>2
    <3>5. CASE ~(carry[k] > 0 /\ rows[k] # NoRow)
      <4>1. rows'[k].hits = rows[k].hits BY <3>2, <3>5
      <4>2. kept[k] = 0 BY <3>3, <3>5
      <4> QED BY <3>1, <3>3, <4>1, <4>2
    <3> QED BY <3>4, <3>5
  <2>3. /\ dropped' = dropped + SumOf(lost) /\ carry' = Zero /\ carried' = 0 /\ flusher' = "nobody"
        /\ UNCHANGED <<pending, total, recorded>>
    BY <1>7 DEF FlushCommit
  <2> HIDE DEF kept, lost
  <2>4. SumOf(carry) = SumOf(kept) + SumOf(lost) BY <2>1, SumAdds
  <2>5. SumOf(Hits(rows')) = SumOf(Hits(rows)) + SumOf(kept) BY <1>a, <2>1, <2>2, HitsType, SumAdds
  <2>6. SumOf(kept) \in Nat /\ SumOf(lost) \in Nat BY <2>1, MarksFinite
  <2>7. SumOf(Hits(rows)) \in Nat BY <1>a, HitsType
  <2>8. /\ recorded = SumOf(Hits(rows)) + total + carried + dropped /\ carried = SumOf(carry)
    BY DEF HitsInv, HitsConserved, Hits
  <2>9. recorded' = SumOf(Hits(rows')) + total' + carried' + dropped'
    BY <1>0, <2>3, <2>4, <2>5, <2>6, <2>7, <2>8 DEF TypeOK
  <2>10. \A u \in Threads : pc'[u] # "flushing"
    <3>1. pc' = [pc EXCEPT ![t] = Onward(t)] /\ pc[t] = "flushing" BY <1>7 DEF FlushCommit
    <3>2. \A u \in Threads : pc[u] = "flushing" => u = t BY <3>1 DEF HitsInv, Handed
    <3> QED BY <1>0, <3>1, <3>2, OnwardType DEF TypeOK
  <2> QED BY <2>3, <2>9, <2>10, SumZero DEF HitsInv, Handed, HitsConserved, Hits
<1>8. ASSUME NEW t \in Threads, FlushFail(t) PROVE Handed' /\ HitsConserved'
  <2>1. /\ pending' = [k \in Keys |-> pending[k] + carry[k]] /\ total' = total + carried
        /\ carry' = Zero /\ carried' = 0 /\ flusher' = "nobody"
        /\ UNCHANGED <<rows, recorded, dropped>>
    BY <1>8 DEF FlushFail, ghosts
  <2>2. SumOf(pending') = SumOf(pending) + SumOf(carry) BY <1>0, <2>1, SumAdds DEF TypeOK
  <2>3. SumOf(Hits(rows)) \in Nat BY <1>a, HitsType
  <2>4. /\ recorded = SumOf(Hits(rows)) + total + carried + dropped
        /\ carried = SumOf(carry) /\ total = SumOf(pending)
    BY DEF HitsInv, HitsConserved, Hits
  <2>5. recorded' = SumOf(Hits(rows')) + total' + carried' + dropped'
    BY <1>0, <2>1, <2>3, <2>4 DEF TypeOK
  <2>6. \A u \in Threads : pc'[u] # "flushing"
    <3>1. pc' = [pc EXCEPT ![t] = "idle"] /\ pc[t] = "flushing" BY <1>8 DEF FlushFail, Fail
    <3>2. \A u \in Threads : pc[u] = "flushing" => u = t BY <3>1 DEF HitsInv, Handed
    <3> QED BY <1>0, <3>1, <3>2 DEF TypeOK
  <2> QED BY <2>1, <2>2, <2>4, <2>5, <2>6, SumZero DEF Handed, HitsConserved, Hits
<1>9. ASSUME Restart PROVE Handed' /\ HitsConserved'
  <2>1. /\ rows' = Prune(rows, clock, TTL) /\ pending' = Zero /\ total' = 0 /\ carry' = Zero
        /\ carried' = 0 /\ flusher' = "nobody" /\ recorded' = recorded
        /\ dropped' = dropped + SumOf(pending) + SumOf(carry) + HitsGone(rows, rows')
        /\ pc' = [t \in Threads |-> "idle"]
    BY <1>9 DEF Restart
  <2>2. clock \in Int BY <1>0 DEF TypeOK, Days
  <2>3. \A k \in Keys : rows'[k] \in {NoRow, rows[k]} BY <1>a, <2>1, <2>2, PruneFacts, Limits
  <2>4. /\ HitsGone(rows, rows') \in Nat
        /\ SumOf(Hits(rows)) = SumOf(Hits(rows')) + HitsGone(rows, rows')
    BY <1>a, <2>3, GoneFacts
  <2>5. SumOf(Hits(rows')) \in Nat BY <1>a, HitsType
  <2>6. /\ recorded = SumOf(Hits(rows)) + total + carried + dropped
        /\ carried = SumOf(carry) /\ total = SumOf(pending)
    BY DEF HitsInv, HitsConserved, Hits
  <2>7. recorded' = SumOf(Hits(rows')) + total' + carried' + dropped'
    BY <1>0, <2>1, <2>4, <2>5, <2>6 DEF TypeOK
  <2> QED BY <2>1, <2>7, SumZero DEF Handed, HitsConserved, Hits
<1>10. ASSUME Tick \/ UNCHANGED vars PROVE Handed' /\ HitsConserved'
  <2>1. UNCHANGED <<rows, pending, total, flusher, carry, carried, recorded, dropped, pc>>
    BY <1>10 DEF Tick, vars, store, locals, ghosts
  <2> QED BY <2>1, HitsUntouched
<1> QED BY <1>1, <1>2, <1>3, <1>4, <1>5, <1>6, <1>7, <1>8, <1>9, <1>10
        DEF Next, Call, Step, Terminated

\* No flush, failed or not, no retention and no restart loses count of a hit:
\* each recorded hit is in its row, pending, in a flusher's hands or dropped.
THEOREM HitsAreConserved == Spec => []HitsConserved
<1>1. Spec => []HitsInv BY InitHits, NextHits, PTL DEF Spec
<1>2. HitsInv => HitsConserved BY DEF HitsInv
<1> QED BY <1>1, <1>2, PTL

----------------------------------------------------------------------------
(* The row cap                                                             *)

CapInv == TypeOK /\ BoundedExcess

Excess == skipped \/ Cardinality(Stored(rows)) <= MaxEntries + writes

LEMMA StoredSubset ==
    ASSUME NEW S, IsFiniteSet(S), NEW T \in SUBSET S, NEW n \in Nat, Cardinality(S) <= n
    PROVE  Cardinality(T) <= n
BY FS_Subset, FS_CardinalityType

LEMMA NextCap == CapInv /\ [Next]_vars => CapInv'
<1> SUFFICES ASSUME CapInv, [Next]_vars PROVE CapInv' OBVIOUS
<1>0. TypeOK /\ TypeOK' BY NextType DEF CapInv
<1>c. writes' < Watermark
  <2>1. writes < Watermark /\ Watermark \in Nat \ {0} BY Limits DEF CapInv, BoundedExcess, Watermark
  <2>2. \A t \in Threads : Counted(t) < Watermark
    BY <1>0, <2>1, WantFinite DEF Counted, Due, TypeOK
  <2>3. writes' = writes \/ writes' = 0 \/ \E t \in Threads : writes' = Counted(t)
    BY DEF Next, Call, Step, Lookup, Put, FlushCall, Select, Evict, EvictFail, RecordHit, Ignore, FlushTake,
           FlushCommit, FlushFail, PutCommit, PutFail, CleanupCommit, CleanupFail, Restart, Tick,
           Terminated, vars, store
  <2> QED BY <2>1, <2>2, <2>3
<1> SUFFICES Excess' BY <1>0, <1>c DEF CapInv, BoundedExcess, Excess
<1>a. rows \in Table /\ rows' \in Table /\ writes \in Nat /\ writes' \in Nat
  BY <1>0 DEF TypeOK, Table
<1>b. MaxEntries \in Nat BY Limits
<1>1. ASSUME UNCHANGED <<writes, skipped>>, \A k \in Keys : rows[k] = NoRow => rows'[k] = NoRow
      PROVE  Excess'
  <2>1. Stored(rows') \in SUBSET Stored(rows) BY <1>1 DEF Stored
  <2>2. ASSUME ~skipped PROVE Cardinality(Stored(rows')) <= MaxEntries + writes
    BY <1>a, <1>b, <2>1, <2>2, StoredFinite, StoredSubset DEF CapInv, BoundedExcess
  <2> QED BY <1>1, <2>2 DEF Excess
<1>2. ASSUME NEW t \in Threads,
             \/ \E keys \in Batches : Lookup(t, keys) \/ Put(t, keys)
             \/ \E next \in {"idle", "cleanup"} : FlushCall(t, next)
             \/ \E k \in Keys : RecordHit(t, k)
             \/ Select(t) \/ EvictFail(t) \/ Ignore(t) \/ FlushTake(t) \/ FlushFail(t) \/ CleanupFail(t)
      PROVE  UNCHANGED <<rows, writes, skipped>>
  BY <1>2 DEF Lookup, Put, FlushCall, RecordHit, Select, EvictFail, Ignore, FlushTake, FlushFail,
              CleanupFail, store, ghosts
<1>3. ASSUME NEW t \in Threads, Evict(t) PROVE Excess'
  BY <1>1, <1>3 DEF Evict
<1>4. ASSUME NEW t \in Threads, FlushCommit(t) PROVE Excess'
  BY <1>1, <1>4 DEF FlushCommit
<1>5. ASSUME NEW t \in Threads, CleanupCommit(t) PROVE Excess'
  <2>1. stamp[t] \in Int BY <1>0 DEF TypeOK, Days
  <2>2. \A k \in Keys : rows'[k] \in {NoRow, rows[k]}
    BY <1>5, <1>a, <2>1, PruneFacts, Limits DEF CleanupCommit
  <2> QED BY <1>1, <1>5, <2>2 DEF CleanupCommit
<1>6. ASSUME NEW t \in Threads, PutCommit(t) PROVE Excess'
  <2>0. clock \in Int /\ Upsert(t) \in Table BY <1>0, UpsertFacts DEF TypeOK, Days
  <2>1. CASE Due(t)
    <3>1. rows' = Prune(Upsert(t), clock, TTL) BY <1>6, <2>1 DEF PutCommit
    <3>2. Cardinality(Stored(rows')) <= MaxEntries BY <2>0, <3>1, PruneFacts, Limits
    <3> QED BY <1>a, <1>b, <3>2, StoredFinite DEF Excess
  <2>2. CASE ~Due(t)
    <3>1. /\ rows' = Upsert(t) /\ writes' = writes + Cardinality(want[t]) /\ skipped' = skipped
      BY <1>0, <1>6, <2>2, Zenon DEF PutCommit, Counted, TypeOK
    <3>2. IsFiniteSet(want[t]) /\ Cardinality(want[t]) \in Nat BY <1>0, WantFinite
    <3>3. Stored(rows') \in SUBSET (Stored(rows) \cup want[t]) BY <1>0, <3>1, UpsertFacts
    <3>4. /\ IsFiniteSet(Stored(rows) \cup want[t])
          /\ Cardinality(Stored(rows) \cup want[t]) <= Cardinality(Stored(rows)) + Cardinality(want[t])
      <4>1. IsFiniteSet(Stored(rows) \cap want[t]) BY StoredFinite, FS_Intersection
      <4>2. /\ IsFiniteSet(Stored(rows) \cup want[t])
            /\ Cardinality(Stored(rows) \cup want[t])
                 = Cardinality(Stored(rows)) + Cardinality(want[t]) - Cardinality(Stored(rows) \cap want[t])
        BY <3>2, StoredFinite, FS_Union
      <4>3. Cardinality(Stored(rows) \cap want[t]) \in Nat BY <4>1, FS_CardinalityType
      <4> QED BY <3>2, <4>2, <4>3, StoredFinite
    <3>5. ASSUME ~skipped PROVE Cardinality(Stored(rows')) <= MaxEntries + writes'
      <4>1. Cardinality(Stored(rows)) <= MaxEntries + writes BY <3>5 DEF CapInv, BoundedExcess
      <4>2. Cardinality(Stored(rows) \cup want[t]) <= MaxEntries + writes'
        BY <1>a, <1>b, <3>1, <3>2, <3>4, <4>1, StoredFinite, FS_CardinalityType
      <4> QED BY <1>a, <1>b, <3>3, <3>4, <4>2, StoredSubset
    <3> QED BY <3>1, <3>5 DEF Excess
  <2> QED BY <2>1, <2>2
<1>7. ASSUME NEW t \in Threads, PutFail(t) PROVE Excess'
  <2>1. rows' = rows BY <1>7 DEF PutFail
  <2>2. CASE UNCHANGED <<writes, skipped>> BY <1>1, <2>1, <2>2
  <2>3. CASE writes' = Counted(t) /\ skipped' = (skipped \/ Due(t))
    <3>1. IsFiniteSet(want[t]) /\ Cardinality(want[t]) \in Nat BY <1>0, WantFinite
    <3>2. ASSUME ~skipped' PROVE Cardinality(Stored(rows')) <= MaxEntries + writes'
      <4>1. ~skipped /\ ~Due(t) BY <2>3, <3>2
      <4>2. writes' = writes + Cardinality(want[t]) BY <2>3, <4>1 DEF Counted
      <4>3. Cardinality(Stored(rows)) <= MaxEntries + writes BY <4>1 DEF CapInv, BoundedExcess
      <4> QED BY <1>a, <1>b, <2>1, <3>1, <4>2, <4>3, StoredFinite
    <3> QED BY <3>2 DEF Excess
  <2> QED BY <1>7, <2>2, <2>3 DEF PutFail
<1>8. ASSUME Restart PROVE Excess'
  <2>1. clock \in Int BY <1>0 DEF TypeOK, Days
  <2>2. Cardinality(Stored(rows')) <= MaxEntries BY <1>8, <1>a, <2>1, PruneFacts, Limits DEF Restart
  <2> QED BY <1>a, <1>b, <2>2, StoredFinite DEF Excess
<1>9. ASSUME Tick \/ UNCHANGED vars PROVE Excess'
  BY <1>1, <1>9 DEF Tick, vars, store, ghosts
<1> QED BY <1>1, <1>2, <1>3, <1>4, <1>5, <1>6, <1>7, <1>8, <1>9
        DEF Next, Call, Step, Terminated

\* As long as no due retention was rolled back, the table exceeds the cap by at
\* most the writes counted since, which are fewer than the watermark.
THEOREM ExcessIsBounded == Spec => []BoundedExcess
<1>1. Init => CapInv
  <2> SUFFICES ASSUME Init PROVE CapInv OBVIOUS
  <2> DEFINE old == [k \in Keys |->
        IF k \in Reasoning THEN [created |-> 0, accessed |-> 0, hits |-> 0, think |-> TRUE] ELSE NoRow]
  <2>1. old \in Table BY Limits DEF Table, Row, Days
  <2>2. rows = EnforceCap(old) /\ writes = 0 BY DEF Init
  <2> HIDE DEF old
  <2>3. Cardinality(Stored(rows)) <= MaxEntries BY <2>1, <2>2, CapFacts
  <2>4. BoundedExcess
    BY <2>2, <2>3, StoredFinite, Limits DEF BoundedExcess, Watermark
  <2> QED BY <2>4, InitType DEF CapInv
<1>2. CapInv => BoundedExcess BY DEF CapInv
<1> QED BY <1>1, <1>2, NextCap, PTL DEF Spec

----------------------------------------------------------------------------
(* What leaves the table                                                   *)

\* A clock reading is never ahead of the clock.
StampsPast == \A t \in Threads : stamp[t] <= clock

\* An eviction deletes by the creation time of a row that had expired.
SeenOld == \A t \in Threads, k \in Keys :
              pc[t] = "evict" /\ seen[t][k] # Never => seen[t][k] < stamp[t] - TTL

\* At most one midnight falls into a call.
StampsNear == \A t \in Threads : pc[t] # "idle" => clock <= stamp[t] + 1

AgeInv == TypeOK /\ StampsPast /\ StampsNear /\ SeenOld

LEMMA InitAge == Init => AgeInv
BY InitType DEF Init, AgeInv, StampsPast, StampsNear, SeenOld

LEMMA NextAge == AgeInv /\ [Next]_vars => AgeInv'
<1> SUFFICES ASSUME AgeInv, [Next]_vars PROVE AgeInv' OBVIOUS
<1>0. TypeOK /\ TypeOK' BY NextType DEF AgeInv
<1> DEFINE Kept == StampsPast' /\ StampsNear' /\ SeenOld'
<1> SUFFICES Kept BY <1>0 DEF AgeInv
<1>a. clock \in Nat /\ clock' \in Nat BY <1>0 DEF TypeOK, Days
<1>b. \A t \in Threads : stamp[t] \in Nat BY <1>0 DEF TypeOK, Days
<1>1. ASSUME NEW t \in Threads, NEW place \in Places \ {"evict"}, clock' = clock,
             pc' = [pc EXCEPT ![t] = place], seen' = seen,
             \/ stamp' = stamp /\ pc[t] # "idle"
             \/ stamp' = [stamp EXCEPT ![t] = clock]
      PROVE  Kept
  <2>a. \A u \in Threads : /\ u # t => pc'[u] = pc[u] /\ stamp'[u] = stamp[u]
                           /\ u = t => \/ stamp'[u] = stamp[u] /\ pc[u] # "idle"
                                       \/ stamp'[u] = clock
    BY <1>0, <1>1 DEF TypeOK
  <2>1. StampsPast' /\ StampsNear'
    BY <1>1, <1>a, <2>a DEF AgeInv, StampsPast, StampsNear
  <2>2. ASSUME NEW u \in Threads, pc'[u] = "evict" PROVE u # t /\ pc[u] = "evict" /\ stamp'[u] = stamp[u]
    BY <1>0, <1>1, <2>2 DEF TypeOK
  <2> QED BY <1>1, <2>1, <2>2 DEF AgeInv, SeenOld
<1>2. ASSUME NEW t \in Threads,
             \/ \E keys \in Batches : Lookup(t, keys) \/ Put(t, keys)
             \/ \E next \in {"idle", "cleanup"} : FlushCall(t, next)
      PROVE  Kept
  <2>1. \E place \in Places \ {"evict"} : pc' = [pc EXCEPT ![t] = place]
    BY <1>2 DEF Lookup, Put, FlushCall, Begin, Places
  <2>2. clock' = clock /\ seen' = seen /\ stamp' = [stamp EXCEPT ![t] = clock]
    BY <1>2 DEF Lookup, Put, FlushCall, Begin
  <2> QED BY <1>1, <2>1, <2>2
<1>3. ASSUME NEW t \in Threads,
             \/ Evict(t) \/ EvictFail(t) \/ Ignore(t) \/ (\E k \in Keys : RecordHit(t, k))
             \/ PutCommit(t) \/ PutFail(t) \/ CleanupCommit(t) \/ CleanupFail(t) \/ FlushFail(t)
      PROVE  Kept
  <2>1. \E place \in Places \ {"evict"} : pc' = [pc EXCEPT ![t] = place]
    BY <1>3 DEF Evict, EvictFail, Ignore, RecordHit, PutCommit, PutFail, CleanupCommit, CleanupFail,
                FlushFail, Fail, HitsOrIdle, Places
  <2>2. clock' = clock /\ seen' = seen /\ stamp' = stamp /\ pc[t] # "idle"
    BY <1>3 DEF Evict, EvictFail, Ignore, RecordHit, PutCommit, PutFail, CleanupCommit, CleanupFail,
                FlushFail, Fail
  <2> QED BY <1>1, <2>1, <2>2
<1>4. ASSUME NEW t \in Threads, FlushTake(t) \/ FlushCommit(t) PROVE Kept
  <2>1. \E place \in Places \ {"evict"} : pc' = [pc EXCEPT ![t] = place]
    BY <1>0, <1>4, OnwardType DEF FlushTake, FlushCommit, Places
  <2>2. clock' = clock /\ seen' = seen /\ stamp' = [stamp EXCEPT ![t] = clock]
    BY <1>4 DEF FlushTake, FlushCommit
  <2> QED BY <1>1, <2>1, <2>2
<1>5. ASSUME NEW t \in Threads, Select(t) PROVE Kept
  <2> DEFINE old == {k \in want[t] : ExpiredRow(rows[k], stamp[t], TTL)}
             read == [k \in Keys |-> IF k \in old THEN rows[k].created ELSE Never]
  <2>1. clock' = clock /\ stamp' = stamp /\ seen' = [seen EXCEPT ![t] = read] BY <1>5 DEF Select
  <2>2. \A k \in Keys : read[k] # Never => read[k] < stamp[t] - TTL BY DEF ExpiredRow
  <2> HIDE DEF read
  <2>3. \A u \in Threads : u # t => pc'[u] = pc[u] /\ seen'[u] = seen[u]
    BY <1>0, <1>5, <2>1 DEF Select, TypeOK
  <2>4. seen'[t] = read BY <1>0, <2>1 DEF TypeOK
  <2>5. SeenOld' BY <2>1, <2>2, <2>3, <2>4 DEF AgeInv, SeenOld
  <2>6. pc[t] # "idle" BY <1>5 DEF Select
  <2> QED BY <2>1, <2>3, <2>5, <2>6 DEF AgeInv, StampsPast, StampsNear
<1>6. ASSUME Restart PROVE Kept
  BY <1>6 DEF Restart, AgeInv, StampsPast, StampsNear, SeenOld
<1>7. ASSUME Tick PROVE Kept
  <2>1. clock' = clock + 1 /\ UNCHANGED <<pc, stamp, seen>> BY <1>7 DEF Tick, locals
  <2>2. StampsPast' BY <1>a, <1>b, <2>1 DEF AgeInv, StampsPast
  <2>3. \A t \in Threads : pc[t] # "idle" => stamp[t] = clock BY <1>7 DEF Tick
  <2>4. StampsNear' BY <1>a, <2>1, <2>3 DEF StampsNear
  <2> QED BY <2>1, <2>2, <2>4 DEF AgeInv, SeenOld
<1>8. ASSUME UNCHANGED vars PROVE Kept
  BY <1>8 DEF vars, locals, AgeInv, StampsPast, StampsNear, SeenOld
<1> QED BY <1>2, <1>3, <1>4, <1>5, <1>6, <1>7, <1>8 DEF Next, Call, Step, Terminated

Leaves == \A k \in Keys : rows[k] # NoRow /\ rows'[k] = NoRow =>
            \/ ExpiredRow(rows[k], clock, IF TTL < CleanupDays THEN TTL ELSE CleanupDays)
            \/ Cardinality(Stored(rows')) = MaxEntries

LEMMA ExpiredLater ==
    ASSUME NEW row \in Row \cup {NoRow}, NEW now \in Int, NEW later \in Int, now <= later,
           NEW days \in {TTL, CleanupDays}, ExpiredRow(row, now, days)
    PROVE  ExpiredRow(row, later, IF TTL < CleanupDays THEN TTL ELSE CleanupDays)
BY RowFacts, Limits DEF ExpiredRow

LEMMA NextLeaves == AgeInv /\ [Next]_vars => Leaves
<1> SUFFICES ASSUME AgeInv, [Next]_vars, NEW k \in Keys, rows[k] # NoRow, rows'[k] = NoRow
             PROVE  \/ ExpiredRow(rows[k], clock, IF TTL < CleanupDays THEN TTL ELSE CleanupDays)
                    \/ Cardinality(Stored(rows')) = MaxEntries
  BY DEF Leaves
<1> DEFINE Goal == \/ ExpiredRow(rows[k], clock, IF TTL < CleanupDays THEN TTL ELSE CleanupDays)
                   \/ Cardinality(Stored(rows')) = MaxEntries
<1> SUFFICES Goal OBVIOUS
<1>0. TypeOK BY DEF AgeInv
<1>a. rows \in Table /\ clock \in Int /\ rows[k] \in Row \cup {NoRow} BY <1>0 DEF TypeOK, Table, Days
<1>b. \A t \in Threads : stamp[t] \in Int /\ stamp[t] <= clock
  BY <1>0 DEF TypeOK, Days, AgeInv, StampsPast
<1>1. ASSUME NEW t \in Threads, Evict(t) PROVE Goal
  <2>1. pc[t] = "evict" /\ seen[t][k] # Never /\ rows[k].created = seen[t][k] BY <1>1 DEF Evict
  <2>2. rows[k].created < stamp[t] - TTL BY <2>1 DEF AgeInv, SeenOld
  <2>3. ExpiredRow(rows[k], stamp[t], TTL) BY <2>2 DEF ExpiredRow
  <2> QED BY <1>a, <1>b, <2>3, ExpiredLater
<1>2. ASSUME NEW t \in Threads, PutCommit(t) PROVE Goal
  <2> DEFINE new == Upsert(t)
  <2>1. new \in Table /\ new[k] # NoRow BY <1>0, UpsertFacts
  <2>2. rows' = IF Due(t) THEN Prune(new, clock, TTL) ELSE new BY <1>2 DEF PutCommit
  <2>3. new[k] = IF k \in want[t]
          THEN [created |-> stamp[t], accessed |-> stamp[t], hits |-> rows[k].hits, think |-> FALSE]
          ELSE rows[k]
    BY DEF Upsert
  <2> HIDE DEF new
  <2>4. \/ ExpiredRow(new[k], clock, TTL)
        \/ Cardinality(Stored(rows')) = MaxEntries
    <3>1. Due(t) BY <2>1, <2>2
    <3>2. rows' = Prune(new, clock, TTL) BY <2>2, <3>1
    <3> QED BY <1>a, <2>1, <3>2, PruneFacts, Limits
  <2>5. CASE new[k] = rows[k] /\ ExpiredRow(new[k], clock, TTL)
    BY <1>a, <2>5, ExpiredLater
  <2>6. ASSUME new[k] # rows[k], ExpiredRow(new[k], clock, TTL) PROVE Goal
    <3>1. new[k].created = stamp[t] /\ pc[t] = "put" /\ k \in want[t]
      BY <1>2, <2>3, <2>6 DEF PutCommit
    <3>2. clock <= stamp[t] + 1 BY <3>1 DEF AgeInv, StampsNear
    <3>3. stamp[t] < clock - TTL BY <2>6, <3>1 DEF ExpiredRow
    <3> QED BY <3>2, <3>3, <1>a, <1>b, Limits
  <2> QED BY <2>4, <2>5, <2>6
<1>3. ASSUME NEW t \in Threads, CleanupCommit(t) PROVE Goal
  <2>1. rows' = Prune(rows, stamp[t], CleanupDays) BY <1>3 DEF CleanupCommit
  <2>2. ExpiredRow(rows[k], stamp[t], CleanupDays) \/ Cardinality(Stored(rows')) = MaxEntries
    BY <1>a, <1>b, <2>1, PruneFacts, Limits
  <2> QED BY <1>a, <1>b, <2>2, ExpiredLater
<1>4. ASSUME Restart PROVE Goal
  <2>1. rows' = Prune(rows, clock, TTL) BY <1>4 DEF Restart
  <2>2. ExpiredRow(rows[k], clock, TTL) \/ Cardinality(Stored(rows')) = MaxEntries
    <3>1. TTL \in Nat BY Limits
    <3>2. \A j \in Keys : rows[j] # NoRow /\ Prune(rows, clock, TTL)[j] = NoRow
            => \/ ExpiredRow(rows[j], clock, TTL)
               \/ Cardinality(Stored(Prune(rows, clock, TTL))) = MaxEntries
      BY <1>a, <3>1, PruneFacts
    <3> QED BY <2>1, <3>2
  <2> QED BY <1>a, <2>2, ExpiredLater
<1>5. ASSUME NEW t \in Threads, FlushCommit(t) PROVE Goal
  <2>1. rows'[k] = IF carry[k] > 0 /\ rows[k] # NoRow
                     THEN [rows[k] EXCEPT !.hits = @ + carry[k], !.accessed = stamp[t]]
                     ELSE rows[k]
    BY <1>5 DEF FlushCommit
  <2>2. rows[k] \in Row BY <1>a
  <2>3. rows'[k].created = rows[k].created BY <2>1, <2>2 DEF Row
  <2>4. rows[k].created # Never BY <1>a, RowFacts
  <2>5. NoRow.created = Never BY DEF NoRow
  <2> QED BY <2>3, <2>4, <2>5
<1>6. ASSUME NEW t \in Threads,
             \/ \E keys \in Batches : Lookup(t, keys) \/ Put(t, keys)
             \/ \E next \in {"idle", "cleanup"} : FlushCall(t, next)
             \/ \E h \in Keys : RecordHit(t, h)
             \/ Select(t) \/ EvictFail(t) \/ Ignore(t) \/ FlushTake(t) \/ FlushFail(t)
             \/ PutFail(t) \/ CleanupFail(t)
      PROVE  FALSE
  <2>1. rows' = rows
    BY <1>6 DEF Lookup, Put, FlushCall, RecordHit, Select, EvictFail, Ignore, FlushTake, FlushFail,
                PutFail, CleanupFail, store
  <2> QED BY <2>1
<1>7. ASSUME Tick \/ UNCHANGED vars PROVE FALSE
  BY <1>7 DEF Tick, vars, store
<1> QED BY <1>1, <1>2, <1>3, <1>4, <1>5, <1>6, <1>7 DEF Next, Call, Step, Terminated

\* A translation leaves the table only when it is older than its retention or when
\* the table is left full without it; a lookup that read an expired row does not
\* delete the row that another thread has stored since.
THEOREM OnlyOldOrExcessLeaves == Spec => OnlyOldOrExcess
<1>1. Spec => []AgeInv BY InitAge, NextAge, PTL DEF Spec
<1>2. AgeInv /\ [Next]_vars => [Leaves]_vars BY NextLeaves
<1>3. Spec => [][Leaves]_vars BY <1>1, <1>2, PTL DEF Spec
<1> QED BY <1>3, PTL DEF OnlyOldOrExcess, Leaves

----------------------------------------------------------------------------
(* CleanupToken                                                            *)

\* Who is at work holds the lock, and who creates a token found no file.
Working ==
    /\ \A p \in Procs : at[p] # "idle" => holder = p
    /\ \A p \in Procs : at[p] \in {"create", "replace"} => file = None
    /\ \A p \in Procs : at[p] = "replace" => temp[p] \in Nat
    /\ \A p \in Procs : at[p] = "sync" => file \in Nat

TokenTypes ==
    /\ at \in [Procs -> {"idle", "read", "create", "replace", "sync"}]
    /\ temp \in [Procs -> Nat \cup {None}]
    /\ cache \in [Procs -> Nat \cup {None}]
    /\ holder \in Procs \cup {None}
    /\ drawn \in Nat
    /\ file \in Nat \cup {None}
    /\ disk \in Nat \cup {None}

(* The directory differs from the disk only while a process is about to    *)
(* sync it, and then no process has a token, or after a sync was missed.   *)
Pending ==
    /\ \A p \in Procs : at[p] = "sync" => \A q \in Procs : cache[q] = None
    /\ (\A p \in Procs : at[p] # "sync") => disk = file \/ unsynced

\* The inductive invariant.
TokenInv == TokenTypes /\ Working /\ Agreement /\ Pending

LEMMA InitInv == TokenInit => TokenInv
BY CleanupTokenAssumption DEF TokenInit, TokenInv, TokenTypes, Working, Agreement, Pending

LEMMA StepInv == TokenInv /\ [TokenNext]_tokenVars => TokenInv'
<1> SUFFICES ASSUME TokenInv, [TokenNext]_tokenVars PROVE TokenInv'
  OBVIOUS
<1> USE CleanupTokenAssumption
<1>1. ASSUME NEW p \in Procs, Lock(p) PROVE TokenInv'
  BY <1>1 DEF TokenInv, TokenTypes, Working, Agreement, Pending, Lock
<1>2. ASSUME NEW p \in Procs, Read(p) PROVE TokenInv'
  <2>1. CASE file # None
    BY <1>2, <2>1 DEF TokenInv, TokenTypes, Working, Agreement, Pending, Read, Unlock
  <2>2. CASE file = None
    BY <1>2, <2>2 DEF TokenInv, TokenTypes, Working, Agreement, Pending, Read
  <2> QED
    BY <2>1, <2>2
<1>3. ASSUME NEW p \in Procs, Create(p) PROVE TokenInv'
  BY <1>3 DEF TokenInv, TokenTypes, Working, Agreement, Pending, Create
<1>4. ASSUME NEW p \in Procs, Replace(p) PROVE TokenInv'
  <2>1. /\ at[p] = "replace" /\ file = None /\ file' = temp[p] /\ temp[p] \in Nat
        /\ UNCHANGED <<disk, holder, cache, drawn, unsynced>>
        /\ temp' = [temp EXCEPT ![p] = None]
        /\ at' = [at EXCEPT ![p] = "sync"]
    BY <1>4 DEF TokenInv, Working, Replace
  <2>2. \A q \in Procs : q # p => at[q] = "idle"
    BY <2>1 DEF TokenInv, Working
  <2>3. \A q \in Procs : cache[q] = None
    BY <2>1 DEF TokenInv, Agreement
  <2>4. TokenTypes'
    BY <2>1 DEF TokenInv, TokenTypes
  <2>5. Working'
    BY <2>1, <2>2 DEF TokenInv, TokenTypes, Working
  <2>6. Agreement'
    BY <2>1, <2>3 DEF Agreement
  <2>7. Pending'
    BY <2>1, <2>3 DEF TokenInv, TokenTypes, Pending
  <2> QED
    BY <2>4, <2>5, <2>6, <2>7 DEF TokenInv
<1>5. ASSUME NEW p \in Procs, NEW ok \in BOOLEAN, Sync(p, ok) PROVE TokenInv'
  <2>1. /\ at[p] = "sync" /\ file \in Nat /\ file' = file /\ temp' = temp
        /\ drawn' = drawn /\ disk' \in {file, disk} /\ holder' = None
        /\ cache' = [cache EXCEPT ![p] = file]
        /\ at' = [at EXCEPT ![p] = "idle"]
    BY <1>5 DEF TokenInv, Working, Sync, Unlock
  <2>2. \A q \in Procs : q # p => at[q] = "idle"
    BY <2>1 DEF TokenInv, Working
  <2>3. disk' = file \/ unsynced'
    BY <1>5 DEF Sync
  <2>4. TokenTypes' /\ Working' /\ Agreement'
    BY <1>5, <2>1, <2>2 DEF TokenInv, TokenTypes, Working, Agreement, Sync
  <2>5. Pending'
    BY <2>1, <2>2, <2>3 DEF TokenInv, TokenTypes, Pending
  <2> QED
    BY <2>4, <2>5 DEF TokenInv
<1>6. ASSUME NEW p \in Procs, PersistFails(p) PROVE TokenInv'
  BY <1>6 DEF TokenInv, TokenTypes, Working, Agreement, Pending, PersistFails, Unlock
<1>7. ASSUME NEW p \in Procs, ProcessRestart(p) PROVE TokenInv'
  <2>1. TokenTypes'
    BY <1>7 DEF TokenInv, TokenTypes, ProcessRestart
  <2>2. Working' /\ Agreement'
    BY <1>7 DEF TokenInv, TokenTypes, Working, Agreement, ProcessRestart
  <2>3. \A q \in Procs : cache'[q] # None => cache'[q] = cache[q]
    BY <1>7 DEF TokenInv, TokenTypes, ProcessRestart
  <2>4. \A q \in Procs : at'[q] # "idle" => q # p /\ at'[q] = at[q]
    BY <1>7 DEF TokenInv, TokenTypes, ProcessRestart
  <2>5. Pending'
    <3>1. CASE at[p] = "sync"
      BY <1>7, <2>3, <2>4, <3>1 DEF TokenInv, TokenTypes, Pending, ProcessRestart
    <3>2. CASE at[p] # "sync"
      BY <1>7, <2>3, <2>4, <3>2 DEF TokenInv, TokenTypes, Pending, ProcessRestart
    <3> QED
      BY <3>1, <3>2
  <2> QED
    BY <2>1, <2>2, <2>5 DEF TokenInv
<1>8. CASE HostCrash
  BY <1>8 DEF TokenInv, TokenTypes, Working, Agreement, Pending, HostCrash
<1>9. CASE UNCHANGED tokenVars
  BY <1>9 DEF TokenInv, TokenTypes, Working, Agreement, Pending, tokenVars
<1> QED
  BY <1>1, <1>2, <1>3, <1>4, <1>5, <1>6, <1>7, <1>8, <1>9 DEF TokenNext, TokenStep

(* Any number of processes that share a data directory agree on the token  *)
(* of /cache/cleanup, whatever fails, restarts or crashes in between.      *)
THEOREM TokenAgreement == TokenSpec => []Agreement
<1>1. TokenInv => Agreement
  BY DEF TokenInv
<1> QED
  BY InitInv, StepInv, <1>1, PTL DEF TokenSpec

(* For any number of processes: a token that one of them has handed out    *)
(* survives a host crash, unless the sync of its directory failed or the   *)
(* process was killed just before it.                                      *)
THEOREM TokenDurable == TokenSpec => []Durable
<1>1. TokenInv => Durable
  BY DEF TokenInv, Pending, Durable
<1> QED
  BY InitInv, StepInv, <1>1, PTL DEF TokenSpec
=============================================================================
