--------------------------- MODULE AdmissionProofs ---------------------------
(***************************************************************************)
(* The bounds of Admission for every set of threads, clients and subjects  *)
(* and every limit: no slot of the authentication authority leaks, no      *)
(* window lets more through than its limit, no request is refused that a   *)
(* window had room for.                                                    *)
(***************************************************************************)
EXTENDS Admission, Functions, FiniteSetTheorems, TLAPS

----------------------------------------------------------------------------
(* What a filter keeps of a queue                                          *)

\* The positions of queue whose member is in S, and how many come up to i.
At(queue, S) == {i \in DOMAIN queue : queue[i] \in S}
Rank(queue, S, i) == Cardinality({j \in At(queue, S) : j <= i})

LEMMA AtFinite ==
    ASSUME NEW T, NEW queue \in Seq(T), NEW S
    PROVE  /\ At(queue, S) \in SUBSET (1 .. Len(queue))
           /\ IsFiniteSet(At(queue, S)) /\ Cardinality(At(queue, S)) \in Nat
           /\ Cardinality(At(queue, S)) <= Len(queue)
           /\ \A i : Rank(queue, S, i) \in Nat /\ Rank(queue, S, i) <= Cardinality(At(queue, S))
<1>1. At(queue, S) \in SUBSET (1 .. Len(queue)) BY DEF At
<1>2. /\ IsFiniteSet(1 .. Len(queue)) /\ Cardinality(1 .. Len(queue)) = Len(queue)
  <2> DEFINE size == Len(queue)
  <2>1. size \in Nat OBVIOUS
  <2> HIDE DEF size
  <2>2. IsFiniteSet(1 .. size) /\ Cardinality(1 .. size) = size BY <2>1, FS_Interval
  <2> QED BY <2>2 DEF size
<1>3. /\ IsFiniteSet(At(queue, S)) /\ Cardinality(At(queue, S)) <= Len(queue)
      /\ Cardinality(At(queue, S)) \in Nat
  BY <1>1, <1>2, FS_Subset, FS_CardinalityType
<1>4. ASSUME NEW i
      PROVE  Rank(queue, S, i) \in Nat /\ Rank(queue, S, i) <= Cardinality(At(queue, S))
  <2>1. {j \in At(queue, S) : j <= i} \in SUBSET At(queue, S) OBVIOUS
  <2> QED BY <1>3, <2>1, FS_Subset, FS_CardinalityType DEF Rank
<1> QED BY <1>1, <1>3, <1>4

\* The rank numbers the positions that are kept.
LEMMA RankNumbers ==
    ASSUME NEW T, NEW queue \in Seq(T), NEW S
    PROVE  /\ \A i \in At(queue, S) : Rank(queue, S, i) \in 1 .. Cardinality(At(queue, S))
           /\ \A i, j \in At(queue, S) : i < j => Rank(queue, S, i) < Rank(queue, S, j)
           /\ \A i, j \in At(queue, S) : Rank(queue, S, i) = Rank(queue, S, j) => i = j
           /\ \A n \in 1 .. Cardinality(At(queue, S)) :
                 \E i \in At(queue, S) : Rank(queue, S, i) = n
<1> DEFINE at == At(queue, S)
           upto(i) == {j \in at : j <= i}
           rank == [i \in at |-> Rank(queue, S, i)]
<1>0. /\ \A i \in at : i \in Nat
      /\ IsFiniteSet(at) /\ Cardinality(at) \in Nat
      /\ \A i : Rank(queue, S, i) \in Nat /\ Rank(queue, S, i) <= Cardinality(at)
      /\ \A i : Rank(queue, S, i) = Cardinality(upto(i))
  <2>1. Len(queue) \in Nat OBVIOUS
  <2>2. \A i \in at : i \in Nat BY <2>1, AtFinite
  <2> QED BY <2>2, AtFinite DEF Rank
<1> HIDE DEF at
<1>1. \A i : IsFiniteSet(upto(i)) /\ Cardinality(upto(i)) \in Nat
  <2> SUFFICES ASSUME NEW i PROVE IsFiniteSet(upto(i)) /\ Cardinality(upto(i)) \in Nat OBVIOUS
  <2>1. upto(i) \in SUBSET at OBVIOUS
  <2> QED BY <1>0, <2>1, FS_Subset, FS_CardinalityType
<1>2. ASSUME NEW i \in at PROVE Rank(queue, S, i) \in 1 .. Cardinality(at)
  <2>1. i \in upto(i) BY <1>0
  <2>2. Cardinality(upto(i)) # 0 BY <1>1, <2>1, FS_EmptySet
  <2> QED BY <1>0, <1>1, <2>2
<1>3. ASSUME NEW i \in at, NEW j \in at, i < j PROVE Rank(queue, S, i) < Rank(queue, S, j)
  <2>1. upto(i) \cup {j} \in SUBSET upto(j) BY <1>0, <1>3
  <2>2. j \notin upto(i) BY <1>0, <1>3
  <2>3. Cardinality(upto(i) \cup {j}) = Cardinality(upto(i)) + 1 BY <1>1, <2>2, FS_AddElement
  <2>4. Cardinality(upto(i) \cup {j}) <= Cardinality(upto(j)) BY <1>1, <2>1, FS_Subset
  <2> QED BY <1>0, <1>1, <2>3, <2>4
<1>4. ASSUME NEW i \in at, NEW j \in at, Rank(queue, S, i) = Rank(queue, S, j) PROVE i = j
  BY <1>0, <1>3, <1>4
<1>5. rank \in Injection(at, 1 .. Cardinality(at))
  BY <1>2, <1>4 DEF Injection, IsInjective
<1>6. IsFiniteSet(1 .. Cardinality(at)) /\ Cardinality(1 .. Cardinality(at)) = Cardinality(at)
  BY <1>0, FS_Interval
<1>7. rank \in Surjection(at, 1 .. Cardinality(at)) BY <1>5, <1>6, FS_Injection
<1>8. \A n \in 1 .. Cardinality(at) : \E i \in at : Rank(queue, S, i) = n
  BY <1>7 DEF Surjection
<1> QED BY <1>2, <1>3, <1>4, <1>8 DEF at

\* Every member of the result is the member at a position kept, one for one.
LEMMA OnlyPositions ==
    ASSUME NEW T, NEW queue \in Seq(T), NEW S
    PROVE  /\ Only(queue, S) \in Seq(T) /\ Len(Only(queue, S)) = Cardinality(At(queue, S))
           /\ \A i \in At(queue, S) : Only(queue, S)[Rank(queue, S, i)] = queue[i]
           /\ \A n \in 1 .. Len(Only(queue, S)) :
                 \E i \in At(queue, S) : Rank(queue, S, i) = n /\ Only(queue, S)[n] = queue[i]
<1> DEFINE nth(n) == CHOOSE i \in At(queue, S) : Rank(queue, S, i) = n
           size == Cardinality(At(queue, S))
<1>0. size \in Nat /\ At(queue, S) \in SUBSET (1 .. Len(queue)) BY AtFinite
<1>1. ASSUME NEW n \in 1 .. size PROVE nth(n) \in At(queue, S) /\ Rank(queue, S, nth(n)) = n
  BY RankNumbers
<1>2. ASSUME NEW i \in At(queue, S) PROVE nth(Rank(queue, S, i)) = i
  BY <1>1, RankNumbers
<1>3. Only(queue, S) = [n \in 1 .. size |-> queue[nth(n)]] BY DEF Only, At, Rank
<1> HIDE DEF nth, size
<1>4. \A n \in 1 .. size : queue[nth(n)] \in T BY <1>0, <1>1
<1>5. Only(queue, S) \in Seq(T) /\ Len(Only(queue, S)) = size BY <1>0, <1>3, <1>4
<1>6. ASSUME NEW i \in At(queue, S) PROVE Only(queue, S)[Rank(queue, S, i)] = queue[i]
  <2>1. Rank(queue, S, i) \in 1 .. size BY RankNumbers DEF size
  <2> QED BY <1>2, <1>3, <2>1
<1>7. ASSUME NEW n \in 1 .. size
      PROVE  \E i \in At(queue, S) : Rank(queue, S, i) = n /\ Only(queue, S)[n] = queue[i]
  BY <1>1, <1>3
<1> QED BY <1>5, <1>6, <1>7 DEF size

Distinct(queue) == \A i, j \in DOMAIN queue : queue[i] = queue[j] => i = j

LEMMA OnlyFacts ==
    ASSUME NEW T, NEW queue \in Seq(T), NEW S
    PROVE  /\ Only(queue, S) \in Seq(T) /\ Len(Only(queue, S)) <= Len(queue)
           /\ Range(Only(queue, S)) = Range(queue) \cap S
           /\ Distinct(queue) => Distinct(Only(queue, S))
<1> DEFINE only == Only(queue, S)
<1>1. /\ only \in Seq(T) /\ Len(only) = Cardinality(At(queue, S)) /\ DOMAIN only = 1 .. Len(only)
      /\ \A i \in At(queue, S) : only[Rank(queue, S, i)] = queue[i]
      /\ \A n \in 1 .. Len(only) :
            \E i \in At(queue, S) : Rank(queue, S, i) = n /\ only[n] = queue[i]
  BY OnlyPositions
<1> HIDE DEF only
<1>2. Len(only) <= Len(queue) BY <1>1, AtFinite
<1>3. \A i \in At(queue, S) : Rank(queue, S, i) \in 1 .. Len(only) BY <1>1, RankNumbers
<1>4. Range(only) = Range(queue) \cap S
  <2>1. ASSUME NEW x \in Range(only) PROVE x \in Range(queue) \cap S
    <3>1. PICK n \in 1 .. Len(only) : x = only[n] BY <1>1 DEF Range
    <3>2. PICK i \in At(queue, S) : only[n] = queue[i] BY <1>1
    <3> QED BY <3>1, <3>2 DEF At, Range
  <2>2. ASSUME NEW x \in Range(queue) \cap S PROVE x \in Range(only)
    <3>1. PICK i \in DOMAIN queue : x = queue[i] BY DEF Range
    <3>2. i \in At(queue, S) BY <3>1 DEF At
    <3> QED BY <1>1, <1>3, <3>1, <3>2 DEF Range
  <2> QED BY <2>1, <2>2
<1>5. ASSUME Distinct(queue), NEW m \in 1 .. Len(only), NEW n \in 1 .. Len(only), only[m] = only[n]
      PROVE  m = n
  <2>1. PICK i \in At(queue, S) : Rank(queue, S, i) = m /\ only[m] = queue[i] BY <1>1
  <2>2. PICK j \in At(queue, S) : Rank(queue, S, j) = n /\ only[n] = queue[j] BY <1>1
  <2> QED BY <1>5, <2>1, <2>2 DEF Distinct, At
<1> QED BY <1>1, <1>2, <1>4, <1>5 DEF Distinct, only

\* A queue without repetition has as many members as places.
LEMMA DistinctCount ==
    ASSUME NEW T, NEW queue \in Seq(T), Distinct(queue)
    PROVE  IsFiniteSet(Range(queue)) /\ Cardinality(Range(queue)) = Len(queue)
<1>0. Len(queue) \in Nat /\ DOMAIN queue = 1 .. Len(queue) OBVIOUS
<1>1. queue \in Surjection(1 .. Len(queue), Range(queue)) BY <1>0 DEF Surjection, Range
<1>2. queue \in Injection(1 .. Len(queue), Range(queue))
  BY <1>0, <1>1 DEF Injection, Surjection, IsInjective, Distinct
<1>3. IsFiniteSet(1 .. Len(queue)) /\ Cardinality(1 .. Len(queue)) = Len(queue)
  BY <1>0, FS_Interval
<1> QED BY <1>1, <1>2, <1>3, FS_Surjection

LEMMA Members ==
    ASSUME NEW T, NEW queue \in Seq(T)
    PROVE  /\ \A i \in DOMAIN queue : queue[i] \in T
           /\ \A U : T \subseteq U => queue \in Seq(U)
<1>1. \A i \in DOMAIN queue : queue[i] \in T OBVIOUS
<1>2. ASSUME NEW U, T \subseteq U PROVE queue \in Seq(U)
  <2>1. \A i \in 1 .. Len(queue) : queue[i] \in U BY <1>2
  <2> QED BY <2>1
<1> QED BY <1>1, <1>2

LEMMA AppendFacts ==
    ASSUME NEW T, NEW queue \in Seq(T), NEW x \in T
    PROVE  /\ Append(queue, x) \in Seq(T)
           /\ Range(Append(queue, x)) = Range(queue) \cup {x}
           /\ Distinct(queue) /\ x \notin Range(queue) => Distinct(Append(queue, x))
<1> DEFINE new == Append(queue, x)
<1>1. /\ new \in Seq(T) /\ Len(new) = Len(queue) + 1 /\ Len(queue) \in Nat
      /\ DOMAIN queue = 1 .. Len(queue) /\ DOMAIN new = 1 .. Len(new)
      /\ \A i \in 1 .. Len(new) : new[i] = IF i <= Len(queue) THEN queue[i] ELSE x
  OBVIOUS
<1> HIDE DEF new
<1>2. Range(new) = Range(queue) \cup {x}
  <2>1. ASSUME NEW y \in Range(new) PROVE y \in Range(queue) \cup {x} BY <1>1 DEF Range
  <2>2. ASSUME NEW y \in Range(queue) PROVE y \in Range(new)
    <3>1. PICK i \in 1 .. Len(queue) : y = queue[i] BY <1>1 DEF Range
    <3>2. i \in DOMAIN new /\ new[i] = y BY <1>1, <3>1
    <3> QED BY <3>2 DEF Range
  <2>3. x \in Range(new)
    <3>1. Len(new) \in DOMAIN new /\ new[Len(new)] = x BY <1>1
    <3> QED BY <3>1 DEF Range
  <2> QED BY <2>1, <2>2, <2>3
<1>3. ASSUME Distinct(queue), x \notin Range(queue) PROVE Distinct(new)
  BY <1>1, <1>3 DEF Distinct, Range
<1> QED BY <1>1, <1>2, <1>3 DEF new


\* How many members of a queue are in A.
Count(queue, A) == Cardinality(At(queue, A))

LEMMA CountFacts ==
    ASSUME NEW T, NEW queue \in Seq(T), NEW A
    PROVE  /\ Count(queue, A) \in Nat /\ Count(queue, A) <= Len(queue)
           /\ T \subseteq A => Count(queue, A) = Len(queue)
           /\ Count(queue, A) > 0 <=> \E i \in DOMAIN queue : queue[i] \in A
<1>1. Count(queue, A) \in Nat /\ Count(queue, A) <= Len(queue) BY AtFinite DEF Count
<1>2. ASSUME T \subseteq A PROVE Count(queue, A) = Len(queue)
  <2> DEFINE size == Len(queue)
  <2>1. size \in Nat /\ At(queue, A) = 1 .. size BY <1>2 DEF At
  <2> HIDE DEF size
  <2>2. Cardinality(1 .. size) = size BY <2>1, FS_Interval
  <2> QED BY <2>1, <2>2 DEF size, Count
<1>3. Count(queue, A) > 0 <=> At(queue, A) # {}
  <2>1. IsFiniteSet(At(queue, A)) BY AtFinite
  <2> QED BY <1>1, <2>1, FS_EmptySet DEF Count
<1> QED BY <1>1, <1>2, <1>3 DEF At

LEMMA CountMore ==
    ASSUME NEW T, NEW queue \in Seq(T), NEW A, NEW B,
           \A i \in DOMAIN queue : queue[i] \in A => queue[i] \in B
    PROVE  Count(queue, A) <= Count(queue, B)
<1>1. At(queue, A) \in SUBSET At(queue, B) BY DEF At
<1> QED BY <1>1, AtFinite, FS_Subset DEF Count

LEMMA CountSame ==
    ASSUME NEW T, NEW queue \in Seq(T), NEW A, NEW B,
           \A i \in DOMAIN queue : queue[i] \in A <=> queue[i] \in B
    PROVE  Count(queue, A) = Count(queue, B)
<1>1. At(queue, A) = At(queue, B) BY DEF At
<1> QED BY <1>1 DEF Count

LEMMA CountOnly ==
    ASSUME NEW T, NEW queue \in Seq(T), NEW S, NEW A
    PROVE  Count(Only(queue, S), A) = Count(queue, S \cap A)
<1> DEFINE only == Only(queue, S)
           F == At(queue, S \cap A)
           G == At(only, A)
           f == [i \in F |-> Rank(queue, S, i)]
<1>1. /\ only \in Seq(T) /\ Len(only) = Cardinality(At(queue, S)) /\ DOMAIN only = 1 .. Len(only)
      /\ \A i \in At(queue, S) : only[Rank(queue, S, i)] = queue[i]
      /\ \A n \in 1 .. Len(only) :
            \E i \in At(queue, S) : Rank(queue, S, i) = n /\ only[n] = queue[i]
  BY OnlyPositions
<1>2. F = {i \in At(queue, S) : queue[i] \in A} BY DEF At
<1>3. G = {n \in 1 .. Len(only) : only[n] \in A} BY <1>1 DEF At
<1>4. IsFiniteSet(F) BY AtFinite
<1> HIDE DEF only, F, G
<1>5. f \in Surjection(F, G)
  <2>1. \A i \in F : f[i] \in G
    <3>1. \A i \in At(queue, S) : Rank(queue, S, i) \in 1 .. Len(only) BY <1>1, RankNumbers
    <3> QED BY <1>1, <1>2, <1>3, <3>1
  <2>2. \A n \in G : \E i \in F : f[i] = n BY <1>1, <1>2, <1>3
  <2> QED BY <2>1, <2>2 DEF Surjection
<1>6. f \in Injection(F, G)
  <2>1. \A i, j \in F : Rank(queue, S, i) = Rank(queue, S, j) => i = j BY <1>2, RankNumbers
  <2>2. f \in [F -> G] BY <1>5 DEF Surjection
  <2> QED BY <2>1, <2>2 DEF Injection, IsInjective
<1>7. Cardinality(G) = Cardinality(F) BY <1>4, <1>5, <1>6, FS_Surjection
<1> QED BY <1>7 DEF Count, F, G, only

LEMMA CountAppend ==
    ASSUME NEW T, NEW queue \in Seq(T), NEW x \in T, NEW A
    PROVE  /\ x \in A => Count(Append(queue, x), A) = Count(queue, A) + 1
           /\ x \notin A => Count(Append(queue, x), A) = Count(queue, A)
<1> DEFINE new == Append(queue, x)
           n == Len(queue) + 1
<1>1. /\ new \in Seq(T) /\ Len(queue) \in Nat
      /\ DOMAIN queue = 1 .. Len(queue) /\ DOMAIN new = 1 .. n
      /\ \A i \in 1 .. n : new[i] = IF i <= Len(queue) THEN queue[i] ELSE x
  OBVIOUS
<1>2. IsFiniteSet(At(queue, A)) /\ Cardinality(At(queue, A)) \in Nat BY AtFinite
<1> HIDE DEF new
<1>3. n \notin At(queue, A) BY <1>1 DEF At
<1>4. ASSUME x \in A PROVE At(new, A) = At(queue, A) \cup {n} BY <1>1, <1>4 DEF At
<1>5. ASSUME x \notin A PROVE At(new, A) = At(queue, A) BY <1>1, <1>5 DEF At
<1>6. Cardinality(At(queue, A) \cup {n}) = Cardinality(At(queue, A)) + 1 BY <1>2, <1>3, FS_AddElement
<1> QED BY <1>4, <1>5, <1>6 DEF Count, new

----------------------------------------------------------------------------
(* The slots                                                                *)

Phases == {"idle", "auth", "acquire", "authenticate", "release", "api",
           "admitted", "refused"}

\* The requests are records of the kinds the handlers keep.
ReqOK == req \in [Threads -> [pc : Phases, kind : {"api", "exempt", "exchange"},
                              client : Clients \cup {None},
                              key : Keys \cup {None}, outcome : {"none", "identity", "failure"}]]

\* A request that is under way has the address of its client and a key.
ClientKnown == \A p \in Threads : req[p].pc \notin Final \cup {"idle"} =>
                                    req[p].client \in Clients /\ req[p].key \in Keys

\* The inductive invariant.
IInv == ReqOK /\ ClientKnown /\ SlotsMatch

----------------------------------------------------------------------------
(* Counting                                                                 *)

\* A request holds a slot of client c.
Holds(r, c) == r.client = c /\ r.pc \in {"authenticate", "release"}

\* The threads whose request in f holds a slot of client c.
HeldBy(f, c) == {p \in Threads : Holds(f[p], c)}

\* The step of one thread changes the number of holders by its own change.
LEMMA CountHeld ==
    ASSUME NEW f, NEW g, NEW c, NEW p \in Threads,
           \A q \in Threads \ {p} : g[q] = f[q]
    PROVE  /\ Cardinality(HeldBy(f, c)) \in Nat
           /\ Holds(f[p], c) => Cardinality(HeldBy(f, c)) > 0
           /\ (Holds(g[p], c) <=> Holds(f[p], c))
                 => Cardinality(HeldBy(g, c)) = Cardinality(HeldBy(f, c))
           /\ Holds(g[p], c) /\ ~Holds(f[p], c)
                 => Cardinality(HeldBy(g, c)) = Cardinality(HeldBy(f, c)) + 1
           /\ ~Holds(g[p], c) /\ Holds(f[p], c)
                 => Cardinality(HeldBy(g, c)) = Cardinality(HeldBy(f, c)) - 1
<1> DEFINE F == HeldBy(f, c)
           G == HeldBy(g, c)
<1>1. IsFiniteSet(F) /\ Cardinality(F) \in Nat
  BY AdmissionAssumption, FS_Subset, FS_CardinalityType DEF HeldBy
<1>2. p \in F <=> Holds(f[p], c)
  BY DEF HeldBy
<1>3. (Holds(g[p], c) <=> Holds(f[p], c)) => G = F
  BY DEF HeldBy
<1>4. Holds(g[p], c) /\ ~Holds(f[p], c) => G = F \cup {p}
  BY DEF HeldBy
<1>5. ~Holds(g[p], c) /\ Holds(f[p], c) => G = F \ {p}
  BY DEF HeldBy
<1>6. p \notin F => Cardinality(F \cup {p}) = Cardinality(F) + 1
  BY <1>1, FS_AddElement
<1>7. p \in F => Cardinality(F \ {p}) = Cardinality(F) - 1
  BY <1>1, FS_RemoveElement
<1>8. p \in F => Cardinality(F) > 0
  BY <1>1, FS_EmptySet
<1> QED
  BY <1>1, <1>2, <1>3, <1>4, <1>5, <1>6, <1>7, <1>8

\* The holders of the model are those of its requests.
LEMMA HoldersOfReq ==
    \A c \in Clients : Holding(c) = HeldBy(req, c) /\ Holding(c)' = HeldBy(req', c)
BY DEF Holding, HeldBy, Holds

\* A step that leaves the counters and every request's claim alone.
LEMMA QuietStep ==
    ASSUME SlotsMatch, NEW p \in Threads, UNCHANGED inflight,
           \A q \in Threads \ {p} : req'[q] = req[q],
           \A c \in Clients : Holds(req'[p], c) <=> Holds(req[p], c)
    PROVE  SlotsMatch'
<1> SUFFICES ASSUME NEW c \in Clients
             PROVE  Slots(c)' = Cardinality(Holding(c)') /\ Slots(c)' <= MaxInflight
  BY DEF SlotsMatch
<1>1. Cardinality(HeldBy(req', c)) = Cardinality(HeldBy(req, c))
  BY CountHeld
<1>2. Slots(c) = Cardinality(Holding(c)) /\ Slots(c) <= MaxInflight
  BY DEF SlotsMatch
<1>3. Slots(c)' = Slots(c)
  BY DEF Slots
<1> QED
  BY <1>1, <1>2, <1>3, HoldersOfReq

----------------------------------------------------------------------------
(* The steps                                                                *)

LEMMA InitInv == Init => IInv
<1> SUFFICES ASSUME Init PROVE IInv
  OBVIOUS
<1>1. ReqOK /\ ClientKnown
  BY DEF Init, Idle, ReqOK, ClientKnown, Final, Phases
<1>2. \A c \in Clients : Holding(c) = {}
  BY DEF Init, Idle, Holding
<1>3. \A c \in Clients : Slots(c) = 0
  BY DEF Init, Slots
<1>4. SlotsMatch
  BY <1>2, <1>3, FS_EmptySet, AdmissionAssumption DEF SlotsMatch
<1> QED
  BY <1>1, <1>4 DEF IInv

\* A request goes on to another phase with its client, or is over.
LEMMA GotoMove ==
    ASSUME ReqOK, ClientKnown, NEW p \in Threads, NEW next \in Phases, Goto(p, next),
           req[p].client \in Clients, req[p].key \in Keys
    PROVE  /\ ReqOK' /\ ClientKnown'
           /\ req'[p].pc = next
           /\ next \notin Final => req'[p].client = req[p].client
           /\ \A q \in Threads \ {p} : req'[q] = req[q]
<1> DEFINE r == IF next \in Final THEN [Idle EXCEPT !.pc = next] ELSE [req[p] EXCEPT !.pc = next]
<1>1. req' = [req EXCEPT ![p] = r]
  BY DEF ReqOK, Goto
<1>2. CASE next \in Final
  <2>1. r = [pc |-> next, kind |-> "api", client |-> None, key |-> None, outcome |-> "none"]
    BY <1>2 DEF Idle
  <2> QED
    BY <2>1, <1>1, <1>2 DEF ReqOK, ClientKnown, Final
<1>3. CASE next \notin Final
  <2>1. r = [req[p] EXCEPT !.pc = next]
    BY <1>3
  <2> QED
    BY <2>1, <1>1, <1>3 DEF ReqOK, ClientKnown, Final
<1> QED
  BY <1>2, <1>3

\* A slot is taken for the one request that will give it back.
LEMMA AcquireInv ==
    ASSUME IInv, NEW p \in Threads, Acquire(p)
    PROVE  IInv'
<1> DEFINE c == req[p].client
<1>1. req[p].pc = "acquire" /\ c \in Clients /\ req[p].key \in Keys
  BY DEF IInv, ReqOK, ClientKnown, Final, Acquire
<1>2. \/ Goto(p, "refused") /\ UNCHANGED inflight
      \/ /\ Slots(c) < MaxInflight
         /\ inflight' = SetBucket(inflight, c, Slots(c) + 1)
         /\ Goto(p, "authenticate")
  <2>1. Slots(c) \in Nat
    BY <1>1, CountHeld, HoldersOfReq DEF IInv, SlotsMatch
  <2> QED
    BY <2>1, AdmissionAssumption DEF Acquire
<1>3. CASE Goto(p, "refused") /\ UNCHANGED inflight
  <2>1. ReqOK' /\ ClientKnown'
    BY <1>3, <1>1, GotoMove DEF IInv, Phases
  <2>2. SlotsMatch'
    BY <1>3, <1>1, GotoMove, QuietStep DEF IInv, Phases, Holds
  <2> QED
    BY <2>1, <2>2 DEF IInv
<1>4. CASE /\ Slots(c) < MaxInflight
           /\ inflight' = SetBucket(inflight, c, Slots(c) + 1)
           /\ Goto(p, "authenticate")
  <2>1. ReqOK' /\ ClientKnown'
    BY <1>4, <1>1, GotoMove DEF IInv, Phases
  <2>2. /\ req'[p].client = c /\ req'[p].pc = "authenticate"
        /\ \A q \in Threads \ {p} : req'[q] = req[q]
    BY <1>4, <1>1, GotoMove DEF IInv, Phases, Final
  <2>3. SlotsMatch'
    <3> SUFFICES ASSUME NEW d \in Clients
                 PROVE  Slots(d)' = Cardinality(Holding(d)') /\ Slots(d)' <= MaxInflight
      BY DEF SlotsMatch
    <3>1. Slots(d) = Cardinality(HeldBy(req, d)) /\ Slots(d) <= MaxInflight
          /\ Slots(d) \in Nat
      BY <2>2, CountHeld, HoldersOfReq DEF IInv, SlotsMatch
    <3>2. CASE d = c
      <4>1. Slots(d)' = Slots(d) + 1
        BY <1>4, <3>2 DEF Slots, SetBucket
      <4>2. Holds(req'[p], d) /\ ~Holds(req[p], d)
        BY <1>1, <2>2, <3>2 DEF Holds
      <4>3. Cardinality(HeldBy(req', d)) = Cardinality(HeldBy(req, d)) + 1
        BY <2>2, <4>2, CountHeld
      <4>4. Slots(d) < MaxInflight
        BY <1>4, <3>2
      <4> QED
        BY <3>1, <4>1, <4>3, <4>4, HoldersOfReq, AdmissionAssumption
    <3>3. CASE d # c
      <4>1. Slots(d)' = Slots(d)
        BY <1>4, <3>3 DEF Slots, SetBucket
      <4>2. ~Holds(req'[p], d) /\ ~Holds(req[p], d)
        BY <1>1, <2>2, <3>3 DEF Holds
      <4>3. Cardinality(HeldBy(req', d)) = Cardinality(HeldBy(req, d))
        BY <2>2, <4>2, CountHeld
      <4> QED
        BY <3>1, <4>1, <4>3, HoldersOfReq
    <3> QED
      BY <3>2, <3>3
  <2> QED
    BY <2>1, <2>3 DEF IInv
<1> QED
  BY <1>2, <1>3, <1>4

\* The finally block gives back exactly the slot of its own request.
LEMMA ReleaseInv ==
    ASSUME IInv, NEW p \in Threads, Release(p)
    PROVE  IInv'
<1> DEFINE c == req[p].client
<1>1. req[p].pc = "release" /\ c \in Clients /\ req[p].key \in Keys
  BY DEF IInv, ReqOK, ClientKnown, Final, Release
<1>2. PICK next \in {"refused", "api", "admitted"} : Goto(p, next)
  BY DEF Release
<1>3. ReqOK' /\ ClientKnown'
  BY <1>1, <1>2, GotoMove DEF IInv, Phases
<1>4. /\ req'[p].pc = next
      /\ \A q \in Threads \ {p} : req'[q] = req[q]
  BY <1>1, <1>2, GotoMove DEF IInv, Phases
<1>5. inflight' = IF Slots(c) <= 1
                    THEN [d \in DOMAIN inflight \ {c} |-> inflight[d]]
                    ELSE [inflight EXCEPT ![c] = @ - 1]
  BY DEF Release
<1>6. SlotsMatch'
  <2> SUFFICES ASSUME NEW d \in Clients
               PROVE  Slots(d)' = Cardinality(Holding(d)') /\ Slots(d)' <= MaxInflight
    BY DEF SlotsMatch
  <2>1. Slots(d) = Cardinality(HeldBy(req, d)) /\ Slots(d) <= MaxInflight
        /\ Slots(d) \in Nat
    BY <1>4, CountHeld, HoldersOfReq DEF IInv, SlotsMatch
  <2>2. CASE d = c
    <3>1. Holds(req[p], d) /\ ~Holds(req'[p], d)
      BY <1>1, <1>4, <2>2 DEF Holds
    <3>2. Cardinality(HeldBy(req', d)) = Cardinality(HeldBy(req, d)) - 1
      BY <1>4, <3>1, CountHeld
    <3>3. Cardinality(HeldBy(req, d)) > 0
      BY <1>4, <3>1, CountHeld
    <3>4. Slots(d) > 0
      BY <2>1, <3>3
    <3>5. CASE Slots(d) <= 1
      <4>1. d \notin DOMAIN inflight'
        BY <1>5, <2>2, <3>5
      <4>2. Slots(d)' = 0 /\ Slots(d) = 1
        BY <2>1, <3>4, <3>5, <4>1 DEF Slots
      <4> QED
        BY <2>1, <3>2, <4>2, HoldersOfReq, AdmissionAssumption
    <3>6. CASE ~(Slots(d) <= 1)
      <4>1. d \in DOMAIN inflight /\ inflight[d] = Slots(d)
        BY <2>1, <3>6 DEF Slots
      <4>2. d \in DOMAIN inflight' /\ inflight'[d] = inflight[d] - 1
        BY <1>5, <2>2, <3>6, <4>1
      <4>3. Slots(d)' = Slots(d) - 1
        BY <4>1, <4>2 DEF Slots
      <4> QED
        BY <2>1, <3>2, <4>3, HoldersOfReq, AdmissionAssumption
    <3> QED
      BY <3>5, <3>6
  <2>3. CASE d # c
    <3>1. Slots(d)' = Slots(d)
      BY <1>5, <2>3 DEF Slots
    <3>2. ~Holds(req'[p], d) /\ ~Holds(req[p], d)
      BY <1>1, <1>4, <2>3 DEF Holds
    <3>3. Cardinality(HeldBy(req', d)) = Cardinality(HeldBy(req, d))
      BY <1>4, <3>2, CountHeld
    <3> QED
      BY <2>1, <3>1, <3>3, HoldersOfReq
  <2> QED
    BY <2>2, <2>3
<1> QED
  BY <1>3, <1>6 DEF IInv

\* The other steps of a thread move no claim to a slot.
LEMMA OtherStepInv ==
    ASSUME IInv, NEW p \in Threads, UNCHANGED inflight,
           \/ \E kind \in {"api", "exempt", "exchange"}, c \in Clients : Arrive(p, kind, c)
           \/ \E now \in Readings : AuthWindow(p, now) \/ ApiWindow(p, now)
           \/ \E s \in Subjects \cup {Anonymous} : Identify(p, s)
           \/ AuthFails(p)
           \/ Finish(p)
    PROVE  IInv'
<1>1. CASE \E kind \in {"api", "exempt", "exchange"}, c \in Clients : Arrive(p, kind, c)
  <2>1. PICK kind \in {"api", "exempt", "exchange"}, c \in Clients : Arrive(p, kind, c)
    BY <1>1
  <2> DEFINE pc == IF kind = "exchange" THEN "api" ELSE "auth"
             r == [pc |-> pc, kind |-> kind, client |-> c, key |-> c, outcome |-> "none"]
  <2>2. req' = [req EXCEPT ![p] = r]
    BY <2>1 DEF Arrive
  <2>3. req[p].pc = "idle"
    BY <2>1 DEF Arrive
  <2>4. ReqOK'
    BY <2>2 DEF IInv, ReqOK, Phases, Keys
  <2>5. ClientKnown'
    BY <2>2 DEF IInv, ReqOK, ClientKnown, Final, Keys
  <2>6. SlotsMatch'
    BY <2>2, <2>3, QuietStep DEF IInv, ReqOK, Holds
  <2> QED
    BY <2>4, <2>5, <2>6 DEF IInv
<1>2. CASE \E now \in Readings : AuthWindow(p, now) \/ ApiWindow(p, now)
  <2>1. PICK next \in {"acquire", "refused", "auth", "admitted"} : Goto(p, next)
    BY <1>2 DEF AuthWindow, ApiWindow
  <2>2. req[p].pc \in {"auth", "api"}
    BY <1>2 DEF AuthWindow, ApiWindow
  <2>3. req[p].client \in Clients /\ req[p].key \in Keys
    BY <2>2 DEF IInv, ClientKnown, Final
  <2>4. ReqOK' /\ ClientKnown'
    BY <2>1, <2>3, GotoMove DEF IInv, Phases
  <2>5. SlotsMatch'
    BY <2>1, <2>2, <2>3, GotoMove, QuietStep DEF IInv, Phases, Holds
  <2> QED
    BY <2>4, <2>5 DEF IInv
<1>3. CASE \E s \in Subjects \cup {Anonymous} : Identify(p, s)
  <2>1. PICK k : /\ k \in Keys
                 /\ req' = [req EXCEPT ![p] =
                      [pc |-> "release", kind |-> req[p].kind, client |-> req[p].client,
                       key |-> k, outcome |-> "identity"]]
    BY <1>3 DEF IInv, ReqOK, ClientKnown, Final, Identify, Keys
  <2>2. req[p].pc = "authenticate"
    BY <1>3 DEF Identify
  <2>3. ReqOK'
    BY <2>1 DEF IInv, ReqOK, Phases
  <2>4. ClientKnown'
    BY <2>1, <2>2 DEF IInv, ReqOK, ClientKnown, Final
  <2>5. SlotsMatch'
    BY <2>1, <2>2, QuietStep DEF IInv, ReqOK, Holds
  <2> QED
    BY <2>3, <2>4, <2>5 DEF IInv
<1>4. CASE AuthFails(p)
  <2>1. ReqOK' /\ ClientKnown'
    <3> DEFINE r == [req[p] EXCEPT !.pc = "release", !.outcome = "failure"]
    <3>1. req' = [req EXCEPT ![p] = r] /\ req[p].pc = "authenticate"
      BY <1>4 DEF IInv, ReqOK, AuthFails
    <3>2. req[p] \in [pc : Phases, kind : {"api", "exempt", "exchange"},
                      client : Clients \cup {None}, key : Keys \cup {None},
                      outcome : {"none", "identity", "failure"}]
      BY DEF IInv, ReqOK
    <3>3. req[p].client \in Clients /\ req[p].key \in Keys BY <3>1 DEF IInv, ClientKnown, Final
    <3>4. r \in [pc : Phases, kind : {"api", "exempt", "exchange"}, client : Clients \cup {None},
                 key : Keys \cup {None}, outcome : {"none", "identity", "failure"}]
      BY <3>2 DEF Phases
    <3>5. r.client \in Clients /\ r.key \in Keys BY <3>2, <3>3
    <3> HIDE DEF r
    <3>6. ReqOK' BY <3>1, <3>4 DEF IInv, ReqOK
    <3>7. ClientKnown' BY <3>1, <3>5 DEF IInv, ReqOK, ClientKnown
    <3> QED BY <3>6, <3>7
  <2>2. SlotsMatch'
    BY <1>4, QuietStep DEF IInv, ReqOK, AuthFails, Holds
  <2> QED
    BY <2>1, <2>2 DEF IInv
<1>5. CASE Finish(p)
  <2>1. ReqOK' /\ ClientKnown'
    BY <1>5 DEF IInv, ReqOK, ClientKnown, Final, Finish, Idle, Phases
  <2>2. SlotsMatch'
    BY <1>5, QuietStep DEF IInv, ReqOK, Finish, Final, Idle, Holds
  <2> QED
    BY <2>1, <2>2 DEF IInv
<1> QED
  BY <1>1, <1>2, <1>3, <1>4, <1>5

LEMMA StepInv == IInv /\ [Next]_vars => IInv'
<1> SUFFICES ASSUME IInv, [Next]_vars PROVE IInv'
  OBVIOUS
<1>1. CASE UNCHANGED <<req, inflight>>
  BY <1>1 DEF IInv, ReqOK, ClientKnown, Final, SlotsMatch, Slots, Holding
<1>2. ASSUME NEW p \in Threads, Acquire(p) PROVE IInv'
  BY <1>2, AcquireInv
<1>3. ASSUME NEW p \in Threads, Release(p) PROVE IInv'
  BY <1>3, ReleaseInv
<1>4. ASSUME NEW p \in Threads,
             \/ \E kind \in {"api", "exempt", "exchange"}, c \in Clients : Arrive(p, kind, c)
             \/ \E now \in Readings : AuthWindow(p, now) \/ ApiWindow(p, now)
             \/ \E s \in Subjects \cup {Anonymous} : Identify(p, s)
             \/ AuthFails(p)
             \/ Finish(p)
      PROVE  IInv'
  <2>1. UNCHANGED inflight
    BY <1>4 DEF Arrive, AuthWindow, ApiWindow, Identify, AuthFails, Finish
  <2> QED
    BY <1>4, <2>1, OtherStepInv
<1>5. CASE (\E now \in Readings : Cleanup(now)) \/ Tick \/ UNCHANGED vars
  BY <1>1, <1>5 DEF Cleanup, Tick, vars
<1> QED
  BY <1>2, <1>3, <1>4, <1>5 DEF Next

(* In every behaviour of the server, for every number of threads and       *)
(* clients and every limit, the in-flight counter of a client is the       *)
(* number of its requests at the authority, and within its bound.          *)
THEOREM NoSlotLeaks == Spec => []SlotsMatch
<1>1. IInv => SlotsMatch
  BY DEF IInv
<1> QED
  BY InitInv, StepInv, <1>1, PTL DEF Spec
----------------------------------------------------------------------------
(* The windows                                                              *)

LEMMA Numbers ==
    /\ \A w \in Windows : Limit(w) \in Nat \ {0}
    /\ MaxClients \in Nat \ {0} /\ Window \in Nat \ {0} /\ Stall \in Nat /\ Stall < Window
    /\ MaxTime \in Nat
BY AdmissionAssumption DEF Windows, Limit

\* The bucket of a key, empty when the table has none.
Stamps(w, k) == IF k \in DOMAIN store[w] THEN store[w][k] ELSE <<>>

\* The times that are less than n ago.
Recent(n) == {t \in Nat : t + n > clock}

StoreOK ==
    /\ clock \in 0 .. MaxTime /\ DOMAIN store = Windows
    /\ \A w \in Windows :
          /\ DOMAIN store[w] \in SUBSET Keys
          /\ Cardinality(DOMAIN store[w]) <= MaxClients
          /\ \A k \in DOMAIN store[w] :
                store[w][k] \in Seq(0 .. clock) /\ Len(store[w][k]) <= Limit(w)

LogOK == log \in [Windows -> [Keys -> Seq(0 .. clock)]]

\* The buckets hold every admission of the last Window ...
Complete == \A w \in Windows, k \in Keys : \A A \in SUBSET Recent(Window) :
                Count(Stamps(w, k), A) = Count(log[w][k], A)

\* ... and of the time before it nothing but admissions.
Backed == \A w \in Windows, k \in Keys : \A A \in SUBSET Recent(Window + Stall) :
                Count(Stamps(w, k), A) <= Count(log[w][k], A)

WInv == StoreOK /\ LogOK /\ Complete /\ Backed /\ SlidingWindow

\* thin is queue without some of the stamps that no window of now holds.
Thin(thin, queue) ==
    /\ thin \in Seq(0 .. clock) /\ Len(thin) <= Len(queue)
    /\ \A A \in SUBSET Nat : Count(thin, A) <= Count(queue, A)
    /\ \A A \in SUBSET Recent(Window) : Count(thin, A) = Count(queue, A)

LEMMA Thins ==
    ASSUME clock \in Nat, NEW now \in Readings, NEW queue \in Seq(0 .. clock)
    PROVE  /\ Thin(queue, queue)
           /\ Thin(Only(queue, {t \in 0 .. clock : Active(t, now)}), queue)
           /\ ~HasActive(queue, now) => Thin(<<>>, queue)
<1>1. now \in Nat /\ now <= clock BY DEF Readings
<1>2. \A A : Count(queue, A) \in Nat BY CountFacts
<1>3. Thin(queue, queue) BY <1>2 DEF Thin
<1> DEFINE S == {t \in 0 .. clock : Active(t, now)}
           only == Only(queue, S)
<1>4. Thin(only, queue)
  <2>1. only \in Seq(0 .. clock) /\ Len(only) <= Len(queue) BY OnlyFacts
  <2>2. \A A : Count(only, A) = Count(queue, S \cap A) BY CountOnly
  <2>3. \A A : Count(queue, S \cap A) <= Count(queue, A) BY CountMore
  <2>4. ASSUME NEW A \in SUBSET Recent(Window) PROVE Count(queue, S \cap A) = Count(queue, A)
    <3>1. \A i \in DOMAIN queue : queue[i] \in 0 .. clock OBVIOUS
    <3>2. \A t \in A : t \in 0 .. clock => t \in S BY <1>1, Numbers DEF Recent, Active
    <3>3. \A i \in DOMAIN queue : queue[i] \in S \cap A <=> queue[i] \in A BY <3>1, <3>2
    <3> HIDE DEF S
    <3> QED BY <3>3, CountSame
  <2> HIDE DEF S, only
  <2> QED BY <2>1, <2>2, <2>3, <2>4 DEF Thin
<1>5. ASSUME ~HasActive(queue, now) PROVE Thin(<<>>, queue)
  <2>1. <<>> \in Seq(0 .. clock) /\ Len(<<>>) = 0 /\ Len(queue) \in Nat OBVIOUS
  <2>2. ASSUME NEW A PROVE Count(<<>>, A) = 0
    <3>1. Count(<<>>, A) \in Nat /\ Count(<<>>, A) <= Len(<<>>) BY <2>1, CountFacts
    <3> QED BY <2>1, <3>1
  <2>3. ASSUME NEW A \in SUBSET Recent(Window) PROVE Count(queue, A) = 0
    <3>1. \A i \in DOMAIN queue : queue[i] \in Nat BY <1>1
    <3>2. \A i \in DOMAIN queue : queue[i] \notin A
      BY <1>1, <1>5, <3>1, Numbers DEF HasActive, Active, Recent
    <3> QED BY <1>2, <3>2, CountFacts
  <2> QED BY <1>2, <2>1, <2>2, <2>3 DEF Thin
<1> QED BY <1>3, <1>4, <1>5 DEF S, only

\* A bucket of which expired stamps are forgotten and to which one is added
\* when fewer than the limit are left.
Moved(w, k) ==
    \E thin : /\ Thin(thin, Stamps(w, k))
              /\ \/ Stamps(w, k)' = thin /\ log'[w][k] = log[w][k]
                 \/ \E now \in Readings :
                       /\ Stamps(w, k)' = Append(thin, now) /\ Len(thin) < Limit(w)
                       /\ log'[w][k] = Append(log[w][k], now)

LEMMA MovedInv ==
    ASSUME WInv, UNCHANGED clock, StoreOK', LogOK', \A w \in Windows, k \in Keys : Moved(w, k)
    PROVE  WInv'
<1>0. clock \in Nat BY DEF WInv, StoreOK
<1> SUFFICES ASSUME NEW w \in Windows, NEW k \in Keys
             PROVE  /\ \A A \in SUBSET Recent(Window) : Count(Stamps(w, k)', A) = Count(log'[w][k], A)
                    /\ \A A \in SUBSET Recent(Window + Stall) :
                          Count(Stamps(w, k)', A) <= Count(log'[w][k], A)
                    /\ \A t \in 0 .. clock : Count(log'[w][k], t .. t + (Window - Stall) - 1) <= Limit(w)
  <2>1. Recent(Window)' = Recent(Window) /\ Recent(Window + Stall)' = Recent(Window + Stall)
    BY DEF Recent
  <2>2. Complete' BY <2>1 DEF Complete
  <2>3. Backed' BY <2>1 DEF Backed
  <2>4. SlidingWindow' BY DEF SlidingWindow, Within, Count, At
  <2> QED BY <2>2, <2>3, <2>4 DEF WInv
<1> DEFINE past == log[w][k]
           queue == Stamps(w, k)
<1>1. /\ past \in Seq(0 .. clock) /\ queue \in Seq(0 .. clock)
      /\ \A A \in SUBSET Recent(Window) : Count(queue, A) = Count(past, A)
      /\ \A A \in SUBSET Recent(Window + Stall) : Count(queue, A) <= Count(past, A)
      /\ \A t \in 0 .. clock : Count(past, t .. t + (Window - Stall) - 1) <= Limit(w)
  <2>1. past \in Seq(0 .. clock) BY DEF WInv, LogOK
  <2>2. queue \in Seq(0 .. clock)
    <3>1. <<>> \in Seq(0 .. clock) OBVIOUS
    <3> QED BY <3>1 DEF WInv, StoreOK, Stamps
  <2>3. \A t \in 0 .. clock : Count(past, t .. t + (Window - Stall) - 1) <= Limit(w)
    BY DEF WInv, SlidingWindow, Within, Count, At
  <2> QED BY <2>1, <2>2, <2>3 DEF WInv, Complete, Backed
<1>2. PICK thin : /\ Thin(thin, queue)
                  /\ \/ Stamps(w, k)' = thin /\ log'[w][k] = past
                     \/ \E now \in Readings :
                           /\ Stamps(w, k)' = Append(thin, now) /\ Len(thin) < Limit(w)
                           /\ log'[w][k] = Append(past, now)
  BY DEF Moved
<1> HIDE DEF past, queue
<1>3. /\ thin \in Seq(0 .. clock)
      /\ \A A \in SUBSET Recent(Window) : Count(thin, A) = Count(past, A)
      /\ \A A \in SUBSET Recent(Window + Stall) : Count(thin, A) <= Count(past, A)
  <2>1. Recent(Window + Stall) \in SUBSET Nat BY DEF Recent
  <2>2. \A A : Count(thin, A) \in Nat /\ Count(queue, A) \in Nat /\ Count(past, A) \in Nat
    BY <1>1, <1>2, CountFacts DEF Thin
  <2>3. \A A \in SUBSET Recent(Window) : Count(thin, A) = Count(past, A) BY <1>1, <1>2 DEF Thin
  <2>4. ASSUME NEW A \in SUBSET Recent(Window + Stall) PROVE Count(thin, A) <= Count(past, A)
    <3>1. Count(thin, A) <= Count(queue, A) BY <1>2, <2>1 DEF Thin
    <3>2. Count(queue, A) <= Count(past, A) BY <1>1
    <3> QED BY <2>2, <3>1, <3>2
  <2> QED BY <1>2, <2>3, <2>4 DEF Thin
<1>4. CASE Stamps(w, k)' = thin /\ log'[w][k] = past
  BY <1>1, <1>3, <1>4
<1>5. ASSUME NEW now \in Readings, Stamps(w, k)' = Append(thin, now), Len(thin) < Limit(w),
             log'[w][k] = Append(past, now)
      PROVE  /\ \A A \in SUBSET Recent(Window) : Count(Stamps(w, k)', A) = Count(log'[w][k], A)
             /\ \A A \in SUBSET Recent(Window + Stall) :
                   Count(Stamps(w, k)', A) <= Count(log'[w][k], A)
             /\ \A t \in 0 .. clock : Count(log'[w][k], t .. t + (Window - Stall) - 1) <= Limit(w)
  <2>0. now \in 0 .. clock /\ clock - now <= Stall BY DEF Readings
  <2>1. ASSUME NEW A
        PROVE  /\ now \in A => /\ Count(Append(thin, now), A) = Count(thin, A) + 1
                               /\ Count(Append(past, now), A) = Count(past, A) + 1
               /\ now \notin A => /\ Count(Append(thin, now), A) = Count(thin, A)
                                  /\ Count(Append(past, now), A) = Count(past, A)
    <3>1. /\ now \in A => Count(Append(thin, now), A) = Count(thin, A) + 1
          /\ now \notin A => Count(Append(thin, now), A) = Count(thin, A)
      <4>1. thin \in Seq(0 .. clock) /\ now \in 0 .. clock BY <1>3, <2>0
      <4> QED BY <4>1, CountAppend
    <3>2. /\ now \in A => Count(Append(past, now), A) = Count(past, A) + 1
          /\ now \notin A => Count(Append(past, now), A) = Count(past, A)
      <4>1. past \in Seq(0 .. clock) /\ now \in 0 .. clock BY <1>1, <2>0
      <4> QED BY <4>1, CountAppend
    <3> QED BY <3>1, <3>2
  <2>2. \A A : Count(thin, A) \in Nat /\ Count(past, A) \in Nat /\ Count(thin, A) <= Len(thin)
    BY <1>1, <1>3, CountFacts
  <2>3. \A A \in SUBSET Recent(Window) : Count(Append(thin, now), A) = Count(Append(past, now), A)
    BY <1>3, <2>1
  <2>4. \A A \in SUBSET Recent(Window + Stall) :
           Count(Append(thin, now), A) <= Count(Append(past, now), A)
    BY <1>3, <2>1, <2>2
  <2>5. ASSUME NEW t \in 0 .. clock
        PROVE  Count(Append(past, now), t .. t + (Window - Stall) - 1) <= Limit(w)
    <3> DEFINE span == t .. t + (Window - Stall) - 1
    <3>1. CASE now \notin span BY <1>1, <2>1, <3>1
    <3>2. CASE now \in span
      <4>1. span \in SUBSET Recent(Window)
        BY <1>0, <2>0, <3>2, Numbers DEF Recent
      <4> HIDE DEF span
      <4>2. Count(past, span) <= Len(thin) BY <1>3, <2>2, <4>1
      <4>3. Len(thin) \in Nat /\ Limit(w) \in Nat BY <1>3, Numbers
      <4>4. Count(Append(past, now), span) <= Limit(w)
        BY <1>5, <2>1, <2>2, <3>2, <4>2, <4>3
      <4> QED BY <4>4 DEF span
    <3> QED BY <3>1, <3>2
  <2> QED BY <1>5, <2>3, <2>4, <2>5
<1> QED BY <1>2, <1>4, <1>5

LEMMA KeysFinite == ASSUME NEW S \in SUBSET Keys PROVE IsFiniteSet(S) /\ Cardinality(S) \in Nat
<1>1. IsFiniteSet({Anonymous}) BY FS_Singleton
<1>2. IsFiniteSet(Clients \X {Anonymous}) BY <1>1, AdmissionAssumption, FS_Product
<1>3. IsFiniteSet(Clients \cup Subjects) BY AdmissionAssumption, FS_Union
<1>4. IsFiniteSet(Keys) BY <1>2, <1>3, FS_Union DEF Keys
<1> QED BY <1>4, FS_Subset, FS_CardinalityType

\* What the pressure leaves of a table.
LEMMA RelievedFacts ==
    ASSUME WInv, NEW w \in Windows, NEW key \in Keys, NEW now \in Readings
    PROVE  LET table == Relieved(store[w], key, now) IN
           /\ DOMAIN table \in SUBSET DOMAIN store[w]
           /\ Cardinality(DOMAIN table) \in Nat /\ Cardinality(DOMAIN table) <= MaxClients
           /\ \A k \in DOMAIN table : table[k] = store[w][k]
           /\ \A k \in DOMAIN store[w] \ DOMAIN table : ~HasActive(store[w][k], now)
           /\ key \in DOMAIN store[w] => key \in DOMAIN table
           /\ ~RoomFor(table, key) => \A k \in DOMAIN table : HasActive(store[w][k], now)
<1> DEFINE table == Relieved(store[w], key, now)
<1>1. DOMAIN store[w] \in SUBSET Keys /\ Cardinality(DOMAIN store[w]) <= MaxClients
  BY DEF WInv, StoreOK
<1>2. /\ DOMAIN table \in SUBSET DOMAIN store[w]
      /\ \A k \in DOMAIN table : table[k] = store[w][k]
      /\ \A k \in DOMAIN store[w] \ DOMAIN table : ~HasActive(store[w][k], now)
      /\ key \in DOMAIN store[w] => key \in DOMAIN table
  BY DEF Relieved, Reclaim
<1>3. IsFiniteSet(DOMAIN store[w]) /\ Cardinality(DOMAIN store[w]) \in Nat BY <1>1, KeysFinite
<1>4. Cardinality(DOMAIN table) \in Nat /\ Cardinality(DOMAIN table) <= Cardinality(DOMAIN store[w])
  BY <1>2, <1>3, FS_Subset, FS_CardinalityType
<1>5. ASSUME ~RoomFor(table, key) PROVE \A k \in DOMAIN table : HasActive(store[w][k], now)
  <2>1. key \notin DOMAIN store[w] /\ ~(Cardinality(DOMAIN table) < MaxClients) BY <1>2, <1>5 DEF RoomFor
  <2>2. Cardinality(DOMAIN store[w]) >= MaxClients BY <1>3, <1>4, <2>1, Numbers
  <2> QED BY <2>1, <2>2 DEF Relieved, Reclaim
<1>6. Cardinality(DOMAIN table) <= MaxClients BY <1>1, <1>3, <1>4, Numbers
<1> HIDE DEF table
<1>7. /\ DOMAIN table \in SUBSET DOMAIN store[w]
      /\ Cardinality(DOMAIN table) \in Nat /\ Cardinality(DOMAIN table) <= MaxClients
      /\ \A k \in DOMAIN table : table[k] = store[w][k]
      /\ \A k \in DOMAIN store[w] \ DOMAIN table : ~HasActive(store[w][k], now)
      /\ key \in DOMAIN store[w] => key \in DOMAIN table
      /\ ~RoomFor(table, key) => \A k \in DOMAIN table : HasActive(store[w][k], now)
  BY <1>2, <1>4, <1>5, <1>6
<1> QED BY <1>7 DEF table

\* The lock section of a window.
LEMMA CheckWindowInv ==
    ASSUME WInv, NEW w \in Windows, NEW key \in Keys, NEW now \in Readings, NEW admitted \in BOOLEAN,
           CheckWindow(w, key, now, admitted), UNCHANGED clock
    PROVE  WInv'
<1> DEFINE table == Relieved(store[w], key, now)
           stamps == Bucket(table, key, now)
           new == IF ~RoomFor(table, key) THEN table
                  ELSE SetBucket(table, key, IF admitted THEN Append(stamps, now) ELSE stamps)
<1>0. /\ clock \in 0 .. MaxTime /\ clock \in Nat /\ now \in 0 .. clock /\ DOMAIN store = Windows
      /\ DOMAIN store[w] \in SUBSET Keys
      /\ log \in [Windows -> [Keys -> Seq(0 .. clock)]]
  BY Numbers DEF WInv, StoreOK, LogOK, Readings
<1>1. /\ admitted = (RoomFor(table, key) /\ Len(stamps) < Limit(w))
      /\ store' = [store EXCEPT ![w] = new]
      /\ log' = IF admitted THEN [log EXCEPT ![w][key] = Append(log[w][key], now)] ELSE log
  BY <1>0 DEF CheckWindow
<1>2. /\ DOMAIN table \in SUBSET DOMAIN store[w]
      /\ Cardinality(DOMAIN table) \in Nat /\ Cardinality(DOMAIN table) <= MaxClients
      /\ \A k \in DOMAIN table : table[k] = store[w][k]
      /\ \A k \in DOMAIN store[w] \ DOMAIN table : ~HasActive(store[w][k], now)
      /\ key \in DOMAIN store[w] => key \in DOMAIN table
  BY RelievedFacts
<1>3. \A v \in Windows, k \in Keys :
         Stamps(v, k) \in Seq(0 .. clock) /\ Len(Stamps(v, k)) <= Limit(v) /\ Thin(Stamps(v, k), Stamps(v, k))
  <2>1. <<>> \in Seq(0 .. clock) /\ Len(<<>>) = 0 OBVIOUS
  <2>2. \A v \in Windows, k \in Keys :
           Stamps(v, k) \in Seq(0 .. clock) /\ Len(Stamps(v, k)) <= Limit(v)
    <3> SUFFICES ASSUME NEW v \in Windows, NEW k \in Keys
                 PROVE  Stamps(v, k) \in Seq(0 .. clock) /\ Len(Stamps(v, k)) <= Limit(v)
      OBVIOUS
    <3>1. CASE k \in DOMAIN store[v] BY <3>1 DEF WInv, StoreOK, Stamps
    <3>2. CASE k \notin DOMAIN store[v]
      <4>1. Stamps(v, k) = <<>> /\ Limit(v) \in Nat BY <3>2, Numbers DEF Stamps
      <4> QED BY <2>1, <4>1
    <3> QED BY <3>1, <3>2
  <2> QED BY <1>0, <2>2, Thins
<1> HIDE DEF table
<1>4. Thin(stamps, Stamps(w, key))
  <2>1. CASE key \in DOMAIN table
    <3>1. stamps = Only(Stamps(w, key), {t \in 0 .. clock : Active(t, now)})
      BY <1>2, <2>1 DEF Bucket, Stamps
    <3> QED BY <1>0, <1>3, <3>1, Thins
  <2>2. CASE key \notin DOMAIN table
    <3>1. stamps = Stamps(w, key) BY <1>2, <2>2 DEF Bucket, Stamps
    <3> QED BY <1>3, <3>1
  <2> QED BY <2>1, <2>2
<1> HIDE DEF stamps
<1>5. \A k \in Keys : Thin(IF k \in DOMAIN table THEN table[k] ELSE <<>>, Stamps(w, k))
  <2> SUFFICES ASSUME NEW k \in Keys PROVE Thin(IF k \in DOMAIN table THEN table[k] ELSE <<>>, Stamps(w, k))
    OBVIOUS
  <2>1. CASE k \in DOMAIN table \/ k \notin DOMAIN store[w]
    <3>1. (IF k \in DOMAIN table THEN table[k] ELSE <<>>) = Stamps(w, k) BY <1>2, <2>1 DEF Stamps
    <3> QED BY <1>3, <3>1
  <2>2. CASE k \notin DOMAIN table /\ k \in DOMAIN store[w]
    <3>1. Stamps(w, k) = store[w][k] /\ ~HasActive(store[w][k], now) BY <1>2, <2>2 DEF Stamps
    <3>2. Thin(<<>>, Stamps(w, k)) BY <1>0, <1>3, <3>1, Thins
    <3> QED BY <2>2, <3>2
  <2> QED BY <2>1, <2>2
\* The table after the section, bucket by bucket.
<1>6. /\ DOMAIN new \in SUBSET Keys /\ Cardinality(DOMAIN new) <= MaxClients
      /\ \A k \in DOMAIN new : k # key => k \in DOMAIN table /\ new[k] = table[k]
      /\ key \in DOMAIN new => new[key] = IF admitted THEN Append(stamps, now) ELSE stamps
      /\ key \notin DOMAIN new => ~admitted
      /\ \A k \in DOMAIN table : k \in DOMAIN new
  <2>1. CASE ~RoomFor(table, key)
    <3>1. new = table /\ key \notin DOMAIN table /\ ~admitted BY <1>1, <2>1 DEF RoomFor
    <3> QED BY <1>0, <1>2, <3>1
  <2>2. CASE RoomFor(table, key)
    <3>1. /\ DOMAIN new = DOMAIN table \cup {key}
          /\ new[key] = IF admitted THEN Append(stamps, now) ELSE stamps
          /\ \A k \in DOMAIN table : k # key => new[k] = table[k]
      BY <2>2 DEF SetBucket
    <3>2. Cardinality(DOMAIN table \cup {key}) <= MaxClients
      <4>1. CASE key \in DOMAIN table
        <5>1. DOMAIN table \cup {key} = DOMAIN table BY <4>1
        <5> QED BY <1>2, <5>1
      <4>2. CASE key \notin DOMAIN table
        <5>1. Cardinality(DOMAIN table) < MaxClients BY <2>2, <4>2 DEF RoomFor
        <5>2. DOMAIN table \in SUBSET Keys BY <1>0, <1>2
        <5>3. Cardinality(DOMAIN table \cup {key}) = Cardinality(DOMAIN table) + 1
          BY <4>2, <5>2, KeysFinite, FS_AddElement
        <5> QED BY <1>2, <5>1, <5>3, Numbers
      <4> QED BY <4>1, <4>2
    <3> HIDE DEF new
    <3>3. DOMAIN new \in SUBSET Keys BY <1>0, <1>2, <3>1
    <3> QED BY <3>1, <3>2, <3>3
  <2> QED BY <2>1, <2>2
<1> HIDE DEF new
<1>7. LogOK'
  <2>1. log[w][key] \in Seq(0 .. clock) BY <1>0
  <2>2. Append(log[w][key], now) \in Seq(0 .. clock) BY <1>0, <2>1
  <2> QED BY <1>0, <1>1, <2>2 DEF LogOK
<1>8. StoreOK'
  <2>1. store' = [store EXCEPT ![w] = new] /\ DOMAIN store' = Windows /\ store'[w] = new
        /\ \A v \in Windows : v # w => store'[v] = store[v]
    BY <1>0, <1>1
  <2>2. ASSUME NEW k \in DOMAIN new PROVE new[k] \in Seq(0 .. clock) /\ Len(new[k]) <= Limit(w)
    <3>1. CASE k = key
      <4>1. /\ stamps \in Seq(0 .. clock) /\ Len(stamps) \in Nat /\ Len(stamps) <= Len(Stamps(w, key))
            /\ Len(Stamps(w, key)) \in Nat /\ Len(Stamps(w, key)) <= Limit(w) /\ Limit(w) \in Nat
        BY <1>3, <1>4, Numbers DEF Thin
      <4>2. Append(stamps, now) \in Seq(0 .. clock) /\ Len(Append(stamps, now)) = Len(stamps) + 1
        BY <1>0, <4>1
      <4>3. new[k] = IF admitted THEN Append(stamps, now) ELSE stamps BY <1>6, <3>1
      <4>4. admitted => Len(stamps) < Limit(w) BY <1>1
      <4>5. CASE admitted BY <4>1, <4>2, <4>3, <4>4, <4>5
      <4>6. CASE ~admitted BY <4>1, <4>3, <4>6
      <4> QED BY <4>5, <4>6
    <3>2. CASE k # key
      <4>1. k \in DOMAIN store[w] /\ new[k] = store[w][k] BY <1>2, <1>6, <3>2
      <4> QED BY <4>1 DEF WInv, StoreOK
    <3> QED BY <3>1, <3>2
  <2> QED BY <1>0, <1>6, <2>1, <2>2 DEF WInv, StoreOK
<1>9. ASSUME NEW v \in Windows, NEW k \in Keys PROVE Moved(v, k)
  <2>1. store'[w] = new /\ (v # w => store'[v] = store[v]) BY <1>0, <1>1
  <2>2. CASE v # w
    <3>1. Stamps(v, k)' = Stamps(v, k) BY <2>1, <2>2 DEF Stamps
    <3>2. log'[v][k] = log[v][k] BY <1>0, <1>1, <2>2
    <3> QED BY <1>3, <3>1, <3>2 DEF Moved
  <2>3. CASE v = w /\ k # key
    <3>1. Stamps(v, k)' = IF k \in DOMAIN table THEN table[k] ELSE <<>>
      BY <1>6, <2>1, <2>3 DEF Stamps
    <3>2. log'[v][k] = log[v][k] BY <1>0, <1>1, <2>3
    <3> QED BY <1>5, <2>3, <3>1, <3>2 DEF Moved
  <2>4. CASE v = w /\ k = key /\ admitted
    <3>1. Stamps(v, k)' = Append(stamps, now) BY <1>6, <2>1, <2>4 DEF Stamps
    <3>2. log'[v][k] = Append(log[v][k], now) BY <1>0, <1>1, <2>4
    <3> QED BY <1>1, <1>4, <2>4, <3>1, <3>2 DEF Moved
  <2>5. CASE v = w /\ k = key /\ ~admitted
    <3>1. log'[v][k] = log[v][k] BY <1>1, <2>5
    <3>2. CASE key \in DOMAIN new
      <4>1. Stamps(v, k)' = stamps BY <1>6, <2>1, <2>5, <3>2 DEF Stamps
      <4> QED BY <1>4, <2>5, <3>1, <4>1 DEF Moved
    <3>3. CASE key \notin DOMAIN new
      <4>1. Stamps(v, k)' = <<>> /\ key \notin DOMAIN table BY <1>6, <2>1, <2>5, <3>3 DEF Stamps
      <4>2. Thin(<<>>, Stamps(v, k)) BY <1>5, <2>5, <4>1
      <4> QED BY <3>1, <4>1, <4>2 DEF Moved
    <3> QED BY <3>2, <3>3
  <2> QED BY <2>2, <2>3, <2>4, <2>5
<1> QED BY <1>7, <1>8, <1>9, MovedInv

LEMMA CleanupInv == ASSUME WInv, NEW now \in Readings, Cleanup(now) PROVE WInv'
<1> DEFINE table(w) == [k \in DOMAIN Reclaim(store[w], now) |-> Bucket(store[w], k, now)]
<1>0. clock \in Nat /\ UNCHANGED <<clock, log>> BY DEF WInv, StoreOK, Cleanup
<1>1. \A w \in Windows : store'[w] = table(w) BY DEF Cleanup
<1>2. ASSUME NEW w \in Windows, NEW k \in DOMAIN store[w]
      PROVE  /\ k \in Keys /\ Stamps(w, k) = store[w][k] /\ store[w][k] \in Seq(0 .. clock)
             /\ Len(store[w][k]) <= Limit(w)
             /\ k \in DOMAIN table(w) => /\ table(w)[k] = Bucket(store[w], k, now)
                                         /\ Thin(Bucket(store[w], k, now), Stamps(w, k))
             /\ k \notin DOMAIN table(w) => Thin(<<>>, Stamps(w, k))
  <2>1. k \in Keys /\ Stamps(w, k) = store[w][k] /\ store[w][k] \in Seq(0 .. clock) /\ Len(store[w][k]) <= Limit(w)
    BY DEF WInv, StoreOK, Stamps
  <2>2. Bucket(store[w], k, now) = Only(Stamps(w, k), {t \in 0 .. clock : Active(t, now)})
    BY <2>1 DEF Bucket
  <2>3. k \notin DOMAIN table(w) => ~HasActive(Stamps(w, k), now) BY <2>1 DEF Reclaim
  <2> QED BY <1>0, <2>1, <2>2, <2>3, Thins
<1>3. \A w \in Windows : DOMAIN table(w) \in SUBSET DOMAIN store[w] BY DEF Reclaim
<1> HIDE DEF table
<1>4. LogOK' BY <1>0 DEF WInv, LogOK
<1>5. StoreOK'
  <2>1. clock' \in 0 .. MaxTime /\ DOMAIN store' = Windows BY <1>0 DEF WInv, StoreOK, Cleanup
  <2>2. ASSUME NEW w \in Windows
        PROVE  /\ DOMAIN table(w) \in SUBSET Keys /\ Cardinality(DOMAIN table(w)) <= MaxClients
               /\ \A k \in DOMAIN table(w) : table(w)[k] \in Seq(0 .. clock) /\ Len(table(w)[k]) <= Limit(w)
    <3>1. DOMAIN store[w] \in SUBSET Keys /\ Cardinality(DOMAIN store[w]) <= MaxClients
      BY DEF WInv, StoreOK
    <3>2. /\ IsFiniteSet(DOMAIN store[w]) /\ Cardinality(DOMAIN store[w]) \in Nat
          /\ Cardinality(DOMAIN table(w)) \in Nat
          /\ Cardinality(DOMAIN table(w)) <= Cardinality(DOMAIN store[w])
      BY <1>3, <3>1, KeysFinite, FS_Subset, FS_CardinalityType
    <3>3. ASSUME NEW k \in DOMAIN table(w)
          PROVE  table(w)[k] \in Seq(0 .. clock) /\ Len(table(w)[k]) <= Limit(w)
      <4>1. k \in DOMAIN store[w] BY <1>3
      <4>2. /\ table(w)[k] \in Seq(0 .. clock) /\ Len(table(w)[k]) <= Len(store[w][k])
            /\ store[w][k] \in Seq(0 .. clock) /\ Len(store[w][k]) <= Limit(w)
        BY <1>2, <4>1 DEF Thin
      <4> QED BY <4>2, Numbers
    <3>4. DOMAIN table(w) \in SUBSET Keys BY <1>3, <3>1
    <3>5. Cardinality(DOMAIN table(w)) <= MaxClients BY <3>1, <3>2, Numbers
    <3> QED BY <3>3, <3>4, <3>5
  <2> QED BY <1>0, <1>1, <2>1, <2>2 DEF StoreOK
<1>6. ASSUME NEW w \in Windows, NEW k \in Keys PROVE Moved(w, k)
  <2>0. store'[w] = table(w) /\ log'[w][k] = log[w][k] BY <1>0, <1>1
  <2>1. CASE k \in DOMAIN table(w)
    <3>1. k \in DOMAIN store[w] BY <1>3, <2>1
    <3>2. Stamps(w, k)' = Bucket(store[w], k, now) BY <1>2, <2>0, <2>1, <3>1 DEF Stamps
    <3> QED BY <1>2, <2>0, <2>1, <3>1, <3>2 DEF Moved
  <2>2. CASE k \notin DOMAIN table(w)
    <3>1. Stamps(w, k)' = <<>> BY <2>0, <2>2 DEF Stamps
    <3>2. Thin(<<>>, Stamps(w, k))
      <4>1. CASE k \in DOMAIN store[w] BY <1>2, <2>2, <4>1
      <4>2. CASE k \notin DOMAIN store[w]
        <5>1. Stamps(w, k) = <<>> /\ <<>> \in Seq(0 .. clock) BY <4>2 DEF Stamps
        <5> QED BY <1>0, <5>1, Thins
      <4> QED BY <4>1, <4>2
    <3> QED BY <2>0, <3>1, <3>2 DEF Moved
  <2> QED BY <2>1, <2>2
<1> QED BY <1>0, <1>4, <1>5, <1>6, MovedInv

\* Time makes fewer admissions recent, and the history forgets none of them.
LEMMA TickInv == ASSUME WInv, Tick PROVE WInv'
<1>0. /\ clock \in Nat /\ clock' = clock + 1 /\ clock' \in 0 .. MaxTime /\ UNCHANGED store
      /\ log \in [Windows -> [Keys -> Seq(0 .. clock)]]
  BY Numbers DEF WInv, StoreOK, LogOK, Tick
<1> DEFINE S == {t \in 0 .. clock : t + Window + Stall > clock'}
<1>1. \A w \in Windows, k \in Keys : log'[w][k] = Only(log[w][k], S) BY DEF Tick
<1>2. \A q \in Seq(0 .. clock) : q \in Seq(0 .. clock')
  <2>1. 0 .. clock \subseteq 0 .. clock' BY <1>0
  <2> QED BY <2>1, Members
<1>3. \A w \in Windows, k \in Keys : log[w][k] \in Seq(0 .. clock) BY <1>0
<1> HIDE DEF S
<1>4. \A w \in Windows, k \in Keys : log'[w][k] \in Seq(0 .. clock)
  BY <1>1, <1>3, OnlyFacts
<1>5. LogOK'
  <2>1. log' = [w \in Windows |-> [k \in Keys |-> Only(log[w][k], S)]] BY DEF Tick, S
  <2>2. \A w \in Windows, k \in Keys : Only(log[w][k], S) \in Seq(0 .. clock') BY <1>1, <1>2, <1>4
  <2> QED BY <2>1, <2>2 DEF LogOK
<1>6. StoreOK' BY <1>0, <1>2 DEF WInv, StoreOK
<1>7. \A w \in Windows, k \in Keys : \A A : Count(log'[w][k], A) = Count(log[w][k], S \cap A)
  BY <1>1, <1>3, CountOnly
<1>8. ASSUME NEW w \in Windows, NEW k \in Keys, NEW A \in SUBSET (Recent(Window + Stall)')
      PROVE  Count(log'[w][k], A) = Count(log[w][k], A)
  <2>1. \A t \in A : t \in 0 .. clock => t \in S BY <1>0, Numbers DEF Recent, S
  <2>2. \A i \in DOMAIN log[w][k] : log[w][k][i] \in 0 .. clock BY <1>3, Members
  <2>3. \A i \in DOMAIN log[w][k] : log[w][k][i] \in S \cap A <=> log[w][k][i] \in A BY <2>1, <2>2
  <2>4. Count(log[w][k], S \cap A) = Count(log[w][k], A) BY <1>3, <2>3, CountSame
  <2> QED BY <1>7, <2>4
<1>9. /\ Recent(Window)' \subseteq Recent(Window) /\ Recent(Window)' \subseteq Recent(Window + Stall)'
      /\ Recent(Window + Stall)' \subseteq Recent(Window + Stall)
  BY <1>0, Numbers DEF Recent
<1>10. \A w \in Windows, k \in Keys : Stamps(w, k)' = Stamps(w, k) BY <1>0 DEF Stamps
<1>11. Complete'
  <2> SUFFICES ASSUME NEW w \in Windows, NEW k \in Keys, NEW A \in SUBSET (Recent(Window)')
               PROVE  Count(Stamps(w, k)', A) = Count(log'[w][k], A)
    BY DEF Complete
  <2>1. Count(log'[w][k], A) = Count(log[w][k], A) BY <1>8, <1>9
  <2>2. Count(Stamps(w, k), A) = Count(log[w][k], A) BY <1>9 DEF WInv, Complete
  <2> QED BY <1>10, <2>1, <2>2
<1>12. Backed'
  <2> SUFFICES ASSUME NEW w \in Windows, NEW k \in Keys, NEW A \in SUBSET (Recent(Window + Stall)')
               PROVE  Count(Stamps(w, k)', A) <= Count(log'[w][k], A)
    BY DEF Backed
  <2>1. Count(Stamps(w, k), A) <= Count(log[w][k], A) BY <1>9 DEF WInv, Backed
  <2> QED BY <1>8, <1>10, <2>1
<1>13. SlidingWindow'
  <2> SUFFICES ASSUME NEW w \in Windows, NEW k \in Keys, NEW t \in 0 .. clock'
               PROVE  Count(log'[w][k], t .. t + (Window - Stall) - 1) <= Limit(w)
    BY DEF SlidingWindow, Within, Count, At
  <2> DEFINE span == t .. t + (Window - Stall) - 1
  <2>1. Count(log'[w][k], span) = Count(log[w][k], S \cap span) BY <1>7
  <2>2. Count(log[w][k], S \cap span) <= Count(log[w][k], span) BY <1>3, CountMore
  <2>3. Count(log[w][k], S \cap span) \in Nat /\ Count(log[w][k], span) \in Nat /\ Limit(w) \in Nat
    BY <1>3, CountFacts, Numbers
  <2>4. CASE t \in 0 .. clock
    <3>1. Count(log[w][k], span) <= Limit(w)
      BY <2>4 DEF WInv, SlidingWindow, Within, Count, At
    <3> HIDE DEF span
    <3>2. Count(log'[w][k], span) <= Limit(w) BY <2>1, <2>2, <2>3, <3>1
    <3> QED BY <3>2 DEF span
  <2>5. CASE t = clock + 1
    <3>1. \A i \in DOMAIN log[w][k] : log[w][k][i] \in 0 .. clock BY <1>3, Members
    <3>2. \A i \in DOMAIN log[w][k] : log[w][k][i] \notin S \cap span BY <1>0, <2>5, <3>1
    <3>3. Count(log[w][k], S \cap span) = 0 BY <1>3, <2>3, <3>2, CountFacts
    <3> HIDE DEF span
    <3>4. Count(log'[w][k], span) <= Limit(w) BY <2>1, <2>3, <3>3
    <3> QED BY <3>4 DEF span
  <2> QED BY <1>0, <2>4, <2>5
<1> QED BY <1>5, <1>6, <1>11, <1>12, <1>13 DEF WInv

LEMMA WindowsInit == Init => WInv
<1> SUFFICES ASSUME Init PROVE WInv OBVIOUS
<1>1. /\ clock = 0 /\ DOMAIN store = Windows /\ \A w \in Windows : store[w] = <<>>
      /\ \A w \in Windows, k \in Keys : log[w][k] = <<>>
  BY DEF Init
<1>2. <<>> \in Seq(0 .. clock) /\ Len(<<>>) = 0 /\ DOMAIN <<>> = {} OBVIOUS
<1>3. \A A : Count(<<>>, A) = 0
  <2> SUFFICES ASSUME NEW A PROVE Count(<<>>, A) = 0 OBVIOUS
  <2>1. Count(<<>>, A) \in Nat /\ Count(<<>>, A) <= Len(<<>>) BY <1>2, CountFacts
  <2> QED BY <1>2, <2>1
<1>4. StoreOK BY <1>1, <1>2, FS_EmptySet, Numbers DEF StoreOK
<1>5. LogOK BY <1>2 DEF Init, LogOK
<1>6. \A w \in Windows, k \in Keys : Stamps(w, k) = <<>> BY <1>1 DEF Stamps
<1>7. Complete /\ Backed BY <1>1, <1>3, <1>6 DEF Complete, Backed
<1>8. SlidingWindow
  <2> SUFFICES ASSUME NEW w \in Windows, NEW k \in Keys, NEW t \in 0 .. clock
               PROVE  Count(log[w][k], t .. t + (Window - Stall) - 1) <= Limit(w)
    BY DEF SlidingWindow, Within, Count, At
  <2>1. Count(log[w][k], t .. t + (Window - Stall) - 1) = 0 BY <1>1, <1>3
  <2> QED BY <2>1, Numbers
<1> QED BY <1>4, <1>5, <1>7, <1>8 DEF WInv

LEMMA WindowsStep == IInv /\ WInv /\ [Next]_vars => WInv'
<1> SUFFICES ASSUME IInv, WInv, [Next]_vars PROVE WInv' OBVIOUS
<1>1. CASE UNCHANGED <<clock, store, log>>
  <2>1. StoreOK' /\ LogOK' BY <1>1 DEF WInv, StoreOK, LogOK
  <2>2. Complete' /\ Backed' BY <1>1 DEF WInv, Complete, Backed, Stamps, Recent
  <2>3. SlidingWindow' BY <1>1 DEF WInv, SlidingWindow, Within
  <2> QED BY <2>1, <2>2, <2>3 DEF WInv
<1>2. ASSUME NEW p \in Threads, NEW now \in Readings, AuthWindow(p, now) PROVE WInv'
  <2>1. PICK admitted \in BOOLEAN : CheckWindow("auth", req[p].client, now, admitted)
    BY <1>2 DEF AuthWindow
  <2>2. req[p].client \in Keys
    <3>1. req[p].pc = "auth" BY <1>2 DEF AuthWindow
    <3> QED BY <3>1 DEF IInv, ClientKnown, Final, Keys
  <2>3. "auth" \in Windows /\ UNCHANGED clock BY <1>2 DEF Windows, AuthWindow
  <2> QED BY <2>1, <2>2, <2>3, CheckWindowInv
<1>3. ASSUME NEW p \in Threads, NEW now \in Readings, ApiWindow(p, now) PROVE WInv'
  <2>1. PICK admitted \in BOOLEAN : CheckWindow("api", req[p].key, now, admitted)
    BY <1>3 DEF ApiWindow
  <2>2. req[p].key \in Keys
    <3>1. req[p].pc = "api" BY <1>3 DEF ApiWindow
    <3> QED BY <3>1 DEF IInv, ClientKnown, Final
  <2>3. "api" \in Windows /\ UNCHANGED clock BY <1>3 DEF Windows, ApiWindow
  <2> QED BY <2>1, <2>2, <2>3, CheckWindowInv
<1>4. ASSUME NEW now \in Readings, Cleanup(now) PROVE WInv' BY <1>4, CleanupInv
<1>5. CASE Tick BY <1>5, TickInv
<1>6. ASSUME NEW p \in Threads,
             \/ \E kind \in {"api", "exempt", "exchange"}, c \in Clients : Arrive(p, kind, c)
             \/ \E s \in Subjects \cup {Anonymous} : Identify(p, s)
             \/ Acquire(p) \/ AuthFails(p) \/ Release(p) \/ Finish(p)
      PROVE  UNCHANGED <<clock, store, log>>
  BY <1>6 DEF Arrive, Identify, Acquire, AuthFails, Release, Finish
<1>7. CASE UNCHANGED vars BY <1>1, <1>7 DEF vars
<1> QED BY <1>1, <1>2, <1>3, <1>4, <1>5, <1>6, <1>7 DEF Next

LEMMA AdmissionInv == Spec => [](IInv /\ WInv)
<1>1. Init => IInv /\ WInv BY InitInv, WindowsInit
<1>2. (IInv /\ WInv) /\ [Next]_vars => (IInv /\ WInv)' BY StepInv, WindowsStep
<1> QED BY <1>1, <1>2, PTL DEF Spec

(* No key is admitted more often than its limit in any span of              *)
(* Window - Stall, whatever threads race, stall or reclaim buckets.         *)
THEOREM WindowsHold == Spec => []SlidingWindow
<1>1. WInv => SlidingWindow BY DEF WInv
<1> QED BY <1>1, AdmissionInv, PTL

\* A refusal of a window, by the admissions that really took place.
LEMMA RefusedSpent ==
    ASSUME WInv, NEW w \in Windows, NEW key \in Keys, NEW now \in Readings,
           CheckWindow(w, key, now, FALSE)
    PROVE  Spent(w, key, now)
<1> DEFINE table == Relieved(store[w], key, now)
           stamps == Bucket(table, key, now)
           active == {t \in Nat : Active(t, now)}
<1>0. clock \in Nat /\ now \in 0 .. clock /\ clock - now <= Stall BY DEF WInv, StoreOK, Readings
<1>1. /\ DOMAIN table \in SUBSET DOMAIN store[w]
      /\ Cardinality(DOMAIN table) \in Nat
      /\ \A k \in DOMAIN table : table[k] = store[w][k]
      /\ ~RoomFor(table, key) => \A k \in DOMAIN table : HasActive(store[w][k], now)
  BY RelievedFacts
<1>2. \A k \in DOMAIN store[w] :
         /\ k \in Keys /\ Stamps(w, k) = store[w][k] /\ store[w][k] \in Seq(0 .. clock)
         /\ log[w][k] \in Seq(0 .. clock)
  BY DEF WInv, StoreOK, LogOK, Stamps
<1>3. active \in SUBSET Recent(Window + Stall)
  BY <1>0, Numbers DEF Recent, Active
<1>4. \A k \in DOMAIN store[w] :
         /\ Count(store[w][k], active) \in Nat /\ Count(log[w][k], active) \in Nat
         /\ Count(store[w][k], active) <= Count(log[w][k], active)
  <2>1. \A k \in DOMAIN store[w] : Count(store[w][k], active) <= Count(log[w][k], active)
    <3> HIDE DEF active
    <3> QED BY <1>2, <1>3 DEF WInv, Backed
  <2> HIDE DEF active
  <2> QED BY <1>2, <2>1, CountFacts
<1>5. \A T : \A queue \in Seq(T) : T \subseteq Nat =>
         \A i \in DOMAIN queue : queue[i] \in active <=> Active(queue[i], now)
  BY Members
<1> HIDE DEF table
<1>6. ~RoomFor(table, key) \/ Len(stamps) >= Limit(w)
  <2>1. FALSE = (RoomFor(table, key) /\ Len(stamps) < Limit(w)) BY DEF CheckWindow, table
  <2>2. Len(stamps) \in Nat
    <3>1. CASE key \in DOMAIN table
      <4>1. stamps = Only(store[w][key], {t \in 0 .. clock : Active(t, now)}) BY <1>1, <3>1 DEF Bucket
      <4>2. stamps \in Seq(0 .. clock) BY <1>1, <1>2, <3>1, <4>1, OnlyFacts
      <4> QED BY <4>2
    <3>2. CASE key \notin DOMAIN table BY <3>2 DEF Bucket
    <3> QED BY <3>1, <3>2
  <2> QED BY <2>1, <2>2, Numbers
<1>7. CASE ~RoomFor(table, key)
  <2> DEFINE busy == {k \in Keys : HasActive(log[w][k], now)}
  <2>1. Cardinality(DOMAIN table) >= MaxClients
    BY <1>1, <1>7, Numbers DEF RoomFor
  <2>2. ASSUME NEW k \in DOMAIN table PROVE k \in busy
    <3>1. k \in DOMAIN store[w] /\ HasActive(store[w][k], now) BY <1>1, <1>7
    <3>2. 0 .. clock \subseteq Nat BY <1>0
    <3>3. \E i \in DOMAIN store[w][k] : store[w][k][i] \in active
      BY <1>2, <1>5, <3>1, <3>2 DEF HasActive
    <3> HIDE DEF active
    <3>4. Count(store[w][k], active) > 0 BY <1>2, <3>1, <3>3, CountFacts
    <3>5. Count(log[w][k], active) > 0 BY <1>4, <3>1, <3>4
    <3>6. \E i \in DOMAIN log[w][k] : log[w][k][i] \in active BY <1>2, <3>1, <3>5, CountFacts
    <3>7. HasActive(log[w][k], now) BY <1>2, <1>5, <3>1, <3>2, <3>6 DEF HasActive
    <3> QED BY <1>2, <3>1, <3>7
  <2>3. DOMAIN table \in SUBSET busy /\ busy \in SUBSET Keys BY <2>2
  <2>4. /\ IsFiniteSet(busy) /\ Cardinality(busy) \in Nat
        /\ Cardinality(DOMAIN table) <= Cardinality(busy)
    <3> HIDE DEF busy
    <3> QED BY <2>3, KeysFinite, FS_Subset
  <2>5. Cardinality(busy) >= MaxClients
    <3> HIDE DEF busy
    <3> QED BY <1>1, <2>1, <2>4, Numbers
  <2> QED BY <2>5 DEF Spent
<1>8. CASE RoomFor(table, key) /\ Len(stamps) >= Limit(w)
  <2>1. key \in DOMAIN table
    <3>1. ASSUME key \notin DOMAIN table PROVE FALSE
      <4>1. stamps = <<>> BY <3>1 DEF Bucket
      <4>2. Len(stamps) = 0 BY <4>1
      <4> QED BY <1>8, <4>2, Numbers
    <3> QED BY <3>1
  <2>2. key \in DOMAIN store[w] /\ stamps = Only(store[w][key], {t \in 0 .. clock : Active(t, now)})
    BY <1>1, <2>1 DEF Bucket
  <2> DEFINE S == {t \in 0 .. clock : Active(t, now)}
             queue == store[w][key]
             past == log[w][key]
  <2>3. queue \in Seq(0 .. clock) /\ past \in Seq(0 .. clock) /\ stamps = Only(queue, S) BY <1>2, <2>2
  <2>4. Len(stamps) = Count(queue, S) BY <2>3, OnlyPositions DEF Count
  <2>5. Count(queue, S) <= Count(queue, active)
    <3>1. S \subseteq active BY <1>0
    <3> HIDE DEF S, active, queue
    <3> QED BY <2>3, <3>1, CountMore
  <2>6. Count(queue, S) \in Nat
    <3> HIDE DEF S, queue
    <3> QED BY <2>3, CountFacts
  <2>7. Count(past, active) >= Limit(w)
    <3>1. Count(queue, active) <= Count(past, active) /\ Count(queue, active) \in Nat
          /\ Count(past, active) \in Nat
      BY <1>4, <2>2
    <3> HIDE DEF S, active, queue, past, stamps
    <3> QED BY <1>8, <2>4, <2>5, <2>6, <3>1, Numbers
  <2>8. {i \in DOMAIN past : Active(past[i], now)} = At(past, active)
    <3>1. \A i \in DOMAIN past : past[i] \in 0 .. clock BY <2>3, Members
    <3> QED BY <1>0, <3>1 DEF At
  <2> QED BY <2>7, <2>8 DEF Spent, Count
<1> QED BY <1>6, <1>7, <1>8

(* A window turns a request away only when the key has spent its limit or   *)
(* MaxClients keys were active at the time the check worked with.           *)
THEOREM RefusalsAreJust == Spec => JustRefusal
<1>1. ASSUME IInv, WInv, [Next]_vars, NEW p \in Threads, NEW now \in Readings
      PROVE  /\ AuthWindow(p, now) /\ req'[p].pc = "refused" => Spent("auth", req[p].client, now)
             /\ ApiWindow(p, now) /\ req'[p].pc = "refused" => Spent("api", req[p].key, now)
  <2>0. DOMAIN req = Threads BY <1>1 DEF IInv, ReqOK
  <2>1. ASSUME AuthWindow(p, now), req'[p].pc = "refused" PROVE Spent("auth", req[p].client, now)
    <3>1. req[p].client \in Clients /\ req[p].key \in Keys
      BY <1>1, <2>1 DEF AuthWindow, IInv, ClientKnown, Final
    <3>2. PICK admitted \in BOOLEAN : /\ CheckWindow("auth", req[p].client, now, admitted)
                                      /\ Goto(p, IF admitted THEN "acquire" ELSE "refused")
      BY <2>1 DEF AuthWindow
    <3>3. admitted = FALSE
      <4>1. ASSUME admitted PROVE FALSE
        <5>1. Goto(p, "acquire") BY <3>2, <4>1
        <5>2. req'[p].pc = "acquire" BY <1>1, <3>1, <5>1, GotoMove DEF IInv, Phases
        <5> QED BY <2>1, <5>2
      <4> QED BY <4>1
    <3>4. "auth" \in Windows /\ req[p].client \in Keys BY <3>1 DEF Windows, Keys
    <3> QED BY <1>1, <3>2, <3>3, <3>4, RefusedSpent
  <2>2. ASSUME ApiWindow(p, now), req'[p].pc = "refused" PROVE Spent("api", req[p].key, now)
    <3>1. req[p].client \in Clients /\ req[p].key \in Keys
      BY <1>1, <2>2 DEF ApiWindow, IInv, ClientKnown, Final
    <3>2. PICK admitted \in BOOLEAN :
             /\ CheckWindow("api", req[p].key, now, admitted)
             /\ Goto(p, IF ~admitted THEN "refused"
                        ELSE IF req[p].kind = "exchange" THEN "auth" ELSE "admitted")
      BY <2>2 DEF ApiWindow
    <3>3. admitted = FALSE
      <4>1. ASSUME admitted PROVE FALSE
        <5>1. PICK next \in {"auth", "admitted"} : Goto(p, next) BY <3>2, <4>1
        <5>2. req'[p].pc = next BY <1>1, <3>1, <5>1, GotoMove DEF IInv, Phases
        <5> QED BY <2>2, <5>1, <5>2
      <4> QED BY <4>1
    <3>4. "api" \in Windows BY DEF Windows
    <3> QED BY <1>1, <3>1, <3>2, <3>3, <3>4, RefusedSpent
  <2> QED BY <2>1, <2>2
<1>2. (IInv /\ WInv) /\ [Next]_vars =>
        [\A p \in Threads, now \in Readings :
          /\ AuthWindow(p, now) /\ req'[p].pc = "refused" => Spent("auth", req[p].client, now)
          /\ ApiWindow(p, now) /\ req'[p].pc = "refused" => Spent("api", req[p].key, now)]_vars
  BY <1>1
<1> QED BY <1>2, AdmissionInv, PTL DEF Spec, JustRefusal

----------------------------------------------------------------------------
(* Types                                                                    *)

FlightOK ==
    /\ DOMAIN inflight \in SUBSET Clients
    /\ Cardinality(DOMAIN inflight) <= MaxClients
    /\ \A c \in DOMAIN inflight : inflight[c] \in 1 .. MaxInflight

LEMMA FlightStep == IInv /\ FlightOK /\ [Next]_vars => FlightOK'
<1> SUFFICES ASSUME IInv, FlightOK, [Next]_vars PROVE FlightOK' OBVIOUS
<1>0. /\ IsFiniteSet(DOMAIN inflight) /\ Cardinality(DOMAIN inflight) \in Nat
      /\ MaxInflight \in Nat \ {0} /\ MaxClients \in Nat \ {0}
  BY AdmissionAssumption, FS_Subset, FS_CardinalityType DEF FlightOK
<1>1. CASE UNCHANGED inflight BY <1>1 DEF FlightOK
<1>2. ASSUME NEW p \in Threads, Acquire(p), inflight' # inflight PROVE FlightOK'
  <2> DEFINE c == req[p].client
  <2>1. c \in Clients BY <1>2 DEF IInv, ClientKnown, Acquire, Final
  <2>2. /\ inflight' = SetBucket(inflight, c, Slots(c) + 1) /\ ~(Slots(c) >= MaxInflight)
        /\ ~(Slots(c) = 0 /\ Cardinality(DOMAIN inflight) >= MaxClients)
    BY <1>2 DEF Acquire
  <2>3. /\ DOMAIN inflight' = DOMAIN inflight \cup {c} /\ inflight'[c] = Slots(c) + 1
        /\ \A d \in DOMAIN inflight : d # c => inflight'[d] = inflight[d]
    BY <2>2 DEF SetBucket
  <2>4. Slots(c) \in 0 .. MaxInflight /\ (c \notin DOMAIN inflight => Slots(c) = 0)
    BY <1>0 DEF Slots, FlightOK
  <2> HIDE DEF c
  <2>5. Cardinality(DOMAIN inflight \cup {c}) <= MaxClients
    <3>1. CASE c \in DOMAIN inflight
      <4>1. DOMAIN inflight \cup {c} = DOMAIN inflight BY <3>1
      <4> QED BY <4>1 DEF FlightOK
    <3>2. CASE c \notin DOMAIN inflight
      <4>1. Cardinality(DOMAIN inflight \cup {c}) = Cardinality(DOMAIN inflight) + 1
        BY <1>0, <3>2, FS_AddElement
      <4> QED BY <1>0, <2>2, <2>4, <3>2, <4>1
    <3> QED BY <3>1, <3>2
  <2>6. \A d \in DOMAIN inflight' : inflight'[d] \in 1 .. MaxInflight
    BY <1>0, <2>2, <2>3, <2>4 DEF FlightOK
  <2> QED BY <2>1, <2>3, <2>5, <2>6 DEF FlightOK
<1>3. ASSUME NEW p \in Threads, Release(p) PROVE FlightOK'
  <2> DEFINE c == req[p].client
  <2>1. inflight' = IF Slots(c) <= 1
                      THEN [d \in DOMAIN inflight \ {c} |-> inflight[d]]
                      ELSE [inflight EXCEPT ![c] = @ - 1]
    BY <1>3 DEF Release
  <2> HIDE DEF c
  <2>2. DOMAIN inflight' \in SUBSET DOMAIN inflight BY <2>1
  <2>3. Cardinality(DOMAIN inflight') \in Nat /\ Cardinality(DOMAIN inflight') <= Cardinality(DOMAIN inflight)
    BY <1>0, <2>2, FS_Subset, FS_CardinalityType
  <2>4. Cardinality(DOMAIN inflight') <= MaxClients BY <1>0, <2>3 DEF FlightOK
  <2>5. ASSUME NEW d \in DOMAIN inflight' PROVE inflight'[d] \in 1 .. MaxInflight
    <3>1. d \in DOMAIN inflight /\ inflight[d] \in 1 .. MaxInflight BY <2>2 DEF FlightOK
    <3>2. CASE Slots(c) <= 1
      <4>1. inflight'[d] = inflight[d] BY <2>1, <3>2
      <4> QED BY <3>1, <4>1
    <3>3. CASE ~(Slots(c) <= 1) /\ d # c
      <4>1. inflight'[d] = inflight[d] BY <2>1, <3>1, <3>3
      <4> QED BY <3>1, <4>1
    <3>4. CASE ~(Slots(c) <= 1) /\ d = c
      <4>1. inflight'[d] = inflight[d] - 1 /\ Slots(c) = inflight[d] BY <2>1, <3>1, <3>4 DEF Slots
      <4> QED BY <1>0, <3>1, <3>4, <4>1
    <3> QED BY <3>2, <3>3, <3>4
  <2> QED BY <2>2, <2>4, <2>5 DEF FlightOK
<1>4. ASSUME NEW p \in Threads,
             \/ \E kind \in {"api", "exempt", "exchange"}, c \in Clients : Arrive(p, kind, c)
             \/ \E now \in Readings : AuthWindow(p, now) \/ ApiWindow(p, now)
             \/ \E s \in Subjects \cup {Anonymous} : Identify(p, s)
             \/ AuthFails(p) \/ Finish(p)
      PROVE  UNCHANGED inflight
  BY <1>4 DEF Arrive, AuthWindow, ApiWindow, Identify, AuthFails, Finish
<1>5. CASE (\E now \in Readings : Cleanup(now)) \/ Tick \/ UNCHANGED vars
  BY <1>1, <1>5 DEF Cleanup, Tick, vars
<1> QED BY <1>1, <1>2, <1>3, <1>4, <1>5 DEF Next

(* No table of the admission holds more keys than its bound, and no bucket  *)
(* more timestamps than its limit.                                          *)
THEOREM AdmissionTypes == Spec => []TypeOK
<1>1. Init => FlightOK
  <2> SUFFICES ASSUME Init PROVE FlightOK OBVIOUS
  <2>1. DOMAIN inflight = {} BY DEF Init
  <2> QED BY <2>1, FS_EmptySet, Numbers DEF FlightOK
<1>2. Spec => []FlightOK
  <2>1. IInv /\ FlightOK /\ [Next]_vars => FlightOK' BY FlightStep
  <2>2. Spec => []IInv BY AdmissionInv, PTL
  <2> QED BY <1>1, <2>1, <2>2, PTL DEF Spec
<1>3. IInv /\ WInv /\ FlightOK => TypeOK
  <2> SUFFICES ASSUME IInv, WInv, FlightOK PROVE TypeOK OBVIOUS
  <2>1. \A p \in Threads : req[p].pc \in Phases BY DEF IInv, ReqOK
  <2> QED BY <2>1 DEF WInv, StoreOK, FlightOK, TypeOK, Phases
<1> QED BY <1>2, <1>3, AdmissionInv, PTL
=============================================================================
