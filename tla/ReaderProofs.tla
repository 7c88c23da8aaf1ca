---------------------------- MODULE ReaderProofs ----------------------------
(***************************************************************************)
(* The readers: their sessions, for any number of threads, tokens, cookies *)
(* and addresses and any size of the table, and the container of the hub   *)
(* with their key files, for any number of readers, kills and failures.    *)
(***************************************************************************)
EXTENDS ReaderSession, HubRuntime, FiniteSetTheorems, TLAPS

----------------------------------------------------------------------------
(* ReaderSession                                                           *)

----------------------------------------------------------------------------
(* What a filter keeps of a queue                                          *)

\* The positions of queue whose member is in S, and how many come up to i.
KeptAt(queue, S) == {i \in DOMAIN queue : queue[i] \in S}
Rank(queue, S, i) == Cardinality({j \in KeptAt(queue, S) : j <= i})

LEMMA AtFinite ==
    ASSUME NEW T, NEW queue \in Seq(T), NEW S
    PROVE  /\ KeptAt(queue, S) \in SUBSET (1 .. Len(queue))
           /\ IsFiniteSet(KeptAt(queue, S)) /\ Cardinality(KeptAt(queue, S)) \in Nat
           /\ Cardinality(KeptAt(queue, S)) <= Len(queue)
           /\ \A i : Rank(queue, S, i) \in Nat /\ Rank(queue, S, i) <= Cardinality(KeptAt(queue, S))
<1>1. KeptAt(queue, S) \in SUBSET (1 .. Len(queue)) BY DEF KeptAt
<1>2. /\ IsFiniteSet(1 .. Len(queue)) /\ Cardinality(1 .. Len(queue)) = Len(queue)
  <2> DEFINE size == Len(queue)
  <2>1. size \in Nat OBVIOUS
  <2> HIDE DEF size
  <2>2. IsFiniteSet(1 .. size) /\ Cardinality(1 .. size) = size BY <2>1, FS_Interval
  <2> QED BY <2>2 DEF size
<1>3. /\ IsFiniteSet(KeptAt(queue, S)) /\ Cardinality(KeptAt(queue, S)) <= Len(queue)
      /\ Cardinality(KeptAt(queue, S)) \in Nat
  BY <1>1, <1>2, FS_Subset, FS_CardinalityType
<1>4. ASSUME NEW i
      PROVE  Rank(queue, S, i) \in Nat /\ Rank(queue, S, i) <= Cardinality(KeptAt(queue, S))
  <2>1. {j \in KeptAt(queue, S) : j <= i} \in SUBSET KeptAt(queue, S) OBVIOUS
  <2> QED BY <1>3, <2>1, FS_Subset, FS_CardinalityType DEF Rank
<1> QED BY <1>1, <1>3, <1>4

\* The rank numbers the positions that are kept.
LEMMA RankNumbers ==
    ASSUME NEW T, NEW queue \in Seq(T), NEW S
    PROVE  /\ \A i \in KeptAt(queue, S) : Rank(queue, S, i) \in 1 .. Cardinality(KeptAt(queue, S))
           /\ \A i, j \in KeptAt(queue, S) : i < j => Rank(queue, S, i) < Rank(queue, S, j)
           /\ \A i, j \in KeptAt(queue, S) : Rank(queue, S, i) = Rank(queue, S, j) => i = j
           /\ \A n \in 1 .. Cardinality(KeptAt(queue, S)) :
                 \E i \in KeptAt(queue, S) : Rank(queue, S, i) = n
<1> DEFINE at == KeptAt(queue, S)
           upto(i) == {j \in at : j <= i}
           rank == [i \in at |-> Rank(queue, S, i)]
<1>0. /\ \A i \in at : i \in Nat
      /\ IsFiniteSet(at) /\ Cardinality(at) \in Nat
      /\ \A i : Rank(queue, S, i) \in Nat /\ Rank(queue, S, i) <= Cardinality(at)
      /\ \A i : Rank(queue, S, i) = Cardinality(upto(i))
  <2>1. Len(queue) \in Nat OBVIOUS
  <2>2. \A i \in at : i \in Nat BY <2>1, AtFinite
  <2> QED BY <2>2, AtFinite DEF Rank
<1> HIDE DEF at
<1>1. \A i : IsFiniteSet(upto(i)) /\ Cardinality(upto(i)) \in Nat
  <2> SUFFICES ASSUME NEW i PROVE IsFiniteSet(upto(i)) /\ Cardinality(upto(i)) \in Nat OBVIOUS
  <2>1. upto(i) \in SUBSET at OBVIOUS
  <2> QED BY <1>0, <2>1, FS_Subset, FS_CardinalityType
<1>2. ASSUME NEW i \in at PROVE Rank(queue, S, i) \in 1 .. Cardinality(at)
  <2>1. i \in upto(i) BY <1>0
  <2>2. Cardinality(upto(i)) # 0 BY <1>1, <2>1, FS_EmptySet
  <2> QED BY <1>0, <1>1, <2>2
<1>3. ASSUME NEW i \in at, NEW j \in at, i < j PROVE Rank(queue, S, i) < Rank(queue, S, j)
  <2>1. upto(i) \cup {j} \in SUBSET upto(j) BY <1>0, <1>3
  <2>2. j \notin upto(i) BY <1>0, <1>3
  <2>3. Cardinality(upto(i) \cup {j}) = Cardinality(upto(i)) + 1 BY <1>1, <2>2, FS_AddElement
  <2>4. Cardinality(upto(i) \cup {j}) <= Cardinality(upto(j)) BY <1>1, <2>1, FS_Subset
  <2> QED BY <1>0, <1>1, <2>3, <2>4
<1>4. ASSUME NEW i \in at, NEW j \in at, Rank(queue, S, i) = Rank(queue, S, j) PROVE i = j
  BY <1>0, <1>3, <1>4
<1>5. rank \in Injection(at, 1 .. Cardinality(at))
  BY <1>2, <1>4 DEF Injection, IsInjective
<1>6. IsFiniteSet(1 .. Cardinality(at)) /\ Cardinality(1 .. Cardinality(at)) = Cardinality(at)
  BY <1>0, FS_Interval
<1>7. rank \in Surjection(at, 1 .. Cardinality(at)) BY <1>5, <1>6, FS_Injection
<1>8. \A n \in 1 .. Cardinality(at) : \E i \in at : Rank(queue, S, i) = n
  BY <1>7 DEF Surjection
<1> QED BY <1>2, <1>3, <1>4, <1>8 DEF at

\* Every member of the result is the member at a position kept, one for one.
LEMMA OnlyPositions ==
    ASSUME NEW T, NEW queue \in Seq(T), NEW S
    PROVE  /\ Only(queue, S) \in Seq(T) /\ Len(Only(queue, S)) = Cardinality(KeptAt(queue, S))
           /\ \A i \in KeptAt(queue, S) : Only(queue, S)[Rank(queue, S, i)] = queue[i]
           /\ \A n \in 1 .. Len(Only(queue, S)) :
                 \E i \in KeptAt(queue, S) : Rank(queue, S, i) = n /\ Only(queue, S)[n] = queue[i]
<1> DEFINE nth(n) == CHOOSE i \in KeptAt(queue, S) : Rank(queue, S, i) = n
           size == Cardinality(KeptAt(queue, S))
<1>0. size \in Nat /\ KeptAt(queue, S) \in SUBSET (1 .. Len(queue)) BY AtFinite
<1>1. ASSUME NEW n \in 1 .. size PROVE nth(n) \in KeptAt(queue, S) /\ Rank(queue, S, nth(n)) = n
  BY RankNumbers
<1>2. ASSUME NEW i \in KeptAt(queue, S) PROVE nth(Rank(queue, S, i)) = i
  BY <1>1, RankNumbers
<1>3. Only(queue, S) = [n \in 1 .. size |-> queue[nth(n)]] BY DEF Only, KeptAt, Rank
<1> HIDE DEF nth, size
<1>4. \A n \in 1 .. size : queue[nth(n)] \in T BY <1>0, <1>1
<1>5. Only(queue, S) \in Seq(T) /\ Len(Only(queue, S)) = size BY <1>0, <1>3, <1>4
<1>6. ASSUME NEW i \in KeptAt(queue, S) PROVE Only(queue, S)[Rank(queue, S, i)] = queue[i]
  <2>1. Rank(queue, S, i) \in 1 .. size BY RankNumbers DEF size
  <2> QED BY <1>2, <1>3, <2>1
<1>7. ASSUME NEW n \in 1 .. size
      PROVE  \E i \in KeptAt(queue, S) : Rank(queue, S, i) = n /\ Only(queue, S)[n] = queue[i]
  BY <1>1, <1>3
<1> QED BY <1>5, <1>6, <1>7 DEF size

Distinct(queue) == \A i, j \in DOMAIN queue : queue[i] = queue[j] => i = j

LEMMA OnlyFacts ==
    ASSUME NEW T, NEW queue \in Seq(T), NEW S
    PROVE  /\ Only(queue, S) \in Seq(T) /\ Len(Only(queue, S)) <= Len(queue)
           /\ Range(Only(queue, S)) = Range(queue) \cap S
           /\ Distinct(queue) => Distinct(Only(queue, S))
<1> DEFINE only == Only(queue, S)
<1>1. /\ only \in Seq(T) /\ Len(only) = Cardinality(KeptAt(queue, S)) /\ DOMAIN only = 1 .. Len(only)
      /\ \A i \in KeptAt(queue, S) : only[Rank(queue, S, i)] = queue[i]
      /\ \A n \in 1 .. Len(only) :
            \E i \in KeptAt(queue, S) : Rank(queue, S, i) = n /\ only[n] = queue[i]
  BY OnlyPositions
<1> HIDE DEF only
<1>2. Len(only) <= Len(queue) BY <1>1, AtFinite
<1>3. \A i \in KeptAt(queue, S) : Rank(queue, S, i) \in 1 .. Len(only) BY <1>1, RankNumbers
<1>4. Range(only) = Range(queue) \cap S
  <2>1. ASSUME NEW x \in Range(only) PROVE x \in Range(queue) \cap S
    <3>1. PICK n \in 1 .. Len(only) : x = only[n] BY <1>1 DEF Range
    <3>2. PICK i \in KeptAt(queue, S) : only[n] = queue[i] BY <1>1
    <3> QED BY <3>1, <3>2 DEF KeptAt, Range
  <2>2. ASSUME NEW x \in Range(queue) \cap S PROVE x \in Range(only)
    <3>1. PICK i \in DOMAIN queue : x = queue[i] BY DEF Range
    <3>2. i \in KeptAt(queue, S) BY <3>1 DEF KeptAt
    <3> QED BY <1>1, <1>3, <3>1, <3>2 DEF Range
  <2> QED BY <2>1, <2>2
<1>5. ASSUME Distinct(queue), NEW m \in 1 .. Len(only), NEW n \in 1 .. Len(only), only[m] = only[n]
      PROVE  m = n
  <2>1. PICK i \in KeptAt(queue, S) : Rank(queue, S, i) = m /\ only[m] = queue[i] BY <1>1
  <2>2. PICK j \in KeptAt(queue, S) : Rank(queue, S, j) = n /\ only[n] = queue[j] BY <1>1
  <2> QED BY <1>5, <2>1, <2>2 DEF Distinct, KeptAt
<1> QED BY <1>1, <1>2, <1>4, <1>5 DEF Distinct, only

\* A queue without repetition has as many members as places.
LEMMA DistinctCount ==
    ASSUME NEW T, NEW queue \in Seq(T), Distinct(queue)
    PROVE  IsFiniteSet(Range(queue)) /\ Cardinality(Range(queue)) = Len(queue)
<1>0. Len(queue) \in Nat /\ DOMAIN queue = 1 .. Len(queue) OBVIOUS
<1>1. queue \in Surjection(1 .. Len(queue), Range(queue)) BY <1>0 DEF Surjection, Range
<1>2. queue \in Injection(1 .. Len(queue), Range(queue))
  BY <1>0, <1>1 DEF Injection, Surjection, IsInjective, Distinct
<1>3. IsFiniteSet(1 .. Len(queue)) /\ Cardinality(1 .. Len(queue)) = Len(queue)
  BY <1>0, FS_Interval
<1> QED BY <1>1, <1>2, <1>3, FS_Surjection

LEMMA AppendFacts ==
    ASSUME NEW T, NEW queue \in Seq(T), NEW x \in T
    PROVE  /\ Append(queue, x) \in Seq(T)
           /\ Range(Append(queue, x)) = Range(queue) \cup {x}
           /\ Distinct(queue) /\ x \notin Range(queue) => Distinct(Append(queue, x))
<1> DEFINE new == Append(queue, x)
<1>1. /\ new \in Seq(T) /\ Len(new) = Len(queue) + 1 /\ Len(queue) \in Nat
      /\ DOMAIN queue = 1 .. Len(queue) /\ DOMAIN new = 1 .. Len(new)
      /\ \A i \in 1 .. Len(new) : new[i] = IF i <= Len(queue) THEN queue[i] ELSE x
  OBVIOUS
<1> HIDE DEF new
<1>2. Range(new) = Range(queue) \cup {x}
  <2>1. ASSUME NEW y \in Range(new) PROVE y \in Range(queue) \cup {x} BY <1>1 DEF Range
  <2>2. ASSUME NEW y \in Range(queue) PROVE y \in Range(new)
    <3>1. PICK i \in 1 .. Len(queue) : y = queue[i] BY <1>1 DEF Range
    <3>2. i \in DOMAIN new /\ new[i] = y BY <1>1, <3>1
    <3> QED BY <3>2 DEF Range
  <2>3. x \in Range(new)
    <3>1. Len(new) \in DOMAIN new /\ new[Len(new)] = x BY <1>1
    <3> QED BY <3>1 DEF Range
  <2> QED BY <2>1, <2>2, <2>3
<1>3. ASSUME Distinct(queue), x \notin Range(queue) PROVE Distinct(new)
  BY <1>1, <1>3 DEF Distinct, Range
<1> QED BY <1>1, <1>2, <1>3 DEF new

LEMMA Sizes == TTL \in Nat \ {0} /\ MaxEntries \in Nat \ {0} /\ MaxTime \in Nat
BY ReaderSessionAssumption

\* popitem(last=False) drops members only from a table that is too long.
LEMMA EvictFacts ==
    ASSUME NEW T, NEW queue \in Seq(T)
    PROVE  /\ Evict(queue) \in Seq(T) /\ Len(Evict(queue)) <= MaxEntries
           /\ Range(Evict(queue)) \subseteq Range(queue)
           /\ Distinct(queue) => Distinct(Evict(queue))
           /\ Evict(queue) = queue \/ Len(Evict(queue)) = MaxEntries
<1>0. Len(queue) \in Nat /\ MaxEntries \in Nat \ {0} BY Sizes
<1>1. CASE Len(queue) <= MaxEntries
  BY <1>0, <1>1 DEF Evict
<1>2. CASE Len(queue) > MaxEntries
  <2> DEFINE off == Len(queue) - MaxEntries
             new == SubSeq(queue, off + 1, Len(queue))
  <2>1. Evict(queue) = new BY <1>0, <1>2 DEF Evict
  <2>2. /\ off \in Nat /\ new \in Seq(T) /\ Len(new) = MaxEntries /\ DOMAIN new = 1 .. MaxEntries
        /\ \A i \in 1 .. MaxEntries : i + off \in DOMAIN queue /\ new[i] = queue[i + off]
    BY <1>0, <1>2
  <2> HIDE DEF new
  <2>3. Range(new) \subseteq Range(queue) BY <2>2 DEF Range
  <2>4. Distinct(queue) => Distinct(new)
    <3> SUFFICES ASSUME Distinct(queue), NEW i \in 1 .. MaxEntries, NEW j \in 1 .. MaxEntries, new[i] = new[j]
                 PROVE  i = j
      BY <2>2 DEF Distinct
    <3>1. i + off = j + off BY <2>2 DEF Distinct
    <3> QED BY <2>2, <3>1
  <2> QED BY <1>0, <2>1, <2>2, <2>3, <2>4
<1> QED BY <1>0, <1>1, <1>2

----------------------------------------------------------------------------
(* The inductive invariant                                                 *)

ClockOK == reader \in DOMAIN Credentials /\ clock \in 0 .. MaxTime

\* What the reader vouched for, of every token that was handed out.
IssuedOK ==
    /\ DOMAIN issued \in SUBSET Tokens
    /\ \A t \in DOMAIN issued :
          /\ issued[t] \in [user : Users, ident : Identities, bind : Bindings]
          /\ issued[t].ident[1] # "credential" => issued[t].ident[2] = issued[t].user

\* The table and the dead tokens are disjoint parts of the tokens handed out.
TableOK ==
    /\ \A t \in DOMAIN sessions :
          /\ sessions[t] \in [subject : Subjects, bind : Bindings,
                              expires_at : 0 .. MaxTime + TTL]
          /\ sessions[t].subject = Subject(issued[t].ident)
          /\ sessions[t].bind = issued[t].bind
    /\ DOMAIN sessions \subseteq HandedOut /\ dead \subseteq HandedOut
    /\ dead \cap DOMAIN sessions = {}
    /\ order \in Seq(Tokens) /\ Range(order) = DOMAIN sessions /\ Distinct(order)
    /\ Len(order) <= MaxEntries

\* What a request holds at each point of its way.
Held(r) ==
    /\ r.pc \in {"probe_one", "probe_all", "mint", "commit"} =>
          r.cred \in Credentials[reader] /\ r.bind \in Bindings /\ r.tok \in HandedOut \cup {None}
    /\ r.pc \in {"mint", "commit"} =>
          /\ r.ident \in Identities /\ r.vouched \in Users
          /\ r.ident[1] # "credential" => r.ident[2] = r.vouched
    /\ r.pc = "commit" <=> r.new # None
    /\ r.new \notin HandedOut
    /\ r.pc \in {"check", "again", "recheck", "remove", "accepted"} =>
          r.tok \in HandedOut /\ r.bind \in Bindings
    /\ r.pc \in {"again", "remove", "accepted"} =>
          r.ident = Subject(issued[r.tok].ident) /\ r.bind = issued[r.tok].bind
    /\ r.pc = "revoked" => r.tok \in HandedOut \ DOMAIN sessions

\* No two exchanges have drawn the same token.
Drawn == \A p, q \in Threads : p # q /\ req[p].new # None => req[q].new # req[p].new

ReqOK == req \in [Threads -> Requests] /\ Drawn /\ \A p \in Threads : Held(req[p])

IInv == ClockOK /\ IssuedOK /\ TableOK /\ ReqOK

LEMMA CookieFacts ==
    ASSUME ClockOK
    PROVE  /\ \A c \in Cookies : c.user \in Users
           /\ \A cred \in Credentials[reader] : cred \in Seq(Cookies)
<1> DEFINE Cookie == [name : STRING, user : Users, shown : BOOLEAN]
<1>1. \A cred \in Credentials[reader] : cred \in Seq(Cookie)
  BY ReaderSessionAssumption DEF ClockOK
<1> HIDE DEF Cookie
<1>2. ASSUME NEW cred \in Credentials[reader] PROVE cred \in Seq(Cookies)
  <2>1. cred \in Seq(Cookie) BY <1>1
  <2>2. \A i \in 1 .. Len(cred) : cred[i] \in Cookies BY <2>1 DEF Cookies, Range
  <2> QED BY <2>1, <2>2
<1>3. ASSUME NEW c \in Cookies PROVE c.user \in Users
  <2>1. PICK cred \in Credentials[reader] : c \in Range(cred) BY DEF Cookies
  <2>2. cred \in Seq(Cookie) BY <1>1
  <2>3. c \in Cookie BY <2>1, <2>2 DEF Range
  <2> QED BY <2>3 DEF Cookie
<1> QED BY <1>2, <1>3

LEMMA IdleHeld ==
    ASSUME IInv
    PROVE  Idle \in Requests /\ Held(Idle) /\ Idle.new = None /\ Idle.pc = "idle"
<1>1. Idle \in Requests
  <2>1. 0 \in 0 .. clock BY DEF IInv, ClockOK
  <2>2. <<>> \in Seq(Cookies) OBVIOUS
  <2> QED BY <2>1, <2>2 DEF Idle, Requests, Phases
<1>2. None \notin HandedOut BY ReaderSessionAssumption DEF IInv, IssuedOK, HandedOut
<1> QED BY <1>1, <1>2 DEF Idle, Held

\* The step of one request that leaves the table alone.
LEMMA LocalStep ==
    ASSUME IInv, NEW p \in Threads, NEW r \in Requests, Held(r),
           r.new = None \/ \A q \in Threads : q # p => req[q].new # r.new,
           req' = [req EXCEPT ![p] = r],
           UNCHANGED <<reader, clock, sessions, order, issued, dead>>
    PROVE  IInv'
<1>1. ClockOK' BY DEF IInv, ClockOK
<1>2. IssuedOK'
  BY DEF IInv, IssuedOK, Identities
<1>3. TableOK'
  BY DEF IInv, TableOK, HandedOut, Subject, Subjects, Identities
<1>4. ReqOK'
  <2>1. Requests' = Requests
    BY DEF Requests, Identities, Subjects, Subject, Cookies
  <2>2. req' \in [Threads -> Requests'] BY <2>1 DEF IInv, ReqOK
  <2>3. \A q \in Threads : req'[q] = IF q = p THEN r ELSE req[q] BY DEF IInv, ReqOK
  <2>4. ASSUME NEW q \in Threads PROVE Held(req[q])'
    <3>1. Held(req'[q]) BY <2>3 DEF IInv, ReqOK
    <3> QED BY <3>1 DEF Held, HandedOut, Identities, Subject
  <2>5. Drawn' BY <2>3 DEF IInv, ReqOK, Drawn
  <2>6. (\A q \in Threads : Held(req[q]))' BY <2>4
  <2> QED BY <2>2, <2>5, <2>6 DEF ReqOK
<1> QED BY <1>1, <1>2, <1>3, <1>4 DEF IInv

LEMMA InitInv == Init => IInv
<1> SUFFICES ASSUME Init PROVE IInv OBVIOUS
<1> USE DEF Init
<1>1. ClockOK BY Sizes DEF ClockOK
<1>2. IssuedOK BY DEF IssuedOK
<1>3. TableOK
  <2>1. Range(order) = {} BY DEF Range
  <2>2. Len(order) = 0 BY DEF Init
  <2> QED BY <2>1, <2>2, Sizes DEF TableOK, HandedOut, Distinct
<1>4. ReqOK
  <2>1. Idle \in Requests
    <3>1. 0 \in 0 .. clock OBVIOUS
    <3>2. <<>> \in Seq(Cookies) OBVIOUS
    <3> QED BY <3>1, <3>2 DEF Idle, Requests, Phases
  <2>2. Held(Idle) BY DEF Held, Idle, HandedOut
  <2>3. Idle.new = None BY DEF Idle
  <2> QED BY <2>1, <2>2, <2>3 DEF ReqOK, Drawn
<1> QED BY <1>1, <1>2, <1>3, <1>4 DEF IInv

----------------------------------------------------------------------------
(* The steps that leave the table alone                                    *)

\* The first of the cookies sent that the reader accepts is one of them.
LEMMA AcceptedFacts ==
    ASSUME NEW T, NEW cred \in Seq(T), NEW live, Accepted(cred, live) # <<>>
    PROVE  Accepted(cred, live)[1] \in Range(cred)
<1>1. Accepted(cred, live) \in Seq(T) /\ Range(Accepted(cred, live)) \subseteq Range(cred)
  BY OnlyFacts DEF Accepted
<1>2. 1 \in DOMAIN Accepted(cred, live) BY <1>1
<1>3. Accepted(cred, live)[1] \in Range(Accepted(cred, live)) BY <1>2 DEF Range
<1> QED BY <1>1, <1>3

LEMMA RefuseStep ==
    ASSUME IInv, NEW p \in Threads, Refuse(p),
           UNCHANGED <<reader, clock, sessions, order, issued, dead>>
    PROVE  IInv'
BY IdleHeld, LocalStep DEF Refuse

LEMMA StartExchangeInv ==
    ASSUME IInv, NEW p \in Threads, NEW cred \in Credentials[reader], NEW bind \in Bindings,
           NEW prior \in HandedOut \cup {None}, StartExchange(p, cred, bind, prior)
    PROVE  IInv'
<1> DEFINE r == [Idle EXCEPT !.pc = IF reader = "cwa" THEN "probe_one" ELSE "probe_all",
                   !.cred = cred, !.bind = bind, !.tok = prior,
                   !.todo = IF reader = "cwa" THEN Named(cred) ELSE <<>>]
<1>1. Named(cred) \in Seq(Cookies) BY CookieFacts, OnlyFacts DEF Named, IInv
<1>2. /\ Idle \in Requests /\ Held(Idle) /\ Idle.new = None /\ prior \in Tokens \cup {None}
  BY IdleHeld DEF IInv, IssuedOK, HandedOut
<1>3. r \in Requests
  <2> DEFINE todo == IF reader = "cwa" THEN Named(cred) ELSE <<>>
             pc == IF reader = "cwa" THEN "probe_one" ELSE "probe_all"
  <2>1. todo \in Seq(Cookies) /\ pc \in Phases BY <1>1 DEF Phases
  <2>2. r = [pc |-> pc, bind |-> bind, cred |-> cred, tok |-> prior, todo |-> todo, ident |-> None,
             now |-> 0, new |-> None, vouched |-> None, revoking |-> FALSE]
    <3> HIDE DEF todo, pc
    <3>1. r = [Idle EXCEPT !.pc = pc, !.cred = cred, !.bind = bind, !.tok = prior, !.todo = todo]
      BY DEF todo, pc
    <3> HIDE DEF r
    <3> QED BY <3>1 DEF Idle
  <2>3. 0 \in 0 .. clock BY DEF IInv, ClockOK
  <2> HIDE DEF todo, pc, r
  <2> QED BY <1>2, <2>1, <2>2, <2>3 DEF Requests
<1>4. Held(r) /\ r.new = None BY <1>2 DEF Held, Idle
<1>5. req' = [req EXCEPT ![p] = r] BY DEF StartExchange
<1> HIDE DEF r
<1> QED BY <1>3, <1>4, <1>5, LocalStep DEF StartExchange

LEMMA StartAuthenticateInv ==
    ASSUME IInv, NEW p \in Threads, NEW revoking \in BOOLEAN, NEW tok \in HandedOut,
           NEW bind \in Bindings, StartAuthenticate(p, revoking, tok, bind)
    PROVE  IInv'
<1> DEFINE r == [Idle EXCEPT !.pc = "check", !.tok = tok,
                   !.bind = bind, !.now = clock, !.revoking = revoking]
<1>1. Idle \in Requests /\ Held(Idle) /\ Idle.new = None /\ tok \in Tokens /\ clock \in 0 .. clock
  BY IdleHeld DEF IInv, IssuedOK, HandedOut, ClockOK
<1>2. r \in Requests
  <2>1. bind \in Bindings \cup {None} OBVIOUS
  <2> QED BY <1>1, <2>1 DEF Requests, Phases, Idle
<1>3. Held(r) /\ r.new = None BY <1>1 DEF Held, Idle
<1>4. req' = [req EXCEPT ![p] = r] BY DEF StartAuthenticate
<1> HIDE DEF r
<1> QED BY <1>2, <1>3, <1>4, LocalStep DEF StartAuthenticate

\* A Calibre-Web user id is believed only when its own cookie was accepted.
LEMMA ProbeOneInv ==
    ASSUME IInv, NEW p \in Threads, NEW live, ProbeOne(p, live)
    PROVE  IInv'
<1>0. req[p] \in Requests /\ Held(req[p]) /\ req \in [Threads -> Requests]
  BY DEF IInv, ReqOK
<1>1. req[p].todo \in Seq(Cookies) /\ req[p].todo # <<>> /\ req[p].pc = "probe_one"
  BY <1>0 DEF Requests, ProbeOne
<1> DEFINE c == Head(req[p].todo)
<1>2. c \in Cookies /\ c.user \in Users /\ Tail(req[p].todo) \in Seq(Cookies)
  BY <1>1, CookieFacts DEF IInv
<1>3. CASE Accepted(<<c>>, live) # <<>>
  <2> DEFINE r == [req[p] EXCEPT !.pc = "mint", !.ident = <<"cwa-user", c.user>>,
                                 !.vouched = Accepted(<<c>>, live)[1].user]
  <2>1. Accepted(<<c>>, live)[1] = c
    <3>1. <<c>> \in Seq(Cookies) /\ Range(<<c>>) = {c} BY <1>2 DEF Range
    <3> QED BY <1>3, <3>1, AcceptedFacts
  <2>2. <<"cwa-user", c.user>> \in Identities BY <1>2 DEF Identities
  <2>3. req' = [req EXCEPT ![p] = r] BY <1>3 DEF ProbeOne
  <2>4. req[p].new = None BY <1>0, <1>1 DEF Held
  <2> HIDE DEF c
  <2>5. r \in Requests BY <1>0, <1>2, <2>1, <2>2 DEF Requests, Phases
  <2>6. Held(r) /\ r.new = None BY <1>0, <1>1, <1>2, <2>1, <2>2, <2>4 DEF Held, Requests
  <2> HIDE DEF r
  <2> QED BY <2>3, <2>5, <2>6, LocalStep DEF ProbeOne
<1>4. CASE Accepted(<<c>>, live) = <<>>
  <2> DEFINE r == [req[p] EXCEPT !.todo = Tail(req[p].todo)]
  <2>1. req' = [req EXCEPT ![p] = r] BY <1>4 DEF ProbeOne
  <2>2. req[p].new = None BY <1>0, <1>1 DEF Held
  <2>3. r \in Requests BY <1>0, <1>2 DEF Requests
  <2>4. Held(r) /\ r.new = None BY <1>0, <1>1, <2>2 DEF Held, Requests
  <2> HIDE DEF r
  <2> QED BY <2>1, <2>3, <2>4, LocalStep DEF ProbeOne
<1> QED BY <1>3, <1>4

LEMMA ProbedEachInv ==
    ASSUME IInv, NEW p \in Threads, ProbedEach(p)
    PROVE  IInv'
<1>0. req[p] \in Requests /\ Held(req[p]) /\ req \in [Threads -> Requests] /\ req[p].pc = "probe_one"
  BY DEF IInv, ReqOK, ProbedEach
<1>1. CASE Refuse(p) BY <1>1, RefuseStep DEF ProbedEach
<1>2. CASE req' = [req EXCEPT ![p].pc = "probe_all"]
  <2> DEFINE r == [req[p] EXCEPT !.pc = "probe_all"]
  <2>1. req' = [req EXCEPT ![p] = r] BY <1>2
  <2>2. r \in Requests BY <1>0 DEF Requests, Phases
  <2>3. Held(r) /\ r.new = None BY <1>0 DEF Held, Requests
  <2> HIDE DEF r
  <2> QED BY <2>1, <2>2, <2>3, LocalStep DEF ProbedEach
<1> QED BY <1>1, <1>2 DEF ProbedEach

LEMMA ProbeAllInv ==
    ASSUME IInv, NEW p \in Threads, NEW live, ProbeAll(p, live)
    PROVE  IInv'
<1>0. req[p] \in Requests /\ Held(req[p]) /\ req \in [Threads -> Requests] /\ req[p].pc = "probe_all"
  BY DEF IInv, ReqOK, ProbeAll
<1> DEFINE cred == req[p].cred
           ok == Accepted(cred, live)
<1>1. cred \in Credentials[reader] /\ cred \in Seq(Cookies) /\ req[p].new = None
  BY <1>0, CookieFacts DEF Held, IInv
<1>2. CASE ok = <<>>
  <2>1. Refuse(p) BY <1>2 DEF ProbeAll, Refuse
  <2> QED BY <2>1, RefuseStep DEF ProbeAll
<1>3. CASE ok # <<>>
  <2> DEFINE ident == IF reader = "cwa" THEN <<"credential", cred>> ELSE <<"kavita", ok[1].user>>
             r == [req[p] EXCEPT !.pc = "mint", !.vouched = ok[1].user, !.ident = ident]
  <2>1. ok[1].user \in Users
    <3>1. ok[1] \in Range(cred) BY <1>1, <1>3, AcceptedFacts
    <3>2. ok[1] \in Cookies BY <1>1, <3>1 DEF Cookies
    <3> QED BY <3>2, CookieFacts DEF IInv
  <2>2. ident \in Identities /\ (ident[1] # "credential" => ident[2] = ok[1].user)
    BY <1>1, <2>1 DEF Identities
  <2>3. req' = [req EXCEPT ![p] = r] BY <1>3 DEF ProbeAll
  <2> HIDE DEF ident, ok
  <2>4. r \in Requests BY <1>0, <2>1, <2>2 DEF Requests, Phases
  <2>5. Held(r) /\ r.new = None BY <1>0, <1>1, <2>1, <2>2 DEF Held, Requests
  <2> HIDE DEF r
  <2> QED BY <2>3, <2>4, <2>5, LocalStep DEF ProbeAll
<1> QED BY <1>2, <1>3

LEMMA MintInv ==
    ASSUME IInv, NEW p \in Threads, Mint(p)
    PROVE  IInv'
<1>0. req[p] \in Requests /\ Held(req[p]) /\ req \in [Threads -> Requests] /\ req[p].pc = "mint"
  BY DEF IInv, ReqOK, Mint
<1>1. PICK t \in Tokens : /\ t \notin HandedOut /\ \A q \in Threads : req[q].new # t
                          /\ req' = [req EXCEPT ![p].pc = "commit", ![p].new = t, ![p].now = clock]
  BY DEF Mint
<1> DEFINE r == [req[p] EXCEPT !.pc = "commit", !.new = t, !.now = clock]
<1>2. t # None /\ clock \in 0 .. clock BY ReaderSessionAssumption DEF IInv, ClockOK
<1>3. req' = [req EXCEPT ![p] = r] BY <1>0, <1>1
<1>4. r \in Requests BY <1>0, <1>2 DEF Requests, Phases
<1>5. Held(r) /\ r.new = t BY <1>0, <1>1, <1>2 DEF Held, Requests
<1> HIDE DEF r
<1> QED BY <1>1, <1>3, <1>4, <1>5, LocalStep DEF Mint

LEMMA RevokeAuthenticateInv ==
    ASSUME IInv, NEW p \in Threads, RevokeAuthenticate(p)
    PROVE  IInv'
<1>0. req[p] \in Requests /\ Held(req[p]) /\ req \in [Threads -> Requests] /\ req[p].pc = "again"
  BY DEF IInv, ReqOK, RevokeAuthenticate
<1> DEFINE r == [req[p] EXCEPT !.pc = "recheck", !.now = clock]
<1>1. clock \in 0 .. clock BY DEF IInv, ClockOK
<1>2. req' = [req EXCEPT ![p] = r] BY <1>0 DEF RevokeAuthenticate
<1>3. r \in Requests BY <1>0, <1>1 DEF Requests, Phases
<1>4. Held(r) /\ r.new = None BY <1>0 DEF Held, Requests
<1> HIDE DEF r
<1> QED BY <1>2, <1>3, <1>4, LocalStep DEF RevokeAuthenticate

LEMMA RespondInv ==
    ASSUME IInv, NEW p \in Threads, Respond(p)
    PROVE  IInv'
BY RefuseStep DEF Respond, Refuse

----------------------------------------------------------------------------
(* The lock sections                                                       *)

\* What the other requests hold survives a lock section: it hands out at most
\* the token its own request has drawn, and no other token enters the table.
LEMMA OthersHeld ==
    ASSUME IInv, NEW p \in Threads, NEW r \in Requests, r.new = None,
           req' = [req EXCEPT ![p] = r], Held(req[p])', IssuedOK',
           UNCHANGED <<reader, clock>>,
           DOMAIN issued \subseteq DOMAIN issued',
           DOMAIN issued' \subseteq DOMAIN issued \cup {req[p].new},
           \A t \in DOMAIN issued : issued'[t] = issued[t],
           DOMAIN sessions' \subseteq DOMAIN sessions \cup {req[p].new}
    PROVE  ReqOK'
<1>1. Requests' = Requests
  BY DEF Requests, Identities, Subjects, Subject, Cookies
<1>2. req' \in [Threads -> Requests'] BY <1>1 DEF IInv, ReqOK
<1>3. \A q \in Threads : req'[q] = IF q = p THEN r ELSE req[q] BY DEF IInv, ReqOK
<1>4. Drawn' BY <1>3 DEF IInv, ReqOK, Drawn
<1>5. ASSUME NEW q \in Threads PROVE Held(req[q])'
  <2>1. CASE q = p BY <2>1
  <2>2. CASE q # p
    <3> DEFINE s == req[q]
    <3>1. s \in Requests /\ Held(s) /\ req'[q] = s BY <1>3, <2>2 DEF IInv, ReqOK
    <3>2. s.new \notin HandedOut'
      <4>1. s.new \notin DOMAIN issued BY <3>1 DEF Held, HandedOut
      <4>2. None \notin DOMAIN issued' BY ReaderSessionAssumption DEF IssuedOK
      <4>3. s.new # None => s.new # req[p].new BY <2>2 DEF IInv, ReqOK, Drawn
      <4> QED BY <4>1, <4>2, <4>3 DEF HandedOut
    <3>3. ASSUME NEW t \in HandedOut \ DOMAIN sessions PROVE t \in HandedOut' \ DOMAIN sessions'
      <4>1. t # req[p].new BY DEF IInv, ReqOK, Held
      <4> QED BY <4>1 DEF HandedOut
    <3>4. \A t \in HandedOut : t \in HandedOut' /\ issued'[t] = issued[t] BY DEF HandedOut
    <3>5. Credentials[reader]' = Credentials[reader] /\ Identities' = Identities BY DEF Identities
    <3> HIDE DEF s
    <3>6. /\ s.pc \in {"probe_one", "probe_all", "mint", "commit"} =>
                s.cred \in Credentials[reader]' /\ s.bind \in Bindings /\ s.tok \in HandedOut' \cup {None}
          /\ s.pc \in {"mint", "commit"} =>
                /\ s.ident \in Identities' /\ s.vouched \in Users
                /\ s.ident[1] # "credential" => s.ident[2] = s.vouched
          /\ s.pc = "commit" <=> s.new # None
          /\ s.pc \in {"check", "again", "recheck", "remove", "accepted"} =>
                s.tok \in HandedOut' /\ s.bind \in Bindings
      BY <3>1, <3>4, <3>5 DEF Held
    <3>7. /\ s.pc \in {"again", "remove", "accepted"} =>
                s.ident = <<reader', issued'[s.tok].ident>> /\ s.bind = issued'[s.tok].bind
          /\ s.pc = "revoked" => s.tok \in HandedOut' \ DOMAIN sessions'
      BY <3>1, <3>3, <3>4 DEF Held, Subject
    <3> QED BY <3>1, <3>2, <3>6, <3>7 DEF Held, Subject
  <2> QED BY <2>1, <2>2
<1>6. (\A q \in Threads : Held(req[q]))' BY <1>5
<1> QED BY <1>2, <1>4, <1>6 DEF ReqOK

\* What a token popped from the table leaves.
LEMMA LeaveFacts ==
    ASSUME IInv, NEW t, Leave(t), UNCHANGED <<reader, clock, issued>>
    PROVE  /\ ClockOK' /\ IssuedOK' /\ TableOK'
           /\ DOMAIN sessions' = DOMAIN sessions \ {t}
<1>1. ClockOK' BY DEF IInv, ClockOK
<1>2. IssuedOK' BY DEF IInv, IssuedOK, Identities
<1>3. DOMAIN sessions' = DOMAIN sessions \ {t} /\ \A u \in DOMAIN sessions' : sessions'[u] = sessions[u]
  BY DEF Leave
<1>4. /\ order' \in Seq(Tokens) /\ Len(order') <= Len(order)
      /\ Range(order') = DOMAIN sessions' /\ Distinct(order')
  <2>1. order \in Seq(Tokens) /\ Range(order) = DOMAIN sessions /\ Distinct(order)
    BY DEF IInv, TableOK
  <2>2. order' = Only(order, DOMAIN sessions \ {t}) BY DEF Leave
  <2> QED BY <1>3, <2>1, <2>2, OnlyFacts
<1>5. Len(order') <= MaxEntries BY <1>4, Sizes DEF IInv, TableOK
<1>6. /\ DOMAIN sessions' \subseteq HandedOut' /\ dead' \subseteq HandedOut'
      /\ dead' \cap DOMAIN sessions' = {}
  BY <1>3 DEF IInv, TableOK, HandedOut, Leave
<1>7. \A u \in DOMAIN sessions' :
          /\ sessions'[u] \in [subject : Subjects, bind : Bindings, expires_at : 0 .. MaxTime + TTL]
          /\ sessions'[u].subject = Subject(issued[u].ident)
          /\ sessions'[u].bind = issued[u].bind
  BY <1>3 DEF IInv, TableOK
<1>8. Subjects' = Subjects /\ \A i : Subject(i)' = <<reader, i>>
  BY DEF Subjects, Subject, Identities
<1>9. TableOK' BY <1>4, <1>5, <1>6, <1>7, <1>8 DEF TableOK, Subject
<1> QED BY <1>1, <1>2, <1>3, <1>9

LEMMA RemoveTokenInv ==
    ASSUME IInv, NEW p \in Threads, RemoveToken(p)
    PROVE  IInv'
<1>0. req[p] \in Requests /\ Held(req[p]) /\ req \in [Threads -> Requests] /\ req[p].pc = "remove"
  BY DEF IInv, ReqOK, RemoveToken
<1>1. /\ ClockOK' /\ IssuedOK' /\ TableOK' /\ DOMAIN sessions' = DOMAIN sessions \ {req[p].tok}
  BY LeaveFacts DEF RemoveToken
<1> DEFINE r == [Idle EXCEPT !.pc = "revoked", !.tok = req[p].tok]
<1>2. req' = [req EXCEPT ![p] = r] BY DEF RemoveToken, Succeed
<1>3. Idle \in Requests /\ Held(Idle) /\ Idle.new = None BY IdleHeld
<1>4. req[p].tok \in HandedOut /\ req[p].tok \in Tokens \cup {None}
  BY <1>0 DEF Held, Requests
<1>5. r \in Requests /\ r.new = None BY <1>3, <1>4 DEF Requests, Phases, Final, Idle
<1>6. r.pc = "revoked" /\ r.tok = req[p].tok BY DEF Idle
<1>7. Held(req[p])'
  <2>1. req'[p] = r BY <1>0, <1>2
  <2>2. HandedOut' = HandedOut /\ None \notin HandedOut
    BY ReaderSessionAssumption DEF RemoveToken, HandedOut, IInv, IssuedOK
  <2> HIDE DEF r
  <2> QED BY <1>1, <1>4, <1>5, <1>6, <2>1, <2>2 DEF Held
<1> HIDE DEF r
<1>8. ReqOK' BY <1>1, <1>2, <1>5, <1>7, OthersHeld DEF RemoveToken
<1> QED BY <1>1, <1>8 DEF IInv

LEMMA CheckInv ==
    ASSUME IInv, NEW p \in Threads, Check(p)
    PROVE  IInv'
<1>0. /\ req[p] \in Requests /\ Held(req[p]) /\ req \in [Threads -> Requests]
      /\ req[p].pc \in {"check", "recheck"} /\ req[p].tok \in HandedOut /\ req[p].new = None
  <2>1. req[p] \in Requests /\ Held(req[p]) /\ req \in [Threads -> Requests]
    BY DEF IInv, ReqOK
  <2> QED BY <2>1 DEF Check, Held
<1> DEFINE tok == req[p].tok
<1>1. CASE Leave(tok) /\ Refuse(p)
  <2>1. /\ ClockOK' /\ IssuedOK' /\ TableOK' /\ DOMAIN sessions' = DOMAIN sessions \ {tok}
    BY <1>1, LeaveFacts DEF Check
  <2>2. Idle \in Requests /\ Held(Idle) /\ Idle.new = None /\ Idle.pc = "idle" BY IdleHeld
  <2>3. req' = [req EXCEPT ![p] = Idle] BY <1>1 DEF Refuse
  <2>4. Held(req[p])'
    <3>1. req'[p] = Idle BY <1>0, <2>3
    <3>2. None \notin HandedOut' BY <2>1, ReaderSessionAssumption DEF HandedOut, IssuedOK
    <3> QED BY <2>2, <3>1, <3>2 DEF Held
  <2>5. ReqOK' BY <2>1, <2>2, <2>3, <2>4, OthersHeld DEF Check
  <2> QED BY <2>1, <2>5 DEF IInv
<1>2. CASE Refuse(p) /\ UNCHANGED <<sessions, order, dead>>
  BY <1>2, RefuseStep DEF Check
<1>3. CASE /\ tok \in DOMAIN sessions /\ SameBinding(sessions[tok], req[p])
           /\ order' = Append(Only(order, DOMAIN sessions \ {tok}), tok)
           /\ req' = [req EXCEPT ![p].pc = Passed(req[p]), ![p].now = 0,
                                 ![p].ident = sessions[tok].subject]
           /\ UNCHANGED <<sessions, dead>>
  <2> DEFINE r == [req[p] EXCEPT !.pc = Passed(req[p]), !.now = 0, !.ident = sessions[tok].subject]
  <2>1. req' = [req EXCEPT ![p] = r] BY <1>0, <1>3
  <2>2. /\ sessions[tok].subject \in Subjects /\ sessions[tok].subject = Subject(issued[tok].ident)
        /\ req[p].bind = issued[tok].bind
    BY <1>3 DEF IInv, TableOK, SameBinding
  <2>3. Passed(req[p]) \in {"again", "accepted", "remove"}
    <3>1. req[p].revoking \in BOOLEAN BY <1>0 DEF Requests
    <3> QED BY <1>0, <3>1 DEF Passed
  <2>4. r \in Requests
    <3>1. 0 \in 0 .. clock BY DEF IInv, ClockOK
    <3>2. Passed(req[p]) \in Phases BY <2>3 DEF Phases, Final
    <3>3. sessions[tok].subject \in Identities \cup Subjects \cup {None} BY <2>2
    <3> DEFINE next == Passed(req[p])
               subject == sessions[tok].subject
    <3> HIDE DEF next, subject
    <3>4. r = [req[p] EXCEPT !.pc = next, !.now = 0, !.ident = subject] BY DEF next, subject
    <3>5. next \in Phases /\ subject \in Identities \cup Subjects \cup {None}
      BY <3>2, <3>3 DEF next, subject
    <3> HIDE DEF r
    <3>6. /\ req[p] = [pc |-> req[p].pc, bind |-> req[p].bind, cred |-> req[p].cred, tok |-> req[p].tok,
                        todo |-> req[p].todo, ident |-> req[p].ident, now |-> req[p].now,
                        new |-> req[p].new, vouched |-> req[p].vouched, revoking |-> req[p].revoking]
          /\ req[p].bind \in Bindings \cup {None} /\ req[p].cred \in Credentials[reader] \cup {<<>>}
          /\ req[p].tok \in Tokens \cup {None} /\ req[p].todo \in Seq(Cookies)
          /\ req[p].new \in Tokens \cup {None} /\ req[p].vouched \in Users \cup {None}
          /\ req[p].revoking \in BOOLEAN
      BY <1>0 DEF Requests
    <3>7. r = [pc |-> next, bind |-> req[p].bind, cred |-> req[p].cred, tok |-> req[p].tok,
               todo |-> req[p].todo, ident |-> subject, now |-> 0, new |-> req[p].new,
               vouched |-> req[p].vouched, revoking |-> req[p].revoking]
      BY <3>4, <3>6
    <3> QED BY <3>1, <3>5, <3>6, <3>7 DEF Requests
  <2>5. Held(r) /\ r.new = None BY <1>0, <2>2, <2>3 DEF Held, Requests
  <2>6. /\ order' \in Seq(Tokens) /\ Range(order') = DOMAIN sessions /\ Distinct(order')
        /\ Len(order') <= MaxEntries
    <3> DEFINE rest == Only(order, DOMAIN sessions \ {tok})
    <3>1. /\ order \in Seq(Tokens) /\ Range(order) = DOMAIN sessions /\ Distinct(order)
          /\ Len(order) <= MaxEntries /\ tok \in Tokens
      BY <1>3 DEF IInv, TableOK, IssuedOK, HandedOut
    <3>2. rest \in Seq(Tokens) /\ Range(rest) = DOMAIN sessions \ {tok} /\ Distinct(rest)
      BY <3>1, OnlyFacts
    <3> HIDE DEF rest
    <3>3. order' = Append(rest, tok) BY <1>3 DEF rest
    <3>4. order' \in Seq(Tokens) /\ Range(order') = DOMAIN sessions /\ Distinct(order')
      <4>1. tok \in DOMAIN sessions /\ tok \notin Range(rest) BY <1>3, <3>2
      <4>2. Range(rest) \cup {tok} = DOMAIN sessions BY <3>2, <4>1
      <4> HIDE DEF tok
      <4>3. /\ Append(rest, tok) \in Seq(Tokens) /\ Range(Append(rest, tok)) = Range(rest) \cup {tok}
            /\ Distinct(Append(rest, tok))
        BY <3>1, <3>2, <4>1, AppendFacts
      <4> QED BY <3>3, <4>2, <4>3
    <3>5. Len(order') = Cardinality(DOMAIN sessions) /\ Len(order) = Cardinality(DOMAIN sessions)
      BY <3>1, <3>4, DistinctCount
    <3> QED BY <3>1, <3>4, <3>5
  <2>7. TableOK'
    BY <1>3, <2>6 DEF Check, IInv, TableOK, HandedOut, Subject, Subjects, Identities
  <2>8. ClockOK' /\ IssuedOK' BY DEF Check, IInv, ClockOK, IssuedOK, Identities
  <2>9. Held(req[p])'
    <3>1. req'[p] = r BY <1>0, <2>1
    <3> HIDE DEF r
    <3>2. UNCHANGED <<reader, issued, sessions>> BY <1>3 DEF Check
    <3> QED BY <2>5, <3>1, <3>2 DEF Held, HandedOut, Subject, Identities
  <2> HIDE DEF r
  <2>10. ReqOK' BY <1>3, <2>1, <2>4, <2>5, <2>8, <2>9, OthersHeld DEF Check
  <2> QED BY <2>7, <2>8, <2>10 DEF IInv
<1> QED BY <1>1, <1>2, <1>3 DEF Check

\* The lock section of exchange: the table stays within its bound and in order,
\* and a session leaves it that the browser replaced, that has expired, or
\* because the table is full.
LEMMA CommitFacts ==
    ASSUME IInv, NEW p \in Threads, Commit(p)
    PROVE  /\ IssuedOK' /\ TableOK' /\ req'[p] = [Idle EXCEPT !.pc = "issued", !.tok = None]
           /\ DOMAIN sessions' \subseteq DOMAIN sessions \cup {req[p].new}
           /\ DOMAIN issued' = DOMAIN issued \cup {req[p].new}
           /\ \A t \in DOMAIN issued : issued'[t] = issued[t]
           /\ \A t \in DOMAIN sessions \ DOMAIN sessions' :
                 \/ sessions[t].expires_at <= clock
                 \/ t = req[p].tok
                 \/ Cardinality(DOMAIN sessions') = MaxEntries
<1> DEFINE r == req[p]
           new == r.new
           record == [subject |-> Subject(r.ident), bind |-> r.bind, expires_at |-> r.now + TTL]
           entry(t) == IF t = new THEN record ELSE sessions[t]
           merged == [t \in (DOMAIN sessions \ {r.tok}) \cup {new} |-> entry(t)]
           fresh == {t \in DOMAIN merged : ~Expired(merged[t], r.now)}
           line == Append(order, new)
           queue == Evict(Only(line, fresh))
           kept == fresh \cap Range(queue)
           grant == [user |-> r.vouched, ident |-> r.ident, bind |-> r.bind]
<1>1. /\ r \in Requests /\ Held(r) /\ req \in [Threads -> Requests] /\ r.pc = "commit"
      /\ UNCHANGED <<reader, clock>> /\ clock \in 0 .. MaxTime /\ r.now \in 0 .. clock
  <2>1. r \in Requests /\ Held(r) /\ req \in [Threads -> Requests] BY DEF IInv, ReqOK
  <2> QED BY <2>1 DEF Commit, IInv, ClockOK, Requests
<1>2. /\ sessions' = [t \in kept |-> merged[t]] /\ order' = queue
      /\ issued' = [t \in HandedOut \cup {new} |-> IF t = new THEN grant ELSE issued[t]]
      /\ dead' = dead \cup ((DOMAIN sessions \cup {new}) \ kept)
      /\ req' = [req EXCEPT ![p] = [Idle EXCEPT !.pc = "issued", !.tok = None]]
  BY DEF Commit, Succeed
<1>3. /\ new \in Tokens /\ new \notin HandedOut /\ new \notin DOMAIN sessions
      /\ r.ident \in Identities /\ r.vouched \in Users /\ r.bind \in Bindings
      /\ r.ident[1] # "credential" => r.ident[2] = r.vouched
  <2>1. r.new \in Tokens \cup {None} BY <1>1 DEF Requests
  <2> QED BY <1>1, <2>1 DEF Held, IInv, TableOK
<1>4. /\ DOMAIN merged = (DOMAIN sessions \ {r.tok}) \cup {new}
      /\ \A t \in DOMAIN merged : merged[t] = entry(t)
      /\ fresh \subseteq DOMAIN merged
      /\ \A t \in DOMAIN merged \ fresh : Expired(merged[t], r.now)
  OBVIOUS
<1> HIDE DEF r, merged, fresh
<1>5. /\ order \in Seq(Tokens) /\ Range(order) = DOMAIN sessions /\ Distinct(order)
      /\ DOMAIN sessions \subseteq HandedOut /\ dead \subseteq HandedOut /\ HandedOut \subseteq Tokens
      /\ dead \cap DOMAIN sessions = {}
  BY DEF IInv, TableOK, IssuedOK, HandedOut
<1>6. line \in Seq(Tokens) /\ Range(line) = DOMAIN sessions \cup {new} /\ Distinct(line)
  <2> HIDE DEF new
  <2> QED BY <1>3, <1>5, AppendFacts
<1> HIDE DEF line, new
<1>7. /\ Only(line, fresh) \in Seq(Tokens) /\ Range(Only(line, fresh)) = fresh
      /\ Distinct(Only(line, fresh))
  <2>1. Range(line) \cap fresh = fresh BY <1>4, <1>6
  <2> QED BY <1>6, <2>1, OnlyFacts
<1>8. /\ queue \in Seq(Tokens) /\ Range(queue) \subseteq fresh /\ Distinct(queue)
      /\ Len(queue) <= MaxEntries
      /\ Range(queue) = fresh \/ Len(queue) = MaxEntries
  BY <1>7, EvictFacts
<1> HIDE DEF queue
<1>9. kept = Range(queue) BY <1>8
<1>10. IsFiniteSet(kept) /\ Cardinality(kept) = Len(queue) BY <1>8, <1>9, DistinctCount
<1> HIDE DEF kept
<1>11. kept \subseteq (DOMAIN sessions \ {r.tok}) \cup {new} BY <1>4, <1>8, <1>9
<1>12. DOMAIN sessions' = kept /\ \A t \in kept : sessions'[t] = entry(t)
  BY <1>2, <1>4, <1>11
<1>13. /\ DOMAIN issued' = DOMAIN issued \cup {new} /\ issued'[new] = grant
       /\ \A t \in DOMAIN issued : issued'[t] = issued[t]
  BY <1>2, <1>3 DEF HandedOut
<1>14. Identities' = Identities /\ Subjects' = Subjects /\ Subject(r.ident) \in Subjects
  BY <1>1, <1>3 DEF Identities, Subjects, Subject
<1>15. IssuedOK'
  <2>1. grant \in [user : Users, ident : Identities, bind : Bindings] BY <1>3
  <2>2. DOMAIN issued' \subseteq Tokens BY <1>3, <1>5, <1>13 DEF HandedOut
  <2>3. ASSUME NEW t \in DOMAIN issued'
        PROVE  /\ issued'[t] \in [user : Users, ident : Identities, bind : Bindings]
               /\ issued'[t].ident[1] # "credential" => issued'[t].ident[2] = issued'[t].user
    <3>1. CASE t = new BY <1>3, <1>13, <2>1, <3>1
    <3>2. CASE t \in DOMAIN issued BY <1>13, <3>2 DEF IInv, IssuedOK
    <3> QED BY <1>13, <3>1, <3>2
  <2> QED BY <1>14, <2>2, <2>3 DEF IssuedOK
<1>16. ASSUME NEW t \in kept
       PROVE  /\ sessions'[t] \in [subject : Subjects, bind : Bindings, expires_at : 0 .. MaxTime + TTL]
              /\ sessions'[t].subject = <<reader, issued'[t].ident>>
              /\ sessions'[t].bind = issued'[t].bind
  <2>1. CASE t = new
    <3>1. sessions'[t] = record /\ issued'[t] = grant BY <1>12, <1>13, <2>1
    <3>2. r.now + TTL \in 0 .. MaxTime + TTL BY <1>1, Sizes
    <3> QED BY <1>3, <1>14, <3>1, <3>2 DEF Subject
  <2>2. CASE t # new
    <3>1. t \in DOMAIN sessions /\ sessions'[t] = sessions[t] BY <1>11, <1>12, <2>2
    <3>2. issued'[t] = issued[t] BY <1>5, <1>13, <3>1 DEF HandedOut
    <3> QED BY <3>1, <3>2 DEF IInv, TableOK, Subject
  <2> QED BY <2>1, <2>2
<1>17. TableOK'
  <2>1. /\ DOMAIN sessions' \subseteq HandedOut' /\ dead' \subseteq HandedOut'
        /\ dead' \cap DOMAIN sessions' = {}
    <3>1. HandedOut' = HandedOut \cup {new} BY <1>13 DEF HandedOut
    <3>2. DOMAIN sessions' = kept /\ dead' = dead \cup ((DOMAIN sessions \cup {new}) \ kept)
      BY <1>2, <1>12
    <3>3. dead \cap kept = {} BY <1>3, <1>5, <1>11
    <3> QED BY <1>5, <1>11, <3>1, <3>2, <3>3
  <2>2. /\ order' \in Seq(Tokens) /\ Range(order') = DOMAIN sessions' /\ Distinct(order')
        /\ Len(order') <= MaxEntries
    BY <1>2, <1>8, <1>9, <1>12
  <2>3. \A t \in DOMAIN sessions' :
          /\ sessions'[t] \in [subject : Subjects', bind : Bindings, expires_at : 0 .. MaxTime + TTL]
          /\ sessions'[t].subject = <<reader', issued'[t].ident>>
          /\ sessions'[t].bind = issued'[t].bind
    BY <1>1, <1>12, <1>14, <1>16
  <2> QED BY <2>1, <2>2, <2>3 DEF TableOK, Subject
<1>18. ASSUME NEW t \in DOMAIN sessions \ DOMAIN sessions'
       PROVE  \/ sessions[t].expires_at <= clock
              \/ t = r.tok
              \/ Cardinality(DOMAIN sessions') = MaxEntries
  <2> SUFFICES ASSUME t # r.tok, Len(queue) # MaxEntries PROVE sessions[t].expires_at <= clock
    BY <1>10, <1>12
  <2>1. t \in DOMAIN merged /\ merged[t] = sessions[t] BY <1>3, <1>4
  <2>2. t \notin fresh BY <1>8, <1>9, <1>12
  <2>3. sessions[t].expires_at <= r.now BY <1>4, <2>1, <2>2 DEF Expired
  <2>4. sessions[t].expires_at \in 0 .. MaxTime + TTL BY DEF IInv, TableOK
  <2> QED BY <1>1, <2>3, <2>4, Sizes
<1>19. req'[p] = [Idle EXCEPT !.pc = "issued", !.tok = None] BY <1>1, <1>2
<1> QED BY <1>11, <1>12, <1>13, <1>15, <1>17, <1>18, <1>19 DEF r, new

LEMMA CommitInv ==
    ASSUME IInv, NEW p \in Threads, Commit(p)
    PROVE  IInv'
<1> DEFINE r == [Idle EXCEPT !.pc = "issued", !.tok = None]
<1>1. /\ IssuedOK' /\ TableOK' /\ req'[p] = r
      /\ DOMAIN sessions' \subseteq DOMAIN sessions \cup {req[p].new}
      /\ DOMAIN issued' = DOMAIN issued \cup {req[p].new}
      /\ \A t \in DOMAIN issued : issued'[t] = issued[t]
  BY CommitFacts
<1>2. req' = [req EXCEPT ![p] = r] /\ UNCHANGED <<reader, clock>> BY DEF Commit, Succeed
<1>3. Idle \in Requests /\ Held(Idle) /\ Idle.new = None BY IdleHeld
<1>4. r \in Requests /\ r.new = None /\ r.pc = "issued" BY <1>3 DEF Requests, Phases, Final, Idle
<1> HIDE DEF r
<1>5. Held(req[p])'
  <2>1. None \notin HandedOut' BY <1>1, ReaderSessionAssumption DEF HandedOut, IssuedOK
  <2> QED BY <1>1, <1>4, <2>1 DEF Held
<1>6. ReqOK' BY <1>1, <1>2, <1>4, <1>5, OthersHeld
<1>7. ClockOK' BY <1>2 DEF IInv, ClockOK
<1> QED BY <1>1, <1>6, <1>7 DEF IInv

LEMMA RestartInv == ASSUME IInv, Restart PROVE IInv'
<1>1. ClockOK' /\ IssuedOK' BY DEF Restart, IInv, ClockOK, IssuedOK, Identities
<1>2. DOMAIN sessions' = {} /\ Range(order') = {} /\ Len(order') = 0 BY DEF Restart, Range
<1>3. TableOK'
  <2>1. order' \in Seq(Tokens) /\ Distinct(order') BY DEF Restart, Distinct
  <2>2. dead' \subseteq HandedOut' BY DEF Restart, IInv, TableOK, HandedOut
  <2> QED BY <1>2, <2>1, <2>2, Sizes DEF TableOK
<1>4. ReqOK'
  <2>1. \A p \in Threads : req'[p] = Idle BY DEF Restart
  <2>2. Requests' = Requests
    BY DEF Restart, Requests, Identities, Subjects, Subject, Cookies
  <2>3. Idle \in Requests /\ Held(Idle) /\ Idle.new = None /\ Idle.pc = "idle" BY IdleHeld
  <2>4. None \notin HandedOut' BY <1>1, ReaderSessionAssumption DEF HandedOut, IssuedOK
  <2>5. (\A p \in Threads : Held(req[p]))' BY <2>1, <2>3, <2>4 DEF Held
  <2>6. req' \in [Threads -> Requests'] BY <2>2, <2>3 DEF Restart
  <2> QED BY <2>1, <2>3, <2>5, <2>6 DEF ReqOK, Drawn
<1> QED BY <1>1, <1>3, <1>4 DEF IInv

LEMMA TickInv == ASSUME IInv, Tick PROVE IInv'
<1>1. ClockOK' /\ clock \in Nat /\ clock' = clock + 1 BY Sizes DEF Tick, IInv, ClockOK
<1>2. IssuedOK' BY DEF Tick, IInv, IssuedOK, Identities
<1>3. TableOK' BY DEF Tick, IInv, TableOK, HandedOut, Subject, Subjects, Identities
<1>4. ReqOK'
  <2>1. Requests \subseteq Requests'
    <3>1. /\ 0 .. clock \subseteq 0 .. clock' /\ Identities' = Identities
          /\ Subjects' = Subjects /\ Cookies' = Cookies /\ Credentials[reader]' = Credentials[reader]
      BY <1>1 DEF Tick, Identities, Subjects, Subject, Cookies
    <3> QED BY <3>1 DEF Requests
  <2>2. req' \in [Threads -> Requests'] BY <2>1 DEF Tick, IInv, ReqOK
  <2>3. Drawn' BY DEF Tick, IInv, ReqOK, Drawn
  <2>4. ASSUME NEW p \in Threads PROVE Held(req[p])'
    BY DEF Tick, IInv, ReqOK, Held, HandedOut, Identities, Subject
  <2>5. (\A p \in Threads : Held(req[p]))' BY <2>4
  <2> QED BY <2>2, <2>3, <2>5 DEF ReqOK
<1> QED BY <1>1, <1>2, <1>3, <1>4 DEF IInv

LEMMA StepInv == IInv /\ [Next]_vars => IInv'
<1> SUFFICES ASSUME IInv, [Next]_vars PROVE IInv' OBVIOUS
<1>1. ASSUME NEW p \in Threads, NEW live \in SUBSET Cookies, ProbeOne(p, live) PROVE IInv'
  BY <1>1, ProbeOneInv
<1>2. ASSUME NEW p \in Threads, NEW live \in SUBSET Cookies, ProbeAll(p, live) PROVE IInv'
  BY <1>2, ProbeAllInv
<1>3. ASSUME NEW p \in Threads, ProbedEach(p) PROVE IInv' BY <1>3, ProbedEachInv
<1>4. ASSUME NEW p \in Threads, ProbeUnavailable(p) PROVE IInv'
  BY <1>4, RefuseStep DEF ProbeUnavailable
<1>5. ASSUME NEW p \in Threads, Mint(p) PROVE IInv' BY <1>5, MintInv
<1>6. ASSUME NEW p \in Threads, Commit(p) PROVE IInv' BY <1>6, CommitInv
<1>7. ASSUME NEW p \in Threads, Check(p) PROVE IInv' BY <1>7, CheckInv
<1>8. ASSUME NEW p \in Threads, RevokeAuthenticate(p) PROVE IInv' BY <1>8, RevokeAuthenticateInv
<1>9. ASSUME NEW p \in Threads, RemoveToken(p) PROVE IInv' BY <1>9, RemoveTokenInv
<1>10. ASSUME NEW p \in Threads, Respond(p) PROVE IInv' BY <1>10, RespondInv
<1>11. ASSUME NEW p \in Threads, NEW bind \in Bindings, NEW tok \in HandedOut \cup {None},
              NEW cred \in Credentials[reader], StartExchange(p, cred, bind, tok)
       PROVE  IInv'
  BY <1>11, StartExchangeInv
<1>12. ASSUME NEW p \in Threads, NEW bind \in Bindings, NEW tok \in HandedOut \cup {None},
              NEW revoking \in BOOLEAN, tok # None, StartAuthenticate(p, revoking, tok, bind)
       PROVE  IInv'
  <2>1. tok \in HandedOut BY <1>12
  <2> QED BY <1>12, <2>1, StartAuthenticateInv
<1>13. CASE Tick BY <1>13, TickInv
<1>14. CASE Restart BY <1>14, RestartInv
<1>15. CASE UNCHANGED vars
  <2>1. ClockOK' /\ IssuedOK' BY <1>15 DEF vars, IInv, ClockOK, IssuedOK, Identities
  <2>2. TableOK' BY <1>15 DEF vars, IInv, TableOK, HandedOut, Subject, Subjects, Identities
  <2>3. ReqOK'
    <3>1. Requests' = Requests
      BY <1>15 DEF vars, Requests, Subject, Subjects, Identities, Cookies
    <3>2. ASSUME NEW p \in Threads PROVE Held(req[p])'
      BY <1>15 DEF vars, IInv, ReqOK, Held, HandedOut, Identities, Subject
    <3>3. (\A p \in Threads : Held(req[p]))' BY <3>2
    <3>4. req' \in [Threads -> Requests'] /\ Drawn' BY <1>15, <3>1 DEF vars, IInv, ReqOK, Drawn
    <3> QED BY <3>3, <3>4 DEF ReqOK
  <2> QED BY <2>1, <2>2, <2>3 DEF IInv
<1> QED BY <1>1, <1>2, <1>3, <1>4, <1>5, <1>6, <1>7, <1>8, <1>9, <1>10, <1>11, <1>12,
           <1>13, <1>14, <1>15 DEF Next, Handle

LEMMA InvAlways == Spec => []IInv
<1> QED BY InitInv, StepInv, PTL DEF Spec

LEMMA TypeFromInv == IInv => TypeOK
<1> SUFFICES ASSUME IInv PROVE TypeOK OBVIOUS
<1>1. Len(order) = Cardinality(DOMAIN sessions) BY DistinctCount DEF IInv, TableOK
<1>2. DOMAIN sessions \in SUBSET Tokens /\ dead \in SUBSET Tokens
  BY DEF IInv, TableOK, IssuedOK, HandedOut
<1> QED BY <1>1, <1>2 DEF TypeOK, IInv, ClockOK, IssuedOK, TableOK, ReqOK

\* Types; the table and its order hold the same tokens, each once.
THEOREM SessionTypes == Spec => []TypeOK
<1> QED BY InvAlways, TypeFromInv, PTL

(* The table never exceeds BT_SESSION_MAX_ENTRIES and a token that left it  *)
(* never returns, however the lock sections of exchange, authenticate and  *)
(* revoke are interleaved.                                                 *)
THEOREM RevokedStaysRevoked == Spec => []NoResurrection
<1>1. IInv => NoResurrection
  <2> SUFFICES ASSUME IInv PROVE NoResurrection OBVIOUS
  <2>1. Cardinality(DOMAIN sessions) <= MaxEntries BY DistinctCount DEF IInv, TableOK
  <2>2. dead \cap DOMAIN sessions = {} BY DEF IInv, TableOK
  <2>3. \A p \in Threads : req[p].pc = "revoked" => req[p].tok \notin DOMAIN sessions
    BY DEF IInv, ReqOK, Held
  <2> QED BY <2>1, <2>2, <2>3 DEF NoResurrection
<1> QED BY <1>1, InvAlways, PTL

(* Every session, and every accepted request, acts for the user the reader  *)
(* accepted when its token was issued, from the same address and agent.    *)
THEOREM SessionsAreVouched == Spec => []Vouched
<1>1. IInv => Vouched
  <2> SUFFICES ASSUME IInv PROVE Vouched OBVIOUS
  <2>1. \A t \in DOMAIN sessions :
          /\ sessions[t].subject = Subject(issued[t].ident)
          /\ sessions[t].bind = issued[t].bind
          /\ issued[t].ident[1] # "credential" => issued[t].ident[2] = issued[t].user
    BY DEF IInv, TableOK, IssuedOK, HandedOut
  <2>2. \A p \in Threads : req[p].pc \in {"accepted", "again", "remove"} =>
          req[p].ident = Subject(issued[req[p].tok].ident) /\ req[p].bind = issued[req[p].tok].bind
    BY DEF IInv, ReqOK, Held
  <2> QED BY <2>1, <2>2 DEF Vouched
<1> QED BY <1>1, InvAlways, PTL

LEMMA DropStep ==
    ASSUME IInv, [Next]_vars, NEW t \in DOMAIN sessions \ DOMAIN sessions'
    PROVE  \/ sessions[t].expires_at <= clock
           \/ \E p \in Threads : Dropped(p, t)
           \/ Cardinality(DOMAIN sessions') = MaxEntries
           \/ Restart
<1> DEFINE Reason == \/ sessions[t].expires_at <= clock
                     \/ \E p \in Threads : Dropped(p, t)
                     \/ Cardinality(DOMAIN sessions') = MaxEntries
                     \/ Restart
<1>0. sessions' # sessions OBVIOUS
<1>1. ASSUME NEW p \in Threads, Commit(p) PROVE Reason
  <2>1. /\ req'[p] = [Idle EXCEPT !.pc = "issued", !.tok = None]
        /\ \/ sessions[t].expires_at <= clock
           \/ t = req[p].tok
           \/ Cardinality(DOMAIN sessions') = MaxEntries
    BY <1>1, CommitFacts
  <2>2. req[p].pc = "commit" /\ req'[p].pc = "issued" BY <1>1, <2>1 DEF Commit, Idle
  <2>3. req[p].vouched \in Users BY <2>2 DEF IInv, ReqOK, Held
  <2> QED BY <2>1, <2>2, <2>3 DEF Dropped
<1>2. ASSUME NEW p \in Threads, Check(p) PROVE Reason
  <2> DEFINE r == req[p]
  <2>1. PICK now \in 0 .. clock : now = r.now BY DEF IInv, ReqOK, Requests
  <2>2. Leave(r.tok) /\ (r.tok \in DOMAIN sessions => Expired(sessions[r.tok], r.now))
    BY <1>0, <1>2 DEF Check
  <2>3. t = r.tok BY <2>2 DEF Leave
  <2>4. sessions[t].expires_at <= now BY <2>1, <2>2, <2>3 DEF Expired
  <2>5. sessions[t].expires_at \in 0 .. MaxTime + TTL /\ clock \in Nat
    BY DEF IInv, TableOK, ClockOK
  <2>6. sessions[t].expires_at <= clock BY <2>4, <2>5, Sizes
  <2> QED BY <2>6
<1>3. ASSUME NEW p \in Threads, RemoveToken(p) PROVE Reason
  <2>1. t = req[p].tok BY <1>3 DEF RemoveToken, Leave
  <2>2. req[p].pc = "remove" /\ req'[p].pc = "revoked"
    BY <1>3 DEF RemoveToken, Succeed, Idle, IInv, ReqOK
  <2>3. req[p].bind = issued[t].bind BY <2>1, <2>2 DEF IInv, ReqOK, Held
  <2>4. sessions[t].bind = issued[t].bind BY DEF IInv, TableOK
  <2> QED BY <2>1, <2>2, <2>3, <2>4 DEF Dropped, SameBinding
<1>4. CASE Restart BY <1>4
<1>5. ASSUME NEW p \in Threads, Handle(p) PROVE Reason
  BY <1>0, <1>1, <1>2, <1>3, <1>5
     DEF Handle, ProbeOne, ProbeAll, ProbedEach, ProbeUnavailable, Mint, RevokeAuthenticate, Respond
<1>6. CASE Tick BY <1>0, <1>6 DEF Tick
<1> HIDE DEF Reason
<1>7. CASE Next BY <1>0, <1>4, <1>5, <1>6, <1>7 DEF Next, StartExchange, StartAuthenticate, Reason
<1>8. CASE UNCHANGED vars BY <1>0, <1>8 DEF vars
<1> QED BY <1>7, <1>8 DEF Reason

(* A session that has not expired leaves the table only because a request   *)
(* that presents its token exchanged credentials the reader accepted, from  *)
(* anywhere, or revoked it from its own address and user agent, because the *)
(* table is full, or because the process restarted: not because a handler   *)
(* works with an old time, nor because somebody without credentials         *)
(* presents the token from elsewhere.                                       *)
THEOREM NoSessionDropsEarly == Spec => NoEarlyDrop
<1>1. IInv /\ [Next]_vars =>
        [\A t \in DOMAIN sessions \ DOMAIN sessions' :
            \/ sessions[t].expires_at <= clock
            \/ \E p \in Threads : Dropped(p, t)
            \/ Cardinality(DOMAIN sessions') = MaxEntries
            \/ Restart]_vars
  BY DropStep
<1> QED BY <1>1, InvAlways, PTL DEF Spec, NoEarlyDrop

----------------------------------------------------------------------------
(* HubRuntime and SecretFiles                                              *)

----------------------------------------------------------------------------
(* The inductive invariant                                                  *)

Contents == Nat \cup {Absent, Partial}

Starts == [at : {"off", "open", "write", "load", "failed", "built"}, f : Files,
           existed : BOOLEAN, key : [Files -> Contents]]

KeyTypes ==
    /\ file \in [Readers -> [Files -> Contents]]
    /\ start \in [Readers -> Starts]
    /\ tenants \in [Readers -> SUBSET Nat]
    /\ drawn \in [Readers -> Nat]

RunTypes ==
    /\ env.n \in 1..MaxReaders
    /\ sup \in [at : {"down", "config", "prepare", "spawn", "watch", "stop", "reap"}, i : Nat]
    /\ child \in [Children -> {"none", "up", "term", "exited"}]

Session(r) == file[r]["session"]
Tenant(r)  == file[r]["tenant"]

\* The process of a reader is about to write its tenant key.
Settling(r) ==
    /\ start[r].f = "tenant"
    /\ start[r].at = "write" \/ (start[r].at = "open" /\ Tenant(r) = Absent)

\* A reader's data is filed under its tenant key once there is one.
FiledUnderTenant(r) ==
    /\ \E k \in Nat : tenants[r] \subseteq {k}
    /\ IsKey(Tenant(r)) => tenants[r] \subseteq {Tenant(r)}
    /\ start[r].at = "built" => start[r].key["tenant"] \in tenants[r]

(* Until then it is filed under the session key of an older release, which *)
(* a process that is about to write the tenant key has found and loaded.   *)
FiledUnderSession(r) ==
    /\ Tenant(r) = Absent /\ tenants[r] # {} =>
           /\ IsKey(Session(r)) /\ tenants[r] \subseteq {Session(r)}
           /\ start[r].at \in {"open", "write", "load"} => start[r].existed = TRUE
    /\ Settling(r) /\ tenants[r] # {} =>
           /\ start[r].existed = TRUE /\ IsKey(Session(r)) /\ start[r].key["session"] = Session(r)
           /\ tenants[r] \subseteq {Session(r)}

\* A file that is written was created empty; a loaded session key is one.
Loaded(r) ==
    /\ start[r].at = "write" => file[r][start[r].f] = Partial
    /\ start[r].f = "tenant" /\ start[r].at \in {"open", "write", "load"} =>
           start[r].key["session"] \in Nat

Filed(r) == FiledUnderTenant(r) /\ FiledUnderSession(r) /\ Loaded(r)

AllFiled == KeyTypes /\ \A r \in Readers : Filed(r)

\* A process of a reader is one that is prepared, or belongs to its running child.
Attended(r) ==
    start[r].at # "off" =>
        /\ r \in Enabled
        /\ (At("prepare") /\ r = sup.i) \/ child[r] \in {"up", "term"}

\* Children are spawned in order, and all are reaped before process 1 returns.
Supervised ==
    /\ At("down") => \A c \in Children : child[c] \in {"none", "exited"}
    /\ sup.at \in {"config", "prepare"} => \A c \in Children : child[c] = "none"
    /\ At("spawn") => sup.i <= Nginx + 1 /\ \A c \in Children : c >= sup.i => child[c] = "none"
    /\ sup.at \in {"watch", "stop", "reap"} => \A c \in Children : c > Nginx => child[c] = "none"
    /\ At("reap") => \A c \in Children :
           child[c] # "up" /\ (c < sup.i => child[c] \in {"none", "exited"})

RuntimeInv ==
    /\ AllFiled /\ RunTypes /\ Supervised
    /\ \A r \in Readers : Attended(r)

----------------------------------------------------------------------------
(* The key files                                                            *)

LEMMA OffStart == Off \in Starts /\ Off.at = "off"
BY DEF Off, Starts, Files, Contents

LEMMA BegunStart ==
    ASSUME KeyTypes, NEW r \in Readers
    PROVE  /\ Begun(r) \in Starts /\ Begun(r).at = "open" /\ Begun(r).f = "session"
           /\ Session(r) # Absent => Begun(r).existed = TRUE
<1>1. (file[r]["session"] # Absent) \in BOOLEAN
  OBVIOUS
<1> QED
  BY <1>1 DEF Begun, Off, Starts, Files, Contents, Session

\* What does not concern a reader leaves its files and its process as they are.
LEMMA FiledFrame ==
    ASSUME NEW r, Filed(r), file'[r] = file[r], start'[r] = start[r], tenants'[r] = tenants[r]
    PROVE  Filed(r)'
BY DEF Filed, FiledUnderTenant, FiledUnderSession, Loaded, Settling, Session, Tenant

\* A process that begins, ends or fails loses what it was about to write.
LEMMA FiledReplaced ==
    ASSUME KeyTypes, NEW r \in Readers, Filed(r), UNCHANGED <<file, tenants>>,
           start'[r] \in {start[r], Off, Begun(r), [start[r] EXCEPT !.at = "failed"]}
    PROVE  Filed(r)' /\ start'[r] \in Starts
<1> USE SecretFilesAssumption
<1>1. CASE start'[r] = start[r]
  BY <1>1, FiledFrame DEF KeyTypes
<1>2. CASE start'[r] \in {Off, [start[r] EXCEPT !.at = "failed"]}
  <2>1. start'[r] \in Starts /\ start'[r].at \in {"off", "failed"}
    BY <1>2, OffStart DEF KeyTypes, Starts
  <2> QED
    BY <2>1 DEF Filed, FiledUnderTenant, FiledUnderSession, Loaded, Settling, Session, Tenant
<1>3. CASE start'[r] = Begun(r)
  <2>1. /\ start'[r] \in Starts /\ start'[r].at = "open" /\ start'[r].f = "session"
        /\ Session(r) # Absent => start'[r].existed = TRUE
    BY <1>3, BegunStart
  <2> QED
    BY <2>1 DEF Filed, FiledUnderTenant, FiledUnderSession, Loaded, Settling, Session, Tenant, IsKey
<1> QED
  BY <1>1, <1>2, <1>3

LEMMA OpenFiled == ASSUME AllFiled, NEW r \in Readers, Open(r) PROVE AllFiled'
<1> USE SecretFilesAssumption DEF Files, Contents
<1>1. /\ start[r] \in Starts /\ file[r] \in [Files -> Contents] /\ Filed(r)
      /\ start[r].at = "open" /\ start[r].f \in Files
  BY DEF AllFiled, KeyTypes, Open, Starts
<1>2. CASE file[r][start[r].f] = Absent
  <2>1. /\ file' = [file EXCEPT ![r][start[r].f] = Partial]
        /\ start' = [start EXCEPT ![r].at = "write"] /\ UNCHANGED <<tenants, drawn>>
    BY <1>2 DEF Open
  <2>2. /\ start'[r] \in Starts /\ start'[r].at = "write" /\ start'[r].f = start[r].f
        /\ start'[r].existed = start[r].existed /\ start'[r].key = start[r].key
        /\ file'[r] \in [Files -> Contents] /\ file'[r][start[r].f] = Partial
        /\ \A f \in Files : f # start[r].f => file'[r][f] = file[r][f]
    BY <1>1, <2>1 DEF AllFiled, KeyTypes, Starts
  <2>3. KeyTypes'
    BY <2>1, <2>2 DEF AllFiled, KeyTypes
  <2>4. Filed(r)'
    BY <1>1, <1>2, <2>1, <2>2
       DEF Filed, FiledUnderTenant, FiledUnderSession, Loaded, Settling, Session, Tenant, IsKey
  <2>5. \A q \in Readers : q # r => Filed(q)'
    BY <2>1, FiledFrame DEF AllFiled, KeyTypes
  <2> QED
    BY <2>3, <2>4, <2>5 DEF AllFiled
<1>3. CASE file[r][start[r].f] # Absent
  <2>1. start' = [start EXCEPT ![r].at = "load"] /\ UNCHANGED <<file, tenants, drawn>>
    BY <1>3 DEF Open
  <2>2. /\ start'[r] \in Starts /\ start'[r].at = "load" /\ start'[r].f = start[r].f
        /\ start'[r].existed = start[r].existed /\ start'[r].key = start[r].key
    BY <1>1, <2>1 DEF AllFiled, KeyTypes, Starts
  <2>3. KeyTypes'
    BY <2>1, <2>2 DEF AllFiled, KeyTypes
  <2>4. Filed(r)'
    BY <1>1, <2>1, <2>2
       DEF Filed, FiledUnderTenant, FiledUnderSession, Loaded, Settling, Session, Tenant
  <2>5. \A q \in Readers : q # r => Filed(q)'
    BY <2>1, FiledFrame DEF AllFiled, KeyTypes
  <2> QED
    BY <2>3, <2>4, <2>5 DEF AllFiled
<1> QED
  BY <1>2, <1>3

LEMMA WriteFiled == ASSUME AllFiled, NEW r \in Readers, Write(r) PROVE AllFiled'
<1> USE SecretFilesAssumption DEF Files, Contents
<1>1. /\ start[r] \in Starts /\ file[r] \in [Files -> Contents] /\ Filed(r)
      /\ start[r].at = "write" /\ start[r].f \in Files
  BY DEF AllFiled, KeyTypes, Write, Starts
<1>2. PICK k \in Nat :
        /\ file' = [file EXCEPT ![r][start[r].f] = k]
        /\ Seeds(r) => k = start[r].key["session"]
        /\ drawn' \in [Readers -> Nat]
  <2>1. CASE Seeds(r)
    <3>1. start[r].key["session"] \in Nat
      BY <1>1, <2>1 DEF Filed, Loaded, Seeds
    <3> QED
      BY <2>1, <3>1 DEF Write, AllFiled, KeyTypes
  <2>2. CASE ~Seeds(r)
    <3>1. drawn[r] + 1 \in Nat /\ drawn' = [drawn EXCEPT ![r] = drawn[r] + 1]
      BY <2>2 DEF Write, AllFiled, KeyTypes
    <3> QED
      BY <2>2, <3>1 DEF Write, AllFiled, KeyTypes
  <2> QED
    BY <2>1, <2>2
<1>3. start' = [start EXCEPT ![r].at = "load"] /\ UNCHANGED tenants
  BY DEF Write
<1>4. /\ start'[r] \in Starts /\ start'[r].at = "load" /\ start'[r].f = start[r].f
      /\ start'[r].existed = start[r].existed /\ start'[r].key = start[r].key
      /\ file'[r] \in [Files -> Contents] /\ file'[r][start[r].f] = k
      /\ \A f \in Files : f # start[r].f => file'[r][f] = file[r][f]
  BY <1>1, <1>2, <1>3 DEF AllFiled, KeyTypes, Starts
<1>5. KeyTypes'
  BY <1>2, <1>3, <1>4 DEF AllFiled, KeyTypes
<1>6. Filed(r)'
  <2>1. CASE start[r].f = "session"
    BY <1>1, <1>3, <1>4, <2>1
       DEF Filed, FiledUnderTenant, FiledUnderSession, Loaded, Settling, Session, Tenant, IsKey
  <2>2. CASE start[r].f = "tenant"
    <3>1. tenants[r] # {} => start[r].existed = TRUE /\ tenants[r] \subseteq {start[r].key["session"]}
      BY <1>1, <2>2 DEF Filed, FiledUnderSession, Settling
    <3>2. tenants[r] \subseteq {k}
      BY <1>2, <2>2, <3>1 DEF Seeds
    <3> QED
      BY <1>1, <1>3, <1>4, <2>2, <3>2
         DEF Filed, FiledUnderTenant, FiledUnderSession, Loaded, Settling, Session, Tenant, IsKey
  <2> QED
    BY <1>1, <2>1, <2>2
<1>7. \A q \in Readers : q # r => Filed(q)'
  BY <1>2, <1>3, FiledFrame DEF AllFiled, KeyTypes
<1> QED
  BY <1>5, <1>6, <1>7 DEF AllFiled

LEMMA WriteFailsFiled == ASSUME AllFiled, NEW r \in Readers, WriteFails(r) PROVE AllFiled'
<1> USE SecretFilesAssumption DEF Files, Contents
<1>1. /\ start[r] \in Starts /\ file[r] \in [Files -> Contents] /\ Filed(r)
      /\ start[r].at = "write" /\ start[r].f \in Files
  BY DEF AllFiled, KeyTypes, WriteFails, Starts
<1>2. /\ file' = [file EXCEPT ![r][start[r].f] = Absent]
      /\ start' = [start EXCEPT ![r].at = "failed"] /\ UNCHANGED <<tenants, drawn>>
  BY DEF WriteFails
<1>3. /\ start'[r] \in Starts /\ start'[r].at = "failed"
      /\ file'[r] \in [Files -> Contents] /\ file'[r][start[r].f] = Absent
      /\ \A f \in Files : f # start[r].f => file'[r][f] = file[r][f]
  BY <1>1, <1>2 DEF AllFiled, KeyTypes, Starts
<1>4. KeyTypes'
  BY <1>2, <1>3 DEF AllFiled, KeyTypes
<1>5. Filed(r)'
  <2>1. CASE start[r].f = "session"
    BY <1>1, <1>2, <1>3, <2>1
       DEF Filed, FiledUnderTenant, FiledUnderSession, Loaded, Settling, Session, Tenant, IsKey
  <2>2. CASE start[r].f = "tenant"
    BY <1>1, <1>2, <1>3, <2>2
       DEF Filed, FiledUnderTenant, FiledUnderSession, Loaded, Settling, Session, Tenant, IsKey
  <2> QED
    BY <1>1, <2>1, <2>2
<1>6. \A q \in Readers : q # r => Filed(q)'
  BY <1>2, FiledFrame DEF AllFiled, KeyTypes
<1> QED
  BY <1>4, <1>5, <1>6 DEF AllFiled

LEMMA LoadFiled == ASSUME AllFiled, NEW r \in Readers, Load(r) PROVE AllFiled'
<1> USE SecretFilesAssumption DEF Files, Contents
<1>1. /\ start[r] \in Starts /\ file[r] \in [Files -> Contents] /\ Filed(r)
      /\ start[r].at = "load" /\ start[r].f \in Files /\ UNCHANGED <<file, drawn>>
  BY DEF AllFiled, KeyTypes, Load, Starts
<1>2. CASE ~IsKey(file[r][start[r].f])
  <2>1. start' = [start EXCEPT ![r].at = "failed"] /\ UNCHANGED tenants
    BY <1>2 DEF Load
  <2>2. start'[r] = [start[r] EXCEPT !.at = "failed"] /\ \A q \in Readers : q # r => start'[q] = start[q]
    BY <2>1 DEF AllFiled, KeyTypes
  <2>3. \A q \in Readers : Filed(q)' /\ start'[q] \in Starts
    BY <1>1, <2>1, <2>2, FiledReplaced DEF AllFiled
  <2> QED
    BY <1>1, <2>1, <2>3 DEF AllFiled, KeyTypes
<1>3. CASE IsKey(file[r][start[r].f]) /\ start[r].f = "session"
  <2>1. /\ start' = [start EXCEPT ![r].at = "open", ![r].f = "tenant",
                                  ![r].key[start[r].f] = file[r][start[r].f]]
        /\ UNCHANGED tenants
    BY <1>3 DEF Load
  <2>2. /\ start'[r] \in Starts /\ start'[r].at = "open" /\ start'[r].f = "tenant"
        /\ start'[r].existed = start[r].existed /\ start'[r].key["session"] = Session(r)
        /\ Session(r) \in Nat
    BY <1>1, <1>3, <2>1 DEF AllFiled, KeyTypes, Starts, Session, IsKey
  <2>3. KeyTypes'
    BY <1>1, <2>1, <2>2 DEF AllFiled, KeyTypes
  <2>4. Filed(r)'
    BY <1>1, <1>3, <2>1, <2>2
       DEF Filed, FiledUnderTenant, FiledUnderSession, Loaded, Settling, Session, Tenant
  <2>5. \A q \in Readers : q # r => Filed(q)'
    BY <1>1, <2>1, FiledFrame DEF AllFiled, KeyTypes
  <2> QED
    BY <2>3, <2>4, <2>5 DEF AllFiled
<1>4. CASE IsKey(file[r][start[r].f]) /\ start[r].f = "tenant"
  <2>1. /\ start' = [start EXCEPT ![r].at = "built", ![r].key[start[r].f] = file[r][start[r].f]]
        /\ tenants' = [tenants EXCEPT ![r] = @ \cup {Tenant(r)}]
    BY <1>4 DEF Load, Tenant
  <2>2. /\ start'[r] \in Starts /\ start'[r].at = "built" /\ start'[r].key["tenant"] = Tenant(r)
        /\ Tenant(r) \in Nat
    BY <1>1, <1>4, <2>1 DEF AllFiled, KeyTypes, Starts, Tenant, IsKey
  <2>3. tenants[r] \subseteq {Tenant(r)}
    BY <1>1, <1>4 DEF Filed, FiledUnderTenant, Tenant
  <2>4. tenants'[r] = {Tenant(r)} /\ Tenant(r)' = Tenant(r)
    BY <1>1, <2>1, <2>3 DEF AllFiled, KeyTypes, Tenant
  <2>5. KeyTypes'
    BY <1>1, <2>1, <2>2, <2>4 DEF AllFiled, KeyTypes
  <2>6. Filed(r)'
    BY <1>1, <1>4, <2>1, <2>2, <2>4
       DEF Filed, FiledUnderTenant, FiledUnderSession, Loaded, Settling, Session, Tenant, IsKey
  <2>7. \A q \in Readers : q # r => Filed(q)'
    BY <1>1, <2>1, FiledFrame DEF AllFiled, KeyTypes
  <2> QED
    BY <2>5, <2>6, <2>7 DEF AllFiled
<1> QED
  BY <1>1, <1>2, <1>3, <1>4

\* The stopped container loses its session keys: no process is there to mind.
LEMMA RemoveFiled ==
    ASSUME AllFiled, \A r \in Readers : start[r].at = "off", RemoveSessionKeys
    PROVE  AllFiled'
<1> USE SecretFilesAssumption DEF Files, Contents, RemoveSessionKeys
<1>1. KeyTypes'
  BY DEF AllFiled, KeyTypes
<1>2. ASSUME NEW r \in Readers PROVE Filed(r)'
  <2>1. /\ file'[r]["tenant"] = file[r]["tenant"] /\ start'[r].at = "off"
        /\ file[r]["tenant"] = Absent => tenants'[r] = {}
        /\ file[r]["tenant"] # Absent => tenants'[r] = tenants[r]
    BY DEF AllFiled, KeyTypes
  <2>2. Filed(r)
    BY DEF AllFiled
  <2> QED
    BY <2>1, <2>2
       DEF Filed, FiledUnderTenant, FiledUnderSession, Loaded, Settling, Session, Tenant, IsKey
<1> QED
  BY <1>1, <1>2 DEF AllFiled

LEMMA AllReplaced ==
    ASSUME AllFiled, UNCHANGED <<file, tenants, drawn>>,
           start' = [r \in Readers |-> start'[r]],
           \A r \in Readers : start'[r] \in {start[r], Off, Begun(r), [start[r] EXCEPT !.at = "failed"]}
    PROVE  AllFiled'
<1>1. \A r \in Readers : Filed(r)' /\ start'[r] \in Starts
  BY FiledReplaced DEF AllFiled
<1> QED
  BY <1>1 DEF AllFiled, KeyTypes

----------------------------------------------------------------------------
(* Process 1 and its children                                               *)

LEMMA RuntimeInitInv == RuntimeInit => RuntimeInv
<1> SUFFICES ASSUME RuntimeInit PROVE RuntimeInv
  OBVIOUS
<1> USE SecretFilesAssumption, HubRuntimeAssumption
<1>1. PICK legacy \in SUBSET Readers :
        /\ file = [r \in Readers |-> [f \in Files |->
                      IF r \in legacy /\ f = "session" THEN 1 ELSE Absent]]
        /\ drawn = [r \in Readers |-> IF r \in legacy THEN 1 ELSE 0]
        /\ tenants = [r \in Readers |-> IF r \in legacy THEN {1} ELSE {}]
        /\ start = [r \in Readers |-> Off]
  BY DEF RuntimeInit, InitKeys
<1>2. KeyTypes
  BY <1>1, OffStart DEF KeyTypes, Files, Contents
<1>3. ASSUME NEW r \in Readers PROVE Filed(r)
  <2>1. /\ start[r].at = "off" /\ Tenant(r) = Absent
        /\ r \in legacy => Session(r) = 1 /\ tenants[r] = {1}
        /\ r \notin legacy => tenants[r] = {}
    BY <1>1, OffStart DEF Tenant, Session, Files
  <2> QED
    BY <2>1 DEF Filed, FiledUnderTenant, FiledUnderSession, Loaded, Settling, IsKey
<1>4. \A r \in Readers : Attended(r)
  BY <1>1, OffStart DEF Attended
<1>5. RunTypes /\ Supervised
  BY DEF RuntimeInit, RunTypes, Supervised, At, Children
<1> QED
  BY <1>2, <1>3, <1>4, <1>5 DEF RuntimeInv, AllFiled

\* The steps of a reader's process leave process 1 and the children alone.
LEMMA KeyStepInv ==
    ASSUME RuntimeInv, NEW r \in Readers, KeyStep(r) \/ WriteFails(r),
           UNCHANGED <<env, supervisor, wanted, kills, stops>>
    PROVE  RuntimeInv'
<1>1. AllFiled'
  BY OpenFiled, WriteFiled, LoadFiled, WriteFailsFiled DEF RuntimeInv, KeyStep
<1>2. \A q \in Readers : start'[q].at # "off" => start[q].at # "off"
  BY DEF RuntimeInv, AllFiled, KeyTypes, KeyStep, Open, Write, Load, WriteFails
<1>3. RunTypes' /\ Supervised'
  BY DEF RuntimeInv, supervisor, RunTypes, Supervised, At, Nginx
<1>4. \A q \in Readers : Attended(q)'
  BY <1>2 DEF RuntimeInv, supervisor, Attended, At, Enabled
<1> QED
  BY <1>1, <1>3, <1>4 DEF RuntimeInv

LEMMA ContainerStartsInv == ASSUME RuntimeInv, ContainerStarts PROVE RuntimeInv'
<1> USE DEF ContainerStarts
<1>1. AllFiled'
  BY AllReplaced DEF RuntimeInv
<1>2. RunTypes' /\ Supervised'
  BY DEF RuntimeInv, RunTypes, Supervised, At, Goto
<1>3. \A r \in Readers : Attended(r)'
  BY OffStart DEF Attended
<1> QED
  BY <1>1, <1>2, <1>3 DEF RuntimeInv

LEMMA ContainerKilledInv == ASSUME RuntimeInv, ContainerKilled PROVE RuntimeInv'
<1> USE DEF ContainerKilled
<1>1. AllFiled'
  BY AllReplaced DEF RuntimeInv
<1>2. RunTypes' /\ Supervised'
  BY DEF RuntimeInv, RunTypes, Supervised, At, Goto
<1>3. \A r \in Readers : Attended(r)'
  BY OffStart DEF Attended
<1> QED
  BY <1>1, <1>2, <1>3 DEF RuntimeInv

\* Process 1 goes on and no process of a reader begins or ends.
LEMMA KeysUnchanged ==
    ASSUME RuntimeInv, UNCHANGED <<file, start, drawn, tenants>>
    PROVE  AllFiled'
BY AllReplaced DEF RuntimeInv, AllFiled, KeyTypes

LEMMA ConfigureInv == ASSUME RuntimeInv, Configure PROVE RuntimeInv'
<1> USE HubRuntimeAssumption DEF Configure, keys
<1>1. AllFiled'
  BY KeysUnchanged
<1>2. RunTypes' /\ Supervised'
  BY DEF RuntimeInv, RunTypes, Supervised, At, Goto, Nginx
<1>3. \A r \in Readers : Attended(r)'
  BY DEF RuntimeInv, RunTypes, Supervised, Attended, At, Goto, Enabled, Children
<1> QED
  BY <1>1, <1>2, <1>3 DEF RuntimeInv

LEMMA PrepareReaderInv == ASSUME RuntimeInv, PrepareReader PROVE RuntimeInv'
<1> USE HubRuntimeAssumption DEF PrepareReader, supervisor
<1>1. sup.i \in Readers
  BY DEF RuntimeInv, RunTypes, Enabled
<1>2. AllFiled'
  BY <1>1, AllReplaced DEF RuntimeInv, AllFiled, KeyTypes
<1>3. RunTypes' /\ Supervised'
  BY DEF RuntimeInv, RunTypes, Supervised, At, Nginx
<1>4. \A r \in Readers : Attended(r)'
  BY <1>1 DEF RuntimeInv, AllFiled, KeyTypes, Attended, At, Enabled
<1> QED
  BY <1>2, <1>3, <1>4 DEF RuntimeInv

LEMMA PreparedInv == ASSUME RuntimeInv, Prepared PROVE RuntimeInv'
<1> USE HubRuntimeAssumption DEF Prepared
<1>1. sup.i \in Readers
  BY DEF RuntimeInv, RunTypes, Enabled
<1>2. AllFiled'
  BY <1>1, AllReplaced DEF RuntimeInv, AllFiled, KeyTypes
<1>3. RunTypes' /\ Supervised'
  BY DEF RuntimeInv, RunTypes, Supervised, At, Goto, Nginx
<1>4. ASSUME NEW r \in Readers PROVE Attended(r)'
  <2>1. CASE r = sup.i
    <3>1. start'[r] = Off
      BY <1>1, <2>1 DEF RuntimeInv, AllFiled, KeyTypes
    <3> QED
      BY <3>1, OffStart DEF Attended
  <2>2. CASE r # sup.i
    <3>1. r \in Children
      BY DEF Children
    <3>2. start'[r] = start[r] /\ child[r] = "none"
      BY <2>2, <3>1 DEF RuntimeInv, AllFiled, KeyTypes, Supervised, At
    <3> QED
      BY <2>2, <3>2 DEF RuntimeInv, Attended
  <2> QED
    BY <2>1, <2>2
<1> QED
  BY <1>2, <1>3, <1>4 DEF RuntimeInv

LEMMA PrepareKilledInv == ASSUME RuntimeInv, PrepareKilled PROVE RuntimeInv'
<1> USE HubRuntimeAssumption DEF PrepareKilled, supervisor
<1>1. sup.i \in Readers
  BY DEF RuntimeInv, RunTypes, Enabled
<1>2. AllFiled'
  BY <1>1, AllReplaced DEF RuntimeInv, AllFiled, KeyTypes
<1>3. RunTypes' /\ Supervised'
  BY DEF RuntimeInv, RunTypes, Supervised, At, Nginx
<1>4. \A r \in Readers : Attended(r)'
  BY <1>1 DEF RuntimeInv, AllFiled, KeyTypes, Attended, At, Enabled
<1> QED
  BY <1>2, <1>3, <1>4 DEF RuntimeInv

LEMMA TestNginxInv == ASSUME RuntimeInv, TestNginx PROVE RuntimeInv'
<1> USE HubRuntimeAssumption DEF TestNginx, keys
<1>1. AllFiled'
  BY KeysUnchanged
<1>2. RunTypes' /\ Supervised'
  BY DEF RuntimeInv, RunTypes, Supervised, At, Goto, Nginx
<1>3. \A r \in Readers : start[r].at = "off"
  BY DEF RuntimeInv, RunTypes, Supervised, Attended, At, Enabled, Nginx, Children
<1> QED
  BY <1>1, <1>2, <1>3 DEF RuntimeInv, Attended

LEMMA PrepareFailsInv == ASSUME RuntimeInv, PrepareFails PROVE RuntimeInv'
<1> USE HubRuntimeAssumption DEF PrepareFails
<1>1. AllFiled'
  BY KeysUnchanged
<1>2. RunTypes' /\ Supervised'
  BY DEF RuntimeInv, RunTypes, Supervised, At, Goto
<1>3. \A r \in Readers : start[r].at = "off"
  BY DEF RuntimeInv, RunTypes, Supervised, Attended, At, Enabled, Children
<1> QED
  BY <1>1, <1>2, <1>3 DEF RuntimeInv, Attended

LEMMA SpawnInv == ASSUME RuntimeInv, Spawn PROVE RuntimeInv'
<1> USE HubRuntimeAssumption DEF Spawn
<1>1. CASE sup.i > Nginx
  <2>1. AllFiled'
    BY <1>1, KeysUnchanged
  <2>2. RunTypes' /\ Supervised'
    BY <1>1 DEF RuntimeInv, RunTypes, Supervised, At, Goto, Nginx, Children
  <2>3. \A r \in Readers : Attended(r)'
    BY <1>1 DEF RuntimeInv, Attended, At, Goto, Enabled
  <2> QED
    BY <2>1, <2>2, <2>3 DEF RuntimeInv
<1>2. CASE ~(sup.i > Nginx)
  <2>1. /\ sup.i \in Nat /\ sup.i <= Nginx /\ env.n \in 1..MaxReaders /\ env' = env
        /\ sup' = [at |-> "spawn", i |-> sup.i + 1]
        /\ child' = [child EXCEPT ![sup.i] = "up"]
    BY <1>2 DEF RuntimeInv, RunTypes, Nginx, Goto, At
  <2>2. AllFiled'
    BY <1>2, AllReplaced DEF RuntimeInv, AllFiled, KeyTypes
  <2>3. /\ child' \in [Children -> {"none", "up", "term", "exited"}]
        /\ \A c \in Children : c # sup.i => child'[c] = child[c]
    BY <2>1 DEF RuntimeInv, RunTypes
  <2>4. RunTypes'
    BY <2>1, <2>3 DEF RuntimeInv, RunTypes
  <2>5. Supervised'
    <3>1. \A c \in Children : c >= sup.i => child[c] = "none"
      BY DEF RuntimeInv, Supervised, At
    <3>2. \A c \in Children : c >= sup.i + 1 => child'[c] = "none"
      BY <2>1, <2>3, <3>1 DEF Children
    <3> QED
      BY <2>1, <3>2 DEF Supervised, At, Nginx
  <2>6. ASSUME NEW r \in Readers PROVE Attended(r)'
    <3>1. r \in Children
      BY DEF Children
    <3>2. child'[r] = IF r = sup.i THEN "up" ELSE child[r]
      BY <2>1, <3>1 DEF RuntimeInv, RunTypes
    <3>3. r # sup.i \/ r \notin Enabled => start'[r] = start[r]
      BY <1>2 DEF RuntimeInv, AllFiled, KeyTypes
    <3> QED
      BY <2>1, <3>2, <3>3 DEF RuntimeInv, Attended, At, Enabled
  <2> QED
    BY <2>2, <2>4, <2>5, <2>6 DEF RuntimeInv
<1> QED
  BY <1>1, <1>2

LEMMA SpawnFailsInv == ASSUME RuntimeInv, SpawnFails PROVE RuntimeInv'
<1> USE HubRuntimeAssumption DEF SpawnFails
<1>1. AllFiled'
  BY KeysUnchanged
<1>2. RunTypes' /\ Supervised'
  BY DEF RuntimeInv, RunTypes, Supervised, At, Goto, Nginx, Children
<1>3. \A r \in Readers : Attended(r)'
  BY DEF RuntimeInv, Attended, At, Goto, Enabled
<1> QED
  BY <1>1, <1>2, <1>3 DEF RuntimeInv

LEMMA PollInv == ASSUME RuntimeInv, Poll PROVE RuntimeInv'
<1> USE HubRuntimeAssumption DEF Poll, keys
<1>1. AllFiled'
  BY KeysUnchanged
<1>2. RunTypes' /\ Supervised'
  BY DEF RuntimeInv, RunTypes, Supervised, At, Goto, Nginx
<1>3. \A r \in Readers : Attended(r)'
  BY DEF RuntimeInv, Attended, At, Goto, Enabled
<1> QED
  BY <1>1, <1>2, <1>3 DEF RuntimeInv

LEMMA TerminateInv == ASSUME RuntimeInv, Terminate PROVE RuntimeInv'
<1> USE HubRuntimeAssumption DEF Terminate, keys
<1>1. AllFiled'
  BY KeysUnchanged
<1>2. RunTypes' /\ Supervised'
  BY DEF RuntimeInv, RunTypes, Supervised, At, Goto, Nginx, Children
<1>3. \A r \in Readers : Attended(r)'
  BY DEF RuntimeInv, Attended, At, Goto, Enabled, Children
<1> QED
  BY <1>1, <1>2, <1>3 DEF RuntimeInv

LEMMA ReapInv == ASSUME RuntimeInv, Reap PROVE RuntimeInv'
<1> USE HubRuntimeAssumption DEF Reap, keys
<1>1. AllFiled'
  BY KeysUnchanged
<1>2. RunTypes'
  BY DEF RuntimeInv, RunTypes, Goto
<1>3. Supervised'
  <2>1. CASE sup.i > Nginx
    BY <2>1 DEF RuntimeInv, RunTypes, Supervised, At, Goto, Nginx, Children
  <2>2. CASE ~(sup.i > Nginx)
    BY <2>2 DEF RuntimeInv, RunTypes, Supervised, At, Goto, Nginx, Children
  <2> QED
    BY <2>1, <2>2
<1>4. \A r \in Readers : Attended(r)'
  BY DEF RuntimeInv, Attended, At, Goto, Enabled
<1> QED
  BY <1>1, <1>2, <1>3, <1>4 DEF RuntimeInv

\* A child that runs ends, and its reader's process with it.
LEMMA ChildEnds ==
    ASSUME RuntimeInv, NEW c \in Children, child[c] \in {"up", "term"},
           child' = [child EXCEPT ![c] = "exited"],
           start' = IF c \in Enabled THEN [start EXCEPT ![c] = Off] ELSE start,
           UNCHANGED <<file, drawn, tenants, env, sup>>
    PROVE  RuntimeInv'
<1> USE HubRuntimeAssumption
<1>1. AllFiled'
  BY AllReplaced DEF RuntimeInv, AllFiled, KeyTypes
<1>2. RunTypes' /\ Supervised'
  BY DEF RuntimeInv, RunTypes, Supervised, At, Nginx, Children
<1>3. ASSUME NEW r \in Readers PROVE Attended(r)'
  <2>1. r \in Children /\ child'[r] = IF r = c THEN "exited" ELSE child[r]
    BY DEF RuntimeInv, RunTypes, Children
  <2>2. r # c => start'[r] = start[r]
    BY DEF RuntimeInv, AllFiled, KeyTypes
  <2>3. r = c => start'[r].at = "off"
    BY OffStart DEF RuntimeInv, AllFiled, KeyTypes, Attended
  <2> QED
    BY <2>1, <2>2, <2>3 DEF RuntimeInv, Attended, At, Enabled
<1> QED
  BY <1>1, <1>2, <1>3 DEF RuntimeInv

LEMMA WorkerDiesInv == ASSUME RuntimeInv, NEW r \in Readers, WorkerDies(r) PROVE RuntimeInv'
<1> USE HubRuntimeAssumption DEF WorkerDies, supervisor
<1>1. AllFiled'
  BY AllReplaced DEF RuntimeInv, AllFiled, KeyTypes
<1>2. RunTypes' /\ Supervised'
  BY DEF RuntimeInv, RunTypes, Supervised, At, Nginx
<1>3. \A q \in Readers : Attended(q)'
  BY DEF RuntimeInv, AllFiled, KeyTypes, Attended, At, Enabled
<1> QED
  BY <1>1, <1>2, <1>3 DEF RuntimeInv

LEMMA StopRequestedInv == ASSUME RuntimeInv, StopRequested PROVE RuntimeInv'
<1> USE DEF StopRequested, keys
<1>1. AllFiled'
  BY KeysUnchanged
<1>2. UNCHANGED <<env, sup, child, start>>
  OBVIOUS
<1> HIDE DEF StopRequested
<1>3. RunTypes' /\ Supervised' /\ \A r \in Readers : Attended(r)'
  BY <1>2 DEF RuntimeInv, RunTypes, Supervised, Attended, At, Nginx, Enabled
<1> QED
  BY <1>1, <1>3 DEF RuntimeInv

LEMMA StartRequestedInv == ASSUME RuntimeInv, StartRequested PROVE RuntimeInv'
<1> USE HubRuntimeAssumption DEF StartRequested, supervisor, keys
<1>1. \A r \in Readers : start[r].at = "off"
  BY DEF RuntimeInv, Supervised, Attended, At, Children
<1>2. AllFiled'
  BY <1>1, RemoveFiled, KeysUnchanged DEF RuntimeInv
<1>3. UNCHANGED <<env, sup, child, start>>
  BY DEF RemoveSessionKeys
<1>4. RunTypes' /\ Supervised' /\ \A r \in Readers : Attended(r)'
  BY <1>3 DEF RuntimeInv, RunTypes, Supervised, Attended, At, Nginx, Enabled
<1> QED
  BY <1>2, <1>4 DEF RuntimeInv

LEMMA RuntimeStepInv == RuntimeInv /\ [RuntimeNext]_runtimeVars => RuntimeInv'
<1> SUFFICES ASSUME RuntimeInv, [RuntimeNext]_runtimeVars PROVE RuntimeInv'
  OBVIOUS
<1>1. CASE Step
  <2>1. CASE WaitTimesOut
    BY <2>1, ChildEnds DEF WaitTimesOut
  <2>2. ASSUME NEW r \in Readers, KeyStep(r), UNCHANGED <<env, supervisor, wanted, kills, stops>>
        PROVE  RuntimeInv'
    BY <2>2, KeyStepInv
  <2> QED
    BY <1>1, <2>1, <2>2, ContainerStartsInv, ConfigureInv, PrepareReaderInv, PreparedInv,
       TestNginxInv, SpawnInv, PollInv, TerminateInv, ReapInv DEF Step
<1>2. CASE \/ PrepareFails \/ PrepareKilled \/ SpawnFails
           \/ StopRequested \/ ContainerKilled \/ StartRequested
  BY <1>2, PrepareFailsInv, PrepareKilledInv, SpawnFailsInv, StopRequestedInv,
     ContainerKilledInv, StartRequestedInv
<1>3. ASSUME NEW r \in Readers,
             \/ WorkerDies(r)
             \/ WriteFails(r) /\ UNCHANGED <<env, supervisor, wanted, kills, stops>>
      PROVE  RuntimeInv'
  BY <1>3, WorkerDiesInv, KeyStepInv
<1>4. ASSUME NEW c \in Children, ChildDies(c) \/ ChildStops(c) PROVE RuntimeInv'
  BY <1>4, ChildEnds DEF ChildDies, ChildStops
<1>5. CASE UNCHANGED runtimeVars
  <2>1. AllFiled'
    BY <1>5, KeysUnchanged DEF runtimeVars, keys
  <2>2. UNCHANGED <<env, sup, child, start>>
    BY <1>5 DEF runtimeVars, keys, supervisor
  <2>3. RunTypes' /\ Supervised' /\ \A r \in Readers : Attended(r)'
    BY <2>2 DEF RuntimeInv, RunTypes, Supervised, Attended, At, Nginx, Enabled
  <2> QED
    BY <2>1, <2>3 DEF RuntimeInv
<1> QED
  BY <1>1, <1>2, <1>3, <1>4, <1>5 DEF RuntimeNext

----------------------------------------------------------------------------
(* For any number of readers, deaths, failed spawns and stops: when        *)
(* process 1 has returned, every child that it has started has ended.      *)
THEOREM NoChildLeft == RuntimeSpec => []NoneLeft
<1>1. RuntimeInv => NoneLeft
  BY DEF RuntimeInv, Supervised, NoneLeft
<1> QED
  BY RuntimeInitInv, RuntimeStepInv, <1>1, PTL DEF RuntimeSpec

(* For any number of readers: all the data of a reader is filed under one  *)
(* tenant key, whatever fails, is killed, restarted, removed or upgraded.  *)
THEOREM OneTenantKey == RuntimeSpec => []TenantKept
<1>1. RuntimeInv => TenantKept
  <2> SUFFICES ASSUME RuntimeInv, NEW r \in Readers
               PROVE  /\ Cardinality(tenants[r]) <= 1
                      /\ start[r].at = "built" => start[r].key["tenant"] \in tenants[r]
    BY DEF TenantKept
  <2>1. Filed(r)
    BY DEF RuntimeInv, AllFiled
  <2>2. PICK k \in Nat : tenants[r] \subseteq {k}
    BY <2>1 DEF Filed, FiledUnderTenant
  <2>3. IsFiniteSet({k}) /\ Cardinality({k}) = 1
    BY FS_Singleton
  <2>4. Cardinality(tenants[r]) <= 1
    BY <2>2, <2>3, FS_Subset
  <2> QED
    BY <2>1, <2>4 DEF Filed, FiledUnderTenant
<1> QED
  BY RuntimeInitInv, RuntimeStepInv, <1>1, PTL DEF RuntimeSpec
=============================================================================
