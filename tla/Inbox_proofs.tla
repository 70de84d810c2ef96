----------------------------- MODULE Inbox_proofs -----------------------------
(* Theorems about the inbox, the submissions and the transcript of           *)
(* Conversation, for every value of its constants.                           *)
EXTENDS Conversation_proofs, Subsequences_proofs

-----------------------------------------------------------------------------
(* Placing the items of a list one by one.                                   *)

\* One item placed, or left where it is.
OnePlaced(b, i, items, K) ==
  IF i \notin K THEN b
  ELSE IF items[i].mode = "write" THEN PlaceWrite(b, items[i]) ELSE PlaceUser(b, items[i])

\* f is the boundary b with the items at K placed up to each place up to k.
PlacesAll(f, k, b, items, K) ==
  f = [i \in 0..k |-> IF i = 0 THEN b ELSE OnePlaced(f[i - 1], i, items, K)]

LEMMA PlacesAllAt ==
  ASSUME NEW f, NEW k, NEW b, NEW items, NEW K, PlacesAll(f, k, b, items, K), NEW j \in 0..k
  PROVE  f[j] = IF j = 0 THEN b ELSE OnePlaced(f[j - 1], j, items, K)
  <1> DEFINE E(i) == IF i = 0 THEN b ELSE OnePlaced(f[i - 1], i, items, K)
  <1>1. f = [i \in 0..k |-> E(i)]
    BY DEF PlacesAll
  <1> HIDE DEF E
  <1>2. f[j] = E(j)
    BY <1>1
  <1> QED BY <1>2 DEF E

LEMMA PlacementExists ==
  ASSUME NEW b, NEW items, Len(items) \in Nat, NEW K
  PROVE  \E f : PlacesAll(f, Len(items), b, items, K)
  <1> DEFINE n == Len(items)
             T == {k \in 0..n : \E f : PlacesAll(f, k, b, items, K)}
  <1>1. 0 \in T
    <2>1. PlacesAll([i \in 0..0 |-> b], 0, b, items, K)
      BY DEF PlacesAll
    <2> QED BY <2>1
  <1>2. ASSUME NEW i \in 1..n, i - 1 \in T PROVE i \in T
    <2>1. PICK f : PlacesAll(f, i - 1, b, items, K)
      BY <1>2
    <2> DEFINE g == [j \in 0..i |-> IF j < i THEN f[j]
                                        ELSE OnePlaced(f[i - 1], i, items, K)]
    <2>2. ASSUME NEW j \in 0..i
          PROVE  g[j] = IF j = 0 THEN b ELSE OnePlaced(g[j - 1], j, items, K)
      <3>1. CASE j = i
        <4>1. g[i] = OnePlaced(f[i - 1], i, items, K)
          OBVIOUS
        <4>2. g[i - 1] = f[i - 1]
          OBVIOUS
        <4> QED BY <3>1, <4>1, <4>2
      <3>2. CASE j < i
        <4>1. f[j] = IF j = 0 THEN b ELSE OnePlaced(f[j - 1], j, items, K)
          BY <2>1, <3>2, PlacesAllAt
        <4>2. g[j] = f[j] /\ (j # 0 => g[j - 1] = f[j - 1])
          BY <3>2
        <4> QED BY <4>1, <4>2
      <3> QED BY <3>1, <3>2
    <2>3. g = [j \in 0..i |-> g[j]]
      OBVIOUS
    <2> HIDE DEF g
    <2>4. PlacesAll(g, i, b, items, K)
      BY <2>2, <2>3 DEF PlacesAll
    <2> QED BY <2>4
  <1> HIDE DEF T
  <1>3. 0..n \subseteq T
    BY <1>1, <1>2, AllPlaces
  <1> QED BY <1>3 DEF T

\* What holds before, and goes on to hold item by item, holds of the placement.
LEMMA Placement ==
  ASSUME NEW b, NEW items, Len(items) \in Nat, NEW K, NEW J, b \in J[0],
         \A i \in 1..Len(items) : \A r \in J[i - 1] :
           OnePlaced(r, i, items, K) \in J[i]
  PROVE  PlaceItems(b, items, K) \in J[Len(items)]
  <1> DEFINE n == Len(items)
             F == CHOOSE f : PlacesAll(f, n, b, items, K)
             T == {i \in 0..n : F[i] \in J[i]}
  <1>1. PlacesAll(F, n, b, items, K)
    BY PlacementExists
  <1>2. PlaceItems(b, items, K) = F[n]
    BY DEF PlaceItems, PlacesAll, OnePlaced
  <1> HIDE DEF F
  <1>3. F[0] = b /\ \A i \in 1..n : F[i] = OnePlaced(F[i - 1], i, items, K)
    BY <1>1, PlacesAllAt
  <1>4. 0 \in T
    BY <1>3
  <1>5. ASSUME NEW i \in 1..n, i - 1 \in T PROVE i \in T
    <2>1. F[i - 1] \in J[i - 1]
      BY <1>5
    <2>2. OnePlaced(F[i - 1], i, items, K) \in J[i]
      BY <2>1
    <2>3. F[i] \in J[i]
      BY <1>3, <2>2
    <2> QED BY <2>3
  <1> HIDE DEF T
  <1>6. 0..n \subseteq T
    BY <1>4, <1>5, AllPlaces
  <1> QED BY <1>2, <1>6 DEF T

-----------------------------------------------------------------------------
(* Selections.                                                               *)

Members(q) == {q[i] : i \in DOMAIN q}
Ids(q) == {q[i].id : i \in DOMAIN q}
Increasing(q) == \A i, j \in DOMAIN q : i < j => q[i].id < q[j].id

LEMMA AppendMembers ==
  ASSUME NEW X, NEW q \in Seq(X), NEW x \in X
  PROVE  /\ Append(q, x) \in Seq(X) /\ Members(Append(q, x)) = Members(q) \cup {x}
         /\ Len(Append(q, x)) = Len(q) + 1
         /\ Append(q, x)[Len(q) + 1] = x
         /\ \A i \in 1..Len(q) : Append(q, x)[i] = q[i]
  <1>1. /\ Append(q, x) \in Seq(X) /\ Len(Append(q, x)) = Len(q) + 1 /\ Len(q) \in Nat
        /\ Append(q, x)[Len(q) + 1] = x
        /\ \A i \in 1..Len(q) : Append(q, x)[i] = q[i]
    OBVIOUS
  <1>2. DOMAIN q = 1..Len(q) /\ DOMAIN Append(q, x) = (1..Len(q)) \cup {Len(q) + 1}
    BY <1>1
  <1> QED BY <1>1, <1>2 DEF Members

\* A selection has the items at K and keeps their order.
LEMMA SelectionFits ==
  ASSUME NEW X, \A x \in X : x.id \in Nat, NEW items \in Seq(X), NEW K
  PROVE  /\ ItemsAt(items, K) \in Seq(X)
         /\ Members(ItemsAt(items, K)) = {items[i] : i \in K \cap DOMAIN items}
         /\ Increasing(items) => Increasing(ItemsAt(items, K))
  <1> DEFINE n == Len(items)
             Fits(r, i) == /\ Members(r) = {items[j] : j \in K \cap (1..i)}
                           /\ Increasing(items) => Increasing(r)
             J == [i \in 0..n |-> {r \in Seq(X) : Fits(r, i)}]
  <1>1. n \in Nat /\ DOMAIN items = 1..n /\ \A i \in 1..n : items[i] \in X
    OBVIOUS
  <1> HIDE DEF n
  <1>2. <<>> \in J[0]
    BY <1>1 DEF Members, Increasing
  <1>3. ASSUME NEW i \in 1..n, NEW r \in J[i - 1]
        PROVE  IF i \in K THEN Append(r, items[i]) \in J[i] ELSE r \in J[i]
    <2>1. i \in Nat /\ i - 1 \in 0..n /\ i \in 0..n /\ 1..i = (1..(i - 1)) \cup {i}
      BY <1>1
    <2>2. r \in Seq(X) /\ Fits(r, i - 1)
      BY <2>1
    <2>3. CASE i \notin K
      <3>1. K \cap (1..i) = K \cap (1..(i - 1))
        BY <2>1, <2>3
      <3>2. Fits(r, i)
        BY <2>2, <3>1
      <3> QED BY <2>1, <2>2, <2>3, <3>2
    <2>4. CASE i \in K
      <3> DEFINE a == Append(r, items[i])
      <3>1. K \cap (1..i) = (K \cap (1..(i - 1))) \cup {i}
        BY <2>1, <2>4
      <3>2. /\ a \in Seq(X) /\ Members(a) = Members(r) \cup {items[i]}
            /\ Len(a) = Len(r) + 1 /\ Len(r) \in Nat /\ a[Len(r) + 1] = items[i]
            /\ \A k \in 1..Len(r) : a[k] = r[k]
        BY <1>1, <2>2, AppendMembers
      <3> HIDE DEF a
      <3>3. Members(a) = {items[j] : j \in K \cap (1..i)}
        BY <2>2, <3>1, <3>2
      <3>4. ASSUME Increasing(items) PROVE Increasing(a)
        <4>1. DOMAIN a = 1..(Len(r) + 1) /\ DOMAIN r = 1..Len(r)
          BY <2>2, <3>2
        <4>2. ASSUME NEW k \in 1..Len(r) PROVE \E j \in 1..(i - 1) : r[k] = items[j]
          <5>1. r[k] \in Members(r)
            BY <4>1 DEF Members
          <5> QED BY <2>2, <5>1
        <4>3. ASSUME NEW k \in 1..Len(r) PROVE r[k].id < items[i].id
          <5>1. PICK j \in 1..(i - 1) : r[k] = items[j]
            BY <4>2
          <5>2. j \in DOMAIN items /\ i \in DOMAIN items /\ j < i
            BY <1>1, <2>1
          <5> QED BY <3>4, <5>1, <5>2 DEF Increasing
        <4>4. Increasing(r)
          BY <2>2, <3>4
        <4>5. ASSUME NEW k \in DOMAIN a, NEW m \in DOMAIN a, k < m PROVE a[k].id < a[m].id
          <5>1. CASE m = Len(r) + 1
            <6>1. k \in 1..Len(r)
              BY <3>2, <4>1, <4>5, <5>1
            <6> QED BY <3>2, <4>3, <5>1, <6>1
          <5>2. CASE m # Len(r) + 1
            <6>1. k \in 1..Len(r) /\ m \in 1..Len(r)
              BY <3>2, <4>1, <4>5, <5>2
            <6>2. r[k].id < r[m].id
              BY <4>1, <4>4, <4>5, <6>1 DEF Increasing
            <6> QED BY <3>2, <6>1, <6>2
          <5> QED BY <5>1, <5>2
        <4> QED BY <4>5 DEF Increasing
      <3> QED BY <2>1, <2>4, <3>2, <3>3, <3>4 DEF a
    <2> QED BY <2>3, <2>4
  <1>4. J[n] = {r \in Seq(X) : Fits(r, n)}
    BY <1>1
  <1> HIDE DEF J, Fits
  <1>5. ItemsAt(items, K) \in J[n]
    BY <1>1, <1>2, <1>3, Selection DEF n
  <1>6. ItemsAt(items, K) \in Seq(X) /\ Fits(ItemsAt(items, K), n)
    BY <1>4, <1>5
  <1> QED BY <1>1, <1>6 DEF Fits

\* Withdrawn items leave, the others keep their order.
LEMMA WithoutFits ==
  ASSUME NEW X, \A x \in X : x.id \in Nat, NEW items \in Seq(X), NEW S
  PROVE  /\ Without(items, S) \in Seq(X)
         /\ Members(Without(items, S)) = {x \in Members(items) : x.id \notin S}
         /\ Ids(Without(items, S)) = Ids(items) \ S
         /\ Increasing(items) => Increasing(Without(items, S))
  <1> DEFINE K == {i \in DOMAIN items : items[i].id \notin S}
  <1>1. Without(items, S) = ItemsAt(items, K)
    BY DEF Without
  <1> HIDE DEF K
  <1>2. /\ Without(items, S) \in Seq(X)
        /\ Members(Without(items, S)) = {items[i] : i \in K \cap DOMAIN items}
        /\ Increasing(items) => Increasing(Without(items, S))
    BY <1>1, SelectionFits
  <1>3. Members(Without(items, S)) = {x \in Members(items) : x.id \notin S}
    BY <1>2 DEF K, Members
  <1>4. Ids(Without(items, S)) = {x.id : x \in Members(Without(items, S))}
    BY DEF Ids, Members
  <1>5. Ids(items) = {x.id : x \in Members(items)}
    BY DEF Ids, Members
  <1> QED BY <1>2, <1>3, <1>4, <1>5

\* There is one selection: a function that selects item by item ends with it.
LEMMA SelectionIs ==
  ASSUME NEW items, Len(items) \in Nat, NEW K, NEW f, Selects(f, Len(items), items, K)
  PROVE  ItemsAt(items, K) = f[Len(items)]
  <1> DEFINE n == Len(items)
             J == [i \in 0..n |-> {f[i]}]
  <1>1. \A i \in 0..n : J[i] = {f[i]}
    OBVIOUS
  <1>2. <<>> \in J[0]
    BY <1>1, SelectsAt
  <1>3. ASSUME NEW i \in 1..n, NEW r \in J[i - 1]
        PROVE  IF i \in K THEN Append(r, items[i]) \in J[i] ELSE r \in J[i]
    <2>1. r = f[i - 1] /\ i \in 0..n /\ i # 0
      BY <1>1
    <2>2. f[i] = IF i \in K THEN Append(f[i - 1], items[i]) ELSE f[i - 1]
      BY <2>1, SelectsAt
    <2> QED BY <1>1, <2>1, <2>2
  <1> HIDE DEF J
  <1>4. ItemsAt(items, K) \in J[n]
    BY <1>2, <1>3, Selection
  <1> QED BY <1>1, <1>4

-----------------------------------------------------------------------------
(* What the abstract queue shows of an item.                                 *)

Shows(q) == [i \in DOMAIN q |-> [id |-> q[i].id, mode |-> q[i].mode]]

LEMMA ShowsAppend ==
  ASSUME NEW X, NEW q \in Seq(X), NEW x \in X
  PROVE  Shows(Append(q, x)) = Append(Shows(q), [id |-> x.id, mode |-> x.mode])
  <1> DEFINE y == [id |-> x.id, mode |-> x.mode]
             Y == {[id |-> z.id, mode |-> z.mode] : z \in X}
  <1>1. /\ Append(q, x) \in Seq(X) /\ Len(Append(q, x)) = Len(q) + 1 /\ Len(q) \in Nat
        /\ Append(q, x)[Len(q) + 1] = x
        /\ \A i \in 1..Len(q) : Append(q, x)[i] = q[i]
        /\ \A i \in 1..Len(q) : q[i] \in X
    OBVIOUS
  <1>2. Shows(q) \in Seq(Y) /\ Len(Shows(q)) = Len(q) /\ y \in Y
    <2>1. Shows(q) = [i \in 1..Len(q) |-> [id |-> q[i].id, mode |-> q[i].mode]]
      BY DEF Shows
    <2>2. \A i \in 1..Len(q) : [id |-> q[i].id, mode |-> q[i].mode] \in Y
      BY <1>1
    <2> QED BY <1>1, <2>1, <2>2
  <1>3. DOMAIN Append(Shows(q), y) = 1..(Len(q) + 1)
    BY <1>1, <1>2
  <1>4. DOMAIN Append(q, x) = 1..(Len(q) + 1)
    BY <1>1
  <1>5. ASSUME NEW i \in 1..(Len(q) + 1)
        PROVE  Shows(Append(q, x))[i] = Append(Shows(q), y)[i]
    <2>1. Shows(Append(q, x))[i] = [id |-> Append(q, x)[i].id, mode |-> Append(q, x)[i].mode]
      BY <1>4 DEF Shows
    <2>2. CASE i = Len(q) + 1
      BY <1>1, <1>2, <2>1, <2>2
    <2>3. CASE i # Len(q) + 1
      <3>1. i \in 1..Len(q)
        BY <1>1, <2>3
      <3>2. Append(Shows(q), y)[i] = Shows(q)[i]
        BY <1>1, <1>2, <3>1
      <3>3. Shows(q)[i] = [id |-> q[i].id, mode |-> q[i].mode]
        BY <3>1 DEF Shows
      <3> QED BY <1>1, <2>1, <3>1, <3>2, <3>3
    <2> QED BY <2>2, <2>3
  <1>6. Shows(Append(q, x)) = [i \in 1..(Len(q) + 1) |-> Shows(Append(q, x))[i]]
    BY <1>4 DEF Shows
  <1>7. Append(Shows(q), y) = [i \in 1..(Len(q) + 1) |-> Append(Shows(q), y)[i]]
    BY <1>2, <1>3
  <1> QED BY <1>5, <1>6, <1>7

\* The abstract queue loses the same places.
LEMMA ShowsSelection ==
  ASSUME NEW X, NEW items \in Seq(X), NEW K
  PROVE  ItemsAt(Shows(items), K) = Shows(ItemsAt(items, K))
  <1> DEFINE n == Len(items)
             Pair(x) == [id |-> x.id, mode |-> x.mode]
  <1>1. /\ n \in Nat /\ DOMAIN items = 1..n /\ \A i \in 1..n : items[i] \in X
        /\ \A i \in 1..n : Shows(items)[i] = Pair(items[i])
    BY DEF Shows
  <1>2. Len(Shows(items)) = n
    <2>1. Shows(items) = [i \in 1..n |-> Shows(items)[i]]
      BY <1>1 DEF Shows
    <2> QED BY <1>1, <2>1
  <1>3. PICK f : Selects(f, n, items, K)
    BY <1>1, SelectionExists
  <1> HIDE DEF n
  <1>4. ItemsAt(items, K) = f[n]
    BY <1>1, <1>3, SelectionIs DEF n
  <1>5. f[0] = <<>> /\ \A i \in 1..n : f[i] = IF i \in K THEN Append(f[i - 1], items[i]) ELSE f[i - 1]
    BY <1>1, <1>3, SelectsAt
  <1>6. \A i \in 0..n : f[i] \in Seq(X)
    <2> DEFINE T == {i \in 0..n : f[i] \in Seq(X)}
    <2>1. 0 \in T
      <3>1. f[0] \in Seq(X)
        BY <1>5
      <3> QED BY <1>1, <3>1
    <2>2. ASSUME NEW i \in 1..n, i - 1 \in T PROVE i \in T
      <3>1. f[i - 1] \in Seq(X) /\ items[i] \in X
        BY <1>1, <2>2
      <3>2. Append(f[i - 1], items[i]) \in Seq(X)
        BY <3>1, AppendMembers
      <3>3. f[i] = Append(f[i - 1], items[i]) \/ f[i] = f[i - 1]
        BY <1>5
      <3>4. f[i] \in Seq(X)
        BY <3>1, <3>2, <3>3
      <3> QED BY <1>1, <3>4
    <2> HIDE DEF T
    <2>3. 0..n \subseteq T
      BY <1>1, <2>1, <2>2, AllPlaces
    <2> QED BY <2>3 DEF T
  <1> DEFINE J == [i \in 0..n |-> {Shows(f[i])}]
  <1>7. \A i \in 0..n : J[i] = {Shows(f[i])}
    OBVIOUS
  <1> HIDE DEF J
  <1>8. <<>> \in J[0]
    <2>1. Shows(<<>>) = <<>>
      BY DEF Shows
    <2> QED BY <1>1, <1>5, <1>7, <2>1
  <1>9. ASSUME NEW i \in 1..n, NEW r \in J[i - 1]
        PROVE  IF i \in K THEN Append(r, Shows(items)[i]) \in J[i] ELSE r \in J[i]
    <2>1. i - 1 \in 0..n /\ i \in 0..n
      BY <1>1
    <2>2. r = Shows(f[i - 1]) /\ J[i] = {Shows(f[i])}
      BY <1>7, <2>1
    <2>3. CASE i \in K
      <3>1. f[i] = Append(f[i - 1], items[i])
        BY <1>5, <2>3
      <3>2. f[i - 1] \in Seq(X) /\ items[i] \in X
        BY <1>1, <1>6, <2>1
      <3>3. Shows(Append(f[i - 1], items[i])) = Append(Shows(f[i - 1]), Pair(items[i]))
        BY <3>2, ShowsAppend
      <3>4. Append(r, Shows(items)[i]) = Shows(f[i])
        BY <1>1, <2>2, <3>1, <3>3
      <3> QED BY <2>2, <2>3, <3>4
    <2>4. CASE i \notin K
      <3>1. f[i] = f[i - 1]
        BY <1>5, <2>4
      <3> QED BY <2>2, <2>4, <3>1
    <2> QED BY <2>3, <2>4
  <1>10. ItemsAt(Shows(items), K) \in J[n]
    BY <1>1, <1>2, <1>8, <1>9, Selection
  <1> QED BY <1>1, <1>4, <1>7, <1>10

-----------------------------------------------------------------------------
(* Transcripts.  m follows l when nothing moved back; it keeps the reach of  *)
(* the context when only resets shortened it.                                *)

LogFits(l) == l \in Log /\ l.tail <= l.last /\ l.head <= l.last

Follows(l, m) ==
  LogFits(m) /\ m.last >= l.last /\ m.tail >= l.tail /\ m.head >= l.head

KeepsReach(l, m) == m.covers = l.covers \/ (m.head > l.last /\ m.covers > l.last)

\* The summaries of the items at hand cover what the context does, unless stale.
BasesFit(items, l) ==
  \A i \in DOMAIN items :
    items[i].head > 0 /\ items[i].head >= l.head => items[i].base = l.covers

HeadsFit(items, l) == \A i \in DOMAIN items : items[i].head <= l.last
NoReset(items) == \A i \in DOMAIN items : items[i].head # Self
Heads(l, items) == {l.head} \cup {items[i].head : i \in DOMAIN items}

LEMMA FollowsSelf == ASSUME NEW l, LogFits(l) PROVE Follows(l, l) /\ KeepsReach(l, l)
  BY DEF LogFits, Follows, KeepsReach, Log

LEMMA FollowsChain ==
  ASSUME NEW l, NEW m, NEW n, LogFits(l), Follows(l, m), Follows(m, n)
  PROVE  Follows(l, n) /\ (KeepsReach(l, m) /\ KeepsReach(m, n) => KeepsReach(l, n))
  BY DEF LogFits, Follows, KeepsReach, Log

LEMMA VisibleIs ==
  ASSUME NEW l \in Log
  PROVE  /\ Visible(l) \in Log
         /\ Visible(l).last = l.last + 1 /\ Visible(l).tail = l.last + 1
         /\ Visible(l).head = l.head /\ Visible(l).covers = l.covers
  <1>1. l.last + 1 \in Nat
    BY DEF Log
  <1>2. ASSUME NEW x \in Nat
        PROVE  LET m == [l EXCEPT !.last = x, !.tail = x] IN
               /\ m \in Log /\ m.last = x /\ m.tail = x
               /\ m.head = l.head /\ m.covers = l.covers
    BY DEF Log
  <1> QED BY <1>1, <1>2 DEF Visible

\* Entries without a head.
LEMMA EntryFollows ==
  ASSUME NEW l, LogFits(l), NEW m \in {l, Shown(l), Visible(l), WithPartial(l)}
  PROVE  Follows(l, m) /\ m.head = l.head /\ m.covers = l.covers /\ LogFits(m)
  <1>1. LogFits(Shown(l)) /\ LogFits(Visible(l))
    <2>1. /\ l.last \in Nat /\ l.tail \in Nat /\ l.head \in Nat /\ l.covers \in Nat
          /\ l.tail <= l.last /\ l.head <= l.last /\ l \in Log
      BY DEF LogFits, Log
    <2>2. LogFits(Shown(l))
      BY <2>1 DEF LogFits, Log, Shown
    <2>3. LogFits(Visible(l))
      BY <2>1, VisibleIs DEF LogFits
    <2> QED BY <2>2, <2>3
  <1>2. CASE m = l
    BY <1>2, FollowsSelf
  <1>3. CASE m = Shown(l)
    BY <1>1, <1>3 DEF LogFits, Log, Follows, Shown
  <1>4. CASE m = Visible(l)
    BY <1>1, <1>4, VisibleIs DEF LogFits, Log, Follows
  <1> QED BY <1>2, <1>3, <1>4 DEF WithPartial

LEMMA VisibleShows ==
  ASSUME NEW l, LogFits(l) PROVE Visible(l).tail > l.tail /\ Visible(l).last = l.last + 1
  BY DEF LogFits, Log, Visible

LEMMA MarkerIs ==
  ASSUME NEW l \in Log, NEW head \in Nat \cup {Self}, NEW base \in Nat
  PROVE  /\ Marker(l, head, base) \in Log
         /\ Marker(l, head, base).last = l.last + 1
         /\ Marker(l, head, base).tail = l.last + 1
         /\ Marker(l, head, base).head = IF head = Self THEN l.last + 1 ELSE head
         /\ Marker(l, head, base).covers = IF head = Self THEN l.last + 1 ELSE base
  <1> DEFINE v == Visible(l)
             h == IF head = Self THEN l.last + 1 ELSE head
             c == IF head = Self THEN l.last + 1 ELSE base
  <1>1. v \in Log /\ v.last = l.last + 1 /\ v.tail = l.last + 1
    BY VisibleIs
  <1>2. h \in Nat /\ c \in Nat
    BY DEF Log
  <1>3. Marker(l, head, base) = [v EXCEPT !.head = h, !.covers = c]
    BY DEF Marker
  <1> HIDE DEF v, h, c
  <1>4. LET m == [v EXCEPT !.head = h, !.covers = c] IN
        m \in Log /\ m.last = v.last /\ m.tail = v.tail /\ m.head = h /\ m.covers = c
    BY <1>1, <1>2 DEF Log
  <1> QED BY <1>1, <1>3, <1>4 DEF h, c

LEMMA MarkerFollows ==
  ASSUME NEW l, LogFits(l), NEW head \in Nat \cup {Self}, NEW base \in Nat,
         head <= l.last, head # Self => head >= l.head
  PROVE  /\ Follows(l, Marker(l, head, base)) /\ LogFits(Marker(l, head, base))
         /\ head = Self => KeepsReach(l, Marker(l, head, base))
         /\ head # Self => /\ Marker(l, head, base).head = head
                           /\ Marker(l, head, base).covers = base
  <1> DEFINE m == Marker(l, head, base)
             h == IF head = Self THEN l.last + 1 ELSE head
             c == IF head = Self THEN l.last + 1 ELSE base
  <1>1. /\ l \in Log /\ l.last \in Nat /\ l.tail \in Nat /\ l.head \in Nat
        /\ l.tail <= l.last /\ l.head <= l.last
    BY DEF LogFits, Log
  <1>2. h \in Nat /\ c \in Nat /\ h <= l.last + 1 /\ h >= l.head
    <2>1. CASE head = Self
      BY <1>1, <2>1
    <2>2. CASE head # Self
      <3>1. head \in Nat /\ head <= l.last /\ head >= l.head
        BY <2>2
      <3> QED BY <1>1, <2>2, <3>1
    <2> QED BY <2>1, <2>2
  <1>3. m \in Log /\ m.last = l.last + 1 /\ m.tail = l.last + 1 /\ m.head = h /\ m.covers = c
    <2>1. l \in Log
      BY <1>1
    <2> QED BY <2>1, MarkerIs
  <1> HIDE DEF m
  <1>4. Follows(l, m) /\ LogFits(m)
    BY <1>1, <1>2, <1>3 DEF LogFits, Follows
  <1>5. head = Self => KeepsReach(l, m)
    BY <1>1, <1>3 DEF KeepsReach
  <1>6. head # Self => m.head = head /\ m.covers = base
    BY <1>3
  <1> QED BY <1>4, <1>5, <1>6 DEF m

\* The entry of one item.
LEMMA OneFollows ==
  ASSUME NEW b, LogFits(b.log), DOMAIN b = {"log", "sub", "users"}, NEW items,
         NEW K \in SUBSET DOMAIN items, NEW i \in DOMAIN items, items[i] \in Item,
         items[i].head <= b.log.last
  PROVE  LET m == OnePlaced(b, i, items, K).log IN
         /\ Follows(b.log, m)
         /\ items[i].head # Self => m.head \in {b.log.head, items[i].head}
         /\ BasesFit(items, b.log) => KeepsReach(b.log, m)
  <1> DEFINE l == b.log
             item == items[i]
             m == OnePlaced(b, i, items, K).log
             G(x) == /\ Follows(l, x) /\ (item.head # Self => x.head \in {l.head, item.head})
                     /\ BasesFit(items, l) => KeepsReach(l, x)
  <1>1. item.head \in Nat \cup {Self} /\ item.base \in Nat
    BY DEF Item
  <1>2. \A x \in {l, Shown(l), Visible(l)} : G(x)
    BY EntryFollows DEF KeepsReach
  <1>3. CASE i \notin K
    <2>1. m = l
      BY <1>3 DEF OnePlaced
    <2> QED BY <1>2, <2>1
  <1>4. CASE i \in K /\ item.mode # "write"
    <2>1. m = Visible(l)
      BY <1>4 DEF OnePlaced, PlaceUser
    <2> QED BY <1>2, <2>1
  <1>5. CASE i \in K /\ item.mode = "write" /\ Stale(l, item)
    <2>1. m = l
      BY <1>5 DEF OnePlaced, PlaceWrite
    <2> QED BY <1>2, <2>1
  <1>6. CASE i \in K /\ item.mode = "write" /\ ~Stale(l, item)
    <2>1. m = WriteEntry(l, item)
      BY <1>6 DEF OnePlaced, PlaceWrite
    <2>2. CASE item.head = NoHead
      <3>1. m \in {Shown(l), Visible(l)}
        BY <2>1, <2>2 DEF WriteEntry
      <3> QED BY <1>2, <3>1
    <2>3. CASE item.head # NoHead
      <3>1. m = Marker(l, item.head, item.base)
        BY <2>1, <2>3 DEF WriteEntry
      <3>2. item.head # Self => item.head > 0 /\ item.head >= l.head
        BY <1>1, <1>6, <2>3 DEF Stale, NoHead, LogFits, Log
      <3>3. /\ Follows(l, m)
            /\ item.head = Self => KeepsReach(l, m)
            /\ item.head # Self => m.head = item.head /\ m.covers = item.base
        <4>1. item.head <= l.last
          OBVIOUS
        <4> HIDE DEF m, l, item
        <4> QED BY <1>1, <3>1, <3>2, <4>1, MarkerFollows DEF l
      <3>4. BasesFit(items, l) /\ item.head # Self => item.base = l.covers
        BY <3>2 DEF BasesFit
      <3> QED BY <3>3, <3>4 DEF KeepsReach
    <2> QED BY <2>2, <2>3
  <1> QED BY <1>3, <1>4, <1>5, <1>6

-----------------------------------------------------------------------------
(* What placing items does to the transcript and to the submissions.         *)

Placing == [log : Log, sub : [Subs -> Submission], users : SUBSET Subs]

\* The record r waits as what the item says.
Waits(item, r) ==
  r.status = "queued" /\ r.type = IF item.mode = "write" THEN "write" ELSE "input"

\* What becomes of the record r of the item.
Leaves(item, r, after) ==
  /\ after.type = r.type
  /\ IF item.mode = "write" THEN IsSettled(after) ELSE after.status = "placed"

LEMMA EntryIsLog ==
  ASSUME NEW l \in Log, NEW item \in Item
  PROVE  WriteEntry(l, item) \in Log /\ Visible(l) \in Log /\ l.last + 1 \in Nat
  <1>1. item.head \in Nat \cup {Self} /\ item.base \in Nat /\ l.last \in Nat
    BY DEF Item, Log
  <1>2. Shown(l) \in Log
    BY DEF Log, Shown
  <1>3. Visible(l) \in Log
    BY VisibleIs
  <1>4. Marker(l, item.head, item.base) \in Log
    BY <1>1, MarkerIs
  <1>5. WriteEntry(l, item) \in {Marker(l, item.head, item.base), Visible(l), Shown(l)}
    BY DEF WriteEntry
  <1> QED BY <1>1, <1>2, <1>3, <1>4, <1>5

LEMMA SettleIs ==
  ASSUME NEW r \in Submission, NEW status \in {"done", "unanswered"},
         NEW reason \in {"none", "aborted", "stale", "reset", "model_error", "no_model", "fault"}
  PROVE  /\ Settle(r, status, reason) \in Submission
         /\ Settle(r, status, reason).type = r.type
         /\ IsSettled(Settle(r, status, reason))
         /\ ~IsSettled(r) => Settle(r, status, reason).status = status
  BY DEF Settle, IsSettled, Submission

LEMMA PlaceIs ==
  ASSUME NEW r \in Submission, NEW entry \in Nat
  PROVE  /\ Place(r, entry) \in Submission
         /\ Place(r, entry).type = r.type
         /\ Place(r, entry).status = IF r.type = "input" THEN "placed" ELSE "done"
  BY DEF Place, Submission

\* The boundary c differs from b in these fields only.
Places(c, b, l, x, r, users) ==
  \/ c = [b EXCEPT !.log = l, !.sub[x] = r, !.users = users]
  \/ c = [b EXCEPT !.log = l, !.sub[x] = r] /\ users = b.users
  \/ c = [b EXCEPT !.sub[x] = r] /\ users = b.users

LEMMA PlacingIs ==
  ASSUME NEW b \in Placing, NEW l \in Log, NEW x \in Subs, NEW r \in Submission,
         NEW users \in SUBSET Subs, NEW c, Places(c, b, l, x, r, users)
  PROVE  /\ c \in Placing /\ c.sub[x] = r /\ c.users = users
         /\ \A y \in Subs \ {x} : c.sub[y] = b.sub[y]
  <1> DEFINE s == [b.sub EXCEPT ![x] = r]
  <1>1. b.sub \in [Subs -> Submission] /\ b.log \in Log /\ b.users \in SUBSET Subs
    BY DEF Placing
  <1>2. s \in [Subs -> Submission] /\ s[x] = r /\ \A y \in Subs \ {x} : s[y] = b.sub[y]
    BY <1>1
  <1>3. \/ c = [b EXCEPT !.log = l, !.sub = s, !.users = users]
        \/ c = [b EXCEPT !.log = l, !.sub = s] /\ users = b.users
        \/ c = [b EXCEPT !.sub = s] /\ users = b.users
    BY DEF Placing, Places
  <1> HIDE DEF s
  <1>4. c \in Placing /\ c.sub = s /\ c.users = users
    BY <1>1, <1>2, <1>3 DEF Placing
  <1> QED BY <1>2, <1>4

LEMMA OneSettles ==
  ASSUME NEW b \in Placing, NEW items, NEW i, NEW K, i \in K, items[i] \in Item,
         Waits(items[i], b.sub[items[i].id])
  PROVE  LET r == OnePlaced(b, i, items, K)
             x == items[i].id IN
         /\ r \in Placing
         /\ r.users = IF items[i].mode = "write" THEN b.users ELSE b.users \cup {x}
         /\ \A y \in Subs \ {x} : r.sub[y] = b.sub[y]
         /\ Leaves(items[i], b.sub[x], r.sub[x])
  <1> DEFINE r == OnePlaced(b, i, items, K)
             item == items[i]
             x == item.id
             e == b.log.last + 1
  <1>1. /\ b.log \in Log /\ b.sub \in [Subs -> Submission] /\ b.users \in SUBSET Subs
        /\ x \in Subs /\ b.sub[x] \in Submission
    BY DEF Placing, Item
  <1>2. WriteEntry(b.log, item) \in Log /\ Visible(b.log) \in Log /\ e \in Nat
    BY <1>1, EntryIsLog
  <1>3. /\ Place(b.sub[x], e) \in Submission
        /\ Settle(b.sub[x], "unanswered", "stale") \in Submission
        /\ Leaves(item, b.sub[x], Place(b.sub[x], e))
        /\ item.mode = "write" => Leaves(item, b.sub[x], Settle(b.sub[x], "unanswered", "stale"))
    <2>1. /\ Place(b.sub[x], e) \in Submission /\ Place(b.sub[x], e).type = b.sub[x].type
          /\ Place(b.sub[x], e).status = IF b.sub[x].type = "input" THEN "placed" ELSE "done"
      BY <1>1, <1>2, PlaceIs
    <2>2. /\ Settle(b.sub[x], "unanswered", "stale") \in Submission
          /\ Settle(b.sub[x], "unanswered", "stale").type = b.sub[x].type
          /\ IsSettled(Settle(b.sub[x], "unanswered", "stale"))
      BY <1>1, SettleIs
    <2> HIDE DEF x, e, item
    <2> QED BY <2>1, <2>2 DEF Leaves, Waits, IsSettled, x, item
  <1> DEFINE Fits(c) ==
        /\ c \in Placing
        /\ c.users = IF item.mode = "write" THEN b.users ELSE b.users \cup {x}
        /\ \A y \in Subs \ {x} : c.sub[y] = b.sub[y]
        /\ Leaves(item, b.sub[x], c.sub[x])
  <1>4. ASSUME item.mode = "write", Stale(b.log, item) PROVE Fits(r)
    <2> DEFINE after == Settle(b.sub[x], "unanswered", "stale")
    <2>1. r = [b EXCEPT !.sub[x] = after]
      BY <1>4 DEF OnePlaced, PlaceWrite
    <2>2. after \in Submission /\ Leaves(item, b.sub[x], after)
      BY <1>3, <1>4
    <2> HIDE DEF r, x, item, after
    <2>3. r \in Placing /\ r.sub[x] = after /\ r.users = b.users
          /\ \A y \in Subs \ {x} : r.sub[y] = b.sub[y]
      <3>1. b.log \in Log /\ b.users \in SUBSET Subs /\ x \in Subs /\ after \in Submission
        BY <1>1, <2>2
      <3>2. Places(r, b, b.log, x, after, b.users)
        BY <2>1 DEF Places
      <3> QED BY <2>2, <3>1, <3>2, PlacingIs
    <2> QED BY <1>4, <2>2, <2>3 DEF Fits
  <1>5. ASSUME item.mode = "write", ~Stale(b.log, item) PROVE Fits(r)
    <2> DEFINE after == Place(b.sub[x], e)
               l == WriteEntry(b.log, item)
    <2>1. r = [b EXCEPT !.log = l, !.sub[x] = after]
      BY <1>5 DEF OnePlaced, PlaceWrite
    <2>2. l \in Log /\ after \in Submission /\ Leaves(item, b.sub[x], after)
      BY <1>2, <1>3
    <2> HIDE DEF r, x, item, after, l
    <2>3. r \in Placing /\ r.sub[x] = after /\ r.users = b.users
          /\ \A y \in Subs \ {x} : r.sub[y] = b.sub[y]
      <3>1. b.log \in Log /\ b.users \in SUBSET Subs /\ x \in Subs /\ after \in Submission
        BY <1>1, <2>2
      <3>2. Places(r, b, l, x, after, b.users)
        BY <2>1 DEF Places
      <3> QED BY <2>2, <3>1, <3>2, PlacingIs
    <2> QED BY <1>5, <2>2, <2>3 DEF Fits
  <1>6. ASSUME item.mode # "write" PROVE Fits(r)
    <2> DEFINE after == Place(b.sub[x], e)
               l == Visible(b.log)
               users == b.users \cup {x}
    <2>1. r = [b EXCEPT !.log = l, !.sub[x] = after, !.users = users]
      BY <1>6 DEF OnePlaced, PlaceUser
    <2>2. l \in Log /\ after \in Submission /\ users \in SUBSET Subs
          /\ Leaves(item, b.sub[x], after)
      BY <1>1, <1>2, <1>3
    <2> HIDE DEF r, x, item, after, l, users
    <2>3. r \in Placing /\ r.sub[x] = after /\ r.users = users
          /\ \A y \in Subs \ {x} : r.sub[y] = b.sub[y]
      <3>1. b.log \in Log /\ b.users \in SUBSET Subs /\ x \in Subs /\ after \in Submission
        BY <1>1, <2>2
      <3>2. Places(r, b, l, x, after, users)
        BY <2>1 DEF Places
      <3> QED BY <2>2, <3>1, <3>2, PlacingIs
    <2> QED BY <1>6, <2>2, <2>3 DEF Fits, users
  <1> QED BY <1>4, <1>5, <1>6

\* r is the boundary b once the items at P are placed.
Placed(b, items, P, r) ==
  /\ r \in Placing
  /\ r.users = b.users \cup {items[j].id : j \in {k \in P : items[k].mode # "write"}}
  /\ \A y \in Subs : (\A j \in P : items[j].id # y) => r.sub[y] = b.sub[y]
  /\ \A j \in P : Leaves(items[j], b.sub[items[j].id], r.sub[items[j].id])

\* m is the transcript l once some of the items are placed.
Moved(l, items, m) ==
  /\ Follows(l, m)
  /\ NoReset(items) => m.head \in Heads(l, items)
  /\ BasesFit(items, l) => KeepsReach(l, m) /\ BasesFit(items, m)

\* What fits goes on to fit a transcript that kept its reach.
LEMMA BasesOn ==
  ASSUME NEW items, NEW k, LogFits(k), NEW m, Follows(k, m), KeepsReach(k, m),
         \A j \in DOMAIN items : items[j] \in Item /\ items[j].head <= k.last,
         BasesFit(items, k)
  PROVE  BasesFit(items, m)
  <1>1. /\ k.head \in Int /\ m.head \in Int /\ k.last \in Int /\ m.head >= k.head
        /\ \A j \in DOMAIN items : items[j].head \in Int /\ items[j].head <= k.last
    <2>1. \A j \in DOMAIN items : items[j].head \in Int
      BY DEF Item, Self
    <2> QED BY <2>1 DEF Follows, LogFits, Log
  <1>2. ASSUME NEW j \in DOMAIN items, items[j].head > 0, items[j].head >= m.head
        PROVE  items[j].base = m.covers
    <2>1. ~(m.head > k.last) /\ items[j].head >= k.head
      BY <1>1, <1>2
    <2>2. items[j].base = k.covers
      BY <1>2, <2>1 DEF BasesFit
    <2> QED BY <2>1, <2>2 DEF KeepsReach
  <1> QED BY <1>2 DEF BasesFit

LEMMA MovedOn ==
  ASSUME NEW b \in Placing, NEW items \in Seq(Item), NEW K \in SUBSET DOMAIN items,
         NEW i \in DOMAIN items, NEW l, LogFits(l), HeadsFit(items, l), Moved(l, items, b.log)
  PROVE  Moved(l, items, OnePlaced(b, i, items, K).log)
  <1> DEFINE k == b.log
             m == OnePlaced(b, i, items, K).log
  <1>1. LogFits(k) /\ Follows(l, k) /\ DOMAIN b = {"log", "sub", "users"}
    BY DEF Moved, Follows, Placing
  <1>2. items[i] \in Item /\ items[i].head <= l.last
    BY DEF HeadsFit
  <1>3. \A j \in DOMAIN items : items[j] \in Item /\ items[j].head <= k.last
    <2>1. \A j \in DOMAIN items : items[j] \in Item /\ items[j].head <= l.last
      BY DEF HeadsFit
    <2>2. \A j \in DOMAIN items : items[j].head \in Int
      BY <2>1 DEF Item, Self
    <2>3. l.last \in Int /\ k.last \in Int /\ l.last <= k.last
      BY <1>1 DEF Follows, LogFits, Log
    <2> QED BY <2>1, <2>2, <2>3
  <1>4. /\ Follows(k, m)
        /\ items[i].head # Self => m.head \in {k.head, items[i].head}
        /\ BasesFit(items, k) => KeepsReach(k, m)
    BY <1>1, <1>2, <1>3, OneFollows
  <1> HIDE DEF k, m
  <1>5. Follows(l, m) /\ (KeepsReach(l, k) /\ KeepsReach(k, m) => KeepsReach(l, m))
    BY <1>1, <1>4, FollowsChain
  <1>6. ASSUME NoReset(items) PROVE m.head \in Heads(l, items)
    <2>1. k.head \in Heads(l, items) /\ items[i].head # Self
      BY <1>6 DEF Moved, NoReset, k
    <2> QED BY <1>4, <2>1 DEF Heads
  <1>7. ASSUME BasesFit(items, l) PROVE KeepsReach(l, m) /\ BasesFit(items, m)
    <2>1. KeepsReach(l, k) /\ BasesFit(items, k)
      BY <1>7 DEF Moved, k
    <2>2. KeepsReach(k, m)
      BY <1>4, <2>1
    <2>3. BasesFit(items, m)
      BY <1>1, <1>3, <1>4, <2>1, <2>2, BasesOn
    <2> QED BY <1>5, <2>1, <2>2, <2>3
  <1> QED BY <1>5, <1>6, <1>7 DEF Moved, m

\* One more item placed.
LEMMA PlacedOn ==
  ASSUME NEW b \in Placing, NEW items \in Seq(Item), Increasing(items),
         NEW K \in SUBSET DOMAIN items,
         \A j \in K : Waits(items[j], b.sub[items[j].id]),
         NEW i \in 1..Len(items), NEW r, Placed(b, items, K \cap (1..(i - 1)), r)
  PROVE  Placed(b, items, K \cap (1..i), OnePlaced(r, i, items, K))
  <1> DEFINE P == K \cap (1..(i - 1))
             Q == K \cap (1..i)
             c == OnePlaced(r, i, items, K)
             x == items[i].id
  <1>1. /\ i \in Nat /\ DOMAIN items = 1..Len(items) /\ 1..i = (1..(i - 1)) \cup {i}
        /\ \A j \in DOMAIN items : items[j] \in Item /\ items[j].id \in Subs
    <2>1. i \in Nat /\ DOMAIN items = 1..Len(items) /\ i \in 1..Len(items)
      OBVIOUS
    <2>2. 1..i = (1..(i - 1)) \cup {i}
      BY <2>1
    <2>3. ASSUME NEW j \in DOMAIN items PROVE items[j] \in Item /\ items[j].id \in Subs
      <3>1. items[j] \in Item
        OBVIOUS
      <3> QED BY <3>1 DEF Item
    <2> QED BY <2>1, <2>2, <2>3
  <1>2. CASE i \notin K
    <2>1. Q = P /\ c = r
      BY <1>1, <1>2 DEF OnePlaced
    <2> QED BY <2>1
  <1>3. CASE i \in K
    <2>1. Q = P \cup {i}
      BY <1>1, <1>3
    <2>2. \A j \in P : items[j].id # x
      <3>1. ASSUME NEW j \in P PROVE items[j].id # x
        <4>1. j \in DOMAIN items /\ i \in DOMAIN items /\ j < i
          BY <1>1
        <4>2. items[j].id < x /\ items[j].id \in Int /\ x \in Int
          BY <1>1, <4>1 DEF Increasing, Subs
        <4> QED BY <4>2
      <3> QED BY <3>1
    <2>3. x \in Subs /\ items[i] \in Item
      BY <1>1
    <2>4. r \in Placing /\ r.sub[x] = b.sub[x]
      BY <2>2, <2>3 DEF Placed
    <2>5. Waits(items[i], r.sub[x])
      BY <1>3, <2>4
    <2>6. /\ c \in Placing
          /\ c.users = IF items[i].mode = "write" THEN r.users ELSE r.users \cup {x}
          /\ \A y \in Subs \ {x} : c.sub[y] = r.sub[y]
          /\ Leaves(items[i], r.sub[x], c.sub[x])
      BY <1>3, <2>3, <2>4, <2>5, OneSettles
    <2> HIDE DEF c, x, P, Q
    <2>7. c.users = b.users \cup {items[j].id : j \in {k \in Q : items[k].mode # "write"}}
      <3>1. r.users = b.users \cup {items[j].id : j \in {k \in P : items[k].mode # "write"}}
        BY DEF Placed, P
      <3> QED BY <2>1, <2>6, <3>1 DEF x
    <2>8. \A y \in Subs : (\A j \in Q : items[j].id # y) => c.sub[y] = b.sub[y]
      <3>1. \A y \in Subs : (\A j \in P : items[j].id # y) => r.sub[y] = b.sub[y]
        BY DEF Placed, P
      <3> QED BY <2>1, <2>6, <3>1 DEF x
    <2>9. ASSUME NEW j \in Q
          PROVE  Leaves(items[j], b.sub[items[j].id], c.sub[items[j].id])
      <3>1. CASE j = i
        BY <2>4, <2>6, <3>1 DEF x
      <3>2. CASE j # i
        <4>1. j \in P
          BY <2>1, <3>2
        <4>2. Leaves(items[j], b.sub[items[j].id], r.sub[items[j].id])
          BY <4>1 DEF Placed, P
        <4>3. c.sub[items[j].id] = r.sub[items[j].id]
          <5>1. items[j].id \in Subs
            BY <1>1, <4>1 DEF P
          <5> QED BY <2>2, <2>6, <4>1, <5>1
        <4> QED BY <4>2, <4>3
      <3> QED BY <3>1, <3>2
    <2> QED BY <2>6, <2>7, <2>8, <2>9 DEF Placed, c, Q
  <1> QED BY <1>2, <1>3

\* The items at K placed one after the other.
LEMMA PlaceItemsIs ==
  ASSUME NEW b \in Placing, NEW items \in Seq(Item), Increasing(items),
         NEW K \in SUBSET DOMAIN items,
         \A j \in K : Waits(items[j], b.sub[items[j].id]),
         NEW l, LogFits(l), HeadsFit(items, l), Moved(l, items, b.log)
  PROVE  /\ Placed(b, items, K, PlaceItems(b, items, K))
         /\ Moved(l, items, PlaceItems(b, items, K).log)
  <1> DEFINE n == Len(items)
             Fits(r, i) == Placed(b, items, K \cap (1..i), r) /\ Moved(l, items, r.log)
             J == [i \in 0..n |-> {r \in Placing : Fits(r, i)}]
  <1>1. n \in Nat /\ DOMAIN items = 1..n /\ K \cap (1..n) = K /\ K \cap (1..0) = {}
    OBVIOUS
  <1> HIDE DEF n
  <1>2. \A i \in 0..n : J[i] = {r \in Placing : Fits(r, i)}
    OBVIOUS
  <1> HIDE DEF J
  <1>3. b \in J[0]
    <2>1. Placed(b, items, {}, b)
      BY DEF Placed
    <2>2. Fits(b, 0)
      BY <1>1, <2>1
    <2> HIDE DEF Fits
    <2> QED BY <1>1, <1>2, <2>2
  <1>4. ASSUME NEW i \in 1..n, NEW r \in J[i - 1]
        PROVE  OnePlaced(r, i, items, K) \in J[i]
    <2> DEFINE c == OnePlaced(r, i, items, K)
    <2>1. i - 1 \in 0..n /\ i \in 0..n /\ i \in DOMAIN items /\ i \in 1..Len(items)
      BY <1>1 DEF n
    <2>2. r \in Placing /\ Fits(r, i - 1)
      BY <1>2, <2>1
    <2>3. Placed(b, items, K \cap (1..i), c)
      BY <2>1, <2>2, PlacedOn
    <2>4. Moved(l, items, c.log)
      BY <2>1, <2>2, MovedOn
    <2> HIDE DEF c
    <2>5. c \in Placing /\ Fits(c, i)
      BY <2>3, <2>4 DEF Placed
    <2> HIDE DEF Fits
    <2>6. c \in J[i]
      BY <1>2, <2>1, <2>5
    <2> QED BY <2>6 DEF c
  <1> HIDE DEF Fits
  <1>5. PlaceItems(b, items, K) \in J[n]
    BY <1>1, <1>3, <1>4, Placement DEF n
  <1>6. J[n] = {r \in Placing : Fits(r, n)}
    BY <1>1, <1>2
  <1>7. Fits(PlaceItems(b, items, K), n)
    BY <1>5, <1>6
  <1> QED BY <1>1, <1>7 DEF Fits

-----------------------------------------------------------------------------
(* Boundaries.                                                               *)

WriteIds(items) == {items[i].id : i \in {j \in DOMAIN items : items[j].mode = "write"}}
UserIds(items) == {items[i].id : i \in {j \in DOMAIN items : items[j].mode # "write"}}

\* With an item of U its elders of the same mode are in U.
EldestFirst(items, U) ==
  \A i, j \in DOMAIN items :
    i < j /\ items[i].mode = items[j].mode /\ items[j].id \in U => items[i].id \in U

\* An inbox whose items wait as they say, in the order of their ids.
Queued(items, s) ==
  /\ items \in Seq(Item) /\ Increasing(items)
  /\ \A i \in DOMAIN items : Waits(items[i], s[items[i].id])

\* b is a boundary of the submissions s and the items.
Bounded(s, items, b) ==
  /\ b.sub \in [Subs -> Submission]
  /\ b.users \in SUBSET UserIds(items) /\ EldestFirst(items, b.users)
  /\ \A y \in b.users : b.sub[y].status = "placed" /\ b.sub[y].type = s[y].type
  /\ \A y \in WriteIds(items) : IsSettled(b.sub[y]) /\ b.sub[y].type = s[y].type
  /\ \A y \in Subs \ (b.users \cup WriteIds(items)) : b.sub[y] = s[y]
  /\ b.inbox = Without(items, b.users \cup WriteIds(items))

LEMMA IdsDiffer ==
  ASSUME NEW items \in Seq(Item), Increasing(items),
         NEW i \in DOMAIN items, NEW j \in DOMAIN items, items[i].id = items[j].id
  PROVE  i = j
  <1>1. DOMAIN items = 1..Len(items) /\ items[i] \in Item /\ items[j] \in Item
    OBVIOUS
  <1>2. i \in Int /\ j \in Int /\ items[i].id \in Int
    BY <1>1 DEF Item, Subs
  <1>3. CASE i < j
    BY <1>2, <1>3 DEF Increasing
  <1>4. CASE j < i
    BY <1>2, <1>4 DEF Increasing
  <1> QED BY <1>2, <1>3, <1>4

LEMMA ItemIds ==
  ASSUME NEW items \in Seq(Item), Increasing(items)
  PROVE  /\ UserIds(items) \cap WriteIds(items) = {}
         /\ UserIds(items) \cup WriteIds(items) = Ids(items)
         /\ Ids(items) \in SUBSET Subs
  <1>1. UserIds(items) \cap WriteIds(items) = {}
    BY IdsDiffer DEF UserIds, WriteIds
  <1>2. UserIds(items) \cup WriteIds(items) = Ids(items)
    BY DEF UserIds, WriteIds, Ids
  <1>3. \A i \in DOMAIN items : items[i] \in Item
    OBVIOUS
  <1>4. \A i \in DOMAIN items : items[i].id \in Subs
    BY <1>3 DEF Item
  <1> QED BY <1>1, <1>2, <1>4 DEF Ids

\* pick() and what a boundary selects.
LEMMA PicksAre ==
  ASSUME NEW items \in Seq(Item), Increasing(items), NEW at, NEW modes \in Modes,
         NEW U, U = {items[i].id : i \in UserPicks(items, at, modes)}
  PROVE  /\ UserPicks(items, at, modes) \in SUBSET {i \in DOMAIN items : items[i].mode # "write"}
         /\ EldestFirst(items, U)
  <1> DEFINE P == UserPicks(items, at, modes)
  <1>1. P \in SUBSET {i \in DOMAIN items : items[i].mode # "write"}
    BY DEF UserPicks, Picked
  <1>2. ASSUME NEW i \in DOMAIN items, NEW j \in DOMAIN items, i < j,
               items[i].mode = items[j].mode, items[j].id \in U
        PROVE  items[i].id \in U
    <2>1. j \in P
      BY <1>1, <1>2, IdsDiffer
    <2>2. i \in P
      BY <1>2, <2>1 DEF UserPicks, Picked
    <2> QED BY <2>2
  <1> QED BY <1>1, <1>2 DEF EldestFirst

\* What stays after a boundary: all but the writes and the users placed.
LEMMA RestIs ==
  ASSUME NEW items \in Seq(Item), Increasing(items), NEW P,
         P \in SUBSET {i \in DOMAIN items : items[i].mode # "write"}
  PROVE  LET W == {i \in DOMAIN items : items[i].mode = "write"}
             U == {items[i].id : i \in P}
         IN  ItemsAt(items, DOMAIN items \ (P \cup W)) = Without(items, U \cup WriteIds(items))
  <1> DEFINE W == {i \in DOMAIN items : items[i].mode = "write"}
             U == {items[i].id : i \in P}
  <1>1. ASSUME NEW i \in DOMAIN items
        PROVE  items[i].id \in U \cup WriteIds(items) <=> i \in P \cup W
    <2>1. items[i].id \in U <=> i \in P
      BY IdsDiffer
    <2>2. items[i].id \in WriteIds(items) <=> i \in W
      BY IdsDiffer DEF WriteIds
    <2> QED BY <2>1, <2>2
  <1>2. DOMAIN items \ (P \cup W) = {i \in DOMAIN items : items[i].id \notin U \cup WriteIds(items)}
    BY <1>1
  <1> QED BY <1>2 DEF Without

LEMMA BoundaryIs ==
  ASSUME NEW l, LogFits(l), NEW s \in [Subs -> Submission], NEW items, Queued(items, s),
         HeadsFit(items, l), NEW at, NEW modes \in Modes
  PROVE  LET b == Boundary(l, s, items, at, modes) IN
         Bounded(s, items, b) /\ Moved(l, items, b.log) /\ (b.reset <=> ~NoReset(items))
  <1> DEFINE P == UserPicks(items, at, modes)
             W == {i \in DOMAIN items : items[i].mode = "write"}
             start == [log |-> l, sub |-> s, users |-> {}]
             mid == PlaceItems(start, items, W)
             end == PlaceItems(mid, items, P)
             U == {items[i].id : i \in P}
             b == Boundary(l, s, items, at, modes)
  <1>1. /\ items \in Seq(Item) /\ Increasing(items)
        /\ \A i \in DOMAIN items : Waits(items[i], s[items[i].id])
        /\ \A i \in DOMAIN items : items[i] \in Item /\ items[i].id \in Subs
    <2>1. items \in Seq(Item)
      BY DEF Queued
    <2>2. \A i \in DOMAIN items : items[i] \in Item
      BY <2>1
    <2> QED BY <2>1, <2>2 DEF Queued, Item
  <1>2. /\ b.log = end.log /\ b.sub = end.sub /\ b.users = end.users
        /\ b.inbox = ItemsAt(items, DOMAIN items \ (P \cup W))
        /\ b.reset <=> ~NoReset(items)
    BY DEF Boundary, NoReset
  <1>3. P \in SUBSET {i \in DOMAIN items : items[i].mode # "write"} /\ EldestFirst(items, U)
    BY <1>1, PicksAre
  <1>4. b.inbox = Without(items, U \cup WriteIds(items))
    BY <1>1, <1>2, <1>3, RestIs
  <1>5. /\ start \in Placing /\ start.sub = s /\ start.users = {}
        /\ Moved(l, items, start.log)
    <2>1. Moved(l, items, l)
      BY FollowsSelf DEF Moved, Heads
    <2> QED BY <2>1 DEF Placing, LogFits
  <1> HIDE DEF P, start, b
  <1>6. Placed(start, items, W, mid) /\ Moved(l, items, mid.log)
    <2>1. W \in SUBSET DOMAIN items /\ \A j \in W : Waits(items[j], start.sub[items[j].id])
      BY <1>1, <1>5
    <2> HIDE DEF W
    <2> QED BY <1>1, <1>5, <2>1, PlaceItemsIs
  <1>7. \A y \in Subs : y \notin WriteIds(items) => mid.sub[y] = s[y]
    BY <1>5, <1>6 DEF Placed, WriteIds
  <1>8. \A j \in P : items[j].id \notin WriteIds(items)
    BY <1>1, <1>3, IdsDiffer DEF WriteIds
  <1>9. Placed(mid, items, P, end) /\ Moved(l, items, end.log)
    <2>1. \A j \in P : Waits(items[j], mid.sub[items[j].id])
      BY <1>1, <1>3, <1>7, <1>8
    <2>2. mid \in Placing /\ P \in SUBSET DOMAIN items
      BY <1>3, <1>6 DEF Placed
    <2> HIDE DEF mid
    <2> QED BY <1>1, <1>6, <2>1, <2>2, PlaceItemsIs
  <1>10. end.users = U
    <2>1. mid.users = {}
      BY <1>5, <1>6 DEF Placed
    <2>2. end.users = mid.users \cup {items[j].id : j \in {k \in P : items[k].mode # "write"}}
      BY <1>9 DEF Placed
    <2> HIDE DEF mid, end
    <2> QED BY <1>3, <2>1, <2>2
  <1>11. end.sub \in [Subs -> Submission]
    BY <1>9 DEF Placed, Placing
  <1>12. \A y \in U : end.sub[y].status = "placed" /\ end.sub[y].type = s[y].type
    <2>1. ASSUME NEW j \in P
          PROVE  LET y == items[j].id IN
                 end.sub[y].status = "placed" /\ end.sub[y].type = s[y].type
      <3>1. Leaves(items[j], mid.sub[items[j].id], end.sub[items[j].id])
        BY <1>9 DEF Placed
      <3>2. mid.sub[items[j].id] = s[items[j].id]
        BY <1>1, <1>3, <1>7, <1>8
      <3> QED BY <1>3, <3>1, <3>2 DEF Leaves
    <2> HIDE DEF mid, end
    <2> QED BY <2>1
  <1>13. \A y \in Subs \ U : end.sub[y] = mid.sub[y]
    BY <1>9 DEF Placed
  <1>14. \A y \in WriteIds(items) : IsSettled(end.sub[y]) /\ end.sub[y].type = s[y].type
    <2>1. ASSUME NEW j \in W
          PROVE  LET y == items[j].id IN IsSettled(end.sub[y]) /\ end.sub[y].type = s[y].type
      <3>1. Leaves(items[j], s[items[j].id], mid.sub[items[j].id])
        BY <1>5, <1>6 DEF Placed
      <3>2. items[j].id \in Subs \ U
        <4>1. items[j].id \in WriteIds(items)
          BY DEF WriteIds
        <4> QED BY <1>1, <1>8, <4>1
      <3>3. end.sub[items[j].id] = mid.sub[items[j].id]
        BY <1>13, <3>2
      <3> QED BY <3>1, <3>3 DEF Leaves
    <2> HIDE DEF mid, end
    <2> QED BY <2>1 DEF WriteIds
  <1>15. \A y \in Subs \ (U \cup WriteIds(items)) : end.sub[y] = s[y]
    BY <1>7, <1>13
  <1>16. U \in SUBSET UserIds(items)
    BY <1>3 DEF UserIds
  <1> HIDE DEF U, end, mid, W
  <1>17. Bounded(s, items, b)
    BY <1>2, <1>3, <1>4, <1>10, <1>11, <1>12, <1>14, <1>15, <1>16 DEF Bounded
  <1>18. Moved(l, items, b.log) /\ (b.reset <=> ~NoReset(items))
    BY <1>2, <1>9
  <1> QED BY <1>17, <1>18 DEF b

-----------------------------------------------------------------------------
(* Submissions.  The invariant: the inbox lists the queued ones, the run has *)
(* the placed ones, and ids are taken in order.                              *)

Endings == {"none", "aborted", "stale", "reset", "model_error", "no_model", "fault"}
RunType == [task : Tasks \cup {NoTask}, inputs : SUBSET Subs]

SubsInv ==
  /\ sub \in [Subs -> Submission] /\ run \in RunType
  /\ Queued(inbox, sub)
  /\ Ids(inbox) = {s \in Subs : sub[s].status = "queued"}
  /\ PlacedIsInRun
  /\ \A r, s \in Subs : r < s /\ sub[s].status # "none" => sub[r].status # "none"
  /\ run.task = NoTask <=> run.inputs = {}

\* An item as a submission of this type has it.
Fitting(s, item, type) ==
  /\ item \in Item /\ item.id = s /\ item.head <= log.last
  /\ type = IF item.mode = "write" THEN "write" ELSE "input"

\* What a commit does to the submissions.
Calm == UNCHANGED <<sub, inbox, run>>
AdmitsSettled ==
  \E s \in Subs, r \in Submission :
    /\ NextSub(s) /\ IsSettled(r)
    /\ sub' = [sub EXCEPT ![s] = r] /\ UNCHANGED <<inbox, run>>
AdmitsQueued ==
  \E s \in Subs : \E item, type :
    NextSub(s) /\ Fitting(s, item, type) /\ AdmitBusy(s, item, type)
AdmitsBehind ==
  \E s \in Subs : \E item, type, T :
    NextSub(s) /\ Fitting(s, item, type) /\ AdmitBehind(s, item, type, T)
AdmitsPlaced ==
  \E s \in Subs : \E item : NextSub(s) /\ AdmitInput(s, item)
Withdraws ==
  \E S \in {{s} : s \in Ids(inbox)} \cup {UserIds(inbox)} :
    /\ sub' = [x \in Subs |-> IF x \in S THEN Settle(sub[x], "unanswered", "aborted") ELSE sub[x]]
    /\ inbox' = Without(inbox, S) /\ run' = run
Fails ==
  /\ Busy /\ inbox' = inbox /\ run' = NoRun
  /\ \E reason \in Endings : sub' = EndRun(sub, run.task, "unanswered", reason)
Ends ==
  /\ Busy
  /\ \E l, at, T : \E modes \in Modes, status \in {"done", "unanswered"}, reason \in Endings :
       LET b == Boundary(l, sub, inbox, at, modes) IN
       /\ LogFits(l) /\ Follows(log, l)
       /\ sub' = EndRun(b.sub, run.task, status, reason) /\ inbox' = b.inbox
       /\ StartRun(T, b.users, NoRun)
GoesOn ==
  /\ Busy
  /\ \E l, at : \E modes \in Modes, h \in Tasks :
       LET b == Boundary(l, sub, inbox, at, modes) IN
       /\ LogFits(l) /\ Follows(log, l) /\ sub' = b.sub /\ inbox' = b.inbox
       /\ run' = [task |-> h, inputs |-> run.inputs \cup b.users]

SubsStep ==
  \/ Calm \/ AdmitsSettled \/ AdmitsQueued \/ AdmitsBehind \/ AdmitsPlaced
  \/ Withdraws \/ Fails \/ Ends \/ GoesOn

LEMMA RunStarts ==
  ASSUME NEW T, NEW users \in SUBSET Subs, NEW rest \in RunType, rest.task = NoTask,
         rest.inputs = {}, StartRun(T, users, rest)
  PROVE  /\ run' \in RunType /\ run'.inputs = users /\ (run'.task = NoTask <=> users = {})
  <1>1. CASE users = {}
    BY <1>1 DEF StartRun
  <1>2. CASE users # {}
    <2>1. PICK S \in NextIds(T, 1) : \E g \in S : run' = [task |-> g, inputs |-> users]
      BY <1>2 DEF StartRun
    <2>2. PICK g \in S : run' = [task |-> g, inputs |-> users]
      BY <2>1
    <2>3. g \in Tasks
      BY NextIdsFresh
    <2>4. g # NoTask
      BY <2>3, BoundsAssumption DEF Tasks, NoTask
    <2> QED BY <1>2, <2>2, <2>3, <2>4 DEF RunType
  <1> QED BY <1>1, <1>2

\* The statuses a boundary leaves.
LEMMA BoundedStatus ==
  ASSUME NEW s \in [Subs -> Submission], NEW items, Queued(items, s), NEW b,
         Bounded(s, items, b)
  PROVE  /\ b.inbox \in Seq(Item) /\ Increasing(b.inbox)
         /\ Ids(b.inbox) = UserIds(items) \ b.users
         /\ Members(b.inbox) \subseteq Members(items)
         /\ b.users \in SUBSET Subs
         /\ Queued(b.inbox, b.sub)
         /\ \A x \in Subs : s[x].status # "none" <=> b.sub[x].status # "none"
         /\ \A x \in Subs : b.sub[x].status = "queued" <=>
              \/ x \in UserIds(items) \ b.users
              \/ s[x].status = "queued" /\ x \notin Ids(items)
         /\ \A x \in Subs : b.sub[x].status = "placed" <=>
              \/ x \in b.users \/ s[x].status = "placed"
  <1>1. items \in Seq(Item) /\ Increasing(items)
    BY DEF Queued
  <1>2. \A x \in Ids(items) : x \in Subs /\ s[x].status = "queued"
    <2>1. \A i \in DOMAIN items : items[i].id \in Subs /\ s[items[i].id].status = "queued"
      <3>1. \A i \in DOMAIN items : items[i] \in Item
        BY <1>1
      <3> QED BY <3>1 DEF Queued, Waits, Item
    <2> QED BY <2>1 DEF Ids
  <1>3. /\ UserIds(items) \cap WriteIds(items) = {} /\ UserIds(items) \cup WriteIds(items) = Ids(items)
        /\ b.users \in SUBSET UserIds(items)
    BY <1>1, ItemIds DEF Bounded
  <1>4. /\ b.inbox \in Seq(Item) /\ Increasing(b.inbox)
        /\ Members(b.inbox) = {x \in Members(items) : x.id \notin b.users \cup WriteIds(items)}
        /\ Ids(b.inbox) = Ids(items) \ (b.users \cup WriteIds(items))
    <2>1. \A x \in Item : x.id \in Nat
      BY DEF Item, Subs
    <2>2. b.inbox = Without(items, b.users \cup WriteIds(items))
      BY DEF Bounded
    <2> QED BY <1>1, <2>1, <2>2, WithoutFits
  <1>5. Ids(b.inbox) = UserIds(items) \ b.users
    BY <1>3, <1>4
  <1>6. /\ \A x \in b.users : b.sub[x].status = "placed"
        /\ \A x \in WriteIds(items) : b.sub[x].status \in {"done", "unanswered"}
        /\ \A x \in Subs \ (b.users \cup WriteIds(items)) : b.sub[x] = s[x]
    BY DEF Bounded, IsSettled
  <1>7. Queued(b.inbox, b.sub)
    <2>1. ASSUME NEW i \in DOMAIN b.inbox PROVE Waits(b.inbox[i], b.sub[b.inbox[i].id])
      <3>1. b.inbox[i] \in Members(b.inbox)
        BY DEF Members
      <3>2. PICK j \in DOMAIN items : b.inbox[i] = items[j]
        BY <1>4, <3>1 DEF Members
      <3>3. items[j].id \in Subs \ (b.users \cup WriteIds(items))
        BY <1>2, <1>4, <3>1, <3>2 DEF Ids
      <3>4. Waits(items[j], s[items[j].id])
        BY DEF Queued
      <3> QED BY <1>6, <3>2, <3>3, <3>4
    <2> QED BY <1>4, <2>1 DEF Queued
  <1>8. \A x \in Subs : s[x].status # "none" <=> b.sub[x].status # "none"
    BY <1>2, <1>3, <1>6
  <1>9. \A x \in Subs : b.sub[x].status = "queued" <=>
          \/ x \in UserIds(items) \ b.users
          \/ s[x].status = "queued" /\ x \notin Ids(items)
    BY <1>2, <1>3, <1>6
  <1>10. \A x \in Subs : b.sub[x].status = "placed" <=> (x \in b.users \/ s[x].status = "placed")
    BY <1>2, <1>3, <1>6
  <1> QED BY <1>2, <1>3, <1>4, <1>5, <1>7, <1>8, <1>9, <1>10

\* One submission leaves the unused ids.
Takes(t, s, r) == t = [sub EXCEPT ![s] = r]

LEMMA NextSubKeeps ==
  ASSUME SubsInv, NEW s \in Subs, NextSub(s), NEW r \in Submission, r.status # "none",
         NEW t \in [Subs -> Submission], Takes(t, s, r)
  PROVE  /\ \A x, y \in Subs : x < y /\ t[y].status # "none" => t[x].status # "none"
         /\ t[s] = r /\ \A x \in Subs \ {s} : t[x] = sub[x]
  <1>1. sub \in [Subs -> Submission]
    BY DEF SubsInv
  <1>2. t[s] = r /\ \A x \in Subs \ {s} : t[x] = sub[x]
    BY <1>1 DEF Takes
  <1>3. /\ \A x \in Subs : x < s => sub[x].status # "none"
        /\ \A x, y \in Subs : x < y /\ sub[y].status # "none" => sub[x].status # "none"
    BY DEF NextSub, SubsInv
  <1>4. \A x, y \in Subs : x < y /\ t[y].status # "none" => t[x].status # "none"
    BY <1>2, <1>3
  <1> QED BY <1>2, <1>4

\* A new submission is neither queued nor in the run, and the last one.
LEMMA NextSubIs ==
  ASSUME SubsInv, NEW s \in Subs, NextSub(s)
  PROVE  /\ sub[s].status = "none" /\ s \notin Ids(inbox) /\ s \notin run.inputs
         /\ \A x \in Ids(inbox) : x < s
  <1>1. /\ sub[s].status = "none" /\ s \notin Ids(inbox) /\ s \notin run.inputs
        /\ \A x, y \in Subs : x < y /\ sub[y].status # "none" => sub[x].status # "none"
    BY DEF NextSub, SubsInv, PlacedIsInRun
  <1>2. ASSUME NEW x \in Ids(inbox) PROVE x < s
    <2>1. x \in Subs /\ sub[x].status = "queued"
      BY DEF SubsInv
    <2>2. ~(s < x) /\ x # s
      BY <1>1, <2>1
    <2> QED BY <2>1, <2>2 DEF Subs
  <1> QED BY <1>1, <1>2

\* The item of a new submission behind those of the inbox.
LEMMA AppendQueues ==
  ASSUME SubsInv, NEW s \in Subs, NextSub(s), NEW item, NEW type, Fitting(s, item, type),
         NEW t, Takes(t, s, NewSub(type, "queued", "none", 0))
  PROVE  /\ t \in [Subs -> Submission] /\ NewSub(type, "queued", "none", 0) \in Submission
         /\ Queued(Append(inbox, item), t)
         /\ Ids(Append(inbox, item)) = Ids(inbox) \cup {s}
         /\ Members(Append(inbox, item)) = Members(inbox) \cup {item}
         /\ DOMAIN Append(inbox, item) = (DOMAIN inbox) \cup {Len(inbox) + 1}
         /\ Append(inbox, item)[Len(inbox) + 1] = item
         /\ \A i \in DOMAIN inbox : Append(inbox, item)[i] = inbox[i]
  <1> DEFINE q == Append(inbox, item)
             n == Len(inbox)
             r == NewSub(type, "queued", "none", 0)
  <1>1. inbox \in Seq(Item) /\ Increasing(inbox) /\ sub \in [Subs -> Submission]
        /\ \A i \in DOMAIN inbox : Waits(inbox[i], sub[inbox[i].id])
    BY DEF SubsInv, Queued
  <1>2. item \in Item /\ item.id = s
    BY DEF Fitting
  <1>3. /\ q \in Seq(Item) /\ Members(q) = Members(inbox) \cup {item} /\ n \in Nat
        /\ DOMAIN inbox = 1..n /\ DOMAIN q = (1..n) \cup {n + 1} /\ DOMAIN q = 1..(n + 1)
        /\ q[n + 1] = item /\ \A i \in 1..n : q[i] = inbox[i]
    <2>1. /\ q \in Seq(Item) /\ Members(q) = Members(inbox) \cup {item} /\ n \in Nat
          /\ Len(q) = n + 1 /\ q[n + 1] = item /\ \A i \in 1..n : q[i] = inbox[i]
      BY <1>1, <1>2, AppendMembers
    <2>2. DOMAIN inbox = 1..n /\ DOMAIN q = 1..(n + 1)
      BY <1>1, <2>1
    <2>3. 1..(n + 1) = (1..n) \cup {n + 1}
      BY <2>1
    <2> QED BY <2>1, <2>2, <2>3
  <1>4. r \in Submission /\ r.status = "queued" /\ r.type = type
    BY DEF Fitting, NewSub, Submission
  <1>5. t \in [Subs -> Submission]
    BY <1>1, <1>4 DEF Takes
  <1> HIDE DEF q, n, r
  <1>6. /\ t[s] = r /\ \A x \in Subs \ {s} : t[x] = sub[x]
        /\ s \notin Ids(inbox) /\ \A x \in Ids(inbox) : x < s
    <2>1. Takes(t, s, r) /\ r.status # "none"
      BY <1>4 DEF r
    <2>2. r \in Submission
      BY <1>4
    <2>3. t[s] = r /\ \A x \in Subs \ {s} : t[x] = sub[x]
      BY <1>5, <2>1, <2>2, NextSubKeeps
    <2> QED BY <2>3, NextSubIs
  <1>7. Ids(q) = Ids(inbox) \cup {s}
    BY <1>2, <1>3 DEF Ids
  <1>8. Increasing(q)
    <2>1. ASSUME NEW i \in DOMAIN q, NEW j \in DOMAIN q, i < j PROVE q[i].id < q[j].id
      <3>1. i \in 1..n
        BY <1>3, <2>1
      <3>2. q[i].id \in Ids(inbox)
        BY <1>3, <3>1 DEF Ids
      <3>3. CASE j = n + 1
        BY <1>2, <1>3, <1>6, <3>2, <3>3
      <3>4. CASE j # n + 1
        BY <1>1, <1>3, <2>1, <3>1, <3>4 DEF Increasing
      <3> QED BY <3>3, <3>4
    <2> QED BY <2>1 DEF Increasing
  <1>9. \A i \in DOMAIN q : Waits(q[i], t[q[i].id])
    <2>1. ASSUME NEW i \in 1..n PROVE Waits(q[i], t[q[i].id])
      <3>1. inbox[i].id \in Ids(inbox) /\ inbox[i].id \in Subs
        <4>1. inbox[i] \in Item
          BY <1>1, <1>3
        <4> QED BY <1>3, <4>1 DEF Ids, Item
      <3>2. t[inbox[i].id] = sub[inbox[i].id]
        BY <1>6, <3>1
      <3> QED BY <1>1, <1>3, <3>2
    <2>2. Waits(q[n + 1], t[s])
      BY <1>2, <1>3, <1>4, <1>6 DEF Waits, Fitting
    <2> QED BY <1>2, <1>3, <2>1, <2>2
  <1>10. Queued(q, t)
    BY <1>3, <1>8, <1>9 DEF Queued
  <1> QED BY <1>3, <1>4, <1>5, <1>7, <1>10 DEF q, n, r

LEMMA AppendHeads ==
  ASSUME SubsInv, HeadsFit(inbox, log), NEW s \in Subs, NextSub(s), NEW item, NEW type,
         Fitting(s, item, type)
  PROVE  HeadsFit(Append(inbox, item), log)
  BY AppendQueues DEF HeadsFit, Fitting

\* endRun on submissions of which the placed ones are those of the run.
LEMMA EndRunIs ==
  ASSUME NEW s \in [Subs -> Submission], NEW g, run.task = g, NEW status \in {"done", "unanswered"},
         NEW reason \in Endings
  PROVE  LET t == EndRun(s, g, status, reason) IN
         /\ t \in [Subs -> Submission]
         /\ \A x \in Subs \ run.inputs : t[x] = s[x]
         /\ \A x \in Subs \cap run.inputs : IsSettled(t[x]) /\ (~IsSettled(s[x]) => t[x].status = status)
  <1>1. \A x \in Subs : /\ Settle(s[x], status, reason) \in Submission
                        /\ IsSettled(Settle(s[x], status, reason))
                        /\ ~IsSettled(s[x]) => Settle(s[x], status, reason).status = status
    BY SettleIs DEF Endings
  <1> QED BY <1>1 DEF EndRun

LEMMA SubsSettled == SubsInv /\ AdmitsSettled => SubsInv'
  <1> SUFFICES ASSUME SubsInv, AdmitsSettled PROVE SubsInv'
    OBVIOUS
  <1>1. PICK s \in Subs, r \in Submission :
          /\ NextSub(s) /\ IsSettled(r)
          /\ sub' = [sub EXCEPT ![s] = r] /\ UNCHANGED <<inbox, run>>
    BY DEF AdmitsSettled
  <1>2. sub \in [Subs -> Submission] /\ sub' \in [Subs -> Submission]
    BY <1>1 DEF SubsInv
  <1>3. r.status \in {"done", "unanswered"}
    BY <1>1 DEF IsSettled
  <1>4. /\ \A x, y \in Subs : x < y /\ sub'[y].status # "none" => sub'[x].status # "none"
        /\ sub'[s] = r /\ \A x \in Subs \ {s} : sub'[x] = sub[x]
        /\ sub[s].status = "none" /\ s \notin Ids(inbox)
    <2>1. Takes(sub', s, r) /\ r.status # "none"
      BY <1>1, <1>3 DEF Takes
    <2>2. /\ \A x, y \in Subs : x < y /\ sub'[y].status # "none" => sub'[x].status # "none"
          /\ sub'[s] = r /\ \A x \in Subs \ {s} : sub'[x] = sub[x]
      <3>1. NextSub(s) /\ sub' \in [Subs -> Submission]
        BY <1>1, <1>2
      <3> QED BY <2>1, <3>1, NextSubKeeps
    <2> QED BY <1>1, <2>2, NextSubIs
  <1>5. Queued(inbox', sub')
    <2>1. ASSUME NEW i \in DOMAIN inbox PROVE Waits(inbox[i], sub'[inbox[i].id])
      <3>1. inbox[i].id \in Ids(inbox)
        BY DEF Ids
      <3>2. inbox[i].id \in Subs \ {s}
        BY <1>4, <3>1 DEF SubsInv
      <3> QED BY <1>4, <3>2 DEF SubsInv, Queued
    <2> QED BY <1>1, <2>1 DEF SubsInv, Queued
  <1>6. Ids(inbox') = {x \in Subs : sub'[x].status = "queued"}
    BY <1>1, <1>3, <1>4 DEF SubsInv
  <1>7. PlacedIsInRun'
    BY <1>1, <1>3, <1>4 DEF SubsInv, PlacedIsInRun
  <1> QED BY <1>1, <1>2, <1>4, <1>5, <1>6, <1>7 DEF SubsInv

LEMMA SubsQueued == SubsInv /\ AdmitsQueued => SubsInv'
  <1> SUFFICES ASSUME SubsInv, AdmitsQueued PROVE SubsInv'
    OBVIOUS
  <1>1. PICK s \in Subs : \E item, type :
          NextSub(s) /\ Fitting(s, item, type) /\ AdmitBusy(s, item, type)
    BY DEF AdmitsQueued
  <1>2. PICK item, type : NextSub(s) /\ Fitting(s, item, type) /\ AdmitBusy(s, item, type)
    BY <1>1
  <1> DEFINE r == NewSub(type, "queued", "none", 0)
  <1>3. sub' = [sub EXCEPT ![s] = r] /\ inbox' = Append(inbox, item) /\ run' = run
    BY <1>2 DEF AdmitBusy
  <1>4. /\ sub' \in [Subs -> Submission] /\ r \in Submission /\ r.status = "queued"
        /\ Queued(inbox', sub') /\ Ids(inbox') = Ids(inbox) \cup {s}
    <2>1. Takes(sub', s, r) /\ r.status = "queued"
      BY <1>3 DEF Takes, NewSub
    <2> QED BY <1>2, <1>3, <2>1, AppendQueues
  <1> HIDE DEF r
  <1>5. /\ \A x, y \in Subs : x < y /\ sub'[y].status # "none" => sub'[x].status # "none"
        /\ sub'[s] = r /\ \A x \in Subs \ {s} : sub'[x] = sub[x]
        /\ sub[s].status = "none"
    <2>1. Takes(sub', s, r) /\ r.status # "none"
      BY <1>3, <1>4 DEF Takes
    <2> QED BY <1>2, <1>4, <2>1, NextSubKeeps, NextSubIs
  <1>6. Ids(inbox') = {x \in Subs : sub'[x].status = "queued"}
    BY <1>4, <1>5 DEF SubsInv
  <1>7. PlacedIsInRun'
    BY <1>3, <1>4, <1>5 DEF SubsInv, PlacedIsInRun
  <1> QED BY <1>3, <1>4, <1>5, <1>6, <1>7 DEF SubsInv

LEMMA SubsPlaced == SubsInv /\ LogFits(log) /\ AdmitsPlaced => SubsInv'
  <1> SUFFICES ASSUME SubsInv, LogFits(log), AdmitsPlaced PROVE SubsInv'
    OBVIOUS
  <1>1. PICK s \in Subs : \E item : NextSub(s) /\ AdmitInput(s, item)
    BY DEF AdmitsPlaced
  <1>2. PICK item : NextSub(s) /\ AdmitInput(s, item)
    BY <1>1
  <1> DEFINE r == NewSub("input", "placed", "none", log.last + 1)
  <1>3. /\ ~Busy /\ sub' = [sub EXCEPT ![s] = r] /\ inbox' = inbox /\ inbox = <<>>
        /\ StartRun(task, {s}, run)
    BY <1>2 DEF AdmitInput, AdmitsIdle
  <1>4. r \in Submission /\ r.status = "placed"
    BY DEF NewSub, Submission, LogFits, Log
  <1>5. sub' \in [Subs -> Submission]
    BY <1>3, <1>4 DEF SubsInv
  <1> HIDE DEF r
  <1>6. /\ \A x, y \in Subs : x < y /\ sub'[y].status # "none" => sub'[x].status # "none"
        /\ sub'[s] = r /\ \A x \in Subs \ {s} : sub'[x] = sub[x]
        /\ sub[s].status = "none"
    <2>1. Takes(sub', s, r) /\ r.status # "none"
      BY <1>3, <1>4 DEF Takes
    <2> QED BY <1>2, <1>4, <1>5, <2>1, NextSubKeeps, NextSubIs
  <1>7. run' \in RunType /\ run'.inputs = {s} /\ (run'.task = NoTask <=> {s} = {})
    <2>1. run \in RunType /\ run.task = NoTask /\ run.inputs = {} /\ {s} \in SUBSET Subs
      BY <1>3 DEF SubsInv, Busy
    <2> QED BY <1>3, <2>1, RunStarts
  <1>8. Queued(inbox', sub')
    BY <1>3 DEF SubsInv, Queued
  <1>9. Ids(inbox') = {x \in Subs : sub'[x].status = "queued"}
    BY <1>3, <1>4, <1>6 DEF SubsInv
  <1>10. PlacedIsInRun'
    <2>1. {x \in Subs : sub[x].status = "placed"} = {}
      BY <1>3 DEF SubsInv, PlacedIsInRun, Busy
    <2> QED BY <1>4, <1>6, <1>7, <2>1 DEF PlacedIsInRun
  <1> QED BY <1>5, <1>6, <1>7, <1>8, <1>9, <1>10 DEF SubsInv

LEMMA SubsBehind ==
  SubsInv /\ LogFits(log) /\ HeadsFit(inbox, log) /\ AdmitsBehind => SubsInv'
  <1> SUFFICES ASSUME SubsInv, LogFits(log), HeadsFit(inbox, log), AdmitsBehind PROVE SubsInv'
    OBVIOUS
  <1>1. PICK s \in Subs : \E item, type, T :
          NextSub(s) /\ Fitting(s, item, type) /\ AdmitBehind(s, item, type, T)
    BY DEF AdmitsBehind
  <1>2. PICK item, type, T :
          NextSub(s) /\ Fitting(s, item, type) /\ AdmitBehind(s, item, type, T)
    BY <1>1
  <1> DEFINE r == NewSub(type, "queued", "none", 0)
             t == [sub EXCEPT ![s] = r]
             q == Append(inbox, item)
  <1>3. PICK modes \in Modes :
          LET b == Boundary(log, t, q, "final", modes) IN
          sub' = b.sub /\ inbox' = b.inbox /\ StartRun(T, b.users, run)
    BY <1>2 DEF AdmitBehind
  <1> DEFINE b == Boundary(log, t, q, "final", modes)
  <1>4. /\ t \in [Subs -> Submission] /\ r \in Submission /\ r.status = "queued"
        /\ Queued(q, t) /\ Ids(q) = Ids(inbox) \cup {s} /\ HeadsFit(q, log)
    <2>1. Takes(t, s, r) /\ r.status = "queued"
      BY DEF Takes, NewSub
    <2> HIDE DEF t
    <2>2. /\ t \in [Subs -> Submission] /\ r \in Submission
          /\ Queued(q, t) /\ Ids(q) = Ids(inbox) \cup {s}
      BY <1>2, <2>1, AppendQueues
    <2> QED BY <1>2, <2>1, <2>2, AppendHeads
  <1> HIDE DEF r
  <1>5. /\ \A x, y \in Subs : x < y /\ t[y].status # "none" => t[x].status # "none"
        /\ t[s] = r /\ (\A x \in Subs \ {s} : t[x] = sub[x]) /\ sub[s].status = "none"
    <2>1. Takes(t, s, r) /\ r.status # "none"
      BY <1>4 DEF Takes
    <2> HIDE DEF t
    <2> QED BY <1>2, <1>4, <2>1, NextSubKeeps, NextSubIs
  <1> HIDE DEF t, q
  <1>6. Bounded(t, q, b)
    BY <1>4, BoundaryIs
  <1>7. sub' = b.sub /\ inbox' = b.inbox /\ StartRun(T, b.users, run)
    BY <1>3
  <1> HIDE DEF b
  <1>8. /\ Ids(b.inbox) = UserIds(q) \ b.users /\ Queued(b.inbox, b.sub)
        /\ b.users \in SUBSET Subs
        /\ \A x \in Subs : t[x].status # "none" <=> b.sub[x].status # "none"
        /\ \A x \in Subs : b.sub[x].status = "queued" <=>
             (x \in UserIds(q) \ b.users \/ (t[x].status = "queued" /\ x \notin Ids(q)))
        /\ \A x \in Subs : b.sub[x].status = "placed" <=>
             (x \in b.users \/ t[x].status = "placed")
    BY <1>4, <1>6, BoundedStatus
  <1>9. b.sub \in [Subs -> Submission]
    BY <1>6 DEF Bounded
  <1>10. run \in RunType /\ run.task = NoTask /\ run.inputs = {}
    BY <1>2 DEF SubsInv, AdmitBehind, AdmitsIdle, Busy
  <1>11. run' \in RunType /\ run'.inputs = b.users /\ (run'.task = NoTask <=> b.users = {})
    BY <1>7, <1>8, <1>10, RunStarts
  <1>12. \A x \in Subs : t[x].status # "placed" /\ (t[x].status = "queued" => x \in Ids(q))
    BY <1>4, <1>5, <1>10 DEF SubsInv, PlacedIsInRun
  <1>13. Ids(inbox') = {x \in Subs : sub'[x].status = "queued"}
    <2>1. UserIds(q) \in SUBSET Subs
      BY <1>4, ItemIds DEF Queued
    <2> QED BY <1>7, <1>8, <1>12, <2>1
  <1>14. PlacedIsInRun'
    BY <1>7, <1>8, <1>11, <1>12 DEF PlacedIsInRun
  <1>15. \A x, y \in Subs : x < y /\ sub'[y].status # "none" => sub'[x].status # "none"
    BY <1>5, <1>7, <1>8
  <1> QED BY <1>7, <1>8, <1>9, <1>11, <1>13, <1>14, <1>15 DEF SubsInv

LEMMA SubsWithdrawn == SubsInv /\ Withdraws => SubsInv'
  <1> SUFFICES ASSUME SubsInv, Withdraws PROVE SubsInv'
    OBVIOUS
  <1>1. PICK S \in {{s} : s \in Ids(inbox)} \cup {UserIds(inbox)} :
          /\ sub' = [x \in Subs |-> IF x \in S THEN Settle(sub[x], "unanswered", "aborted")
                                    ELSE sub[x]]
          /\ inbox' = Without(inbox, S) /\ run' = run
    BY DEF Withdraws
  <1>2. /\ inbox \in Seq(Item) /\ Increasing(inbox) /\ sub \in [Subs -> Submission]
        /\ Ids(inbox) = {x \in Subs : sub[x].status = "queued"}
    BY DEF SubsInv, Queued
  <1>3. S \in SUBSET Ids(inbox)
    BY <1>1, <1>2, ItemIds
  <1>4. \A x \in Subs : /\ Settle(sub[x], "unanswered", "aborted") \in Submission
                        /\ x \in S => Settle(sub[x], "unanswered", "aborted").status = "unanswered"
    BY <1>2, <1>3, SettleIs DEF IsSettled
  <1>5. /\ sub' \in [Subs -> Submission]
        /\ \A x \in S : sub'[x].status = "unanswered"
        /\ \A x \in Subs \ S : sub'[x] = sub[x]
    BY <1>1, <1>2, <1>3, <1>4
  <1>6. /\ inbox' \in Seq(Item) /\ Increasing(inbox') /\ Ids(inbox') = Ids(inbox) \ S
        /\ Members(inbox') = {x \in Members(inbox) : x.id \notin S}
    <2>1. \A x \in Item : x.id \in Nat
      BY DEF Item, Subs
    <2> QED BY <1>1, <1>2, <2>1, WithoutFits
  <1>7. Queued(inbox', sub')
    <2>1. ASSUME NEW i \in DOMAIN inbox' PROVE Waits(inbox'[i], sub'[inbox'[i].id])
      <3>1. inbox'[i] \in Members(inbox')
        BY DEF Members
      <3>2. PICK j \in DOMAIN inbox : inbox'[i] = inbox[j]
        BY <1>6, <3>1 DEF Members
      <3>3. inbox[j].id \in Ids(inbox) \ S
        BY <1>6, <3>1, <3>2 DEF Ids
      <3>4. Waits(inbox[j], sub[inbox[j].id])
        BY DEF SubsInv, Queued
      <3> QED BY <1>2, <1>5, <3>2, <3>3, <3>4
    <2> QED BY <1>6, <2>1 DEF Queued
  <1>8. Ids(inbox') = {x \in Subs : sub'[x].status = "queued"}
    BY <1>2, <1>3, <1>5, <1>6
  <1>9. PlacedIsInRun'
    BY <1>1, <1>2, <1>3, <1>5 DEF SubsInv, PlacedIsInRun
  <1>10. \A x, y \in Subs : x < y /\ sub'[y].status # "none" => sub'[x].status # "none"
    <2>1. \A x \in Subs : sub'[x].status # "none" <=> sub[x].status # "none"
      BY <1>2, <1>3, <1>5
    <2> QED BY <2>1 DEF SubsInv
  <1> QED BY <1>1, <1>5, <1>7, <1>8, <1>9, <1>10 DEF SubsInv

\* The inputs of the run are placed, and nothing else is.
LEMMA RunInputs ==
  ASSUME SubsInv
  PROVE  /\ run.inputs \in SUBSET Subs
         /\ \A x \in Subs : x \in run.inputs <=> sub[x].status = "placed"
         /\ run.inputs \cap Ids(inbox) = {}
  BY DEF SubsInv, PlacedIsInRun, RunType

LEMMA SubsFails == SubsInv /\ Fails => SubsInv'
  <1> SUFFICES ASSUME SubsInv, Fails PROVE SubsInv'
    OBVIOUS
  <1>1. PICK reason \in Endings :
          /\ inbox' = inbox /\ run' = NoRun
          /\ sub' = EndRun(sub, run.task, "unanswered", reason)
    BY DEF Fails
  <1>2. sub \in [Subs -> Submission]
    BY DEF SubsInv
  <1>3. /\ sub' \in [Subs -> Submission]
        /\ \A x \in Subs \ run.inputs : sub'[x] = sub[x]
        /\ \A x \in Subs \cap run.inputs : IsSettled(sub'[x])
    BY <1>1, <1>2, EndRunIs
  <1>4. /\ \A x \in Subs : x \in run.inputs <=> sub[x].status = "placed"
        /\ run.inputs \cap Ids(inbox) = {} /\ run.inputs \in SUBSET Subs
    BY RunInputs
  <1>5. Queued(inbox', sub')
    <2>1. ASSUME NEW i \in DOMAIN inbox PROVE Waits(inbox[i], sub'[inbox[i].id])
      <3>1. inbox[i].id \in Ids(inbox)
        BY DEF Ids
      <3>2. inbox[i].id \in Subs \ run.inputs
        BY <1>4, <3>1 DEF SubsInv
      <3> QED BY <1>3, <3>2 DEF SubsInv, Queued
    <2> QED BY <1>1, <2>1 DEF SubsInv, Queued
  <1>6. \A x \in Subs : /\ sub'[x].status = "queued" <=> sub[x].status = "queued"
                        /\ sub'[x].status # "placed"
                        /\ sub'[x].status # "none" <=> sub[x].status # "none"
    BY <1>3, <1>4 DEF IsSettled
  <1>7. run' \in RunType /\ run'.task = NoTask /\ run'.inputs = {}
    BY <1>1 DEF NoRun, RunType
  <1> QED BY <1>1, <1>3, <1>5, <1>6, <1>7 DEF SubsInv, PlacedIsInRun

\* A boundary of the inbox as it is.
LEMMA InboxBoundary ==
  ASSUME SubsInv, LogFits(log), HeadsFit(inbox, log), NEW l, LogFits(l), Follows(log, l),
         NEW at, NEW modes \in Modes, NEW b, b = Boundary(l, sub, inbox, at, modes)
  PROVE  /\ Bounded(sub, inbox, b) /\ Moved(l, inbox, b.log) /\ (b.reset <=> ~NoReset(inbox))
         /\ HeadsFit(inbox, l)
         /\ Ids(b.inbox) = UserIds(inbox) \ b.users /\ Queued(b.inbox, b.sub)
         /\ Members(b.inbox) \subseteq Members(inbox)
         /\ b.users \in SUBSET Ids(inbox) /\ b.sub \in [Subs -> Submission]
         /\ \A x \in Subs : sub[x].status # "none" <=> b.sub[x].status # "none"
         /\ \A x \in Subs : b.sub[x].status = "queued" <=> x \in UserIds(inbox) \ b.users
         /\ \A x \in Subs : b.sub[x].status = "placed" <=> x \in b.users \cup run.inputs
  <1>1. /\ sub \in [Subs -> Submission] /\ Queued(inbox, sub)
        /\ inbox \in Seq(Item) /\ Increasing(inbox)
        /\ Ids(inbox) = {x \in Subs : sub[x].status = "queued"}
    BY DEF SubsInv, Queued
  <1>2. HeadsFit(inbox, l)
    <2>1. ASSUME NEW i \in DOMAIN inbox PROVE inbox[i].head <= l.last
      <3>1. inbox[i] \in Item
        BY <1>1
      <3>2. inbox[i].head \in Int /\ inbox[i].head <= log.last
        BY <3>1 DEF Item, Self, HeadsFit
      <3>3. l.last \in Int /\ log.last \in Int /\ log.last <= l.last
        BY DEF Follows, LogFits, Log
      <3> QED BY <3>2, <3>3
    <2> QED BY <2>1 DEF HeadsFit
  <1>3. Bounded(sub, inbox, b) /\ Moved(l, inbox, b.log) /\ (b.reset <=> ~NoReset(inbox))
    BY <1>1, <1>2, BoundaryIs
  <1>4. /\ Ids(b.inbox) = UserIds(inbox) \ b.users
        /\ Members(b.inbox) \subseteq Members(inbox)
        /\ b.users \in SUBSET Subs
        /\ Queued(b.inbox, b.sub)
        /\ \A x \in Subs : sub[x].status # "none" <=> b.sub[x].status # "none"
        /\ \A x \in Subs : b.sub[x].status = "queued" <=>
             (x \in UserIds(inbox) \ b.users \/ (sub[x].status = "queued" /\ x \notin Ids(inbox)))
        /\ \A x \in Subs : b.sub[x].status = "placed" <=>
             (x \in b.users \/ sub[x].status = "placed")
    BY <1>1, <1>3, BoundedStatus
  <1>5. b.users \in SUBSET Ids(inbox) /\ b.sub \in [Subs -> Submission]
    BY <1>1, <1>3, ItemIds DEF Bounded
  <1>6. \A x \in Subs : b.sub[x].status = "queued" <=> x \in UserIds(inbox) \ b.users
    BY <1>1, <1>4
  <1>7. \A x \in Subs : b.sub[x].status = "placed" <=> x \in b.users \cup run.inputs
    BY <1>4, RunInputs
  <1> QED BY <1>2, <1>3, <1>4, <1>5, <1>6, <1>7

LEMMA SubsEnds == SubsInv /\ LogFits(log) /\ HeadsFit(inbox, log) /\ Ends => SubsInv'
  <1> SUFFICES ASSUME SubsInv, LogFits(log), HeadsFit(inbox, log), Ends PROVE SubsInv'
    OBVIOUS
  <1>1. PICK l, at, T : \E modes \in Modes, status \in {"done", "unanswered"}, reason \in Endings :
          LET b == Boundary(l, sub, inbox, at, modes) IN
          /\ LogFits(l) /\ Follows(log, l)
          /\ sub' = EndRun(b.sub, run.task, status, reason) /\ inbox' = b.inbox
          /\ StartRun(T, b.users, NoRun)
    BY DEF Ends
  <1>2. PICK modes \in Modes, status \in {"done", "unanswered"}, reason \in Endings :
          LET b == Boundary(l, sub, inbox, at, modes) IN
          /\ LogFits(l) /\ Follows(log, l)
          /\ sub' = EndRun(b.sub, run.task, status, reason) /\ inbox' = b.inbox
          /\ StartRun(T, b.users, NoRun)
    BY <1>1
  <1> DEFINE b == Boundary(l, sub, inbox, at, modes)
  <1>3. /\ LogFits(l) /\ Follows(log, l)
        /\ sub' = EndRun(b.sub, run.task, status, reason) /\ inbox' = b.inbox
        /\ StartRun(T, b.users, NoRun)
    BY <1>2
  <1>4. /\ Ids(b.inbox) = UserIds(inbox) \ b.users /\ Queued(b.inbox, b.sub)
        /\ b.users \in SUBSET Ids(inbox) /\ b.sub \in [Subs -> Submission]
        /\ \A x \in Subs : sub[x].status # "none" <=> b.sub[x].status # "none"
        /\ \A x \in Subs : b.sub[x].status = "queued" <=> x \in UserIds(inbox) \ b.users
        /\ \A x \in Subs : b.sub[x].status = "placed" <=> x \in b.users \cup run.inputs
    BY <1>3, InboxBoundary
  <1> HIDE DEF b
  <1>5. /\ sub' \in [Subs -> Submission]
        /\ \A x \in Subs \ run.inputs : sub'[x] = b.sub[x]
        /\ \A x \in Subs \cap run.inputs : IsSettled(sub'[x])
    BY <1>3, <1>4, EndRunIs
  <1>6. /\ run.inputs \cap Ids(inbox) = {} /\ run.inputs \in SUBSET Subs
        /\ Ids(inbox) \in SUBSET Subs
        /\ \A x \in Subs : x \in run.inputs <=> sub[x].status = "placed"
    BY RunInputs DEF SubsInv
  <1>7. run' \in RunType /\ run'.inputs = b.users /\ (run'.task = NoTask <=> b.users = {})
    <2>1. NoRun \in RunType /\ NoRun.task = NoTask /\ NoRun.inputs = {} /\ b.users \in SUBSET Subs
      BY <1>4, <1>6 DEF NoRun, RunType
    <2> QED BY <1>3, <2>1, RunStarts
  <1>8. UserIds(inbox) \in SUBSET Ids(inbox)
    BY DEF UserIds, Ids
  <1>9. Queued(inbox', sub')
    <2>1. ASSUME NEW i \in DOMAIN b.inbox PROVE Waits(b.inbox[i], sub'[b.inbox[i].id])
      <3>1. b.inbox[i].id \in Ids(b.inbox)
        BY DEF Ids
      <3>2. b.inbox[i].id \in Subs \ run.inputs
        BY <1>4, <1>6, <1>8, <3>1
      <3> QED BY <1>4, <1>5, <3>2 DEF Queued
    <2> QED BY <1>3, <1>4, <2>1 DEF Queued
  <1>10. \A x \in Subs : /\ sub'[x].status = "queued" <=> x \in UserIds(inbox) \ b.users
                         /\ sub'[x].status = "placed" <=> x \in b.users
                         /\ sub'[x].status # "none" <=> sub[x].status # "none"
    BY <1>4, <1>5, <1>6, <1>8 DEF IsSettled
  <1>11. Ids(inbox') = {x \in Subs : sub'[x].status = "queued"}
    BY <1>3, <1>4, <1>6, <1>8, <1>10
  <1>12. PlacedIsInRun'
    BY <1>4, <1>6, <1>7, <1>10 DEF PlacedIsInRun
  <1>13. \A x, y \in Subs : x < y /\ sub'[y].status # "none" => sub'[x].status # "none"
    BY <1>10 DEF SubsInv
  <1> QED BY <1>5, <1>7, <1>9, <1>11, <1>12, <1>13 DEF SubsInv

LEMMA SubsGoOn == SubsInv /\ LogFits(log) /\ HeadsFit(inbox, log) /\ GoesOn => SubsInv'
  <1> SUFFICES ASSUME SubsInv, LogFits(log), HeadsFit(inbox, log), GoesOn PROVE SubsInv'
    OBVIOUS
  <1>1. PICK l, at : \E modes \in Modes, h \in Tasks :
          LET b == Boundary(l, sub, inbox, at, modes) IN
          /\ LogFits(l) /\ Follows(log, l) /\ sub' = b.sub /\ inbox' = b.inbox
          /\ run' = [task |-> h, inputs |-> run.inputs \cup b.users]
    BY DEF GoesOn
  <1>2. PICK modes \in Modes, h \in Tasks :
          LET b == Boundary(l, sub, inbox, at, modes) IN
          /\ LogFits(l) /\ Follows(log, l) /\ sub' = b.sub /\ inbox' = b.inbox
          /\ run' = [task |-> h, inputs |-> run.inputs \cup b.users]
    BY <1>1
  <1> DEFINE b == Boundary(l, sub, inbox, at, modes)
  <1>3. /\ LogFits(l) /\ Follows(log, l) /\ sub' = b.sub /\ inbox' = b.inbox
        /\ run' = [task |-> h, inputs |-> run.inputs \cup b.users]
    BY <1>2
  <1>4. /\ Ids(b.inbox) = UserIds(inbox) \ b.users /\ Queued(b.inbox, b.sub)
        /\ b.users \in SUBSET Ids(inbox) /\ b.sub \in [Subs -> Submission]
        /\ \A x \in Subs : sub[x].status # "none" <=> b.sub[x].status # "none"
        /\ \A x \in Subs : b.sub[x].status = "queued" <=> x \in UserIds(inbox) \ b.users
        /\ \A x \in Subs : b.sub[x].status = "placed" <=> x \in b.users \cup run.inputs
    BY <1>3, InboxBoundary
  <1> HIDE DEF b
  <1>5. /\ run.inputs \in SUBSET Subs /\ Ids(inbox) \in SUBSET Subs
        /\ run.inputs # {} /\ h # NoTask
    BY RunInputs, BoundsAssumption DEF SubsInv, GoesOn, Busy, Tasks, NoTask
  <1>6. run' \in RunType /\ run'.task # NoTask /\ run'.inputs # {}
    BY <1>3, <1>4, <1>5 DEF RunType
  <1>7. UserIds(inbox) \in SUBSET Ids(inbox)
    BY DEF UserIds, Ids
  <1>8. Ids(inbox') = {x \in Subs : sub'[x].status = "queued"}
    BY <1>3, <1>4, <1>5, <1>7
  <1>9. PlacedIsInRun'
    BY <1>3, <1>4, <1>5 DEF PlacedIsInRun
  <1>10. \A x, y \in Subs : x < y /\ sub'[y].status # "none" => sub'[x].status # "none"
    BY <1>3, <1>4 DEF SubsInv
  <1> QED BY <1>3, <1>4, <1>6, <1>8, <1>9, <1>10 DEF SubsInv

LEMMA SubsStepKeeps ==
  SubsInv /\ LogFits(log) /\ HeadsFit(inbox, log) /\ SubsStep => SubsInv'
  <1>1. SubsInv /\ Calm => SubsInv'
    BY DEF Calm, SubsInv, PlacedIsInRun
  <1> QED BY <1>1, SubsSettled, SubsQueued, SubsPlaced, SubsBehind, SubsWithdrawn, SubsFails,
             SubsEnds, SubsGoOn DEF SubsStep

-----------------------------------------------------------------------------
(* Tasks.  A live compaction stays as it is, or is new and has yet to        *)
(* select; a new one that a generation owns is in A.                         *)

TaskMap == [Tasks -> TaskRecord]
LocalMap == [Tasks -> Local]
LiveCompaction(T, t) == T[t].kind = "compaction" /\ T[t].status = "live"
Stays(r, new) ==
  new.owner = r.owner /\ new.phase = r.phase /\ new.cut = r.cut /\ new.base = r.base

Grows(T, U, A) ==
  /\ T \in TaskMap => U \in TaskMap
  /\ \A t \in Tasks : U[t].status = "absent" => T[t].status = "absent"
  /\ \A t \in Tasks : LiveCompaction(U, t) =>
       \/ LiveCompaction(T, t) /\ Stays(T[t], U[t])
       \/ T[t].status = "absent" /\ U[t].phase = "select" /\ (t \in A \/ U[t].owner = NoTask)

LEMMA GrowsSelf == \A T : Grows(T, T, {})
  BY DEF Grows, Stays

LEMMA GrowsChain ==
  ASSUME NEW T, NEW U, NEW V, NEW A, Grows(T, U, A), Grows(U, V, A)
  PROVE  Grows(T, V, A)
  BY DEF Grows, LiveCompaction, Stays

LEMMA RecordTypes ==
  /\ Absent \in TaskRecord /\ Generation \in TaskRecord
  /\ \A g \in Tasks : Tool(g) \in TaskRecord
  /\ \A o \in Tasks \cup {NoTask} : \A reason :
       /\ Compaction(o, reason) \in TaskRecord
       /\ Compaction(o, reason).phase = "select" /\ Compaction(o, reason).owner = o
  <1>0. FALSE \in BOOLEAN /\ 0 \in 0..1 /\ 0 \in Nat /\ 0 \in Tasks \cup {NoTask}
    BY DEF NoTask
  <1>1. Absent \in TaskRecord
    BY <1>0 DEF Absent, TaskRecord, NoTask
  <1>2. Generation \in TaskRecord
    BY <1>0 DEF Generation, Absent, TaskRecord, NoTask
  <1>3. ASSUME NEW g \in Tasks PROVE Tool(g) \in TaskRecord
    BY <1>0 DEF Tool, Absent, TaskRecord, NoTask
  <1>4. ASSUME NEW o \in Tasks \cup {NoTask}, NEW reason
        PROVE  /\ Compaction(o, reason) \in TaskRecord
               /\ Compaction(o, reason).phase = "select" /\ Compaction(o, reason).owner = o
    <2>1. ASSUME NEW b \in BOOLEAN
          PROVE  LET r == [Absent EXCEPT !.kind = "compaction", !.status = "live",
                                         !.phase = "select", !.owner = o, !.background = b]
                 IN  r \in TaskRecord /\ r.phase = "select" /\ r.owner = o
      BY <1>0 DEF Absent, TaskRecord
    <2> DEFINE b == o = NoTask /\ reason # "manual"
    <2>2. b \in BOOLEAN
      OBVIOUS
    <2> QED BY <2>1, <2>2 DEF Compaction
  <1> QED BY <1>1, <1>2, <1>3, <1>4

LEMMA CompactionIs ==
  ASSUME NEW o \in Tasks \cup {NoTask}, NEW reason
  PROVE  LET c == Compaction(o, reason) IN
         /\ IsRecord(c) /\ c \in TaskRecord /\ c.status # "absent"
         /\ c.phase = "select" /\ c.owner = o
  <1> DEFINE c == Compaction(o, reason)
  <1>1. IsRecord(c) /\ c.status # "absent"
    BY NewRecords
  <1>2. c \in TaskRecord /\ c.phase = "select" /\ c.owner = o
    BY RecordTypes
  <1> QED BY <1>1, <1>2

LEMMA EndGrows ==
  ASSUME NEW T, Shaped(T), NEW t \in Tasks, NEW status \in {"completed", "ended"}
  PROVE  Grows(T, Terminated(T, t, status), {})
  <1>1. /\ Terminated(T, t, status)[t].status = status
        /\ \A u \in Tasks \ {t} : Terminated(T, t, status)[u] = T[u]
    BY TerminatedRecord
  <1>2. T \in TaskMap => Terminated(T, t, status) \in TaskMap
    <2> SUFFICES ASSUME T \in TaskMap PROVE Terminated(T, t, status) \in TaskMap
      OBVIOUS
    <2> DEFINE r == [Absent EXCEPT !.kind = T[t].kind, !.status = status, !.owner = T[t].owner,
                                   !.background = T[t].background, !.marked = T[t].marked,
                                   !.placed = T[t].placed]
    <2>1. ASSUME NEW k \in {"none", "generation", "tool", "compaction"},
                 NEW o \in Tasks \cup {NoTask}, NEW b \in BOOLEAN, NEW m \in BOOLEAN,
                 NEW p \in BOOLEAN
          PROVE  [Absent EXCEPT !.kind = k, !.status = status, !.owner = o, !.background = b,
                                !.marked = m, !.placed = p] \in TaskRecord
      <3>1. 0 \in 0..1 /\ 0 \in Nat /\ status \in {"absent", "live", "completed", "ended"}
        OBVIOUS
      <3> QED BY <3>1 DEF Absent, TaskRecord
    <2>2. T[t] \in TaskRecord /\ 0 \in 0..1 /\ 0 \in Nat
      BY DEF TaskMap
    <2>3. /\ T[t].kind \in {"none", "generation", "tool", "compaction"}
          /\ T[t].owner \in Tasks \cup {NoTask}
          /\ T[t].background \in BOOLEAN /\ T[t].marked \in BOOLEAN /\ T[t].placed \in BOOLEAN
      BY <2>2 DEF TaskRecord
    <2>4. r \in TaskRecord
      BY <2>1, <2>3
    <2> HIDE DEF r
    <2>5. Terminated(T, t, status) = [T EXCEPT ![t] = r]
      BY DEF Terminated, r
    <2> QED BY <2>4, <2>5 DEF TaskMap
  <1> QED BY <1>1, <1>2 DEF Grows, LiveCompaction, Stays

LEMMA NewGrows ==
  ASSUME NEW T, Shaped(T), NEW n, NEW S \in NextIds(T, n), NEW r \in TaskRecord, NEW A,
         r.status # "absent",
         r.kind = "compaction" => r.phase = "select" /\ (r.owner = NoTask \/ S \subseteq A)
  PROVE  Grows(T, WithTasks(T, S, r), A)
  BY NextIdsFresh DEF WithTasks, Grows, LiveCompaction, Stays, TaskMap

LEMMA MarkAllGrows ==
  ASSUME Shaped(task), NEW S, MarkAll(S)
  PROVE  Grows(task, task', {})
  <1>1. ASSUME NEW t \in Tasks
        PROVE  /\ task'[t].kind = task[t].kind /\ task'[t].status = task[t].status
               /\ Stays(task[t], task'[t])
               /\ task[t] \in TaskRecord => task'[t] \in TaskRecord
    <2> DEFINE m == task[t].marked \/ (t \in S /\ Live(task, t))
    <2>1. task'[t] = [task[t] EXCEPT !.marked = m] /\ m \in BOOLEAN
      BY DEF MarkAll
    <2> HIDE DEF m
    <2>2. task[t] \in TaskRecord => task'[t] \in TaskRecord
      BY <2>1 DEF TaskRecord
    <2> QED BY <2>1, <2>2 DEF Shaped, IsRecord, Stays
  <1>2. task' = [t \in Tasks |-> task'[t]]
    BY DEF MarkAll
  <1>3. task \in TaskMap => task' \in TaskMap
    BY <1>1, <1>2 DEF TaskMap
  <1> QED BY <1>1, <1>3 DEF Grows, LiveCompaction

\* What is written in the place of a generation's record.
LEMMA PutGrows ==
  ASSUME NEW T, Shaped(T), NEW g \in Tasks, NEW r, r.kind = "generation", r.status = T[g].status,
         T[g] \in TaskRecord => r \in TaskRecord
  PROVE  Grows(T, [T EXCEPT ![g] = r], {})
  BY DEF Shaped, Grows, LiveCompaction, Stays, TaskMap

Phases == {"none", "prepare", "request", "retry", "poll", "tools", "select", "summarize"}

LEMMA EditGrows ==
  ASSUME NEW T, Shaped(T), NEW g \in Tasks, T[g].kind = "generation", NEW phase \in Phases
  PROVE  /\ Grows(T, [T EXCEPT ![g] = [@ EXCEPT !.phase = phase]], {})
         /\ \A x \in {"no", "overflow", "threshold", "yes"} :
              Grows(T, [T EXCEPT ![g].phase = phase, ![g].compacted = x], {})
         /\ \A x \in 0..1 : Grows(T, [T EXCEPT ![g].phase = phase, ![g].pending = x], {})
         /\ T[g].pending > 0 => Grows(T, [T EXCEPT ![g].pending = @ - 1], {})
  <1> IsRecord(T[g])
    BY DEF Shaped
  <1>1. Grows(T, [T EXCEPT ![g] = [@ EXCEPT !.phase = phase]], {})
    <2> DEFINE r == [T[g] EXCEPT !.phase = phase]
    <2>1. /\ r.kind = "generation" /\ r.status = T[g].status
          /\ T[g] \in TaskRecord => r \in TaskRecord
      <3>1. r.kind = "generation" /\ r.status = T[g].status
        BY DEF IsRecord
      <3>2. T[g] \in TaskRecord => r \in TaskRecord
        BY DEF TaskRecord, Phases
      <3> QED BY <3>1, <3>2
    <2> HIDE DEF r
    <2>2. Grows(T, [T EXCEPT ![g] = r], {})
      BY <2>1, PutGrows
    <2> QED BY <2>2 DEF r
  <1>2. ASSUME NEW x \in {"no", "overflow", "threshold", "yes"}
        PROVE  Grows(T, [T EXCEPT ![g].phase = phase, ![g].compacted = x], {})
    <2> DEFINE r == [T[g] EXCEPT !.phase = phase, !.compacted = x]
    <2>1. /\ r.kind = "generation" /\ r.status = T[g].status
          /\ T[g] \in TaskRecord => r \in TaskRecord
      <3>1. r.kind = "generation" /\ r.status = T[g].status
        BY DEF IsRecord
      <3>2. T[g] \in TaskRecord => r \in TaskRecord
        BY DEF TaskRecord, Phases
      <3> QED BY <3>1, <3>2
    <2>2. [T EXCEPT ![g] = r] = [T EXCEPT ![g].phase = phase, ![g].compacted = x]
      BY DEF Shaped
    <2> HIDE DEF r
    <2>3. Grows(T, [T EXCEPT ![g] = r], {})
      BY <2>1, PutGrows
    <2> QED BY <2>2, <2>3
  <1>3. ASSUME NEW x \in 0..1
        PROVE  Grows(T, [T EXCEPT ![g].phase = phase, ![g].pending = x], {})
    <2> DEFINE r == [T[g] EXCEPT !.phase = phase, !.pending = x]
    <2>1. /\ r.kind = "generation" /\ r.status = T[g].status
          /\ T[g] \in TaskRecord => r \in TaskRecord
      <3>1. r.kind = "generation" /\ r.status = T[g].status
        BY DEF IsRecord
      <3>2. T[g] \in TaskRecord => r \in TaskRecord
        BY DEF TaskRecord, Phases
      <3> QED BY <3>1, <3>2
    <2>2. [T EXCEPT ![g] = r] = [T EXCEPT ![g].phase = phase, ![g].pending = x]
      BY DEF Shaped
    <2> HIDE DEF r
    <2>3. Grows(T, [T EXCEPT ![g] = r], {})
      BY <2>1, PutGrows
    <2> QED BY <2>2, <2>3
  <1>4. ASSUME T[g].pending > 0 PROVE Grows(T, [T EXCEPT ![g].pending = @ - 1], {})
    <2> DEFINE r == [T[g] EXCEPT !.pending = @ - 1]
    <2>1. /\ r.kind = "generation" /\ r.status = T[g].status
          /\ T[g] \in TaskRecord => r \in TaskRecord
      <3>1. T[g] \in TaskRecord => T[g].pending - 1 \in 0..1
        BY <1>4 DEF TaskRecord
      <3> QED BY <3>1 DEF IsRecord, TaskRecord
    <2>2. [T EXCEPT ![g] = r] = [T EXCEPT ![g].pending = @ - 1]
      BY DEF Shaped
    <2> HIDE DEF r
    <2>3. Grows(T, [T EXCEPT ![g] = r], {})
      BY <2>1, PutGrows
    <2> QED BY <2>2, <2>3
  <1> QED BY <1>1, <1>2, <1>3, <1>4

LEMMA StartRunGrows ==
  ASSUME NEW T, Shaped(T), NEW users, NEW rest, StartRun(T, users, rest)
  PROVE  Grows(T, task', {})
  <1>1. CASE task' = T
    BY <1>1, GrowsSelf
  <1>2. CASE \E S \in NextIds(T, 1) : task' = WithTasks(T, S, Generation)
    <2>1. /\ Generation.kind # "compaction" /\ Generation.status # "absent"
          /\ Generation \in TaskRecord
      BY RecordTypes, NewRecords
    <2> QED BY <1>2, <2>1, NewGrows
  <1> QED BY <1>1, <1>2 DEF StartRun

LEMMA AdmitGrows ==
  ASSUME NEW T, Shaped(T), NEW s, NEW item, NEW type,
         \/ AdmitBusy(s, item, type) /\ task' = T
         \/ AdmitBehind(s, item, type, T)
         \/ AdmitWrite(s, item, T)
  PROVE  Grows(T, task', {})
  <1>1. CASE task' = T
    BY <1>1, GrowsSelf
  <1>2. CASE AdmitBehind(s, item, type, T)
    BY <1>2, StartRunGrows DEF AdmitBehind
  <1> QED BY <1>1, <1>2 DEF AdmitWrite

-----------------------------------------------------------------------------
(* Pins.  A compaction that has selected holds a cut and the reach of the    *)
(* summary it will place, in its checkpoint or in its handler's memory.      *)

Pin(T, L, t, cut, base) ==
  \/ T[t].phase \in {"summarize", "retry"} /\ cut = T[t].cut /\ base = T[t].base
  \/ L[t].at = "read" /\ cut = L[t].tail /\ base = L[t].base

\* A commit leaves the pins of a live compaction alone, or it reads them off
\* the transcript.
PinsKeep ==
  \A t \in Tasks : LiveCompaction(task', t) =>
    \A cut, base : Pin(task', local', t, cut, base) =>
      \/ /\ LiveCompaction(task, t) /\ task'[t].owner = task[t].owner
         /\ Pin(task, local, t, cut, base)
      \/ log' = log /\ cut \in Cuts(log) /\ base = log.covers

\* The compactions that generations wait for.
Blocking(T) == {t \in Tasks : LiveCompaction(T, t) /\ T[t].owner # NoTask}
Fresh(A) == A = {} \/ (Blocking(task) = {} /\ \E c : A \subseteq {c})

LocalsStep ==
  /\ local \in LocalMap => local' \in LocalMap
  /\ \A t \in Tasks : LiveCompaction(task', t) /\ local'[t].at = "read" => local'[t] = local[t]

TypedInv == task \in TaskMap /\ local \in LocalMap

StepTasks ==
  /\ TypedInv' /\ PinsKeep
  /\ \E A : Fresh(A) /\ Blocking(task') \subseteq Blocking(task) \cup A

LEMMA LocalsRest ==
  ASSUME \/ local' = local
         \/ \E t \in Tasks : Forget(t)
         \/ \E t \in Tasks : \E r \in Local : Remember(t, r) /\ ~LiveCompaction(task', t)
         \/ local' = [t \in Tasks |-> NoLocal]
  PROVE  LocalsStep
  <1>1. NoLocal \in Local /\ NoLocal.at # "read"
    BY DEF NoLocal, Local
  <1>2. CASE local' = local
    BY <1>2 DEF LocalsStep
  <1>3. ASSUME NEW t \in Tasks, Forget(t) PROVE LocalsStep
    <2>1. ASSUME NEW u \in Tasks, local'[u].at = "read" PROVE local'[u] = local[u]
      BY <1>1, <1>3, <2>1 DEF Forget
    <2>2. local \in LocalMap => local' \in LocalMap
      BY <1>1, <1>3 DEF Forget, LocalMap
    <2> QED BY <2>1, <2>2 DEF LocalsStep
  <1>4. ASSUME NEW t \in Tasks, NEW r \in Local, Remember(t, r), ~LiveCompaction(task', t)
        PROVE  LocalsStep
    BY <1>4 DEF Remember, LocalsStep, LocalMap
  <1>5. CASE local' = [t \in Tasks |-> NoLocal]
    BY <1>1, <1>5 DEF LocalsStep, LocalMap
  <1> QED BY <1>2, <1>3, <1>4, <1>5

LEMMA GrowsStep ==
  ASSUME PartialInv, TypedInv, NEW A, Grows(task, task', A), Fresh(A), LocalsStep
  PROVE  StepTasks
  <1>1. TypedInv'
    BY DEF TypedInv, Grows, LocalsStep
  <1>2. ASSUME NEW t \in Tasks, LiveCompaction(task', t), NEW cut, NEW base,
               Pin(task', local', t, cut, base)
        PROVE  /\ LiveCompaction(task, t) /\ task'[t].owner = task[t].owner
               /\ Pin(task, local, t, cut, base)
    <2>1. CASE LiveCompaction(task, t) /\ Stays(task[t], task'[t])
      BY <1>2, <2>1 DEF Stays, Pin, LocalsStep
    <2>2. CASE task[t].status = "absent" /\ task'[t].phase = "select"
      BY <1>2, <2>2 DEF PartialInv, LocalsStep, Pin
    <2> QED BY <1>2, <2>1, <2>2 DEF Grows
  <1>3. Blocking(task') \subseteq Blocking(task) \cup A
    BY DEF Blocking, Grows, Stays
  <1> QED BY <1>1, <1>2, <1>3 DEF StepTasks, PinsKeep

LEMMA NoneFresh == Fresh({})
  BY DEF Fresh

\* The end of a generation, and what comes after it.
LEMMA SucceedsGrows ==
  ASSUME Shaped(task), NEW g \in Tasks, NEW b,
         (\E status, reason : RunEnds(g, b, status, reason)) \/ HandsOver(g, b)
  PROVE  Grows(task, task', {})
  <1> DEFINE T == Terminated(task, g, "completed")
  <1>1. Shaped(T) /\ Grows(task, T, {})
    BY TerminatedRecord, EndGrows
  <1>2. CASE \E status, reason : RunEnds(g, b, status, reason)
    <2>1. StartRun(T, b.users, RunAfter(g))
      BY <1>2 DEF RunEnds
    <2> HIDE DEF T
    <2> QED BY <1>1, <2>1, StartRunGrows, GrowsChain
  <1>3. CASE HandsOver(g, b)
    <2>1. PICK S \in NextIds(task, 1) : task' = WithTasks(T, S, Generation)
      BY <1>3 DEF HandsOver
    <2>2. Grows(T, task', {})
      BY <1>1, <2>1, RecordTypes, NewRecords
         DEF WithTasks, Grows, LiveCompaction, Stays, TaskMap, NextIds, T, Terminated
    <2> HIDE DEF T
    <2> QED BY <1>1, <2>2, GrowsChain
  <1> QED BY <1>2, <1>3

\* A generation that waits for a compaction, for tools, or moves on.
LEMMA BlocksGrows ==
  ASSUME RunsInv, NEW g \in Tasks, Gated(g, "generation"),
         NEW compacted \in {"overflow", "threshold"}, NEW l, Blocks(g, compacted, l)
  PROVE  \E S : Grows(task, task', S) /\ \E c : S = {c}
  <1>1. PICK S \in NextIds(task, 1) :
          task' = [WithTasks(task, S, Compaction(g, compacted)) EXCEPT
                     ![g].phase = "prepare", ![g].compacted = compacted]
    BY DEF Blocks
  <1> DEFINE T == WithTasks(task, S, Compaction(g, compacted))
  <1>2. \E c \in Tasks : S = {c} /\ task[c].status = "absent"
    BY NextIdIsOne
  <1>3. task[g].kind = "generation" /\ task[g].status = "live" /\ Shaped(task)
    BY GatedIsRun DEF RunsInv
  <1>4. /\ IsRecord(Compaction(g, compacted)) /\ Compaction(g, compacted) \in TaskRecord
        /\ Compaction(g, compacted).status # "absent"
        /\ Compaction(g, compacted).phase = "select"
    BY CompactionIs
  <1>5. Grows(task, T, S)
    BY <1>3, <1>4, NewGrows
  <1>6. Shaped(T) /\ T[g] = task[g]
    <2>1. S \in SUBSET Tasks /\ g \notin S
      BY <1>2, <1>3
    <2> QED BY <1>3, <1>4, <2>1, WithTasksRecord
  <1> HIDE DEF T
  <1>7. Grows(T, task', {})
    <2>1. "prepare" \in Phases /\ compacted \in {"no", "overflow", "threshold", "yes"}
      BY DEF Phases
    <2>2. task' = [T EXCEPT ![g].phase = "prepare", ![g].compacted = compacted]
      BY <1>1 DEF T
    <2> QED BY <1>3, <1>6, <2>1, <2>2, EditGrows
  <1>8. Grows(T, task', S)
    BY <1>7 DEF Grows
  <1> QED BY <1>2, <1>5, <1>8, GrowsChain

LEMMA PrepareCommitGrows ==
  ASSUME RunsInv, TypedInv, NEW g \in Tasks, PrepareCommit(g)
  PROVE  Grows(task, task', {})
  <1> DEFINE r == [task[g] EXCEPT !.phase = "request",
                                  !.compacted = IF @ = "no" THEN "no" ELSE "yes"]
  <1>1. Gated(g, "generation")
    BY DEF PrepareCommit, Phase
  <1>2. task[g].kind = "generation" /\ task[g].status = "live" /\ Shaped(task) /\ IsRecord(task[g])
    BY <1>1, GatedIsRun DEF RunsInv
  <1>3. r.kind = "generation" /\ r.status = task[g].status /\ r \in TaskRecord
    <2>1. task[g] \in TaskRecord
      BY DEF TypedInv, TaskMap
    <2>2. (IF task[g].compacted = "no" THEN "no" ELSE "yes") \in {"no", "yes"}
      OBVIOUS
    <2> QED BY <1>2, <2>1, <2>2 DEF TaskRecord, IsRecord
  <1>4. CASE MovesOn(g, r)
    <2>1. task' = [task EXCEPT ![g] = r]
      BY <1>4 DEF MovesOn
    <2> HIDE DEF r
    <2> QED BY <1>2, <1>3, <2>1, PutGrows
  <1>5. CASE \E S \in NextIds(task, 1) :
               task' = [WithTasks(task, S, Compaction(NoTask, "threshold")) EXCEPT ![g] = r]
    <2>1. PICK S \in NextIds(task, 1) :
               task' = [WithTasks(task, S, Compaction(NoTask, "threshold")) EXCEPT ![g] = r]
      BY <1>5
    <2> DEFINE c == Compaction(NoTask, "threshold")
               T == WithTasks(task, S, c)
    <2>2. /\ IsRecord(c) /\ c \in TaskRecord /\ c.status # "absent" /\ c.phase = "select"
          /\ c.owner = NoTask
      BY CompactionIs DEF NoTask
    <2> HIDE DEF c
    <2>3. S \in SUBSET Tasks /\ g \notin S
      BY <1>2, NextIdsFresh
    <2>4. Shaped(T) /\ T[g] = task[g]
      BY <1>2, <2>2, <2>3, WithTasksRecord
    <2>5. Grows(task, T, {})
      BY <1>2, <2>2, NewGrows
    <2> HIDE DEF T, r
    <2>6. Grows(T, task', {})
      <3>1. task' = [T EXCEPT ![g] = r]
        BY <2>1 DEF T, c, r
      <3> QED BY <1>2, <1>3, <2>4, <3>1, PutGrows
    <2> QED BY <2>5, <2>6, GrowsChain
  <1> QED BY <1>4, <1>5 DEF PrepareCommit

\* New tools beside the generation, and its record.
LEMMA ToolsGrow ==
  ASSUME RunsInv, NEW g \in Tasks, Gated(g, "generation"), NEW n, NEW S \in NextIds(task, n)
  PROVE  LET T == WithTasks(task, S, Tool(g)) IN
         Grows(task, T, {}) /\ Shaped(T) /\ T[g] = task[g] /\ task[g].kind = "generation"
  <1> DEFINE T == WithTasks(task, S, Tool(g))
  <1>1. task[g].kind = "generation" /\ task[g].status = "live" /\ Shaped(task)
    BY GatedIsRun DEF RunsInv
  <1>2. /\ IsRecord(Tool(g)) /\ Tool(g) \in TaskRecord /\ Tool(g).kind # "compaction"
        /\ Tool(g).status # "absent"
    BY NewRecords, RecordTypes DEF Tool, Absent
  <1>3. S \in SUBSET Tasks /\ g \notin S
    BY <1>1, NextIdsFresh
  <1>4. Shaped(T) /\ T[g] = task[g]
    BY <1>1, <1>2, <1>3, WithTasksRecord
  <1>5. Grows(task, T, {})
    BY <1>1, <1>2, NewGrows
  <1> QED BY <1>1, <1>4, <1>5

LEMMA StartRoundGrows ==
  ASSUME RunsInv, NEW g \in Tasks, StartRound(g)
  PROVE  Grows(task, task', {})
  <1>1. Gated(g, "generation")
    BY DEF StartRound, Responds, Phase
  <1>2. PICK n \in Calls, started \in 0..2 : \E S \in NextIds(task, started) :
          /\ started \in {0, 1, n} /\ started <= n
          /\ task' = [WithTasks(task, S, Tool(g)) EXCEPT
                        ![g].phase = "tools",
                        ![g].pending = IF started = 0 THEN 0 ELSE n - started]
    BY DEF StartRound
  <1>3. PICK S \in NextIds(task, started) :
          /\ started \in {0, 1, n} /\ started <= n
          /\ task' = [WithTasks(task, S, Tool(g)) EXCEPT
                        ![g].phase = "tools",
                        ![g].pending = IF started = 0 THEN 0 ELSE n - started]
    BY <1>2
  <1> DEFINE T == WithTasks(task, S, Tool(g))
             x == IF started = 0 THEN 0 ELSE n - started
  <1>4. x \in 0..1 /\ "tools" \in Phases
    BY <1>3, DataAssumption DEF Phases
  <1>5. task' = [T EXCEPT ![g].phase = "tools", ![g].pending = x]
    BY <1>3
  <1>6. Grows(task, T, {}) /\ Shaped(T) /\ T[g].kind = "generation"
    BY <1>1, ToolsGrow
  <1> HIDE DEF T, x
  <1> QED BY <1>4, <1>5, <1>6, EditGrows, GrowsChain

LEMMA NextCallGrows ==
  ASSUME RunsInv, NEW g \in Tasks, NextCall(g)
  PROVE  Grows(task, task', {})
  <1>1. Gated(g, "generation") /\ task[g].pending > 0
    BY DEF NextCall, Phase
  <1>2. PICK S \in NextIds(task, 1) :
          task' = [WithTasks(task, S, Tool(g)) EXCEPT ![g].pending = @ - 1]
    BY DEF NextCall
  <1> DEFINE T == WithTasks(task, S, Tool(g))
  <1>3. task' = [T EXCEPT ![g].pending = @ - 1]
    BY <1>2
  <1>4. /\ Grows(task, T, {}) /\ Shaped(T) /\ T[g].kind = "generation"
        /\ T[g].pending > 0
    BY <1>1, ToolsGrow
  <1> HIDE DEF T
  <1>5. Grows(T, task', {})
    BY <1>3, <1>4, EditGrows DEF Phases
  <1> QED BY <1>4, <1>5, GrowsChain

LEMMA GenerationTasks ==
  ASSUME RunsInv, PartialInv, OwnersInv, TypedInv, LogFits(log), NEW g \in Tasks,
         GenerationStep(g)
  PROVE  StepTasks
  <1>1. Shaped(task)
    BY DEF RunsInv
  <1>2. ASSUME Grows(task, task', {}), Forget(g) \/ local' = local PROVE StepTasks
    BY <1>2, LocalsRest, NoneFresh, GrowsStep
  <1>3. CASE NoModel(g) \/ PrepareRejects(g) \/ ModelError(g)
    <2>1. \E l, reason : RunFails(g, l, reason)
      BY <1>3 DEF NoModel, PrepareRejects, ModelError
    <2>2. task' = Terminated(task, g, "ended") /\ Forget(g)
      BY <2>1 DEF RunFails
    <2> QED BY <1>1, <1>2, <2>2, EndGrows
  <1>4. CASE PrepareRead(g) \/ RequestBegin(g) \/ FlushBegin(g) \/ FlushCommit(g)
    <2>1. task' = task /\ Gated(g, "generation") /\ \E r \in Local : Remember(g, r)
      <3>1. \A a \in {"read", "stream", "flush"}, x \in Nat :
              [at |-> a, tail |-> x, base |-> 0] \in Local
        BY DEF Local
      <3>2. \A a \in {"read", "stream", "flush"} : [NoLocal EXCEPT !.at = a] \in Local
        BY DEF Local, NoLocal
      <3>3. log.tail \in Nat
        BY DEF LogFits, Log
      <3> QED BY <1>4, <3>1, <3>2, <3>3
              DEF PrepareRead, RequestBegin, FlushBegin, FlushCommit, Phase, live
    <2>2. ~LiveCompaction(task', g)
      BY <2>1, GatedIsRun DEF LiveCompaction
    <2>3. Grows(task, task', {}) /\ LocalsStep
      BY <2>1, <2>2, GrowsSelf, LocalsRest
    <2> QED BY <2>3, NoneFresh, GrowsStep
  <1>5. CASE PrepareBlocks(g) \/ Overflows(g)
    <2>1. PICK compacted \in {"overflow", "threshold"} : \E l : Blocks(g, compacted, l)
      BY <1>5 DEF PrepareBlocks, Overflows
    <2>2. PICK l : Blocks(g, compacted, l)
      BY <2>1
    <2>3. Gated(g, "generation")
      BY <1>5 DEF PrepareBlocks, Overflows, Responds, Phase
    <2>4. PICK S : Grows(task, task', S) /\ \E c : S = {c}
      BY <2>2, <2>3, BlocksGrows
    <2>5. Blocking(task) = {}
      <3>1. OwnedLive(task, g) = {} /\ run.task = g
        BY <2>3, GatedIsRun DEF Gated
      <3> QED BY <3>1 DEF Blocking, LiveCompaction, OwnersInv, OwnedLive, Live
    <2>6. Fresh(S)
      BY <2>4, <2>5 DEF Fresh
    <2>7. LocalsStep
      BY <2>2, LocalsRest DEF Blocks
    <2> QED BY <2>4, <2>6, <2>7, GrowsStep
  <1>6. CASE PrepareCommit(g)
    BY <1>2, <1>6, PrepareCommitGrows DEF PrepareCommit, MovesOn
  <1>7. CASE Deferred(g) \/ Retry(g) \/ RetryDue(g)
    <2>1. PICK phase \in Phases : MovesOn(g, [task[g] EXCEPT !.phase = phase])
      BY <1>7 DEF Deferred, Retry, RetryDue, Phases
    <2>2. Gated(g, "generation")
      BY <1>7 DEF Deferred, Retry, RetryDue, Responds, Phase
    <2>3. task[g].kind = "generation"
      BY <2>2, GatedIsRun
    <2>4. task' = [task EXCEPT ![g] = [@ EXCEPT !.phase = phase]] /\ Forget(g)
      BY <2>1 DEF MovesOn
    <2> QED BY <1>1, <1>2, <2>3, <2>4, EditGrows
  <1>8. ASSUME NEW continuation \in BOOLEAN, Answer(g, continuation) PROVE StepTasks
    <2>1. \E b : (\E status, reason : RunEnds(g, b, status, reason)) \/ HandsOver(g, b)
      BY <1>8 DEF Answer
    <2>2. Forget(g)
      BY <1>8 DEF Answer, EndsGeneration
    <2> QED BY <1>1, <1>2, <2>1, <2>2, SucceedsGrows
  <1>9. CASE StartRound(g)
    BY <1>2, <1>9, StartRoundGrows DEF StartRound
  <1>10. CASE NextCall(g)
    BY <1>2, <1>10, NextCallGrows DEF NextCall
  <1>11. ASSUME NEW ending, FinishRound(g, ending) PROVE StepTasks
    <2>1. \E b : (\E status, reason : RunEnds(g, b, status, reason)) \/ HandsOver(g, b)
      BY <1>11 DEF FinishRound
    <2>2. Forget(g)
      BY <1>11 DEF FinishRound, EndsGeneration
    <2> QED BY <1>1, <1>2, <2>1, <2>2, SucceedsGrows
  <1> QED BY <1>3, <1>4, <1>5, <1>6, <1>7, <1>8, <1>9, <1>10, <1>11 DEF GenerationStep

\* A compaction that moves its checkpoint on.
LEMMA CheckpointTasks ==
  ASSUME TypedInv, NEW c \in Tasks, LiveCompaction(task, c), NEW r \in TaskRecord,
         r.kind = "compaction", r.status = "live", r.owner = task[c].owner,
         task' = [task EXCEPT ![c] = r], local' = local \/ Forget(c),
         \A cut, base : Pin(task', local', c, cut, base) => Pin(task, local, c, cut, base)
  PROVE  StepTasks
  <1>1. /\ task'[c] = r /\ task' \in TaskMap
        /\ \A t \in Tasks \ {c} : task'[t] = task[t]
    BY DEF TypedInv, TaskMap
  <1>2. local' \in LocalMap /\ \A t \in Tasks \ {c} : local'[t] = local[t]
    BY DEF Forget, TypedInv, LocalMap, NoLocal, Local
  <1>3. PinsKeep
    BY <1>1, <1>2 DEF PinsKeep, LiveCompaction, Pin
  <1>4. Blocking(task') \subseteq Blocking(task)
    BY <1>1 DEF Blocking, LiveCompaction
  <1> QED BY <1>1, <1>2, <1>3, <1>4, NoneFresh DEF StepTasks, TypedInv

LEMMA CompactionTasks ==
  ASSUME RunsInv, PartialInv, TypedInv, LogFits(log), NEW c \in Tasks, CompactionStep(c)
  PROVE  StepTasks
  <1>1. Shaped(task)
    BY DEF RunsInv
  <1>2. ASSUME Grows(task, task', {}), Forget(c) \/ local' = local PROVE StepTasks
    BY <1>2, LocalsRest, NoneFresh, GrowsStep
  <1>3. ASSUME Gated(c, "compaction")
        PROVE  LiveCompaction(task, c) /\ IsRecord(task[c]) /\ task[c] \in TaskRecord
    BY <1>1, <1>3 DEF Gated, LiveCompaction, Live, Shaped, TypedInv, TaskMap
  <1>4. CASE SelectRead(c)
    <2>1. PICK cut \in Cuts(log) : Remember(c, [at |-> "read", tail |-> cut, base |-> log.covers])
      BY <1>4 DEF SelectRead
    <2>2. /\ task' = task /\ log' = log /\ Gated(c, "compaction") /\ task[c].phase = "select"
          /\ LiveCompaction(task, c)
      BY <1>3, <1>4 DEF SelectRead, Selecting
    <2> DEFINE r == [at |-> "read", tail |-> cut, base |-> log.covers]
    <2>3. r \in Local
      <3>1. cut \in Nat /\ log.covers \in Nat
        BY DEF Cuts, LogFits, Log, NoHead
      <3> QED BY <3>1 DEF Local
    <2>4. local' \in LocalMap /\ local'[c] = r /\ \A t \in Tasks \ {c} : local'[t] = local[t]
      BY <2>1, <2>3 DEF Remember, TypedInv, LocalMap
    <2>5. PinsKeep
      BY <2>2, <2>4 DEF PinsKeep, Pin
    <2> QED BY <2>2, <2>4, <2>5, NoneFresh DEF StepTasks, TypedInv
  <1>5. CASE SelectCommit(c)
    <2> DEFINE r == [task[c] EXCEPT !.phase = "summarize", !.cut = local[c].tail,
                                    !.base = local[c].base]
    <2>1. /\ LiveCompaction(task, c) /\ IsRecord(task[c]) /\ task[c] \in TaskRecord
          /\ local[c].at = "read" /\ Forget(c)
      BY <1>3, <1>5 DEF SelectCommit, Selecting, Holds
    <2>2. local[c].tail \in Nat /\ local[c].base \in Nat
      BY DEF TypedInv, LocalMap, Local
    <2>3. /\ r.kind = "compaction" /\ r.status = "live" /\ r.owner = task[c].owner
          /\ r.phase = "summarize" /\ r.cut = local[c].tail /\ r.base = local[c].base
      BY <2>1 DEF IsRecord, LiveCompaction
    <2>4. r \in TaskRecord
      BY <2>1, <2>2 DEF TaskRecord
    <2>5. task' = [task EXCEPT ![c] = r]
      BY <1>1, <1>5 DEF SelectCommit, Shaped
    <2> HIDE DEF r
    <2>6. local'[c].at # "read"
      BY <2>1 DEF Forget, NoLocal, TypedInv, LocalMap
    <2>7. \A cut, base : Pin(task', local', c, cut, base) => Pin(task, local, c, cut, base)
      BY <1>1, <2>1, <2>3, <2>5, <2>6 DEF Pin, Shaped
    <2> QED BY <2>1, <2>3, <2>4, <2>5, <2>7, CheckpointTasks
  <1>6. CASE Backoff(c)
    <2> DEFINE p == IF task[c].phase = "retry" THEN "summarize" ELSE "retry"
               r == [task[c] EXCEPT !.phase = p]
    <2>1. /\ LiveCompaction(task, c) /\ IsRecord(task[c]) /\ task[c] \in TaskRecord
          /\ task[c].phase \in {"summarize", "retry"} /\ local' = local
      BY <1>3, <1>6 DEF Backoff
    <2>2. p \in {"summarize", "retry"}
      OBVIOUS
    <2>3. task' = [task EXCEPT ![c] = r]
      BY <1>1, <1>6 DEF Backoff, Shaped
    <2> HIDE DEF p
    <2>4. /\ r.kind = "compaction" /\ r.status = "live" /\ r.owner = task[c].owner
          /\ r.phase = p /\ r.cut = task[c].cut /\ r.base = task[c].base
      BY <2>1 DEF IsRecord, LiveCompaction
    <2>5. r \in TaskRecord
      BY <2>1, <2>2 DEF TaskRecord
    <2> HIDE DEF r
    <2>6. \A cut, base : Pin(task', local', c, cut, base) => Pin(task, local, c, cut, base)
      BY <1>1, <2>1, <2>2, <2>3, <2>4 DEF Pin, Shaped
    <2> QED BY <2>1, <2>3, <2>4, <2>5, <2>6, CheckpointTasks
  <1>7. CASE PlaceBlocking(c)
    <2> DEFINE T == Terminated(task, c, "completed")
               r == [T[c] EXCEPT !.placed = TRUE]
    <2>1. /\ Shaped(T) /\ T[c].kind = "compaction" /\ T[c].status = "completed"
          /\ Grows(task, T, {}) /\ Forget(c)
      BY <1>1, <1>7, TerminatedRecord, EndGrows
         DEF PlaceBlocking, HasSummary, Gated, EndsCompaction
    <2>2. task' = [T EXCEPT ![c].placed = TRUE]
      BY <1>7 DEF PlaceBlocking, EndsCompaction
    <2>3. task' = [T EXCEPT ![c] = r]
      BY <2>1, <2>2 DEF Shaped
    <2> HIDE DEF T
    <2>4. T \in TaskMap => r \in TaskRecord
      <3>1. ASSUME NEW x \in TaskRecord, NEW p \in BOOLEAN
            PROVE  [x EXCEPT !.placed = p] \in TaskRecord
        BY DEF TaskRecord
      <3> QED BY <3>1 DEF TaskMap
    <2>5. r.status = "completed"
      BY <2>1 DEF Shaped, IsRecord
    <2> HIDE DEF r
    <2>6. Grows(T, task', {})
      BY <2>1, <2>3, <2>4, <2>5 DEF Grows, LiveCompaction, Stays, Shaped, TaskMap
    <2> QED BY <1>2, <2>1, <2>6, GrowsChain
  <1>8. CASE PlaceSummary(c)
    <2> DEFINE T == Terminated(task, c, "completed")
    <2>1. Forget(c) /\ \E s, item :
            \/ AdmitBusy(s, item, "write") /\ task' = T
            \/ AdmitBehind(s, item, "write", T)
            \/ AdmitWrite(s, item, T)
      BY <1>8 DEF PlaceSummary
    <2>2. Shaped(T) /\ Grows(task, T, {})
      BY <1>1, TerminatedRecord, EndGrows
    <2> HIDE DEF T
    <2>3. Grows(T, task', {})
      BY <2>1, <2>2, AdmitGrows
    <2> QED BY <1>2, <2>1, <2>2, <2>3, GrowsChain
  <1>9. ASSUME NEW status \in {"completed", "ended"}, CompactionEnds(c, status) PROVE StepTasks
    BY <1>1, <1>2, <1>9, EndGrows DEF CompactionEnds, EndsCompaction
  <1> QED BY <1>4, <1>5, <1>6, <1>7, <1>8, <1>9 DEF CompactionStep

\* What hosts, the cascade and the ends of tasks do to them.
LEMMA OtherTasks ==
  ASSUME RunsInv, PartialInv, TypedInv,
         \/ Host \/ Reconcile
         \/ \E t \in Tasks : \/ AbortHandler(t) \/ SchedulerEnds(t)
                             \/ \E status \in {"completed", "ended"} : ToolEnds(t, status)
  PROVE  StepTasks
  <1>1. Shaped(task)
    BY DEF RunsInv
  <1>2. ASSUME Grows(task, task', {}), LocalsStep PROVE StepTasks
    BY <1>2, NoneFresh, GrowsStep
  <1>3. ASSUME Grows(task, task', {}), local' = local PROVE StepTasks
    BY <1>2, <1>3, LocalsRest
  <1>4. CASE task' = task /\ local' = local
    BY <1>3, <1>4, GrowsSelf
  <1>5. CASE (\E S : MarkAll(S)) /\ local' = local
    BY <1>1, <1>3, <1>5, MarkAllGrows
  <1>6. CASE Submit
    <2>1. local' = local
      BY <1>6 DEF Submit
    <2>2. PICK s, draft, item :
            \/ AdmitNote(s, item) /\ UNCHANGED task
            \/ AdmitBusy(s, item, TypeOf(draft)) /\ task' = task
            \/ AdmitBehind(s, item, TypeOf(draft), task)
            \/ AdmitWrite(s, item, task)
            \/ AdmitInput(s, item)
      BY <1>6 DEF Submit
    <2>3. CASE AdmitNote(s, item) /\ UNCHANGED task
      BY <1>4, <2>1, <2>3
    <2>4. CASE AdmitInput(s, item)
      BY <1>1, <1>3, <2>1, <2>4, StartRunGrows DEF AdmitInput
    <2> QED BY <1>1, <1>3, <2>1, <2>2, <2>3, <2>4, AdmitGrows
  <1>7. CASE Compact
    <2>1. PICK S \in NextIds(task, 1) : task' = WithTasks(task, S, Compaction(NoTask, "manual"))
      BY <1>7 DEF Compact
    <2> DEFINE c == Compaction(NoTask, "manual")
    <2>2. /\ c \in TaskRecord /\ c.status # "absent" /\ c.phase = "select" /\ c.owner = NoTask
      BY CompactionIs DEF NoTask
    <2> HIDE DEF c
    <2>3. Grows(task, WithTasks(task, S, c), {})
      BY <1>1, <2>2, NewGrows
    <2> QED BY <1>3, <1>7, <2>1, <2>3 DEF Compact, c
  <1>8. CASE Crash
    BY <1>2, <1>8, GrowsSelf, LocalsRest DEF Crash
  <1>9. CASE Host
    <2>1. OwnerCancelled \/ OwnerEnds \/ (\E s \in Subs : AbortSubmission(s))
            => task' = task /\ local' = local
      BY DEF OwnerCancelled, OwnerEnds, AbortSubmission
    <2>2. (\E b \in BOOLEAN : AbortConversation(b)) \/ (\E t \in Tasks : AbortTask(t))
            => (\E S : MarkAll(S)) /\ local' = local
      BY DEF AbortConversation, AbortTask
    <2> QED BY <1>4, <1>5, <1>6, <1>7, <1>8, <1>9, <2>1, <2>2 DEF Host
  <1>10. CASE Reconcile
    BY <1>5, <1>10 DEF Reconcile
  <1>11. ASSUME NEW t \in Tasks, AbortHandler(t) \/ SchedulerEnds(t) PROVE StepTasks
    <2>1. \E reason, l : Ended(t, reason, l)
      BY <1>11 DEF AbortHandler, SchedulerEnds
    <2>2. task' = Terminated(task, t, "ended") /\ Forget(t)
      BY <2>1 DEF Ended
    <2> QED BY <1>1, <1>2, <2>2, EndGrows, LocalsRest
  <1>12. ASSUME NEW t \in Tasks, NEW status \in {"completed", "ended"}, ToolEnds(t, status)
         PROVE  StepTasks
    BY <1>1, <1>3, <1>12, EndGrows DEF ToolEnds
  <1> QED BY <1>9, <1>10, <1>11, <1>12

-----------------------------------------------------------------------------
(* What a commit does to the transcript and to the submissions.  A write     *)
(* that names an entry ("cut") takes an arbitrary summary with it, so the    *)
(* reach of the context is about conversations without such writes.          *)

NoCuts == "cut" \notin Drafts

LogInv ==
  /\ LogFits(log) /\ HeadsFit(inbox, log)
  /\ NoCuts => BasesFit(inbox, log)

LogStep ==
  /\ Follows(log, log') /\ HeadsFit(inbox', log')
  /\ NoCuts => KeepsReach(log, log') /\ BasesFit(inbox', log')
  /\ log'.head = log.head \/ \A c \in Blocking(task) : ~LiveCompaction(task', c)
  /\ log'.head <= log.last \/ Ends \/ ~Busy
Step == LogStep /\ SubsStep /\ (partial /\ ~partial' => log'.tail > log.tail)

\* Entries without a head.
Extends(l, m) == Follows(l, m) /\ m.head = l.head /\ m.covers = l.covers

LEMMA ExtendsBy ==
  ASSUME NEW l, LogFits(l)
  PROVE  /\ \A m \in {l, Shown(l), Visible(l), WithPartial(l)} : Extends(l, m) /\ LogFits(m)
         /\ \A m : Extends(l, m) => Extends(l, Visible(m)) /\ Visible(m).tail > l.tail
  <1>1. \A m \in {l, Shown(l), Visible(l), WithPartial(l)} : Extends(l, m) /\ LogFits(m)
    BY EntryFollows DEF Extends
  <1>2. ASSUME NEW m, Extends(l, m) PROVE Extends(l, Visible(m)) /\ Visible(m).tail > l.tail
    <2>1. LogFits(m)
      BY <1>2 DEF Extends, Follows
    <2>2. /\ Follows(m, Visible(m)) /\ Visible(m).head = m.head /\ Visible(m).covers = m.covers
          /\ Visible(m).tail > m.tail
      BY <2>1, EntryFollows, VisibleShows
    <2>3. Follows(l, Visible(m))
      BY <1>2, <2>2, FollowsChain DEF Extends
    <2>4. Visible(m).tail > l.tail
      <3>1. m.tail \in Int /\ l.tail \in Int /\ Visible(m).tail \in Int
        BY <2>1, <2>3 DEF Follows, LogFits, Log
      <3> QED BY <1>2, <2>2, <3>1 DEF Extends, Follows
    <2> QED BY <1>2, <2>2, <2>3, <2>4 DEF Extends
  <1> QED BY <1>1, <1>2

\* What fits a list fits what is left of it.
LEMMA MembersFit ==
  ASSUME NEW p, NEW q, Members(p) \subseteq Members(q), NEW l
  PROVE  /\ HeadsFit(q, l) => HeadsFit(p, l)
         /\ BasesFit(q, l) => BasesFit(p, l)
  <1>1. \A i \in DOMAIN p : \E j \in DOMAIN q : p[i] = q[j]
    BY DEF Members
  <1> QED BY <1>1 DEF HeadsFit, BasesFit

LEMMA HeadsOn ==
  ASSUME NEW q \in Seq(Item), NEW l, LogFits(l), NEW m, Follows(l, m), HeadsFit(q, l)
  PROVE  /\ HeadsFit(q, m)
         /\ \A i \in DOMAIN q : q[i] \in Item /\ q[i].head <= l.last
         /\ NoCuts /\ BasesFit(q, l) /\ KeepsReach(l, m) => BasesFit(q, m)
  <1>1. \A i \in DOMAIN q : q[i] \in Item /\ q[i].head <= l.last
    BY DEF HeadsFit
  <1>2. HeadsFit(q, m)
    <2>1. \A i \in DOMAIN q : q[i].head \in Int
      BY <1>1 DEF Item, Self
    <2>2. l.last \in Int /\ m.last \in Int /\ l.last <= m.last
      BY DEF Follows, LogFits, Log
    <2> QED BY <1>1, <2>1, <2>2 DEF HeadsFit
  <1>3. BasesFit(q, l) /\ KeepsReach(l, m) => BasesFit(q, m)
    BY <1>1, BasesOn
  <1> QED BY <1>1, <1>2, <1>3

\* A commit that appends no head and adds no item.
LEMMA QuietStep ==
  ASSUME LogInv, inbox \in Seq(Item), Extends(log, log'), Members(inbox') \subseteq Members(inbox)
  PROVE  LogStep
  <1>1. LogFits(log) /\ Follows(log, log') /\ KeepsReach(log, log')
    BY DEF LogInv, Extends, KeepsReach
  <1>2. HeadsFit(inbox, log') /\ (NoCuts => BasesFit(inbox, log'))
    BY <1>1, HeadsOn DEF LogInv
  <1>3. HeadsFit(inbox', log') /\ (NoCuts => BasesFit(inbox', log'))
    BY <1>2, MembersFit
  <1>4. log'.head <= log.last /\ log'.head = log.head
    BY <1>1 DEF Extends, LogFits
  <1> QED BY <1>1, <1>3, <1>4 DEF LogStep

\* Nobody waits for a compaction while the conversation is idle, or while its
\* generation commits.
LEMMA NoneWait ==
  ASSUME RunsInv, OwnersInv, ~Busy \/ \E g \in Tasks : Gated(g, "generation")
  PROVE  Blocking(task) = {}
  <1>1. \A c \in Blocking(task) :
          /\ c \in Tasks /\ task[c].owner = run.task /\ task[c].owner # NoTask /\ Live(task, c)
    BY DEF Blocking, LiveCompaction, OwnersInv, Live
  <1>2. CASE ~Busy
    BY <1>1, <1>2 DEF Busy
  <1>3. ASSUME NEW g \in Tasks, Gated(g, "generation") PROVE Blocking(task) = {}
    <2>1. run.task = g /\ OwnedLive(task, g) = {}
      BY <1>3, GatedIsRun DEF Gated
    <2> QED BY <1>1, <2>1 DEF OwnedLive
  <1> QED BY <1>2, <1>3

\* The entry of a write.
LEMMA WriteFollows ==
  ASSUME NEW l, LogFits(l), NEW item \in Item, item.head <= l.last, ~Stale(l, item)
  PROVE  /\ Follows(l, WriteEntry(l, item))
         /\ (item.head > 0 /\ item.head >= l.head => item.base = l.covers)
              => KeepsReach(l, WriteEntry(l, item))
  <1>1. item.head \in Nat \cup {Self} /\ item.base \in Nat /\ l.head \in Nat
    BY DEF Item, LogFits, Log
  <1>2. CASE item.head = NoHead
    <2>1. WriteEntry(l, item) \in {Shown(l), Visible(l)}
      BY <1>2 DEF WriteEntry
    <2> QED BY <2>1, EntryFollows DEF KeepsReach
  <1>3. CASE item.head # NoHead
    <2>1. WriteEntry(l, item) = Marker(l, item.head, item.base)
      BY <1>3 DEF WriteEntry
    <2>2. item.head # Self => item.head > 0 /\ item.head >= l.head
      BY <1>1, <1>3 DEF Stale, NoHead
    <2>3. /\ Follows(l, Marker(l, item.head, item.base))
          /\ item.head = Self => KeepsReach(l, Marker(l, item.head, item.base))
          /\ item.head # Self => Marker(l, item.head, item.base).covers = item.base
      BY <1>1, <2>2, MarkerFollows
    <2> QED BY <2>1, <2>2, <2>3 DEF KeepsReach
  <1> QED BY <1>2, <1>3

\* An admission.
BaseFits(item) == item.head > 0 /\ item.head >= log.head => item.base = log.covers

LEMMA AdmitStep ==
  ASSUME SubsInv, LogInv, RunsInv, OwnersInv, NEW s \in Subs, NextSub(s), NEW item, NEW type,
         Fitting(s, item, type), NoCuts => BaseFits(item), NEW T,
         \/ AdmitNote(s, item) \/ AdmitBusy(s, item, type) \/ AdmitBehind(s, item, type, T)
         \/ AdmitWrite(s, item, T) \/ AdmitInput(s, item)
  PROVE  LogStep /\ SubsStep
  <1>1. /\ inbox \in Seq(Item) /\ sub \in [Subs -> Submission] /\ LogFits(log)
        /\ item \in Item /\ item.head <= log.last
    BY DEF SubsInv, Queued, LogInv, Fitting
  <1>2. log.last + 1 \in Nat /\ log.last \in Nat
    BY <1>1 DEF LogFits, Log
  <1>3. CASE AdmitNote(s, item)
    <2>1. /\ log' = Shown(log) /\ inbox' = inbox /\ run' = run
          /\ sub' = [sub EXCEPT ![s] = NewSub("write", "done", "none", log.last + 1)]
      BY <1>3 DEF AdmitNote
    <2>2. /\ NewSub("write", "done", "none", log.last + 1) \in Submission
          /\ IsSettled(NewSub("write", "done", "none", log.last + 1))
      BY <1>2 DEF NewSub, Submission, IsSettled
    <2>3. SubsStep
      BY <2>1, <2>2 DEF SubsStep, AdmitsSettled
    <2>4. LogStep
      BY <1>1, <2>1, ExtendsBy, QuietStep
    <2> QED BY <2>3, <2>4
  <1>4. CASE AdmitBusy(s, item, type)
    <2>1. SubsStep
      BY <1>4 DEF SubsStep, AdmitsQueued
    <2>2. log' = log /\ inbox' = Append(inbox, item)
      BY <1>4 DEF AdmitBusy
    <2>3. HeadsFit(inbox', log)
      BY <2>2, AppendHeads DEF LogInv
    <2>4. NoCuts => BasesFit(inbox', log)
      <3>1. Takes([sub EXCEPT ![s] = NewSub(type, "queued", "none", 0)], s,
                  NewSub(type, "queued", "none", 0))
        BY DEF Takes
      <3>2. \A i \in DOMAIN inbox' :
              (i \in DOMAIN inbox /\ inbox'[i] = inbox[i]) \/ inbox'[i] = item
        BY <2>2, <3>1, AppendQueues
      <3> QED BY <3>2 DEF LogInv, BasesFit, BaseFits
    <2>5. Follows(log, log') /\ KeepsReach(log, log') /\ log'.head <= log.last
      BY <1>1, <2>2, FollowsSelf DEF LogFits
    <2> QED BY <2>1, <2>2, <2>3, <2>4, <2>5 DEF LogStep
  <1>5. ASSUME AdmitBehind(s, item, type, T) \/ AdmitWrite(s, item, T) \/ AdmitInput(s, item)
        PROVE  ~Busy /\ Blocking(task) = {}
    <2>1. ~Busy
      BY <1>5 DEF AdmitBehind, AdmitWrite, AdmitInput, AdmitsIdle
    <2> QED BY <2>1, NoneWait
  <1>6. CASE AdmitBehind(s, item, type, T)
    <2>1. SubsStep
      BY <1>6 DEF SubsStep, AdmitsBehind
    <2> DEFINE t == [sub EXCEPT ![s] = NewSub(type, "queued", "none", 0)]
               q == Append(inbox, item)
    <2>2. PICK modes \in Modes :
            LET b == Boundary(log, t, q, "final", modes) IN log' = b.log /\ inbox' = b.inbox
      BY <1>6 DEF AdmitBehind
    <2> DEFINE b == Boundary(log, t, q, "final", modes)
    <2>3. Takes(t, s, NewSub(type, "queued", "none", 0))
      BY DEF Takes
    <2> HIDE DEF t
    <2>4. /\ t \in [Subs -> Submission] /\ Queued(q, t) /\ HeadsFit(q, log)
          /\ \A i \in DOMAIN q : (i \in DOMAIN inbox /\ q[i] = inbox[i]) \/ q[i] = item
      BY <2>3, AppendQueues, AppendHeads DEF LogInv
    <2> HIDE DEF q
    <2>5. NoCuts => BasesFit(q, log)
      BY <2>4 DEF LogInv, BasesFit, BaseFits
    <2>6. Bounded(t, q, b) /\ Moved(log, q, b.log)
      BY <1>1, <2>4, BoundaryIs
    <2>7. log' = b.log /\ inbox' = b.inbox
      BY <2>2
    <2> HIDE DEF b
    <2>8. Members(b.inbox) \subseteq Members(q)
      BY <2>4, <2>6, BoundedStatus
    <2>9. Follows(log, log') /\ (NoCuts => KeepsReach(log, log') /\ BasesFit(q, log'))
      BY <2>5, <2>6, <2>7 DEF Moved
    <2>10. HeadsFit(q, log')
      BY <1>1, <2>4, <2>9, HeadsOn DEF Queued
    <2> QED BY <1>5, <1>6, <2>1, <2>7, <2>8, <2>9, <2>10, MembersFit DEF LogStep
  <1>7. CASE AdmitWrite(s, item, T)
    <2> DEFINE r == IF Stale(log, item) THEN NewSub("write", "unanswered", "stale", 0)
                    ELSE NewSub("write", "done", "none", log.last + 1)
    <2>1. /\ sub' = [sub EXCEPT ![s] = r] /\ inbox' = inbox /\ run' = run
          /\ log' = IF Stale(log, item) THEN log ELSE WriteEntry(log, item)
      BY <1>7 DEF AdmitWrite
    <2>2. r \in Submission /\ IsSettled(r)
      BY <1>2 DEF NewSub, Submission, IsSettled
    <2>3. SubsStep
      BY <2>1, <2>2 DEF SubsStep, AdmitsSettled
    <2>4. Follows(log, log') /\ (NoCuts => KeepsReach(log, log'))
      <3>1. CASE Stale(log, item)
        BY <1>1, <2>1, <3>1, FollowsSelf
      <3>2. CASE ~Stale(log, item)
        BY <1>1, <2>1, <3>2, WriteFollows DEF BaseFits
      <3> QED BY <3>1, <3>2
    <2>5. HeadsFit(inbox, log') /\ (NoCuts => BasesFit(inbox, log'))
      BY <1>1, <2>4, HeadsOn DEF LogInv
    <2> QED BY <1>5, <1>7, <2>1, <2>3, <2>4, <2>5 DEF LogStep
  <1>8. CASE AdmitInput(s, item)
    <2>1. SubsStep
      BY <1>8 DEF SubsStep, AdmitsPlaced
    <2>2. log' = Visible(log) /\ inbox' = inbox
      BY <1>8 DEF AdmitInput
    <2> QED BY <1>1, <2>1, <2>2, ExtendsBy, QuietStep
  <1> QED BY <1>3, <1>4, <1>6, <1>7, <1>8

\* A commit that leaves the submissions alone and appends no head.
LEMMA CalmStep ==
  ASSUME SubsInv, LogInv, Calm, Extends(log, log'),
         partial /\ ~partial' => log'.tail > log.tail
  PROVE  Step
  <1>1. inbox \in Seq(Item)
    BY DEF SubsInv, Queued
  <1>2. inbox' = inbox
    BY DEF Calm
  <1>3. LogStep
    BY <1>1, <1>2, QuietStep
  <1> QED BY <1>3 DEF Step, SubsStep

LEMMA WithdrawStep ==
  ASSUME SubsInv, LogInv, log' = log, partial' = partial, run' = run,
         \E S \in {{s} : s \in Ids(inbox)} \cup {UserIds(inbox)} :
           /\ sub' = [x \in Subs |-> IF x \in S THEN Settle(sub[x], "unanswered", "aborted")
                                     ELSE sub[x]]
           /\ inbox' = Without(inbox, S)
  PROVE  Step
  <1>1. Withdraws
    BY DEF Withdraws
  <1>2. inbox \in Seq(Item) /\ \A x \in Item : x.id \in Nat
    BY DEF SubsInv, Queued, Item, Subs
  <1>3. Members(inbox') \subseteq Members(inbox)
    BY <1>2, WithoutFits
  <1>4. LogStep
    BY <1>2, <1>3, ExtendsBy, QuietStep DEF LogInv
  <1> QED BY <1>1, <1>4 DEF Step, SubsStep

\* What hosts and the scheduler withdraw are the users of the inbox.
LEMMA QueuedAre ==
  ASSUME SubsInv
  PROVE  QueuedInputs = UserIds(inbox)
  <1>1. ASSUME NEW i \in DOMAIN inbox PROVE inbox[i].id \in Subs
    <2>1. inbox \in Seq(Item)
      BY DEF SubsInv, Queued
    <2>2. inbox[i] \in Item
      BY <2>1
    <2> QED BY <2>2 DEF Item
  <1> QED BY <1>1 DEF QueuedInputs, UserIds

LEMMA SubmitStep ==
  ASSUME SubsInv, LogInv, RunsInv, OwnersInv, Submit
  PROVE  Step
  <1>1. PICK s \in Subs, draft \in Drafts : NextSub(s) /\ \E head \in HeadsOf(draft) :
          LET item == NewItem(s, draft, head) IN
          \/ AdmitNote(s, item)
          \/ AdmitBusy(s, item, TypeOf(draft))
          \/ AdmitBehind(s, item, TypeOf(draft), task)
          \/ AdmitWrite(s, item, task)
          \/ AdmitInput(s, item)
    BY DEF Submit
  <1>2. PICK head \in HeadsOf(draft) :
          LET item == NewItem(s, draft, head) IN
          \/ AdmitNote(s, item)
          \/ AdmitBusy(s, item, TypeOf(draft))
          \/ AdmitBehind(s, item, TypeOf(draft), task)
          \/ AdmitWrite(s, item, task)
          \/ AdmitInput(s, item)
    BY <1>1
  <1> DEFINE item == NewItem(s, draft, head)
             m == ModeOf(draft)
             d == draft # "note"
             x == IF head > 0 THEN head ELSE 0
  <1>3. log.last \in Nat
    BY DEF LogInv, LogFits, Log
  <1>4. /\ head \in Nat \cup {Self} /\ head <= log.last /\ x \in Nat
        /\ draft # "cut" => ~(head > 0)
    <2>1. CASE draft = "reset"
      BY <1>2, <1>3, <2>1 DEF HeadsOf, Self
    <2>2. CASE draft = "cut"
      BY <1>2, <1>3, <2>2 DEF HeadsOf
    <2>3. CASE draft \notin {"reset", "cut"}
      BY <1>2, <1>3, <2>3 DEF HeadsOf, NoHead
    <2> QED BY <2>1, <2>2, <2>3
  <1>5. /\ m \in {"steer", "followUp", "write"} /\ d \in BOOLEAN
        /\ TypeOf(draft) = IF m = "write" THEN "write" ELSE "input"
    BY DEF ModeOf, TypeOf
  <1>6. item = [id |-> s, mode |-> m, head |-> head, model |-> d, base |-> x]
    BY DEF NewItem
  <1>7. Fitting(s, item, TypeOf(draft)) /\ item.head = head
    <2> HIDE DEF item, m, d, x
    <2>1. item \in Item
      BY <1>4, <1>5, <1>6 DEF Item
    <2> QED BY <1>4, <1>5, <1>6, <2>1 DEF Fitting
  <1>8. NoCuts => BaseFits(item)
    BY <1>4, <1>7 DEF NoCuts, BaseFits
  <1>9. LogStep /\ SubsStep
    <2> HIDE DEF item
    <2> QED BY <1>1, <1>2, <1>7, <1>8, AdmitStep DEF item
  <1>10. partial' = partial
    BY DEF Submit
  <1> QED BY <1>9, <1>10 DEF Step

LEMMA HostStep ==
  ASSUME SubsInv, LogInv, RunsInv, OwnersInv, Host \/ Reconcile
  PROVE  Step
  <1>1. inbox \in Seq(Item) /\ LogFits(log) /\ Ids(inbox) = {s \in Subs : sub[s].status = "queued"}
        /\ sub \in [Subs -> Submission]
    BY DEF SubsInv, Queued, LogInv
  <1>2. CASE Submit
    BY <1>2, SubmitStep
  <1>3. CASE Calm /\ log' = log /\ partial' = partial
    BY <1>1, <1>3, ExtendsBy, CalmStep
  <1>4. ASSUME NEW s \in Subs, AbortSubmission(s) PROVE Step
    <2>1. s \in Ids(inbox) /\ log' = log /\ partial' = partial /\ run' = run
      BY <1>1, <1>4 DEF AbortSubmission, live
    <2>2. sub' = [x \in Subs |-> IF x \in {s} THEN Settle(sub[x], "unanswered", "aborted")
                                 ELSE sub[x]]
      BY <1>1, <1>4 DEF AbortSubmission
    <2>3. inbox' = Without(inbox, {s})
      BY <1>4 DEF AbortSubmission
    <2> QED BY <2>1, <2>2, <2>3, WithdrawStep
  <1>5. CASE Withdraw /\ log' = log /\ partial' = partial /\ run' = run
    BY <1>5, QueuedAre, WithdrawStep DEF Withdraw
  <1>6. Compact \/ OwnerCancelled \/ OwnerEnds \/ Crash \/ (\E t \in Tasks : AbortTask(t))
          => Calm /\ log' = log /\ partial' = partial
    BY DEF Compact, OwnerCancelled, OwnerEnds, Crash, AbortTask, Calm, live
  <1>7. (\E b \in BOOLEAN : AbortConversation(b))
          => Withdraw /\ log' = log /\ partial' = partial /\ run' = run
    BY DEF AbortConversation, live
  <1>8. Reconcile => \/ Withdraw /\ log' = log /\ partial' = partial /\ run' = run
                     \/ Calm /\ log' = log /\ partial' = partial
    BY DEF Reconcile, live, Calm
  <1> QED BY <1>2, <1>3, <1>4, <1>5, <1>6, <1>7, <1>8 DEF Host

\* The run fails with its task.
LEMMA FailStep ==
  ASSUME SubsInv, LogInv, Busy, Extends(log, log'), inbox' = inbox, run' = NoRun,
         \E reason \in Endings : sub' = EndRun(sub, run.task, "unanswered", reason),
         partial /\ ~partial' => log'.tail > log.tail
  PROVE  Step
  <1>1. inbox \in Seq(Item)
    BY DEF SubsInv, Queued
  <1>2. LogStep
    BY <1>1, QuietStep
  <1>3. Fails
    BY DEF Fails
  <1> QED BY <1>2, <1>3 DEF Step, SubsStep

\* A boundary of the inbox, after entries or a marker that precede it.
LEMMA BoundaryStep ==
  ASSUME SubsInv, LogInv, NEW l, LogFits(l), Follows(log, l), KeepsReach(log, l), NEW at,
         NEW modes \in Modes, NEW b, b = Boundary(l, sub, inbox, at, modes)
  PROVE  /\ Follows(log, b.log) /\ HeadsFit(b.inbox, b.log) /\ LogFits(b.log)
         /\ b.log.tail >= l.tail
         /\ NoCuts => KeepsReach(log, b.log) /\ BasesFit(b.inbox, b.log)
         /\ ~b.reset /\ l.head = log.head => b.log.head <= log.last
  <1>1. inbox \in Seq(Item) /\ LogFits(log) /\ HeadsFit(inbox, log)
    BY DEF SubsInv, Queued, LogInv
  <1>2. /\ Moved(l, inbox, b.log) /\ (b.reset <=> ~NoReset(inbox))
        /\ HeadsFit(inbox, l) /\ Members(b.inbox) \subseteq Members(inbox)
    BY <1>1, InboxBoundary
  <1>3. Follows(l, b.log) /\ LogFits(b.log)
    BY <1>2 DEF Moved, Follows
  <1>4. Follows(log, b.log) /\ (KeepsReach(l, b.log) => KeepsReach(log, b.log))
    BY <1>1, <1>3, FollowsChain
  <1>5. HeadsFit(b.inbox, b.log)
    BY <1>1, <1>2, <1>4, HeadsOn, MembersFit
  <1>6. ASSUME NoCuts PROVE KeepsReach(log, b.log) /\ BasesFit(b.inbox, b.log)
    <2>1. BasesFit(inbox, l)
      BY <1>1, <1>6, HeadsOn DEF LogInv
    <2> QED BY <1>2, <1>4, <2>1, MembersFit DEF Moved
  <1>7. ASSUME ~b.reset, l.head = log.head PROVE b.log.head <= log.last
    <2>1. b.log.head \in Heads(l, inbox)
      BY <1>2, <1>7 DEF Moved
    <2> QED BY <1>1, <1>7, <2>1 DEF Heads, HeadsFit, LogFits
  <1> QED BY <1>3, <1>4, <1>5, <1>6, <1>7 DEF Follows

\* The run succeeds at a boundary, or goes on with a new generation.
LEMMA RunEndsStep ==
  ASSUME SubsInv, LogInv, RunsInv, OwnersInv, NEW g \in Tasks, Gated(g, "generation"),
         NEW l, LogFits(l), Follows(log, l), KeepsReach(log, l), NEW at, NEW modes \in Modes,
         NEW status \in {"done", "unanswered"}, NEW reason \in Endings,
         RunEnds(g, Boundary(l, sub, inbox, at, modes), status, reason),
         partial => l.tail > log.tail
  PROVE  Step
  <1> DEFINE b == Boundary(l, sub, inbox, at, modes)
  <1>1. run.task = g /\ RunAfter(g) = NoRun /\ Busy /\ Blocking(task) = {}
    <2>1. run.task = g /\ RunAfter(g) = NoRun
      BY GatedIsRun
    <2> QED BY <2>1, NoneWait DEF Busy, Tasks, NoTask
  <1>2. /\ log' = b.log /\ inbox' = b.inbox /\ sub' = EndRun(b.sub, run.task, status, reason)
        /\ StartRun(Terminated(task, g, "completed"), b.users, NoRun)
    BY <1>1 DEF RunEnds
  <1>3. Ends
    BY <1>1, <1>2 DEF Ends
  <1>4. /\ Follows(log, b.log) /\ HeadsFit(b.inbox, b.log) /\ LogFits(b.log)
        /\ b.log.tail >= l.tail
        /\ NoCuts => KeepsReach(log, b.log) /\ BasesFit(b.inbox, b.log)
    BY BoundaryStep
  <1> HIDE DEF b
  <1>5. LogStep
    BY <1>1, <1>2, <1>3, <1>4 DEF LogStep
  <1>6. partial => log'.tail > log.tail
    <2>1. log.tail \in Int /\ l.tail \in Int /\ b.log.tail \in Int
      BY <1>4 DEF LogInv, LogFits, Log
    <2> QED BY <1>2, <1>4, <2>1
  <1> QED BY <1>3, <1>5, <1>6 DEF Step, SubsStep

LEMMA HandsOverStep ==
  ASSUME SubsInv, LogInv, RunsInv, OwnersInv, NEW g \in Tasks, Gated(g, "generation"),
         NEW l, LogFits(l), Extends(log, l), NEW at, NEW modes \in Modes,
         NEW b, b = Boundary(l, sub, inbox, at, modes), ~b.reset,
         NEW c, HandsOver(g, c), c.sub = b.sub, c.inbox = b.inbox, c.users = b.users,
         c.log \in {b.log, Visible(b.log)},
         partial => l.tail > log.tail
  PROVE  Step
  <1>1. run.task = g /\ Busy /\ Blocking(task) = {}
    <2>1. run.task = g
      BY GatedIsRun
    <2> QED BY <2>1, NoneWait DEF Busy, Tasks, NoTask
  <1>2. log' = c.log /\ inbox' = b.inbox /\ sub' = b.sub
    BY DEF HandsOver
  <1>3. PICK h \in Tasks : run' = [task |-> h, inputs |-> run.inputs \cup b.users]
    <2>1. PICK S \in NextIds(task, 1) : \E h \in S :
            run' = [task |-> h, inputs |-> run.inputs \cup b.users]
      BY <1>1 DEF HandsOver
    <2> QED BY <2>1, NextIdsFresh
  <1>4. GoesOn
    BY <1>1, <1>2, <1>3 DEF GoesOn, Extends
  <1>5. KeepsReach(log, l) /\ Follows(log, l) /\ l.head = log.head
    BY DEF Extends, KeepsReach
  <1>6. /\ Follows(log, b.log) /\ HeadsFit(b.inbox, b.log) /\ LogFits(b.log)
        /\ b.log.tail >= l.tail
        /\ NoCuts => KeepsReach(log, b.log) /\ BasesFit(b.inbox, b.log)
        /\ b.log.head <= log.last
    BY <1>5, BoundaryStep
  <1>7. inbox \in Seq(Item) /\ b.inbox \in Seq(Item) /\ LogFits(log) /\ HeadsFit(inbox, log)
    <2>1. inbox \in Seq(Item) /\ LogFits(log) /\ HeadsFit(inbox, log)
      BY DEF SubsInv, Queued, LogInv
    <2> QED BY <1>5, <2>1, InboxBoundary DEF Queued
  <1>8. Extends(b.log, log') /\ Follows(b.log, log') /\ KeepsReach(b.log, log')
    <2>1. log' \in {b.log, Visible(b.log)}
      BY <1>2
    <2>2. Extends(b.log, log')
      BY <1>6, <2>1, ExtendsBy
    <2> QED BY <2>2 DEF Extends, KeepsReach
  <1>9. Follows(log, log') /\ (NoCuts => KeepsReach(log, log')) /\ log'.head <= log.last
    BY <1>6, <1>7, <1>8, FollowsChain DEF Extends
  <1>10. HeadsFit(inbox', log') /\ (NoCuts => BasesFit(inbox', log'))
    BY <1>2, <1>6, <1>7, <1>8, HeadsOn
  <1>11. LogStep
    BY <1>1, <1>9, <1>10 DEF LogStep
  <1>12. partial => log'.tail > log.tail
    <2>1. log.tail \in Int /\ l.tail \in Int /\ b.log.tail \in Int /\ log'.tail \in Int
      BY <1>6, <1>7, <1>9 DEF Follows, LogFits, Log
    <2> QED BY <1>6, <1>8, <2>1 DEF Follows
  <1> QED BY <1>4, <1>11, <1>12 DEF Step, SubsStep

LEMMA GenerationLog ==
  ASSUME SubsInv, LogInv, RunsInv, PartialInv, OwnersInv, NEW g \in Tasks, GenerationStep(g)
  PROVE  Step
  <1>1. LogFits(log)
    BY DEF LogInv
  <1>2. /\ \A m \in {log, Visible(log), WithPartial(log), Visible(Visible(log))} : Extends(log, m)
        /\ Visible(log).tail > log.tail /\ Visible(Visible(log)).tail > log.tail
        /\ LogFits(Visible(log))
    BY <1>1, ExtendsBy
  <1>3. CASE NoModel(g) \/ PrepareRejects(g) \/ ModelError(g)
    <2>1. Gated(g, "generation") /\ \E reason \in Endings, l \in {log, Visible(log)} :
            RunFails(g, l, reason) /\ (partial => l = Visible(log))
      <3>1. CASE NoModel(g)
        BY <3>1, NoPartial DEF NoModel, Phase, Endings
      <3>2. CASE PrepareRejects(g)
        BY <3>2, NoPartial DEF PrepareRejects, Phase, Endings
      <3>3. CASE ModelError(g)
        BY <3>3 DEF ModelError, Responds, Phase, Endings
      <3> QED BY <1>3, <3>1, <3>2, <3>3
    <2>2. run.task = g /\ RunAfter(g) = NoRun /\ Busy
      BY <2>1, GatedIsRun DEF Busy, Tasks, NoTask
    <2> QED BY <1>2, <2>1, <2>2, FailStep DEF RunFails
  <1>4. CASE \/ PrepareRead(g) \/ PrepareBlocks(g) \/ PrepareCommit(g) \/ RequestBegin(g)
             \/ FlushBegin(g) \/ FlushCommit(g) \/ Deferred(g) \/ Overflows(g) \/ Retry(g)
             \/ RetryDue(g) \/ StartRound(g) \/ NextCall(g)
    <2>1. CASE PrepareRead(g) \/ FlushBegin(g) \/ FlushCommit(g) \/ NextCall(g)
      <3>1. Calm /\ log' = log /\ (partial => partial')
        BY <2>1 DEF PrepareRead, FlushBegin, FlushCommit, NextCall, Calm, live
      <3> QED BY <1>2, <3>1, CalmStep
    <2>2. CASE PrepareBlocks(g)
      <3>1. Calm /\ log' = log /\ ~partial
        BY <2>2, NoPartial DEF PrepareBlocks, Blocks, Calm
      <3> QED BY <1>2, <3>1, CalmStep
    <2>3. CASE PrepareCommit(g)
      <3>1. Calm /\ log' \in {log, Visible(log)} /\ partial' = partial
        BY <2>3 DEF PrepareCommit, MovesOn, Calm
      <3> QED BY <1>2, <3>1, CalmStep
    <2>4. CASE RequestBegin(g)
      <3>1. Calm /\ log' = WithPartial(log) /\ (partial => log' = Visible(log))
        BY <2>4 DEF RequestBegin, Calm, WithPartial
      <3> QED BY <1>2, <3>1, CalmStep
    <2>5. CASE Deferred(g)
      <3>1. Calm /\ log' = log /\ ~partial
        BY <2>5 DEF Deferred, MovesOn, Calm
      <3> QED BY <1>2, <3>1, CalmStep
    <2>6. CASE Overflows(g) \/ Retry(g)
      <3>1. Calm /\ log' = Visible(log)
        BY <2>6 DEF Overflows, Blocks, Retry, MovesOn, Calm
      <3> QED BY <1>2, <3>1, CalmStep
    <2>7. CASE RetryDue(g)
      <3>1. Calm /\ log' = log /\ partial' = partial
        BY <2>7 DEF RetryDue, MovesOn, Calm
      <3> QED BY <1>2, <3>1, CalmStep
    <2>8. CASE StartRound(g)
      <3>1. Calm /\ log' \in {Visible(log), Visible(Visible(log))}
        BY <2>8 DEF StartRound, Calm
      <3> QED BY <1>2, <3>1, CalmStep
    <2> QED BY <1>4, <2>1, <2>2, <2>3, <2>4, <2>5, <2>6, <2>7, <2>8
  <1>5. ASSUME NEW continuation \in BOOLEAN, Answer(g, continuation) PROVE Step
    <2>1. PICK modes \in Modes :
            LET b == Boundary(Visible(log), sub, inbox, "final", modes) IN
            IF continuation /\ b.users = {} /\ ~b.reset
            THEN HandsOver(g, [b EXCEPT !.log = Visible(@)])
            ELSE RunEnds(g, b, "done", "none")
      BY <1>5 DEF Answer
    <2> DEFINE b == Boundary(Visible(log), sub, inbox, "final", modes)
    <2>2. Gated(g, "generation") /\ KeepsReach(log, Visible(log)) /\ Follows(log, Visible(log))
      BY <1>2, <1>5 DEF Answer, Responds, Phase, Extends, KeepsReach
    <2>3. CASE RunEnds(g, b, "done", "none")
      BY <1>2, <2>2, <2>3, RunEndsStep DEF Endings
    <2>4. CASE HandsOver(g, [b EXCEPT !.log = Visible(@)]) /\ ~b.reset
      <3> DEFINE c == [b EXCEPT !.log = Visible(@)]
      <3>1. c.sub = b.sub /\ c.inbox = b.inbox /\ c.users = b.users /\ c.log = Visible(b.log)
        BY DEF Boundary
      <3>2. HandsOver(g, c) /\ ~b.reset
        BY <2>4
      <3> HIDE DEF c
      <3> QED BY <1>2, <2>2, <3>1, <3>2, HandsOverStep
    <2> QED BY <2>1, <2>3, <2>4
  <1>6. ASSUME NEW ending \in {"terminate", "handoff", "continue"}, FinishRound(g, ending)
        PROVE  Step
    <2> DEFINE l == IF ending = "handoff" THEN Marker(log, Self, 0) ELSE log
               at == IF ending = "continue" THEN "postTools" ELSE "final"
    <2>1. PICK modes \in Modes :
            LET b == Boundary(l, sub, inbox, at, modes) IN
            IF RoundEnds(ending, b)
            THEN RunEnds(g, b, IF ending = "continue" THEN "unanswered" ELSE "done",
                         IF ending = "continue" THEN "reset" ELSE "none")
            ELSE HandsOver(g, b)
      BY <1>6 DEF FinishRound
    <2> DEFINE b == Boundary(l, sub, inbox, at, modes)
    <2>2. Gated(g, "generation") /\ ~partial
      BY <1>6, NoPartial DEF FinishRound, Phase
    <2>3. LogFits(l) /\ Follows(log, l) /\ KeepsReach(log, l)
      <3>1. CASE ending = "handoff"
        <4>1. Self <= log.last
          BY <1>1 DEF Self, LogFits, Log
        <4> QED BY <1>1, <3>1, <4>1, MarkerFollows
      <3>2. CASE ending # "handoff"
        BY <1>1, <3>2, FollowsSelf
      <3> QED BY <3>1, <3>2
    <2>4. CASE RoundEnds(ending, b)
      <3>1. /\ (IF ending = "continue" THEN "unanswered" ELSE "done") \in {"done", "unanswered"}
            /\ (IF ending = "continue" THEN "reset" ELSE "none") \in Endings
        BY DEF Endings
      <3>2. RunEnds(g, b, IF ending = "continue" THEN "unanswered" ELSE "done",
                    IF ending = "continue" THEN "reset" ELSE "none")
        BY <2>1, <2>4
      <3> HIDE DEF l, at
      <3> QED BY <2>2, <2>3, <3>1, <3>2, RunEndsStep
    <2>5. CASE ~RoundEnds(ending, b)
      <3>1. HandsOver(g, b) /\ ~b.reset /\ l = log
        BY <2>1, <2>5 DEF RoundEnds
      <3>2. Extends(log, l)
        BY <1>2, <3>1
      <3> HIDE DEF l, at
      <3> QED BY <2>2, <2>3, <3>1, <3>2, HandsOverStep
    <2> QED BY <2>4, <2>5
  <1> QED BY <1>3, <1>4, <1>5, <1>6 DEF GenerationStep

-----------------------------------------------------------------------------
(* Pins of live compactions.  While a generation waits for a compaction, the *)
(* active range does not move, so the cut stays inside it.                   *)

Pinned(l, cut, base, owner) ==
  /\ cut \in Nat /\ cut > 0 /\ cut <= l.last /\ base \in Nat
  /\ owner # NoTask => cut >= l.head
  /\ NoCuts /\ cut >= l.head => base = l.covers

PinsInv ==
  /\ \A c, d \in Blocking(task) : c = d
  /\ \A t \in Tasks : LiveCompaction(task, t) =>
       \A cut, base : Pin(task, local, t, cut, base) => Pinned(log, cut, base, task[t].owner)

LEMMA PinsStep ==
  ASSUME LogInv, PinsInv, StepTasks, LogStep
  PROVE  PinsInv'
  <1>1. ASSUME NEW c \in Blocking(task'), NEW d \in Blocking(task') PROVE c = d
    <2>1. PICK A : Fresh(A) /\ Blocking(task') \subseteq Blocking(task) \cup A
      BY DEF StepTasks
    <2> QED BY <1>1, <2>1 DEF Fresh, PinsInv
  <1>2. ASSUME NEW t \in Tasks, LiveCompaction(task', t), NEW cut, NEW base,
               Pin(task', local', t, cut, base)
        PROVE  Pinned(log', cut, base, task'[t].owner)
    <2>1. /\ log.last \in Nat /\ log.tail \in Nat /\ log.head \in Nat /\ log.covers \in Nat
          /\ log'.last \in Nat /\ log'.head \in Nat /\ log'.covers \in Nat
          /\ log.tail <= log.last /\ log'.last >= log.last /\ log'.head >= log.head
      BY DEF LogInv, LogStep, Follows, LogFits, Log
    <2>2. CASE log' = log /\ cut \in Cuts(log) /\ base = log.covers
      BY <2>1, <2>2 DEF Cuts, NoHead, Pinned
    <2>3. CASE /\ LiveCompaction(task, t) /\ task'[t].owner = task[t].owner
               /\ Pin(task, local, t, cut, base)
      <3>1. Pinned(log, cut, base, task[t].owner)
        BY <2>3 DEF PinsInv
      <3>2. task[t].owner # NoTask => log'.head = log.head
        BY <1>2, <2>3 DEF Blocking, LogStep
      <3>3. NoCuts /\ cut >= log'.head => base = log'.covers
        BY <2>1, <3>1 DEF Pinned, LogStep, KeepsReach
      <3> QED BY <2>1, <2>3, <3>1, <3>2, <3>3 DEF Pinned
    <2> QED BY <1>2, <2>2, <2>3 DEF StepTasks, PinsKeep
  <1> QED BY <1>1, <1>2 DEF PinsInv

LEMMA SummaryIsPinned ==
  ASSUME PinsInv, NEW c \in Tasks, HasSummary(c)
  PROVE  Pinned(log, Summary(c).cut, Summary(c).base, task[c].owner) /\ LiveCompaction(task, c)
  <1>1. LiveCompaction(task, c)
    BY DEF HasSummary, Gated, Live, LiveCompaction
  <1>2. Pin(task, local, c, Summary(c).cut, Summary(c).base)
    BY DEF HasSummary, Summary, Pin, Holds
  <1> QED BY <1>1, <1>2 DEF PinsInv

LEMMA CompactionLog ==
  ASSUME SubsInv, LogInv, RunsInv, OwnersInv, PinsInv, NEW c \in Tasks, CompactionStep(c)
  PROVE  Step
  <1>1. LogFits(log) /\ Extends(log, log) /\ inbox \in Seq(Item)
    BY ExtendsBy DEF LogInv, SubsInv, Queued
  <1>2. CASE SelectRead(c) \/ SelectCommit(c) \/ Backoff(c)
    <2>1. Calm /\ log' = log /\ partial' = partial
      BY <1>2 DEF SelectRead, SelectCommit, Backoff, Calm, live
    <2> QED BY <1>1, <2>1, CalmStep
  <1>3. ASSUME NEW status \in {"completed", "ended"}, CompactionEnds(c, status) PROVE Step
    <2>1. Calm /\ log' = log /\ partial' = partial
      BY <1>3 DEF CompactionEnds, EndsCompaction, Calm
    <2> QED BY <1>1, <2>1, CalmStep
  <1>4. CASE PlaceBlocking(c)
    <2> DEFINE cut == Summary(c).cut
               base == Summary(c).base
    <2>1. /\ log' = Marker(log, cut, base) /\ Calm /\ partial' = partial
          /\ task' = [Terminated(task, c, "completed") EXCEPT ![c].placed = TRUE]
          /\ HasSummary(c) /\ task[c].owner # NoTask
      BY <1>4 DEF PlaceBlocking, EndsCompaction, Calm
    <2>2. Pinned(log, cut, base, task[c].owner) /\ LiveCompaction(task, c)
      BY <2>1, SummaryIsPinned
    <2> HIDE DEF cut, base
    <2>3. /\ cut \in Nat \cup {Self} /\ base \in Nat /\ cut # Self /\ cut <= log.last
          /\ cut >= log.head /\ (NoCuts => base = log.covers)
      BY <2>1, <2>2 DEF Pinned, Self
    <2>4. Follows(log, log') /\ log'.head = cut /\ log'.covers = base
      BY <1>1, <2>1, <2>3, MarkerFollows
    <2>5. NoCuts => KeepsReach(log, log')
      BY <2>3, <2>4 DEF KeepsReach
    <2>6. HeadsFit(inbox, log') /\ (NoCuts => BasesFit(inbox, log'))
      BY <1>1, <2>4, <2>5, HeadsOn DEF LogInv
    <2>7. \A d \in Blocking(task) : ~LiveCompaction(task', d)
      <3>1. \A d \in Blocking(task) : d = c
        BY <2>1, <2>2 DEF PinsInv, Blocking
      <3>2. task'[c].status = "completed"
        BY <2>1, TerminatedRecord DEF RunsInv, Shaped, IsRecord
      <3> QED BY <3>1, <3>2 DEF LiveCompaction
    <2>8. LogStep
      BY <2>1, <2>3, <2>4, <2>5, <2>6, <2>7 DEF LogStep, Calm
    <2> QED BY <2>1, <2>8 DEF Step, SubsStep
  <1>5. CASE PlaceSummary(c)
    <2> DEFINE T == Terminated(task, c, "completed")
    <2>1. PICK s \in Subs : NextSub(s) /\
            LET item == [id |-> s, mode |-> "write", head |-> Summary(c).cut, model |-> TRUE,
                         base |-> Summary(c).base] IN
            \/ AdmitBusy(s, item, "write")
            \/ AdmitBehind(s, item, "write", T)
            \/ AdmitWrite(s, item, T)
      BY <1>5 DEF PlaceSummary
    <2> DEFINE item == [id |-> s, mode |-> "write", head |-> Summary(c).cut, model |-> TRUE,
                        base |-> Summary(c).base]
    <2>2. Pinned(log, Summary(c).cut, Summary(c).base, task[c].owner)
      BY <1>5, SummaryIsPinned DEF PlaceSummary
    <2>3. Fitting(s, item, "write") /\ (NoCuts => BaseFits(item))
      <3>1. TRUE \in BOOLEAN /\ Summary(c).cut \in Nat /\ Summary(c).base \in Nat
        BY <2>2 DEF Pinned
      <3>2. item \in Item
        BY <3>1 DEF Item
      <3> QED BY <2>2, <3>2 DEF Pinned, Fitting, BaseFits
    <2>4. \/ AdmitBusy(s, item, "write") \/ AdmitBehind(s, item, "write", T)
          \/ AdmitWrite(s, item, T)
      BY <2>1
    <2> HIDE DEF item, T
    <2>5. LogStep /\ SubsStep
      BY <2>1, <2>3, <2>4, AdmitStep
    <2>6. partial' = partial
      BY <1>5 DEF PlaceSummary
    <2> QED BY <2>5, <2>6 DEF Step
  <1> QED BY <1>2, <1>3, <1>4, <1>5 DEF CompactionStep

\* The ends of tools, and of tasks that are aborted or fail.
LEMMA EndsLog ==
  ASSUME SubsInv, LogInv, RunsInv, NEW t \in Tasks,
         \/ AbortHandler(t) \/ SchedulerEnds(t)
         \/ \E status \in {"completed", "ended"} : ToolEnds(t, status)
  PROVE  Step
  <1>1. LogFits(log)
    BY DEF LogInv
  <1>2. /\ \A m \in {log, Visible(log), WithPartial(log)} : Extends(log, m)
        /\ Visible(log).tail > log.tail
        /\ \A m : Extends(log, m) => Extends(log, Visible(m)) /\ Visible(m).tail > log.tail
    BY <1>1, ExtendsBy
  <1>3. ASSUME NEW status \in {"completed", "ended"}, ToolEnds(t, status) PROVE Step
    <2>1. Calm /\ log' = Visible(log) /\ partial' = partial
      BY <1>3 DEF ToolEnds, Calm, live
    <2> QED BY <1>2, <2>1, CalmStep
  <1>4. ASSUME NEW reason \in Endings, NEW l, Ended(t, reason, l), Extends(log, l),
               partial /\ task[t].kind = "generation" => l.tail > log.tail
        PROVE  Step
    <2>1. /\ log' = l /\ inbox' = inbox /\ sub' = EndRun(sub, t, "unanswered", reason)
          /\ run' = RunAfter(t) /\ (partial /\ ~partial' => log'.tail > log.tail)
      BY <1>4 DEF Ended
    <2>2. CASE run.task = t
      <3>1. Busy /\ run' = NoRun
        BY <2>1, <2>2 DEF RunAfter, Busy, Tasks, NoTask
      <3> QED BY <1>4, <2>1, <2>2, <3>1, FailStep
    <2>3. CASE run.task # t
      <3>1. run' = run
        BY <2>1, <2>3 DEF RunAfter
      <3>2. sub' = sub
        <4>1. sub \in [Subs -> Submission]
          BY DEF SubsInv
        <4> QED BY <2>1, <2>3, <4>1 DEF EndRun
      <3> QED BY <1>4, <2>1, <3>1, <3>2, CalmStep DEF Calm
    <2> QED BY <2>2, <2>3
  <1>5. CASE AbortHandler(t)
    <2>1. Ended(t, "aborted", AbortLog(t))
      BY <1>5 DEF AbortHandler
    <2> DEFINE kept == IF task[t].kind = "generation" THEN WithPartial(log) ELSE log
    <2>2. Extends(log, kept) /\ (partial /\ task[t].kind = "generation" => kept.tail > log.tail)
      BY <1>2 DEF WithPartial
    <2>3. AbortLog(t) \in {kept, Visible(kept)}
      BY DEF AbortLog
    <2> HIDE DEF kept
    <2>4. /\ Extends(log, AbortLog(t))
          /\ partial /\ task[t].kind = "generation" => AbortLog(t).tail > log.tail
      BY <1>2, <2>2, <2>3
    <2> QED BY <1>4, <2>1, <2>4 DEF Endings
  <1>6. CASE SchedulerEnds(t)
    <2> DEFINE l == IF run.task = t THEN WithPartial(log) ELSE log
    <2>1. Ended(t, "fault", l) /\ Live(task, t)
      BY <1>6 DEF SchedulerEnds
    <2>2. task[t].kind = "generation" => run.task = t
      BY <2>1 DEF RunsInv, GenerationIs, Live
    <2>3. Extends(log, l) /\ (partial /\ task[t].kind = "generation" => l.tail > log.tail)
      BY <1>2, <2>2 DEF WithPartial
    <2> HIDE DEF l
    <2> QED BY <1>4, <2>1, <2>3 DEF Endings
  <1> QED BY <1>3, <1>5, <1>6

-----------------------------------------------------------------------------
(* The cascade.  A submission that is queued was queued before, or is new.   *)

LEMMA QueuedStays ==
  ASSUME SubsInv, LogFits(log), HeadsFit(inbox, log), SubsStep, NEW x \in Subs,
         sub'[x].status = "queued"
  PROVE  sub[x].status = "none" \/ sub'[x] = sub[x]
  <1>1. sub \in [Subs -> Submission] /\ Queued(inbox, sub)
    BY DEF SubsInv
  <1>2. CASE Calm
    BY <1>2 DEF Calm
  <1>3. CASE AdmitsSettled \/ AdmitsQueued \/ AdmitsPlaced
    <2>1. \E s \in Subs : \E r : NextSub(s) /\ sub' = [sub EXCEPT ![s] = r]
      BY <1>3 DEF AdmitsSettled, AdmitsQueued, AdmitsPlaced, AdmitBusy, AdmitInput
    <2> QED BY <1>1, <2>1 DEF NextSub
  <1>4. CASE AdmitsBehind
    <2>1. PICK s \in Subs : \E item, type, T :
             NextSub(s) /\ Fitting(s, item, type) /\ AdmitBehind(s, item, type, T)
      BY <1>4 DEF AdmitsBehind
    <2>2. PICK item, type, T :
            NextSub(s) /\ Fitting(s, item, type) /\ AdmitBehind(s, item, type, T)
      BY <2>1
    <2> DEFINE t == [sub EXCEPT ![s] = NewSub(type, "queued", "none", 0)]
               q == Append(inbox, item)
    <2>3. PICK modes \in Modes : LET b == Boundary(log, t, q, "final", modes) IN sub' = b.sub
      BY <2>2 DEF AdmitBehind
    <2> DEFINE b == Boundary(log, t, q, "final", modes)
    <2>4. Takes(t, s, NewSub(type, "queued", "none", 0)) /\ \A y \in Subs \ {s} : t[y] = sub[y]
      BY <1>1 DEF Takes
    <2> HIDE DEF t
    <2>5. t \in [Subs -> Submission] /\ Queued(q, t) /\ HeadsFit(q, log)
      BY <2>2, <2>4, AppendQueues, AppendHeads
    <2> HIDE DEF q
    <2>6. Bounded(t, q, b)
      BY <2>5, BoundaryIs
    <2>7. sub' = b.sub
      BY <2>3
    <2> HIDE DEF b
    <2>8. sub'[x] = t[x]
      BY <2>6, <2>7 DEF Bounded, IsSettled
    <2> QED BY <2>2, <2>4, <2>8, NextSubIs
  <1>5. CASE Withdraws
    <2>1. PICK S \in {{s} : s \in Ids(inbox)} \cup {UserIds(inbox)} :
            sub' = [y \in Subs |-> IF y \in S THEN Settle(sub[y], "unanswered", "aborted")
                                   ELSE sub[y]]
      BY <1>5 DEF Withdraws
    <2>2. IsSettled(Settle(sub[x], "unanswered", "aborted"))
      BY <1>1, SettleIs
    <2> QED BY <2>1, <2>2 DEF IsSettled
  <1>6. CASE Fails
    <2>1. PICK reason \in Endings : sub' = EndRun(sub, run.task, "unanswered", reason)
      BY <1>6 DEF Fails
    <2> QED BY <1>1, <2>1, EndRunIs DEF IsSettled
  <1>7. ASSUME NEW l, NEW at, NEW modes \in Modes, LogFits(l), Follows(log, l), NEW b,
               b = Boundary(l, sub, inbox, at, modes),
               \/ sub' = b.sub
               \/ \E status \in {"done", "unanswered"}, reason \in Endings :
                    sub' = EndRun(b.sub, run.task, status, reason)
        PROVE  sub'[x] = sub[x]
    <2>1. Bounded(sub, inbox, b) /\ b.sub \in [Subs -> Submission]
      BY <1>7, InboxBoundary
    <2>2. sub'[x] = b.sub[x]
      BY <1>7, <2>1, EndRunIs DEF IsSettled
    <2> QED BY <2>1, <2>2 DEF Bounded, IsSettled
  <1>8. CASE Ends
    <2>1. PICK l, at, T : \E modes \in Modes, status \in {"done", "unanswered"}, reason \in Endings :
            LET b == Boundary(l, sub, inbox, at, modes) IN
            LogFits(l) /\ Follows(log, l) /\ sub' = EndRun(b.sub, run.task, status, reason)
      BY <1>8 DEF Ends
    <2> QED BY <1>7, <2>1
  <1>9. CASE GoesOn
    <2>1. PICK l, at : \E modes \in Modes :
            LET b == Boundary(l, sub, inbox, at, modes) IN
            LogFits(l) /\ Follows(log, l) /\ sub' = b.sub
      BY <1>9 DEF GoesOn
    <2> QED BY <1>7, <2>1
  <1> QED BY <1>2, <1>3, <1>4, <1>5, <1>6, <1>8, <1>9 DEF SubsStep

LEMMA QueuesNew ==
  ASSUME SubsInv, SubsInv', LogFits(log), HeadsFit(inbox, log), SubsStep
  PROVE  QueuedInputs' = {} \/ QueuedInputs # {} \/ NewQueuedInput
  <1> SUFFICES ASSUME NEW x \in Subs, NEW i \in DOMAIN inbox', inbox'[i].id = x,
                      inbox'[i].mode # "write"
               PROVE  QueuedInputs # {} \/ NewQueuedInput
    BY DEF QueuedInputs
  <1>1. sub'[x].status = "queued" /\ sub'[x].type = "input"
    BY DEF SubsInv, Queued, Waits
  <1>2. CASE sub[x].status = "none"
    BY <1>1, <1>2 DEF NewQueuedInput
  <1>3. CASE sub'[x] = sub[x]
    <2>1. x \in Ids(inbox)
      BY <1>1, <1>3 DEF SubsInv
    <2>2. PICK j \in DOMAIN inbox : inbox[j].id = x
      BY <2>1 DEF Ids
    <2>3. inbox[j].mode # "write"
      BY <1>1, <1>3, <2>2 DEF SubsInv, Queued, Waits
    <2> QED BY <2>2, <2>3 DEF QueuedInputs
  <1> QED BY <1>1, <1>2, <1>3, QueuedStays

\* Flags and bounds.
BookInv ==
  /\ partial \in BOOLEAN /\ ownerIntent \in BOOLEAN /\ cascade \in BOOLEAN
  /\ aborts \in 0..MaxAborts /\ crashes \in 0..MaxCrashes

\* Who queues, observes; a pass that withdraws leaves no input queued.
CascadeStep ==
  \/ Observe /\ ownerIntent' = ownerIntent
  \/ UNCHANGED <<cascade, ownerIntent>> /\ (inbox' = inbox \/ \E s : inbox' = Without(inbox, {s}))
  \/ cascade' = TRUE /\ ownerIntent' \in {ownerIntent, TRUE}
  \/ ownerIntent' = FALSE /\ UNCHANGED cascade
  \/ cascade' = FALSE /\ ownerIntent' = ownerIntent
       /\ (ownerIntent => inbox' = Without(inbox, QueuedInputs))

BookStep ==
  /\ CascadeStep
  /\ partial' \in {partial, TRUE, FALSE}
  /\ aborts' = aborts \/ (aborts < MaxAborts /\ aborts' = aborts + 1)
  /\ crashes' = crashes \/ (crashes < MaxCrashes /\ crashes' = crashes + 1)

LEMMA BookKeeps == BookInv /\ BookStep => BookInv'
  <1> SUFFICES ASSUME BookInv, BookStep PROVE BookInv'
    OBVIOUS
  <1>1. ownerIntent' \in BOOLEAN /\ partial' \in BOOLEAN
    BY DEF BookInv, BookStep, CascadeStep
  <1>2. cascade' \in BOOLEAN
    BY DEF BookInv, BookStep, CascadeStep, Observe
  <1>3. aborts' \in 0..MaxAborts /\ crashes' \in 0..MaxCrashes
    BY BoundsAssumption DEF BookInv, BookStep
  <1> QED BY <1>1, <1>2, <1>3 DEF BookInv

LEMMA HostBooks == Host \/ Reconcile => BookStep
  <1>1. Submit \/ Compact => BookStep
    BY DEF Submit, Compact, BookStep, CascadeStep, budget
  <1>2. ASSUME NEW s \in Subs, AbortSubmission(s) PROVE BookStep
    BY <1>2 DEF AbortSubmission, BookStep, CascadeStep, live
  <1>3. ASSUME NEW b \in BOOLEAN, AbortConversation(b) PROVE BookStep
    BY <1>3 DEF AbortConversation, BookStep, CascadeStep, live
  <1>4. ASSUME NEW t \in Tasks, AbortTask(t) PROVE BookStep
    BY <1>4 DEF AbortTask, BookStep, CascadeStep, live
  <1>5. OwnerCancelled \/ OwnerEnds \/ Crash => BookStep
    BY DEF OwnerCancelled, OwnerEnds, Crash, BookStep, CascadeStep, live, budget
  <1>6. Reconcile => BookStep
    BY DEF Reconcile, Withdraw, BookStep, CascadeStep, live, budget
  <1> QED BY <1>1, <1>2, <1>3, <1>4, <1>5, <1>6 DEF Host

LEMMA TaskBooks ==
  ASSUME NEW t \in Tasks,
         \/ GenerationStep(t) \/ CompactionStep(t)
         \/ \E status \in {"completed", "ended"} : ToolEnds(t, status)
         \/ AbortHandler(t) \/ SchedulerEnds(t)
  PROVE  BookStep
  <1>1. ASSUME Observe, UNCHANGED <<ownerIntent, budget>>, partial' \in {partial, TRUE, FALSE}
        PROVE  BookStep
    BY <1>1 DEF BookStep, CascadeStep, budget
  <1>2. ASSUME UNCHANGED <<inbox, ownerIntent, cascade, budget>>, partial' \in {partial, TRUE, FALSE}
        PROVE  BookStep
    BY <1>2 DEF BookStep, CascadeStep, budget
  <1>3. NoModel(t) \/ PrepareRejects(t) \/ ModelError(t) => BookStep
    BY <1>1 DEF NoModel, PrepareRejects, ModelError, RunFails
  <1>4. PrepareRead(t) \/ RequestBegin(t) \/ FlushBegin(t) \/ FlushCommit(t) => BookStep
    BY <1>2 DEF PrepareRead, RequestBegin, FlushBegin, FlushCommit, live
  <1>5. PrepareBlocks(t) \/ Overflows(t) \/ PrepareCommit(t) => BookStep
    BY <1>1 DEF PrepareBlocks, Overflows, PrepareCommit, Blocks, MovesOn
  <1>6. Deferred(t) \/ Retry(t) \/ RetryDue(t) \/ StartRound(t) \/ NextCall(t) => BookStep
    BY <1>1 DEF Deferred, Retry, RetryDue, MovesOn, StartRound, NextCall, live
  <1>7. ASSUME NEW c, Answer(t, c) PROVE BookStep
    BY <1>1, <1>7 DEF Answer, EndsGeneration
  <1>8. ASSUME NEW ending, FinishRound(t, ending) PROVE BookStep
    BY <1>1, <1>8 DEF FinishRound, EndsGeneration
  <1>9. SelectRead(t) => BookStep
    BY <1>2 DEF SelectRead, live
  <1>10. SelectCommit(t) \/ Backoff(t) \/ PlaceBlocking(t) \/ PlaceSummary(t) => BookStep
    BY <1>1 DEF SelectCommit, Backoff, PlaceBlocking, PlaceSummary, EndsCompaction, live
  <1>11. ASSUME NEW status, CompactionEnds(t, status) \/ ToolEnds(t, status) PROVE BookStep
    BY <1>1, <1>11 DEF CompactionEnds, EndsCompaction, ToolEnds, live
  <1>12. AbortHandler(t) \/ SchedulerEnds(t) => BookStep
    BY <1>1 DEF AbortHandler, SchedulerEnds, Ended
  <1> QED BY <1>3, <1>4, <1>5, <1>6, <1>7, <1>8, <1>9, <1>10, <1>11, <1>12
          DEF GenerationStep, CompactionStep

LEMMA DrainKeeps ==
  ASSUME SubsInv, SubsInv', LogInv, SubsStep, BookInv, BookStep, CancelledQueueDrains
  PROVE  CancelledQueueDrains'
  <1>1. QueuedInputs' = {} \/ QueuedInputs # {} \/ NewQueuedInput
    BY QueuesNew DEF LogInv
  <1>2. /\ inbox \in Seq(Item) /\ \A x \in Item : x.id \in Nat
        /\ QueuedInputs = UserIds(inbox)
    BY QueuedAre DEF SubsInv, Queued, Item, Subs
  <1>3. ASSUME NEW S, inbox' = Without(inbox, S)
        PROVE  QueuedInputs' \subseteq QueuedInputs /\ QueuedInputs' \cap S = {}
    <2>1. Members(inbox') = {x \in Members(inbox) : x.id \notin S}
      BY <1>2, <1>3, WithoutFits
    <2>2. \A i \in DOMAIN inbox' : \E j \in DOMAIN inbox : inbox'[i] = inbox[j]
      BY <2>1 DEF Members
    <2>3. \A i \in DOMAIN inbox' : inbox'[i].id \notin S
      BY <2>1 DEF Members
    <2> QED BY <2>2, <2>3 DEF QueuedInputs
  <1>4. CASE Observe /\ ownerIntent' = ownerIntent
    BY <1>1, <1>4 DEF CancelledQueueDrains, Observe
  <1>5. CASE UNCHANGED <<cascade, ownerIntent>> /\ inbox' = inbox
    BY <1>5 DEF CancelledQueueDrains, QueuedInputs
  <1>6. ASSUME UNCHANGED <<cascade, ownerIntent>>, NEW s, inbox' = Without(inbox, {s})
        PROVE  CancelledQueueDrains'
    BY <1>3, <1>6 DEF CancelledQueueDrains
  <1>7. CASE cascade' = TRUE \/ ownerIntent' = FALSE
    BY <1>7 DEF CancelledQueueDrains
  <1>8. CASE /\ cascade' = FALSE /\ ownerIntent' = ownerIntent
             /\ ownerIntent => inbox' = Without(inbox, QueuedInputs)
    <2>1. CASE ownerIntent
      <3>1. QueuedInputs' = {}
        BY <1>3, <1>8, <2>1
      <3> QED BY <3>1 DEF CancelledQueueDrains
    <2>2. CASE ~ownerIntent
      BY <1>8, <2>2 DEF CancelledQueueDrains
    <2> QED BY <2>1, <2>2
  <1> QED BY <1>4, <1>5, <1>6, <1>7, <1>8 DEF BookStep, CascadeStep

-----------------------------------------------------------------------------
(* The inductive invariant, and what every step does to it.                  *)

ConversationInv ==
  /\ RunsInv /\ PartialInv /\ OwnersInv /\ ReadInv
  /\ SubsInv /\ LogInv /\ PinsInv /\ TypedInv /\ BookInv /\ CancelledQueueDrains

LEMMA NextSteps ==
  ASSUME ConversationInv, [Next]_vars
  PROVE  Step /\ StepTasks
  <1> USE DEF ConversationInv
  <1>1. CASE UNCHANGED vars
    <2>1. Step
      <3>1. Extends(log, log')
        BY <1>1, FollowsSelf DEF vars, LogInv, Extends
      <3> QED BY <1>1, <3>1, CalmStep DEF vars, live, Calm
    <2>2. StepTasks
      <3>1. LocalsStep
        BY <1>1, LocalsRest DEF vars
      <3>2. Grows(task, task', {})
        BY <1>1, GrowsSelf DEF vars
      <3> QED BY <3>1, <3>2, NoneFresh, GrowsStep
    <2> QED BY <2>1, <2>2
  <1>2. CASE Host \/ Reconcile
    BY <1>2, HostStep, OtherTasks
  <1>3. ASSUME NEW t \in Tasks, GenerationStep(t) PROVE Step /\ StepTasks
    BY <1>3, GenerationLog, GenerationTasks DEF LogInv
  <1>4. ASSUME NEW t \in Tasks, CompactionStep(t) PROVE Step /\ StepTasks
    BY <1>4, CompactionLog, CompactionTasks DEF LogInv
  <1>5. ASSUME NEW t \in Tasks,
               \/ AbortHandler(t) \/ SchedulerEnds(t)
               \/ \E status \in {"completed", "ended"} : ToolEnds(t, status)
        PROVE  Step /\ StepTasks
    BY <1>5, EndsLog, OtherTasks
  <1> QED BY <1>1, <1>2, <1>3, <1>4, <1>5 DEF Next

LEMMA NextBooks == [Next]_vars => UNCHANGED vars \/ BookStep
  BY HostBooks, TaskBooks DEF Next

LEMMA ConversationInvStep == ConversationInv /\ [Next]_vars => ConversationInv'
  <1> SUFFICES ASSUME ConversationInv, [Next]_vars PROVE ConversationInv'
    OBVIOUS
  <1>1. RunsInv' /\ PartialInv' /\ OwnersInv' /\ ReadInv'
    BY RunsInvStep, PartialInvStep, PreparedInvStep DEF ConversationInv
  <1>2. /\ SubsInv /\ LogInv /\ PinsInv /\ TypedInv /\ BookInv /\ CancelledQueueDrains
        /\ LogFits(log) /\ HeadsFit(inbox, log)
    BY DEF ConversationInv, LogInv
  <1>3. Step /\ StepTasks
    BY NextSteps
  <1>4. SubsInv'
    BY <1>2, <1>3, SubsStepKeeps DEF Step
  <1>5. LogInv'
    BY <1>2, <1>3 DEF Step, LogStep, LogInv, Follows
  <1>6. PinsInv' /\ TypedInv'
    BY <1>2, <1>3, PinsStep DEF Step, StepTasks
  <1>7. BookInv' /\ CancelledQueueDrains'
    <2>1. CASE UNCHANGED vars
      BY <1>2, <2>1 DEF vars, live, budget, BookInv, CancelledQueueDrains, QueuedInputs
    <2>2. CASE BookStep
      BY <1>2, <1>3, <1>4, <2>2, BookKeeps, DrainKeeps DEF Step
    <2> QED BY <2>1, <2>2, NextBooks
  <1> QED BY <1>1, <1>4, <1>5, <1>6, <1>7 DEF ConversationInv

LEMMA ConversationInvInit == Init => ConversationInv
  <1> SUFFICES ASSUME Init PROVE ConversationInv
    OBVIOUS
  <1>1. RunsInv /\ PartialInv /\ OwnersInv /\ ReadInv
    BY RunsInvInit, PartialInvInit, PreparedInvInit
  <1>2. inbox = <<>> /\ inbox \in Seq(Item) /\ DOMAIN inbox = {}
    BY DEF Init
  <1>3. SubsInv
    <2>1. Queued(inbox, sub) /\ Ids(inbox) = {}
      BY <1>2 DEF Queued, Increasing, Ids
    <2>2. sub \in [Subs -> Submission] /\ \A s \in Subs : sub[s].status = "none"
      BY DEF Init, NoSub, Submission
    <2>3. run \in RunType /\ run.task = NoTask /\ run.inputs = {}
      BY DEF Init, NoRun, RunType
    <2> QED BY <2>1, <2>2, <2>3 DEF SubsInv, PlacedIsInRun
  <1>4. LogInv
    BY <1>2 DEF Init, LogInv, LogFits, Log, HeadsFit, BasesFit, NoHead
  <1>5. PinsInv
    <2>1. \A t \in Tasks : ~LiveCompaction(task, t)
      BY DEF Init, Absent, LiveCompaction
    <2> QED BY <2>1 DEF PinsInv, Blocking
  <1>6. TypedInv
    <2>1. NoLocal \in Local
      BY DEF NoLocal, Local
    <2> QED BY <2>1, RecordTypes DEF Init, TypedInv, TaskMap, LocalMap
  <1>7. BookInv
    <2>1. partial = FALSE /\ ownerIntent = FALSE /\ cascade = FALSE
      BY DEF Init
    <2>2. aborts \in 0..MaxAborts /\ crashes \in 0..MaxCrashes
      <3>1. aborts = 0 /\ crashes = 0
        BY DEF Init
      <3> QED BY <3>1, BoundsAssumption
    <2> QED BY <2>1, <2>2, Zenon DEF BookInv
  <1>8. CancelledQueueDrains
    <2>1. ~ownerIntent
      BY Zenon DEF Init
    <2> QED BY <2>1 DEF CancelledQueueDrains
  <1> QED BY <1>1, <1>3, <1>4, <1>5, <1>6, <1>7, <1>8 DEF ConversationInv

LEMMA ConversationInvHolds == Spec => []ConversationInv
  BY ConversationInvInit, ConversationInvStep, PTL DEF Spec

-----------------------------------------------------------------------------
(* Safety.                                                                   *)

\* Every variable keeps its type: in particular a live handler's checkpoint and
\* its memory are records, and nothing listed is not a task (live.ts,
\* generation.ts, compaction.ts).
THEOREM ConversationTypes == Spec => []TypeOK
  <1>1. ConversationInv => TypeOK
    BY DEF ConversationInv, TypeOK, RunsInv, Compactions, SubsInv, Queued, RunType, LogInv,
           LogFits, TypedInv, TaskMap, LocalMap, BookInv
  <1> QED BY <1>1, ConversationInvHolds, PTL

\* The inbox lists exactly the queued submissions, in id order: boundaries,
\* withdrawals and cascades lose none and leave none behind (inbox.ts
\* applyBoundary, removeInboxItem, withdrawQueuedInputs).
THEOREM InboxIsTheQueue == Spec => []InboxListsQueued
  <1>1. ConversationInv => InboxListsQueued
    BY DEF ConversationInv, SubsInv, Queued, Increasing, Ids, InboxListsQueued
  <1> QED BY <1>1, ConversationInvHolds, PTL

\* The placed inputs are those of the run: no end, handover or restart of a run
\* leaves an input without a task that settles it (live.ts endRun,
\* generation.ts handOver, startRun).
THEOREM NoInputIsStranded == Spec => []PlacedIsInRun
  <1>1. ConversationInv => PlacedIsInRun
    BY DEF ConversationInv, SubsInv
  <1> QED BY <1>1, ConversationInvHolds, PTL

\* A queued input below a cancelled owner has a cascade coming that withdraws
\* it, also one queued after the last cascade (scheduler.ts #observe).
THEOREM CancelledQueueIsDrained == Spec => []CancelledQueueDrains
  <1>1. ConversationInv => CancelledQueueDrains
    BY DEF ConversationInv
  <1> QED BY <1>1, ConversationInvHolds, PTL

-----------------------------------------------------------------------------
(* Action properties.                                                        *)

LEMMA StepsFollow ==
  ASSUME ConversationInv, [Next]_vars
  PROVE  /\ log'.head >= log.head
         /\ partial /\ ~partial' => log'.tail > log.tail
         /\ NoCuts => log'.covers = log.covers \/ log'.covers > log.last
         /\ log'.head > log.last => Ends \/ ~Busy
  <1>1. Step
    BY NextSteps
  <1>2. LogFits(log) /\ LogFits(log')
    BY <1>1 DEF ConversationInv, LogInv, Step, LogStep, Follows
  <1>3. log.head \in Nat /\ log'.head \in Nat /\ log.last \in Nat /\ log'.last \in Nat
    BY <1>2 DEF LogFits, Log
  <1> QED BY <1>1, <1>3 DEF Step, LogStep, Follows, KeepsReach

\* The active range never moves back, whatever writes, summaries and boundaries
\* land in which order (inbox.ts isStale, compaction.ts placeSummary).
THEOREM HeadOnlyAdvances == Spec => HeadNeverMovesBack
  <1>1. ConversationInv /\ [Next]_vars => [log'.head >= log.head]_vars
    BY StepsFollow
  <1> QED BY <1>1, ConversationInvHolds, PTL DEF Spec, HeadNeverMovesBack

\* A partial that was shown is replaced by a response or kept as an entry,
\* also across restarts, aborts and faults (generation.ts convertPartial).
THEOREM PartialBecomesEntry == Spec => PartialIsKept
  <1>1. ConversationInv /\ [Next]_vars => [partial /\ ~partial' => log'.tail > log.tail]_vars
    BY StepsFollow
  <1> QED BY <1>1, ConversationInvHolds, PTL DEF Spec, PartialIsKept

\* Unless a host cuts the history by an entry of its choice, only a reset takes
\* history from the model: a summary that lands after others still covers
\* everything back to the same reset (compaction.ts placeSummary, inbox.ts
\* isStale).
THEOREM SummariesReachBack == "cut" \notin Drafts => (Spec => ContextReachesBack)
  <1> SUFFICES ASSUME "cut" \notin Drafts PROVE Spec => ContextReachesBack
    OBVIOUS
  <1>1. ConversationInv /\ [Next]_vars
          => [log'.covers = log.covers \/ log'.covers > log.last]_vars
    BY StepsFollow DEF NoCuts
  <1> QED BY <1>1, ConversationInvHolds, PTL DEF Spec, ContextReachesBack

LEMMA EndsPart ==
  ASSUME SubsInv, LogInv, Ends \/ ~Busy
  PROVE  run.inputs \cap run'.inputs = {}
  <1>1. CASE ~Busy
    BY <1>1 DEF SubsInv, Busy
  <1>2. CASE Ends
    <2>1. PICK l, at, T : \E modes \in Modes :
                 LET b == Boundary(l, sub, inbox, at, modes) IN
                 LogFits(l) /\ Follows(log, l) /\ StartRun(T, b.users, NoRun)
      BY <1>2 DEF Ends
    <2>2. PICK modes \in Modes :
                 LET b == Boundary(l, sub, inbox, at, modes) IN
                 LogFits(l) /\ Follows(log, l) /\ StartRun(T, b.users, NoRun)
      BY <2>1
    <2> DEFINE b == Boundary(l, sub, inbox, at, modes)
    <2>3. LogFits(l) /\ Follows(log, l) /\ StartRun(T, b.users, NoRun)
      BY <2>2
    <2> HIDE DEF b
    <2>4. b.users \in SUBSET Ids(inbox)
      BY <2>3, InboxBoundary DEF b, LogInv
    <2>5. run.inputs \cap Ids(inbox) = {} /\ Ids(inbox) \subseteq Subs
      BY RunInputs, ItemIds DEF SubsInv, Queued
    <2>6. NoRun \in RunType /\ NoRun.task = NoTask /\ NoRun.inputs = {}
      BY DEF NoRun, RunType
    <2>7. b.users \in SUBSET Subs
      BY <2>4, <2>5
    <2>8. run'.inputs = b.users
      BY <2>3, <2>6, <2>7, RunStarts
    <2> QED BY <2>4, <2>5, <2>8
  <1> QED BY <1>1, <1>2

\* No input placed before a reset stays in a run after it: the commit that lets
\* the reset take effect ends the run (generation.ts finishToolRound, answer).
THEOREM ResetCutsRun == Spec => ResetEndsRun
  <1>1. ASSUME ConversationInv, [Next]_vars, log'.head > log.last
        PROVE  run.inputs \cap run'.inputs = {}
    BY <1>1, StepsFollow, EndsPart DEF ConversationInv
  <1>2. ConversationInv /\ [Next]_vars
          => [log'.head > log.last => run.inputs \cap run'.inputs = {}]_vars
    BY <1>1
  <1> QED BY <1>2, ConversationInvHolds, PTL DEF Spec, ResetEndsRun

-----------------------------------------------------------------------------
(* The conversation implements Submissions: every step is one of its steps,  *)
(* or leaves submissions and inbox alone.                                    *)

Stage(s) == [x \in Subs |-> s[x].status]

LEMMA PromiseWithout == \A q, S : Promise!Without(q, S) = Without(q, S)
  BY DEF Promise!Without, Promise!ItemsAt, Without, ItemsAt

\* What Submissions sees of a list of items.
LEMMA ShownItems ==
  ASSUME NEW items \in Seq(Item), Increasing(items)
  PROVE  /\ Promise!Ids(Shows(items)) = Ids(items)
         /\ Promise!Writes(Shows(items)) = WriteIds(items)
         /\ Promise!Inputs(Shows(items)) = UserIds(items)
         /\ \A U : EldestFirst(items, U) => Promise!Oldest(Shows(items), U)
         /\ \A S : Promise!Without(Shows(items), S) = Shows(Without(items, S))
  <1>1. /\ DOMAIN Shows(items) = DOMAIN items
        /\ \A i \in DOMAIN items :
             Shows(items)[i].id = items[i].id /\ Shows(items)[i].mode = items[i].mode
    BY DEF Shows
  <1>2. Promise!Ids(Shows(items)) = Ids(items)
    BY <1>1 DEF Promise!Ids, Ids
  <1>3. Promise!Writes(Shows(items)) = WriteIds(items)
    BY <1>1 DEF Promise!Writes, WriteIds
  <1>4. Promise!Inputs(Shows(items)) = UserIds(items)
    BY <1>2, <1>3, ItemIds DEF Promise!Inputs
  <1>5. ASSUME NEW U, EldestFirst(items, U) PROVE Promise!Oldest(Shows(items), U)
    BY <1>1, <1>5 DEF EldestFirst, Promise!Oldest
  <1>6. ASSUME NEW S PROVE Promise!Without(Shows(items), S) = Shows(Without(items, S))
    <2> DEFINE K == {i \in DOMAIN items : items[i].id \notin S}
    <2>1. {i \in DOMAIN Shows(items) : Shows(items)[i].id \notin S} = K
      BY <1>1
    <2>2. Without(Shows(items), S) = ItemsAt(Shows(items), K)
      BY <2>1 DEF Without
    <2>3. Without(items, S) = ItemsAt(items, K)
      BY DEF Without
    <2> HIDE DEF K
    <2>4. ItemsAt(Shows(items), K) = Shows(ItemsAt(items, K))
      BY ShowsSelection
    <2> QED BY <2>2, <2>3, <2>4, PromiseWithout
  <1> QED BY <1>2, <1>3, <1>4, <1>5, <1>6

LEMMA PromiseState ==
  ASSUME SubsInv
  PROVE  /\ Promise!Placed = run.inputs
         /\ Promise!Idle <=> ~Busy
         /\ \A s \in Subs : NextSub(s) => Promise!Next1(s)
  <1>1. Promise!Placed = run.inputs
    BY DEF SubsInv, PlacedIsInRun, Promise!Placed
  <1>2. Promise!Idle <=> ~Busy
    BY <1>1 DEF SubsInv, Promise!Idle, Busy
  <1>3. ASSUME NEW s \in Subs, NextSub(s) PROVE Promise!Next1(s)
    BY <1>3 DEF NextSub, Promise!Next1
  <1> QED BY <1>1, <1>2, <1>3

\* A commit whose boundary places the users of `items`, and in which the run's
\* inputs settle with the verdict or stay.
LEMMA BoundaryIsPromised ==
  ASSUME SubsInv, NEW s \in [Subs -> Submission], NEW items, Queued(items, s),
         NEW b, Bounded(s, items, b), inbox' = b.inbox,
         NEW verdict \in {"none", "done", "unanswered"},
         \A x \in Ids(items) : s[x].status = "queued" /\ x \notin run.inputs,
         \A x \in Subs \ Ids(items) : s[x].status = sub[x].status,
         \A x \in Subs \ run.inputs : sub'[x].status = b.sub[x].status,
         \A x \in run.inputs :
           sub'[x].status = IF verdict = "none" THEN b.sub[x].status ELSE verdict
  PROVE  Promise!Boundary(Shows(items), verdict)
  <1> DEFINE U == b.users
             W == WriteIds(items)
             D == {x \in W : b.sub[x].status = "done"}
  <1>1. items \in Seq(Item) /\ Increasing(items)
    BY DEF Queued
  <1>2. /\ Promise!Writes(Shows(items)) = W /\ Promise!Inputs(Shows(items)) = UserIds(items)
        /\ Promise!Oldest(Shows(items), U)
    BY <1>1, ShownItems DEF Bounded
  <1>3. U \in SUBSET UserIds(items) /\ D \in SUBSET W
    BY DEF Bounded
  <1>4. inbox' = Without(items, U \cup W)
    BY DEF Bounded
  <1>5. Shows(inbox') = Promise!Without(Shows(items), U \cup W)
    BY <1>1, <1>4, ShownItems
  <1>6. /\ UserIds(items) \cap W = {} /\ UserIds(items) \cup W = Ids(items)
        /\ Ids(items) \in SUBSET Subs
    BY <1>1, ItemIds
  <1>7. /\ \A x \in U : b.sub[x].status = "placed"
        /\ \A x \in W : b.sub[x].status \in {"done", "unanswered"}
        /\ \A x \in Subs \ (U \cup W) : b.sub[x] = s[x]
    BY DEF Bounded, IsSettled
  <1>8. Promise!Placed = run.inputs /\ run.inputs \subseteq Subs
    BY PromiseState, RunInputs
  <1> DEFINE After(x) ==
               CASE x \in U -> "placed"
                 [] x \in D -> "done"
                 [] x \in W \ D -> "unanswered"
                 [] x \in UserIds(items) \ U -> "queued"
                 [] x \in run.inputs /\ verdict # "none" -> verdict
                 [] OTHER -> sub[x].status
  <1>9. ASSUME NEW x \in Subs PROVE sub'[x].status = After(x)
    <2>1. CASE x \in U
      BY <1>3, <1>6, <1>7, <2>1
    <2>2. CASE x \in W
      BY <1>3, <1>6, <1>7, <2>2
    <2>3. CASE x \in UserIds(items) \ U
      BY <1>3, <1>6, <1>7, <2>3
    <2>4. CASE x \notin Ids(items)
      BY <1>3, <1>6, <1>7, <2>4
    <2> QED BY <1>6, <2>1, <2>2, <2>3, <2>4
  <1>10. [x \in Subs |-> sub'[x].status] = [x \in Subs |-> After(x)]
    BY <1>9
  <1>11. \A x \in Subs : [y \in Subs |-> sub[y].status][x] = sub[x].status
    OBVIOUS
  <1> DEFINE q == Shows(items)
  <1>12. /\ U \in SUBSET Promise!Inputs(q) /\ D \in SUBSET Promise!Writes(q)
         /\ Promise!Oldest(q, U)
    BY <1>2, <1>3
  <1>13. [x \in Subs |-> sub'[x].status] =
           [x \in Subs |->
             CASE x \in U -> "placed"
               [] x \in D -> "done"
               [] x \in Promise!Writes(q) \ D -> "unanswered"
               [] x \in Promise!Inputs(q) \ U -> "queued"
               [] x \in Promise!Placed /\ verdict # "none" -> verdict
               [] OTHER -> [y \in Subs |-> sub[y].status][x]]
    <2> HIDE DEF U, W, D
    <2> QED BY <1>2, <1>8, <1>10, <1>11
  <1>14. [i \in DOMAIN inbox' |-> [id |-> inbox'[i].id, mode |-> inbox'[i].mode]]
           = Promise!Without(q, U \cup Promise!Writes(q))
    BY <1>2, <1>5 DEF Shows
  <1> HIDE DEF U, W, D, q, After
  <1> SUFFICES \E X \in SUBSET Promise!Inputs(q), Y \in SUBSET Promise!Writes(q) :
        /\ Promise!Oldest(q, X)
        /\ [x \in Subs |-> sub'[x].status] =
             [x \in Subs |->
               CASE x \in X -> "placed"
                 [] x \in Y -> "done"
                 [] x \in Promise!Writes(q) \ Y -> "unanswered"
                 [] x \in Promise!Inputs(q) \ X -> "queued"
                 [] x \in Promise!Placed /\ verdict # "none" -> verdict
                 [] OTHER -> [y \in Subs |-> sub[y].status][x]]
        /\ [i \in DOMAIN inbox' |-> [id |-> inbox'[i].id, mode |-> inbox'[i].mode]]
             = Promise!Without(q, X \cup Promise!Writes(q))
    BY DEF Promise!Boundary, q
  <1> USE <1>12
  <1> WITNESS U \in SUBSET Promise!Inputs(q), D \in SUBSET Promise!Writes(q)
  <1> QED BY <1>13, <1>14

\* Every class of steps is a step of Submissions.
LEMMA SettledIsPromised == SubsInv /\ AdmitsSettled => Promise!Next
  <1> SUFFICES ASSUME SubsInv, AdmitsSettled PROVE Promise!Next
    OBVIOUS
  <1>1. PICK s \in Subs, r \in Submission :
          NextSub(s) /\ IsSettled(r) /\ sub' = [sub EXCEPT ![s] = r] /\ UNCHANGED <<inbox, run>>
    BY DEF AdmitsSettled
  <1>2. sub \in [Subs -> Submission] /\ r.status \in {"done", "unanswered"}
    BY <1>1 DEF SubsInv, IsSettled
  <1>3. [x \in Subs |-> sub'[x].status] = [[x \in Subs |-> sub[x].status] EXCEPT ![s] = r.status]
    BY <1>1, <1>2
  <1>4. Promise!AdmitSettled(s)
    BY <1>1, <1>2, <1>3, PromiseState DEF Promise!AdmitSettled, Promise!Verdicts
  <1> QED BY <1>4 DEF Promise!Next

LEMMA ShownQueue ==
  ASSUME SubsInv
  PROVE  /\ inbox \in Seq(Item) /\ Increasing(inbox)
         /\ [i \in DOMAIN inbox |-> [id |-> inbox[i].id, mode |-> inbox[i].mode]] = Shows(inbox)
         /\ [i \in DOMAIN inbox' |-> [id |-> inbox'[i].id, mode |-> inbox'[i].mode]] = Shows(inbox')
         /\ inbox = <<>> <=> Shows(inbox) = <<>>
  <1>1. inbox \in Seq(Item) /\ Increasing(inbox)
    BY DEF SubsInv, Queued
  <1>2. DOMAIN Shows(inbox) = 1..Len(inbox) /\ Len(inbox) \in Nat
    BY <1>1 DEF Shows
  <1>3. ASSUME inbox = <<>> PROVE Shows(inbox) = <<>>
    <2> DEFINE X == {[id |-> i, mode |-> m] : i \in Subs, m \in {"steer", "followUp", "write"}}
    <2>1. \A i \in 1..Len(inbox) : [id |-> inbox[i].id, mode |-> inbox[i].mode] \in X
      BY <1>3
    <2> HIDE DEF X
    <2>2. Shows(inbox) \in Seq(X) /\ Len(Shows(inbox)) = 0
      BY <1>1, <1>2, <1>3, <2>1 DEF Shows
    <2> QED BY <2>2
  <1>4. ASSUME Shows(inbox) = <<>> PROVE inbox = <<>>
    <2>1. DOMAIN Shows(inbox) = {}
      BY <1>4
    <2>2. Len(inbox) = 0
      BY <1>2, <2>1
    <2> QED BY <1>1, <2>2, EmptySeq
  <1> QED BY <1>1, <1>3, <1>4 DEF Shows

LEMMA QueuedIsPromised == SubsInv /\ AdmitsQueued => Promise!Next
  <1> SUFFICES ASSUME SubsInv, AdmitsQueued PROVE Promise!Next
    OBVIOUS
  <1>1. PICK s \in Subs : \E item, type :
          NextSub(s) /\ Fitting(s, item, type) /\ AdmitBusy(s, item, type)
    BY DEF AdmitsQueued
  <1>2. PICK item, type : NextSub(s) /\ Fitting(s, item, type) /\ AdmitBusy(s, item, type)
    BY <1>1
  <1>3. /\ item \in Item /\ item.id = s /\ item.mode \in {"steer", "followUp", "write"}
        /\ Busy /\ inbox' = Append(inbox, item)
        /\ sub' = [sub EXCEPT ![s] = NewSub(type, "queued", "none", 0)]
    BY <1>2 DEF Fitting, AdmitBusy, Item
  <1>4. [x \in Subs |-> sub'[x].status] = [[x \in Subs |-> sub[x].status] EXCEPT ![s] = "queued"]
    <2>1. NewSub(type, "queued", "none", 0).status = "queued"
      BY DEF NewSub
    <2> QED BY <1>3, <2>1 DEF SubsInv
  <1>5. Shows(inbox') = Append(Shows(inbox), [id |-> s, mode |-> item.mode])
    BY <1>3, ShownQueue, ShowsAppend
  <1>6. Promise!AdmitQueued(s)
    BY <1>2, <1>3, <1>4, <1>5, PromiseState, ShownQueue
    DEF Promise!AdmitQueued, Promise!Modes, Promise!Item
  <1> QED BY <1>6 DEF Promise!Next

LEMMA PlacedIsPromised == SubsInv /\ AdmitsPlaced => Promise!Next
  <1> SUFFICES ASSUME SubsInv, AdmitsPlaced PROVE Promise!Next
    OBVIOUS
  <1>1. PICK s \in Subs : \E item : NextSub(s) /\ AdmitInput(s, item)
    BY DEF AdmitsPlaced
  <1>2. PICK item : NextSub(s) /\ AdmitInput(s, item)
    BY <1>1
  <1>3. /\ ~Busy /\ inbox = <<>> /\ inbox' = inbox
        /\ sub' = [sub EXCEPT ![s] = NewSub("input", "placed", "none", log.last + 1)]
    BY <1>2 DEF AdmitInput, AdmitsIdle
  <1>4. [x \in Subs |-> sub'[x].status] = [[x \in Subs |-> sub[x].status] EXCEPT ![s] = "placed"]
    <2>1. NewSub("input", "placed", "none", log.last + 1).status = "placed"
      BY DEF NewSub
    <2> QED BY <1>3, <2>1 DEF SubsInv
  <1>5. Promise!AdmitPlaced(s)
    BY <1>2, <1>3, <1>4, PromiseState, ShownQueue DEF Promise!AdmitPlaced
  <1> QED BY <1>5 DEF Promise!Next

LEMMA BehindIsPromised ==
  SubsInv /\ LogFits(log) /\ HeadsFit(inbox, log) /\ AdmitsBehind => Promise!Next
  <1> SUFFICES ASSUME SubsInv, LogFits(log), HeadsFit(inbox, log), AdmitsBehind
               PROVE  Promise!Next
    OBVIOUS
  <1>1. PICK s \in Subs : \E item, type, T :
          NextSub(s) /\ Fitting(s, item, type) /\ AdmitBehind(s, item, type, T)
    BY DEF AdmitsBehind
  <1>2. PICK item, type, T :
          NextSub(s) /\ Fitting(s, item, type) /\ AdmitBehind(s, item, type, T)
    BY <1>1
  <1> DEFINE r == NewSub(type, "queued", "none", 0)
             t == [sub EXCEPT ![s] = r]
             q == Append(inbox, item)
  <1>3. PICK modes \in Modes :
          LET b == Boundary(log, t, q, "final", modes) IN sub' = b.sub /\ inbox' = b.inbox
    BY <1>2 DEF AdmitBehind
  <1> DEFINE b == Boundary(log, t, q, "final", modes)
  <1>4. ~Busy /\ inbox # <<>> /\ item \in Item /\ item.id = s /\ item.mode \in Promise!Modes
    BY <1>2 DEF AdmitBehind, AdmitsIdle, Fitting, Item, Promise!Modes
  <1>5. /\ t \in [Subs -> Submission] /\ Queued(q, t) /\ Ids(q) = Ids(inbox) \cup {s}
        /\ HeadsFit(q, log)
    <2>1. Takes(t, s, r)
      BY DEF Takes
    <2> HIDE DEF t
    <2>2. /\ t \in [Subs -> Submission] /\ r \in Submission
          /\ Queued(q, t) /\ Ids(q) = Ids(inbox) \cup {s}
      BY <1>2, <2>1, AppendQueues
    <2> QED BY <1>2, <2>1, <2>2, AppendHeads
  <1>6. t[s].status = "queued" /\ \A x \in Subs \ {s} : t[x] = sub[x]
    BY DEF NewSub, SubsInv
  <1>7. s \notin run.inputs /\ s \notin Ids(inbox)
    BY <1>2, NextSubIs
  <1>8. /\ run.inputs \cap Ids(inbox) = {} /\ run.inputs \subseteq Subs
        /\ \A x \in Ids(inbox) : x \in Subs /\ sub[x].status = "queued"
    BY RunInputs DEF SubsInv
  <1>9. Shows(q) = Append(Shows(inbox), [id |-> s, mode |-> item.mode])
    BY <1>4, ShownQueue, ShowsAppend
  <1>10. sub' = b.sub /\ inbox' = b.inbox
    BY <1>3
  <1> HIDE DEF t, q, r
  <1>11. Bounded(t, q, b)
    BY <1>5, BoundaryIs
  <1> HIDE DEF b
  <1>12. Promise!Boundary(Shows(q), "none")
    <2>1. \A x \in Ids(q) : t[x].status = "queued" /\ x \notin run.inputs
      BY <1>5, <1>6, <1>7, <1>8
    <2>2. \A x \in Subs \ Ids(q) : t[x].status = sub[x].status
      BY <1>5, <1>6
    <2>3. \A x \in Subs \ run.inputs : sub'[x].status = b.sub[x].status
      BY <1>10
    <2>4. \A x \in run.inputs :
            sub'[x].status = IF "none" = "none" THEN b.sub[x].status ELSE "none"
      BY <1>10
    <2> QED BY <1>5, <1>10, <1>11, <2>1, <2>2, <2>3, <2>4, BoundaryIsPromised
  <1>13. Promise!AdmitBehind(s)
    BY <1>2, <1>4, <1>9, <1>12, PromiseState, ShownQueue DEF Promise!AdmitBehind, Promise!Item
  <1> QED BY <1>13 DEF Promise!Next

LEMMA WithdrawnIsPromised == SubsInv /\ Withdraws => Promise!Next
  <1> SUFFICES ASSUME SubsInv, Withdraws PROVE Promise!Next
    OBVIOUS
  <1>1. PICK S \in {{s} : s \in Ids(inbox)} \cup {UserIds(inbox)} :
          /\ sub' = [x \in Subs |-> IF x \in S THEN Settle(sub[x], "unanswered", "aborted")
                                    ELSE sub[x]]
          /\ inbox' = Without(inbox, S)
    BY DEF Withdraws
  <1>2. \A x \in S : x \in Subs /\ sub[x].status = "queued"
    BY <1>1, ShownQueue, ItemIds DEF SubsInv
  <1>3. [x \in Subs |-> sub'[x].status] =
          [x \in Subs |-> IF x \in S THEN "unanswered" ELSE [y \in Subs |-> sub[y].status][x]]
    <2>1. ASSUME NEW x \in S PROVE sub'[x].status = "unanswered"
      <3>1. sub[x] \in Submission /\ ~IsSettled(sub[x]) /\ x \in Subs
        BY <1>2 DEF SubsInv, IsSettled
      <3>2. Settle(sub[x], "unanswered", "aborted").status = "unanswered"
        BY <3>1, SettleIs
      <3> QED BY <1>1, <3>1, <3>2
    <2>2. ASSUME NEW x \in Subs \ S PROVE sub'[x].status = sub[x].status
      BY <1>1
    <2> QED BY <2>1, <2>2
  <1>4. Shows(inbox') = Promise!Without(Shows(inbox), S)
    BY <1>1, ShownQueue, ShownItems
  <1>5. S \in {{s} : s \in Promise!Ids(Shows(inbox))} \cup {Promise!Inputs(Shows(inbox))}
    BY <1>1, ShownQueue, ShownItems
  <1>6. Promise!Withdraw
    BY <1>3, <1>4, <1>5, ShownQueue DEF Promise!Withdraw
  <1> QED BY <1>6 DEF Promise!Next

LEMMA FailsIsPromised == SubsInv /\ Fails => Promise!Next
  <1> SUFFICES ASSUME SubsInv, Fails PROVE Promise!Next
    OBVIOUS
  <1>1. PICK reason \in Endings : sub' = EndRun(sub, run.task, "unanswered", reason)
    BY DEF Fails
  <1>2. Busy /\ inbox' = inbox
    BY DEF Fails
  <1>3. /\ \A x \in Subs \ run.inputs : sub'[x] = sub[x]
        /\ \A x \in Subs \cap run.inputs : ~IsSettled(sub[x]) => sub'[x].status = "unanswered"
    BY <1>1, EndRunIs DEF SubsInv
  <1>4. \A x \in Subs : x \in run.inputs <=> sub[x].status = "placed"
    BY RunInputs
  <1>5. [x \in Subs |-> sub'[x].status] =
          [x \in Subs |-> IF x \in run.inputs THEN "unanswered"
                          ELSE [y \in Subs |-> sub[y].status][x]]
    BY <1>3, <1>4 DEF IsSettled
  <1>6. Promise!RunFails
    BY <1>2, <1>5, PromiseState, ShownQueue DEF Promise!RunFails
  <1> QED BY <1>6 DEF Promise!Next

LEMMA EndsIsPromised ==
  SubsInv /\ LogFits(log) /\ HeadsFit(inbox, log) /\ Ends => Promise!Next
  <1> SUFFICES ASSUME SubsInv, LogFits(log), HeadsFit(inbox, log), Ends PROVE Promise!Next
    OBVIOUS
  <1>1. PICK l, at : \E modes \in Modes, status \in {"done", "unanswered"}, reason \in Endings :
          LET b == Boundary(l, sub, inbox, at, modes) IN
          /\ LogFits(l) /\ Follows(log, l)
          /\ sub' = EndRun(b.sub, run.task, status, reason) /\ inbox' = b.inbox
    BY DEF Ends
  <1>2. PICK modes \in Modes, status \in {"done", "unanswered"}, reason \in Endings :
          LET b == Boundary(l, sub, inbox, at, modes) IN
          /\ LogFits(l) /\ Follows(log, l)
          /\ sub' = EndRun(b.sub, run.task, status, reason) /\ inbox' = b.inbox
    BY <1>1
  <1> DEFINE b == Boundary(l, sub, inbox, at, modes)
  <1>3. /\ LogFits(l) /\ Follows(log, l)
        /\ sub' = EndRun(b.sub, run.task, status, reason) /\ inbox' = b.inbox
    BY <1>2
  <1>4. /\ Bounded(sub, inbox, b) /\ b.sub \in [Subs -> Submission]
        /\ \A x \in Subs : b.sub[x].status = "placed" <=> x \in b.users \cup run.inputs
    BY <1>3, InboxBoundary
  <1> HIDE DEF b
  <1>5. /\ \A x \in Subs \ run.inputs : sub'[x] = b.sub[x]
        /\ \A x \in Subs \cap run.inputs : ~IsSettled(b.sub[x]) => sub'[x].status = status
    BY <1>3, <1>4, EndRunIs
  <1>6. /\ run.inputs \cap Ids(inbox) = {} /\ run.inputs \subseteq Subs
        /\ \A x \in Ids(inbox) : x \in Subs /\ sub[x].status = "queued"
    BY RunInputs DEF SubsInv
  <1>7. Promise!Boundary(Shows(inbox), status)
    <2>1. \A x \in Ids(inbox) : sub[x].status = "queued" /\ x \notin run.inputs
      BY <1>6
    <2>2. \A x \in Subs \ run.inputs : sub'[x].status = b.sub[x].status
      BY <1>5
    <2>3. \A x \in run.inputs :
            sub'[x].status = IF status = "none" THEN b.sub[x].status ELSE status
      BY <1>4, <1>5, <1>6 DEF IsSettled
    <2>4. sub \in [Subs -> Submission] /\ Queued(inbox, sub)
      BY DEF SubsInv
    <2> QED BY <1>3, <1>4, <2>1, <2>2, <2>3, <2>4, BoundaryIsPromised
  <1>8. Busy
    BY DEF Ends
  <1>9. Promise!RunEnds
    BY <1>7, <1>8, PromiseState, ShownQueue DEF Promise!RunEnds, Promise!Verdicts
  <1> QED BY <1>9 DEF Promise!Next

LEMMA GoesOnIsPromised ==
  SubsInv /\ LogFits(log) /\ HeadsFit(inbox, log) /\ GoesOn => Promise!Next
  <1> SUFFICES ASSUME SubsInv, LogFits(log), HeadsFit(inbox, log), GoesOn PROVE Promise!Next
    OBVIOUS
  <1>1. PICK l, at : \E modes \in Modes :
          LET b == Boundary(l, sub, inbox, at, modes) IN
          LogFits(l) /\ Follows(log, l) /\ sub' = b.sub /\ inbox' = b.inbox
    BY DEF GoesOn
  <1>2. PICK modes \in Modes :
          LET b == Boundary(l, sub, inbox, at, modes) IN
          LogFits(l) /\ Follows(log, l) /\ sub' = b.sub /\ inbox' = b.inbox
    BY <1>1
  <1> DEFINE b == Boundary(l, sub, inbox, at, modes)
  <1>3. LogFits(l) /\ Follows(log, l) /\ sub' = b.sub /\ inbox' = b.inbox
    BY <1>2
  <1>4. Bounded(sub, inbox, b)
    BY <1>3, InboxBoundary
  <1> HIDE DEF b
  <1>5. \A x \in Ids(inbox) : sub[x].status = "queued" /\ x \notin run.inputs
    BY RunInputs DEF SubsInv
  <1>6. Promise!Boundary(Shows(inbox), "none")
    <2>1. \A x \in Subs \ run.inputs : sub'[x].status = b.sub[x].status
      BY <1>3
    <2>2. \A x \in run.inputs :
            sub'[x].status = IF "none" = "none" THEN b.sub[x].status ELSE "none"
      BY <1>3
    <2>3. sub \in [Subs -> Submission] /\ Queued(inbox, sub)
      BY DEF SubsInv
    <2> QED BY <1>3, <1>4, <1>5, <2>1, <2>2, <2>3, BoundaryIsPromised
  <1>7. Busy
    BY DEF GoesOn
  <1>8. Promise!RunGoesOn
    BY <1>6, <1>7, PromiseState, ShownQueue DEF Promise!RunGoesOn
  <1> QED BY <1>8 DEF Promise!Next

LEMMA StepIsPromised ==
  SubsInv /\ LogInv /\ SubsStep => [Promise!Next]_(Promise!vars)
  <1> SUFFICES ASSUME SubsInv, LogInv, SubsStep PROVE [Promise!Next]_(Promise!vars)
    OBVIOUS
  <1>1. LogFits(log) /\ HeadsFit(inbox, log)
    BY DEF LogInv
  <1>2. CASE Calm
    BY <1>2 DEF Calm, Promise!vars
  <1> QED BY <1>1, <1>2, SettledIsPromised, QueuedIsPromised, BehindIsPromised, PlacedIsPromised,
             WithdrawnIsPromised, FailsIsPromised, EndsIsPromised, GoesOnIsPromised DEF SubsStep

\* The conversation keeps what Submissions promises: each step of handlers,
\* hosts and restarts is one of its steps or leaves submissions and inbox alone
\* (spec.md section 6; submissions.ts, inbox.ts applyBoundary, live.ts endRun).
THEOREM ConversationKeepsPromise == Spec => KeepsPromise
  <1>1. Init => Promise!Init
    <2> SUFFICES ASSUME Init PROVE Promise!Init
      OBVIOUS
    <2>1. SubsInv /\ inbox = <<>>
      BY ConversationInvInit DEF ConversationInv, Init
    <2>2. Shows(inbox) = <<>>
      BY <2>1, ShownQueue
    <2>3. [s \in Subs |-> sub[s].status] = [s \in Subs |-> "none"]
      BY DEF Init, NoSub
    <2> QED BY <2>1, <2>2, <2>3, ShownQueue DEF Promise!Init
  <1>2. ConversationInv /\ [Next]_vars => [Promise!Next]_(Promise!vars)
    BY NextSteps, StepIsPromised DEF ConversationInv, Step
  <1> QED BY <1>1, <1>2, ConversationInvHolds, PTL DEF Spec, KeepsPromise, Promise!Spec
=============================================================================
