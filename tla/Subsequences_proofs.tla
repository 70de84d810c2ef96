------------------------- MODULE Subsequences_proofs -------------------------
(* Lists gone through item by item: inductions on places, selections and      *)
(* folds.  These facts are about lists only; the proofs about the inbox and   *)
(* about the stream of state build on them.                                   *)
EXTENDS Subsequences, WellFoundedInduction, SequenceTheorems, TLAPS

-----------------------------------------------------------------------------
(* Going through a list item by item.  A set of places that has 0 and, with  *)
(* each place, the next one has them all.                                    *)

NatLess == {pair \in Nat \X Nat : pair[1] < pair[2]}

LEMMA LeastPlace ==
  ASSUME NEW T, T \subseteq Nat, T # {}
  PROVE  \E x \in T : \A y \in T : x <= y
  <1>1. IsWellFoundedOn(NatLess, Nat)
    BY NatLessThanWellFounded DEF OpToRel, NatLess
  <1>2. PICK x \in T : \A y \in T : <<y, x>> \notin NatLess
    BY <1>1, WFMin
  <1>3. ASSUME NEW y \in T, y < x PROVE FALSE
    <2>1. <<y, x>> \in NatLess
      BY <1>3 DEF NatLess
    <2> QED BY <2>1, <1>2
  <1>4. \A y \in T : x <= y
    BY <1>3
  <1> QED BY <1>4

LEMMA AllPlaces ==
  ASSUME NEW n \in Nat, NEW T, 0 \in T, \A i \in 1..n : i - 1 \in T => i \in T
  PROVE  0..n \subseteq T
  <1> SUFFICES ASSUME (0..n) \ T # {} PROVE FALSE
    OBVIOUS
  <1>1. (0..n) \ T \subseteq Nat
    OBVIOUS
  <1>2. PICK x \in (0..n) \ T : \A y \in (0..n) \ T : x <= y
    BY <1>1, LeastPlace
  <1>3. x \in 1..n /\ x - 1 \in 0..n /\ ~(x <= x - 1)
    BY <1>2
  <1>4. x - 1 \in T
    BY <1>2, <1>3
  <1> QED BY <1>2, <1>3, <1>4

\* f gives the items at K up to each place up to k.
Selects(f, k, items, K) ==
  f = [i \in 0..k |-> IF i = 0 THEN <<>>
                      ELSE IF i \in K THEN Append(f[i - 1], items[i]) ELSE f[i - 1]]

LEMMA SelectsAt ==
  ASSUME NEW f, NEW k, NEW items, NEW K, Selects(f, k, items, K), NEW j \in 0..k
  PROVE  f[j] = IF j = 0 THEN <<>>
                ELSE IF j \in K THEN Append(f[j - 1], items[j]) ELSE f[j - 1]
  <1> DEFINE E(i) == IF i = 0 THEN <<>>
                     ELSE IF i \in K THEN Append(f[i - 1], items[i]) ELSE f[i - 1]
  <1>1. f = [i \in 0..k |-> E(i)]
    BY DEF Selects
  <1> HIDE DEF E
  <1>2. f[j] = E(j)
    BY <1>1
  <1> QED BY <1>2 DEF E

LEMMA SelectionExists ==
  ASSUME NEW items, Len(items) \in Nat, NEW K
  PROVE  \E f : Selects(f, Len(items), items, K)
  <1> DEFINE n == Len(items)
             T == {k \in 0..n : \E f : Selects(f, k, items, K)}
  <1>1. 0 \in T
    <2>1. Selects([i \in 0..0 |-> <<>>], 0, items, K)
      BY DEF Selects
    <2> QED BY <2>1
  <1>2. ASSUME NEW i \in 1..n, i - 1 \in T PROVE i \in T
    <2>1. PICK f : Selects(f, i - 1, items, K)
      BY <1>2
    <2> DEFINE g == [j \in 0..i |-> IF j < i THEN f[j]
                      ELSE IF i \in K THEN Append(f[i - 1], items[i]) ELSE f[i - 1]]
    <2>2. ASSUME NEW j \in 0..i
          PROVE  g[j] = IF j = 0 THEN <<>>
                        ELSE IF j \in K THEN Append(g[j - 1], items[j]) ELSE g[j - 1]
      <3>1. CASE j = i
        <4>1. g[i] = IF i \in K THEN Append(f[i - 1], items[i]) ELSE f[i - 1]
          OBVIOUS
        <4>2. g[i - 1] = f[i - 1]
          OBVIOUS
        <4> QED BY <3>1, <4>1, <4>2
      <3>2. CASE j < i
        <4>1. f[j] = IF j = 0 THEN <<>>
                     ELSE IF j \in K THEN Append(f[j - 1], items[j]) ELSE f[j - 1]
          BY <2>1, <3>2, SelectsAt
        <4>2. g[j] = f[j] /\ (j # 0 => g[j - 1] = f[j - 1])
          BY <3>2
        <4> QED BY <4>1, <4>2
      <3> QED BY <3>1, <3>2
    <2>3. g = [j \in 0..i |-> g[j]]
      OBVIOUS
    <2> HIDE DEF g
    <2>4. Selects(g, i, items, K)
      BY <2>2, <2>3 DEF Selects
    <2> QED BY <2>4
  <1> HIDE DEF T
  <1>3. 0..n \subseteq T
    BY <1>1, <1>2, AllPlaces
  <1> QED BY <1>3 DEF T

\* What holds of nothing, and goes on to hold item by item, holds of the selection.
LEMMA Selection ==
  ASSUME NEW items, Len(items) \in Nat, NEW K, NEW J, <<>> \in J[0],
         \A i \in 1..Len(items) : \A r \in J[i - 1] :
           IF i \in K THEN Append(r, items[i]) \in J[i] ELSE r \in J[i]
  PROVE  ItemsAt(items, K) \in J[Len(items)]
  <1> DEFINE n == Len(items)
             F == CHOOSE f : Selects(f, n, items, K)
             T == {i \in 0..n : F[i] \in J[i]}
  <1>1. Selects(F, n, items, K)
    BY SelectionExists
  <1>2. ItemsAt(items, K) = F[n]
    BY DEF ItemsAt, Selects
  <1> HIDE DEF F
  <1>3. F[0] = <<>> /\ \A i \in 1..n : F[i] = IF i \in K THEN Append(F[i - 1], items[i]) ELSE F[i - 1]
    BY <1>1, SelectsAt
  <1>4. 0 \in T
    BY <1>3
  <1>5. ASSUME NEW i \in 1..n, i - 1 \in T PROVE i \in T
    <2>1. F[i - 1] \in J[i - 1]
      BY <1>5
    <2>2. IF i \in K THEN Append(F[i - 1], items[i]) \in J[i] ELSE F[i - 1] \in J[i]
      BY <2>1
    <2>3. F[i] \in J[i]
      BY <1>3, <2>2
    <2> QED BY <2>3
  <1> HIDE DEF T
  <1>6. 0..n \subseteq T
    BY <1>4, <1>5, AllPlaces
  <1> QED BY <1>2, <1>6 DEF T

-----------------------------------------------------------------------------
(* Folds.  f is a function of a value and an item; Fold takes a value through *)
(* the items of a list, the first one first.                                  *)

Fold(f, items, v) ==
  LET upTo[i \in 0..Len(items)] == IF i = 0 THEN v ELSE f[<<upTo[i - 1], items[i]>>]
  IN upTo[Len(items)]

\* g gives what the items up to each place up to k make of v.
Folds(g, k, f, items, v) ==
  g = [i \in 0..k |-> IF i = 0 THEN v ELSE f[<<g[i - 1], items[i]>>]]

LEMMA FoldsAt ==
  ASSUME NEW g, NEW k, NEW f, NEW items, NEW v, Folds(g, k, f, items, v), NEW j \in 0..k
  PROVE  g[j] = IF j = 0 THEN v ELSE f[<<g[j - 1], items[j]>>]
  <1> DEFINE E(i) == IF i = 0 THEN v ELSE f[<<g[i - 1], items[i]>>]
  <1>1. g = [i \in 0..k |-> E(i)]
    BY DEF Folds
  <1> HIDE DEF E
  <1>2. g[j] = E(j)
    BY <1>1
  <1> QED BY <1>2 DEF E

LEMMA FoldsGo ==
  ASSUME NEW g, NEW k \in Nat, NEW f, NEW items, NEW v, Folds(g, k, f, items, v)
  PROVE  g[0] = v /\ \A i \in 1..k : g[i] = f[<<g[i - 1], items[i]>>]
  <1>1. 0 \in 0..k /\ \A i \in 1..k : i \in 0..k /\ i # 0
    OBVIOUS
  <1>2. \A j \in 0..k : g[j] = IF j = 0 THEN v ELSE f[<<g[j - 1], items[j]>>]
    BY FoldsAt
  <1> QED BY <1>1, <1>2

LEMMA FoldExists ==
  ASSUME NEW n \in Nat, NEW f, NEW items, NEW v
  PROVE  \E g : Folds(g, n, f, items, v)
  <1> DEFINE T == {k \in 0..n : \E g : Folds(g, k, f, items, v)}
  <1>1. 0 \in T
    <2>1. Folds([i \in 0..0 |-> v], 0, f, items, v)
      BY DEF Folds
    <2> QED BY <2>1
  <1>2. ASSUME NEW i \in 1..n, i - 1 \in T PROVE i \in T
    <2>1. PICK g : Folds(g, i - 1, f, items, v)
      BY <1>2
    <2> DEFINE h == [j \in 0..i |-> IF j < i THEN g[j] ELSE f[<<g[i - 1], items[i]>>]]
    <2>2. ASSUME NEW j \in 0..i
          PROVE  h[j] = IF j = 0 THEN v ELSE f[<<h[j - 1], items[j]>>]
      <3>1. CASE j = i
        <4>1. h[i] = f[<<g[i - 1], items[i]>>]
          OBVIOUS
        <4>2. h[i - 1] = g[i - 1]
          OBVIOUS
        <4> QED BY <3>1, <4>1, <4>2
      <3>2. CASE j < i
        <4>1. g[j] = IF j = 0 THEN v ELSE f[<<g[j - 1], items[j]>>]
          BY <2>1, <3>2, FoldsAt
        <4>2. h[j] = g[j] /\ (j # 0 => h[j - 1] = g[j - 1])
          BY <3>2
        <4> QED BY <4>1, <4>2
      <3> QED BY <3>1, <3>2
    <2>3. h = [j \in 0..i |-> h[j]]
      OBVIOUS
    <2> HIDE DEF h
    <2>4. Folds(h, i, f, items, v)
      BY <2>2, <2>3 DEF Folds
    <2> QED BY <2>4
  <1> HIDE DEF T
  <1>3. 0..n \subseteq T
    BY <1>1, <1>2, AllPlaces
  <1> QED BY <1>3 DEF T

\* What is related to v, and goes on to be item by item, is related to the result.
LEMMA FoldSteps ==
  ASSUME NEW n \in Nat, NEW g, NEW f, NEW items, NEW v, Folds(g, n, f, items, v),
         NEW J, v \in J[0],
         \A i \in 1..n : \A x \in J[i - 1] : f[<<x, items[i]>>] \in J[i]
  PROVE  g[n] \in J[n]
  <1> DEFINE T == {i \in 0..n : g[i] \in J[i]}
  <1>0. g[0] = v /\ \A i \in 1..n : g[i] = f[<<g[i - 1], items[i]>>]
    BY FoldsGo
  <1>1. 0 \in T
    BY <1>0
  <1>2. ASSUME NEW i \in 1..n, i - 1 \in T PROVE i \in T
    <2>1. g[i - 1] \in J[i - 1]
      BY <1>2
    <2>2. g[i] = f[<<g[i - 1], items[i]>>]
      BY <1>0
    <2> QED BY <2>1, <2>2
  <1> HIDE DEF T
  <1>3. 0..n \subseteq T
    BY <1>1, <1>2, AllPlaces
  <1> QED BY <1>3 DEF T

\* A list of steps makes one thing only of v.
LEMMA FoldIs ==
  ASSUME NEW items, Len(items) \in Nat, NEW g, NEW f, NEW v, Folds(g, Len(items), f, items, v)
  PROVE  Fold(f, items, v) = g[Len(items)]
  <1> DEFINE n == Len(items)
             h == CHOOSE h : Folds(h, n, f, items, v)
             J == [i \in 0..n |-> {g[i]}]
  <1>1. Folds(h, n, f, items, v)
    OBVIOUS
  <1>2. Fold(f, items, v) = h[n]
    BY DEF Fold, Folds
  <1> HIDE DEF h
  <1>0. g[0] = v /\ \A i \in 1..n : g[i] = f[<<g[i - 1], items[i]>>]
    BY FoldsGo
  <1>3. v \in J[0]
    BY <1>0
  <1>4. ASSUME NEW i \in 1..n, NEW x \in J[i - 1] PROVE f[<<x, items[i]>>] \in J[i]
    <2>1. x = g[i - 1]
      OBVIOUS
    <2>2. g[i] = f[<<g[i - 1], items[i]>>]
      BY <1>0
    <2> QED BY <2>1, <2>2
  <1> HIDE DEF J
  <1>5. h[n] \in J[n]
    BY <1>1, <1>3, <1>4, FoldSteps
  <1> QED BY <1>2, <1>5 DEF J

LEMMA FoldEmpty == ASSUME NEW f, NEW v PROVE Fold(f, <<>>, v) = v
  <1>1. Len(<<>>) = 0
    OBVIOUS
  <1>2. PICK g : Folds(g, 0, f, <<>>, v)
    BY FoldExists
  <1>3. g[0] = v
    BY <1>2, FoldsGo
  <1>4. Fold(f, <<>>, v) = g[Len(<<>>)]
    BY <1>1, <1>2, FoldIs
  <1> QED BY <1>1, <1>3, <1>4

LEMMA FoldConcat ==
  ASSUME NEW X, NEW q \in Seq(X), NEW r \in Seq(X), NEW f, NEW v
  PROVE  Fold(f, q \o r, v) = Fold(f, r, Fold(f, q, v))
  <1> DEFINE n == Len(q)
             k == Len(r)
  <1>1. n \in Nat /\ k \in Nat /\ Len(q \o r) = n + k /\ q \o r \in Seq(X)
    OBVIOUS
  <1>2. PICK g : Folds(g, n + k, f, q \o r, v)
    BY <1>1, FoldExists
  <1>0. g[0] = v /\ \A i \in 1..(n + k) : g[i] = f[<<g[i - 1], (q \o r)[i]>>]
    <2> DEFINE all == q \o r
               l == n + k
    <2>1. l \in Nat /\ Folds(g, l, f, all, v)
      BY <1>1, <1>2
    <2> HIDE DEF all, l
    <2>2. g[0] = v /\ \A i \in 1..l : g[i] = f[<<g[i - 1], all[i]>>]
      BY <2>1, FoldsGo
    <2> QED BY <2>2 DEF all, l
  <1> DEFINE a == [i \in 0..n |-> g[i]]
             b == [i \in 0..k |-> g[n + i]]
  <1>3. Folds(a, n, f, q, v)
    <2>1. ASSUME NEW i \in 0..n PROVE a[i] = IF i = 0 THEN v ELSE f[<<a[i - 1], q[i]>>]
      <3>1. g[i] = IF i = 0 THEN v ELSE f[<<g[i - 1], (q \o r)[i]>>]
        <4>1. i = 0 \/ i \in 1..(n + k)
          BY <1>1
        <4> QED BY <4>1, <1>0
      <3>2. i # 0 => (q \o r)[i] = q[i] /\ a[i - 1] = g[i - 1]
        OBVIOUS
      <3> QED BY <3>1, <3>2
    <2>2. a = [i \in 0..n |-> a[i]]
      OBVIOUS
    <2> HIDE DEF a
    <2> QED BY <2>1, <2>2 DEF Folds
  <1>4. Folds(b, k, f, r, a[n])
    <2>1. ASSUME NEW i \in 0..k PROVE b[i] = IF i = 0 THEN a[n] ELSE f[<<b[i - 1], r[i]>>]
      <3>1. CASE i = 0
        BY <3>1, <1>1
      <3>2. CASE i # 0
        <4>1. n + i \in 1..(n + k)
          BY <1>1, <3>2
        <4>2. g[n + i] = f[<<g[n + i - 1], (q \o r)[n + i]>>]
          BY <4>1, <1>0
        <4>3. (q \o r)[n + i] = r[i]
          BY <3>2
        <4>4. b[i - 1] = g[n + i - 1]
          <5>1. i - 1 \in 0..k /\ n + (i - 1) = n + i - 1
            BY <3>2, <1>1
          <5> QED BY <5>1
        <4> QED BY <3>2, <4>2, <4>3, <4>4
      <3> QED BY <3>1, <3>2
    <2>2. b = [i \in 0..k |-> b[i]]
      OBVIOUS
    <2> HIDE DEF a, b
    <2> QED BY <2>1, <2>2 DEF Folds
  <1>5. a[n] = Fold(f, q, v)
    BY <1>1, <1>3, FoldIs
  <1>6. b[k] = Fold(f, r, Fold(f, q, v))
    BY <1>1, <1>4, <1>5, FoldIs
  <1>7. Fold(f, q \o r, v) = g[n + k]
    <2> HIDE DEF n, k
    <2>1. Folds(g, Len(q \o r), f, q \o r, v) /\ Len(q \o r) \in Nat
      BY <1>1, <1>2
    <2>2. Fold(f, q \o r, v) = g[Len(q \o r)]
      BY <2>1, FoldIs
    <2> QED BY <2>2, <1>1
  <1> QED BY <1>6, <1>7, <1>1

LEMMA FoldOne ==
  ASSUME NEW f, NEW x, NEW v PROVE Fold(f, <<x>>, v) = f[<<v, x>>]
  <1>1. Len(<<x>>) = 1 /\ <<x>>[1] = x
    OBVIOUS
  <1>2. PICK g : Folds(g, 1, f, <<x>>, v)
    BY FoldExists
  <1>3. g[0] = v /\ g[1] = f[<<g[0], x>>]
    <2>1. g[0] = v /\ \A i \in 1..1 : g[i] = f[<<g[i - 1], <<x>>[i]>>]
      BY <1>2, FoldsGo
    <2>2. 1 \in 1..1 /\ 1 - 1 = 0
      OBVIOUS
    <2> QED BY <1>1, <2>1, <2>2
  <1>4. Fold(f, <<x>>, v) = g[Len(<<x>>)]
    BY <1>1, <1>2, FoldIs
  <1> QED BY <1>1, <1>3, <1>4

LEMMA FoldAppend ==
  ASSUME NEW X, NEW q \in Seq(X), NEW x \in X, NEW f, NEW v
  PROVE  Fold(f, Append(q, x), v) = f[<<Fold(f, q, v), x>>]
  <1>1. Append(q, x) = q \o <<x>> /\ <<x>> \in Seq(X)
    OBVIOUS
  <1> DEFINE r == <<x>>
  <1>2. r \in Seq(X) /\ Append(q, x) = q \o r
    BY <1>1
  <1>3. Fold(f, r, Fold(f, q, v)) = f[<<Fold(f, q, v), x>>]
    BY FoldOne
  <1> HIDE DEF r
  <1>4. Fold(f, q \o r, v) = Fold(f, r, Fold(f, q, v))
    BY <1>2, FoldConcat
  <1> QED BY <1>2, <1>3, <1>4

LEMMA FoldHead ==
  ASSUME NEW X, NEW q \in Seq(X), q # <<>>, NEW f, NEW v
  PROVE  Fold(f, q, v) = Fold(f, Tail(q), f[<<v, Head(q)>>])
  <1>1. q = <<Head(q)>> \o Tail(q) /\ Head(q) \in X /\ Tail(q) \in Seq(X)
    BY HeadTailProperties
  <1>2. <<Head(q)>> \in Seq(X)
    BY <1>1
  <1> HIDE DEF Fold
  <1> DEFINE h == <<Head(q)>>
             r == Tail(q)
  <1>3. h \in Seq(X) /\ r \in Seq(X) /\ q = h \o r
    BY <1>1, <1>2
  <1>4. Fold(f, h, v) = f[<<v, Head(q)>>]
    BY FoldOne
  <1> HIDE DEF h, r
  <1>5. Fold(f, h \o r, v) = Fold(f, r, Fold(f, h, v))
    BY <1>3, FoldConcat
  <1> QED BY <1>3, <1>4, <1>5 DEF r

\* What is in a set that the steps do not leave is in it at the end.
LEMMA FoldStays ==
  ASSUME NEW X, NEW q \in Seq(X), NEW f, NEW S, NEW v \in S,
         \A x \in S : \A y \in X : f[<<x, y>>] \in S
  PROVE  Fold(f, q, v) \in S
  <1>0. Len(q) \in Nat
    OBVIOUS
  <1>1. PICK g : Folds(g, Len(q), f, q, v)
    BY <1>0, FoldExists
  <1> DEFINE J == [i \in 0..Len(q) |-> S]
  <1>2. v \in J[0]
    OBVIOUS
  <1>3. \A i \in 1..Len(q) : \A x \in J[i - 1] : f[<<x, q[i]>>] \in J[i]
    OBVIOUS
  <1> HIDE DEF J
  <1>4. g[Len(q)] \in J[Len(q)]
    BY <1>0, <1>1, <1>2, <1>3, FoldSteps
  <1>5. Fold(f, q, v) = g[Len(q)]
    BY <1>0, <1>1, FoldIs
  <1> QED BY <1>0, <1>4, <1>5 DEF J

\* Two folds over one list stay related when each step keeps the relation.
LEMMA FoldTwo ==
  ASSUME NEW X, NEW q \in Seq(X), NEW f, NEW e, NEW R, NEW v, NEW w, <<v, w>> \in R,
         \A p \in R : \A y \in X : <<f[<<p[1], y>>], e[<<p[2], y>>]>> \in R
  PROVE  <<Fold(f, q, v), Fold(e, q, w)>> \in R
  <1>0. Len(q) \in Nat
    OBVIOUS
  <1>1. PICK g : Folds(g, Len(q), f, q, v)
    BY <1>0, FoldExists
  <1>2. PICK h : Folds(h, Len(q), e, q, w)
    BY <1>0, FoldExists
  <1>a. g[0] = v /\ \A i \in 1..Len(q) : g[i] = f[<<g[i - 1], q[i]>>]
    BY <1>0, <1>1, FoldsGo
  <1>b. h[0] = w /\ \A i \in 1..Len(q) : h[i] = e[<<h[i - 1], q[i]>>]
    BY <1>0, <1>2, FoldsGo
  <1> DEFINE T == {i \in 0..Len(q) : <<g[i], h[i]>> \in R}
  <1>3. 0 \in T
    BY <1>0, <1>a, <1>b
  <1>4. ASSUME NEW i \in 1..Len(q), i - 1 \in T PROVE i \in T
    <2>1. <<g[i - 1], h[i - 1]>> \in R
      BY <1>4
    <2>2. g[i] = f[<<g[i - 1], q[i]>>] /\ h[i] = e[<<h[i - 1], q[i]>>]
      BY <1>a, <1>b
    <2>3. <<f[<<g[i - 1], q[i]>>], e[<<h[i - 1], q[i]>>]>> \in R
      <3>1. q[i] \in X
        OBVIOUS
      <3> DEFINE p == <<g[i - 1], h[i - 1]>>
      <3>2. p \in R /\ p[1] = g[i - 1] /\ p[2] = h[i - 1]
        BY <2>1
      <3> QED BY <3>1, <3>2
    <2> QED BY <2>2, <2>3
  <1> HIDE DEF T
  <1>5. 0..Len(q) \subseteq T
    BY <1>0, <1>3, <1>4, AllPlaces
  <1>6. <<g[Len(q)], h[Len(q)]>> \in R
    BY <1>0, <1>5 DEF T
  <1>7. Fold(f, q, v) = g[Len(q)] /\ Fold(e, q, w) = h[Len(q)]
    BY <1>0, <1>1, <1>2, FoldIs
  <1> QED BY <1>6, <1>7
=============================================================================
