-------------------------- MODULE StateStream_proofs --------------------------
(* Theorems about the stream of state from a provider through a relay to a    *)
(* consumer, for every value of its constants: at rest a view that wants      *)
(* state sees the object as it is.                                            *)
EXTENDS StateStream, Subsequences_proofs, FiniteSetTheorems

-----------------------------------------------------------------------------
(* Types.                                                                     *)

Value == [s : Nat, n : Nat]
Edit == [s : Nat \ {0}, n : Nat]
Frame ==
  {f \in [t : {"shape", "state"}, h : Nat, members : SUBSET Members, listed : SUBSET Members,
          m : Members \cup {"none"}, as : {"none", "snap", "reset", "ops", "error"}, at : Value,
          ops : Seq(Edit)] :
     /\ f.t = "state" => f.m \in Members /\ f.as # "none"
     /\ f.t = "state" /\ f.as # "ops" => IF f.as = "error" THEN f.at = Failed ELSE f.at.s # 0}
Message ==
  {q \in [t : {"hold", "release", "sub", "unsub", "resync"}, id : Nat, state : BOOLEAN,
          again : BOOLEAN, m : Members \cup {"none"}] :
     q.t = "resync" => q = Resync(q.m) /\ q.m \in Members}
Slot == [base : Frame, ops : Seq(Edit), lazy : BOOLEAN]

Provider ==
  [out : Seq(Frame), processed : Nat, order : Seq(Keys), slots : [Keys -> Slot],
   provides : {TRUE}, dropped : {{}}, hold : Nat, wants : BOOLEAN, again : BOOLEAN,
   unitSent : BOOLEAN, feeds : [Members -> Nat], next : Nat \ {0}]
Relay ==
  [out : Seq(Frame), processed : Nat, order : Seq(Members), slots : [Keys -> Slot],
   provides : {FALSE}, dropped : SUBSET Members, hold : Nat, again : BOOLEAN,
   shaped : BOOLEAN, urgent : SUBSET Members, awaiting : SUBSET Members]
Values == [Members -> Value]
Consumer ==
  [wish : BOOLEAN, hold : Nat, status : {"loading", "live", "ended"}, hydrated : BOOLEAN,
   applied : BOOLEAN, overlap : BOOLEAN, shape : SUBSET Members, members : Values,
   failed : SUBSET Members, left : SUBSET Members,
   pending : [on : BOOLEAN, members : SUBSET Members, missing : SUBSET Members,
              values : Values, failed : SUBSET Members]]

\* Every variable has its type.
TypeOK ==
  /\ val \in [Members -> Nat] /\ invalid \in SUBSET Members /\ variant \in Variants /\ events \in 0..MaxEvents
  /\ prov \in Provider /\ relay \in Relay /\ relay.dropped = {} /\ cons \in Consumer
  /\ asked \in Seq(Message) /\ passed \in Seq(Message)

-----------------------------------------------------------------------------
(* What the consumer knows of a member: nothing, so that a value of it would  *)
(* be ignored; that it comes (None); a value; or that it came as an error     *)
(* (Failed).  A frame turns what is known into what is known then, and what   *)
(* waits in a slot is frames to come.                                         *)

Unknown == [s |-> -1, n |-> 0]
Known(v) == v.s # -1
Level == Value \cup {Unknown}

Heard(v, m, f) ==
  IF f.t = "shape"
  THEN IF m \notin f.members THEN Unknown ELSE IF m \in f.listed THEN None ELSE v
  ELSE IF f.m # m \/ ~Known(v) THEN v
  ELSE IF f.as # "ops" THEN f.at
  ELSE IF v \in {None, Failed} THEN v ELSE Applied(v, f.ops)
Hearing(m, hs) ==
  [p \in Level \X Frame |-> IF p[2].h \in hs THEN Heard(p[1], m, p[2]) ELSE p[1]]
Based(v, m, slot) == IF slot.base = NoFrame THEN v ELSE Heard(v, m, slot.base)
After(v, m, slot) ==
  IF slot.ops = <<>> THEN Based(v, m, slot)
  ELSE Heard(Based(v, m, slot), m, State(0, m, "ops", None, slot.ops))

\* More is known in w than in v.
Leq(v, w) == v = w \/ ~Known(v) \/ (v = None /\ Known(w)) \/ w = Failed
LeqPairs == {p \in Level \X Level : Leq(p[1], p[2])}
KnownPairs == {p \in Level \X Level : Known(p[1]) => Known(p[2])}

LEMMA LevelIs ==
  /\ Value \subseteq Level /\ Unknown \in Level
  /\ None \in Value /\ Torn \in Value /\ Failed \in Value /\ Failed # None /\ Failed # Torn
  /\ \A v \in Value : Known(v)
  /\ ~Known(Unknown) /\ \A v \in Level : ~Known(v) => v = Unknown
  BY DEF Level, Value, Unknown, Known, None, Torn, Failed

LEMMA FrameIs ==
  ASSUME NEW f \in Frame
  PROVE  /\ f.t \in {"shape", "state"} /\ f.h \in Nat
         /\ f.members \in SUBSET Members /\ f.listed \in SUBSET Members
         /\ f.as \in {"none", "snap", "reset", "ops", "error"}
         /\ f.at \in Value /\ f.ops \in Seq(Edit)
         /\ f.t = "state" => f.m \in Members /\ f.as # "none"
         /\ f.t = "state" /\ f.as # "ops" => f.at # None
         /\ f.t = "state" => (f.as = "error" => f.at = Failed)
         /\ f.t = "state" /\ f.as \notin {"ops", "error"} => f.at # Failed
  BY DEF Frame, None, Failed

LEMMA FrameMakes ==
  /\ \A h \in Nat : \A ms \in SUBSET Members : \A l \in SUBSET Members : Shape(h, ms, l) \in Frame
  /\ \A h \in Nat : \A m \in Members : \A as \in {"snap", "reset", "ops"} :
     \A at \in Value : \A ops \in Seq(Edit) :
       as = "ops" \/ at.s # 0 => State(h, m, as, at, ops) \in Frame
  /\ \A h \in Nat : \A m \in Members : Error(h, m) \in Frame
  /\ NoFrame \in Frame
  <1>1. ASSUME NEW h \in Nat, NEW ms \in SUBSET Members, NEW l \in SUBSET Members
        PROVE  Shape(h, ms, l) \in Frame
    <2>1. <<>> \in Seq(Edit) /\ None \in Value
      BY LevelIs
    <2> QED BY <2>1 DEF Shape, Frame
  <1>2. ASSUME NEW h \in Nat, NEW m \in Members, NEW as \in {"snap", "reset", "ops"},
               NEW at \in Value, NEW ops \in Seq(Edit), as = "ops" \/ at.s # 0
        PROVE  State(h, m, as, at, ops) \in Frame
    <2> DEFINE f == [t |-> "state", h |-> h, members |-> {}, listed |-> {}, m |-> m, as |-> as,
                     at |-> at, ops |-> ops]
    <2>1. f.m \in Members /\ f.as # "none"
      OBVIOUS
    <2>2. f.as # "error" /\ (f.as = "ops" \/ f.at.s # 0)
      BY <1>2
    <2>3. f \in [t : {"shape", "state"}, h : Nat, members : SUBSET Members, listed : SUBSET Members,
                 m : Members \cup {"none"}, as : {"none", "snap", "reset", "ops", "error"},
                 at : Value, ops : Seq(Edit)]
      OBVIOUS
    <2> HIDE DEF f
    <2>4. f \in Frame
      BY <2>1, <2>2, <2>3 DEF Frame
    <2> QED BY <2>4 DEF State, f
  <1>3. NoFrame \in Frame
    <2>1. 0 \in Nat /\ {} \in SUBSET Members
      OBVIOUS
    <2> QED BY <2>1, <1>1 DEF NoFrame
  <1>4. ASSUME NEW h \in Nat, NEW m \in Members PROVE Error(h, m) \in Frame
    <2>1. <<>> \in Seq(Edit) /\ Failed \in Value
      BY LevelIs
    <2> QED BY <2>1 DEF Error, State, Frame
  <1> QED BY <1>1, <1>2, <1>3, <1>4

LEMMA AppliedIs ==
  ASSUME NEW v \in Value, NEW ops \in Seq(Edit)
  PROVE  /\ Applied(v, ops) \in Value /\ Known(Applied(v, ops))
         /\ v # None => Applied(v, ops) # None
         /\ v \notin {None, Failed} => Applied(v, ops) # Failed
  <1>1. Len(ops) \in Nat
    OBVIOUS
  <1>2. CASE \A i \in DOMAIN ops : ops[i] = [s |-> v.s, n |-> v.n + i]
    <2>1. Applied(v, ops) = [s |-> v.s, n |-> v.n + Len(ops)]
      BY <1>2 DEF Applied
    <2>2. v.s # 0 \/ ops = <<>>
      <3>1. ASSUME ops # <<>> PROVE v.s # 0
        <4>1. 1 \in DOMAIN ops /\ ops[1] \in Edit
          BY <3>1
        <4> QED BY <1>2, <4>1 DEF Edit
      <3> QED BY <3>1
    <2>3. v.s \in Nat /\ v.n \in Nat
      BY DEF Value
    <2>4. ops = <<>> => Applied(v, ops) = v
      BY <2>1, <2>3 DEF Value
    <2> QED BY <1>1, <2>1, <2>2, <2>3, <2>4 DEF Value, None, Failed, Known
  <1>3. CASE ~\A i \in DOMAIN ops : ops[i] = [s |-> v.s, n |-> v.n + i]
    BY <1>3 DEF Applied, Torn, Value, None, Known, Failed
  <1> QED BY <1>2, <1>3

LEMMA HeardIs ==
  ASSUME NEW v \in Level, NEW m, NEW f \in Frame PROVE Heard(v, m, f) \in Level
  <1>1. Known(v) => v \in Value
    BY LevelIs DEF Level
  <1>2. Known(v) => Applied(v, f.ops) \in Level
    BY <1>1, FrameIs, AppliedIs, LevelIs
  <1> QED BY <1>2, FrameIs, LevelIs DEF Heard

LEMMA HeardMore ==
  ASSUME NEW v \in Level, NEW w \in Level, NEW m, NEW f \in Frame
  PROVE  /\ Leq(v, w) => Leq(Heard(v, m, f), Heard(w, m, f))
         /\ (Known(v) => Known(w)) => (Known(Heard(v, m, f)) => Known(Heard(w, m, f)))
  <1>1. f.at \in Value /\ f.ops \in Seq(Edit) /\ Known(f.at)
    BY FrameIs, LevelIs
  <1>2. Known(w) => Known(Applied(w, f.ops))
    BY <1>1, AppliedIs, LevelIs DEF Level
  <1>3. Known(None) /\ ~Known(Unknown)
    BY LevelIs
  <1> QED BY <1>1, <1>2, <1>3 DEF Heard, Leq

-----------------------------------------------------------------------------
(* Frames on a link, one after the other.                                     *)

LEMMA HearingAt ==
  ASSUME NEW m, NEW hs, NEW v \in Level, NEW f \in Frame
  PROVE  /\ Hearing(m, hs)[<<v, f>>] = IF f.h \in hs THEN Heard(v, m, f) ELSE v
         /\ Hearing(m, hs)[<<v, f>>] \in Level
  <1> DEFINE p == <<v, f>>
  <1>1. p \in Level \X Frame /\ p[1] = v /\ p[2] = f
    OBVIOUS
  <1> HIDE DEF p
  <1>2. Hearing(m, hs)[p] = IF p[2].h \in hs THEN Heard(p[1], m, p[2]) ELSE p[1]
    BY <1>1 DEF Hearing
  <1> QED BY <1>1, <1>2, HeardIs DEF p

LEMMA HearingStays ==
  ASSUME NEW q \in Seq(Frame), NEW m, NEW hs, NEW v \in Level
  PROVE  Fold(Hearing(m, hs), q, v) \in Level
  <1>1. \A x \in Level : \A y \in Frame : Hearing(m, hs)[<<x, y>>] \in Level
    BY HearingAt
  <1> QED BY <1>1, FoldStays

LEMMA HearingMore ==
  ASSUME NEW q \in Seq(Frame), NEW m, NEW hs, NEW v \in Level, NEW w \in Level
  PROVE  LET x == Fold(Hearing(m, hs), q, v)
             y == Fold(Hearing(m, hs), q, w) IN
         /\ Leq(v, w) => Leq(x, y)
         /\ (Known(v) => Known(w)) => (Known(x) => Known(y))
  <1> DEFINE x == Fold(Hearing(m, hs), q, v)
             y == Fold(Hearing(m, hs), q, w)
  <1>1. ASSUME NEW p \in LeqPairs, NEW f \in Frame
        PROVE  <<Hearing(m, hs)[<<p[1], f>>], Hearing(m, hs)[<<p[2], f>>]>> \in LeqPairs
    <2>1. p[1] \in Level /\ p[2] \in Level /\ Leq(p[1], p[2])
      BY <1>1 DEF LeqPairs
    <2>2. Leq(Heard(p[1], m, f), Heard(p[2], m, f))
      BY <2>1, HeardMore
    <2>3. /\ Hearing(m, hs)[<<p[1], f>>] = IF f.h \in hs THEN Heard(p[1], m, f) ELSE p[1]
          /\ Hearing(m, hs)[<<p[2], f>>] = IF f.h \in hs THEN Heard(p[2], m, f) ELSE p[2]
          /\ Hearing(m, hs)[<<p[1], f>>] \in Level /\ Hearing(m, hs)[<<p[2], f>>] \in Level
      BY <2>1, HearingAt
    <2> QED BY <2>1, <2>2, <2>3 DEF LeqPairs
  <1>2. ASSUME NEW p \in KnownPairs, NEW f \in Frame
        PROVE  <<Hearing(m, hs)[<<p[1], f>>], Hearing(m, hs)[<<p[2], f>>]>> \in KnownPairs
    <2>1. p[1] \in Level /\ p[2] \in Level /\ (Known(p[1]) => Known(p[2]))
      BY <1>2 DEF KnownPairs
    <2>2. Known(Heard(p[1], m, f)) => Known(Heard(p[2], m, f))
      BY <2>1, HeardMore
    <2>3. /\ Hearing(m, hs)[<<p[1], f>>] = IF f.h \in hs THEN Heard(p[1], m, f) ELSE p[1]
          /\ Hearing(m, hs)[<<p[2], f>>] = IF f.h \in hs THEN Heard(p[2], m, f) ELSE p[2]
          /\ Hearing(m, hs)[<<p[1], f>>] \in Level /\ Hearing(m, hs)[<<p[2], f>>] \in Level
      BY <2>1, HearingAt
    <2> QED BY <2>1, <2>2, <2>3 DEF KnownPairs
  <1>3. ASSUME Leq(v, w) PROVE Leq(x, y)
    <2>1. <<v, w>> \in LeqPairs
      BY <1>3 DEF LeqPairs
    <2>2. <<x, y>> \in LeqPairs
      BY <1>1, <2>1, FoldTwo
    <2> QED BY <2>2 DEF LeqPairs
  <1>4. ASSUME Known(v) => Known(w) PROVE Known(x) => Known(y)
    <2>1. <<v, w>> \in KnownPairs
      BY <1>4 DEF KnownPairs
    <2>2. <<x, y>> \in KnownPairs
      BY <1>2, <2>1, FoldTwo
    <2> QED BY <2>2 DEF KnownPairs
  <1> QED BY <1>3, <1>4

\* What may wait for a member: at most one value, and operations.
SlotFits(slot, m, h) ==
  LET f == slot.base IN
  f = NoFrame \/ (f.t = "state" /\ f.m = m /\ f.as # "ops" /\ f.h = h)

LEMMA BasedIs ==
  ASSUME NEW slot \in Slot, NEW m, NEW v \in Level, NEW w \in Level
  PROVE  /\ Based(v, m, slot) \in Level
         /\ Leq(v, w) => Leq(Based(v, m, slot), Based(w, m, slot))
         /\ (Known(v) => Known(w)) => (Known(Based(v, m, slot)) => Known(Based(w, m, slot)))
  <1>1. slot.base \in Frame
    BY DEF Slot
  <1> QED BY <1>1, HeardIs, HeardMore DEF Based

LEMMA AfterIs ==
  ASSUME NEW slot \in Slot, NEW m \in Members, NEW v \in Level, NEW w \in Level
  PROVE  /\ After(v, m, slot) \in Level
         /\ Leq(v, w) => Leq(After(v, m, slot), After(w, m, slot))
         /\ (Known(v) => Known(w)) => (Known(After(v, m, slot)) => Known(After(w, m, slot)))
  <1> DEFINE f == State(0, m, "ops", None, slot.ops)
  <1>1. f \in Frame
    BY FrameMakes, LevelIs DEF Slot
  <1> HIDE DEF f
  <1>2. /\ Based(v, m, slot) \in Level /\ Based(w, m, slot) \in Level
        /\ Leq(v, w) => Leq(Based(v, m, slot), Based(w, m, slot))
        /\ (Known(v) => Known(w)) => (Known(Based(v, m, slot)) => Known(Based(w, m, slot)))
    BY BasedIs
  <1>3. /\ Heard(Based(v, m, slot), m, f) \in Level
        /\ Leq(v, w) => Leq(Heard(Based(v, m, slot), m, f), Heard(Based(w, m, slot), m, f))
        /\ (Known(v) => Known(w)) =>
             (Known(Heard(Based(v, m, slot), m, f)) => Known(Heard(Based(w, m, slot), m, f)))
    BY <1>1, <1>2, HeardIs, HeardMore
  <1> QED BY <1>2, <1>3 DEF After, f

LEMMA IdleIs ==
  /\ Idle \in Slot /\ Lazy \in Slot /\ Idle # Lazy /\ Lazy.lazy /\ ~Idle.lazy
  /\ \A v : \A m : After(v, m, Idle) = v /\ After(v, m, Lazy) = v
  /\ \A m : \A h : SlotFits(Idle, m, h) /\ SlotFits(Lazy, m, h)
  <1>1. <<>> \in Seq(Edit)
    OBVIOUS
  <1>2. Idle = [base |-> NoFrame, ops |-> <<>>, lazy |-> FALSE]
    BY DEF Idle, Holding
  <1>3. Lazy = [base |-> NoFrame, ops |-> <<>>, lazy |-> TRUE]
    BY DEF Lazy
  <1>4. Idle \in Slot /\ Lazy \in Slot
    BY <1>1, <1>2, <1>3, FrameMakes DEF Slot
  <1> QED BY <1>2, <1>3, <1>4 DEF After, Based, SlotFits

-----------------------------------------------------------------------------
(* Senders: what waits, what is forgotten, what is sent.                      *)

In(q, k) == \E i \in DOMAIN q : q[i] = k

LEMMA OrderWithout ==
  ASSUME NEW X, NEW q \in Seq(X), NEW ks
  PROVE  LET r == ItemsAt(q, {i \in DOMAIN q : q[i] \notin ks}) IN
         /\ r \in Seq(X) /\ Len(r) <= Len(q)
         /\ \A k : In(r, k) <=> In(q, k) /\ k \notin ks
         /\ (\E k \in ks : In(q, k)) => Len(r) < Len(q)
  <1> DEFINE n == Len(q)
             K == {i \in DOMAIN q : q[i] \notin ks}
             J == [i \in 0..n |-> {r \in Seq(X) :
                     /\ Len(r) <= i
                     /\ \A k : In(r, k) <=> (\E j \in 1..i : q[j] = k) /\ k \notin ks
                     /\ (\E j \in 1..i : q[j] \in ks) => Len(r) < i}]
             r == ItemsAt(q, K)
  <1>1. n \in Nat /\ DOMAIN q = 1..n
    OBVIOUS
  <1>2. <<>> \in J[0]
    BY <1>1 DEF In
  <1>3. ASSUME NEW i \in 1..n, NEW s \in J[i - 1]
        PROVE  IF i \in K THEN Append(s, q[i]) \in J[i] ELSE s \in J[i]
    <2>1. /\ s \in Seq(X) /\ Len(s) <= i - 1 /\ Len(s) \in Nat
          /\ \A k : In(s, k) <=> (\E j \in 1..(i - 1) : q[j] = k) /\ k \notin ks
          /\ (\E j \in 1..(i - 1) : q[j] \in ks) => Len(s) < i - 1
      OBVIOUS
    <2>2. \A j \in 1..i : j \in 1..(i - 1) \/ j = i
      OBVIOUS
    <2>2a. 1..(i - 1) \subseteq 1..i /\ i \in 1..i /\ i \in 0..n /\ i - 1 \in 0..n
      BY <1>1
    <2>3. CASE i \in K
      <3> DEFINE t == Append(s, q[i])
      <3>1. q[i] \notin ks /\ q[i] \in X
        BY <2>3, <1>1
      <3>2. t \in Seq(X) /\ Len(t) = Len(s) + 1 /\ DOMAIN t = 1..(Len(s) + 1)
        BY <2>1, <3>1
      <3>2a. \A j \in 1..Len(s) : t[j] = s[j]
        BY <2>1, <3>1
      <3>2b. t[Len(s) + 1] = q[i]
        BY <2>1, <3>1
      <3> HIDE DEF t
      <3>3. \A k : In(t, k) <=> In(s, k) \/ k = q[i]
        <4>1. DOMAIN s = 1..Len(s)
          BY <2>1
        <4>2. \A j \in 1..(Len(s) + 1) : j \in 1..Len(s) \/ j = Len(s) + 1
          BY <2>1
        <4>3. Len(s) + 1 \in 1..(Len(s) + 1) /\ 1..Len(s) \subseteq 1..(Len(s) + 1)
          BY <2>1
        <4> QED BY <3>2, <3>2a, <3>2b, <4>1, <4>2, <4>3 DEF In
      <3>4. \A k : In(t, k) <=> (\E j \in 1..i : q[j] = k) /\ k \notin ks
        BY <2>1, <2>2, <2>2a, <3>1, <3>3
      <3>5. (\E j \in 1..i : q[j] \in ks) => Len(t) < i
        BY <2>1, <2>2, <3>1, <3>2
      <3>6. t \in J[i]
        BY <2>1, <2>2a, <3>2, <3>4, <3>5
      <3> QED BY <2>3, <3>6 DEF t
    <2>4. CASE i \notin K
      <3>1. q[i] \in ks
        BY <2>4, <1>1
      <3>2. \A k : In(s, k) <=> (\E j \in 1..i : q[j] = k) /\ k \notin ks
        BY <2>1, <2>2, <2>2a, <3>1
      <3>3. s \in J[i]
        BY <2>1, <2>2a, <3>2
      <3> QED BY <2>4, <3>3
    <2> QED BY <2>3, <2>4
  <1> HIDE DEF J
  <1>4. r \in J[n]
    BY <1>1, <1>2, <1>3, Selection
  <1>5. /\ r \in Seq(X) /\ Len(r) <= n
        /\ \A k : In(r, k) <=> (\E j \in 1..n : q[j] = k) /\ k \notin ks
        /\ (\E j \in 1..n : q[j] \in ks) => Len(r) < n
    BY <1>1, <1>4 DEF J
  <1> HIDE DEF r
  <1>6. \A k : In(q, k) <=> \E j \in 1..n : q[j] = k
    BY <1>1 DEF In
  <1>7. (\E k \in ks : In(q, k)) => Len(r) < n
    BY <1>5, <1>6
  <1> QED BY <1>5, <1>6, <1>7 DEF r

LEMMA SetInSeq ==
  ASSUME NEW S, IsFiniteSet(S)
  PROVE  SetToSeq(S) \in Seq(S) /\ \A x : In(SetToSeq(S), x) <=> x \in S
  <1> DEFINE n == Cardinality(S)
             q == SetToSeq(S)
  <1>1. n \in Nat /\ ExistsBijection(1..n, S)
    BY FS_CardinalityType
  <1>2. PICK f \in [1..n -> S] : IsInjective(f)
    BY <1>1 DEF ExistsBijection, Bijection, Injection, IsInjective
  <1>3. q \in [1..n -> S] /\ IsInjective(q)
    BY <1>2 DEF SetToSeq
  <1> HIDE DEF q
  <1>4. q \in Injection(1..n, S)
    BY <1>3 DEF Injection, IsInjective
  <1>5. IsFiniteSet(1..n) /\ Cardinality(1..n) = n
    <2>1. 1 \in Int /\ n \in Int
      BY <1>1
    <2>2. IsFiniteSet(1..n) /\ Cardinality(1..n) = IF 1 > n THEN 0 ELSE n - 1 + 1
      BY <2>1, FS_Interval
    <2> QED BY <1>1, <2>2
  <1> HIDE DEF n
  <1>6. q \in Surjection(1..n, S)
    BY <1>4, <1>5, FS_Injection DEF n
  <1>7. q \in Seq(S) /\ DOMAIN q = 1..n
    BY <1>1, <1>3
  <1>8. \A x : In(q, x) <=> x \in S
    BY <1>3, <1>6, <1>7 DEF In, Surjection
  <1> QED BY <1>7, <1>8 DEF q

Sender == Provider \cup Relay

\* What waits has its slot; a value waits before operations.
SlotsOK(c) ==
  /\ \A k \in Keys : c.slots[k] # Idle => Waits(c, k)
  /\ c.slots["unit"] = Idle
  /\ \A m \in Members : SlotFits(c.slots[m], m, c.hold)
  /\ \A m \in Members : c.slots[m].lazy => c.slots[m] = Lazy

\* State waits only while the window is full.
WindowOK(c) == c.order # <<>> => Full(c)

\* d is c but for what was sent, what waits and what was dropped.
Kept(c, d) ==
  /\ d.processed = c.processed /\ d.hold = c.hold
  /\ c \in Provider => /\ d \in Provider /\ d.wants = c.wants /\ d.again = c.again
                       /\ d.unitSent = c.unitSent /\ d.feeds = c.feeds /\ d.next = c.next
  /\ c \in Relay => /\ d \in Relay /\ d.again = c.again /\ d.shaped = c.shaped
                    /\ d.urgent = c.urgent /\ d.awaiting = c.awaiting

LEMMA SenderIs ==
  ASSUME NEW c \in Sender
  PROVE  /\ c.out \in Seq(Frame) /\ Len(c.out) \in Nat /\ c.processed \in Nat
         /\ c.order \in Seq(Keys) /\ Len(c.order) \in Nat
         /\ c.slots \in [Keys -> Slot] /\ c.hold \in Nat
         /\ c \in Provider => c.provides /\ c \notin Relay
         /\ c \in Relay => ~c.provides /\ c \notin Provider /\ c.order \in Seq(Members)
         /\ c \in Provider \/ c \in Relay
         /\ \A k \in Keys : c.slots[k] \in Slot
  <1>1. Seq(Members) \subseteq Seq(Keys)
    <2>1. Members \subseteq Keys
      BY DEF Keys
    <2> QED BY <2>1
  <1>2. CASE c \in Provider
    <2>1. c.provides /\ c \notin Relay
      BY <1>2 DEF Provider, Relay
    <2>2. /\ c.out \in Seq(Frame) /\ c.processed \in Nat /\ c.order \in Seq(Keys)
          /\ c.slots \in [Keys -> Slot] /\ c.hold \in Nat
      BY <1>2 DEF Provider
    <2> QED BY <1>2, <2>1, <2>2
  <1>3. CASE c \in Relay
    <2>1. ~c.provides /\ c \notin Provider
      BY <1>3 DEF Provider, Relay
    <2>2. /\ c.out \in Seq(Frame) /\ c.processed \in Nat /\ c.order \in Seq(Members)
          /\ c.slots \in [Keys -> Slot] /\ c.hold \in Nat
      BY <1>3 DEF Relay
    <2> QED BY <1>1, <1>3, <2>1, <2>2
  <1> QED BY <1>2, <1>3 DEF Sender

LEMMA KeptIs ==
  /\ \A c : Kept(c, c)
  /\ \A c : \A d : \A e : Kept(c, d) /\ Kept(d, e) => Kept(c, e)
  /\ \A c \in Sender : \A d : Kept(c, d) => d \in Sender
  BY DEF Kept, Sender

LEMMA SendIs ==
  ASSUME NEW c \in Sender, NEW f \in Frame
  PROVE  LET d == Send(c, f) IN
         /\ Kept(c, d) /\ d.out = Append(c.out, f) /\ d.order = c.order /\ d.slots = c.slots
         /\ d.dropped = c.dropped
  <1>1. Append(c.out, f) \in Seq(Frame)
    BY SenderIs
  <1>2. CASE c \in Provider
    BY <1>1, <1>2, SenderIs DEF Send, Kept, Provider
  <1>3. CASE c \in Relay
    BY <1>1, <1>3, SenderIs DEF Send, Kept, Relay
  <1> QED BY <1>2, <1>3 DEF Sender

LEMMA ForgetIs ==
  ASSUME NEW c \in Sender, NEW ks
  PROVE  LET d == Forget(c, ks) IN
         /\ Kept(c, d) /\ d.out = c.out /\ d.dropped = c.dropped
         /\ \A k \in Keys : d.slots[k] = IF k \in ks THEN Idle ELSE c.slots[k]
         /\ \A k : Waits(d, k) <=> Waits(c, k) /\ k \notin ks
         /\ Len(d.order) <= Len(c.order)
         /\ (\E k \in ks : Waits(c, k)) => Len(d.order) < Len(c.order)
  <1> DEFINE d == Forget(c, ks)
             q == ItemsAt(c.order, {i \in DOMAIN c.order : c.order[i] \notin ks})
             s == [k \in Keys |-> IF k \in ks THEN Idle ELSE c.slots[k]]
  <1>1. d = [c EXCEPT !.order = q, !.slots = s]
    BY DEF Forget
  <1>2. s \in [Keys -> Slot] /\ \A k \in Keys : s[k] = IF k \in ks THEN Idle ELSE c.slots[k]
    BY SenderIs, IdleIs
  <1>3. /\ q \in Seq(Keys) /\ Len(q) <= Len(c.order)
        /\ \A k : In(q, k) <=> In(c.order, k) /\ k \notin ks
        /\ (\E k \in ks : In(c.order, k)) => Len(q) < Len(c.order)
    BY SenderIs, OrderWithout
  <1>4. c \in Relay => q \in Seq(Members)
    BY SenderIs, OrderWithout
  <1> HIDE DEF q, d, s
  <1>5. Kept(c, d) /\ d.out = c.out /\ d.dropped = c.dropped /\ d.slots = s /\ d.order = q
    <2>1. CASE c \in Provider
      BY <1>1, <1>2, <1>3, <2>1, SenderIs DEF Kept, Provider
    <2>2. CASE c \in Relay
      BY <1>1, <1>2, <1>4, <2>2, SenderIs DEF Kept, Relay
    <2> QED BY <2>1, <2>2 DEF Sender
  <1>6. /\ \A k : Waits(d, k) <=> Waits(c, k) /\ k \notin ks
        /\ (\E k \in ks : Waits(c, k)) => Len(d.order) < Len(c.order)
    BY <1>3, <1>5 DEF Waits, In
  <1>7. \A k \in Keys : d.slots[k] = IF k \in ks THEN Idle ELSE c.slots[k]
    BY <1>2, <1>5
  <1> QED BY <1>3, <1>5, <1>6, <1>7 DEF d

LEMMA QueuedIs ==
  ASSUME NEW c \in Sender, NEW k \in Keys, c \in Relay => k \in Members
  PROVE  LET d == Queued(c, k) IN
         /\ Kept(c, d) /\ d.out = c.out /\ d.dropped = c.dropped /\ d.slots = c.slots
         /\ \A l : Waits(d, l) <=> Waits(c, l) \/ l = k
         /\ Waits(c, k) => d = c
  <1> DEFINE d == Queued(c, k)
             q == Append(c.order, k)
  <1>1. CASE Waits(c, k)
    <2>1. d = c
      BY <1>1 DEF Queued
    <2> QED BY <1>1, <2>1, KeptIs
  <1>2. CASE ~Waits(c, k)
    <2>1. d = [c EXCEPT !.order = q]
      BY <1>2 DEF Queued
    <2>2. q \in Seq(Keys) /\ (c \in Relay => q \in Seq(Members))
      BY SenderIs
    <2>3. c.order \in Seq(Keys) /\ Len(c.order) \in Nat /\ DOMAIN c.order = 1..Len(c.order)
      BY SenderIs
    <2>4. DOMAIN q = 1..(Len(c.order) + 1) /\ q[Len(c.order) + 1] = k
          /\ \A i \in 1..Len(c.order) : q[i] = c.order[i]
      BY <2>3
    <2>5. \A j \in 1..(Len(c.order) + 1) : j \in 1..Len(c.order) \/ j = Len(c.order) + 1
      BY <2>3
    <2>6. Len(c.order) + 1 \in 1..(Len(c.order) + 1) /\ 1..Len(c.order) \subseteq 1..(Len(c.order) + 1)
      BY <2>3
    <2> HIDE DEF q, d
    <2>7. Kept(c, d) /\ d.out = c.out /\ d.dropped = c.dropped /\ d.slots = c.slots /\ d.order = q
      <3>1. CASE c \in Provider
        BY <2>1, <2>2, <3>1, SenderIs DEF Kept, Provider
      <3>2. CASE c \in Relay
        BY <2>1, <2>2, <3>2, SenderIs DEF Kept, Relay
      <3> QED BY <3>1, <3>2 DEF Sender
    <2>8. \A l : Waits(d, l) <=> Waits(c, l) \/ l = k
      BY <2>3, <2>4, <2>5, <2>6, <2>7 DEF Waits
    <2> QED BY <1>2, <2>7, <2>8 DEF d
  <1> QED BY <1>1, <1>2

\* A slot is filled.
LEMMA FillIs ==
  ASSUME NEW c \in Sender, NEW m \in Members, NEW s \in Slot
  PROVE  LET d == [c EXCEPT !.slots[m] = s] IN
         /\ Kept(c, d) /\ d.out = c.out /\ d.dropped = c.dropped /\ d.order = c.order
         /\ \A k \in Keys : d.slots[k] = IF k = m THEN s ELSE c.slots[k]
  <1> DEFINE t == [c.slots EXCEPT ![m] = s]
             d == [c EXCEPT !.slots = t]
  <1>1. m \in Keys
    BY DEF Keys
  <1>2. t \in [Keys -> Slot] /\ \A k \in Keys : t[k] = IF k = m THEN s ELSE c.slots[k]
    BY <1>1, SenderIs
  <1> HIDE DEF t
  <1>3. Kept(c, d) /\ d.out = c.out /\ d.dropped = c.dropped /\ d.order = c.order /\ d.slots = t
    <2>1. CASE c \in Provider
      BY <1>2, <2>1, SenderIs DEF Kept, Provider
    <2>2. CASE c \in Relay
      BY <1>2, <2>2, SenderIs DEF Kept, Relay
    <2> QED BY <2>1, <2>2 DEF Sender
  <1>4. [c EXCEPT !.slots[m] = s] = d
    BY DEF t
  <1> HIDE DEF d
  <1> QED BY <1>2, <1>3, <1>4

-----------------------------------------------------------------------------
(* What a sender's frames and then its slots make of what is known.           *)

Reach(c, m, hs, v) == After(Fold(Hearing(m, hs), c.out, v), m, c.slots[m])

LEMMA HeardState ==
  ASSUME NEW v \in Level, NEW m, NEW f \in Frame, f.t = "state"
  PROVE  Known(Heard(v, m, f)) <=> Known(v)
  <1>1. f.at \in Value /\ f.ops \in Seq(Edit) /\ Known(f.at)
    BY FrameIs, LevelIs
  <1>2. Known(v) => Known(Applied(v, f.ops))
    BY <1>1, AppliedIs DEF Level, Known, Unknown
  <1>3. Known(None)
    BY LevelIs
  <1> QED BY <1>1, <1>2, <1>3 DEF Heard

LEMMA AfterKnown ==
  ASSUME NEW v \in Level, NEW m \in Members, NEW slot \in Slot, NEW h, SlotFits(slot, m, h)
  PROVE  Known(After(v, m, slot)) <=> Known(v)
  <1> DEFINE f == State(0, m, "ops", None, slot.ops)
  <1>1. f \in Frame /\ f.t = "state"
    BY FrameMakes, LevelIs DEF Slot, State
  <1> HIDE DEF f
  <1>2. slot.base \in Frame
    BY DEF Slot
  <1>3. Based(v, m, slot) \in Level
    BY BasedIs
  <1>4. Known(Based(v, m, slot)) <=> Known(v)
    BY <1>2, HeardState DEF Based, SlotFits
  <1>5. Known(Heard(Based(v, m, slot), m, f)) <=> Known(Based(v, m, slot))
    BY <1>1, <1>3, HeardState
  <1> QED BY <1>4, <1>5 DEF After, f

LEMMA ReachIs ==
  ASSUME NEW c \in Sender, SlotsOK(c), NEW m \in Members, NEW hs, NEW v \in Level
  PROVE  /\ Fold(Hearing(m, hs), c.out, v) \in Level
         /\ Reach(c, m, hs, v) \in Level
         /\ Known(Reach(c, m, hs, v)) <=> Known(Fold(Hearing(m, hs), c.out, v))
         /\ c.slots[m] = Idle \/ c.slots[m] = Lazy =>
              Reach(c, m, hs, v) = Fold(Hearing(m, hs), c.out, v)
  <1>1. m \in Keys /\ c.slots[m] \in Slot /\ c.out \in Seq(Frame) /\ SlotFits(c.slots[m], m, c.hold)
    BY SenderIs DEF Keys, SlotsOK
  <1>2. Fold(Hearing(m, hs), c.out, v) \in Level
    BY <1>1, HearingStays
  <1> QED BY <1>1, <1>2, AfterIs, AfterKnown, IdleIs DEF Reach

LEMMA AppliedTwice ==
  ASSUME NEW v \in Value, NEW o \in Seq(Edit), NEW q \in Seq(Edit)
  PROVE  Applied(Applied(v, o), q) = Applied(v, o \o q)
  <1> DEFINE all == o \o q
             w == [s |-> v.s, n |-> v.n + Len(o)]
             Good(x, l) == \A i \in DOMAIN l : l[i] = [s |-> x.s, n |-> x.n + i]
  <1>1. /\ Len(o) \in Nat /\ Len(q) \in Nat /\ Len(all) = Len(o) + Len(q)
        /\ DOMAIN o = 1..Len(o) /\ DOMAIN q = 1..Len(q) /\ DOMAIN all = 1..(Len(o) + Len(q))
        /\ \A i \in 1..Len(o) : all[i] = o[i]
        /\ \A i \in 1..Len(q) : all[Len(o) + i] = q[i]
    OBVIOUS
  <1> HIDE DEF all
  <1>2. v.s \in Nat /\ v.n \in Nat /\ w.s = v.s /\ w.n = v.n + Len(o) /\ w.n \in Nat
    BY <1>1 DEF Value
  <1>3. \A i \in 1..(Len(o) + Len(q)) :
          i \in 1..Len(o) \/ (i - Len(o) \in 1..Len(q) /\ i = Len(o) + (i - Len(o)))
    BY <1>1
  <1>4. Good(v, all) <=> Good(v, o) /\ Good(w, q)
    <2>1. ASSUME Good(v, all) PROVE Good(v, o)
      BY <2>1, <1>1
    <2>2. ASSUME Good(v, all) PROVE Good(w, q)
      <3> SUFFICES ASSUME NEW i \in 1..Len(q) PROVE q[i] = [s |-> w.s, n |-> w.n + i]
        BY <1>1
      <3>1. Len(o) + i \in DOMAIN all
        BY <1>1
      <3>2. all[Len(o) + i] = [s |-> v.s, n |-> v.n + (Len(o) + i)]
        BY <2>2, <3>1
      <3>3. v.n + (Len(o) + i) = w.n + i
        BY <1>1, <1>2
      <3> QED BY <1>1, <1>2, <3>2, <3>3
    <2>3. ASSUME Good(v, o), Good(w, q) PROVE Good(v, all)
      <3> SUFFICES ASSUME NEW i \in 1..(Len(o) + Len(q)) PROVE all[i] = [s |-> v.s, n |-> v.n + i]
        BY <1>1
      <3>1. CASE i \in 1..Len(o)
        BY <3>1, <2>3, <1>1
      <3>2. CASE i - Len(o) \in 1..Len(q)
        <4> DEFINE j == i - Len(o)
        <4>1. i = Len(o) + j
          BY <1>1
        <4>2. q[j] = [s |-> w.s, n |-> w.n + j]
          BY <2>3, <3>2, <1>1
        <4>3. w.n + j = v.n + i
          BY <1>1, <1>2
        <4>4. all[Len(o) + j] = q[j]
          BY <3>2, <1>1
        <4> HIDE DEF j
        <4> QED BY <4>1, <4>2, <4>3, <4>4, <1>2
      <3> QED BY <3>1, <3>2, <1>3
    <2> QED BY <2>1, <2>2, <2>3
  <1>5. CASE Good(v, o)
    <2>1. Applied(v, o) = w
      BY <1>5 DEF Applied
    <2>2. Applied(w, q) = IF Good(w, q) THEN [s |-> w.s, n |-> w.n + Len(q)] ELSE Torn
      BY DEF Applied
    <2>3. Applied(v, all) = IF Good(v, all) THEN [s |-> v.s, n |-> v.n + Len(all)] ELSE Torn
      BY DEF Applied
    <2>4. w.n + Len(q) = v.n + Len(all)
      BY <1>1, <1>2
    <2> HIDE DEF Good
    <2>5. Applied(w, q) = Applied(v, all)
      BY <1>2, <1>4, <1>5, <2>2, <2>3, <2>4
    <2> QED BY <2>1, <2>5 DEF all
  <1>6. CASE ~Good(v, o)
    <2>1. Applied(v, o) = Torn /\ Applied(v, all) = Torn
      BY <1>4, <1>6 DEF Applied
    <2>2. Applied(Torn, q) = Torn
      <3>1. CASE q = <<>>
        BY <3>1 DEF Applied, Torn
      <3>2. CASE q # <<>>
        <4>1. 1 \in DOMAIN q /\ q[1] \in Edit
          BY <3>2, <1>1
        <4>2. q[1] # [s |-> Torn.s, n |-> Torn.n + 1]
          BY <4>1 DEF Edit, Torn
        <4> QED BY <4>1, <4>2 DEF Applied
      <3> QED BY <3>1, <3>2
    <2> QED BY <2>1, <2>2 DEF all
  <1> QED BY <1>5, <1>6

\* Operations that follow what waits, and a value that replaces it.
LEMMA AfterMore ==
  ASSUME NEW v \in Level, NEW m \in Members, NEW slot \in Slot, NEW f \in Frame,
         f.t = "state", f.m = m, NEW h, SlotFits(slot, m, h)
  PROVE  /\ f.as = "ops" => LET s == [base |-> slot.base, ops |-> slot.ops \o f.ops, lazy |-> slot.lazy]
                            IN After(v, m, s) = Heard(After(v, m, slot), m, f)
         /\ f.as # "ops" => After(v, m, Holding(f)) = Heard(After(v, m, slot), m, f)
  <1>1. Known(After(v, m, slot)) <=> Known(v)
    BY AfterKnown
  <1>2. ASSUME f.as # "ops" PROVE After(v, m, Holding(f)) = Heard(After(v, m, slot), m, f)
    <2>1. Holding(f).base = f /\ Holding(f).ops = <<>>
      BY DEF Holding
    <2>2. f # NoFrame
      BY DEF NoFrame, Shape
    <2>3. After(v, m, Holding(f)) = Heard(v, m, f)
      BY <2>1, <2>2 DEF After, Based
    <2>4. ~Known(v) => Heard(v, m, f) = Unknown /\ Heard(After(v, m, slot), m, f) = Unknown
      BY <1>1, LevelIs, AfterIs DEF Heard
    <2> QED BY <1>1, <1>2, <2>3, <2>4 DEF Heard
  <1>3. ASSUME f.as = "ops"
        PROVE  LET s == [base |-> slot.base, ops |-> slot.ops \o f.ops, lazy |-> slot.lazy]
               IN After(v, m, s) = Heard(After(v, m, slot), m, f)
    <2> DEFINE s == [base |-> slot.base, ops |-> slot.ops \o f.ops, lazy |-> slot.lazy]
               b == Based(v, m, slot)
               o == slot.ops
               q == f.ops
               all == o \o q
    <2>1. o \in Seq(Edit) /\ q \in Seq(Edit) /\ all \in Seq(Edit)
      BY FrameIs DEF Slot
    <2>2. b \in Level /\ (Known(b) <=> Known(v))
      <3>1. slot.base \in Frame
        BY DEF Slot
      <3> QED BY <3>1, BasedIs, HeardState DEF Based, SlotFits
    <2>3. Based(v, m, s) = b
      BY DEF Based
    <2>4. \A x \in Level : \A ops : Heard(x, m, State(0, m, "ops", None, ops)) =
            IF ~Known(x) \/ x \in {None, Failed} THEN x ELSE Applied(x, ops)
      BY DEF Heard, State
    <2>5. \A x \in Level : Heard(x, m, f) =
            IF ~Known(x) \/ x \in {None, Failed} THEN x ELSE Applied(x, q)
      BY <1>3 DEF Heard
    <2>6. After(v, m, s) = IF all = <<>> THEN b ELSE Heard(b, m, State(0, m, "ops", None, all))
      BY <2>3 DEF After
    <2>7. After(v, m, slot) = IF o = <<>> THEN b ELSE Heard(b, m, State(0, m, "ops", None, o))
      BY DEF After
    <2> HIDE DEF s, b, Heard
    <2>8. \A x \in Value : Applied(x, <<>>) = x
      BY DEF Applied, Value
    <2>9. all = <<>> => o = <<>> /\ q = <<>>
      BY <2>1
    <2>9a. o = <<>> => all = q
      BY <2>1
    <2>10. Known(b) => b \in Value
      BY <2>2, LevelIs DEF Level
    <2>11. Known(b) => Applied(Applied(b, o), q) = Applied(b, all)
      BY <2>1, <2>10, AppliedTwice
    <2>12. Known(b) /\ b \notin {None, Failed} =>
             /\ Applied(b, o) \notin {None, Failed} /\ Known(Applied(b, o))
             /\ Applied(b, o) \in Level
      BY <2>1, <2>10, AppliedIs, LevelIs
    <2> HIDE DEF all, o, q
    <2>13. CASE ~Known(b) \/ b \in {None, Failed}
      <3>1. After(v, m, s) = b /\ After(v, m, slot) = b /\ Heard(b, m, f) = b
        BY <2>2, <2>4, <2>5, <2>6, <2>7, <2>13
      <3> QED BY <3>1 DEF s
    <2>14. CASE Known(b) /\ b \notin {None, Failed}
      <3>1. After(v, m, slot) = Applied(b, o)
        BY <2>2, <2>4, <2>7, <2>8, <2>10, <2>14
      <3>2. After(v, m, s) = Applied(b, all)
        BY <2>2, <2>4, <2>6, <2>8, <2>10, <2>14
      <3>3. Heard(Applied(b, o), m, f) = Applied(Applied(b, o), q)
        BY <2>5, <2>12, <2>14
      <3>4. After(v, m, s) = Heard(After(v, m, slot), m, f)
        BY <3>1, <3>2, <3>3, <2>11, <2>14
      <3> QED BY <3>4 DEF s
    <2> QED BY <2>13, <2>14 DEF s, all, o, q
  <1> QED BY <1>2, <1>3

-----------------------------------------------------------------------------
(* What a view reads.  A member that is known has a value or is absent, at    *)
(* the place of the last value it had; a frame that no longer fits, since its *)
(* operations apply to another value or its own value is an older one, makes  *)
(* it Unknown.                                                                *)

Absent(n) == [s |-> 0, n |-> n]
Joined(v, ops) == IF Applied(v, ops) = Torn THEN Unknown ELSE Applied(v, ops)
Told(v, m, f) ==
  IF f.t = "shape" \/ f.m # m \/ ~Known(v) THEN v
  ELSE IF f.as = "error" THEN Absent(v.n)
  ELSE IF f.as # "ops" THEN IF f.at.n < v.n THEN Unknown ELSE f.at
  ELSE IF v.s = 0 THEN v ELSE Joined(v, f.ops)
Telling(m, hs) ==
  [p \in Level \X Frame |-> IF p[2].h \in hs THEN Told(p[1], m, p[2]) ELSE p[1]]
Put(v, m, slot) == IF slot.base = NoFrame THEN v ELSE Told(v, m, slot.base)
Then(v, m, slot) ==
  IF slot.ops = <<>> THEN Put(v, m, slot)
  ELSE Told(Put(v, m, slot), m, State(0, m, "ops", None, slot.ops))
Trail(c, m, hs, v) == Then(Fold(Telling(m, hs), c.out, v), m, c.slots[m])

\* What fits v fits w; a value that fits v comes later than it.
Bears(v, w) == v = w \/ ~Known(v) \/ (w.s = 0 /\ w.n <= v.n)
Later(v, w) == Known(w) => Known(v) /\ v.n <= w.n
BearsPairs == {p \in Level \X Level : Bears(p[1], p[2])}

LEMMA JoinedIs ==
  ASSUME NEW v \in Value, v.s # 0, NEW ops \in Seq(Edit)
  PROVE  /\ Joined(v, ops) \in Level /\ Later(v, Joined(v, ops))
         /\ Known(Joined(v, ops)) => Joined(v, ops) = Applied(v, ops) /\ Joined(v, ops).s = v.s
         /\ ~Known(Joined(v, ops)) <=> Applied(v, ops) = Torn
         /\ Joined(v, <<>>) = v
  <1>1. Len(ops) \in Nat /\ v.s \in Nat /\ v.n \in Nat
    BY DEF Value
  <1>2. Applied(v, <<>>) = v /\ v # Torn
    BY <1>1 DEF Applied, Value, Torn
  <1>3. CASE \A i \in DOMAIN ops : ops[i] = [s |-> v.s, n |-> v.n + i]
    <2>1. Applied(v, ops) = [s |-> v.s, n |-> v.n + Len(ops)]
      BY <1>3 DEF Applied
    <2>2. Applied(v, ops) # Torn /\ Applied(v, ops) \in Value
      BY <1>1, <2>1 DEF Torn, Value
    <2>3. Joined(v, ops) = [s |-> v.s, n |-> v.n + Len(ops)] /\ Joined(v, <<>>) = v
      BY <1>2, <2>1, <2>2 DEF Joined
    <2> QED BY <1>1, <2>1, <2>2, <2>3 DEF Level, Later, Known
  <1>4. CASE ~\A i \in DOMAIN ops : ops[i] = [s |-> v.s, n |-> v.n + i]
    <2>1. Applied(v, ops) = Torn
      BY <1>4 DEF Applied
    <2>2. Joined(v, ops) = Unknown /\ Joined(v, <<>>) = v
      BY <1>2, <2>1 DEF Joined
    <2> QED BY <2>1, <2>2, LevelIs DEF Later
  <1> QED BY <1>3, <1>4

LEMMA JoinedTwice ==
  ASSUME NEW v \in Value, v.s # 0, NEW o \in Seq(Edit), NEW q \in Seq(Edit)
  PROVE  Joined(v, o \o q) = IF Known(Joined(v, o)) THEN Joined(Joined(v, o), q) ELSE Unknown
  <1>1. Applied(Applied(v, o), q) = Applied(v, o \o q) /\ o \o q \in Seq(Edit)
    BY AppliedTwice
  <1>2. CASE Known(Joined(v, o))
    BY <1>1, <1>2, JoinedIs DEF Joined
  <1>3. CASE ~Known(Joined(v, o))
    <2>1. Applied(v, o) = Torn
      BY <1>3, JoinedIs
    <2>2. Applied(Torn, q) = Torn
      <3>1. CASE q = <<>>
        BY <3>1 DEF Applied, Torn
      <3>2. CASE q # <<>>
        <4>1. 1 \in DOMAIN q /\ q[1] \in Edit
          BY <3>2
        <4>2. q[1] # [s |-> Torn.s, n |-> Torn.n + 1]
          BY <4>1 DEF Edit, Torn
        <4> QED BY <4>1, <4>2 DEF Applied
      <3> QED BY <3>1, <3>2
    <2> QED BY <1>1, <1>3, <2>1, <2>2 DEF Joined
  <1> QED BY <1>2, <1>3

LEMMA AbsentIs ==
  ASSUME NEW n \in Nat
  PROVE  /\ Absent(n) \in Level /\ Absent(n) \in Value /\ Known(Absent(n))
         /\ Absent(n).s = 0 /\ Absent(n).n = n
  BY DEF Absent, Level, Value, Known

LEMMA ToldIs ==
  ASSUME NEW v \in Level, NEW m, NEW f \in Frame
  PROVE  /\ Told(v, m, f) \in Level /\ Later(v, Told(v, m, f))
         /\ f.t = "shape" \/ f.m # m \/ ~Known(v) => Told(v, m, f) = v
  <1>1. f.at \in Value /\ f.ops \in Seq(Edit) /\ Known(f.at) /\ f.at \in Level
    BY FrameIs, LevelIs
  <1>2. v.n \in Nat /\ f.at.n \in Nat
    BY <1>1 DEF Level, Value, Unknown
  <1>3. CASE f.t = "shape" \/ f.m # m \/ ~Known(v)
    BY <1>2, <1>3 DEF Told, Later
  <1>3a. CASE ~(f.t = "shape" \/ f.m # m \/ ~Known(v)) /\ f.as = "error"
    <2>1. Told(v, m, f) = Absent(v.n)
      BY <1>3a DEF Told
    <2> QED BY <1>2, <1>3a, <2>1, AbsentIs DEF Later
  <1>4. CASE ~(f.t = "shape" \/ f.m # m \/ ~Known(v)) /\ f.as \notin {"ops", "error"}
    <2>1. Told(v, m, f) = IF f.at.n < v.n THEN Unknown ELSE f.at
      BY <1>4 DEF Told
    <2> QED BY <1>1, <1>2, <1>4, <2>1, LevelIs DEF Later
  <1>5. CASE ~(f.t = "shape" \/ f.m # m \/ ~Known(v)) /\ f.as = "ops"
    <2>1. Told(v, m, f) = IF v.s = 0 THEN v ELSE Joined(v, f.ops)
      BY <1>5 DEF Told
    <2>2. v \in Value
      BY <1>5, LevelIs DEF Level
    <2>3. v.s # 0 => Joined(v, f.ops) \in Level /\ Later(v, Joined(v, f.ops))
      BY <1>1, <2>2, JoinedIs
    <2> QED BY <1>2, <1>5, <2>1, <2>3 DEF Later
  <1> QED BY <1>3, <1>3a, <1>4, <1>5

LEMMA LaterIs ==
  /\ \A v \in Level : Later(v, v)
  /\ \A v \in Level : \A w \in Level : \A x \in Level : Later(v, w) /\ Later(w, x) => Later(v, x)
  BY DEF Later, Level, Value, Unknown

LEMMA ToldMore ==
  ASSUME NEW v \in Level, NEW w \in Level, NEW m, NEW f \in Frame, Bears(v, w)
  PROVE  Bears(Told(v, m, f), Told(w, m, f))
  <1>1. CASE v = w \/ ~Known(Told(v, m, f))
    BY <1>1 DEF Bears
  <1>2. CASE v # w /\ Known(Told(v, m, f))
    <2>1. Known(v) /\ v.n <= Told(v, m, f).n
      BY <1>2, ToldIs DEF Later
    <2>2. w.s = 0 /\ w.n <= v.n /\ Known(w)
      BY <1>2, <2>1 DEF Bears, Known
    <2>3. v.n \in Nat /\ w.n \in Nat /\ Told(v, m, f).n \in Nat
      BY ToldIs DEF Level, Value, Unknown
    <2>4. CASE f.t = "shape" \/ f.m # m \/ f.as = "ops"
      <3>1. Told(w, m, f) = w
        BY <2>2, <2>4 DEF Told
      <3> QED BY <2>1, <2>2, <2>3, <3>1 DEF Bears
    <2>4a. CASE ~(f.t = "shape" \/ f.m # m) /\ f.as = "error"
      <3>1. Told(v, m, f) = Absent(v.n) /\ Told(w, m, f) = Absent(w.n)
        BY <2>1, <2>2, <2>4a DEF Told
      <3> QED BY <2>2, <2>3, <3>1, AbsentIs DEF Bears
    <2>5. CASE ~(f.t = "shape" \/ f.m # m) /\ f.as \notin {"ops", "error"}
      <3>1. Told(v, m, f) = IF f.at.n < v.n THEN Unknown ELSE f.at
        BY <2>1, <2>5 DEF Told
      <3>2. ~(f.at.n < v.n) /\ f.at.n \in Nat
        BY <1>2, <3>1, LevelIs, FrameIs DEF Value
      <3>3. ~(f.at.n < w.n)
        BY <2>2, <2>3, <3>2
      <3>4. Told(w, m, f) = f.at
        BY <2>2, <2>5, <3>3 DEF Told
      <3> QED BY <3>1, <3>2, <3>4 DEF Bears
    <2> QED BY <2>4, <2>4a, <2>5
  <1> QED BY <1>1, <1>2

LEMMA TellingAt ==
  ASSUME NEW m, NEW hs, NEW v \in Level, NEW f \in Frame
  PROVE  /\ Telling(m, hs)[<<v, f>>] = IF f.h \in hs THEN Told(v, m, f) ELSE v
         /\ Telling(m, hs)[<<v, f>>] \in Level
  <1> DEFINE p == <<v, f>>
  <1>1. p \in Level \X Frame /\ p[1] = v /\ p[2] = f
    OBVIOUS
  <1> HIDE DEF p
  <1>2. Telling(m, hs)[p] = IF p[2].h \in hs THEN Told(p[1], m, p[2]) ELSE p[1]
    BY <1>1 DEF Telling
  <1> QED BY <1>1, <1>2, ToldIs DEF p

LEMMA TellingIs ==
  ASSUME NEW q \in Seq(Frame), NEW m, NEW hs, NEW v \in Level
  PROVE  Fold(Telling(m, hs), q, v) \in Level /\ Later(v, Fold(Telling(m, hs), q, v))
  <1> DEFINE S == {x \in Level : Later(v, x)}
  <1>1. ASSUME NEW x \in S, NEW y \in Frame PROVE Telling(m, hs)[<<x, y>>] \in S
    <2>1. x \in Level /\ Later(v, x)
      OBVIOUS
    <2>2. /\ Telling(m, hs)[<<x, y>>] = IF y.h \in hs THEN Told(x, m, y) ELSE x
          /\ Told(x, m, y) \in Level /\ Later(x, Told(x, m, y))
      BY <2>1, TellingAt, ToldIs
    <2> QED BY <2>1, <2>2, LaterIs
  <1>2. v \in S
    BY LaterIs
  <1> HIDE DEF S
  <1>3. Fold(Telling(m, hs), q, v) \in S
    BY <1>1, <1>2, FoldStays
  <1> QED BY <1>3 DEF S

LEMMA TellingMore ==
  ASSUME NEW q \in Seq(Frame), NEW m, NEW hs, NEW v \in Level, NEW w \in Level, Bears(v, w)
  PROVE  Bears(Fold(Telling(m, hs), q, v), Fold(Telling(m, hs), q, w))
  <1> DEFINE x == Fold(Telling(m, hs), q, v)
             y == Fold(Telling(m, hs), q, w)
  <1>1. ASSUME NEW p \in BearsPairs, NEW f \in Frame
        PROVE  <<Telling(m, hs)[<<p[1], f>>], Telling(m, hs)[<<p[2], f>>]>> \in BearsPairs
    <2>1. p[1] \in Level /\ p[2] \in Level /\ Bears(p[1], p[2])
      BY <1>1 DEF BearsPairs
    <2>2. Bears(Told(p[1], m, f), Told(p[2], m, f))
      BY <2>1, ToldMore
    <2>3. /\ Telling(m, hs)[<<p[1], f>>] = IF f.h \in hs THEN Told(p[1], m, f) ELSE p[1]
          /\ Telling(m, hs)[<<p[2], f>>] = IF f.h \in hs THEN Told(p[2], m, f) ELSE p[2]
          /\ Telling(m, hs)[<<p[1], f>>] \in Level /\ Telling(m, hs)[<<p[2], f>>] \in Level
      BY <2>1, TellingAt
    <2> QED BY <2>1, <2>2, <2>3 DEF BearsPairs
  <1>2. <<v, w>> \in BearsPairs
    BY DEF BearsPairs
  <1>3. <<x, y>> \in BearsPairs
    BY <1>1, <1>2, FoldTwo
  <1> QED BY <1>3 DEF BearsPairs

LEMMA PutIs ==
  ASSUME NEW slot \in Slot, NEW m, NEW v \in Level
  PROVE  /\ Put(v, m, slot) \in Level /\ Later(v, Put(v, m, slot))
         /\ \A w \in Level : Bears(v, w) => Bears(Put(v, m, slot), Put(w, m, slot))
  <1>1. slot.base \in Frame
    BY DEF Slot
  <1> QED BY <1>1, ToldIs, ToldMore, LaterIs DEF Put

LEMMA ThenIs ==
  ASSUME NEW slot \in Slot, NEW m \in Members, NEW v \in Level
  PROVE  /\ Then(v, m, slot) \in Level /\ Later(v, Then(v, m, slot))
         /\ \A w \in Level : Bears(v, w) => Bears(Then(v, m, slot), Then(w, m, slot))
         /\ slot = Idle \/ slot = Lazy => Then(v, m, slot) = v
  <1> DEFINE f == State(0, m, "ops", None, slot.ops)
  <1>1. f \in Frame
    BY FrameMakes, LevelIs DEF Slot
  <1> HIDE DEF f
  <1>2. /\ Put(v, m, slot) \in Level /\ Later(v, Put(v, m, slot))
        /\ \A w \in Level : Bears(v, w) => Bears(Put(v, m, slot), Put(w, m, slot))
        /\ \A w \in Level : Put(w, m, slot) \in Level
    BY PutIs
  <1>3. /\ Told(Put(v, m, slot), m, f) \in Level /\ Later(Put(v, m, slot), Told(Put(v, m, slot), m, f))
        /\ Later(v, Told(Put(v, m, slot), m, f))
    BY <1>1, <1>2, ToldIs, LaterIs
  <1>4. ASSUME NEW w \in Level, Bears(v, w)
        PROVE  Bears(Told(Put(v, m, slot), m, f), Told(Put(w, m, slot), m, f))
    BY <1>1, <1>2, <1>4, ToldMore
  <1>5. slot = Idle \/ slot = Lazy => Then(v, m, slot) = v
    BY DEF Then, Put, Idle, Lazy, Holding
  <1> QED BY <1>2, <1>3, <1>4, <1>5 DEF Then, f

LEMMA ThenMore ==
  ASSUME NEW v \in Level, NEW m \in Members, NEW slot \in Slot, NEW f \in Frame,
         f.t = "state", f.m = m, NEW s,
         s = IF f.as = "ops"
             THEN [base |-> slot.base, ops |-> slot.ops \o f.ops, lazy |-> slot.lazy]
             ELSE Holding(f)
  PROVE  Bears(Told(Then(v, m, slot), m, f), Then(v, m, s))
  <1> DEFINE x == Then(v, m, slot)
  <1>1. x \in Level /\ Later(v, x)
    BY ThenIs
  <1>2. CASE f.as # "ops"
    <2>1. s.base = f /\ s.ops = <<>>
      BY <1>2 DEF Holding
    <2>2. f # NoFrame
      BY DEF NoFrame, Shape
    <2>3. Then(v, m, s) = Told(v, m, f)
      BY <2>1, <2>2 DEF Then, Put
    <2> HIDE DEF x
    <2>3a. CASE f.as = "error"
      <3>1. CASE ~Known(x)
        <4>1. ~Known(Told(x, m, f))
          BY <1>1, <3>1, ToldIs
        <4> QED BY <4>1 DEF Bears, x
      <3>2. CASE Known(x)
        <4>1. Known(v) /\ v.n <= x.n
          BY <1>1, <3>2 DEF Later
        <4>2. v.n \in Nat /\ x.n \in Nat
          BY <1>1 DEF Level, Value, Unknown
        <4>3. Told(x, m, f) = Absent(x.n) /\ Told(v, m, f) = Absent(v.n)
          BY <2>3a, <3>2, <4>1 DEF Told
        <4> QED BY <2>3, <4>1, <4>2, <4>3, AbsentIs DEF Bears, x
      <3> QED BY <3>1, <3>2
    <2>4. CASE f.as # "error" /\ Known(Told(x, m, f))
      <3>1. Known(x) /\ Known(v) /\ v.n <= x.n
        BY <1>1, <2>4, ToldIs DEF Later
      <3>2. Told(x, m, f) = f.at /\ ~(f.at.n < x.n)
        BY <1>2, <2>4, <3>1, LevelIs DEF Told
      <3>3. v.n \in Nat /\ x.n \in Nat /\ f.at.n \in Nat
        BY <1>1, FrameIs DEF Level, Value, Unknown
      <3>4. ~(f.at.n < v.n)
        BY <3>1, <3>2, <3>3
      <3>5. Told(v, m, f) = f.at
        BY <1>2, <2>4, <3>1, <3>4 DEF Told
      <3> QED BY <2>3, <3>2, <3>5 DEF Bears, x
    <2> QED BY <2>3a, <2>4 DEF Bears, x
  <1>3. CASE f.as = "ops"
    <2> DEFINE b == Put(v, m, slot)
               o == slot.ops
               q == f.ops
               all == o \o q
    <2>1. o \in Seq(Edit) /\ q \in Seq(Edit) /\ all \in Seq(Edit)
      BY FrameIs DEF Slot
    <2>2. b \in Level
      BY PutIs
    <2>3. Put(v, m, s) = b /\ s.ops = all
      BY <1>3 DEF Put
    <2>4. \A y \in Level : \A ops : Told(y, m, State(0, m, "ops", None, ops)) =
            IF ~Known(y) THEN y ELSE IF y.s = 0 THEN y ELSE Joined(y, ops)
      BY DEF Told, State
    <2>5. \A y \in Level : Told(y, m, f) =
            IF ~Known(y) THEN y ELSE IF y.s = 0 THEN y ELSE Joined(y, q)
      BY <1>3 DEF Told
    <2>6. Then(v, m, s) = IF all = <<>> THEN b ELSE Told(b, m, State(0, m, "ops", None, all))
      BY <2>3 DEF Then
    <2>7. x = IF o = <<>> THEN b ELSE Told(b, m, State(0, m, "ops", None, o))
      BY DEF Then
    <2> HIDE DEF x, b, Told
    <2>8. all = <<>> => o = <<>> /\ q = <<>>
      BY <2>1
    <2>9. CASE ~Known(b) \/ b.s = 0
      <3>1. Then(v, m, s) = b /\ x = b /\ Told(b, m, f) = b
        BY <2>2, <2>4, <2>5, <2>6, <2>7, <2>9
      <3> QED BY <3>1 DEF x, Bears
    <2>10. CASE Known(b) /\ b.s # 0
      <3>1. b \in Value
        BY <2>2, <2>10, LevelIs DEF Level
      <3>2. Joined(b, <<>>) = b
        BY <2>1, <2>10, <3>1, JoinedIs
      <3> HIDE DEF all
      <3>3. x = Joined(b, o)
        BY <2>2, <2>4, <2>7, <2>10, <3>2
      <3>4. Then(v, m, s) = Joined(b, all)
        BY <2>2, <2>4, <2>6, <2>10, <3>2
      <3> HIDE DEF o, q
      <3>5. Joined(b, all) = IF Known(Joined(b, o)) THEN Joined(Joined(b, o), q) ELSE Unknown
        BY <2>1, <2>10, <3>1, JoinedTwice DEF all
      <3>6. Joined(b, o) \in Level /\ (Known(Joined(b, o)) => Joined(b, o).s # 0)
        BY <2>1, <2>10, <3>1, JoinedIs
      <3>7. Told(x, m, f) = Joined(b, all)
        BY <2>5, <3>3, <3>5, <3>6, LevelIs
      <3> QED BY <3>4, <3>7 DEF x, Bears
    <2> QED BY <2>9, <2>10
  <1> QED BY <1>2, <1>3

-----------------------------------------------------------------------------
(* Streams that are dropped to make room, and frames that are sent.           *)

\* The streams K of c were dropped.
Gone(c, d, K) ==
  /\ Kept(c, d) /\ d.out = c.out
  /\ \A k \in Keys : d.slots[k] = IF k \notin K THEN c.slots[k] ELSE IF c.provides THEN Lazy ELSE Idle
  /\ ~c.provides => d.dropped = c.dropped \cup K
Dropped(c, d, K) ==
  /\ Gone(c, d, K)
  /\ \A k : Waits(d, k) <=> Waits(c, k) /\ (k \in K => c.provides)

LEMMA DropIs ==
  ASSUME NEW c \in Sender, NEW K \in SUBSET Members PROVE Dropped(c, Drop(c, K), K)
  <1>1. CASE c.provides
    <2> DEFINE s == [k \in Keys |-> IF k \in K THEN Lazy ELSE c.slots[k]]
               d == [c EXCEPT !.slots = s]
    <2>1. c \in Provider
      BY <1>1, SenderIs
    <2>2. s \in [Keys -> Slot] /\ \A k \in Keys : s[k] = IF k \in K THEN Lazy ELSE c.slots[k]
      BY SenderIs, IdleIs
    <2>3. Drop(c, K) = d
      BY <1>1 DEF Drop
    <2> HIDE DEF s
    <2>4. Kept(c, d) /\ d.out = c.out /\ d.slots = s /\ d.order = c.order
      BY <2>1, <2>2, SenderIs DEF Kept, Provider
    <2> HIDE DEF d
    <2>5. \A k : Waits(d, k) <=> Waits(c, k)
      BY <2>4 DEF Waits
    <2> QED BY <1>1, <2>2, <2>3, <2>4, <2>5 DEF Dropped, Gone
  <1>2. CASE ~c.provides
    <2> DEFINE e == Forget(c, K)
               d == [e EXCEPT !.dropped = @ \cup K]
    <2>1. c \in Relay
      BY <1>2, SenderIs
    <2>2. Drop(c, K) = d
      BY <1>2 DEF Drop
    <2>3. /\ Kept(c, e) /\ e.out = c.out /\ e.dropped = c.dropped
          /\ \A k \in Keys : e.slots[k] = IF k \in K THEN Idle ELSE c.slots[k]
          /\ \A k : Waits(e, k) <=> Waits(c, k) /\ k \notin K
      BY ForgetIs
    <2>4. e \in Relay
      BY <2>1, <2>3 DEF Kept
    <2> HIDE DEF e
    <2>5. /\ Kept(e, d) /\ d.out = e.out /\ d.slots = e.slots /\ d.order = e.order
          /\ d.dropped = e.dropped \cup K
      BY <2>4, SenderIs DEF Kept, Relay, Sender
    <2> HIDE DEF d
    <2>6. Kept(c, d)
      BY <2>3, <2>5, KeptIs
    <2>7. \A k : Waits(d, k) <=> Waits(e, k)
      BY <2>5 DEF Waits
    <2> QED BY <1>2, <2>2, <2>3, <2>5, <2>6, <2>7 DEF Dropped, Gone
  <1> QED BY <1>1, <1>2

LEMMA DroppedTwice ==
  ASSUME NEW c \in Sender, NEW d, NEW e, NEW K \in SUBSET Members, NEW L \in SUBSET Members,
         Dropped(c, d, K), Dropped(d, e, L)
  PROVE  Dropped(c, e, K \cup L)
  <1>1. Kept(c, d) /\ Kept(d, e) /\ d \in Sender
    BY KeptIs DEF Dropped, Gone
  <1>2. d.provides <=> c.provides
    BY <1>1, SenderIs DEF Kept
  <1> QED BY <1>1, <1>2, KeptIs DEF Dropped, Gone

LEMMA DroppedOK ==
  ASSUME NEW c \in Sender, SlotsOK(c), NEW K \in SUBSET Members, NEW d, Dropped(c, d, K),
         \A k \in K : Waits(c, k)
  PROVE  d \in Sender /\ SlotsOK(d)
  <1>1. Gone(c, d, K) /\ Kept(c, d)
    BY DEF Dropped, Gone
  <1>2. d \in Sender /\ d.hold = c.hold
    BY <1>1, KeptIs DEF Kept
  <1>3. /\ \A k \in Keys : d.slots[k] = IF k \notin K THEN c.slots[k] ELSE IF c.provides THEN Lazy ELSE Idle
        /\ \A k : Waits(d, k) <=> Waits(c, k) /\ (k \in K => c.provides)
    BY DEF Dropped, Gone
  <1>4. "unit" \in Keys /\ "unit" \notin K
    BY MembersAssumption DEF Keys
  <1>5. \A m \in Members : m \in Keys
    BY DEF Keys
  <1>6. \A k \in Keys : d.slots[k] # Idle => Waits(d, k)
    BY <1>3 DEF SlotsOK
  <1>7. d.slots["unit"] = Idle
    BY <1>3, <1>4 DEF SlotsOK
  <1>8. ASSUME NEW m \in Members
        PROVE  SlotFits(d.slots[m], m, d.hold) /\ (d.slots[m].lazy => d.slots[m] = Lazy)
    <2>1. d.slots[m] = c.slots[m] \/ d.slots[m] = Lazy \/ d.slots[m] = Idle
      BY <1>3, <1>5
    <2> QED BY <1>2, <2>1, IdleIs DEF SlotsOK
  <1> QED BY <1>2, <1>6, <1>7, <1>8 DEF SlotsOK

LEMMA MakeRoomIs ==
  ASSUME NEW c \in Sender, SlotsOK(c), NEW m \in Members, Waits(c, m), NEW size
  PROVE  \E K \in SUBSET Members : /\ Dropped(c, MakeRoom(c, size, m), K)
                                  /\ \A k \in K : Waits(c, k) /\ (c.slots[k] # Idle \/ k = m)
  <1> DEFINE n == Len(c.order)
             Old(i) == {k \in Members \ {m} : c.slots[k].ops # <<>> /\ \E j \in 1..i : c.order[j] = k}
             oldest == [i \in 0..n |-> Drop(c, Old(i))]
             enough == {i \in DOMAIN oldest : WaitingOps(oldest[i]) + size <= PendingCap}
  <1>1. n \in Nat
    BY SenderIs
  <1>2. \A i \in 0..n : oldest[i] = Drop(c, Old(i))
    OBVIOUS
  <1>3. enough \subseteq Nat /\ enough \subseteq 0..n
    OBVIOUS
  <1>4. MakeRoom(c, size, m) = IF enough # {} THEN oldest[Min(enough)] ELSE Drop(oldest[n], {m})
    BY DEF MakeRoom
  <1> HIDE DEF oldest, enough
  <1>5. ASSUME NEW i \in 0..n
        PROVE  /\ Old(i) \in SUBSET Members /\ Dropped(c, oldest[i], Old(i))
               /\ \A k \in Old(i) : Waits(c, k) /\ c.slots[k] # Idle
    <2>1. Old(i) \in SUBSET Members
      OBVIOUS
    <2>2. \A k \in Old(i) : k \in Keys /\ c.slots[k] # Idle
      BY DEF Keys, Idle, Holding
    <2>3. \A k \in Old(i) : Waits(c, k)
      BY <2>2 DEF SlotsOK
    <2> HIDE DEF Old
    <2> QED BY <2>1, <2>2, <2>3, <1>2, DropIs
  <1> HIDE DEF Old
  <1>6. CASE enough # {}
    <2>1. PICK x \in enough : \A y \in enough : x <= y
      BY <1>3, <1>6, LeastPlace
    <2>2. Min(enough) \in enough
      BY <2>1 DEF Min
    <2>3. Min(enough) \in 0..n
      BY <1>3, <2>2
    <2> QED BY <1>4, <1>5, <1>6, <2>3
  <1>7. CASE enough = {}
    <2>1. n \in 0..n
      BY <1>1
    <2>2. Dropped(c, oldest[n], Old(n)) /\ Old(n) \in SUBSET Members
      BY <1>5, <2>1
    <2>3. oldest[n] \in Sender
      BY <2>2, KeptIs DEF Dropped, Gone
    <2>4. Dropped(oldest[n], Drop(oldest[n], {m}), {m})
      BY <2>3, DropIs
    <2>5. Dropped(c, Drop(oldest[n], {m}), Old(n) \cup {m})
      BY <2>2, <2>4, DroppedTwice
    <2>6. \A k \in Old(n) \cup {m} : Waits(c, k) /\ (c.slots[k] # Idle \/ k = m)
      BY <1>5, <2>1
    <2> QED BY <1>4, <1>7, <2>2, <2>5, <2>6
  <1> QED BY <1>6, <1>7

\* Frames that are sent are told after what was sent before.
LEMMA FoldTold ==
  ASSUME NEW c \in Sender, NEW f \in Frame, NEW m, NEW hs, NEW v \in Level
  PROVE  Fold(Telling(m, hs), Append(c.out, f), v) =
           IF f.h \in hs THEN Told(Fold(Telling(m, hs), c.out, v), m, f)
           ELSE Fold(Telling(m, hs), c.out, v)
  <1>1. c.out \in Seq(Frame)
    BY SenderIs
  <1>2. Fold(Telling(m, hs), c.out, v) \in Level
    BY <1>1, TellingIs
  <1>3. Fold(Telling(m, hs), Append(c.out, f), v) = Telling(m, hs)[<<Fold(Telling(m, hs), c.out, v), f>>]
    BY <1>1, FoldAppend
  <1> QED BY <1>2, <1>3, TellingAt

LEMMA TrailIs ==
  ASSUME NEW c \in Sender, NEW m \in Members, NEW hs, NEW v \in Level
  PROVE  /\ Fold(Telling(m, hs), c.out, v) \in Level /\ Trail(c, m, hs, v) \in Level
         /\ Later(v, Trail(c, m, hs, v)) /\ Later(Fold(Telling(m, hs), c.out, v), Trail(c, m, hs, v))
         /\ c.slots[m] = Idle \/ c.slots[m] = Lazy =>
              Trail(c, m, hs, v) = Fold(Telling(m, hs), c.out, v)
         /\ \A w \in Level : Bears(v, w) => Bears(Trail(c, m, hs, v), Trail(c, m, hs, w))
  <1>1. m \in Keys /\ c.slots[m] \in Slot /\ c.out \in Seq(Frame)
    BY SenderIs DEF Keys
  <1>2. /\ Fold(Telling(m, hs), c.out, v) \in Level /\ Later(v, Fold(Telling(m, hs), c.out, v))
        /\ \A w \in Level : Fold(Telling(m, hs), c.out, w) \in Level
        /\ \A w \in Level : Bears(v, w) =>
             Bears(Fold(Telling(m, hs), c.out, v), Fold(Telling(m, hs), c.out, w))
    BY <1>1, TellingIs, TellingMore
  <1> QED BY <1>1, <1>2, ThenIs, LaterIs DEF Trail

\* What d carries is what c does and the frame f, without some of what waited in K.
Carries(c, d, f, K) ==
  \A hs : \A v \in Level : \A m \in Members :
    c.hold \in hs =>
      /\ m \in K => Later(Trail(d, m, hs, v), Trail(c, m, hs, v))
      /\ m \notin K => IF m = f.m THEN Bears(Told(Trail(c, m, hs, v), m, f), Trail(d, m, hs, v))
                       ELSE Trail(d, m, hs, v) = Trail(c, m, hs, v)

\* Where the frame f is: sent, in its slot, or gone with K.
Placed(c, d, f, K) ==
  /\ \A m \in Members \ (K \cup {f.m}) : d.slots[m] = c.slots[m]
  /\ \A m \in K : d.slots[m] = Idle \/ d.slots[m] = Lazy
  /\ \/ /\ f.m \notin K /\ d.out = Append(c.out, f)
        /\ d.slots[f.m] = Idle /\ c.slots[f.m] = Idle
     \/ /\ f.m \notin K /\ d.out = c.out
        /\ d.slots[f.m] = IF f.as = "ops"
                          THEN [base |-> c.slots[f.m].base, ops |-> c.slots[f.m].ops \o f.ops,
                                lazy |-> c.slots[f.m].lazy]
                          ELSE Holding(f)
     \/ f.m \in K /\ d.out = c.out

LEMMA CarriesIs ==
  ASSUME NEW c \in Sender, NEW d \in Sender, NEW f \in Frame, f.t = "state", f.h = c.hold,
         NEW K \in SUBSET Members,
         Placed(c, d, f, K)
  PROVE  Carries(c, d, f, K)
  <1> SUFFICES ASSUME NEW hs, NEW v \in Level, NEW m \in Members, c.hold \in hs
               PROVE  /\ m \in K => Later(Trail(d, m, hs, v), Trail(c, m, hs, v))
                      /\ m \notin K => IF m = f.m THEN Bears(Told(Trail(c, m, hs, v), m, f), Trail(d, m, hs, v))
                                       ELSE Trail(d, m, hs, v) = Trail(c, m, hs, v)
    BY DEF Carries
  <1> DEFINE x == Fold(Telling(m, hs), c.out, v)
             y == Fold(Telling(m, hs), d.out, v)
  <1>1. /\ x \in Level /\ Trail(c, m, hs, v) = Then(x, m, c.slots[m])
        /\ y \in Level /\ Trail(d, m, hs, v) = Then(y, m, d.slots[m])
        /\ c.slots[m] \in Slot /\ Later(x, Trail(c, m, hs, v))
    BY TrailIs, SenderIs DEF Trail, Keys
  <1>2. Fold(Telling(m, hs), Append(c.out, f), v) = Told(x, m, f)
    BY FoldTold
  <1>3. m # f.m => y = x
    <2>1. m # f.m => Told(x, m, f) = x
      BY <1>1, ToldIs
    <2> QED BY <1>2, <2>1 DEF Placed
  <1>4. f.m \in K => y = x
    BY DEF Placed
  <1> HIDE DEF x, y
  <1>5. ASSUME m \in K PROVE Later(Trail(d, m, hs, v), Trail(c, m, hs, v))
    <2>1. y = x
      BY <1>3, <1>4, <1>5
    <2>2. d.slots[m] \in Slot /\ (d.slots[m] = Idle \/ d.slots[m] = Lazy)
      BY <1>5, IdleIs DEF Placed
    <2>3. Trail(d, m, hs, v) = x
      BY <1>1, <2>1, <2>2, ThenIs
    <2> QED BY <1>1, <2>3
  <1>6. ASSUME m \notin K, m # f.m PROVE Trail(d, m, hs, v) = Trail(c, m, hs, v)
    BY <1>1, <1>3, <1>6 DEF Placed
  <1>7. ASSUME m \notin K, m = f.m PROVE Bears(Told(Trail(c, m, hs, v), m, f), Trail(d, m, hs, v))
    <2>1. CASE d.out = c.out
      <3>1. d.slots[m] = IF f.as = "ops"
                         THEN [base |-> c.slots[m].base, ops |-> c.slots[m].ops \o f.ops,
                               lazy |-> c.slots[m].lazy]
                         ELSE Holding(f)
        <4>1. Append(c.out, f) # c.out
          BY SenderIs
        <4> QED BY <1>7, <2>1, <4>1 DEF Placed
      <3>2. y = x
        BY <2>1 DEF x, y
      <3> DEFINE s == d.slots[m]
                 slot == c.slots[m]
      <3>3. /\ slot \in Slot
            /\ s = IF f.as = "ops" THEN [base |-> slot.base, ops |-> slot.ops \o f.ops, lazy |-> slot.lazy]
                   ELSE Holding(f)
        BY <1>1, <3>1
      <3> HIDE DEF s, slot
      <3>4. Bears(Told(Then(x, m, slot), m, f), Then(x, m, s))
        BY <1>1, <1>7, <3>3, ThenMore
      <3> QED BY <1>1, <3>2, <3>4 DEF s, slot
    <2>2. CASE d.out # c.out
      <3>1. d.out = Append(c.out, f) /\ d.slots[m] = Idle /\ c.slots[m] = Idle
        BY <1>7, <2>2 DEF Placed
      <3>2. y = Told(x, m, f)
        BY <1>2, <3>1 DEF y
      <3>3. Then(x, m, Idle) = x /\ Then(y, m, Idle) = y
        BY <1>1, IdleIs, ThenIs
      <3> QED BY <1>1, <3>1, <3>2, <3>3 DEF Bears
    <2> QED BY <2>1, <2>2
  <1> QED BY <1>5, <1>6, <1>7

LEMMA IdleThen == \A v : \A m : Then(v, m, Idle) = v
  BY DEF Then, Put, Idle, Holding


\* d is c after the frame f was sent or waits, and the streams K were dropped.
Sends(c, d, f, K) ==
  /\ Kept(c, d) /\ SlotsOK(d)
  /\ d.out = c.out \/ d.out = Append(c.out, f)
  /\ c.order = <<>> => d.order = <<>> \/ Full(c)
  /\ Waits(c, "unit") => Waits(d, "unit")
  /\ \A k : Waits(d, k) => Waits(c, k) \/ k = f.m
  /\ \A m \in Members \ (K \cup {f.m}) : d.slots[m] = c.slots[m]
  /\ \A m \in Members : d.slots[m] # Idle => c.slots[m] # Idle \/ m = f.m
  /\ \A m \in K : d.slots[m] = IF c.provides THEN Lazy ELSE Idle
  /\ f.m \notin K => ~d.slots[f.m].lazy /\ (f.as = "ops" => ~c.slots[f.m].lazy)
  /\ ~c.provides => d.dropped = c.dropped \cup K
  /\ \A hs : \A v \in Level : \A m \in Members :
       c.hold \in hs =>
         /\ Known(Reach(c, m, hs, v)) => Known(Reach(d, m, hs, v))
         /\ m \notin K => Reach(d, m, hs, v) = IF m = f.m THEN Heard(Reach(c, m, hs, v), m, f)
                                               ELSE Reach(c, m, hs, v)
  /\ Carries(c, d, f, K)

LEMMA KeptFull ==
  ASSUME NEW c, NEW d, Kept(c, d), d.out = c.out PROVE Full(c) <=> Full(d)
  BY DEF Kept, Full

LEMMA OrderIs ==
  ASSUME NEW c \in Sender PROVE c.order # <<>> <=> \E k : Waits(c, k)
  <1>1. c.order \in Seq(Keys)
    BY SenderIs
  <1>2. c.order # <<>> => 1 \in DOMAIN c.order
    BY <1>1
  <1>3. c.order = <<>> => DOMAIN c.order = {}
    OBVIOUS
  <1> QED BY <1>2, <1>3 DEF Waits

\* Frames that are sent are heard after what was sent before.
LEMMA FoldSent ==
  ASSUME NEW c \in Sender, NEW f \in Frame, NEW m, NEW hs, NEW v \in Level
  PROVE  Fold(Hearing(m, hs), Append(c.out, f), v) =
           IF f.h \in hs THEN Heard(Fold(Hearing(m, hs), c.out, v), m, f)
           ELSE Fold(Hearing(m, hs), c.out, v)
  <1>1. c.out \in Seq(Frame)
    BY SenderIs
  <1>2. Fold(Hearing(m, hs), c.out, v) \in Level
    BY <1>1, HearingStays
  <1>3. Fold(Hearing(m, hs), Append(c.out, f), v) = Hearing(m, hs)[<<Fold(Hearing(m, hs), c.out, v), f>>]
    BY <1>1, FoldAppend
  <1> QED BY <1>2, <1>3, HearingAt

LEMMA SendSends ==
  ASSUME NEW c \in Sender, SlotsOK(c), NEW f \in Frame, f.t = "state", f.h = c.hold,
         c.slots[f.m] = Idle
  PROVE  Sends(c, Send(c, f), f, {})
  <1> DEFINE d == Send(c, f)
  <1>1. /\ Kept(c, d) /\ d.out = Append(c.out, f) /\ d.order = c.order /\ d.slots = c.slots
        /\ d.dropped = c.dropped
    BY SendIs
  <1> HIDE DEF d
  <1>2. d \in Sender /\ d.hold = c.hold /\ f.m \in Members
    BY <1>1, KeptIs, FrameIs DEF Kept
  <1>3. SlotsOK(d)
    BY <1>1, <1>2 DEF SlotsOK, Waits
  <1>4. ASSUME NEW hs, NEW v \in Level, NEW m \in Members, c.hold \in hs
        PROVE  /\ Known(Reach(c, m, hs, v)) => Known(Reach(d, m, hs, v))
               /\ Reach(d, m, hs, v) = IF m = f.m THEN Heard(Reach(c, m, hs, v), m, f)
                                       ELSE Reach(c, m, hs, v)
    <2> DEFINE x == Fold(Hearing(m, hs), c.out, v)
               y == Fold(Hearing(m, hs), d.out, v)
    <2>1. y = Heard(x, m, f)
      BY <1>1, <1>4, FoldSent
    <2>2. x \in Level /\ (Known(Reach(c, m, hs, v)) <=> Known(x)) /\ (Known(Reach(d, m, hs, v)) <=> Known(y))
      BY <1>2, <1>3, ReachIs
    <2>3. Reach(c, m, hs, v) = After(x, m, c.slots[m]) /\ Reach(d, m, hs, v) = After(y, m, c.slots[m])
      BY <1>1 DEF Reach
    <2>4. Known(y) <=> Known(x)
      BY <2>1, <2>2, HeardState
    <2>5. m # f.m => y = x
      BY <2>1 DEF Heard
    <2> HIDE DEF x, y
    <2>6. m = f.m => Reach(c, m, hs, v) = x /\ Reach(d, m, hs, v) = y
      BY <2>3, IdleIs
    <2> QED BY <2>1, <2>2, <2>3, <2>4, <2>5, <2>6
  <1>5. /\ c.order = <<>> => d.order = <<>> \/ Full(c)
        /\ Waits(c, "unit") => Waits(d, "unit")
        /\ \A k : Waits(d, k) => Waits(c, k) \/ k = f.m
        /\ ~d.slots[f.m].lazy
    BY <1>1, IdleIs DEF Waits
  <1>6. Carries(c, d, f, {})
    <2>1. Placed(c, d, f, {})
      BY <1>1 DEF Placed
    <2> QED BY <1>2, <2>1, CarriesIs
  <1> QED BY <1>1, <1>3, <1>4, <1>5, <1>6 DEF Sends, d

\* A value takes the slot, or operations follow what is there.
LEMMA FillSends ==
  ASSUME NEW c \in Sender, SlotsOK(c), NEW d \in Sender, SlotsOK(d), NEW f \in Frame, Waits(d, f.m), f.t = "state",
         f.h = c.hold, NEW K \in SUBSET Members, f.m \notin K, \A k \in K : c.slots[k] # Idle,
         Gone(c, d, K),
         c.order = <<>> => Full(c), ~c.slots[f.m].lazy \/ f.as # "ops", NEW s \in Slot,
         s = IF f.as = "ops"
             THEN [base |-> c.slots[f.m].base, ops |-> c.slots[f.m].ops \o f.ops, lazy |-> c.slots[f.m].lazy]
             ELSE Holding(f),
         Waits(c, "unit") => Waits(d, "unit"), \A k : Waits(d, k) => Waits(c, k) \/ k = f.m
  PROVE  Sends(c, [d EXCEPT !.slots[f.m] = s], f, K)
  <1> DEFINE e == [d EXCEPT !.slots[f.m] = s]
  <1>1. f.m \in Members /\ f.m \in Keys
    BY FrameIs DEF Keys
  <1>2. /\ Kept(d, e) /\ e.out = d.out /\ e.dropped = d.dropped /\ e.order = d.order
        /\ \A k \in Keys : e.slots[k] = IF k = f.m THEN s ELSE d.slots[k]
    BY <1>1, FillIs
  <1> HIDE DEF e
  <1>3. /\ Kept(c, d) /\ d.out = c.out
        /\ \A k \in Keys : d.slots[k] = IF k \notin K THEN c.slots[k] ELSE IF c.provides THEN Lazy ELSE Idle
        /\ ~c.provides => d.dropped = c.dropped \cup K
    BY DEF Gone
  <1>4. Kept(c, e) /\ e \in Sender /\ e.hold = c.hold /\ c.hold = d.hold
    BY <1>2, <1>3, KeptIs DEF Kept
  <1>5. ~s.lazy /\ SlotFits(s, f.m, c.hold)
    <2>1. SlotFits(c.slots[f.m], f.m, c.hold)
      BY <1>1 DEF SlotsOK
    <2> QED BY <2>1 DEF Holding, SlotFits
  <1>6. SlotsOK(e)
    <2>1. \A k : Waits(e, k) <=> Waits(d, k)
      BY <1>2 DEF Waits
    <2>2. "unit" # f.m /\ "unit" \in Keys /\ Members \subseteq Keys
      BY <1>1, MembersAssumption DEF Keys
    <2> QED BY <1>2, <1>4, <1>5, <2>1, <2>2 DEF SlotsOK
  <1>7. ASSUME NEW hs, NEW v \in Level, NEW m \in Members, c.hold \in hs
        PROVE  /\ Known(Reach(c, m, hs, v)) => Known(Reach(e, m, hs, v))
               /\ m \notin K => Reach(e, m, hs, v) = IF m = f.m THEN Heard(Reach(c, m, hs, v), m, f)
                                       ELSE Reach(c, m, hs, v)
    <2> DEFINE x == Fold(Hearing(m, hs), c.out, v)
    <2>1. x \in Level /\ (Known(Reach(c, m, hs, v)) <=> Known(x))
      BY ReachIs
    <2>2. Known(Reach(e, m, hs, v)) <=> Known(x)
      BY <1>2, <1>3, <1>4, <1>6, ReachIs
    <2>3. Reach(c, m, hs, v) = After(x, m, c.slots[m]) /\ Reach(e, m, hs, v) = After(x, m, e.slots[m])
      BY <1>2, <1>3 DEF Reach
    <2>4. m \in Keys /\ c.slots[m] \in Slot /\ SlotFits(c.slots[m], m, c.hold)
      BY SenderIs DEF Keys, SlotsOK
    <2>5. m # f.m /\ m \notin K => e.slots[m] = c.slots[m]
      BY <1>2, <1>3, <2>4
    <2> HIDE DEF x
    <2>6. m = f.m => After(x, m, s) = Heard(After(x, m, c.slots[m]), m, f)
      <3> DEFINE slot == c.slots[m]
      <3>1. slot \in Slot /\ SlotFits(slot, m, c.hold)
        BY <2>4
      <3>2. m = f.m => s = IF f.as = "ops"
             THEN [base |-> slot.base, ops |-> slot.ops \o f.ops, lazy |-> slot.lazy]
             ELSE Holding(f)
        OBVIOUS
      <3> HIDE DEF slot
      <3>3. ASSUME m = f.m
            PROVE  /\ f.as = "ops" =>
                        LET z == [base |-> slot.base, ops |-> slot.ops \o f.ops, lazy |-> slot.lazy]
                        IN After(x, m, z) = Heard(After(x, m, slot), m, f)
                   /\ f.as # "ops" => After(x, m, Holding(f)) = Heard(After(x, m, slot), m, f)
        BY <2>1, <3>1, <3>3, AfterMore
      <3>4. ASSUME m = f.m PROVE After(x, m, s) = Heard(After(x, m, slot), m, f)
        <4>1. CASE f.as = "ops"
          BY <3>2, <3>3, <3>4, <4>1
        <4>2. CASE f.as # "ops"
          BY <3>2, <3>3, <3>4, <4>2
        <4> QED BY <4>1, <4>2
      <3> QED BY <3>4 DEF slot
    <2>7. m = f.m => e.slots[m] = s
      BY <1>2, <2>4
    <2>8. m = f.m => Reach(e, m, hs, v) = Heard(Reach(c, m, hs, v), m, f)
      BY <2>3, <2>6, <2>7
    <2>9. m # f.m /\ m \notin K => Reach(e, m, hs, v) = Reach(c, m, hs, v)
      BY <2>3, <2>5
    <2> QED BY <2>1, <2>2, <2>8, <2>9
  <1>8. /\ e.out = c.out
        /\ c.order = <<>> => e.order = <<>> \/ Full(c)
        /\ Waits(c, "unit") => Waits(e, "unit")
        /\ \A k : Waits(e, k) => Waits(c, k) \/ k = f.m
        /\ ~e.slots[f.m].lazy
        /\ ~c.provides => e.dropped = c.dropped \cup K
    BY <1>1, <1>2, <1>3, <1>5 DEF Waits
  <1>9. /\ \A m \in Members \ (K \cup {f.m}) : e.slots[m] = c.slots[m]
        /\ \A m \in Members : e.slots[m] # Idle => c.slots[m] # Idle \/ m = f.m
        /\ \A m \in K : e.slots[m] = IF c.provides THEN Lazy ELSE Idle
    <2>1. ASSUME NEW m \in Members PROVE m \in Keys /\ e.slots[m] = IF m = f.m THEN s ELSE d.slots[m]
      BY <1>2 DEF Keys
    <2>2. ASSUME NEW m \in Members
          PROVE  d.slots[m] = IF m \notin K THEN c.slots[m] ELSE IF c.provides THEN Lazy ELSE Idle
      BY <1>3, <2>1
    <2>3. \A m \in Members \ (K \cup {f.m}) : e.slots[m] = c.slots[m]
      BY <2>1, <2>2
    <2>4. ASSUME NEW m \in Members, e.slots[m] # Idle, m # f.m PROVE c.slots[m] # Idle
      <3>1. CASE m \notin K
        BY <2>1, <2>2, <2>4, <3>1
      <3>2. CASE m \in K
        <4>1. c.provides
          BY <2>1, <2>2, <2>4, <3>2
        <4> QED BY <3>2
      <3> QED BY <3>1, <3>2
    <2>5. \A m \in K : e.slots[m] = IF c.provides THEN Lazy ELSE Idle
      BY <2>1, <2>2
    <2> QED BY <2>3, <2>4, <2>5
  <1>10. Carries(c, e, f, K)
    <2>1. \A m \in K : e.slots[m] = Idle \/ e.slots[m] = Lazy
      BY <1>9
    <2>2. e.slots[f.m] = s
      BY <1>1, <1>2
    <2>3. Placed(c, e, f, K)
      BY <1>8, <1>9, <2>1, <2>2 DEF Placed
    <2> QED BY <1>4, <2>3, CarriesIs
  <1> QED BY <1>4, <1>6, <1>7, <1>8, <1>9, <1>10 DEF Sends, e

\* What there was of the frame's stream is dropped, and so is the frame.
LEMMA GoneSends ==
  ASSUME NEW c \in Sender, SlotsOK(c), NEW d \in Sender, SlotsOK(d), NEW f \in Frame, f.t = "state", f.h = c.hold,
         NEW K \in SUBSET Members, f.m \in K, \A k \in K : c.slots[k] # Idle \/ k = f.m,
         Gone(c, d, K), c.order = <<>> => Full(c), Waits(c, "unit") => Waits(d, "unit"),
         \A k : Waits(d, k) => Waits(c, k) \/ k = f.m
  PROVE  Sends(c, d, f, K)
  <1>1. /\ Kept(c, d) /\ d.out = c.out
        /\ \A k \in Keys : d.slots[k] = IF k \notin K THEN c.slots[k] ELSE IF c.provides THEN Lazy ELSE Idle
        /\ ~c.provides => d.dropped = c.dropped \cup K
    BY DEF Gone
  <1>2. ASSUME NEW m \in Members
        PROVE  /\ d.slots[m] = IF m \notin K THEN c.slots[m] ELSE IF c.provides THEN Lazy ELSE Idle
               /\ d.slots[m] # Idle => c.slots[m] # Idle \/ m = f.m
    <2>1. d.slots[m] = IF m \notin K THEN c.slots[m] ELSE IF c.provides THEN Lazy ELSE Idle
      BY <1>1 DEF Keys
    <2> QED BY <2>1
  <1>3. ASSUME NEW hs, NEW v \in Level, NEW m \in Members
        PROVE  /\ Known(Reach(c, m, hs, v)) => Known(Reach(d, m, hs, v))
               /\ m \notin K => Reach(d, m, hs, v) = Reach(c, m, hs, v)
    <2>1. Known(Reach(c, m, hs, v)) <=> Known(Fold(Hearing(m, hs), c.out, v))
      BY ReachIs
    <2>2. Known(Reach(d, m, hs, v)) <=> Known(Fold(Hearing(m, hs), c.out, v))
      BY <1>1, ReachIs
    <2>3. m \notin K => Reach(d, m, hs, v) = Reach(c, m, hs, v)
      BY <1>1, <1>2 DEF Reach
    <2> QED BY <2>1, <2>2, <2>3
  <1>4. \A hs : \A v \in Level : \A m \in Members :
          c.hold \in hs =>
            /\ Known(Reach(c, m, hs, v)) => Known(Reach(d, m, hs, v))
            /\ m \notin K => Reach(d, m, hs, v) = IF m = f.m THEN Heard(Reach(c, m, hs, v), m, f)
                                                  ELSE Reach(c, m, hs, v)
    BY <1>3
  <1>5. \A m \in Members \ (K \cup {f.m}) : d.slots[m] = c.slots[m]
    BY <1>2
  <1>6. \A m \in K : d.slots[m] = IF c.provides THEN Lazy ELSE Idle
    BY <1>2
  <1>7. Carries(c, d, f, K)
    <2>1. \A m \in K : d.slots[m] = Idle \/ d.slots[m] = Lazy
      BY <1>6
    <2>2. Placed(c, d, f, K)
      BY <1>1, <1>5, <2>1 DEF Placed
    <2> QED BY <2>2, CarriesIs
  <1> QED BY <1>1, <1>2, <1>4, <1>5, <1>6, <1>7 DEF Sends

LEMMA SendStateIs ==
  ASSUME NEW c \in Sender, SlotsOK(c), NEW f \in Frame, f.t = "state", f.h = c.hold,
         WindowOK(c), ~c.provides => \A m \in Members : ~c.slots[m].lazy
  PROVE  \E K \in SUBSET Members : Sends(c, SendState(c, f), f, K)
  <1> DEFINE m == f.m
             d == Queued(c, m)
             e == IF WaitingOps(d) + Len(f.ops) > PendingCap THEN MakeRoom(d, Len(f.ops), m) ELSE d
             R == SendState(c, f)
             s == [base |-> c.slots[m].base, ops |-> c.slots[m].ops \o f.ops, lazy |-> c.slots[m].lazy]
  <1>0. R = IF ~Waits(c, m) /\ ~Full(c) THEN Send(c, f)
            ELSE IF f.as # "ops" THEN [d EXCEPT !.slots[m] = Holding(f)]
            ELSE IF d.slots[m].lazy THEN d
            ELSE IF ~Waits(e, m) \/ e.slots[m].lazy THEN e
            ELSE [e EXCEPT !.slots[m].ops = @ \o f.ops]
    BY DEF SendState
  <1>1. m \in Members /\ m \in Keys /\ f.as # "none" /\ f.ops \in Seq(Edit)
    BY FrameIs DEF Keys
  <1>2. c.slots[m] \in Slot /\ c.slots[m].base \in Frame
    BY <1>1, SenderIs DEF Slot
  <1>3. /\ Kept(c, d) /\ d.out = c.out /\ d.dropped = c.dropped /\ d.slots = c.slots
        /\ \A l : Waits(d, l) <=> Waits(c, l) \/ l = m
        /\ Waits(c, m) => d = c
    BY <1>1, QueuedIs
  <1> HIDE DEF R, d, e
  <1> SUFFICES \E K \in SUBSET Members : Sends(c, R, f, K)
    BY DEF R
  <1>4. d \in Sender /\ d.hold = c.hold /\ (d.provides <=> c.provides)
    BY <1>3, KeptIs, SenderIs DEF Kept
  <1>5. SlotsOK(d)
    BY <1>3, <1>4 DEF SlotsOK
  <1>6. Gone(c, d, {})
    BY <1>3 DEF Gone
  <1>7. CASE ~Waits(c, m) /\ ~Full(c)
    <2>1. c.slots[m] = Idle
      BY <1>1, <1>7 DEF SlotsOK
    <2> QED BY <1>0, <1>7, <2>1, SendSends
  <1>8. CASE Waits(c, m) \/ Full(c)
    <2>1. c.order = <<>> => Full(c)
      BY <1>8, OrderIs
    <2>2. CASE f.as # "ops"
      <3>1. Holding(f) \in Slot
        <4>1. <<>> \in Seq(Edit)
          OBVIOUS
        <4> QED BY <4>1 DEF Holding, Slot
      <3>2. Sends(c, [d EXCEPT !.slots[f.m] = Holding(f)], f, {})
        BY <1>1, <1>3, <1>4, <1>5, <1>6, <2>1, <2>2, <3>1, FillSends
      <3> QED BY <1>0, <1>8, <2>2, <3>2
    <2>3. CASE f.as = "ops" /\ d.slots[m].lazy
      <3>1. c.slots[m] = Lazy /\ c.provides
        BY <1>1, <1>3, <2>3 DEF SlotsOK
      <3>2. Waits(c, m)
        BY <1>1, <3>1, IdleIs DEF SlotsOK
      <3>3. Gone(c, c, {m})
        BY <3>1, KeptIs DEF Gone
      <3>4. Sends(c, c, f, {m})
        BY <1>1, <2>1, <3>3, GoneSends
      <3> QED BY <1>0, <1>1, <1>3, <1>8, <2>3, <3>2, <3>4
    <2>4. CASE f.as = "ops" /\ ~d.slots[m].lazy
      <3>1. \E K \in SUBSET Members : /\ Dropped(d, e, K)
                                      /\ \A k \in K : Waits(d, k) /\ (d.slots[k] # Idle \/ k = m)
        <4>1. CASE e = d
          <5>1. Dropped(d, d, {})
            BY KeptIs DEF Dropped, Gone
          <5> QED BY <4>1, <5>1
        <4>2. CASE e = MakeRoom(d, Len(f.ops), m)
          BY <1>1, <1>3, <1>4, <1>5, <4>2, MakeRoomIs
        <4> QED BY <4>1, <4>2 DEF e
      <3>2. PICK K \in SUBSET Members : /\ Dropped(d, e, K)
                                        /\ \A k \in K : Waits(d, k) /\ (d.slots[k] # Idle \/ k = m)
        BY <3>1
      <3>3. e \in Sender /\ SlotsOK(e)
        BY <1>4, <1>5, <3>2, DroppedOK
      <3>4. Gone(d, e, K) /\ \A k : Waits(e, k) <=> Waits(d, k) /\ (k \in K => c.provides)
        BY <1>4, <3>2 DEF Dropped
      <3>5. Gone(c, e, K)
        BY <1>3, <1>4, <3>4, KeptIs DEF Gone
      <3>6. (Waits(c, "unit") => Waits(e, "unit")) /\ \A k : Waits(e, k) => Waits(c, k) \/ k = f.m
        <4>1. "unit" \notin K
          BY MembersAssumption
        <4> QED BY <1>3, <3>4, <4>1
      <3>7. e.slots[m] = IF m \notin K THEN c.slots[m] ELSE IF c.provides THEN Lazy ELSE Idle
        BY <1>1, <3>5 DEF Gone
      <3>8. ~Waits(e, m) \/ e.slots[m].lazy <=> m \in K
        <4>1. Waits(d, m)
          BY <1>3
        <4> QED BY <1>3, <2>4, <3>4, <3>7, <4>1, IdleIs
      <3>9. CASE m \in K
        <4>1. \A k \in K : c.slots[k] # Idle \/ k = f.m
          BY <1>3, <3>2
        <4>2. Sends(c, e, f, K)
          BY <1>1, <2>1, <3>3, <3>5, <3>6, <3>9, <4>1, GoneSends
        <4> QED BY <1>0, <1>8, <2>4, <3>8, <3>9, <4>2
      <3>10. CASE m \notin K
        <4>1. e.slots[m] = c.slots[m]
          BY <3>7, <3>10
        <4>2. [e EXCEPT !.slots[m].ops = @ \o f.ops] = [e EXCEPT !.slots[m] = s]
          <5>1. \A x \in Slot : \A y : [x EXCEPT !.ops = y] = [base |-> x.base, ops |-> y, lazy |-> x.lazy]
            BY DEF Slot
          <5>2. [e.slots[m] EXCEPT !.ops = @ \o f.ops] = s
            <6> DEFINE y == c.slots[m].ops \o f.ops
                       x == c.slots[m]
            <6>1. [x EXCEPT !.ops = y] = [base |-> x.base, ops |-> y, lazy |-> x.lazy]
              BY <5>1, <1>2
            <6> QED BY <4>1, <6>1
          <5> QED BY <5>2
        <4>3. s \in Slot
          BY <1>1, <1>2 DEF Slot
        <4>4. \A k \in K : c.slots[k] # Idle
          BY <1>3, <3>2, <3>10
        <4>5. Sends(c, [e EXCEPT !.slots[f.m] = s], f, K)
          <5>1. Waits(e, f.m) /\ f.m \notin K /\ ~c.slots[f.m].lazy
            BY <3>8, <3>10, <1>3, <2>4
          <5>2. s = IF f.as = "ops"
             THEN [base |-> c.slots[f.m].base, ops |-> c.slots[f.m].ops \o f.ops, lazy |-> c.slots[f.m].lazy]
             ELSE Holding(f)
            BY <2>4
          <5> HIDE DEF s
          <5> QED BY <1>1, <2>1, <2>4, <3>3, <3>5, <3>6, <4>3, <4>4, <5>1, <5>2, FillSends
        <4> QED BY <1>0, <1>8, <2>4, <3>8, <3>10, <4>2, <4>5
      <3> QED BY <3>9, <3>10
    <2> QED BY <2>2, <2>3, <2>4
  <1> QED BY <1>7, <1>8

-----------------------------------------------------------------------------
(* Shapes on a link: the last one, and whether state of a hold comes before   *)
(* the hold's first shape (2) or after it (1).                                *)

Shaping(hs) ==
  [p \in (SUBSET Keys) \X Frame |->
     IF p[2].t = "shape" /\ p[2].h \in hs THEN p[2].members ELSE p[1]]
Seen(h) ==
  [p \in (0..2) \X Frame |->
     IF p[2].h # h THEN p[1]
     ELSE IF p[2].t = "shape" THEN IF p[1] = 2 THEN 2 ELSE 1
     ELSE IF p[1] = 1 THEN 1 ELSE 2]

LEMMA ShapingAt ==
  ASSUME NEW hs, NEW S \in SUBSET Keys, NEW f \in Frame
  PROVE  /\ Shaping(hs)[<<S, f>>] = IF f.t = "shape" /\ f.h \in hs THEN f.members ELSE S
         /\ Shaping(hs)[<<S, f>>] \in SUBSET Keys
  <1> DEFINE p == <<S, f>>
  <1>1. p \in (SUBSET Keys) \X Frame /\ p[1] = S /\ p[2] = f
    OBVIOUS
  <1>2. f.members \in SUBSET Keys
    BY FrameIs DEF Keys
  <1> HIDE DEF p
  <1>3. Shaping(hs)[p] = IF p[2].t = "shape" /\ p[2].h \in hs THEN p[2].members ELSE p[1]
    BY <1>1 DEF Shaping
  <1> QED BY <1>1, <1>2, <1>3 DEF p

LEMMA SeenAt ==
  ASSUME NEW h, NEW x \in 0..2, NEW f \in Frame
  PROVE  /\ Seen(h)[<<x, f>>] = IF f.h # h THEN x
                                ELSE IF f.t = "shape" THEN IF x = 2 THEN 2 ELSE 1
                                ELSE IF x = 1 THEN 1 ELSE 2
         /\ Seen(h)[<<x, f>>] \in 0..2
  <1> DEFINE p == <<x, f>>
  <1>1. p \in (0..2) \X Frame /\ p[1] = x /\ p[2] = f
    OBVIOUS
  <1> HIDE DEF p
  <1>3. Seen(h)[p] = IF p[2].h # h THEN p[1]
                     ELSE IF p[2].t = "shape" THEN IF p[1] = 2 THEN 2 ELSE 1
                     ELSE IF p[1] = 1 THEN 1 ELSE 2
    BY <1>1 DEF Seen
  <1>4. Seen(h)[p] = IF f.h # h THEN x
                     ELSE IF f.t = "shape" THEN IF x = 2 THEN 2 ELSE 1
                     ELSE IF x = 1 THEN 1 ELSE 2
    BY <1>1, <1>3
  <1>5. Seen(h)[p] \in 0..2
    BY <1>4
  <1> QED BY <1>4, <1>5 DEF p

LEMMA FoldTypes ==
  ASSUME NEW q \in Seq(Frame)
  PROVE  /\ \A hs : \A S \in SUBSET Keys : Fold(Shaping(hs), q, S) \in SUBSET Keys
         /\ \A h : \A x \in 0..2 : Fold(Seen(h), q, x) \in 0..2
  <1>1. ASSUME NEW hs, NEW S \in SUBSET Keys PROVE Fold(Shaping(hs), q, S) \in SUBSET Keys
    <2>1. \A x \in SUBSET Keys : \A y \in Frame : Shaping(hs)[<<x, y>>] \in SUBSET Keys
      BY ShapingAt
    <2> QED BY <2>1, FoldStays
  <1>2. ASSUME NEW h, NEW x \in 0..2 PROVE Fold(Seen(h), q, x) \in 0..2
    <2>1. \A z \in 0..2 : \A y \in Frame : Seen(h)[<<z, y>>] \in 0..2
      BY SeenAt
    <2> QED BY <2>1, FoldStays
  <1> QED BY <1>1, <1>2

\* The frames r are those of q and state frames of the hold h.
Sent(q, r, h) ==
  /\ r \in Seq(Frame) /\ Len(r) >= Len(q)
  /\ \A hs : \A S \in SUBSET Keys : Fold(Shaping(hs), r, S) = Fold(Shaping(hs), q, S)
  /\ \A i : i # h \/ Fold(Seen(i), q, 0) = 1 => Fold(Seen(i), r, 0) = Fold(Seen(i), q, 0)
  /\ \A l : h <= l /\ (\A i \in DOMAIN q : q[i].h <= l) => \A i \in DOMAIN r : r[i].h <= l

LEMMA SentNone == ASSUME NEW q \in Seq(Frame), NEW h PROVE Sent(q, q, h)
  <1>1. Len(q) \in Nat
    OBVIOUS
  <1> QED BY <1>1 DEF Sent

LEMMA SentOne ==
  ASSUME NEW q \in Seq(Frame), NEW f \in Frame, f.t = "state"
  PROVE  Sent(q, Append(q, f), f.h)
  <1> DEFINE r == Append(q, f)
  <1>1. r \in Seq(Frame) /\ Len(r) = Len(q) + 1 /\ Len(q) \in Nat
    OBVIOUS
  <1>2. ASSUME NEW hs, NEW S \in SUBSET Keys PROVE Fold(Shaping(hs), r, S) = Fold(Shaping(hs), q, S)
    <2>1. Fold(Shaping(hs), r, S) = Shaping(hs)[<<Fold(Shaping(hs), q, S), f>>]
      BY FoldAppend, SMTT(30)
    <2>2. Fold(Shaping(hs), q, S) \in SUBSET Keys
      BY FoldTypes
    <2> HIDE DEF r
    <2>3. f.t # "shape"
      OBVIOUS
    <2> DEFINE x == Fold(Shaping(hs), q, S)
    <2>4. x \in SUBSET Keys
      BY <2>2
    <2> HIDE DEF x
    <2>5. Shaping(hs)[<<x, f>>] = x
      BY <2>3, <2>4, ShapingAt
    <2> QED BY <2>1, <2>5 DEF x
  <1>3. ASSUME NEW i, i # f.h \/ Fold(Seen(i), q, 0) = 1 PROVE Fold(Seen(i), r, 0) = Fold(Seen(i), q, 0)
    <2>1. Fold(Seen(i), r, 0) = Seen(i)[<<Fold(Seen(i), q, 0), f>>]
      BY FoldAppend, SMTT(30)
    <2>2. Fold(Seen(i), q, 0) \in 0..2
      BY FoldTypes
    <2> QED BY <2>1, <2>2, <1>3, SeenAt
  <1>4. ASSUME NEW l, f.h <= l, \A i \in DOMAIN q : q[i].h <= l, NEW i \in DOMAIN r PROVE r[i].h <= l
    <2>1. i \in 1..(Len(q) + 1) /\ DOMAIN q = 1..Len(q)
      BY <1>1
    <2>2. r[i] = IF i \in 1..Len(q) THEN q[i] ELSE f
      BY <2>1
    <2> QED BY <1>4, <2>1, <2>2
  <1> HIDE DEF r
  <1>5. Len(r) >= Len(q)
    BY <1>1
  <1> QED BY <1>1, <1>2, <1>3, <1>4, <1>5 DEF Sent, r

LEMMA SentTwice ==
  ASSUME NEW q \in Seq(Frame), NEW r, NEW s, NEW h, Sent(q, r, h), Sent(r, s, h)
  PROVE  Sent(q, s, h)
  <1>1. r \in Seq(Frame) /\ s \in Seq(Frame) /\ Len(q) \in Nat /\ Len(r) \in Nat /\ Len(s) \in Nat
    BY DEF Sent
  <1>2. Len(s) >= Len(q)
    BY <1>1 DEF Sent
  <1>3. \A hs : \A S \in SUBSET Keys : Fold(Shaping(hs), s, S) = Fold(Shaping(hs), q, S)
    BY DEF Sent
  <1>4. \A i : i # h \/ Fold(Seen(i), q, 0) = 1 => Fold(Seen(i), s, 0) = Fold(Seen(i), q, 0)
    BY DEF Sent
  <1>5. \A l : h <= l /\ (\A i \in DOMAIN q : q[i].h <= l) => \A i \in DOMAIN s : s[i].h <= l
    BY DEF Sent
  <1> QED BY <1>1, <1>2, <1>3, <1>4, <1>5 DEF Sent

\* Of what waited some goes, as it was.
SameTrail(c, d) ==
  \A hs : \A v \in Level : \A m \in Members :
    c.hold \in hs => Trail(d, m, hs, v) = Trail(c, m, hs, v)
Moved(c, d) ==
  /\ Kept(c, d) /\ SlotsOK(d) /\ d.dropped = c.dropped
  /\ Sent(c.out, d.out, c.hold)
  /\ \A m \in Members : d.slots[m] = c.slots[m] \/ d.slots[m] = Idle
  /\ \A m \in Members : c.slots[m].lazy => d.slots[m] = c.slots[m]
  /\ Waits(c, "unit") => Waits(d, "unit")
  /\ \A k : Waits(d, k) => Waits(c, k)
  /\ \A hs : \A v \in Level : \A m \in Members :
       c.hold \in hs => Reach(d, m, hs, v) = Reach(c, m, hs, v)
  /\ SameTrail(c, d)

LEMMA FlushOneMoves ==
  ASSUME NEW c \in Sender, SlotsOK(c), c.order # <<>>, NEW k \in Members, k = Head(c.order),
         ~c.slots[k].lazy, NEW vs
  PROVE  Moved(c, FlushOne(c, vs)) /\ Len(FlushOne(c, vs).order) < Len(c.order)
  <1> DEFINE slot == c.slots[k]
             d == Forget(c, {k})
             e == IF slot.base = NoFrame THEN d ELSE Send(d, slot.base)
             f == State(c.hold, k, "ops", None, slot.ops)
             g == IF slot.ops = <<>> THEN e ELSE Send(e, f)
  <1>1. FlushOne(c, vs) = g
    <2>1. k # "unit"
      BY MembersAssumption
    <2> QED BY <2>1 DEF FlushOne
  <1>2. k \in Keys /\ slot \in Slot /\ SlotFits(slot, k, c.hold) /\ Waits(c, k)
    <2>1. c.order \in Seq(Keys) /\ 1 \in DOMAIN c.order /\ c.order[1] = k
      BY SenderIs
    <2> QED BY <2>1, SenderIs DEF Keys, SlotsOK, Waits
  <1>3. slot.base \in Frame /\ slot.ops \in Seq(Edit) /\ c.hold \in Nat
    BY <1>2, SenderIs DEF Slot
  <1>4. f \in Frame /\ f.t = "state" /\ f.m = k /\ f.h = c.hold
    BY <1>3, FrameMakes, LevelIs DEF State
  <1>5. /\ Kept(c, d) /\ d.out = c.out /\ d.dropped = c.dropped
        /\ \A l \in Keys : d.slots[l] = IF l = k THEN Idle ELSE c.slots[l]
        /\ \A l : Waits(d, l) <=> Waits(c, l) /\ l # k
        /\ Len(d.order) < Len(c.order)
    BY <1>2, ForgetIs
  <1> HIDE DEF d
  <1>6. d \in Sender /\ d.hold = c.hold
    BY <1>5, KeptIs DEF Kept
  <1>7. /\ Kept(c, e) /\ e.dropped = c.dropped /\ e.slots = d.slots /\ e.order = d.order
        /\ e.out = IF slot.base = NoFrame THEN c.out ELSE Append(c.out, slot.base)
    <2>1. CASE slot.base = NoFrame
      BY <1>5, <2>1
    <2>2. CASE slot.base # NoFrame
      <3>1. /\ Kept(d, e) /\ e.out = Append(d.out, slot.base) /\ e.order = d.order
            /\ e.slots = d.slots /\ e.dropped = d.dropped
        BY <1>3, <1>6, <2>2, SendIs
      <3> HIDE DEF e
      <3>2. Kept(c, e)
        BY <1>5, <3>1, KeptIs
      <3> QED BY <1>5, <2>2, <3>1, <3>2
    <2> QED BY <2>1, <2>2
  <1> HIDE DEF e
  <1>8. e \in Sender /\ e.hold = c.hold
    BY <1>7, KeptIs DEF Kept
  <1> HIDE DEF f
  <1>9. /\ Kept(c, g) /\ g.dropped = c.dropped /\ g.slots = d.slots /\ g.order = d.order
        /\ g.out = IF slot.ops = <<>> THEN e.out ELSE Append(e.out, f)
    BY <1>4, <1>7, <1>8, SendIs, KeptIs
  <1> HIDE DEF g
  <1>10. g \in Sender /\ g.hold = c.hold
    BY <1>9, KeptIs DEF Kept
  <1>11. c.out \in Seq(Frame) /\ e.out \in Seq(Frame)
    BY <1>8, SenderIs
  <1>12. Sent(c.out, g.out, c.hold)
    <2>1. Sent(c.out, e.out, c.hold)
      <3>1. slot.base # NoFrame => slot.base.t = "state" /\ slot.base.h = c.hold
        BY <1>2 DEF SlotFits
      <3> QED BY <3>1, <1>3, <1>7, <1>11, SentNone, SentOne
    <2>2. Sent(e.out, g.out, c.hold)
      BY <1>4, <1>9, <1>11, SentNone, SentOne
    <2> QED BY <2>1, <2>2, <1>11, SentTwice
  <1>13. SlotsOK(g)
    <2>0. g.order = d.order
      BY <1>9
    <2>1. \A l : Waits(g, l) <=> Waits(c, l) /\ l # k
      <3>1. \A l : Waits(g, l) <=> Waits(d, l)
        BY <2>0 DEF Waits
      <3> QED BY <1>5, <3>1
    <2>2. "unit" \in Keys /\ \A m \in Members : m \in Keys
      BY DEF Keys
    <2>3. \A l \in Keys : g.slots[l] = IF l = k THEN Idle ELSE c.slots[l]
      BY <1>5, <1>9
    <2>4. \A l \in Keys : g.slots[l] # Idle => Waits(g, l)
      BY <2>1, <2>3 DEF SlotsOK
    <2>5. g.slots["unit"] = Idle
      BY <2>2, <2>3 DEF SlotsOK
    <2>6. ASSUME NEW m \in Members
          PROVE  SlotFits(g.slots[m], m, g.hold) /\ (g.slots[m].lazy => g.slots[m] = Lazy)
      BY <1>10, <2>2, <2>3, IdleIs DEF SlotsOK
    <2> QED BY <2>4, <2>5, <2>6 DEF SlotsOK
  <1>14. ASSUME NEW hs, NEW v \in Level, NEW m \in Members, c.hold \in hs
         PROVE  Reach(g, m, hs, v) = Reach(c, m, hs, v)
    <2> DEFINE x == Fold(Hearing(m, hs), c.out, v)
               y == Fold(Hearing(m, hs), e.out, v)
               z == Fold(Hearing(m, hs), g.out, v)
    <2>1. x \in Level /\ y \in Level
      BY <1>11, HearingStays
    <2>2. slot.base # NoFrame => slot.base.t = "state" /\ slot.base.h = c.hold /\ slot.base.m = k
      BY <1>2 DEF SlotFits
    <2>3. slot.base # NoFrame => y = Heard(x, m, slot.base)
      <3>1. ASSUME slot.base # NoFrame PROVE Fold(Hearing(m, hs), Append(c.out, slot.base), v) = Heard(x, m, slot.base)
        BY <1>3, <1>14, <2>2, <3>1, FoldSent
      <3> QED BY <1>7, <3>1
    <2>4. slot.base = NoFrame => y = x
      BY <1>7
    <2>5. slot.ops # <<>> => z = Heard(y, m, f)
      <3>1. Fold(Hearing(m, hs), Append(e.out, f), v) = Heard(y, m, f)
        BY <1>4, <1>8, <1>14, FoldSent
      <3> QED BY <1>9, <3>1
    <2>6. slot.ops = <<>> => z = y
      BY <1>9
    <2>7. Reach(g, m, hs, v) = After(z, m, g.slots[m]) /\ Reach(c, m, hs, v) = After(x, m, c.slots[m])
      BY DEF Reach
    <2>8. g.slots[m] = IF m = k THEN Idle ELSE c.slots[m]
      BY <1>5, <1>9 DEF Keys
    <2>9. CASE m = k
      <3>1. y = Based(x, m, slot)
        BY <2>3, <2>4 DEF Based
      <3>2. Heard(y, m, f) = Heard(y, m, State(0, m, "ops", None, slot.ops))
        BY <2>9 DEF Heard, State, f
      <3>3. z = After(x, m, slot)
        BY <2>5, <2>6, <3>1, <3>2 DEF After
      <3> QED BY <2>7, <2>8, <2>9, <3>3, IdleIs
    <2>10. CASE m # k
      <3>1. slot.base # NoFrame => Heard(x, m, slot.base) = x
        BY <2>2, <2>10 DEF Heard
      <3>2. Heard(y, m, f) = y
        BY <1>4, <2>10 DEF Heard
      <3>3. z = x
        BY <2>3, <2>4, <2>5, <2>6, <3>1, <3>2
      <3> QED BY <2>7, <2>8, <2>10, <3>3
    <2> QED BY <2>9, <2>10
  <1>18. ASSUME NEW hs, NEW v \in Level, NEW m \in Members, c.hold \in hs
         PROVE  Trail(g, m, hs, v) = Trail(c, m, hs, v)
    <2> DEFINE x == Fold(Telling(m, hs), c.out, v)
               y == Fold(Telling(m, hs), e.out, v)
               z == Fold(Telling(m, hs), g.out, v)
    <2>1. x \in Level /\ y \in Level
      BY <1>11, TellingIs
    <2>2. slot.base # NoFrame => slot.base.t = "state" /\ slot.base.h = c.hold /\ slot.base.m = k
      BY <1>2 DEF SlotFits
    <2>3. slot.base # NoFrame => y = Told(x, m, slot.base)
      <3>1. ASSUME slot.base # NoFrame PROVE Fold(Telling(m, hs), Append(c.out, slot.base), v) = Told(x, m, slot.base)
        BY <1>3, <1>18, <2>2, <3>1, FoldTold
      <3> QED BY <1>7, <3>1
    <2>4. slot.base = NoFrame => y = x
      BY <1>7
    <2>5. slot.ops # <<>> => z = Told(y, m, f)
      <3>1. Fold(Telling(m, hs), Append(e.out, f), v) = Told(y, m, f)
        BY <1>4, <1>8, <1>18, FoldTold
      <3> QED BY <1>9, <3>1
    <2>6. slot.ops = <<>> => z = y
      BY <1>9
    <2>7. Trail(g, m, hs, v) = Then(z, m, g.slots[m]) /\ Trail(c, m, hs, v) = Then(x, m, c.slots[m])
      BY DEF Trail
    <2>8. g.slots[m] = IF m = k THEN Idle ELSE c.slots[m]
      BY <1>5, <1>9 DEF Keys
    <2>9. CASE m = k
      <3>1. y = Put(x, m, slot)
        BY <2>3, <2>4 DEF Put
      <3>2. Told(y, m, f) = Told(y, m, State(0, m, "ops", None, slot.ops))
        BY <2>9 DEF Told, State, f
      <3>3. z = Then(x, m, slot)
        BY <2>5, <2>6, <3>1, <3>2 DEF Then
      <3> QED BY <2>7, <2>8, <2>9, <3>3, IdleThen
    <2>10. CASE m # k
      <3>1. slot.base # NoFrame => Told(x, m, slot.base) = x
        BY <2>2, <2>10 DEF Told
      <3>2. Told(y, m, f) = y
        BY <1>4, <2>10 DEF Told
      <3>3. z = x
        BY <2>3, <2>4, <2>5, <2>6, <3>1, <3>2
      <3> QED BY <2>7, <2>8, <2>10, <3>3
    <2> QED BY <2>9, <2>10
  <1>15. /\ \A m \in Members : g.slots[m] = c.slots[m] \/ g.slots[m] = Idle
         /\ \A m \in Members : c.slots[m].lazy => g.slots[m] = c.slots[m]
    BY <1>5, <1>9 DEF Keys
  <1>16. (Waits(c, "unit") => Waits(g, "unit")) /\ \A l : Waits(g, l) => Waits(c, l)
    <2>1. "unit" # k
      BY MembersAssumption
    <2>2. g.order = d.order
      BY <1>9
    <2>3. \A l : Waits(g, l) <=> Waits(d, l)
      BY <2>2 DEF Waits
    <2> QED BY <2>1, <2>3, <1>5
  <1>17. Len(g.order) < Len(c.order)
    BY <1>5, <1>9
  <1> HIDE DEF slot
  <1>19. SameTrail(c, g)
    BY <1>18 DEF SameTrail
  <1> QED BY <1>1, <1>9, <1>12, <1>13, <1>14, <1>15, <1>16, <1>17, <1>19 DEF Moved

LEMMA MovedIs ==
  /\ \A c \in Sender : SlotsOK(c) => Moved(c, c)
  /\ \A c \in Sender : \A d \in Sender : \A e \in Sender : Moved(c, d) /\ Moved(d, e) => Moved(c, e)
  <1>1. ASSUME NEW c \in Sender, SlotsOK(c) PROVE Moved(c, c)
    <2>1. Sent(c.out, c.out, c.hold)
      BY SenderIs, SentNone
    <2> QED BY <1>1, <2>1, KeptIs DEF Moved, SameTrail
  <1>2. ASSUME NEW c \in Sender, NEW d \in Sender, NEW e \in Sender, Moved(c, d), Moved(d, e)
        PROVE  Moved(c, e)
    <2>1. Kept(c, e) /\ d.hold = c.hold
      BY <1>2, KeptIs DEF Moved, Kept
    <2>2. Sent(c.out, d.out, c.hold) /\ Sent(d.out, e.out, c.hold)
      BY <1>2, <2>1 DEF Moved
    <2>3. Sent(c.out, e.out, c.hold)
      BY <2>2, SenderIs, SentTwice
    <2>4. \A m \in Members : /\ e.slots[m] = c.slots[m] \/ e.slots[m] = Idle
                             /\ c.slots[m].lazy => e.slots[m] = c.slots[m]
      BY <1>2 DEF Moved
    <2>5. /\ SlotsOK(e) /\ e.dropped = c.dropped /\ (Waits(c, "unit") => Waits(e, "unit"))
          /\ \A k : Waits(e, k) => Waits(c, k)
      BY <1>2 DEF Moved
    <2>6. \A hs : \A v \in Level : \A m \in Members :
            c.hold \in hs => Reach(e, m, hs, v) = Reach(c, m, hs, v)
      BY <1>2, <2>1 DEF Moved
    <2>7. SameTrail(c, e)
      BY <1>2, <2>1 DEF Moved, SameTrail
    <2> QED BY <2>1, <2>3, <2>4, <2>5, <2>6, <2>7 DEF Moved
  <1> QED BY <1>1, <1>2

\* g gives what flushing up to each number of streams up to k makes of c.
Flushes(g, k, c, vs) ==
  g = [i \in 0..k |-> IF i = 0 THEN c
                      ELSE IF g[i - 1].order = <<>> \/ Full(g[i - 1]) THEN g[i - 1]
                      ELSE FlushOne(g[i - 1], vs)]

LEMMA FlushesAt ==
  ASSUME NEW g, NEW k, NEW c, NEW vs, Flushes(g, k, c, vs), NEW j \in 0..k
  PROVE  g[j] = IF j = 0 THEN c
                ELSE IF g[j - 1].order = <<>> \/ Full(g[j - 1]) THEN g[j - 1]
                ELSE FlushOne(g[j - 1], vs)
  <1> DEFINE E(i) == IF i = 0 THEN c
                     ELSE IF g[i - 1].order = <<>> \/ Full(g[i - 1]) THEN g[i - 1]
                     ELSE FlushOne(g[i - 1], vs)
  <1>1. g = [i \in 0..k |-> E(i)]
    BY DEF Flushes
  <1> HIDE DEF E
  <1>2. g[j] = E(j)
    BY <1>1
  <1> QED BY <1>2 DEF E

LEMMA FlushExists ==
  ASSUME NEW n \in Nat, NEW c, NEW vs
  PROVE  \E g : Flushes(g, n, c, vs)
  <1> DEFINE T == {k \in 0..n : \E g : Flushes(g, k, c, vs)}
             Next1(d) == IF d.order = <<>> \/ Full(d) THEN d ELSE FlushOne(d, vs)
  <1>1. 0 \in T
    <2>1. Flushes([i \in 0..0 |-> c], 0, c, vs)
      BY DEF Flushes
    <2> QED BY <2>1
  <1>2. ASSUME NEW i \in 1..n, i - 1 \in T PROVE i \in T
    <2>1. PICK g : Flushes(g, i - 1, c, vs)
      BY <1>2
    <2> HIDE DEF Next1
    <2> DEFINE h == [j \in 0..i |-> IF j < i THEN g[j] ELSE Next1(g[i - 1])]
    <2>2. ASSUME NEW j \in 0..i
          PROVE  h[j] = IF j = 0 THEN c ELSE Next1(h[j - 1])
      <3>1. CASE j = i
        <4>1. h[i] = Next1(g[i - 1])
          OBVIOUS
        <4>2. h[i - 1] = g[i - 1]
          OBVIOUS
        <4> QED BY <3>1, <4>1, <4>2
      <3>2. CASE j < i
        <4>1. g[j] = IF j = 0 THEN c ELSE Next1(g[j - 1])
          BY <2>1, <3>2, FlushesAt DEF Next1
        <4>2. h[j] = g[j] /\ (j # 0 => h[j - 1] = g[j - 1])
          BY <3>2
        <4> QED BY <4>1, <4>2
      <3> QED BY <3>1, <3>2
    <2>3. h = [j \in 0..i |-> h[j]]
      OBVIOUS
    <2> HIDE DEF h
    <2>4. h = [j \in 0..i |-> IF j = 0 THEN c ELSE Next1(h[j - 1])]
      BY <2>2, <2>3
    <2>5. Flushes(h, i, c, vs)
      BY <2>4 DEF Flushes, Next1
    <2> QED BY <2>5
  <1> HIDE DEF T
  <1>3. 0..n \subseteq T
    BY <1>1, <1>2, AllPlaces
  <1> QED BY <1>3 DEF T

\* What every step of a flush keeps, the flush keeps; and it goes on while it can.
LEMMA FlushKeeps ==
  ASSUME NEW J, NEW c \in J, NEW vs,
         \A d \in J : d.order \in Seq(Keys),
         \A d \in J : d.order # <<>> /\ ~Full(d) =>
                        FlushOne(d, vs) \in J /\ Len(FlushOne(d, vs).order) < Len(d.order)
  PROVE  LET d == Flush(c, vs) IN d \in J /\ WindowOK(d)
  <1> DEFINE n == Len(c.order)
             g == CHOOSE g : Flushes(g, n, c, vs)
             T == {i \in 0..n : g[i] \in J /\ (WindowOK(g[i]) \/ Len(g[i].order) <= n - i)}
  <1>0. n \in Nat
    OBVIOUS
  <1>1. Flushes(g, n, c, vs)
    BY <1>0, FlushExists
  <1>2. Flush(c, vs) = g[n]
    BY DEF Flush, Flushes
  <1> HIDE DEF g
  <1>3. 0 \in T
    <2>1. g[0] = c
      <3>1. 0 \in 0..n
        BY <1>0
      <3> HIDE DEF n
      <3> QED BY <1>1, <3>1, FlushesAt
    <2>2. Len(g[0].order) <= n - 0
      BY <1>0, <2>1
    <2> QED BY <1>0, <2>1, <2>2
  <1>4. ASSUME NEW i \in 1..n, i - 1 \in T PROVE i \in T
    <2> DEFINE d == g[i - 1]
    <2>1. g[i] = IF d.order = <<>> \/ Full(d) THEN d ELSE FlushOne(d, vs)
      BY <1>1, FlushesAt
    <2>2. d \in J /\ (WindowOK(d) \/ Len(d.order) <= n - (i - 1)) /\ d.order \in Seq(Keys)
      BY <1>4
    <2> HIDE DEF d
    <2>3. CASE d.order = <<>> \/ Full(d)
      BY <2>1, <2>2, <2>3 DEF WindowOK
    <2>4. CASE ~(d.order = <<>> \/ Full(d))
      <3>1. g[i] = FlushOne(d, vs) /\ g[i] \in J /\ Len(g[i].order) < Len(d.order)
        BY <2>1, <2>2, <2>4
      <3>2. Len(d.order) <= n - (i - 1) /\ Len(d.order) \in Nat
        BY <2>2, <2>4 DEF WindowOK
      <3>3. g[i].order \in Seq(Keys)
        BY <3>1
      <3>4. Len(g[i].order) <= n - i
        BY <1>0, <3>1, <3>2, <3>3
      <3> QED BY <3>1, <3>4
    <2> QED BY <2>3, <2>4
  <1> HIDE DEF T
  <1>4a. 0..n \subseteq T
    <2> HIDE DEF n
    <2> QED BY <1>0, <1>3, <1>4, AllPlaces
  <1>5. n \in T
    BY <1>0, <1>4a
  <1>6. g[n] \in J /\ (WindowOK(g[n]) \/ Len(g[n].order) <= 0)
    BY <1>0, <1>5 DEF T
  <1>7. g[n].order \in Seq(Keys)
    BY <1>6
  <1>8. WindowOK(g[n])
    BY <1>6, <1>7 DEF WindowOK
  <1> QED BY <1>2, <1>6, <1>8

\* A relay sends what waits as it is.
LEMMA RelayFlush ==
  ASSUME NEW c \in Relay, SlotsOK(c), \A m \in Members : ~c.slots[m].lazy, NEW vs
  PROVE  Moved(c, Flush(c, vs)) /\ WindowOK(Flush(c, vs))
  <1> DEFINE J == {d \in Relay : Moved(c, d)}
  <1>1. c \in Sender
    BY DEF Sender
  <1>2. c \in J
    BY <1>1, MovedIs
  <1>3. ASSUME NEW d \in J PROVE d.order \in Seq(Keys) /\ d \in Sender /\ d \in Relay /\ Moved(c, d)
    BY SenderIs DEF Sender
  <1>4. ASSUME NEW d \in J, d.order # <<>>
        PROVE  FlushOne(d, vs) \in J /\ Len(FlushOne(d, vs).order) < Len(d.order)
    <2>1. d.order \in Seq(Members) /\ SlotsOK(d) /\ \A m \in Members : ~d.slots[m].lazy
      BY <1>3, IdleIs DEF Relay, Moved
    <2>2. Head(d.order) \in Members
      BY <1>4, <2>1
    <2>3. Moved(d, FlushOne(d, vs)) /\ Len(FlushOne(d, vs).order) < Len(d.order)
      BY <1>3, <1>4, <2>1, <2>2, FlushOneMoves
    <2>4. FlushOne(d, vs) \in Relay
      BY <1>3, <2>3 DEF Moved, Kept
    <2>5. Moved(c, FlushOne(d, vs))
      BY <1>1, <1>3, <2>3, <2>4, MovedIs DEF Sender
    <2> QED BY <2>3, <2>4, <2>5
  <1> HIDE DEF J
  <1>5. Flush(c, vs) \in J /\ WindowOK(Flush(c, vs))
    BY <1>2, <1>3, <1>4, FlushKeeps
  <1> QED BY <1>5 DEF J

-----------------------------------------------------------------------------
(* Snapshots that follow a shape.                                             *)

\* Of a member, its snapshot or the error that is sent instead.
Snaps(h, st, n, S) ==
  {State(h, k, "snap", [s |-> st, n |-> n[k]], <<>>) : k \in S} \cup {Error(h, k) : k \in S}

LEMMA SnapsIs ==
  ASSUME NEW h \in Nat, NEW st \in Nat \ {0}, NEW n \in [Members -> Nat], NEW S \in SUBSET Members,
         NEW f \in Snaps(h, st, n, S)
  PROVE  /\ f \in Frame /\ f.t = "state" /\ f.h = h /\ f.m \in S /\ f.as \in {"snap", "error"}
         /\ f.as = "snap" => f.at = [s |-> st, n |-> n[f.m]]
         /\ f.as = "error" => f.at = Failed
  <1>1. CASE \E k \in S : f = State(h, k, "snap", [s |-> st, n |-> n[k]], <<>>)
    <2>1. PICK k \in S : f = State(h, k, "snap", [s |-> st, n |-> n[k]], <<>>)
      BY <1>1
    <2>2. [s |-> st, n |-> n[k]] \in Value /\ <<>> \in Seq(Edit)
      BY DEF Value
    <2>3. f \in Frame
      BY <2>1, <2>2, FrameMakes
    <2> QED BY <2>1, <2>2, <2>3 DEF State
  <1>2. CASE \E k \in S : f = Error(h, k)
    <2>1. PICK k \in S : f = Error(h, k)
      BY <1>2
    <2>2. f \in Frame
      BY <2>1, FrameMakes
    <2> QED BY <2>1, <2>2 DEF Error, State
  <1> QED BY <1>1, <1>2 DEF Snaps

LEMMA SnapsFold ==
  ASSUME NEW h \in Nat, NEW st \in Nat \ {0}, NEW n \in [Members -> Nat], NEW S \in SUBSET Members,
         NEW q \in Seq(Snaps(h, st, n, S))
  PROVE  /\ q \in Seq(Frame) /\ \A i \in DOMAIN q : q[i].h = h
         /\ \A hs : \A x \in SUBSET Keys : Fold(Shaping(hs), q, x) = x
         /\ \A i : \A x \in 0..2 : i # h \/ x = 1 => Fold(Seen(i), q, x) = x
         /\ \A m : \A hs : \A x \in Level : m \notin S => Fold(Hearing(m, hs), q, x) = x
  <1> DEFINE X == Snaps(h, st, n, S)
  <1>1. \A f \in X : f \in Frame /\ f.t = "state" /\ f.h = h /\ f.m \in S
    <2>1. ASSUME NEW f \in X
          PROVE  /\ f \in Frame /\ f.t = "state" /\ f.h = h /\ f.m \in S /\ f.as \in {"snap", "error"}
                 /\ f.as = "snap" => f.at = [s |-> st, n |-> n[f.m]]
                 /\ f.as = "error" => f.at = Failed
      BY SnapsIs
    <2> QED BY <2>1
  <1> HIDE DEF X
  <1>2. q \in Seq(X)
    BY DEF X
  <1>3. X \subseteq Frame
    BY <1>1
  <1>4. q \in Seq(Frame) /\ \A i \in DOMAIN q : q[i].h = h
    BY <1>1, <1>2, <1>3
  <1>5. ASSUME NEW hs, NEW x \in SUBSET Keys PROVE Fold(Shaping(hs), q, x) = x
    <2>0. ASSUME NEW f \in X PROVE Shaping(hs)[<<x, f>>] = x
      <3>1. f \in Frame /\ f.t # "shape" /\ x \in SUBSET Keys
        BY <1>1
      <3>2. Shaping(hs)[<<x, f>>] = IF f.t = "shape" /\ f.h \in hs THEN f.members ELSE x
        BY <3>1, ShapingAt
      <3> QED BY <3>1, <3>2
    <2>1. \A z \in {x} : \A f \in X : Shaping(hs)[<<z, f>>] \in {x}
      BY <2>0
    <2>2. Fold(Shaping(hs), q, x) \in {x}
      BY <1>2, <2>1, FoldStays
    <2> QED BY <2>2
  <1>6. ASSUME NEW i, NEW x \in 0..2, i # h \/ x = 1 PROVE Fold(Seen(i), q, x) = x
    <2>1. \A z \in {x} : \A f \in X : Seen(i)[<<z, f>>] \in {x}
      BY <1>1, <1>6, SeenAt
    <2>2. Fold(Seen(i), q, x) \in {x}
      BY <1>2, <2>1, FoldStays
    <2> QED BY <2>2
  <1>7. ASSUME NEW m, NEW hs, NEW x \in Level, m \notin S PROVE Fold(Hearing(m, hs), q, x) = x
    <2>1. ASSUME NEW f \in X PROVE Hearing(m, hs)[<<x, f>>] = x
      <3>1. f.m # m /\ f.t = "state" /\ f \in Frame
        BY <1>1, <1>7
      <3>2. Heard(x, m, f) = x
        BY <3>1 DEF Heard
      <3> QED BY <3>1, <3>2, HearingAt
    <2>2. \A z \in {x} : \A f \in X : Hearing(m, hs)[<<z, f>>] \in {x}
      BY <2>1
    <2>3. Fold(Hearing(m, hs), q, x) \in {x}
      BY <1>2, <2>2, FoldStays
    <2> QED BY <2>3
  <1> QED BY <1>4, <1>5, <1>6, <1>7

\* A member's snapshot is what is known of it after them.
LEMMA SnapsHeard ==
  ASSUME NEW h \in Nat, NEW st \in Nat \ {0}, NEW n \in [Members -> Nat], NEW S \in SUBSET Members,
         NEW q \in Seq(Snaps(h, st, n, S)), NEW m \in S, \E i \in DOMAIN q : q[i].m = m,
         NEW hs, h \in hs, NEW x \in Level, Known(x)
  PROVE  Fold(Hearing(m, hs), q, x) \in {Failed, [s |-> st, n |-> n[m]]}
  <1> DEFINE X == Snaps(h, st, n, S)
             l == Len(q)
             at == [s |-> st, n |-> n[m]]
             J == [i \in 0..l |-> {v \in Level : Known(v) /\ ((\E j \in 1..i : q[j].m = m) => v \in {Failed, at})}]
  <1>1. \A f \in X : /\ f \in Frame /\ f.t = "state" /\ f.h = h /\ f.m \in S
                     /\ f.as \in {"snap", "error"}
                     /\ f.as = "snap" => f.at = [s |-> st, n |-> n[f.m]]
                     /\ f.as = "error" => f.at = Failed
    <2>1. ASSUME NEW f \in X
          PROVE  /\ f \in Frame /\ f.t = "state" /\ f.h = h /\ f.m \in S
                 /\ f.as \in {"snap", "error"}
                 /\ f.as = "snap" => f.at = [s |-> st, n |-> n[f.m]]
                 /\ f.as = "error" => f.at = Failed
      BY SnapsIs
    <2> QED BY <2>1
  <1> HIDE DEF X
  <1>2. q \in Seq(X) /\ l \in Nat /\ DOMAIN q = 1..l
    BY DEF X
  <1>3. PICK g : Folds(g, l, Hearing(m, hs), q, x)
    BY <1>2, FoldExists
  <1>4. x \in J[0]
    BY <1>2
  <1>5. ASSUME NEW i \in 1..l, NEW v \in J[i - 1] PROVE Hearing(m, hs)[<<v, q[i]>>] \in J[i]
    <2>1. v \in Level /\ Known(v) /\ ((\E j \in 1..(i - 1) : q[j].m = m) => v \in {Failed, at})
      BY <1>2
    <2>2. q[i] \in X
      BY <1>2
    <2> DEFINE f == q[i]
               w == Hearing(m, hs)[<<v, f>>]
    <2>3. f \in Frame /\ f.t = "state" /\ f.h \in hs /\ f.as # "ops"
      BY <1>1, <2>2
    <2>4. f.m = m => f.at \in {Failed, at}
      BY <1>1, <2>2
    <2>5. w = Heard(v, m, f) /\ w \in Level
      BY <2>1, <2>3, HearingAt
    <2>6. Known(w)
      BY <2>1, <2>3, <2>5, HeardState
    <2>7. f.m = m => w \in {Failed, at}
      BY <2>1, <2>3, <2>4, <2>5 DEF Heard
    <2>8. f.m # m => w = v
      BY <2>3, <2>5 DEF Heard
    <2> HIDE DEF w
    <2>9. \A j \in 1..i : j \in 1..(i - 1) \/ j = i
      OBVIOUS
    <2>10. (\E j \in 1..i : q[j].m = m) => w \in {Failed, at}
      BY <2>1, <2>7, <2>8, <2>9
    <2>11. i \in 0..l
      BY <1>2
    <2>12. w \in J[i]
      BY <2>5, <2>6, <2>10, <2>11
    <2> QED BY <2>12 DEF w
  <1> HIDE DEF J
  <1>6. g[l] \in J[l]
    BY <1>2, <1>3, <1>4, <1>5, FoldSteps
  <1>7. Fold(Hearing(m, hs), q, x) = g[l]
    BY <1>2, <1>3, FoldIs
  <1>8. g[l] \in {Failed, at}
    <2>1. l \in 0..l
      BY <1>2
    <2> QED BY <1>2, <1>6, <2>1 DEF J
  <1> QED BY <1>7, <1>8

\* The same of what a view reads, whose value is no later than the snapshot's.
LEMMA SnapsTold ==
  ASSUME NEW h \in Nat, NEW st \in Nat \ {0}, NEW n \in [Members -> Nat], NEW S \in SUBSET Members,
         NEW q \in Seq(Snaps(h, st, n, S)), NEW m \in Members, NEW hs, h \in hs, NEW x \in Level
  PROVE  /\ m \notin S => Fold(Telling(m, hs), q, x) = x
         /\ m \in S /\ (\E i \in DOMAIN q : q[i].m = m) /\ Known(x) /\ x.n <= n[m] =>
              LET y == Fold(Telling(m, hs), q, x) IN
              /\ Known(y) /\ y.n <= n[m]
              /\ y.s = 0 \/ y = [s |-> st, n |-> n[m]]
  <1> DEFINE X == Snaps(h, st, n, S)
             l == Len(q)
             at == [s |-> st, n |-> n[m]]
             W(i) == {v \in Level : /\ Known(v) /\ v.n <= n[m]
                                    /\ (\E j \in 1..i : q[j].m = m) => v.s = 0 \/ v = at}
             J == [i \in 0..l |-> W(i)]
  <1>1. \A f \in X : /\ f \in Frame /\ f.t = "state" /\ f.h = h /\ f.m \in S
                     /\ f.as \in {"snap", "error"}
                     /\ f.as = "snap" => f.at = [s |-> st, n |-> n[f.m]]
                     /\ f.as = "error" => f.at = Failed
    <2>1. ASSUME NEW f \in X
          PROVE  /\ f \in Frame /\ f.t = "state" /\ f.h = h /\ f.m \in S
                 /\ f.as \in {"snap", "error"}
                 /\ f.as = "snap" => f.at = [s |-> st, n |-> n[f.m]]
                 /\ f.as = "error" => f.at = Failed
      BY SnapsIs
    <2> QED BY <2>1
  <1> HIDE DEF X
  <1>2. q \in Seq(X) /\ l \in Nat /\ DOMAIN q = 1..l
    BY DEF X
  <1>3. ASSUME m \notin S PROVE Fold(Telling(m, hs), q, x) = x
    <2>1. ASSUME NEW f \in X PROVE Telling(m, hs)[<<x, f>>] = x
      <3>1. f.m # m /\ f \in Frame
        BY <1>1, <1>3
      <3> QED BY <3>1, ToldIs, TellingAt
    <2>2. \A z \in {x} : \A f \in X : Telling(m, hs)[<<z, f>>] \in {x}
      BY <2>1
    <2>3. Fold(Telling(m, hs), q, x) \in {x}
      BY <1>2, <2>2, FoldStays
    <2> QED BY <2>3
  <1>4. ASSUME m \in S, \E i \in DOMAIN q : q[i].m = m, Known(x), x.n <= n[m]
        PROVE  LET y == Fold(Telling(m, hs), q, x) IN
               Known(y) /\ y.n <= n[m] /\ (y.s = 0 \/ y = at)
    <2>1. PICK g : Folds(g, l, Telling(m, hs), q, x)
      BY <1>2, FoldExists
    <2>2. x \in J[0]
      BY <1>2, <1>4
    <2>3. ASSUME NEW i \in 1..l, NEW v \in J[i - 1] PROVE Telling(m, hs)[<<v, q[i]>>] \in J[i]
      <3>1. /\ v \in Level /\ Known(v) /\ v.n <= n[m]
            /\ (\E j \in 1..(i - 1) : q[j].m = m) => v.s = 0 \/ v = at
        <4>1. i - 1 \in 0..l
          BY <1>2
        <4> HIDE DEF W, at
        <4>2. v \in W(i - 1)
          BY <4>1
        <4> QED BY <4>2 DEF W
      <3>2. q[i] \in X
        BY <1>2
      <3> DEFINE f == q[i]
                 w == Telling(m, hs)[<<v, f>>]
      <3>3. f \in Frame /\ f.t = "state" /\ f.h \in hs /\ f.as # "ops"
        BY <1>1, <3>2
      <3>4. f.m = m /\ f.as = "snap" => f.at = at
        BY <1>1, <3>2
      <3>5. w = Told(v, m, f) /\ w \in Level
        BY <3>1, <3>3, TellingAt
      <3>6. at.n = n[m] /\ at \in Value /\ Known(at) /\ n[m] \in Nat
        <4>1. at \in Value
          BY DEF Value
        <4> QED BY <4>1, LevelIs
      <3>6a. v.n \in Nat
        BY <3>1 DEF Level, Value, Unknown
      <3>6b. f.m = m /\ f.as = "error" => w = Absent(v.n)
        BY <3>1, <3>3, <3>5 DEF Told
      <3>7. f.m = m /\ f.as = "snap" => w = at
        <4>1. ASSUME f.m = m, f.as = "snap" PROVE ~(f.at.n < v.n)
          <5>1. f.at.n = n[m] /\ v.n \in Nat
            BY <3>1, <3>4, <3>6, <4>1 DEF Level, Value, Unknown
          <5> QED BY <3>1, <3>6, <5>1
        <4> HIDE DEF w, at
        <4>2. ASSUME f.m = m, f.as = "snap" PROVE w = f.at
          BY <3>1, <3>3, <3>5, <4>1, <4>2 DEF Told
        <4> QED BY <3>4, <4>2
      <3>8. f.m # m => w = v
        BY <3>3, <3>5 DEF Told
      <3> HIDE DEF w, at
      <3>9. \A j \in 1..i : j \in 1..(i - 1) \/ j = i
        OBVIOUS
      <3>9a. f.as = "snap" \/ f.as = "error"
        BY <1>1, <3>2
      <3>10. (\E j \in 1..i : q[j].m = m) => w.s = 0 \/ w = at
        BY <3>1, <3>6a, <3>6b, <3>7, <3>8, <3>9, <3>9a, AbsentIs
      <3>11. Known(w) /\ w.n <= n[m]
        <4>1. CASE f.m = m
          BY <3>1, <3>6, <3>6a, <3>6b, <3>7, <3>9a, <4>1, AbsentIs
        <4>2. CASE f.m # m
          BY <3>1, <3>8, <4>2
        <4> QED BY <4>1, <4>2
      <3>12. i \in 0..l
        BY <1>2
      <3>13. w \in J[i]
        BY <3>5, <3>10, <3>11, <3>12
      <3> QED BY <3>13 DEF w
    <2> HIDE DEF J
    <2>4. g[l] \in J[l]
      BY <1>2, <2>1, <2>2, <2>3, FoldSteps
    <2>5. Fold(Telling(m, hs), q, x) = g[l]
      BY <1>2, <2>1, FoldIs
    <2>6. Known(g[l]) /\ g[l].n <= n[m] /\ (g[l].s = 0 \/ g[l] = at)
      <3>1. l \in 0..l
        BY <1>2
      <3> HIDE DEF W
      <3>2. g[l] \in W(l)
        BY <2>4, <3>1 DEF J
      <3> HIDE DEF at
      <3> QED BY <1>2, <1>4, <3>2 DEF W
    <2> QED BY <2>5, <2>6
  <1> QED BY <1>3, <1>4

-----------------------------------------------------------------------------
(* The provider.                                                              *)

Bounded(q, l) == \A i \in DOMAIN q : q[i].h <= l

\* What waits is of a served hold and of fed members, which the wish is for.
FeedsOK(p, vs) ==
  /\ SlotsOK(p)
  /\ \A m \in Members : Waits(p, m) => m \in Fed(p)
  /\ Waits(p, "unit") => p.hold # NoHold
  /\ Fed(p) \subseteq vs
  /\ p.hold = NoHold \/ ~p.wants => Fed(p) = {}

\* No state of the hold h goes before its first shape.
First(h, p) ==
  LET s == Fold(Seen(h), p.out, 0) IN s # 2 /\ (s = 0 /\ p.hold = h => Fed(p) = {})

\* With what is known where its frames come, the provider has sent, or will send,
\* the values n of the fed members or an error, or is asked for those in again.
TellsValues(p, n, in, again) ==
  \A m \in Fed(p) :
    LET x == Reach(p, m, {p.hold}, in[m]) IN
    Known(x) /\ (p.slots[m].lazy \/ m \in again \/ x \in {Failed, [s |-> p.feeds[m], n |-> n[m]]})

\* The same of the shape vs, of which every member is fed.
TellsShape(p, vs, u) ==
  Waits(p, "unit") \/ (Fed(p) = vs /\ Fold(Shaping({p.hold}), p.out, u) = vs)

\* With the value v of m where the provider's frames come, all that it has sent and
\* that waits fits, up to the value n; what a fed member comes to is that value, if
\* it comes to one at all.
Tracks(p, n, m, v) ==
  LET x == Trail(p, m, {p.hold}, v) IN
  /\ Known(x) /\ x.n <= n[m]
  /\ m \in Fed(p) => p.slots[m].lazy \/ x.s = 0 \/ x = [s |-> p.feeds[m], n |-> n[m]]
TracksOn(p, n, d, n2) ==
  \A m \in Members : \A v \in Level : Tracks(p, n, m, v) => Tracks(d, n2, m, v)

\* d is p after frames were sent: nothing that was told is lost.
Steady(p, d, vs) ==
  /\ d \in Provider /\ d.hold = p.hold /\ d.wants = p.wants /\ d.again = p.again
  /\ d.processed = p.processed /\ Len(d.out) >= Len(p.out)
  /\ FeedsOK(d, vs)
  /\ \A l : p.hold <= l /\ Bounded(p.out, l) => Bounded(d.out, l)
  /\ \A h : First(h, p) => First(h, d)
  /\ p.wants => \A in \in [Members -> Level] : \A again :
                  TellsValues(p, val, in, again) =>
                    /\ TellsValues(d, val, in, again)
                    /\ \A u \in SUBSET Keys : TellsShape(p, vs, u) => TellsShape(d, vs, u)
  /\ TracksOn(p, val, d, val)

LEMMA ProviderIs ==
  ASSUME NEW p \in Provider
  PROVE  /\ p \in Sender /\ p.out \in Seq(Frame) /\ Len(p.out) \in Nat /\ p.processed \in Nat
         /\ p.order \in Seq(Keys) /\ p.hold \in Nat /\ p.wants \in BOOLEAN
         /\ p.feeds \in [Members -> Nat] /\ p.next \in Nat /\ p.next # 0
         /\ p.provides /\ p.again \in BOOLEAN
         /\ Fed(p) \in SUBSET Members
         /\ \A m \in Members : m \in Fed(p) <=> p.feeds[m] # 0
         /\ \A m \in Members : p.slots[m] \in Slot /\ m \in Keys
  <1>1. p \in Sender
    BY DEF Sender
  <1>2. /\ p.out \in Seq(Frame) /\ Len(p.out) \in Nat /\ p.processed \in Nat
        /\ p.order \in Seq(Keys) /\ p.hold \in Nat /\ \A m \in Members : p.slots[m] \in Slot /\ m \in Keys
    BY <1>1, SenderIs DEF Keys
  <1>3. /\ p.wants \in BOOLEAN /\ p.again \in BOOLEAN /\ p.provides
        /\ p.feeds \in [Members -> Nat] /\ p.next \in Nat /\ p.next # 0
    BY DEF Provider
  <1> QED BY <1>1, <1>2, <1>3 DEF Fed

LEMMA TracksStay ==
  ASSUME NEW p \in Provider, NEW d \in Provider, d.hold = p.hold, NEW n, NEW m \in Members, NEW v,
         Trail(d, m, {p.hold}, v) = Trail(p, m, {p.hold}, v), d.feeds[m] = p.feeds[m],
         p.slots[m].lazy => d.slots[m].lazy, Tracks(p, n, m, v)
  PROVE  Tracks(d, n, m, v)
  <1>1. m \in Fed(d) <=> m \in Fed(p)
    BY DEF Fed
  <1> QED BY <1>1 DEF Tracks

LEMMA TracksFold ==
  ASSUME NEW p \in Provider, NEW n \in [Members -> Nat], NEW m \in Members, NEW v \in Level,
         Tracks(p, n, m, v)
  PROVE  LET x == Fold(Telling(m, {p.hold}), p.out, v) IN x \in Level /\ Known(x) /\ x.n <= n[m]
  <1> DEFINE x == Fold(Telling(m, {p.hold}), p.out, v)
             y == Trail(p, m, {p.hold}, v)
  <1>1. x \in Level /\ y \in Level /\ Later(x, y)
    BY ProviderIs, TrailIs
  <1>2. Known(y) /\ y.n <= n[m]
    BY DEF Tracks
  <1> HIDE DEF x, y
  <1>3. Known(x) /\ x.n <= y.n
    BY <1>1, <1>2 DEF Later
  <1>4. x.n \in Nat /\ y.n \in Nat /\ n[m] \in Nat
    BY <1>1 DEF Level, Value, Unknown
  <1>5. x.n <= n[m]
    BY <1>2, <1>3, <1>4
  <1> QED BY <1>1, <1>3, <1>5 DEF x

LEMMA TracksLess ==
  ASSUME NEW p \in Provider, NEW d \in Provider, d.hold = p.hold, d.out = p.out,
         NEW n \in [Members -> Nat], NEW m \in Members, NEW v \in Level,
         d.slots[m] = Lazy \/ (d.slots[m] = Idle /\ d.feeds[m] = 0),
         Tracks(p, n, m, v)
  PROVE  Tracks(d, n, m, v)
  <1> DEFINE x == Fold(Telling(m, {p.hold}), p.out, v)
  <1>1. Known(x) /\ x.n <= n[m]
    BY TracksFold
  <1>2. Trail(d, m, {d.hold}, v) = x
    BY ProviderIs, TrailIs
  <1>3. d.slots[m].lazy \/ m \notin Fed(d)
    BY DEF Fed, Lazy
  <1> QED BY <1>1, <1>2, <1>3 DEF Tracks

\* What a view reads is the value [st, k], or it failed.
Renews(x, st, k) == Known(x) /\ x.n <= k /\ (x.s = 0 \/ x = [s |-> st, n |-> k])

\* A value that is sent anew, or the error that is sent instead.
Anew(f, h, m, st, k) ==
  /\ f \in Frame /\ f.t = "state" /\ f.h = h /\ f.m = m /\ f.as \in {"snap", "reset", "error"}
  /\ IF f.as = "error" THEN f.at = Failed ELSE f.at = [s |-> st, n |-> k]

LEMMA SnapshotIs ==
  ASSUME NEW p, NEW m \in Members, NEW as \in {"snap", "reset"}, NEW k \in Nat, NEW fits,
         p.hold \in Nat, p.feeds[m] \in Nat \ {0}
  PROVE  Anew(Snapshot(p, m, as, k, fits), p.hold, m, p.feeds[m], k)
  <1> DEFINE at == [s |-> p.feeds[m], n |-> k]
             f == State(p.hold, m, as, at, <<>>)
  <1>1. at \in Value /\ at.s # 0 /\ <<>> \in Seq(Edit)
    BY DEF Value
  <1> HIDE DEF at
  <1>2. f \in Frame /\ Error(p.hold, m) \in Frame
    BY <1>1, FrameMakes
  <1>3. f.t = "state" /\ f.h = p.hold /\ f.m = m /\ f.as = as /\ f.at = at
    BY DEF State
  <1>4. CASE fits
    <2>1. Snapshot(p, m, as, k, fits) = f
      BY <1>4 DEF Snapshot, at
    <2> HIDE DEF f
    <2> QED BY <1>2, <1>3, <2>1 DEF Anew, at
  <1>5. CASE ~fits
    <2>1. Snapshot(p, m, as, k, fits) = Error(p.hold, m)
      BY <1>5 DEF Snapshot
    <2> QED BY <1>2, <2>1 DEF Anew, Error, State
  <1> QED BY <1>4, <1>5

\* What is known, and what a view reads, once it came.
LEMMA AnewIs ==
  ASSUME NEW f, NEW h, NEW m, NEW st \in Nat, NEW k \in Nat, Anew(f, h, m, st, k)
  PROVE  /\ \A v \in Level : Known(v) => Heard(v, m, f) = f.at /\ Known(f.at)
         /\ \A v \in Level : Known(v) /\ v.n <= k => Renews(Told(v, m, f), st, k)
         /\ f.at \in {Failed, [s |-> st, n |-> k]}
         /\ f.as # "ops"
  <1> DEFINE at == [s |-> st, n |-> k]
  <1>1. at \in Value /\ at.n = k /\ at.s = st /\ Known(at) /\ Known(Failed) /\ f.t = "state" /\ f.m = m
    BY LevelIs DEF Value, Anew
  <1>2. f.as # "ops" /\ (f.as = "error" => f.at = Failed) /\ (f.as # "error" => f.at = at)
    BY DEF Anew
  <1> HIDE DEF at
  <1>3. ASSUME NEW v \in Level, Known(v) PROVE Heard(v, m, f) = f.at
    BY <1>1, <1>2, <1>3 DEF Heard
  <1>4. ASSUME NEW v \in Level, Known(v), v.n <= k PROVE Renews(Told(v, m, f), st, k)
    <2>1. v.n \in Nat
      BY <1>4 DEF Level, Value, Unknown
    <2>2. CASE f.as = "error"
      <3>1. Told(v, m, f) = Absent(v.n)
        BY <1>1, <1>4, <2>2 DEF Told
      <3> QED BY <1>4, <2>1, <3>1, AbsentIs DEF Renews
    <2>3. CASE f.as # "error"
      <3>1. ~(f.at.n < v.n)
        BY <1>1, <1>2, <1>4, <2>1, <2>3
      <3>2. Told(v, m, f) = at
        BY <1>1, <1>2, <1>4, <2>3, <3>1 DEF Told
      <3> QED BY <1>1, <3>2 DEF Renews, at
    <2> QED BY <2>2, <2>3
  <1> QED BY <1>1, <1>2, <1>3, <1>4 DEF at

LEMMA TracksAnew ==
  ASSUME NEW d \in Provider, NEW n \in [Members -> Nat], NEW m \in Members, NEW v \in Level,
         d.slots[m] = Idle,
         Renews(Fold(Telling(m, {d.hold}), d.out, v), d.feeds[m], n[m])
  PROVE  Tracks(d, n, m, v)
  <1> DEFINE x == Fold(Telling(m, {d.hold}), d.out, v)
  <1>1. Trail(d, m, {d.hold}, v) = x
    BY ProviderIs, TrailIs
  <1> HIDE DEF x
  <1>2. Renews(x, d.feeds[m], n[m])
    BY DEF x
  <1> QED BY <1>1, <1>2 DEF Tracks, Renews

LEMMA TracksOnIs ==
  ASSUME NEW p, NEW n PROVE TracksOn(p, n, p, n)
  BY DEF TracksOn

LEMMA TracksOnTwice ==
  ASSUME NEW p, NEW n, NEW d, NEW n2, NEW w, NEW n3, TracksOn(p, n, d, n2), TracksOn(d, n2, w, n3)
  PROVE  TracksOn(p, n, w, n3)
  BY DEF TracksOn

LEMMA SendUnitIs ==
  ASSUME NEW p \in Provider, NEW vs \in SUBSET Members, val \in [Members -> Nat],
         FeedsOK(p, vs), p.hold # NoHold
  PROVE  LET d == SendUnit(p, vs) IN
         /\ Steady(p, d, vs)
         /\ p.wants => \A in \in [Members -> Level] : \A again : \A u \in SUBSET Keys :
              TellsValues(p, val, in, again) => TellsShape(d, vs, u)
         /\ Len(d.order) <= Len(p.order)
         /\ Waits(p, "unit") => Len(d.order) < Len(p.order)
  <1> DEFINE listed == IF p.wants THEN vs \ Fed(p) ELSE {}
             w == Forget(p, {"unit"})
             feeds == [m \in Members |-> IF m \in listed THEN p.next ELSE w.feeds[m]]
             fed == [w EXCEPT !.unitSent = TRUE, !.next = w.next + 1, !.feeds = feeds]
             order == SetToSeq(listed)
             shape == Shape(p.hold, vs, listed)
             snaps == [i \in DOMAIN order |-> Snap(fed, order[i], "snap")]
             out == Append(fed.out, shape) \o snaps
             d == [fed EXCEPT !.out = out]
             X == Snaps(p.hold, p.next, val, listed)
  <1>1. SendUnit(p, vs) = d
    BY DEF SendUnit
  <1>2. /\ p \in Sender /\ p.out \in Seq(Frame) /\ Len(p.out) \in Nat
        /\ p.hold \in Nat /\ p.feeds \in [Members -> Nat] /\ p.next \in Nat /\ p.next # 0
        /\ Fed(p) \in SUBSET Members /\ \A m \in Members : m \in Fed(p) <=> p.feeds[m] # 0
    BY ProviderIs
  <1>3. /\ Kept(p, w) /\ w.out = p.out
        /\ \A k \in Keys : w.slots[k] = IF k = "unit" THEN Idle ELSE p.slots[k]
        /\ \A k : Waits(w, k) <=> Waits(p, k) /\ k # "unit"
        /\ Len(w.order) <= Len(p.order)
        /\ Waits(p, "unit") => Len(w.order) < Len(p.order)
    BY <1>2, ForgetIs
  <1> HIDE DEF w
  <1>4. /\ w \in Provider /\ w.hold = p.hold /\ w.wants = p.wants /\ w.again = p.again
        /\ w.processed = p.processed /\ w.feeds = p.feeds /\ w.next = p.next
    BY <1>3 DEF Kept
  <1>5. listed \in SUBSET Members /\ listed \subseteq vs /\ \A m \in listed : m \notin Fed(p)
    OBVIOUS
  <1>6. p.wants => listed = vs \ Fed(p)
    OBVIOUS
  <1>7. ~p.wants => listed = {}
    OBVIOUS
  <1> HIDE DEF listed
  <1>8. feeds \in [Members -> Nat] /\ \A m \in Members : feeds[m] = IF m \in listed THEN p.next ELSE p.feeds[m]
    BY <1>2, <1>4
  <1> HIDE DEF feeds
  <1>9. /\ fed \in Provider /\ fed.hold = p.hold /\ fed.wants = p.wants /\ fed.again = p.again
        /\ fed.processed = p.processed /\ fed.feeds = feeds /\ fed.out = p.out
        /\ fed.order = w.order /\ fed.slots = w.slots
    <2> DEFINE next == w.next + 1
    <2>1. next \in Nat \ {0} /\ fed = [w EXCEPT !.unitSent = TRUE, !.next = next, !.feeds = feeds]
      BY <1>2, <1>4
    <2> HIDE DEF next, fed
    <2>2. fed \in Provider
      BY <1>4, <1>8, <2>1 DEF Provider
    <2>3. /\ fed.hold = w.hold /\ fed.wants = w.wants /\ fed.again = w.again
          /\ fed.processed = w.processed /\ fed.feeds = feeds /\ fed.out = w.out
          /\ fed.order = w.order /\ fed.slots = w.slots
      BY <1>4, <2>1 DEF Provider
    <2> QED BY <1>3, <1>4, <2>2, <2>3
  <1> HIDE DEF fed
  <1>10. order \in Seq(listed) /\ \A k : In(order, k) <=> k \in listed
    BY <1>5, MembersAssumption, FS_Subset, SetInSeq
  <1> HIDE DEF order
  <1>11. snaps \in Seq(X) /\ \A k \in listed : \E i \in DOMAIN snaps : snaps[i].m = k
    <2>1. \A k \in listed : Snap(fed, k, "snap") \in X /\ Snap(fed, k, "snap").m = k
      <3>1. ASSUME NEW k \in listed PROVE Snap(fed, k, "snap") \in X /\ Snap(fed, k, "snap").m = k
        <4>1. \/ Snap(fed, k, "snap") = State(p.hold, k, "snap", [s |-> p.next, n |-> val[k]], <<>>)
              \/ Snap(fed, k, "snap") = Error(p.hold, k)
          BY <1>5, <1>8, <1>9 DEF Snap, Snapshot
        <4> QED BY <4>1 DEF Snaps, State, Error
      <3> QED BY <3>1
    <2>2. DOMAIN order = 1..Len(order) /\ Len(order) \in Nat /\ \A i \in DOMAIN order : order[i] \in listed
      BY <1>10
    <2>3. DOMAIN snaps = DOMAIN order /\ \A i \in DOMAIN order : snaps[i] = Snap(fed, order[i], "snap")
      OBVIOUS
    <2>4. snaps \in Seq(X)
      <3> HIDE DEF X
      <3>1. snaps \in [1..Len(order) -> X]
        BY <2>1, <2>2, <2>3
      <3> QED BY <2>2, <3>1
    <2> HIDE DEF snaps
    <2>5. ASSUME NEW k \in listed PROVE \E i \in DOMAIN snaps : snaps[i].m = k
      <3>1. PICK i \in DOMAIN order : order[i] = k
        BY <1>10, <2>5 DEF In
      <3> QED BY <2>1, <2>3, <3>1
    <2> QED BY <2>4, <2>5
  <1> HIDE DEF snaps
  <1>12. shape \in Frame /\ shape.t = "shape" /\ shape.h = p.hold /\ shape.members = vs /\ shape.listed = listed
    BY <1>2, <1>5, FrameMakes DEF Shape
  <1> HIDE DEF shape
  <1>12a. p.next \in Nat \ {0}
    BY ProviderIs
  <1>13. /\ snaps \in Seq(Frame) /\ \A i \in DOMAIN snaps : snaps[i].h = p.hold
         /\ \A hs : \A x \in SUBSET Keys : Fold(Shaping(hs), snaps, x) = x
         /\ \A i : \A x \in 0..2 : i # p.hold \/ x = 1 => Fold(Seen(i), snaps, x) = x
         /\ \A m : \A hs : \A x \in Level : m \notin listed => Fold(Hearing(m, hs), snaps, x) = x
    BY <1>2, <1>5, <1>11, <1>12a, SnapsFold
  <1> DEFINE mid == Append(p.out, shape)
  <1>14. mid \in Seq(Frame) /\ out = mid \o snaps /\ out \in Seq(Frame)
    BY <1>2, <1>9, <1>12, <1>13
  <1>15. Len(out) >= Len(p.out) /\ \A l : p.hold <= l /\ Bounded(p.out, l) => Bounded(out, l)
    <2>1. /\ Len(out) = Len(p.out) + 1 + Len(snaps) /\ Len(snaps) \in Nat
          /\ DOMAIN out = 1..(Len(p.out) + 1 + Len(snaps)) /\ DOMAIN snaps = 1..Len(snaps)
          /\ DOMAIN p.out = 1..Len(p.out)
      BY <1>2, <1>12, <1>13, <1>14
    <2>2. ASSUME NEW i \in DOMAIN out
          PROVE  \/ i \in DOMAIN p.out /\ out[i] = p.out[i]
                 \/ out[i] = shape
                 \/ \E j \in DOMAIN snaps : out[i] = snaps[j]
      <3>1. Len(mid) = Len(p.out) + 1 /\ out[i] = IF i <= Len(mid) THEN mid[i] ELSE snaps[i - Len(mid)]
        BY <1>2, <1>13, <1>14, <2>1
      <3>2. mid[Len(p.out) + 1] = shape /\ \A j \in 1..Len(p.out) : mid[j] = p.out[j]
        BY <1>2
      <3>3. i \in 1..Len(p.out) \/ i = Len(p.out) + 1 \/ i - Len(mid) \in 1..Len(snaps)
        BY <1>2, <2>1, <3>1
      <3> HIDE DEF mid, out
      <3> QED BY <1>2, <2>1, <3>1, <3>2, <3>3
    <2> HIDE DEF out, mid
    <2> QED BY <1>2, <1>12, <1>13, <2>1, <2>2, SMTT(30) DEF Bounded
  <1> HIDE DEF out, mid
  <1>16. /\ d \in Provider /\ d.hold = p.hold /\ d.wants = p.wants /\ d.again = p.again
         /\ d.processed = p.processed /\ d.feeds = feeds /\ d.out = out
         /\ d.order = w.order /\ d.slots = w.slots
    BY <1>9, <1>14 DEF Provider
  <1> HIDE DEF d
  <1>17. Fed(d) = Fed(p) \cup listed
    BY <1>2, <1>5, <1>8, <1>16 DEF Fed
  <1>18. \A k : Waits(d, k) <=> Waits(p, k) /\ k # "unit"
    <2>1. \A k : Waits(d, k) <=> Waits(w, k)
      BY <1>16 DEF Waits
    <2> QED BY <1>3, <2>1
  <1>19. \A m \in Members : d.slots[m] = p.slots[m]
    BY <1>3, <1>16, MembersAssumption DEF Keys
  <1>20. FeedsOK(d, vs)
    <2>1. SlotsOK(d)
      <3>1. d.slots["unit"] = Idle
        BY <1>3, <1>16 DEF Keys
      <3>2. \A k \in Keys : d.slots[k] # Idle => Waits(d, k)
        BY <3>1, <1>3, <1>16, <1>18 DEF FeedsOK, SlotsOK
      <3> QED BY <3>1, <3>2, <1>16, <1>19 DEF FeedsOK, SlotsOK
    <2>2. Fed(d) \subseteq vs
      BY <1>5, <1>17 DEF FeedsOK
    <2>3. d.hold = NoHold \/ ~d.wants => Fed(d) = {}
      BY <1>7, <1>16, <1>17 DEF FeedsOK
    <2>4. \A m \in Members : Waits(d, m) => m \in Fed(d)
      BY <1>17, <1>18 DEF FeedsOK
    <2> QED BY <2>1, <2>2, <2>3, <2>4, <1>18 DEF FeedsOK
  <1>21. ASSUME NEW h, First(h, p) PROVE First(h, d)
    <2> DEFINE s == Fold(Seen(h), p.out, 0)
               r == Fold(Seen(h), mid, 0)
    <2>1. s \in 0..2 /\ s # 2
      BY <1>2, <1>21, FoldTypes DEF First
    <2>2. r = IF h = p.hold THEN 1 ELSE s
      <3>0. p.out \in Seq(Frame) /\ shape \in Frame
        BY <1>2, <1>12
      <3>1. r = Seen(h)[<<s, shape>>]
        BY <3>0, FoldAppend DEF mid
      <3> HIDE DEF s, r
      <3> QED BY <2>1, <3>1, <1>12, SeenAt
    <2>3. Fold(Seen(h), out, 0) = Fold(Seen(h), snaps, r)
      BY <1>13, <1>14, FoldConcat
    <2> HIDE DEF r
    <2>4. Fold(Seen(h), out, 0) = r
      BY <2>1, <2>2, <2>3, <1>13
    <2>5. h # p.hold => s = 0 \/ s = 1
      BY <2>1
    <2> QED BY <2>1, <2>2, <2>4, <1>16 DEF First
  <1>22. ASSUME NEW u \in SUBSET Keys PROVE Fold(Shaping({p.hold}), out, u) = vs
    <2> DEFINE x == Fold(Shaping({p.hold}), p.out, u)
    <2>1. x \in SUBSET Keys /\ vs \in SUBSET Keys
      BY <1>2, FoldTypes DEF Keys
    <2>2. Fold(Shaping({p.hold}), mid, u) = Shaping({p.hold})[<<x, shape>>]
      <3>0. p.out \in Seq(Frame) /\ shape \in Frame
        BY <1>2, <1>12
      <3> DEFINE g == Shaping({p.hold})
      <3> HIDE DEF g
      <3>1. Fold(g, Append(p.out, shape), u) = g[<<Fold(g, p.out, u), shape>>]
        BY <3>0, FoldAppend
      <3> QED BY <3>1 DEF mid, g
    <2> HIDE DEF x
    <2>3. Shaping({p.hold})[<<x, shape>>] = IF shape.t = "shape" /\ shape.h \in {p.hold} THEN shape.members ELSE x
      BY <1>12, <2>1, ShapingAt
    <2>4. Fold(Shaping({p.hold}), mid, u) = vs
      BY <1>12, <2>2, <2>3
    <2>5. Fold(Shaping({p.hold}), out, u) = Fold(Shaping({p.hold}), snaps, Fold(Shaping({p.hold}), mid, u))
      BY <1>13, <1>14, FoldConcat
    <2> QED BY <2>1, <2>4, <2>5, <1>13
  <1>23. p.wants => \A u \in SUBSET Keys : TellsShape(d, vs, u)
    <2>1. p.wants => Fed(d) = vs
      BY <1>6, <1>17 DEF FeedsOK
    <2> QED BY <2>1, <1>16, <1>22 DEF TellsShape
  <1>24. ASSUME NEW in \in [Members -> Level], NEW again, TellsValues(p, val, in, again), NEW m \in Fed(d)
         PROVE  LET x == Reach(d, m, {d.hold}, in[m]) IN
                Known(x) /\ (d.slots[m].lazy \/ m \in again \/ x \in {Failed, [s |-> d.feeds[m], n |-> val[m]]})
    <2> DEFINE hs == {p.hold}
               x == Fold(Hearing(m, hs), p.out, in[m])
               y == Fold(Hearing(m, hs), mid, in[m])
               z == Fold(Hearing(m, hs), out, in[m])
    <2>1. m \in Members /\ in[m] \in Level /\ m \in vs
      BY <1>2, <1>5, <1>17 DEF FeedsOK
    <2>2. x \in Level
      BY <1>2, <2>1, HearingStays
    <2>3. y = Heard(x, m, shape)
      BY <1>2, <1>12, <2>1, FoldSent DEF mid
    <2>4. z = Fold(Hearing(m, hs), snaps, y)
      BY <1>13, <1>14, FoldConcat
    <2>5. Reach(d, m, hs, in[m]) = After(z, m, p.slots[m]) /\ Reach(p, m, hs, in[m]) = After(x, m, p.slots[m])
      BY <1>16, <1>19, <2>1 DEF Reach
    <2> HIDE DEF x, y, z
    <2>6. CASE m \in listed
      <3>1. y = None /\ None \in Level /\ Known(None)
        BY <1>12, <2>1, <2>3, <2>6, LevelIs DEF Heard
      <3>2. z \in {Failed, [s |-> p.next, n |-> val[m]]}
        <4>1. /\ p.hold \in Nat /\ p.next \in Nat \ {0} /\ val \in [Members -> Nat] /\ listed \in SUBSET Members
              /\ snaps \in Seq(Snaps(p.hold, p.next, val, listed)) /\ p.hold \in hs
              /\ \E i \in DOMAIN snaps : snaps[i].m = m
          BY <1>2, <1>5, <1>11, <1>12a, <2>6
        <4> HIDE DEF hs
        <4>2. Fold(Hearing(m, hs), snaps, None) \in {Failed, [s |-> p.next, n |-> val[m]]}
          BY <2>6, <3>1, <4>1, SnapsHeard, SMTT(30)
        <4> QED BY <2>4, <3>1, <4>2
      <3>3. m \notin Fed(p) /\ m \in Keys
        BY <1>5, <2>1, <2>6 DEF Keys
      <3>4. p.slots[m] = Idle
        BY <2>1, <3>3 DEF FeedsOK, SlotsOK
      <3>5. Known(z)
        <4>1. z \in Value
          BY <1>2, <2>1, <3>2, LevelIs DEF Value
        <4> QED BY <4>1, LevelIs
      <3>6. d.feeds[m] = p.next
        BY <1>8, <1>16, <2>1, <2>6
      <3> QED BY <1>16, <2>5, <3>2, <3>4, <3>5, <3>6, IdleIs
    <2>7. CASE m \notin listed
      <3>1. y = x
        BY <1>12, <2>1, <2>3, <2>7 DEF Heard
      <3>2. z = x
        BY <1>13, <2>2, <2>4, <2>7, <3>1
      <3>3. m \in Fed(p) /\ d.feeds[m] = p.feeds[m]
        BY <1>8, <1>16, <1>17, <2>1, <2>7
      <3>4. Known(Reach(p, m, hs, in[m])) /\ (p.slots[m].lazy \/ m \in again \/ Reach(p, m, hs, in[m]) \in {Failed, [s |-> p.feeds[m], n |-> val[m]]})
        BY <1>24, <3>3 DEF TellsValues
      <3> QED BY <1>16, <1>19, <2>1, <2>5, <3>2, <3>3, <3>4
    <2> QED BY <2>6, <2>7
  <1>24a. ASSUME NEW m \in Members, NEW v \in Level, Tracks(p, val, m, v) PROVE Tracks(d, val, m, v)
    <2> DEFINE hs == {p.hold}
               x == Fold(Telling(m, hs), p.out, v)
               z == Fold(Telling(m, hs), out, v)
    <2>1. x \in Level /\ Known(x) /\ x.n <= val[m]
      BY <1>24a, TracksFold
    <2>2. Fold(Telling(m, hs), mid, v) = x
      <3>1. Fold(Telling(m, hs), mid, v) = IF shape.h \in hs THEN Told(x, m, shape) ELSE x
        BY <1>2, <1>12, FoldTold DEF mid
      <3> QED BY <1>12, <2>1, <3>1, ToldIs
    <2>3. z = Fold(Telling(m, hs), snaps, x)
      BY <1>13, <1>14, <2>2, FoldConcat
    <2> HIDE DEF x, z
    <2>4. /\ m \notin listed => Fold(Telling(m, hs), snaps, x) = x
          /\ m \in listed /\ (\E i \in DOMAIN snaps : snaps[i].m = m) /\ Known(x) /\ x.n <= val[m] =>
               Renews(Fold(Telling(m, hs), snaps, x), p.next, val[m])
      <3>1. /\ p.hold \in Nat /\ p.next \in Nat \ {0} /\ listed \in SUBSET Members /\ p.hold \in hs
            /\ snaps \in Seq(Snaps(p.hold, p.next, val, listed)) /\ x \in Level
        BY <1>2, <1>5, <1>11, <1>12a, <2>1
      <3> HIDE DEF hs
      <3> QED BY <3>1, SnapsTold DEF Renews
    <2>5. CASE m \in listed
      <3>1. Renews(z, p.next, val[m])
        BY <1>11, <2>1, <2>3, <2>4, <2>5
      <3>2. m \notin Fed(p) /\ m \in Keys
        BY <1>5, <2>5 DEF Keys
      <3>3. d.slots[m] = Idle
        BY <1>19, <3>2 DEF FeedsOK, SlotsOK
      <3>4. d.feeds[m] = p.next
        BY <1>8, <1>16, <2>5
      <3>5. Renews(Fold(Telling(m, {d.hold}), d.out, v), d.feeds[m], val[m])
        BY <1>16, <3>1, <3>4 DEF z
      <3> QED BY <1>16, <3>3, <3>5, TracksAnew
    <2>6. CASE m \notin listed
      <3>1. z = x
        BY <2>3, <2>4, <2>6
      <3>2. Trail(d, m, hs, v) = Trail(p, m, hs, v)
        BY <1>16, <1>19, <3>1 DEF Trail, z, x
      <3>3. d.feeds[m] = p.feeds[m] /\ d.slots[m] = p.slots[m] /\ d.hold = p.hold /\ d \in Provider
        BY <1>8, <1>16, <1>19, <2>6
      <3> QED BY <1>24a, <3>2, <3>3, TracksStay
    <2> QED BY <2>5, <2>6
  <1>25. Len(d.order) <= Len(p.order) /\ (Waits(p, "unit") => Len(d.order) < Len(p.order))
    BY <1>3, <1>16
  <1>26. Steady(p, d, vs)
    <2>1. \A in \in [Members -> Level] : \A again : TellsValues(p, val, in, again) => TellsValues(d, val, in, again)
      BY <1>24 DEF TellsValues
    <2>2. TracksOn(p, val, d, val)
      BY <1>24a DEF TracksOn
    <2> QED BY <1>15, <1>16, <1>20, <1>21, <1>23, <2>1, <2>2 DEF Steady
  <1>27. p.wants => \A in \in [Members -> Level] : \A again : \A u \in SUBSET Keys :
           TellsValues(p, val, in, again) => TellsShape(d, vs, u)
    BY <1>23
  <1> QED BY <1>1, <1>25, <1>26, <1>27

\* What waits goes as it was.
LEMMA MovedSteady ==
  ASSUME NEW p \in Provider, NEW vs \in SUBSET Members, FeedsOK(p, vs), NEW d, Moved(p, d),
         Fed(p) # {}
  PROVE  Steady(p, d, vs)
  <1>1. /\ d \in Provider /\ d.hold = p.hold /\ d.wants = p.wants /\ d.again = p.again
        /\ d.processed = p.processed /\ d.feeds = p.feeds
    BY DEF Moved, Kept
  <1>2. /\ SlotsOK(d) /\ Sent(p.out, d.out, p.hold)
        /\ \A m \in Members : p.slots[m].lazy => d.slots[m] = p.slots[m]
        /\ Waits(p, "unit") => Waits(d, "unit")
        /\ \A k : Waits(d, k) => Waits(p, k)
        /\ \A hs : \A v \in Level : \A m \in Members :
             p.hold \in hs => Reach(d, m, hs, v) = Reach(p, m, hs, v)
    BY DEF Moved
  <1>3. Fed(d) = Fed(p) /\ Fed(p) \in SUBSET Members
    BY <1>1 DEF Fed
  <1>4. FeedsOK(d, vs)
    BY <1>1, <1>2, <1>3 DEF FeedsOK
  <1>5. /\ Len(d.out) >= Len(p.out)
        /\ \A l : p.hold <= l /\ Bounded(p.out, l) => Bounded(d.out, l)
    BY <1>2 DEF Sent, Bounded
  <1>6. ASSUME NEW h, First(h, p) PROVE First(h, d)
    <2> DEFINE s == Fold(Seen(h), p.out, 0)
               r == Fold(Seen(h), d.out, 0)
    <2>1. s \in 0..2
      BY ProviderIs, FoldTypes
    <2>2. h # p.hold \/ s = 1 => r = s
      BY <1>2 DEF Sent
    <2>3. s # 2 /\ (s = 0 /\ p.hold = h => Fed(p) = {})
      BY <1>6 DEF First
    <2> HIDE DEF s, r
    <2>4. r = s
      BY <2>1, <2>2, <2>3
    <2>5. r # 2 /\ (r = 0 /\ d.hold = h => Fed(d) = {})
      BY <1>1, <1>3, <2>3, <2>4
    <2> QED BY <2>5 DEF First, r
  <1>7. ASSUME NEW in \in [Members -> Level], NEW again, TellsValues(p, val, in, again)
        PROVE  TellsValues(d, val, in, again)
    <2> SUFFICES ASSUME NEW m \in Fed(d)
                 PROVE  LET x == Reach(d, m, {d.hold}, in[m]) IN
                        Known(x) /\ (d.slots[m].lazy \/ m \in again \/ x \in {Failed, [s |-> d.feeds[m], n |-> val[m]]})
      BY DEF TellsValues
    <2>1. m \in Fed(p) /\ m \in Members /\ in[m] \in Level
      BY <1>3
    <2>2. Reach(d, m, {p.hold}, in[m]) = Reach(p, m, {p.hold}, in[m])
      BY <1>2, <2>1
    <2>3. Known(Reach(p, m, {p.hold}, in[m])) /\ (p.slots[m].lazy \/ m \in again
            \/ Reach(p, m, {p.hold}, in[m]) \in {Failed, [s |-> p.feeds[m], n |-> val[m]]})
      BY <1>7, <2>1 DEF TellsValues
    <2>4. p.slots[m].lazy => d.slots[m].lazy
      BY <1>2, <2>1
    <2> QED BY <1>1, <2>2, <2>3, <2>4
  <1>8. \A u \in SUBSET Keys : TellsShape(p, vs, u) => TellsShape(d, vs, u)
    <2>1. \A u \in SUBSET Keys : Fold(Shaping({p.hold}), d.out, u) = Fold(Shaping({p.hold}), p.out, u)
      BY <1>2 DEF Sent
    <2> QED BY <1>1, <1>2, <1>3, <2>1 DEF TellsShape
  <1>9. TracksOn(p, val, d, val)
    <2> SUFFICES ASSUME NEW m \in Members, NEW v \in Level, Tracks(p, val, m, v)
                 PROVE  Tracks(d, val, m, v)
      BY DEF TracksOn
    <2>1. Trail(d, m, {p.hold}, v) = Trail(p, m, {p.hold}, v)
      BY DEF Moved, SameTrail
    <2>2. p.slots[m].lazy => d.slots[m].lazy
      BY <1>2
    <2> QED BY <1>1, <2>1, <2>2, TracksStay
  <1> QED BY <1>1, <1>4, <1>5, <1>6, <1>7, <1>8, <1>9 DEF Steady

\* A stream that was dropped is sent again, as it is.
LEMMA ResendSteady ==
  ASSUME NEW p \in Provider, NEW vs \in SUBSET Members, val \in [Members -> Nat], FeedsOK(p, vs),
         NEW k \in Members, Waits(p, k), p.slots[k] = Lazy
  PROVE  LET d == Resend(Forget(p, {k}), k) IN
         Steady(p, d, vs) /\ Len(d.order) < Len(p.order)
  <1> DEFINE w == Forget(p, {k})
             f == Snap(Attach(w, k), k, "reset")
             feeds == [w.feeds EXCEPT ![k] = p.next]
             next == p.next + 1
             out == Append(p.out, f)
             d == Resend(w, k)
  <1>1. /\ p \in Sender /\ p.out \in Seq(Frame) /\ Len(p.out) \in Nat /\ p.hold \in Nat
        /\ p.feeds \in [Members -> Nat] /\ p.next \in Nat /\ p.next # 0
        /\ Fed(p) \in SUBSET Members /\ \A m \in Members : m \in Fed(p) <=> p.feeds[m] # 0
        /\ \A m \in Members : m \in Keys
    BY ProviderIs
  <1>2. /\ Kept(p, w) /\ w.out = p.out
        /\ \A l \in Keys : w.slots[l] = IF l = k THEN Idle ELSE p.slots[l]
        /\ \A l : Waits(w, l) <=> Waits(p, l) /\ l # k
        /\ Len(w.order) < Len(p.order)
    BY <1>1, ForgetIs
  <1> HIDE DEF w
  <1>3. /\ w \in Provider /\ w.hold = p.hold /\ w.wants = p.wants /\ w.again = p.again
        /\ w.processed = p.processed /\ w.feeds = p.feeds /\ w.next = p.next
    BY <1>2 DEF Kept
  <1>4. k \in Fed(p) /\ p.feeds[k] # 0 /\ k \in vs
    BY <1>1 DEF FeedsOK
  <1>5a. /\ Attach(w, k) = [w EXCEPT !.feeds = feeds, !.next = next]
         /\ Attach(w, k).hold = p.hold /\ Attach(w, k).feeds = feeds /\ Attach(w, k).out = p.out
         /\ feeds[k] = p.next
    <2>2. Attach(w, k) = [w EXCEPT !.feeds = feeds, !.next = next]
      BY <1>3 DEF Attach
    <2> HIDE DEF next
    <2>3. feeds[k] = p.next
      BY <1>1, <1>3
    <2> HIDE DEF feeds
    <2> QED BY <1>2, <1>3, <2>2, <2>3 DEF Provider
  <1>5. Anew(f, p.hold, k, p.next, val[k])
    <2> DEFINE q == Attach(w, k)
    <2>1. q.hold = p.hold /\ q.feeds[k] = p.next /\ val[k] \in Nat
      BY <1>5a
    <2> HIDE DEF q
    <2> QED BY <1>1, <2>1, SnapshotIs DEF Snap, q
  <1>5b. f \in Frame /\ f.t = "state" /\ f.h = p.hold /\ f.m = k
    BY <1>5 DEF Anew
  <1>6. d = [w EXCEPT !.feeds = feeds, !.next = next, !.out = out]
    <2>1. d = Send(Attach(w, k), f)
      BY <1>3, <1>4 DEF Resend
    <2> HIDE DEF next, feeds, f
    <2> QED BY <2>1, <1>5a DEF Send
  <1>7. feeds \in [Members -> Nat] /\ \A m \in Members : feeds[m] = IF m = k THEN p.next ELSE p.feeds[m]
    BY <1>1, <1>3
  <1>8. next \in Nat \ {0} /\ out \in Seq(Frame)
    BY <1>1, <1>5b
  <1>9. Sent(p.out, out, p.hold)
    BY <1>1, <1>5b, SentOne
  <1> HIDE DEF d, feeds, next, out, f
  <1>10. /\ d \in Provider /\ d.hold = p.hold /\ d.wants = p.wants /\ d.again = p.again
         /\ d.processed = p.processed /\ d.feeds = feeds /\ d.out = out
         /\ d.order = w.order /\ d.slots = w.slots
    <2>1. d \in Provider
      BY <1>3, <1>6, <1>7, <1>8 DEF Provider
    <2>2. /\ d.hold = w.hold /\ d.wants = w.wants /\ d.again = w.again
          /\ d.processed = w.processed /\ d.feeds = feeds /\ d.out = out
          /\ d.order = w.order /\ d.slots = w.slots
      BY <1>3, <1>6 DEF Provider
    <2> QED BY <1>3, <2>1, <2>2
  <1>11. Fed(d) = Fed(p)
    BY <1>1, <1>4, <1>7, <1>10 DEF Fed
  <1>12. \A l : Waits(d, l) <=> Waits(p, l) /\ l # k
    BY <1>2, <1>10, ZenonT(60) DEF Waits
  <1>13. \A l \in Keys : d.slots[l] = IF l = k THEN Idle ELSE p.slots[l]
    BY <1>2, <1>10
  <1>14. FeedsOK(d, vs)
    <2>1. "unit" \in Keys /\ "unit" # k
      BY MembersAssumption DEF Keys
    <2>2. \A l \in Keys : d.slots[l] # Idle => Waits(d, l)
      BY <1>12, <1>13 DEF FeedsOK, SlotsOK
    <2>3. d.slots["unit"] = Idle
      BY <1>13, <2>1 DEF FeedsOK, SlotsOK
    <2>4. ASSUME NEW m \in Members
          PROVE  SlotFits(d.slots[m], m, d.hold) /\ (d.slots[m].lazy => d.slots[m] = Lazy)
      BY <1>1, <1>10, <1>13, IdleIs DEF FeedsOK, SlotsOK
    <2>5. SlotsOK(d)
      BY <2>2, <2>3, <2>4 DEF SlotsOK
    <2> QED BY <2>5, <1>10, <1>11, <1>12 DEF FeedsOK
  <1>15. /\ Len(d.out) >= Len(p.out)
         /\ \A l : p.hold <= l /\ Bounded(p.out, l) => Bounded(d.out, l)
    BY <1>9, <1>10 DEF Sent, Bounded
  <1>16. ASSUME NEW h, First(h, p) PROVE First(h, d)
    <2> DEFINE s == Fold(Seen(h), p.out, 0)
               r == Fold(Seen(h), d.out, 0)
    <2>1. s \in 0..2
      BY <1>1, FoldTypes
    <2>2. h # p.hold \/ s = 1 => r = s
      BY <1>9, <1>10 DEF Sent
    <2>3. s # 2 /\ (s = 0 /\ p.hold = h => Fed(p) = {})
      BY <1>16 DEF First
    <2> HIDE DEF s, r
    <2>4. r = s
      BY <1>4, <2>1, <2>2, <2>3
    <2>5. r # 2 /\ (r = 0 /\ d.hold = h => Fed(d) = {})
      BY <1>10, <1>11, <2>3, <2>4
    <2> QED BY <2>5 DEF First, r
  <1>17. ASSUME NEW in \in [Members -> Level], NEW again, TellsValues(p, val, in, again)
        PROVE  TellsValues(d, val, in, again)
    <2> SUFFICES ASSUME NEW m \in Fed(d)
                 PROVE  LET x == Reach(d, m, {d.hold}, in[m]) IN
                        Known(x) /\ (d.slots[m].lazy \/ m \in again \/ x \in {Failed, [s |-> d.feeds[m], n |-> val[m]]})
      BY DEF TellsValues
    <2> DEFINE hs == {p.hold}
               x == Fold(Hearing(m, hs), p.out, in[m])
               z == Fold(Hearing(m, hs), out, in[m])
    <2>1. m \in Fed(p) /\ m \in Members /\ in[m] \in Level
      BY <1>1, <1>11
    <2>2. x \in Level
      BY <1>1, <2>1, HearingStays
    <2>3. z = Heard(x, m, f)
      BY <1>1, <1>5b, <2>1, FoldSent DEF out
    <2>4. Reach(d, m, hs, in[m]) = After(z, m, d.slots[m]) /\ Reach(p, m, hs, in[m]) = After(x, m, p.slots[m])
      BY <1>10 DEF Reach
    <2>5. Known(Reach(p, m, hs, in[m])) /\ (p.slots[m].lazy \/ m \in again
            \/ Reach(p, m, hs, in[m]) \in {Failed, [s |-> p.feeds[m], n |-> val[m]]})
      BY <1>17, <2>1 DEF TellsValues
    <2> HIDE DEF x, z
    <2>6. CASE m = k
      <3>1. d.slots[m] = Idle /\ p.slots[m] = Lazy
        BY <1>1, <1>13, <2>6
      <3>2. Known(x)
        BY <2>4, <2>5, <3>1, IdleIs
      <3>3. z \in {Failed, [s |-> p.next, n |-> val[m]]} /\ Known(z)
        <4>1. val[k] \in Nat /\ p.next \in Nat
          BY <1>1
        <4>2. f.at \in {Failed, [s |-> p.next, n |-> val[k]]} /\ Known(f.at)
          BY <1>1, <1>5, <4>1, LevelIs DEF Anew, Level, Value, Known, Failed
        <4>3. z = f.at
          BY <1>5, <2>3, <2>6, <3>2 DEF Heard, Anew
        <4> QED BY <2>6, <4>2, <4>3
      <3>4. Reach(d, m, hs, in[m]) = z
        BY <2>4, <3>1, IdleIs
      <3>5. d.feeds[m] = p.next
        BY <1>7, <1>10, <2>1, <2>6
      <3> QED BY <1>10, <3>3, <3>4, <3>5
    <2>7. CASE m # k
      <3>1. z = x
        BY <1>5b, <2>3, <2>7 DEF Heard
      <3>2. d.slots[m] = p.slots[m] /\ d.feeds[m] = p.feeds[m]
        BY <1>1, <1>7, <1>10, <1>13, <2>1, <2>7
      <3> QED BY <1>10, <2>4, <2>5, <3>1, <3>2
    <2> QED BY <2>6, <2>7
  <1>18. \A u \in SUBSET Keys : TellsShape(p, vs, u) => TellsShape(d, vs, u)
    <2>1. \A u \in SUBSET Keys : Fold(Shaping({p.hold}), d.out, u) = Fold(Shaping({p.hold}), p.out, u)
      BY <1>9, <1>10 DEF Sent
    <2>2. "unit" # k
      BY MembersAssumption
    <2> QED BY <1>10, <1>11, <1>12, <2>1, <2>2 DEF TellsShape
  <1>19. Len(d.order) < Len(p.order)
    BY <1>2, <1>10
  <1>19a. ASSUME NEW m \in Members, NEW v \in Level, Tracks(p, val, m, v) PROVE Tracks(d, val, m, v)
    <2> DEFINE hs == {p.hold}
               x == Fold(Telling(m, hs), p.out, v)
               z == Fold(Telling(m, hs), out, v)
    <2>1. x \in Level /\ Known(x) /\ x.n <= val[m]
      BY <1>19a, TracksFold
    <2>2. z = Told(x, m, f)
      <3>1. z = IF f.h \in hs THEN Told(x, m, f) ELSE x
        BY <1>1, <1>5b, FoldTold DEF out
      <3> QED BY <1>5b, <3>1
    <2> HIDE DEF x, z
    <2>3. CASE m = k
      <3>3. Renews(z, p.next, val[m])
        BY <1>1, <1>5, <2>1, <2>2, <2>3, AnewIs
      <3>4. d.slots[m] = Idle /\ d.feeds[m] = p.next
        BY <1>1, <1>7, <1>10, <1>13, <2>3
      <3>5. Renews(Fold(Telling(m, {d.hold}), d.out, v), d.feeds[m], val[m])
        BY <1>10, <3>3, <3>4 DEF z
      <3> QED BY <1>10, <3>4, <3>5, TracksAnew
    <2>4. CASE m # k
      <3>1. z = x
        BY <1>5b, <2>1, <2>2, <2>4, ToldIs
      <3>2. d.slots[m] = p.slots[m] /\ d.feeds[m] = p.feeds[m]
        BY <1>1, <1>7, <1>10, <1>13, <2>4
      <3>3. Trail(d, m, hs, v) = Trail(p, m, hs, v)
        BY <1>10, <3>1, <3>2 DEF Trail, z, x
      <3> QED BY <1>10, <1>19a, <3>2, <3>3, TracksStay
    <2> QED BY <2>3, <2>4
  <1>20. Steady(p, d, vs)
    <2>1. TracksOn(p, val, d, val)
      BY <1>19a DEF TracksOn
    <2> QED BY <1>10, <1>14, <1>15, <1>16, <1>17, <1>18, <2>1 DEF Steady
  <1> QED BY <1>19, <1>20 DEF d, w

LEMMA SteadyIs ==
  ASSUME NEW vs \in SUBSET Members
  PROVE  /\ \A p \in Provider : FeedsOK(p, vs) => Steady(p, p, vs)
         /\ \A p \in Provider : \A q \in Provider : \A r \in Provider :
              Steady(p, q, vs) /\ Steady(q, r, vs) => Steady(p, r, vs)
  <1>1. ASSUME NEW p \in Provider, FeedsOK(p, vs) PROVE Steady(p, p, vs)
    <2>1. Len(p.out) >= Len(p.out)
      BY ProviderIs
    <2> QED BY <1>1, <2>1, TracksOnIs DEF Steady
  <1>2. ASSUME NEW p \in Provider, NEW q \in Provider, NEW r \in Provider, Steady(p, q, vs), Steady(q, r, vs)
        PROVE  Steady(p, r, vs)
    <2>1. /\ r \in Provider /\ r.hold = p.hold /\ r.wants = p.wants /\ r.again = p.again
          /\ r.processed = p.processed /\ FeedsOK(r, vs) /\ q.hold = p.hold /\ q.wants = p.wants
          /\ q \in Provider
      BY <1>2 DEF Steady
    <2>2. \A l : p.hold <= l /\ Bounded(p.out, l) => Bounded(r.out, l)
      BY <1>2, <2>1 DEF Steady
    <2>3. \A h : First(h, p) => First(h, r)
      BY <1>2 DEF Steady
    <2>4. p.wants => \A in \in [Members -> Level] : \A again :
                  TellsValues(p, val, in, again) =>
                    /\ TellsValues(r, val, in, again)
                    /\ \A u \in SUBSET Keys : TellsShape(p, vs, u) => TellsShape(r, vs, u)
      <3> SUFFICES ASSUME p.wants, NEW in \in [Members -> Level], NEW again, TellsValues(p, val, in, again)
                   PROVE  /\ TellsValues(r, val, in, again)
                          /\ \A u \in SUBSET Keys : TellsShape(p, vs, u) => TellsShape(r, vs, u)
        OBVIOUS
      <3>1. /\ TellsValues(q, val, in, again)
            /\ \A u \in SUBSET Keys : TellsShape(p, vs, u) => TellsShape(q, vs, u)
        BY <1>2 DEF Steady
      <3>2. /\ TellsValues(r, val, in, again)
            /\ \A u \in SUBSET Keys : TellsShape(q, vs, u) => TellsShape(r, vs, u)
        BY <1>2, <2>1, <3>1 DEF Steady
      <3> QED BY <3>1, <3>2
    <2>5. Len(r.out) >= Len(p.out)
      <3>1. Len(q.out) >= Len(p.out) /\ Len(r.out) >= Len(q.out)
        BY <1>2 DEF Steady
      <3>2. Len(p.out) \in Nat /\ Len(q.out) \in Nat /\ Len(r.out) \in Nat
        BY ProviderIs
      <3> QED BY <3>1, <3>2
    <2>6. TracksOn(p, val, r, val)
      BY <1>2, TracksOnTwice DEF Steady
    <2> QED BY <2>1, <2>2, <2>3, <2>4, <2>5, <2>6 DEF Steady
  <1> QED BY <1>1, <1>2

\* w is p with fewer fed members and what waits for those only.
Shrinks(p, w) ==
  /\ w \in Provider /\ w.hold = p.hold /\ w.out = p.out /\ Fed(w) \subseteq Fed(p)
  /\ \A m \in Fed(w) : w.feeds[m] = p.feeds[m] /\ w.slots[m] = p.slots[m]
  /\ \A m \in Members : m \notin Fed(w) => w.slots[m] = Idle

LEMMA ShrinksIs ==
  ASSUME NEW p \in Provider, NEW w, Shrinks(p, w)
  PROVE  /\ \A h : First(h, p) => First(h, w)
         /\ \A n : \A in : \A again : TellsValues(p, n, in, again) => TellsValues(w, n, in, again)
         /\ \A n \in [Members -> Nat] : TracksOn(p, n, w, n)
  <1>1. ASSUME NEW h, First(h, p) PROVE First(h, w)
    BY <1>1 DEF First, Shrinks
  <1>2. ASSUME NEW n, NEW in, NEW again, TellsValues(p, n, in, again) PROVE TellsValues(w, n, in, again)
    <2> SUFFICES ASSUME NEW m \in Fed(w)
                 PROVE  LET x == Reach(w, m, {w.hold}, in[m]) IN
                        Known(x) /\ (w.slots[m].lazy \/ m \in again \/ x \in {Failed, [s |-> w.feeds[m], n |-> n[m]]})
      BY DEF TellsValues
    <2>1. m \in Fed(p) /\ w.feeds[m] = p.feeds[m] /\ w.slots[m] = p.slots[m] /\ w.out = p.out /\ w.hold = p.hold
      BY DEF Shrinks
    <2>2. Reach(w, m, {w.hold}, in[m]) = Reach(p, m, {p.hold}, in[m])
      BY <2>1 DEF Reach
    <2>3. Known(Reach(p, m, {p.hold}, in[m])) /\ (p.slots[m].lazy \/ m \in again
            \/ Reach(p, m, {p.hold}, in[m]) \in {Failed, [s |-> p.feeds[m], n |-> n[m]]})
      BY <1>2, <2>1 DEF TellsValues
    <2> QED BY <2>1, <2>2, <2>3
  <1>3. ASSUME NEW n \in [Members -> Nat], NEW m \in Members, NEW v \in Level, Tracks(p, n, m, v)
        PROVE  Tracks(w, n, m, v)
    <2>1. w \in Provider /\ w.hold = p.hold /\ w.out = p.out
      BY DEF Shrinks
    <2>2. CASE m \in Fed(w)
      <3>1. w.feeds[m] = p.feeds[m] /\ w.slots[m] = p.slots[m]
        BY <2>2 DEF Shrinks
      <3>2. Trail(w, m, {p.hold}, v) = Trail(p, m, {p.hold}, v)
        BY <2>1, <3>1 DEF Trail
      <3> QED BY <1>3, <2>1, <3>1, <3>2, TracksStay
    <2>3. CASE m \notin Fed(w)
      <3>1. w.slots[m] = Idle /\ w.feeds[m] = 0
        BY <2>3 DEF Shrinks, Fed
      <3> QED BY <1>3, <2>1, <3>1, TracksLess
    <2> QED BY <2>2, <2>3
  <1>4. \A n \in [Members -> Nat] : TracksOn(p, n, w, n)
    BY <1>3 DEF TracksOn
  <1> QED BY <1>1, <1>2, <1>4

LEMMA UnfedIdle ==
  ASSUME NEW p \in Provider, NEW vs, FeedsOK(p, vs)
  PROVE  \A m \in Members : m \notin Fed(p) => p.slots[m] = Idle
  BY DEF FeedsOK, SlotsOK, Keys

\* The unit that waited goes, for members and wish as they are now.
LEMMA FlushUnitSteady ==
  ASSUME NEW p \in Provider, NEW vs \in SUBSET Members, val \in [Members -> Nat], FeedsOK(p, vs),
         Waits(p, "unit")
  PROVE  LET d == SendUnit(Forget(p, {"unit"}), vs) IN
         Steady(p, d, vs) /\ Len(d.order) < Len(p.order)
  <1> DEFINE w == Forget(p, {"unit"})
             d == SendUnit(w, vs)
  <1>1. /\ Kept(p, w) /\ w.out = p.out
        /\ \A k \in Keys : w.slots[k] = IF k = "unit" THEN Idle ELSE p.slots[k]
        /\ \A k : Waits(w, k) <=> Waits(p, k) /\ k # "unit"
        /\ Len(w.order) < Len(p.order)
    BY ProviderIs, ForgetIs
  <1> HIDE DEF w
  <1>2. /\ w \in Provider /\ w.hold = p.hold /\ w.wants = p.wants /\ w.again = p.again
        /\ w.processed = p.processed /\ w.feeds = p.feeds
    BY <1>1 DEF Kept
  <1>3. Fed(w) = Fed(p) /\ Fed(p) \in SUBSET Members
    BY <1>2 DEF Fed
  <1>4. \A m \in Members : w.slots[m] = p.slots[m]
    BY <1>1, MembersAssumption DEF Keys
  <1>5. FeedsOK(w, vs)
    <2>1. w.slots["unit"] = Idle
      BY <1>1 DEF Keys
    <2>2. \A k \in Keys : w.slots[k] # Idle => Waits(w, k)
      BY <1>1, <2>1 DEF FeedsOK, SlotsOK
    <2>3. SlotsOK(w)
      BY <1>2, <1>4, <2>1, <2>2 DEF FeedsOK, SlotsOK
    <2> QED BY <1>1, <1>2, <1>3, <2>3 DEF FeedsOK
  <1>6. w.hold # NoHold
    BY <1>2 DEF FeedsOK
  <1>7. /\ Steady(w, d, vs)
        /\ w.wants => \A in \in [Members -> Level] : \A again : \A u \in SUBSET Keys :
             TellsValues(w, val, in, again) => TellsShape(d, vs, u)
        /\ Len(d.order) <= Len(w.order)
    BY <1>2, <1>5, <1>6, SendUnitIs
  <1> HIDE DEF d
  <1>8. Shrinks(p, w)
    <2>1. \A m \in Members : m \notin Fed(w) => w.slots[m] = Idle
      BY <1>2, <1>5, UnfedIdle
    <2> QED BY <1>1, <1>2, <1>3, <1>4, <2>1 DEF Shrinks
  <1>9. d \in Provider /\ Len(d.order) < Len(p.order)
    <2>1. d \in Provider
      BY <1>7 DEF Steady
    <2>2. d.order \in Seq(Keys) /\ w.order \in Seq(Keys) /\ p.order \in Seq(Keys)
      BY <1>2, <2>1, ProviderIs
    <2>3. Len(d.order) \in Nat /\ Len(w.order) \in Nat /\ Len(p.order) \in Nat
      BY <2>2
    <2> QED BY <1>1, <1>7, <2>1, <2>3
  <1>10. \A h : First(h, p) => First(h, d)
    BY <1>7, <1>8, ShrinksIs DEF Steady
  <1>11. p.wants => \A in \in [Members -> Level] : \A again :
                  TellsValues(p, val, in, again) =>
                    /\ TellsValues(d, val, in, again)
                    /\ \A u \in SUBSET Keys : TellsShape(p, vs, u) => TellsShape(d, vs, u)
    <2> SUFFICES ASSUME p.wants, NEW in \in [Members -> Level], NEW again, TellsValues(p, val, in, again)
                   PROVE  /\ TellsValues(d, val, in, again)
                          /\ \A u \in SUBSET Keys : TellsShape(p, vs, u) => TellsShape(d, vs, u)
      OBVIOUS
    <2>1. TellsValues(w, val, in, again)
      BY <1>8, ShrinksIs
    <2>2. TellsValues(d, val, in, again)
      BY <1>2, <1>7, <2>1 DEF Steady
    <2>3. \A u \in SUBSET Keys : TellsShape(d, vs, u)
      BY <1>2, <1>7, <2>1
    <2> QED BY <2>2, <2>3
  <1>12. /\ d.hold = p.hold /\ d.wants = p.wants /\ d.again = p.again
         /\ d.processed = p.processed /\ Len(d.out) >= Len(p.out)
         /\ FeedsOK(d, vs)
         /\ \A l : p.hold <= l /\ Bounded(p.out, l) => Bounded(d.out, l)
    BY <1>1, <1>2, <1>7 DEF Steady
  <1>12a. TracksOn(p, val, d, val)
    <2>1. TracksOn(p, val, w, val)
      BY <1>8, ShrinksIs
    <2>2. TracksOn(w, val, d, val)
      BY <1>7 DEF Steady
    <2> QED BY <2>1, <2>2, TracksOnTwice
  <1>13. Steady(p, d, vs)
    BY <1>9, <1>10, <1>11, <1>12, <1>12a DEF Steady
  <1> QED BY <1>9, <1>13 DEF d, w

LEMMA ProviderFlush ==
  ASSUME NEW p \in Provider, NEW vs \in SUBSET Members, val \in [Members -> Nat], FeedsOK(p, vs)
  PROVE  Steady(p, Flush(p, vs), vs) /\ WindowOK(Flush(p, vs))
  <1> DEFINE J == {d \in Provider : Steady(p, d, vs)}
  <1>1. p \in J
    BY SteadyIs
  <1>2. ASSUME NEW d \in J PROVE d.order \in Seq(Keys) /\ d \in Sender /\ d \in Provider /\ Steady(p, d, vs)
    BY ProviderIs
  <1>3. ASSUME NEW d \in J, d.order # <<>>
        PROVE  FlushOne(d, vs) \in J /\ Len(FlushOne(d, vs).order) < Len(d.order)
    <2> DEFINE k == Head(d.order)
               e == FlushOne(d, vs)
    <2>1. d \in Provider /\ FeedsOK(d, vs) /\ Steady(p, d, vs) /\ d.order \in Seq(Keys) /\ d \in Sender
      BY <1>2 DEF Steady
    <2>2. k \in Keys /\ Waits(d, k)
      <3>1. 1 \in DOMAIN d.order /\ d.order[1] = k /\ k \in Keys
        BY <1>3, <2>1
      <3> QED BY <3>1 DEF Waits
    <2>3. Steady(d, e, vs) /\ Len(e.order) < Len(d.order)
      <3>1. CASE k = "unit"
        <4>1. e = SendUnit(Forget(d, {"unit"}), vs)
          BY <3>1 DEF FlushOne
        <4> HIDE DEF e
        <4> QED BY <2>1, <2>2, <3>1, <4>1, FlushUnitSteady
      <3>2. CASE k # "unit" /\ d.slots[k].lazy
        <4>1. k \in Members /\ d.slots[k] = Lazy
          BY <2>1, <2>2, <3>2 DEF Keys, FeedsOK, SlotsOK
        <4>2. e = Resend(Forget(d, {k}), k)
          BY <3>2 DEF FlushOne
        <4> HIDE DEF e, k
        <4> QED BY <2>1, <2>2, <4>1, <4>2, ResendSteady
      <3>3. CASE k # "unit" /\ ~d.slots[k].lazy
        <4>1. k \in Members
          BY <2>2, <3>3 DEF Keys
        <4>2. SlotsOK(d) /\ Fed(d) # {}
          BY <2>1, <2>2, <4>1 DEF FeedsOK
        <4>3. Moved(d, e) /\ Len(e.order) < Len(d.order)
          BY <1>3, <2>1, <3>3, <4>1, <4>2, FlushOneMoves
        <4> HIDE DEF e, k
        <4> QED BY <2>1, <4>2, <4>3, MovedSteady
      <3> QED BY <3>1, <3>2, <3>3
    <2> HIDE DEF e, k
    <2>4. e \in Provider
      BY <2>3 DEF Steady
    <2>5. Steady(p, e, vs)
      BY <2>1, <2>3, <2>4, SteadyIs
    <2> QED BY <2>3, <2>4, <2>5 DEF e
  <1> HIDE DEF J
  <1>4. Flush(p, vs) \in J /\ WindowOK(Flush(p, vs))
    BY <1>1, <1>2, <1>3, FlushKeeps
  <1> QED BY <1>4 DEF J

\* d is p after a unit for the members vs was sent or put off: what was told of the
\* members that stay is not lost, and the shape is told.
Renewed(p, d, vs) ==
  /\ d \in Provider /\ d.hold = p.hold /\ d.wants = p.wants /\ d.again = p.again
  /\ d.processed = p.processed /\ Len(d.out) >= Len(p.out)
  /\ FeedsOK(d, vs) /\ WindowOK(d)
  /\ \A l : p.hold <= l /\ Bounded(p.out, l) => Bounded(d.out, l)
  /\ \A h : First(h, p) => First(h, d)
  /\ p.hold # NoHold /\ p.wants =>
       \A in \in [Members -> Level] : \A again :
         TellsValues(p, val, in, again) =>
           TellsValues(d, val, in, again) /\ \A u \in SUBSET Keys : TellsShape(d, vs, u)
  /\ TracksOn(p, val, d, val)

LEMMA ForgetFits ==
  ASSUME NEW c \in Sender, SlotsOK(c), NEW ks, NEW d, d.hold = c.hold,
         \A k \in Keys : d.slots[k] = IF k \in ks THEN Idle ELSE c.slots[k],
         \A k : Waits(d, k) <=> Waits(c, k) /\ k \notin ks
  PROVE  SlotsOK(d)
  <1>1. \A k \in Keys : d.slots[k] # Idle => Waits(d, k)
    BY DEF SlotsOK
  <1>2. d.slots["unit"] = Idle
    BY DEF SlotsOK, Keys
  <1>3. ASSUME NEW m \in Members
        PROVE  SlotFits(d.slots[m], m, d.hold) /\ (d.slots[m].lazy => d.slots[m] = Lazy)
    <2>1. m \in Keys
      BY DEF Keys
    <2> QED BY <2>1, IdleIs DEF SlotsOK
  <1> QED BY <1>1, <1>2, <1>3 DEF SlotsOK

LEMMA FullMore ==
  ASSUME NEW c \in Sender, NEW d \in Sender, d.processed = c.processed, Len(d.out) >= Len(c.out), Full(c)
  PROVE  Full(d)
  <1>1. /\ Len(c.out) \in Nat /\ Len(d.out) \in Nat /\ c.processed \in Nat /\ Window \in Nat
        /\ Len(d.out) >= Len(c.out) /\ Len(c.out) + c.processed >= Window
    BY SenderIs, BoundsAssumption DEF Full
  <1> QED BY <1>1 DEF Full

LEMMA UnitIs ==
  ASSUME NEW p \in Provider, NEW vs \in SUBSET Members, val \in [Members -> Nat],
         FeedsOK(p, Members), WindowOK(p)
  PROVE  Renewed(p, Unit(p, vs), vs)
  <1> DEFINE kept == IF p.wants THEN vs ELSE {}
             gone == Members \ kept
             w == Forget(p, gone)
             feeds == [m \in Members |-> IF m \in kept THEN p.feeds[m] ELSE 0]
             q == [w EXCEPT !.feeds = feeds]
             urgent == Fed(q) = {} /\ ~(q.again /\ ~q.unitSent)
             e == Queued(q, "unit")
             d == Unit(p, vs)
  <1>1. d = IF q.hold = NoHold THEN q ELSE IF urgent THEN SendUnit(q, vs) ELSE Flush(e, vs)
    BY DEF Unit
  <1> HIDE DEF d, e, urgent
  <1> SUFFICES Renewed(p, d, vs)
    BY DEF d
  <1>2. /\ Kept(p, w) /\ w.out = p.out
        /\ \A k \in Keys : w.slots[k] = IF k \in gone THEN Idle ELSE p.slots[k]
        /\ \A k : Waits(w, k) <=> Waits(p, k) /\ k \notin gone
        /\ Len(w.order) <= Len(p.order)
    BY ProviderIs, ForgetIs
  <1> HIDE DEF w
  <1>3. /\ w \in Provider /\ w.hold = p.hold /\ w.wants = p.wants /\ w.again = p.again
        /\ w.processed = p.processed /\ w.feeds = p.feeds
    BY <1>2 DEF Kept
  <1>4. /\ feeds \in [Members -> Nat] /\ \A m \in Members : feeds[m] = IF m \in kept THEN p.feeds[m] ELSE 0
    BY ProviderIs
  <1> HIDE DEF feeds
  <1>5. /\ q \in Provider /\ q.hold = p.hold /\ q.wants = p.wants /\ q.again = p.again
        /\ q.processed = p.processed /\ q.feeds = feeds /\ q.out = p.out /\ q.order = w.order
        /\ q.slots = w.slots
    BY <1>2, <1>3, <1>4 DEF Provider
  <1> HIDE DEF q
  <1>6. kept \subseteq vs /\ kept \in SUBSET Members /\ (~p.wants => kept = {})
    OBVIOUS
  <1>7. Fed(q) = Fed(p) \cap kept
    BY <1>4, <1>5, <1>6 DEF Fed
  <1>8. \A k : Waits(q, k) <=> Waits(p, k) /\ k \notin gone
    BY <1>2, <1>5, SMTT(30) DEF Waits
  <1>9. \A k \in Keys : q.slots[k] = IF k \in gone THEN Idle ELSE p.slots[k]
    BY <1>2, <1>5
  <1>10. FeedsOK(q, vs)
    <2>1. SlotsOK(q)
      <3>1. p \in Sender /\ SlotsOK(p) /\ q.hold = p.hold
        BY <1>5, ProviderIs DEF FeedsOK
      <3> HIDE DEF gone
      <3> QED BY <1>8, <1>9, <3>1, ForgetFits
    <2>2. \A m \in Members : Waits(q, m) => m \in Fed(q)
      BY <1>7, <1>8 DEF FeedsOK
    <2>3. Fed(q) \subseteq vs /\ (q.hold = NoHold \/ ~q.wants => Fed(q) = {})
      BY <1>5, <1>6, <1>7 DEF FeedsOK
    <2> QED BY <2>1, <2>2, <2>3, <1>5, <1>8 DEF FeedsOK
  <1>11. Shrinks(p, q)
    <2>1. ASSUME NEW m \in Fed(q) PROVE q.feeds[m] = p.feeds[m] /\ q.slots[m] = p.slots[m]
      <3>1. m \in Members /\ m \in kept /\ m \in Keys
        BY <1>6, <1>7 DEF Keys
      <3> QED BY <1>4, <1>5, <1>9, <3>1
    <2>2. \A m \in Members : m \notin Fed(q) => q.slots[m] = Idle
      BY <1>5, <1>10, UnfedIdle
    <2> QED BY <1>5, <1>7, <2>1, <2>2 DEF Shrinks
  <1>12. /\ \A h : First(h, p) => First(h, q)
         /\ \A in : \A again : TellsValues(p, val, in, again) => TellsValues(q, val, in, again)
         /\ TracksOn(p, val, q, val)
    BY <1>11, ShrinksIs
  <1>13. WindowOK(q)
    <2>1. ASSUME q.order # <<>> PROVE Full(q)
      <3>1. PICK k : Waits(q, k)
        BY <2>1, <1>5, OrderIs, ProviderIs
      <3>2. p.order # <<>>
        BY <1>8, <3>1, OrderIs, ProviderIs
      <3> QED BY <1>5, <3>2 DEF WindowOK, Full
    <2> QED BY <2>1 DEF WindowOK
  <1>14. q \in Sender /\ Len(q.out) >= Len(p.out) /\ Len(q.out) \in Nat
    BY <1>5, ProviderIs
  <1>15. CASE q.hold = NoHold
    <2>1. d = q
      BY <1>1, <1>15
    <2>2. /\ q \in Provider /\ q.hold = p.hold /\ q.wants = p.wants /\ q.again = p.again
          /\ q.processed = p.processed /\ p.hold = NoHold
      BY <1>5, <1>15
    <2>3. \A l : Bounded(p.out, l) => Bounded(q.out, l)
      BY <1>5
    <2>4. p.hold = NoHold
      BY <1>5, <1>15
    <2>5. Len(q.out) >= Len(p.out) /\ FeedsOK(q, vs) /\ WindowOK(q) /\ \A h : First(h, p) => First(h, q)
      BY <1>10, <1>12, <1>13, <1>14
    <2>6. \A l : p.hold <= l /\ Bounded(p.out, l) => Bounded(d.out, l)
      BY <2>1, <2>3
    <2>7. p.hold # NoHold /\ p.wants =>
            \A in \in [Members -> Level] : \A again :
              TellsValues(p, val, in, again) =>
                TellsValues(d, val, in, again) /\ \A u \in SUBSET Keys : TellsShape(d, vs, u)
      BY <2>4
    <2>8. TracksOn(p, val, d, val)
      BY <1>12, <2>1
    <2> HIDE DEF gone, kept
    <2> QED BY <2>1, <2>2, <2>5, <2>6, <2>7, <2>8 DEF Renewed
  <1>16. CASE q.hold # NoHold /\ urgent
    <2>1. d = SendUnit(q, vs)
      BY <1>1, <1>16
    <2>2. /\ Steady(q, d, vs)
          /\ q.wants => \A in \in [Members -> Level] : \A again : \A u \in SUBSET Keys :
               TellsValues(q, val, in, again) => TellsShape(d, vs, u)
          /\ Len(d.order) <= Len(q.order)
      BY <1>5, <1>10, <1>16, <2>1, SendUnitIs
    <2>3. /\ d \in Provider /\ d.hold = q.hold /\ d.wants = q.wants /\ d.again = q.again
          /\ d.processed = q.processed /\ Len(d.out) >= Len(q.out) /\ FeedsOK(d, vs)
      BY <2>2 DEF Steady
    <2>4. WindowOK(d)
      <3>1. d.order # <<>> => q.order # <<>>
        <4>1. d.order \in Seq(Keys) /\ q.order \in Seq(Keys)
          BY <1>5, <2>3, ProviderIs
        <4> QED BY <4>1, <2>2
      <3>2. d \in Sender
        BY <2>3, ProviderIs
      <3> QED BY <1>13, <1>14, <2>3, <3>1, <3>2, FullMore DEF WindowOK
    <2>5. \A l : p.hold <= l /\ Bounded(p.out, l) => Bounded(d.out, l)
      BY <1>5, <2>2 DEF Steady
    <2>6. \A h : First(h, p) => First(h, d)
      BY <1>12, <2>2 DEF Steady
    <2>7. p.wants => \A in \in [Members -> Level] : \A again :
         TellsValues(p, val, in, again) =>
           TellsValues(d, val, in, again) /\ \A u \in SUBSET Keys : TellsShape(d, vs, u)
      BY <1>5, <1>12, <2>2 DEF Steady
    <2>8. Len(d.out) >= Len(p.out)
      BY <1>5, <2>3
    <2>9. /\ d.hold = p.hold /\ d.wants = p.wants /\ d.again = p.again
          /\ d.processed = p.processed
      BY <1>5, <2>3
    <2>10. p.hold # NoHold /\ p.wants =>
            \A in \in [Members -> Level] : \A again :
              TellsValues(p, val, in, again) =>
                TellsValues(d, val, in, again) /\ \A u \in SUBSET Keys : TellsShape(d, vs, u)
      BY <2>7
    <2>11. TracksOn(p, val, d, val)
      BY <1>12, <2>2, TracksOnTwice DEF Steady
    <2> QED BY <2>3, <2>4, <2>5, <2>6, <2>8, <2>9, <2>10, <2>11 DEF Renewed
  <1>17. CASE q.hold # NoHold /\ ~urgent
    <2>1. d = Flush(e, vs)
      BY <1>1, <1>17
    <2>2. /\ Kept(q, e) /\ e.out = q.out /\ e.slots = q.slots
          /\ \A l : Waits(e, l) <=> Waits(q, l) \/ l = "unit"
      <3>1. "unit" \in Keys /\ q \notin Relay
        BY <1>5, <1>14, SenderIs DEF Keys
      <3> QED BY <1>14, <3>1, QueuedIs DEF e
    <2>3. /\ e \in Provider /\ e.hold = q.hold /\ e.wants = q.wants /\ e.again = q.again
          /\ e.processed = q.processed /\ e.feeds = q.feeds
      BY <1>5, <2>2 DEF Kept
    <2>4. Fed(e) = Fed(q)
      BY <2>2, <2>3 DEF Fed
    <2>5. FeedsOK(e, vs)
      <3>1. SlotsOK(e)
        BY <1>10, <2>2, <2>3 DEF FeedsOK, SlotsOK
      <3> QED BY <1>10, <1>17, <2>2, <2>3, <2>4, <3>1, MembersAssumption DEF FeedsOK
    <2>5a. Shrinks(q, e)
      <3>1. \A m \in Members : m \notin Fed(e) => e.slots[m] = Idle
        BY <2>3, <2>5, UnfedIdle
      <3> QED BY <2>2, <2>3, <2>4, <3>1 DEF Shrinks
    <2>6. /\ \A h : First(h, q) => First(h, e)
          /\ \A in : \A again : TellsValues(q, val, in, again) => TellsValues(e, val, in, again)
          /\ TracksOn(q, val, e, val)
      BY <1>5, <2>5a, ShrinksIs
    <2>7. \A u : TellsShape(e, vs, u)
      BY <2>2 DEF TellsShape
    <2>8. Steady(e, d, vs) /\ WindowOK(d)
      BY <2>1, <2>3, <2>5, ProviderFlush
    <2>9. /\ d \in Provider /\ d.hold = e.hold /\ d.wants = e.wants /\ d.again = e.again
          /\ d.processed = e.processed /\ Len(d.out) >= Len(e.out) /\ FeedsOK(d, vs)
      BY <2>8 DEF Steady
    <2>10. \A l : p.hold <= l /\ Bounded(p.out, l) => Bounded(d.out, l)
      BY <1>5, <2>2, <2>3, <2>8 DEF Steady
    <2>11. \A h : First(h, p) => First(h, d)
      BY <1>12, <2>6, <2>8 DEF Steady
    <2>12. p.wants => \A in \in [Members -> Level] : \A again :
         TellsValues(p, val, in, again) =>
           TellsValues(d, val, in, again) /\ \A u \in SUBSET Keys : TellsShape(d, vs, u)
      <3> SUFFICES ASSUME p.wants, NEW in \in [Members -> Level], NEW again, TellsValues(p, val, in, again)
                   PROVE  TellsValues(d, val, in, again) /\ \A u \in SUBSET Keys : TellsShape(d, vs, u)
        OBVIOUS
      <3>1. TellsValues(e, val, in, again)
        BY <1>12, <2>6
      <3>2. e.wants
        BY <1>5, <2>3
      <3>3. /\ TellsValues(d, val, in, again)
            /\ \A u \in SUBSET Keys : TellsShape(e, vs, u) => TellsShape(d, vs, u)
        BY <2>8, <3>1, <3>2 DEF Steady
      <3> QED BY <2>7, <3>3
    <2>13. Len(d.out) >= Len(p.out)
      BY <1>5, <2>2, <2>9
    <2>14. /\ d.hold = p.hold /\ d.wants = p.wants /\ d.again = p.again
           /\ d.processed = p.processed
      BY <1>5, <2>3, <2>9
    <2>15. p.hold # NoHold /\ p.wants =>
            \A in \in [Members -> Level] : \A again :
              TellsValues(p, val, in, again) =>
                TellsValues(d, val, in, again) /\ \A u \in SUBSET Keys : TellsShape(d, vs, u)
      BY <2>12
    <2>16. TracksOn(p, val, d, val)
      <3>1. TracksOn(e, val, d, val)
        BY <2>8 DEF Steady
      <3> QED BY <1>12, <2>6, <3>1, TracksOnTwice
    <2> QED BY <2>8, <2>9, <2>10, <2>11, <2>13, <2>14, <2>15, <2>16 DEF Renewed
  <1> QED BY <1>15, <1>16, <1>17

-----------------------------------------------------------------------------
(* Requests.  A control is the hold the provider serves, whether it is to     *)
(* send state, and the last hold it served; a request for what it does not    *)
(* find makes it Wrong.                                                       *)

Control == [hold : Nat, wants : BOOLEAN, last : Nat]
Wrong == [hold |-> -1, wants |-> FALSE, last |-> -1]
Controls == Control \cup {Wrong}
Finds(c, msg) ==
  CASE msg.t = "hold" -> c.hold = NoHold /\ msg.id > c.last
    [] msg.t = "release" -> c.hold # NoHold
    [] msg.t = "sub" -> c.hold # NoHold /\ ~c.wants
    [] msg.t = "unsub" -> c.hold # NoHold /\ c.wants
    [] msg.t = "resync" -> TRUE
Turned(c, msg) ==
  CASE msg.t = "hold" -> [hold |-> msg.id, wants |-> msg.state, last |-> msg.id]
    [] msg.t = "release" -> [c EXCEPT !.hold = NoHold]
    [] msg.t = "sub" -> [c EXCEPT !.wants = TRUE]
    [] msg.t = "unsub" -> [c EXCEPT !.wants = FALSE]
    [] msg.t = "resync" -> c
Turn(c, msg) == IF c # Wrong /\ Finds(c, msg) THEN Turned(c, msg) ELSE Wrong
Turning == [p \in Controls \X Message |-> Turn(p[1], p[2])]
Serving(p, l) == [hold |-> p.hold, wants |-> p.wants, last |-> l]

\* With l the last hold that reached the provider p: the requests on their way take it
\* to the relay's hold, then to the consumer's hold and wish.
Agree(l, p, r, c, ps, as, n) ==
  LET a == Fold(Turning, ps, Serving(p, l))
      b == Fold(Turning, as, a) IN
  /\ p.hold <= l /\ Bounded(p.out, l)
  /\ a.hold = r.hold /\ b.hold = c.hold /\ b # Wrong
  /\ c.hold # NoHold => b.wants = c.wish
  /\ b.last <= n + (IF c.hold # NoHold THEN 1 ELSE 0)
RequestsOK ==
  /\ \E l \in Nat : Agree(l, prov, relay, cons, passed, asked, events)
  /\ cons.hold = NoHold => asked = <<>>
  /\ \A i \in DOMAIN asked : asked[i].t \in {"hold", "sub", "unsub"}

-----------------------------------------------------------------------------
(* What the consumer knows, and what the relay passes on.                     *)

Here(c, m) ==
  IF c.members[m] = None THEN Unknown ELSE IF m \in c.failed THEN Failed ELSE c.members[m]
Ready(p, m) ==
  IF m \in p.failed THEN Failed ELSE IF m \in p.missing THEN None ELSE p.values[m]
Start(c, m) ==
  LET p == c.pending IN
  IF p.on
  THEN IF m \notin p.members THEN Unknown
       ELSE IF m \in p.missing \/ p.values[m] # None THEN Ready(p, m) ELSE Here(c, m)
  ELSE IF m \in c.shape THEN Here(c, m) ELSE Unknown
Passing(c, r, m) ==
  LET x == Reach(r, m, Nat, Start(c, m)) IN
  IF m \in r.awaiting /\ Known(x) THEN None ELSE x
Inbound(c, r) == [m \in Members |-> Passing(c, r, m)]

\* The shape the views have or wait for, if they want state: {"unit"} is none.
NoShape == {"unit"}
ShapeOf(c) ==
  IF c.pending.on THEN IF c.pending.missing = {} THEN NoShape ELSE c.pending.members
  ELSE IF c.status = "live" /\ c.hydrated THEN c.shape ELSE NoShape
ShapeIn(c, r) == Fold(Shaping(Nat), r.out, ShapeOf(c))

AskedAgain(q) == {m \in Members : \E i \in DOMAIN q : q[i] = Resync(m)}

\* The invariant.
ShapeFirst == relay.hold # NoHold /\ ~relay.shaped => First(relay.hold, prov)
ProvOK(p, vs) == FeedsOK(p, vs) /\ WindowOK(p)
RelayOK(r) ==
  /\ SlotsOK(r) /\ WindowOK(r)
  /\ \A m \in Members : ~r.slots[m].lazy
  /\ \A m \in Members : r.hold = NoHold \/ ~r.shaped \/ m \in r.urgent => r.slots[m] = Idle
ConsOK(c) ==
  /\ ~c.pending.on => c.pending = NoPending
  /\ \A m \in Members : /\ c.members[m] # None => m \in c.shape
                        /\ c.members[m] # Failed /\ c.pending.values[m] # Failed
  /\ c.pending.missing \subseteq c.pending.members
Quiet ==
  /\ cons.hold # NoHold /\ cons.wish /\ cons.status # "ended" /\ asked = <<>>
  /\ \A i \in DOMAIN passed : passed[i].t = "resync"
Current ==
  Quiet => /\ TellsValues(prov, val, Inbound(cons, relay), AskedAgain(passed))
           /\ TellsShape(prov, variant, ShapeIn(cons, relay))

IInv ==
  /\ TypeOK /\ RequestsOK /\ ShapeFirst
  /\ ProvOK(prov, variant) /\ RelayOK(relay) /\ ConsOK(cons)
  /\ Current

-----------------------------------------------------------------------------
(* Requests one after the other.                                              *)

LEMMA TurnIs ==
  ASSUME NEW c \in Controls, NEW msg \in Message
  PROVE  /\ Turning[<<c, msg>>] = Turn(c, msg) /\ Turn(c, msg) \in Controls
         /\ Turn(c, msg) # Wrong =>
              /\ c \in Control /\ Turn(c, msg) \in Control /\ Finds(c, msg)
              /\ Turn(c, msg) = Turned(c, msg) /\ Turn(c, msg).last >= c.last
  <1>1. /\ msg.t \in {"hold", "release", "sub", "unsub", "resync"} /\ msg.id \in Nat
        /\ msg.state \in BOOLEAN
    BY DEF Message
  <1>2. ASSUME c \in Control, Finds(c, msg)
        PROVE  Turned(c, msg) \in Control /\ Turned(c, msg).last >= c.last
    <2>1. c.hold \in Nat /\ c.wants \in BOOLEAN /\ c.last \in Nat
      BY <1>2 DEF Control
    <2>2. CASE msg.t = "hold"
      BY <1>1, <1>2, <2>1, <2>2 DEF Turned, Finds, Control
    <2>3. CASE msg.t = "release"
      BY <1>2, <2>1, <2>3 DEF Turned, Control, NoHold
    <2>4. CASE msg.t = "sub"
      <3> DEFINE d == [c EXCEPT !.wants = TRUE]
      <3>1. Turned(c, msg) = d
        BY <2>4 DEF Turned
      <3>2. d \in Control
        BY <1>2 DEF Control
      <3>3. d.last = c.last
        BY <1>2 DEF Control
      <3> HIDE DEF d
      <3> QED BY <2>1, <3>1, <3>2, <3>3
    <2>5. CASE msg.t = "unsub"
      <3> DEFINE d == [c EXCEPT !.wants = FALSE]
      <3>1. Turned(c, msg) = d
        BY <2>5 DEF Turned
      <3>2. d \in Control
        BY <1>2 DEF Control
      <3>3. d.last = c.last
        BY <1>2 DEF Control
      <3> HIDE DEF d
      <3> QED BY <2>1, <3>1, <3>2, <3>3
    <2>6. CASE msg.t = "resync"
      BY <1>2, <2>1, <2>6 DEF Turned
    <2> QED BY <1>1, <2>2, <2>3, <2>4, <2>5, <2>6
  <1>3. c # Wrong => c \in Control
    BY DEF Controls
  <1>4. /\ Turn(c, msg) \in Controls
        /\ Turn(c, msg) # Wrong =>
             /\ c \in Control /\ Turn(c, msg) \in Control /\ Finds(c, msg)
             /\ Turn(c, msg) = Turned(c, msg) /\ Turn(c, msg).last >= c.last
    BY <1>2, <1>3 DEF Turn, Controls
  <1> DEFINE p == <<c, msg>>
  <1>5. p \in Controls \X Message /\ p[1] = c /\ p[2] = msg
    OBVIOUS
  <1> HIDE DEF p
  <1>6. Turning[p] = Turn(p[1], p[2])
    BY <1>5 DEF Turning
  <1> QED BY <1>4, <1>5, <1>6 DEF p

LEMMA WrongIsNot == Wrong \notin Control
  BY DEF Wrong, Control

LEMMA TurnsIs ==
  ASSUME NEW q \in Seq(Message), NEW c \in Controls
  PROVE  LET d == Fold(Turning, q, c) IN
         /\ d \in Controls
         /\ d # Wrong => c \in Control /\ d \in Control /\ d.last >= c.last
  <1> DEFINE S == {d \in Controls : d # Wrong => c \in Control /\ d \in Control /\ d.last >= c.last}
  <1>1. c \in S
    BY DEF Control, Controls
  <1>2. ASSUME NEW d \in S, NEW msg \in Message PROVE Turning[<<d, msg>>] \in S
    <2> DEFINE e == Turn(d, msg)
    <2>1. d \in Controls /\ (d # Wrong => c \in Control /\ d \in Control /\ d.last >= c.last)
      OBVIOUS
    <2>2. /\ Turning[<<d, msg>>] = e /\ e \in Controls
          /\ e # Wrong => d \in Control /\ e \in Control /\ e.last >= d.last
      BY <2>1, TurnIs
    <2> HIDE DEF e
    <2>3. ASSUME e # Wrong PROVE c \in Control /\ e \in Control /\ e.last >= c.last
      <3>1. d \in Control /\ e \in Control /\ e.last >= d.last
        BY <2>2, <2>3
      <3>2. c \in Control /\ d.last >= c.last
        BY <2>1, <3>1, WrongIsNot
      <3>3. c.last \in Nat /\ d.last \in Nat /\ e.last \in Nat
        BY <3>1, <3>2 DEF Control
      <3> QED BY <3>1, <3>2, <3>3
    <2> QED BY <2>2, <2>3
  <1> HIDE DEF S
  <1>3. Fold(Turning, q, c) \in S
    BY <1>1, <1>2, FoldStays
  <1> QED BY <1>3 DEF S

LEMMA TurnsNot ==
  ASSUME NEW q \in Seq(Message), NEW c \in Control, \A i \in DOMAIN q : q[i].t = "resync"
  PROVE  Fold(Turning, q, c) = c
  <1> DEFINE X == {msg \in Message : msg.t = "resync"}
             S == {c}
  <1>1. q \in Seq(X)
    <2>1. q \in [1..Len(q) -> X] /\ Len(q) \in Nat
      OBVIOUS
    <2> QED BY <2>1
  <1>2. ASSUME NEW d \in S, NEW msg \in X PROVE Turning[<<d, msg>>] \in S
    <2>1. msg \in Message /\ msg.t = "resync" /\ d = c /\ c \in Controls
      BY DEF Controls
    <2>2. Turning[<<d, msg>>] = Turn(c, msg)
      BY <2>1, TurnIs
    <2>3. Turn(c, msg) = c
      BY <2>1, WrongIsNot DEF Turn, Finds, Turned
    <2> QED BY <2>2, <2>3
  <1>3. c \in S
    OBVIOUS
  <1> HIDE DEF S, X
  <1>4. Fold(Turning, q, c) \in S
    BY <1>1, <1>2, <1>3, FoldStays
  <1> QED BY <1>4 DEF S

LEMMA ServingIs ==
  ASSUME NEW p \in Provider, NEW l \in Nat
  PROVE  /\ Serving(p, l) \in Control /\ Serving(p, l).hold = p.hold
         /\ Serving(p, l).wants = p.wants /\ Serving(p, l).last = l
  <1>1. p.hold \in Nat /\ p.wants \in BOOLEAN
    BY ProviderIs
  <1> QED BY <1>1 DEF Serving, Control

\* The controls at the relay and at the consumer.
AtRelay(l, p, ps) == Fold(Turning, ps, Serving(p, l))
AtConsumer(l, p, ps, as) == Fold(Turning, as, AtRelay(l, p, ps))

\* What agreement says of these controls a and b.
Agreed(a, b, l, p, r, c, n) ==
  /\ p.hold <= l /\ Bounded(p.out, l)
  /\ a \in Control /\ a.hold = r.hold /\ a.last >= l
  /\ b \in Control /\ b.hold = c.hold /\ b.last >= a.last
  /\ c.hold # NoHold => b.wants = c.wish
  /\ b.last <= n + (IF c.hold # NoHold THEN 1 ELSE 0)

LEMMA AgreeIs ==
  ASSUME NEW p \in Provider, NEW l \in Nat, NEW ps \in Seq(Message), NEW as \in Seq(Message),
         NEW r, NEW c, NEW n, Agree(l, p, r, c, ps, as, n)
  PROVE  Agreed(AtRelay(l, p, ps), AtConsumer(l, p, ps, as), l, p, r, c, n)
  <1> DEFINE a == AtRelay(l, p, ps)
             b == AtConsumer(l, p, ps, as)
  <1>1. /\ p.hold <= l /\ Bounded(p.out, l) /\ a.hold = r.hold /\ b.hold = c.hold /\ b # Wrong
        /\ c.hold # NoHold => b.wants = c.wish
        /\ b.last <= n + (IF c.hold # NoHold THEN 1 ELSE 0)
    BY DEF Agree, AtRelay, AtConsumer
  <1>2. Serving(p, l) \in Controls
    BY ServingIs DEF Controls
  <1>3. a \in Controls /\ (a # Wrong => a.last >= l)
    BY <1>2, TurnsIs, ServingIs DEF AtRelay
  <1> HIDE DEF a
  <1>4. b = Fold(Turning, as, a)
    BY DEF AtConsumer, a
  <1> HIDE DEF b
  <1>5. b \in Control /\ a \in Control /\ b.last >= a.last
    BY <1>1, <1>3, <1>4, TurnsIs
  <1>6. a # Wrong
    BY <1>5, WrongIsNot
  <1> QED BY <1>1, <1>3, <1>5, <1>6 DEF Agreed, a, b

LEMMA AgreeBy ==
  ASSUME NEW p, NEW l, NEW ps, NEW as, NEW r, NEW c, NEW n, NEW a, NEW b,
         a = AtRelay(l, p, ps), b = Fold(Turning, as, a),
         p.hold <= l, Bounded(p.out, l), a.hold = r.hold, b.hold = c.hold, b \in Control,
         c.hold # NoHold => b.wants = c.wish, b.last <= n + (IF c.hold # NoHold THEN 1 ELSE 0)
  PROVE  Agree(l, p, r, c, ps, as, n)
  BY WrongIsNot DEF Agree, AtRelay

LEMMA AgreeQuiet ==
  ASSUME NEW p \in Provider, NEW l \in Nat, NEW ps \in Seq(Message), NEW r, NEW c, NEW n,
         Agree(l, p, r, c, ps, <<>>, n), \A i \in DOMAIN ps : ps[i].t = "resync",
         c.hold # NoHold
  PROVE  p.hold = c.hold /\ r.hold = c.hold /\ p.wants = c.wish
  <1> DEFINE a == AtRelay(l, p, ps)
             b == AtConsumer(l, p, ps, <<>>)
  <1>1. <<>> \in Seq(Message)
    OBVIOUS
  <1>1a. Agreed(a, b, l, p, r, c, n)
    BY <1>1, AgreeIs
  <1>2. a.hold = r.hold /\ b.hold = c.hold /\ b.wants = c.wish
    BY <1>1a DEF Agreed
  <1>3. b = a
    BY FoldEmpty DEF AtConsumer
  <1>4. a = Serving(p, l)
    BY TurnsNot, ServingIs DEF AtRelay
  <1> QED BY <1>2, <1>3, <1>4, ServingIs

\* Steps that leave the holds alone, and the relay asking for members again.
LEMMA AgreeStays ==
  ASSUME NEW p \in Provider, NEW l \in Nat, NEW ps \in Seq(Message), NEW as \in Seq(Message),
         NEW r, NEW c, NEW n \in Nat, Agree(l, p, r, c, ps, as, n),
         NEW p2, p2.hold = p.hold, p2.wants = p.wants, Bounded(p2.out, l),
         NEW r2, r2.hold = r.hold, NEW c2, c2.hold = c.hold, c.hold = NoHold \/ c2.wish = c.wish,
         NEW n2 \in Nat, n <= n2,
         NEW q \in Seq(Message), \A i \in DOMAIN q : q[i].t = "resync"
  PROVE  Agree(l, p2, r2, c2, ps \o q, as, n2)
  <1> DEFINE a == AtRelay(l, p, ps)
             b == AtConsumer(l, p, ps, as)
  <1>0. Agreed(AtRelay(l, p, ps), AtConsumer(l, p, ps, as), l, p, r, c, n)
    BY AgreeIs
  <1>1. /\ p.hold <= l /\ a \in Control /\ a.hold = r.hold /\ b \in Control /\ b.hold = c.hold
        /\ c.hold # NoHold => b.wants = c.wish
        /\ b.last <= n + (IF c.hold # NoHold THEN 1 ELSE 0)
    BY <1>0 DEF Agreed
  <1>2. Fold(Turning, ps \o q, Serving(p, l)) = Fold(Turning, q, a)
    BY FoldConcat DEF AtRelay
  <1>3. Fold(Turning, q, a) = a
    BY <1>1, TurnsNot
  <1>4. Serving(p2, l) = Serving(p, l)
    BY DEF Serving
  <1>5. a = AtRelay(l, p2, ps \o q) /\ b = Fold(Turning, as, a)
    BY <1>2, <1>3, <1>4 DEF AtRelay, AtConsumer
  <1> HIDE DEF a, b
  <1>6. b.last <= n2 + (IF c2.hold # NoHold THEN 1 ELSE 0)
    <2>1. b.last \in Nat
      BY <1>1 DEF Control
    <2> QED BY <1>1, <2>1
  <1>7. c2.hold # NoHold => b.wants = c2.wish
    BY <1>1
  <1>8. p2.hold <= l /\ a.hold = r2.hold /\ b.hold = c2.hold /\ b \in Control
    BY <1>1
  <1> QED BY <1>5, <1>6, <1>7, <1>8, AgreeBy

\* The provider serves a request.
LEMMA AgreeServed ==
  ASSUME NEW p \in Provider, NEW l \in Nat, NEW ps \in Seq(Message), NEW as \in Seq(Message),
         NEW r, NEW c, NEW n, Agree(l, p, r, c, ps, as, n), ps # <<>>
  PROVE  LET k == Turned(Serving(p, l), Head(ps)) IN
         /\ Finds(Serving(p, l), Head(ps)) /\ k \in Control /\ k.last >= l
         /\ \A p2 : p2.hold = k.hold /\ p2.wants = k.wants /\ p2.hold <= k.last /\ Bounded(p2.out, k.last)
                      => Agree(k.last, p2, r, c, Tail(ps), as, n)
  <1> DEFINE k == Turned(Serving(p, l), Head(ps))
             s == Serving(p, l)
             a == AtRelay(l, p, ps)
             b == AtConsumer(l, p, ps, as)
             msg == Head(ps)
  <1>0. Agreed(AtRelay(l, p, ps), AtConsumer(l, p, ps, as), l, p, r, c, n)
    BY AgreeIs
  <1>1. /\ a \in Control /\ a.hold = r.hold /\ b \in Control /\ b.hold = c.hold
        /\ c.hold # NoHold => b.wants = c.wish
        /\ b.last <= n + (IF c.hold # NoHold THEN 1 ELSE 0)
    BY <1>0 DEF Agreed
  <1>2. msg \in Message /\ Tail(ps) \in Seq(Message)
    OBVIOUS
  <1>3. s \in Control /\ s \in Controls /\ s.last = l
    BY ServingIs DEF Controls
  <1>4. a = Fold(Turning, Tail(ps), Turning[<<s, msg>>])
    BY FoldHead DEF AtRelay
  <1>5. b = Fold(Turning, as, a)
    BY DEF AtConsumer
  <1> HIDE DEF a, b, s, msg
  <1>6. Turning[<<s, msg>>] = Turn(s, msg) /\ Turn(s, msg) \in Controls
    BY <1>2, <1>3, TurnIs
  <1>7. Turn(s, msg) # Wrong
    BY <1>1, <1>2, <1>4, <1>6, TurnsIs, WrongIsNot
  <1>8. /\ Turn(s, msg) \in Control /\ Finds(s, msg) /\ Turn(s, msg) = Turned(s, msg)
        /\ Turn(s, msg).last >= s.last
    BY <1>2, <1>3, <1>7, TurnIs
  <1>9. k = Turned(s, msg)
    BY DEF s, msg
  <1> HIDE DEF k
  <1>10. a = Fold(Turning, Tail(ps), k) /\ k \in Control /\ k.last >= l
    BY <1>3, <1>4, <1>6, <1>8, <1>9
  <1>11. ASSUME NEW p2, p2.hold = k.hold, p2.wants = k.wants, p2.hold <= k.last, Bounded(p2.out, k.last)
         PROVE  Agree(k.last, p2, r, c, Tail(ps), as, n)
    <2>1. Serving(p2, k.last) = k
      BY <1>10, <1>11 DEF Serving, Control
    <2>2. a = AtRelay(k.last, p2, Tail(ps))
      BY <1>10, <2>1 DEF AtRelay
    <2> QED BY <1>1, <1>5, <1>11, <2>2, AgreeBy
  <1> QED BY <1>8, <1>9, <1>10, <1>11 DEF k, s, msg

\* The relay passes a request on.
LEMMA AgreePassed ==
  ASSUME NEW p \in Provider, NEW l \in Nat, NEW ps \in Seq(Message), NEW as \in Seq(Message),
         NEW r, NEW c, NEW n, Agree(l, p, r, c, ps, as, n), as # <<>>
  PROVE  LET a == AtRelay(l, p, ps)
             k == Turned(a, Head(as)) IN
         /\ Finds(a, Head(as)) /\ a \in Control /\ a.hold = r.hold /\ a.last >= l /\ k \in Control
         /\ \A r2 : r2.hold = k.hold => Agree(l, p, r2, c, Append(ps, Head(as)), Tail(as), n)
  <1> DEFINE a == AtRelay(l, p, ps)
             b == AtConsumer(l, p, ps, as)
             msg == Head(as)
             k == Turned(a, msg)
  <1>0. Agreed(AtRelay(l, p, ps), AtConsumer(l, p, ps, as), l, p, r, c, n)
    BY AgreeIs
  <1>1. /\ p.hold <= l /\ Bounded(p.out, l)
        /\ a \in Control /\ a.hold = r.hold /\ a.last >= l /\ b \in Control /\ b.hold = c.hold
        /\ c.hold # NoHold => b.wants = c.wish
        /\ b.last <= n + (IF c.hold # NoHold THEN 1 ELSE 0)
    BY <1>0 DEF Agreed
  <1>2. msg \in Message /\ Tail(as) \in Seq(Message)
    <2> HIDE DEF k, a, b
    <2> QED BY HeadTailProperties
  <1>3. a \in Controls
    BY <1>1 DEF Controls
  <1>4. b = Fold(Turning, Tail(as), Turning[<<a, msg>>])
    BY FoldHead DEF AtConsumer
  <1> HIDE DEF msg, k
  <1>5. AtRelay(l, p, Append(ps, msg)) = Turning[<<a, msg>>]
    <2>1. Fold(Turning, Append(ps, msg), Serving(p, l)) = Turning[<<Fold(Turning, ps, Serving(p, l)), msg>>]
      BY <1>2, FoldAppend
    <2> QED BY <2>1 DEF AtRelay
  <1> HIDE DEF a, b
  <1>6. Turning[<<a, msg>>] = Turn(a, msg) /\ Turn(a, msg) \in Controls
    BY <1>2, <1>3, TurnIs
  <1>7. Turn(a, msg) # Wrong
    BY <1>1, <1>2, <1>4, <1>6, TurnsIs, WrongIsNot
  <1>8. Turn(a, msg) \in Control /\ Finds(a, msg) /\ Turn(a, msg) = k
    BY <1>2, <1>3, <1>7, TurnIs DEF k
  <1>9. b = Fold(Turning, Tail(as), k) /\ AtRelay(l, p, Append(ps, msg)) = k /\ k \in Control
    BY <1>4, <1>5, <1>6, <1>8
  <1>10. ASSUME NEW r2, r2.hold = k.hold PROVE Agree(l, p, r2, c, Append(ps, msg), Tail(as), n)
    BY <1>1, <1>9, <1>10, AgreeBy
  <1> QED BY <1>1, <1>8, <1>9, <1>10 DEF a, k, msg

LEMMA TurnsMore ==
  ASSUME NEW q \in Seq(Message), NEW msg \in Message, NEW v
  PROVE  Fold(Turning, Append(q, msg), v) = Turning[<<Fold(Turning, q, v), msg>>]
  BY FoldAppend, SMTT(30)

\* The consumer asks for something.
LEMMA AgreeAsked ==
  ASSUME NEW p \in Provider, NEW l \in Nat, NEW ps \in Seq(Message), NEW as \in Seq(Message),
         NEW r, NEW c, NEW n, Agree(l, p, r, c, ps, as, n), NEW msg \in Message,
         LET b == AtConsumer(l, p, ps, as) IN Finds(b, msg),
         NEW c2, NEW n2,
         LET k == Turned(AtConsumer(l, p, ps, as), msg) IN
           /\ k.hold = c2.hold /\ (c2.hold # NoHold => k.wants = c2.wish)
           /\ k.last <= n2 + (IF c2.hold # NoHold THEN 1 ELSE 0)
  PROVE  Agree(l, p, r, c2, ps, Append(as, msg), n2)
  <1> DEFINE a == AtRelay(l, p, ps)
             b == AtConsumer(l, p, ps, as)
             k == Turned(b, msg)
  <1>0. Agreed(AtRelay(l, p, ps), AtConsumer(l, p, ps, as), l, p, r, c, n)
    BY AgreeIs
  <1>1. /\ p.hold <= l /\ Bounded(p.out, l) /\ a.hold = r.hold /\ b \in Control
    BY <1>0 DEF Agreed
  <1>2. Fold(Turning, Append(as, msg), a) = Turning[<<b, msg>>]
    <2>1. b = Fold(Turning, as, a)
      BY DEF AtConsumer
    <2> HIDE DEF a, b, k
    <2>2. Fold(Turning, Append(as, msg), a) = Turning[<<Fold(Turning, as, a), msg>>]
      BY TurnsMore
    <2> QED BY <2>1, <2>2
  <1>3. Finds(b, msg) /\ k.hold = c2.hold /\ (c2.hold # NoHold => k.wants = c2.wish)
        /\ k.last <= n2 + (IF c2.hold # NoHold THEN 1 ELSE 0)
    OBVIOUS
  <1> HIDE DEF b
  <1>4. b # Wrong /\ b \in Controls
    BY <1>1, WrongIsNot DEF Controls
  <1>5. Turning[<<b, msg>>] = Turn(b, msg) /\ Turn(b, msg) = k
    BY <1>3, <1>4, TurnIs DEF Turn
  <1>6. k \in Control
    <2>1. msg.t \in {"hold", "release", "sub", "unsub", "resync"} /\ msg.id \in Nat
      BY DEF Message
    <2>2. k.hold # -1
      BY <1>1, <1>3, <2>1 DEF Turned, Control, NoHold
    <2>3. k # Wrong
      BY <2>2 DEF Wrong
    <2> HIDE DEF k
    <2> QED BY <1>4, <1>5, <2>3, TurnIs
  <1> HIDE DEF k, a
  <1>7. a = AtRelay(l, p, ps) /\ k = Fold(Turning, Append(as, msg), a)
    BY <1>2, <1>5 DEF a
  <1> QED BY <1>1, <1>3, <1>6, <1>7, AgreeBy

\* The consumer's link is lost.
LEMMA AgreeLost ==
  ASSUME NEW p \in Provider, NEW l \in Nat, NEW ps \in Seq(Message), NEW as \in Seq(Message),
         NEW r, NEW c, NEW n \in Nat, Agree(l, p, r, c, ps, as, n),
         NEW r2, r2.hold = NoHold, NEW c2, c2.hold = NoHold,
         NEW ps2, ps2 = IF r.hold = NoHold THEN ps ELSE Append(ps, Request("release"))
  PROVE  Agree(l, p, r2, c2, ps2, <<>>, n + 1)
  <1> DEFINE a == AtRelay(l, p, ps)
             b == AtConsumer(l, p, ps, as)
             msg == Request("release")
             k == IF r.hold = NoHold THEN a ELSE [a EXCEPT !.hold = NoHold]
  <1>0. Agreed(AtRelay(l, p, ps), AtConsumer(l, p, ps, as), l, p, r, c, n)
    BY AgreeIs
  <1>1. /\ p.hold <= l /\ Bounded(p.out, l) /\ a.hold = r.hold /\ a \in Control /\ b \in Control
        /\ b.last >= a.last /\ b.last <= n + (IF c.hold # NoHold THEN 1 ELSE 0)
    BY <1>0 DEF Agreed
  <1>2. AtRelay(l, p, Append(ps, msg)) = Turning[<<a, msg>>]
    <2>1. msg \in Message
      BY DEF Request, Message
    <2> QED BY <2>1, FoldAppend DEF AtRelay
  <1>3. msg \in Message /\ msg.t = "release"
    BY DEF Request, Message
  <1> HIDE DEF a, b, msg
  <1>4. a \in Controls /\ a # Wrong
    BY <1>1, WrongIsNot DEF Controls
  <1>5. r.hold # NoHold => Turning[<<a, msg>>] = k
    BY <1>1, <1>3, <1>4, TurnIs DEF Turn, Finds, Turned
  <1>6. AtRelay(l, p, ps2) = k
    BY <1>2, <1>5 DEF a, msg
  <1>7. a.last \in Nat /\ b.last \in Nat
    BY <1>1 DEF Control
  <1>8. k \in Control /\ k.hold = NoHold /\ k.last = a.last
    BY <1>1 DEF Control, NoHold
  <1> HIDE DEF k
  <1>9. k.last <= (n + 1) + (IF c2.hold # NoHold THEN 1 ELSE 0)
    BY <1>1, <1>7, <1>8
  <1>10. k = Fold(Turning, <<>>, k)
    BY FoldEmpty
  <1> QED BY <1>1, <1>6, <1>8, <1>9, <1>10, AgreeBy

-----------------------------------------------------------------------------
(* The consumer.                                                              *)

LEMMA ConsumerIs ==
  ASSUME NEW c \in Consumer
  PROVE  /\ c.wish \in BOOLEAN /\ c.hold \in Nat /\ c.shape \in SUBSET Members
         /\ c.hydrated \in BOOLEAN /\ c.status \in {"loading", "live", "ended"}
         /\ c.members \in [Members -> Value] /\ \A m \in Members : c.members[m] \in Value
         /\ c.pending.on \in BOOLEAN /\ c.pending.members \in SUBSET Members
         /\ c.pending.missing \in SUBSET Members /\ c.pending.values \in [Members -> Value]
         /\ \A m \in Members : c.pending.values[m] \in Value
         /\ c.failed \in SUBSET Members /\ c.left \in SUBSET Members
         /\ c.pending.failed \in SUBSET Members
  BY DEF Consumer, Values

LEMMA StartIs ==
  ASSUME NEW c \in Consumer, NEW m \in Members PROVE Start(c, m) \in Level
  BY ConsumerIs, LevelIs DEF Start, Here, Ready

Pendings ==
  [on : BOOLEAN, members : SUBSET Members, missing : SUBSET Members, values : Values,
   failed : SUBSET Members]

LEMMA NoPendingIs ==
  /\ NoPending \in Pendings
  /\ ~NoPending.on /\ NoPending.members = {} /\ NoPending.missing = {} /\ NoPending.failed = {}
  /\ \A m \in Members : NoPending.values[m] = None
  /\ Empty \in [Members -> Value] /\ \A m \in Members : Empty[m] = None
  <1>1. Empty \in [Members -> Value] /\ \A m \in Members : Empty[m] = None
    BY LevelIs DEF Empty
  <1> QED BY <1>1 DEF NoPending, Values, Pendings

LEMMA ApplyIs ==
  ASSUME NEW c \in Consumer
  PROVE  LET d == Apply(c)
             p == c.pending IN
         /\ d \in Consumer /\ d.wish = c.wish /\ d.hold = c.hold /\ d.pending = NoPending
         /\ d.shape = p.members /\ d.status = "live"
         /\ \A m \in Members : d.members[m] = IF m \notin p.members THEN None
                                              ELSE IF p.values[m] # None THEN p.values[m] ELSE c.members[m]
         /\ \A m \in Members : m \in d.failed <=> /\ m \in p.members
                                                  /\ IF p.values[m] # None THEN m \in p.failed ELSE m \in c.failed
         /\ \A m \in Members : m \in d.left <=> m \in c.left /\ m \in p.members /\ p.values[m] = None
         /\ d.overlap = c.overlap
         /\ d.wish /\ (\A m \in p.members : d.members[m] # None) => d.hydrated
  <1> DEFINE p == c.pending
             values == [m \in Members |->
               IF m \notin p.members THEN None
               ELSE IF p.values[m] # None THEN p.values[m] ELSE c.members[m]]
             hydrated == c.wish /\ \A m \in p.members : values[m] # None
             failed == {m \in p.members : m \in IF p.values[m] # None THEN p.failed ELSE c.failed}
             left == {m \in c.left \cap p.members : p.values[m] = None}
             d == [c EXCEPT !.pending = NoPending, !.shape = p.members, !.members = values,
                     !.failed = failed, !.left = left,
                     !.hydrated = hydrated, !.status = "live", !.applied = TRUE]
  <1>1. Apply(c) = d
    BY DEF Apply, Consumer
  <1>2. /\ values \in [Members -> Value]
        /\ \A m \in Members : values[m] = IF m \notin p.members THEN None
                                          ELSE IF p.values[m] # None THEN p.values[m] ELSE c.members[m]
    BY ConsumerIs, LevelIs
  <1>3. hydrated \in BOOLEAN /\ (c.wish /\ (\A m \in p.members : values[m] # None) => hydrated)
    OBVIOUS
  <1> HIDE DEF values, hydrated
  <1>4. p.members \in SUBSET Members
    BY ConsumerIs
  <1>4a. /\ failed \in SUBSET Members /\ left \in SUBSET Members
         /\ \A m \in Members : m \in failed <=> /\ m \in p.members
                                                /\ IF p.values[m] # None THEN m \in p.failed ELSE m \in c.failed
         /\ \A m \in Members : m \in left <=> m \in c.left /\ m \in p.members /\ p.values[m] = None
    BY <1>4
  <1> HIDE DEF p, failed, left
  <1>5. /\ d.wish = c.wish /\ d.hold = c.hold /\ d.pending = NoPending /\ d.shape = p.members
        /\ d.status = "live" /\ d.members = values /\ d.hydrated = hydrated
        /\ d.failed = failed /\ d.left = left /\ d.overlap = c.overlap
    BY DEF Consumer
  <1>6. d \in Consumer
    BY <1>2, <1>3, <1>4, <1>4a, NoPendingIs DEF Consumer, Values, Pendings
  <1> HIDE DEF d
  <1>7. d.wish /\ (\A m \in p.members : d.members[m] # None) => d.hydrated
    BY <1>3, <1>5
  <1> QED BY <1>1, <1>2, <1>4a, <1>5, <1>6, <1>7 DEF p

\* d is the consumer c after the frame f: no less is known then, and the shape the views
\* have or wait for is the last one, unless a newer one must come.
LastOf(c, f) == IF f.t = "shape" THEN f.members ELSE ShapeOf(c)
Follows(c, f, d) ==
  /\ d \in Consumer /\ d.wish = c.wish /\ d.hold = c.hold /\ ConsOK(d)
  /\ c.wish /\ d.status # "ended" =>
       /\ \A m \in Members : Leq(Heard(Start(c, m), m, f), Start(d, m))
       /\ \/ ShapeOf(d) = LastOf(c, f) \/ LastOf(c, f) = NoShape
          \/ \E m \in Members : m \in LastOf(c, f) /\ ~Known(Heard(Start(c, m), m, f))

LEMMA ShapedFollows ==
  ASSUME NEW c \in Consumer, ConsOK(c), NEW f \in Frame, f.t = "shape"
  PROVE  Follows(c, f, Shaped(c, f))
  <1> DEFINE p == c.pending
             missing == IF c.wish THEN (f.listed \cup p.missing) \cap f.members ELSE {}
             pending == [p EXCEPT !.on = TRUE, !.members = f.members, !.missing = missing]
             d == [c EXCEPT !.pending = pending]
             e == Apply(d)
  <1>1. Shaped(c, f) = IF missing = {} THEN e ELSE d
    BY DEF Shaped
  <1> HIDE DEF e
  <1>2. /\ f.members \in SUBSET Members /\ f.listed \in SUBSET Members
        /\ missing \in SUBSET Members /\ missing \subseteq f.members
    BY FrameIs
  <1>3. c.wish => \A m : m \in missing <=> (m \in f.listed \/ m \in p.missing) /\ m \in f.members
    OBVIOUS
  <1>4. ~c.wish => missing = {}
    OBVIOUS
  <1> HIDE DEF missing
  <1>5. /\ pending \in Pendings
        /\ pending.on /\ pending.members = f.members /\ pending.missing = missing
        /\ pending.values = p.values /\ pending.failed = p.failed
    <2>1. p \in Pendings
      BY DEF Consumer, Pendings
    <2> HIDE DEF p
    <2> QED BY <1>2, <2>1 DEF Pendings
  <1>6. /\ pending.on /\ pending.members = f.members /\ pending.missing = missing
        /\ pending.values = p.values /\ pending.failed = p.failed
    BY <1>5
  <1> HIDE DEF pending
  <1>7. /\ d \in Consumer /\ d.wish = c.wish /\ d.hold = c.hold /\ d.pending = pending
        /\ d.shape = c.shape /\ d.members = c.members /\ d.failed = c.failed
    BY <1>5 DEF Consumer, Pendings
  <1> HIDE DEF d
  <1>8. /\ ~p.on => p = NoPending
        /\ \A m \in Members : /\ c.members[m] # None => m \in c.shape
                              /\ c.members[m] # Failed /\ p.values[m] # Failed
    BY DEF ConsOK
  <1>9. ASSUME NEW m \in Members
        PROVE  Start(c, m) = IF p.on
                             THEN IF m \notin p.members THEN Unknown
                                  ELSE IF m \in p.missing \/ p.values[m] # None
                                  THEN IF m \in p.failed THEN Failed ELSE IF m \in p.missing THEN None ELSE p.values[m]
                                  ELSE Here(c, m)
                             ELSE IF m \in c.shape THEN Here(c, m) ELSE Unknown
    BY DEF Start, Ready
  <1>10. ASSUME NEW m \in Members
         PROVE  Heard(Start(c, m), m, f) = IF m \notin f.members THEN Unknown
                                           ELSE IF m \in f.listed THEN None ELSE Start(c, m)
    BY DEF Heard
  <1>11. ASSUME NEW m \in Members, ~p.on PROVE p.values[m] = None /\ m \notin p.missing
    BY <1>8, <1>11, NoPendingIs
  <1>12. CASE missing # {}
    <2>1. Shaped(c, f) = d /\ c.wish
      BY <1>1, <1>4, <1>12
    <2>2. ConsOK(d)
      BY <1>2, <1>6, <1>7, <1>8 DEF ConsOK
    <2>3. ShapeOf(d) = f.members
      BY <1>6, <1>7, <1>12 DEF ShapeOf
    <2>4. ASSUME NEW m \in Members PROVE Leq(Heard(Start(c, m), m, f), Start(d, m))
      <3>1. Start(d, m) = IF m \notin f.members THEN Unknown
                          ELSE IF m \in missing \/ p.values[m] # None
                          THEN IF m \in p.failed THEN Failed ELSE IF m \in missing THEN None ELSE p.values[m]
                          ELSE Here(c, m)
        BY <1>6, <1>7 DEF Start, Ready, Here
      <3>2. \/ Heard(Start(c, m), m, f) = Start(d, m) \/ Heard(Start(c, m), m, f) = Unknown
            \/ Start(d, m) = Failed
        <4>1. c.members[m] = None => Here(c, m) = Unknown
          BY DEF Here
        <4>2. m \notin c.shape => c.members[m] = None
          BY <1>8
        <4> HIDE DEF p
        <4> QED BY <1>3, <1>9, <1>10, <1>11, <2>1, <3>1, <4>1, <4>2
      <3> QED BY <3>2, LevelIs DEF Leq
    <2> QED BY <1>7, <2>1, <2>2, <2>3, <2>4 DEF Follows, LastOf
  <1>13. CASE missing = {}
    <2>1. /\ e \in Consumer /\ e.wish = c.wish /\ e.hold = c.hold /\ e.pending = NoPending
          /\ e.shape = f.members /\ e.status = "live"
          /\ \A m \in Members : e.members[m] = IF m \notin f.members THEN None
                                               ELSE IF p.values[m] # None THEN p.values[m] ELSE c.members[m]
          /\ \A m \in Members : m \in e.failed <=> /\ m \in f.members
                                                   /\ IF p.values[m] # None THEN m \in p.failed ELSE m \in c.failed
          /\ e.wish /\ (\A m \in f.members : e.members[m] # None) => e.hydrated
      <3>1. /\ e \in Consumer /\ e.wish = d.wish /\ e.hold = d.hold /\ e.pending = NoPending
            /\ e.shape = d.pending.members /\ e.status = "live"
            /\ \A m \in Members : e.members[m] = IF m \notin d.pending.members THEN None
                   ELSE IF d.pending.values[m] # None THEN d.pending.values[m] ELSE d.members[m]
            /\ \A m \in Members : m \in e.failed <=> /\ m \in d.pending.members
                   /\ IF d.pending.values[m] # None THEN m \in d.pending.failed ELSE m \in d.failed
            /\ e.wish /\ (\A m \in d.pending.members : e.members[m] # None) => e.hydrated
        BY <1>7, ApplyIs DEF e
      <3> HIDE DEF p
      <3> QED BY <1>6, <1>7, <3>1
    <2>2. Shaped(c, f) = e
      BY <1>1, <1>13
    <2>3. ConsOK(e)
      <3>1. \A m \in Members : NoPending.values[m] # Failed /\ None # Failed
        BY NoPendingIs, LevelIs
      <3> HIDE DEF p
      <3> QED BY <1>8, <2>1, <3>1, NoPendingIs DEF ConsOK
    <2>4. ASSUME NEW m \in Members
          PROVE  Start(e, m) = IF m \in f.members THEN Here(e, m) ELSE Unknown
      BY <2>1, NoPendingIs DEF Start
    <2>4a. ASSUME NEW m \in Members, m \in f.members
           PROVE  Here(e, m) = IF p.values[m] # None
                               THEN IF m \in p.failed THEN Failed ELSE p.values[m]
                               ELSE Here(c, m)
      <3> HIDE DEF p
      <3> QED BY <2>1, <2>4a DEF Here
    <2>5. ASSUME c.wish, NEW m \in Members
          PROVE  /\ Leq(Heard(Start(c, m), m, f), Start(e, m))
                 /\ m \in f.members /\ e.members[m] = None => ~Known(Heard(Start(c, m), m, f))
      <3>1. m \notin f.members \/ (m \notin f.listed /\ m \notin p.missing)
        BY <1>3, <1>13, <2>5
      <3>0. (c.members[m] = None => Here(c, m) = Unknown) /\ (m \notin c.shape => c.members[m] = None)
        BY <1>8 DEF Here
      <3>2. \/ Heard(Start(c, m), m, f) = Start(e, m) \/ Heard(Start(c, m), m, f) = Unknown
        <4> HIDE DEF p
        <4> QED BY <1>9, <1>10, <1>11, <2>4, <2>4a, <3>0, <3>1
      <3>3. m \in f.members /\ e.members[m] = None => Heard(Start(c, m), m, f) = Unknown
        <4> HIDE DEF p
        <4> QED BY <1>9, <1>10, <1>11, <2>1, <3>0, <3>1
      <3> QED BY <3>2, <3>3, LevelIs DEF Leq
    <2>6. ASSUME c.wish
          PROVE  \/ ShapeOf(e) = f.members
                 \/ \E m \in Members : m \in f.members /\ ~Known(Heard(Start(c, m), m, f))
      <3>1. CASE \A m \in f.members : e.members[m] # None
        BY <2>1, <2>6, <3>1, NoPendingIs DEF ShapeOf
      <3>2. CASE ~\A m \in f.members : e.members[m] # None
        BY <1>2, <2>5, <2>6, <3>2
      <3> QED BY <3>1, <3>2
    <2> QED BY <2>1, <2>2, <2>3, <2>5, <2>6 DEF Follows, LastOf
  <1> QED BY <1>12, <1>13

LEMMA OpsFollows ==
  ASSUME NEW c \in Consumer, ConsOK(c), NEW f \in Frame, f.t = "state", f.as = "ops"
  PROVE  Follows(c, f, StateOps(c, f))
  <1> DEFINE p == c.pending
             k == f.m
             d == StateOps(c, f)
  <1>1. /\ k \in Members /\ f.ops \in Seq(Edit)
        /\ p.values \in [Members -> Value] /\ c.members \in [Members -> Value]
        /\ p.values[k] \in Value /\ c.members[k] \in Value
    BY FrameIs, ConsumerIs
  <1>2. /\ \A v \in Value : Applied(v, f.ops) \in Value /\ (v # None => Applied(v, f.ops) # None)
        /\ \A v \in Value : v \notin {None, Failed} => Applied(v, f.ops) # Failed
    BY <1>1, AppliedIs
  <1>3. /\ d \in Consumer /\ d.wish = c.wish /\ d.hold = c.hold /\ d.shape = c.shape
        /\ d.status = c.status /\ d.hydrated = c.hydrated
        /\ d.pending.on = p.on /\ d.pending.members = p.members /\ d.pending.missing = p.missing
        /\ (p.values[k] = None => d.pending = p)
        /\ d.failed = c.failed /\ d.pending.failed = p.failed
        /\ d.left = c.left /\ d.overlap = c.overlap
        /\ \A m \in Members :
             /\ d.pending.values[m] = IF m = k /\ p.values[m] # None THEN Applied(p.values[m], f.ops)
                                      ELSE p.values[m]
             /\ d.members[m] = IF m = k /\ p.values[m] = None /\ c.members[m] # None
                               THEN Applied(c.members[m], f.ops) ELSE c.members[m]
    <2>1. CASE p.values[k] # None
      <3> DEFINE v == [p.values EXCEPT ![k] = Applied(@, f.ops)]
                 e == [c EXCEPT !.pending.values = v]
      <3>1. v \in [Members -> Value] /\ \A m \in Members : v[m] = IF m = k THEN Applied(p.values[m], f.ops) ELSE p.values[m]
        BY <1>1, <1>2
      <3>2. d = e
        BY <2>1 DEF StateOps, Consumer, Values
      <3> HIDE DEF v, d
      <3>3. /\ e \in Consumer /\ e.wish = c.wish /\ e.hold = c.hold /\ e.shape = c.shape
            /\ e.status = c.status /\ e.hydrated = c.hydrated /\ e.members = c.members
            /\ e.failed = c.failed /\ e.pending.failed = p.failed /\ e.left = c.left /\ e.overlap = c.overlap
            /\ e.pending.on = p.on /\ e.pending.members = p.members /\ e.pending.missing = p.missing
            /\ e.pending.values = v
        BY <3>1 DEF Consumer, Values
      <3> HIDE DEF e
      <3> QED BY <2>1, <3>1, <3>2, <3>3
    <2>2. CASE p.values[k] = None /\ c.members[k] # None
      <3> DEFINE v == [c.members EXCEPT ![k] = Applied(@, f.ops)]
                 e == [c EXCEPT !.members = v]
      <3>1. v \in [Members -> Value] /\ \A m \in Members : v[m] = IF m = k THEN Applied(c.members[m], f.ops) ELSE c.members[m]
        BY <1>1, <1>2
      <3>2. d = e
        BY <2>2 DEF StateOps, Consumer, Values
      <3> HIDE DEF v, d
      <3>3. /\ e \in Consumer /\ e.wish = c.wish /\ e.hold = c.hold /\ e.shape = c.shape
            /\ e.status = c.status /\ e.hydrated = c.hydrated /\ e.members = v
            /\ e.failed = c.failed /\ e.left = c.left /\ e.overlap = c.overlap
            /\ e.pending = p
        BY <3>1 DEF Consumer, Values
      <3> HIDE DEF e
      <3> QED BY <2>2, <3>1, <3>2, <3>3
    <2>3. CASE p.values[k] = None /\ c.members[k] = None
      <3>1. d = c
        BY <2>3 DEF StateOps
      <3> QED BY <2>3, <3>1
    <2> QED BY <2>1, <2>2, <2>3
  <1> HIDE DEF d
  <1>4. ConsOK(d)
    <2>1. ~d.pending.on => d.pending = NoPending
      <3>1. ASSUME ~d.pending.on PROVE p = NoPending
        BY <1>3, <3>1 DEF ConsOK
      <3> QED BY <1>1, <1>3, <3>1, NoPendingIs
    <2>2. ASSUME NEW m \in Members
          PROVE  (d.members[m] # None => m \in d.shape) /\ d.members[m] # Failed /\ d.pending.values[m] # Failed
      <3>1. /\ p.values[m] \in Value /\ c.members[m] \in Value
            /\ p.values[m] # Failed /\ c.members[m] # Failed /\ (c.members[m] # None => m \in c.shape)
        BY ConsumerIs DEF ConsOK
      <3> HIDE DEF p, k
      <3> QED BY <1>2, <1>3, <3>1
    <2>3. d.pending.missing \subseteq d.pending.members
      BY <1>3 DEF ConsOK
    <2> QED BY <2>1, <2>2, <2>3 DEF ConsOK
  <1>5. ShapeOf(d) = LastOf(c, f)
    BY <1>3 DEF ShapeOf, LastOf
  <1>6. ASSUME NEW m \in Members PROVE Leq(Heard(Start(c, m), m, f), Start(d, m))
    <2> DEFINE x == Start(c, m)
               y == Start(d, m)
    <2>1. x = IF p.on
              THEN IF m \notin p.members THEN Unknown
                   ELSE IF m \in p.missing \/ p.values[m] # None
                   THEN IF m \in p.failed THEN Failed ELSE IF m \in p.missing THEN None ELSE p.values[m]
                   ELSE IF c.members[m] = None THEN Unknown ELSE IF m \in c.failed THEN Failed ELSE c.members[m]
              ELSE IF m \notin c.shape \/ c.members[m] = None THEN Unknown
                   ELSE IF m \in c.failed THEN Failed ELSE c.members[m]
      BY DEF Start, Ready, Here
    <2>2. y = IF p.on
              THEN IF m \notin p.members THEN Unknown
                   ELSE IF m \in p.missing \/ d.pending.values[m] # None
                   THEN IF m \in p.failed THEN Failed ELSE IF m \in p.missing THEN None ELSE d.pending.values[m]
                   ELSE IF d.members[m] = None THEN Unknown ELSE IF m \in c.failed THEN Failed ELSE d.members[m]
              ELSE IF m \notin c.shape \/ d.members[m] = None THEN Unknown
                   ELSE IF m \in c.failed THEN Failed ELSE d.members[m]
      BY <1>3 DEF Start, Ready, Here
    <2>3. Heard(x, m, f) = IF m # k \/ ~Known(x) THEN x ELSE IF x \in {None, Failed} THEN x ELSE Applied(x, f.ops)
      BY DEF Heard
    <2>4. /\ p.values[m] \in Value /\ c.members[m] \in Value
          /\ p.values[m] # Failed /\ c.members[m] # Failed
      BY ConsumerIs DEF ConsOK
    <2>5. ~p.on => p.values[m] = None
      BY NoPendingIs DEF ConsOK
    <2>6. /\ d.pending.values[m] = IF m = k /\ p.values[m] # None THEN Applied(p.values[m], f.ops)
                                   ELSE p.values[m]
          /\ d.members[m] = IF m = k /\ p.values[m] = None /\ c.members[m] # None
                            THEN Applied(c.members[m], f.ops) ELSE c.members[m]
      BY <1>3
    <2>7. None # Failed /\ ~Known(Unknown) /\ \A z \in Value : Known(z)
      BY LevelIs
    <2>8. Heard(x, m, f) = y \/ ~Known(Heard(x, m, f))
      <3> HIDE DEF x, y, p, k
      <3>1. CASE m # k
        BY <2>1, <2>2, <2>3, <2>6, <3>1
      <3>2. CASE m = k /\ p.on
        BY <1>2, <2>1, <2>2, <2>3, <2>4, <2>6, <2>7, <3>2
      <3>3. CASE m = k /\ ~p.on
        BY <1>2, <2>1, <2>2, <2>3, <2>4, <2>5, <2>6, <2>7, <3>3
      <3> QED BY <3>1, <3>2, <3>3
    <2> HIDE DEF x, y
    <2>9. Leq(Heard(x, m, f), y)
      BY <2>8 DEF Leq
    <2> QED BY <2>9 DEF x, y
  <1>7. Follows(c, f, d)
    BY <1>3, <1>4, <1>5, <1>6 DEF Follows
  <1> QED BY <1>7 DEF d

LEMMA ValueFollows ==
  ASSUME NEW c \in Consumer, ConsOK(c), NEW f \in Frame, f.t = "state", f.as \notin {"ops", "error"}
  PROVE  Follows(c, f, StateValue(c, f))
  <1> DEFINE p == c.pending
             k == f.m
             v == [p.values EXCEPT ![k] = f.at]
             missing == p.missing \ {k}
             failed == p.failed \ {k}
             d == [c EXCEPT !.pending.values = v, !.pending.missing = missing, !.pending.failed = failed]
             e == Apply(d)
             takes == p.on /\ (k \in p.missing \/ p.values[k] # None)
             g == StateValue(c, f)
  <1>1. /\ k \in Members /\ f.at \in Value /\ f.at \notin {None, Failed} /\ Known(f.at)
        /\ p.values \in [Members -> Value] /\ c.members \in [Members -> Value]
    BY FrameIs, ConsumerIs, LevelIs
  <1>2. v \in [Members -> Value] /\ \A m \in Members : v[m] = IF m = k THEN f.at ELSE p.values[m]
    BY <1>1
  <1>3. missing \in SUBSET Members /\ \A m : m \in missing <=> m \in p.missing /\ m # k
    BY ConsumerIs
  <1>3a. failed \in SUBSET Members /\ \A m : m \in failed <=> m \in p.failed /\ m # k
    BY ConsumerIs
  <1>4. /\ takes /\ missing = {} => g = e
        /\ takes /\ missing # {} => g = d
    <2>1. [c EXCEPT !.pending.values[k] = f.at, !.pending.missing = @ \ {k}, !.pending.failed = @ \ {k}] = d
      BY <1>1 DEF Consumer, Values
    <2>2. d.pending.missing = missing
      BY DEF Consumer
    <2> HIDE DEF d, missing
    <2> QED BY <2>1, <2>2 DEF StateValue, Awaits
  <1>5. /\ ~takes /\ k \in c.shape => g = [c EXCEPT !.members[k] = f.at, !.failed = @ \ {k}, !.left = @ \ {k}]
        /\ ~takes /\ k \notin c.shape => g = c
    BY DEF StateValue, Awaits
  <1> HIDE DEF e, g, v, missing, failed
  <1> SUFFICES Follows(c, f, g)
    BY DEF g
  <1>6. /\ d \in Consumer /\ d.wish = c.wish /\ d.hold = c.hold /\ d.shape = c.shape
        /\ d.members = c.members /\ d.pending.on = p.on /\ d.pending.members = p.members
        /\ d.pending.missing = missing /\ d.pending.values = v /\ d.pending.failed = failed
        /\ d.failed = c.failed
    BY <1>2, <1>3, <1>3a DEF Consumer, Values
  <1> HIDE DEF d
  <1>7. ASSUME NEW m \in Members
        PROVE  /\ Start(c, m) = IF p.on
                  THEN IF m \notin p.members THEN Unknown
                       ELSE IF m \in p.missing \/ p.values[m] # None
                       THEN IF m \in p.failed THEN Failed ELSE IF m \in p.missing THEN None ELSE p.values[m]
                       ELSE Here(c, m)
                  ELSE IF m \in c.shape THEN Here(c, m) ELSE Unknown
               /\ Here(c, m) = IF c.members[m] = None THEN Unknown ELSE IF m \in c.failed THEN Failed ELSE c.members[m]
               /\ Heard(Start(c, m), m, f) = IF m # k \/ ~Known(Start(c, m)) THEN Start(c, m) ELSE f.at
    BY DEF Start, Heard, Ready, Here
  <1>8. ~Known(Unknown) /\ p.missing \subseteq p.members /\ (~p.on => p = NoPending)
        /\ \A m \in Members : /\ c.members[m] # None => m \in c.shape
                              /\ c.members[m] # Failed /\ p.values[m] # Failed
    BY LevelIs DEF ConsOK
  <1>9. ASSUME NEW m \in Members, NEW y, Heard(Start(c, m), m, f) = y \/ ~Known(Heard(Start(c, m), m, f))
        PROVE  Leq(Heard(Start(c, m), m, f), y)
    BY <1>9 DEF Leq
  <1>10. CASE takes /\ missing # {}
    <2>1. g = d
      BY <1>4, <1>10
    <2>2. ConsOK(d)
      BY <1>1, <1>2, <1>3, <1>6, <1>8, <1>10 DEF ConsOK
    <2>3. ShapeOf(d) = LastOf(c, f)
      BY <1>3, <1>6, <1>10 DEF ShapeOf, LastOf
    <2>4. ASSUME NEW m \in Members PROVE Leq(Heard(Start(c, m), m, f), Start(d, m))
      <3>1. Start(d, m) = IF m \notin p.members THEN Unknown
                          ELSE IF m \in missing \/ v[m] # None
                          THEN IF m \in failed THEN Failed ELSE IF m \in missing THEN None ELSE v[m]
                          ELSE Here(c, m)
        BY <1>6, <1>10 DEF Start, Ready, Here
      <3>2. Heard(Start(c, m), m, f) = Start(d, m) \/ ~Known(Heard(Start(c, m), m, f))
        <4>1. v[m] = IF m = k THEN f.at ELSE p.values[m]
          BY <1>2
        <4>2. p.on
          BY <1>10
        <4>3. (m \in missing <=> m \in p.missing /\ m # k) /\ (m \in failed <=> m \in p.failed /\ m # k)
          BY <1>3, <1>3a
        <4> HIDE DEF p, k
        <4> QED BY <1>1, <1>7, <1>8, <3>1, <4>1, <4>2, <4>3
      <3> QED BY <1>9, <3>2
    <2> QED BY <1>6, <2>1, <2>2, <2>3, <2>4 DEF Follows
  <1>11. CASE takes /\ missing = {}
    <2>1. /\ e \in Consumer /\ e.wish = c.wish /\ e.hold = c.hold /\ e.pending = NoPending
          /\ e.shape = p.members /\ e.status = "live"
          /\ \A m \in Members : e.members[m] = IF m \notin p.members THEN None
                                               ELSE IF v[m] # None THEN v[m] ELSE c.members[m]
          /\ \A m \in Members : m \in e.failed <=> /\ m \in p.members
                                                   /\ IF v[m] # None THEN m \in failed ELSE m \in c.failed
          /\ e.wish /\ (\A m \in p.members : e.members[m] # None) => e.hydrated
      <3>1. /\ e \in Consumer /\ e.wish = d.wish /\ e.hold = d.hold /\ e.pending = NoPending
            /\ e.shape = d.pending.members /\ e.status = "live"
            /\ \A m \in Members : e.members[m] = IF m \notin d.pending.members THEN None
                   ELSE IF d.pending.values[m] # None THEN d.pending.values[m] ELSE d.members[m]
            /\ \A m \in Members : m \in e.failed <=> /\ m \in d.pending.members
                   /\ IF d.pending.values[m] # None THEN m \in d.pending.failed ELSE m \in d.failed
            /\ e.wish /\ (\A m \in d.pending.members : e.members[m] # None) => e.hydrated
        BY <1>6, ApplyIs DEF e
      <3> HIDE DEF p
      <3> QED BY <1>6, <3>1
    <2>2. g = e
      BY <1>4, <1>11
    <2>3. ConsOK(e)
      <3>1. \A m \in Members : NoPending.values[m] # Failed /\ None # Failed
        BY NoPendingIs, LevelIs
      <3> HIDE DEF p, k
      <3> QED BY <1>1, <1>2, <1>8, <2>1, <3>1, NoPendingIs DEF ConsOK
    <2>3a. ASSUME NEW m \in Members
           PROVE  /\ m \in p.members => (m \in e.failed <=> IF v[m] # None THEN m \in failed ELSE m \in c.failed)
                  /\ m \in failed <=> m \in p.failed /\ m # k
      BY <1>3a, <2>1
    <2>4. ASSUME NEW m \in Members
          PROVE  /\ Start(e, m) = IF m \in p.members /\ e.members[m] # None
                                  THEN IF m \in e.failed THEN Failed ELSE e.members[m] ELSE Unknown
                 /\ e.members[m] = IF m \notin p.members THEN None
                                   ELSE IF v[m] # None THEN v[m] ELSE c.members[m]
                 /\ v[m] = IF m = k THEN f.at ELSE p.values[m]
                 /\ m \in p.missing => m = k
      BY <1>2, <1>3, <1>11, <2>1, NoPendingIs DEF Start, Here
    <2>5. ASSUME NEW m \in Members
          PROVE  /\ Leq(Heard(Start(c, m), m, f), Start(e, m))
                 /\ m \in p.members /\ e.members[m] = None => ~Known(Heard(Start(c, m), m, f))
      <3>1. p.on
        BY <1>11
      <3> HIDE DEF p, k
      <3>2. Heard(Start(c, m), m, f) = Start(e, m) \/ ~Known(Heard(Start(c, m), m, f))
        BY <1>1, <1>7, <1>8, <2>3a, <2>4, <3>1
      <3>3. m \in p.members /\ e.members[m] = None => ~Known(Heard(Start(c, m), m, f))
        BY <1>1, <1>7, <1>8, <2>4, <3>1
      <3> QED BY <1>9, <3>2, <3>3
    <2>6. ASSUME c.wish
          PROVE  \/ ShapeOf(e) = LastOf(c, f) \/ LastOf(c, f) = NoShape
                 \/ \E m \in Members : m \in LastOf(c, f) /\ ~Known(Heard(Start(c, m), m, f))
      <3>1. LastOf(c, f) = IF p.missing = {} THEN NoShape ELSE p.members
        BY <1>11 DEF LastOf, ShapeOf
      <3>2. CASE \A m \in p.members : e.members[m] # None
        BY <2>1, <2>6, <3>1, <3>2, NoPendingIs DEF ShapeOf
      <3>3. CASE ~\A m \in p.members : e.members[m] # None
        <4>1. PICK m \in p.members : e.members[m] = None
          BY <3>3
        <4>2. m \in Members
          BY <4>1, ConsumerIs
        <4> QED BY <2>5, <3>1, <4>1, <4>2
      <3> QED BY <3>2, <3>3
    <2> QED BY <2>1, <2>2, <2>3, <2>5, <2>6 DEF Follows
  <1>12. CASE ~takes /\ k \in c.shape
    <2> DEFINE w == [c.members EXCEPT ![k] = f.at]
               u == c.failed \ {k}
               left == c.left \ {k}
               h == [c EXCEPT !.members = w, !.failed = u, !.left = left]
    <2>1. w \in [Members -> Value] /\ \A m \in Members : w[m] = IF m = k THEN f.at ELSE c.members[m]
      BY <1>1
    <2>2. g = h
      BY <1>5, <1>12 DEF Consumer
    <2>2a. u \in SUBSET Members /\ left \in SUBSET Members
      BY ConsumerIs
    <2>2b. \A m : m \in u <=> m \in c.failed /\ m # k
      OBVIOUS
    <2> HIDE DEF w, u, left
    <2>3. /\ h \in Consumer /\ h.wish = c.wish /\ h.hold = c.hold /\ h.shape = c.shape
          /\ h.status = c.status /\ h.hydrated = c.hydrated /\ h.members = w /\ h.pending = p /\ h.failed = u
      BY <2>1, <2>2a DEF Consumer, Values
    <2> HIDE DEF h
    <2>4. ConsOK(h)
      BY <1>1, <1>8, <1>12, <2>1, <2>3 DEF ConsOK
    <2>5. ShapeOf(h) = LastOf(c, f)
      BY <2>3 DEF ShapeOf, LastOf
    <2>6. ASSUME NEW m \in Members PROVE Leq(Heard(Start(c, m), m, f), Start(h, m))
      <3>1. Start(h, m) = IF p.on
                  THEN IF m \notin p.members THEN Unknown
                       ELSE IF m \in p.missing \/ p.values[m] # None
                       THEN IF m \in p.failed THEN Failed ELSE IF m \in p.missing THEN None ELSE p.values[m]
                       ELSE IF w[m] = None THEN Unknown ELSE IF m \in u THEN Failed ELSE w[m]
                  ELSE IF m \notin c.shape \/ w[m] = None THEN Unknown ELSE IF m \in u THEN Failed ELSE w[m]
        BY <2>3 DEF Start, Ready, Here
      <3>2. w[m] = IF m = k THEN f.at ELSE c.members[m]
        BY <2>1
      <3>3. ~(p.on /\ (k \in p.missing \/ p.values[k] # None))
        BY <1>12
      <3> HIDE DEF p, k
      <3>4. Heard(Start(c, m), m, f) = Start(h, m) \/ ~Known(Heard(Start(c, m), m, f))
        BY <1>1, <1>7, <1>8, <2>2b, <3>1, <3>2, <3>3
      <3> QED BY <1>9, <3>4
    <2> QED BY <2>2, <2>3, <2>4, <2>5, <2>6 DEF Follows
  <1>13. CASE ~takes /\ k \notin c.shape
    <2>1. g = c
      BY <1>5, <1>13
    <2>2. ASSUME NEW m \in Members PROVE Leq(Heard(Start(c, m), m, f), Start(c, m))
      <3>1. ~(p.on /\ (k \in p.missing \/ p.values[k] # None)) /\ k \notin c.shape
        BY <1>13
      <3> HIDE DEF p, k
      <3>2. Heard(Start(c, m), m, f) = Start(c, m) \/ ~Known(Heard(Start(c, m), m, f))
        BY <1>1, <1>7, <1>8, <3>1
      <3> QED BY <1>9, <3>2
    <2>3. ShapeOf(c) = LastOf(c, f)
      BY DEF LastOf
    <2> QED BY <2>1, <2>2, <2>3 DEF Follows
  <1> HIDE DEF takes
  <1> QED BY <1>10, <1>11, <1>12, <1>13

\* An error instead of a value, or a value that fails to unpack.
LEMMA ErrorFollows ==
  ASSUME NEW c \in Consumer, ConsOK(c), NEW f \in Frame, f.t = "state", f.as # "ops"
  PROVE  Follows(c, f, StateError(c, f.m))
  <1> DEFINE p == c.pending
             k == f.m
             ready == IF Awaits(c, k) THEN p.failed \cup {k} ELSE p.failed
             failed == IF p.values[k] = None THEN c.failed \cup {k} ELSE c.failed
             d == [c EXCEPT !.pending.failed = ready, !.failed = failed]
             g == StateError(c, k)
  <1>1. k \in Members /\ f.at \in Value /\ f.at # None /\ Known(f.at)
    BY FrameIs, LevelIs
  <1>2. ready \in SUBSET Members /\ failed \in SUBSET Members
    BY <1>1, ConsumerIs
  <1>3. \A m : /\ m \in ready <=> m \in p.failed \/ (m = k /\ Awaits(c, k))
               /\ m \in failed <=> m \in c.failed \/ (m = k /\ p.values[k] = None)
    OBVIOUS
  <1>4. g = IF ~c.hydrated /\ c.wish THEN [c EXCEPT !.status = "ended", !.pending = NoPending] ELSE d
    BY DEF StateError
  <1> HIDE DEF ready, failed, g
  <1> SUFFICES Follows(c, f, g)
    BY DEF g
  <1>5. CASE ~c.hydrated /\ c.wish
    <2> DEFINE e == [c EXCEPT !.status = "ended", !.pending = NoPending]
    <2>1. g = e
      BY <1>4, <1>5
    <2>2. /\ e \in Consumer /\ e.wish = c.wish /\ e.hold = c.hold /\ e.status = "ended"
          /\ e.pending = NoPending /\ e.members = c.members /\ e.shape = c.shape
      BY NoPendingIs DEF Consumer, Pendings
    <2> HIDE DEF e
    <2>3. ConsOK(e)
      <3>1. \A m \in Members : NoPending.values[m] # Failed
        BY NoPendingIs, LevelIs
      <3> QED BY <2>2, <3>1, NoPendingIs DEF ConsOK
    <2> QED BY <2>1, <2>2, <2>3 DEF Follows
  <1>6. CASE ~(~c.hydrated /\ c.wish)
    <2>1. g = d
      BY <1>4, <1>6
    <2>2. /\ d \in Consumer /\ d.wish = c.wish /\ d.hold = c.hold /\ d.shape = c.shape
          /\ d.members = c.members /\ d.status = c.status /\ d.hydrated = c.hydrated
          /\ d.failed = failed /\ d.pending.failed = ready /\ d.pending.on = p.on
          /\ d.pending.members = p.members /\ d.pending.missing = p.missing
          /\ d.pending.values = p.values
      BY <1>2 DEF Consumer
    <2> HIDE DEF d
    <2>3. ConsOK(d)
      <3>1. ASSUME ~d.pending.on PROVE d.pending = NoPending
        <4>1. ~p.on /\ p = NoPending
          BY <2>2, <3>1 DEF ConsOK
        <4>2. ~Awaits(c, k)
          BY <4>1 DEF Awaits
        <4>3. d.pending \in Pendings /\ p \in Pendings
          BY <2>2 DEF Consumer, Pendings
        <4>4. d.pending.failed = p.failed
          BY <2>2, <4>2 DEF ready
        <4> HIDE DEF p
        <4>5. d.pending = p
          BY <2>2, <4>3, <4>4 DEF Pendings
        <4> QED BY <4>1, <4>5
      <3>2. ASSUME NEW m \in Members
            PROVE  /\ d.members[m] # None => m \in d.shape
                   /\ d.members[m] # Failed /\ d.pending.values[m] # Failed
        BY <2>2 DEF ConsOK
      <3>3. d.pending.missing \subseteq d.pending.members
        BY <2>2 DEF ConsOK
      <3> QED BY <3>1, <3>2, <3>3 DEF ConsOK
    <2>4. ShapeOf(d) = LastOf(c, f)
      BY <2>2 DEF ShapeOf, LastOf
    <2>5. ASSUME NEW m \in Members PROVE Leq(Heard(Start(c, m), m, f), Start(d, m))
      <3> DEFINE x == Start(c, m)
                 y == Start(d, m)
      <3>1. x = IF p.on
                THEN IF m \notin p.members THEN Unknown
                     ELSE IF m \in p.missing \/ p.values[m] # None
                     THEN IF m \in p.failed THEN Failed ELSE IF m \in p.missing THEN None ELSE p.values[m]
                     ELSE IF c.members[m] = None THEN Unknown ELSE IF m \in c.failed THEN Failed ELSE c.members[m]
                ELSE IF m \notin c.shape \/ c.members[m] = None THEN Unknown
                     ELSE IF m \in c.failed THEN Failed ELSE c.members[m]
        BY DEF Start, Ready, Here
      <3>2. y = IF p.on
                THEN IF m \notin p.members THEN Unknown
                     ELSE IF m \in p.missing \/ p.values[m] # None
                     THEN IF m \in ready THEN Failed ELSE IF m \in p.missing THEN None ELSE p.values[m]
                     ELSE IF c.members[m] = None THEN Unknown ELSE IF m \in failed THEN Failed ELSE c.members[m]
                ELSE IF m \notin c.shape \/ c.members[m] = None THEN Unknown
                     ELSE IF m \in failed THEN Failed ELSE c.members[m]
        BY <2>2 DEF Start, Ready, Here
      <3>3. Heard(x, m, f) = IF m # k \/ ~Known(x) THEN x ELSE f.at
        BY DEF Heard
      <3>4. Awaits(c, k) <=> p.on /\ (k \in p.missing \/ p.values[k] # None)
        BY DEF Awaits
      <3>5. ~p.on => p.values[m] = None
        BY NoPendingIs DEF ConsOK
      <3>6. ~Known(Unknown)
        BY LevelIs
      <3>7. /\ m \in ready <=> m \in p.failed \/ (m = k /\ Awaits(c, k))
            /\ m \in failed <=> m \in c.failed \/ (m = k /\ p.values[k] = None)
        BY <1>3
      <3>8. Heard(x, m, f) = y \/ ~Known(Heard(x, m, f)) \/ y = Failed
        <4> HIDE DEF x, y, p, k
        <4>1. CASE m # k
          BY <3>1, <3>2, <3>3, <3>7, <4>1
        <4>2. CASE m = k
          BY <3>1, <3>2, <3>3, <3>4, <3>5, <3>6, <3>7, <4>2
        <4> QED BY <4>1, <4>2
      <3> HIDE DEF x, y
      <3>9. Leq(Heard(x, m, f), y)
        BY <3>8 DEF Leq
      <3> QED BY <3>9 DEF x, y
    <2> QED BY <2>1, <2>2, <2>3, <2>4, <2>5 DEF Follows
  <1> QED BY <1>5, <1>6

\* The frame that comes.
Hears(c, frame, unpacks) ==
  IF c.status = "ended" THEN c
  ELSE IF frame.t = "shape" THEN Shaped(c, frame)
  ELSE IF frame.as = "ops" THEN StateOps(c, frame)
  ELSE IF frame.as # "error" /\ unpacks THEN StateValue(c, frame)
  ELSE StateError(c, frame.m)

LEMMA HearsFollows ==
  ASSUME NEW c \in Consumer, ConsOK(c), NEW f \in Frame, NEW unpacks \in BOOLEAN
  PROVE  Follows(c, f, Hears(c, f, unpacks))
  <1>1. CASE c.status = "ended"
    BY <1>1 DEF Hears, Follows
  <1>2. CASE c.status # "ended" /\ f.t = "shape"
    <2>1. Hears(c, f, unpacks) = Shaped(c, f)
      BY <1>2 DEF Hears
    <2> QED BY <1>2, <2>1, ShapedFollows
  <1>3. CASE c.status # "ended" /\ f.t = "state" /\ f.as = "ops"
    <2>1. Hears(c, f, unpacks) = StateOps(c, f)
      BY <1>3 DEF Hears
    <2> QED BY <1>3, <2>1, OpsFollows
  <1>4. CASE c.status # "ended" /\ f.t = "state" /\ f.as # "ops" /\ f.as # "error" /\ unpacks
    <2>1. Hears(c, f, unpacks) = StateValue(c, f)
      BY <1>4 DEF Hears
    <2> QED BY <1>4, <2>1, ValueFollows
  <1>5. CASE c.status # "ended" /\ f.t = "state" /\ f.as # "ops" /\ ~(f.as # "error" /\ unpacks)
    <2>1. Hears(c, f, unpacks) = StateError(c, f.m)
      BY <1>5 DEF Hears
    <2> QED BY <1>5, <2>1, ErrorFollows
  <1> QED BY <1>1, <1>2, <1>3, <1>4, <1>5, FrameIs

-----------------------------------------------------------------------------
(* The relay.                                                                 *)

LEMMA RelayIs ==
  ASSUME NEW r \in Relay
  PROVE  /\ r \in Sender /\ r.out \in Seq(Frame) /\ Len(r.out) \in Nat /\ r.processed \in Nat
         /\ r.hold \in Nat /\ ~r.provides /\ r.again \in BOOLEAN /\ r.shaped \in BOOLEAN
         /\ r.urgent \in SUBSET Members /\ r.awaiting \in SUBSET Members
         /\ r.dropped \in SUBSET Members /\ r.order \in Seq(Members)
         /\ \A m \in Members : r.slots[m] \in Slot /\ m \in Keys
  BY SenderIs DEF Relay, Sender, Keys

LEMMA PassingIs ==
  ASSUME NEW c \in Consumer, NEW r \in Relay, SlotsOK(r)
  PROVE  /\ Inbound(c, r) \in [Members -> Level]
         /\ \A m \in Members : Passing(c, r, m) \in Level /\ Inbound(c, r)[m] = Passing(c, r, m)
  <1>1. ASSUME NEW m \in Members PROVE Passing(c, r, m) \in Level
    <2>1. Reach(r, m, Nat, Start(c, m)) \in Level
      BY RelayIs, StartIs, ReachIs
    <2> QED BY <2>1, LevelIs DEF Passing
  <1> QED BY <1>1 DEF Inbound

\* A relay that hears a state frame: q is the relay when it no longer waits for it.
Freed(r, m) == [r EXCEPT !.awaiting = @ \ {m}, !.urgent = @ \ {m}]

LEMMA FreedIs ==
  ASSUME NEW r \in Relay, NEW k \in Members
  PROVE  LET q == Freed(r, k) IN
         /\ q \in Relay /\ q.out = r.out /\ q.slots = r.slots /\ q.order = r.order
         /\ q.processed = r.processed /\ q.hold = r.hold /\ q.again = r.again /\ q.shaped = r.shaped
         /\ q.dropped = r.dropped /\ q.awaiting = r.awaiting \ {k} /\ q.urgent = r.urgent \ {k}
         /\ (RelayOK(r) => RelayOK(q))
         /\ \A m : \A hs : \A v : Reach(q, m, hs, v) = Reach(r, m, hs, v)
  <1> DEFINE q == Freed(r, k)
  <1>1. /\ q \in Relay /\ q.out = r.out /\ q.slots = r.slots /\ q.order = r.order
        /\ q.processed = r.processed /\ q.hold = r.hold /\ q.again = r.again /\ q.shaped = r.shaped
        /\ q.dropped = r.dropped /\ q.awaiting = r.awaiting \ {k} /\ q.urgent = r.urgent \ {k}
    BY DEF Freed, Relay
  <1> HIDE DEF q
  <1>2. RelayOK(r) => RelayOK(q)
    <2>1. \A k2 : Waits(q, k2) <=> Waits(r, k2)
      BY <1>1 DEF Waits
    <2>2. SlotsOK(r) => SlotsOK(q)
      BY <1>1, <2>1 DEF SlotsOK
    <2>3. WindowOK(r) => WindowOK(q)
      BY <1>1 DEF WindowOK, Full
    <2> QED BY <1>1, <2>2, <2>3 DEF RelayOK
  <1>3. \A m : \A hs : \A v : Reach(q, m, hs, v) = Reach(r, m, hs, v)
    BY <1>1 DEF Reach
  <1> QED BY <1>1, <1>2, <1>3 DEF q

\* d is the relay r after the frame f, with the members K asked for again: of the other
\* members no less is known than with f, and of those K a value comes.
Passes(r, f, d, K) ==
  /\ d \in Relay /\ d.dropped = {} /\ d.hold = r.hold /\ RelayOK(d)
  /\ f.t = "state" => d.shaped = r.shaped
  /\ \A S \in SUBSET Keys :
       Fold(Shaping(Nat), d.out, S) = Shaping(Nat)[<<Fold(Shaping(Nat), r.out, S), f>>]
  /\ \A c \in Consumer : \A m \in Members :
       /\ m \notin K => Leq(Heard(Passing(c, r, m), m, f), Passing(c, d, m))
       /\ Known(Heard(Passing(c, r, m), m, f)) => Known(Passing(c, d, m))

LEMMA ShapeSent ==
  ASSUME NEW q \in Seq(Frame), NEW f \in Frame, NEW S \in SUBSET Keys
  PROVE  /\ Fold(Shaping(Nat), Append(q, f), S) = Shaping(Nat)[<<Fold(Shaping(Nat), q, S), f>>]
         /\ f.t = "state" => Fold(Shaping(Nat), q, S) = Shaping(Nat)[<<Fold(Shaping(Nat), q, S), f>>]
  <1>1. Fold(Shaping(Nat), Append(q, f), S) = Shaping(Nat)[<<Fold(Shaping(Nat), q, S), f>>]
    <2> DEFINE g == Shaping(Nat)
    <2> HIDE DEF g
    <2>1. Fold(g, Append(q, f), S) = g[<<Fold(g, q, S), f>>]
      BY FoldAppend, SMTT(30)
    <2> QED BY <2>1 DEF g
  <1>2. Fold(Shaping(Nat), q, S) \in SUBSET Keys
    BY FoldTypes
  <1>3. f.t = "state" => Fold(Shaping(Nat), q, S) = Shaping(Nat)[<<Fold(Shaping(Nat), q, S), f>>]
    BY <1>2, ShapingAt, ZenonT(60)
  <1> QED BY <1>1, <1>3

\* The relay with what it dropped asked for.
Again(r) == [r EXCEPT !.dropped = {}, !.awaiting = @ \cup r.dropped]

LEMMA AgainIs ==
  ASSUME NEW r \in Relay
  PROVE  LET d == Again(r) IN
         /\ d \in Relay /\ d.dropped = {} /\ d.awaiting = r.awaiting \cup r.dropped
         /\ d.out = r.out /\ d.slots = r.slots /\ d.order = r.order
         /\ d.processed = r.processed /\ d.hold = r.hold /\ d.again = r.again /\ d.shaped = r.shaped
         /\ d.urgent = r.urgent
         /\ (RelayOK(r) => RelayOK(d))
         /\ \A m : \A hs : \A v : Reach(d, m, hs, v) = Reach(r, m, hs, v)
  <1> DEFINE d == Again(r)
  <1>1. /\ d \in Relay /\ d.dropped = {} /\ d.awaiting = r.awaiting \cup r.dropped
        /\ d.out = r.out /\ d.slots = r.slots /\ d.order = r.order
        /\ d.processed = r.processed /\ d.hold = r.hold /\ d.again = r.again /\ d.shaped = r.shaped
        /\ d.urgent = r.urgent
    BY DEF Again, Relay
  <1> HIDE DEF d
  <1>2. RelayOK(r) => RelayOK(d)
    <2>1. \A k : Waits(d, k) <=> Waits(r, k)
      BY <1>1 DEF Waits
    <2>2. SlotsOK(r) => SlotsOK(d)
      BY <1>1, <2>1 DEF SlotsOK
    <2>3. WindowOK(r) => WindowOK(d)
      BY <1>1 DEF WindowOK, Full
    <2> QED BY <1>1, <2>2, <2>3 DEF RelayOK
  <1>3. \A m : \A hs : \A v : Reach(d, m, hs, v) = Reach(r, m, hs, v)
    BY <1>1 DEF Reach
  <1> QED BY <1>1, <1>2, <1>3 DEF d

\* The window stays full while a frame is sent or waits.
LEMMA FullStays ==
  ASSUME NEW c \in Sender, NEW d \in Sender, NEW f \in Frame, d.processed = c.processed,
         d.out = c.out \/ d.out = Append(c.out, f), Full(c)
  PROVE  Full(d)
  <1>1. c.out \in Seq(Frame) /\ Len(c.out) \in Nat
    BY SenderIs
  <1>2. Len(d.out) >= Len(c.out)
    BY <1>1
  <1> QED BY <1>2, FullMore

LEMMA HeardAlone ==
  ASSUME NEW f \in Frame, NEW m, NEW v
  PROVE  /\ f.t = "shape" => Heard(v, m, f) = IF m \notin f.members THEN Unknown
                                              ELSE IF m \in f.listed THEN None ELSE v
         /\ f.t = "state" /\ f.m # m => Heard(v, m, f) = v
         /\ f.t = "state" /\ f.as = "ops" => Heard(None, m, f) = None
         /\ f.t = "state" /\ f.as # "ops" /\ f.m = m => Heard(v, m, f) = IF Known(v) THEN f.at ELSE v
  BY FrameIs, LevelIs DEF Heard

LEMMA RelayShapePasses ==
  ASSUME NEW r \in Relay, RelayOK(r), r.dropped = {}, NEW f \in Frame, f.t = "shape"
  PROVE  LET d == RelayShape(r, f) IN
         d.dropped = {} /\ d.shaped /\ Again(d) = d /\ Passes(r, f, d, {})
  <1> DEFINE u == IF ~r.shaped /\ ~r.again THEN f.listed ELSE r.urgent
             q == [r EXCEPT !.shaped = TRUE, !.urgent = u]
             d == Send(q, f)
  <1>1. RelayShape(r, f) = d
    BY DEF RelayShape
  <1>2. u \in SUBSET Members
    BY FrameIs, RelayIs
  <1> HIDE DEF u
  <1>3. /\ q \in Relay /\ q.out = r.out /\ q.slots = r.slots /\ q.order = r.order
        /\ q.processed = r.processed /\ q.hold = r.hold /\ q.awaiting = r.awaiting
        /\ q.dropped = {} /\ q.shaped /\ q.urgent = u
    BY <1>2 DEF Relay
  <1> HIDE DEF q
  <1>4. /\ Kept(q, d) /\ d.out = Append(q.out, f) /\ d.order = q.order /\ d.slots = q.slots
        /\ d.dropped = q.dropped
    BY <1>3, RelayIs, SendIs
  <1> HIDE DEF d
  <1>5. /\ d \in Relay /\ d.hold = r.hold /\ d.shaped /\ d.urgent = u /\ d.awaiting = r.awaiting
        /\ d.processed = r.processed /\ d.dropped = {} /\ d.out = Append(r.out, f)
        /\ d.order = r.order /\ d.slots = r.slots
    BY <1>3, <1>4 DEF Kept
  <1>6. Again(d) = d
    BY <1>5 DEF Again, Relay
  <1>7. RelayOK(d)
    <2>1. SlotsOK(d)
      BY <1>5 DEF RelayOK, SlotsOK, Waits
    <2>2. WindowOK(d)
      <3>1. r \in Sender /\ d \in Sender
        BY <1>5, RelayIs
      <3> QED BY <1>5, <3>1, FullStays DEF RelayOK, WindowOK
    <2>3. ASSUME NEW m \in Members, d.hold = NoHold \/ ~d.shaped \/ m \in d.urgent
          PROVE  d.slots[m] = Idle
      <3>1. r.hold = NoHold \/ m \in u
        BY <1>5, <2>3
      <3>2. ~r.shaped \/ u = r.urgent
        BY DEF u
      <3> QED BY <1>5, <3>1, <3>2 DEF RelayOK
    <2>4. \A m \in Members : ~d.slots[m].lazy
      BY <1>5 DEF RelayOK
    <2> QED BY <2>1, <2>2, <2>3, <2>4 DEF RelayOK
  <1>8. ASSUME NEW S \in SUBSET Keys
        PROVE  Fold(Shaping(Nat), d.out, S) = Shaping(Nat)[<<Fold(Shaping(Nat), r.out, S), f>>]
    BY <1>5, ShapeSent, RelayIs
  <1>9. ASSUME NEW c \in Consumer, NEW m \in Members
        PROVE  /\ Leq(Heard(Passing(c, r, m), m, f), Passing(c, d, m))
               /\ Known(Heard(Passing(c, r, m), m, f)) => Known(Passing(c, d, m))
    <2> DEFINE v == Start(c, m)
               x == Fold(Hearing(m, Nat), r.out, v)
               y == Fold(Hearing(m, Nat), d.out, v)
               X == Reach(r, m, Nat, v)
               Y == Reach(d, m, Nat, v)
    <2>1. /\ v \in Level /\ r \in Sender /\ d \in Sender /\ f.h \in Nat /\ f.listed \in SUBSET Members
          /\ r.slots[m] \in Slot /\ SlotFits(r.slots[m], m, r.hold)
      BY <1>5, StartIs, RelayIs, FrameIs DEF RelayOK, SlotsOK
    <2>2. y = Heard(x, m, f)
      BY <1>5, <2>1, FoldSent
    <2>3. X = After(x, m, r.slots[m]) /\ Y = After(y, m, r.slots[m])
      BY <1>5 DEF Reach
    <2>4. x \in Level /\ y \in Level
      BY <1>5, <2>1, HearingStays, RelayIs
    <2>5. /\ Passing(c, r, m) = IF m \in r.awaiting /\ Known(X) THEN None ELSE X
          /\ Passing(c, d, m) = IF m \in r.awaiting /\ Known(Y) THEN None ELSE Y
      BY <1>5 DEF Passing
    <2> HIDE DEF v, x, y, X, Y
    <2>6. (Known(X) <=> Known(x)) /\ (Known(Y) <=> Known(y))
      BY <2>1, <2>3, <2>4, AfterKnown
    <2>7. Known(None) /\ ~Known(Unknown)
      BY LevelIs
    <2>8. \A w : Heard(w, m, f) = IF m \notin f.members THEN Unknown
                                  ELSE IF m \in f.listed THEN None ELSE w
      BY HeardAlone
    <2>9. CASE m \notin f.members
      BY <2>7, <2>8, <2>9 DEF Leq
    <2>10. CASE m \in f.members /\ m \in f.listed
      <3>1. Heard(Passing(c, r, m), m, f) = None /\ Known(Passing(c, d, m))
        BY <2>2, <2>5, <2>6, <2>7, <2>8, <2>10
      <3> QED BY <3>1 DEF Leq
    <2>11. CASE m \in f.members /\ m \notin f.listed
      <3>1. Heard(Passing(c, r, m), m, f) = Passing(c, r, m) /\ y = x
        BY <2>2, <2>8, <2>11
      <3>2. Y = X
        BY <2>3, <3>1
      <3>3. Passing(c, d, m) = Passing(c, r, m)
        BY <2>5, <3>2
      <3> QED BY <3>1, <3>3 DEF Leq
    <2> QED BY <2>9, <2>10, <2>11
  <1>10. Passes(r, f, d, {})
    BY <1>5, <1>7, <1>8, <1>9 DEF Passes
  <1> QED BY <1>1, <1>5, <1>6, <1>10

LEMMA SendsPasses ==
  ASSUME NEW r \in Relay, RelayOK(r), r.dropped = {}, NEW f \in Frame, f.t = "state",
         f.h = r.hold, r.hold # NoHold, r.shaped, f.m \notin r.awaiting \/ f.as # "ops",
         NEW d, NEW K \in SUBSET Members, Sends(Freed(r, f.m), d, f, K)
  PROVE  d \in Relay /\ d.dropped = K /\ Passes(r, f, Again(d), K)
  <1> DEFINE q == Freed(r, f.m)
             e == Again(d)
  <1>1. f.m \in Members
    BY FrameIs
  <1>2. /\ q \in Relay /\ q.out = r.out /\ q.slots = r.slots /\ q.order = r.order
        /\ q.processed = r.processed /\ q.hold = r.hold /\ q.shaped = r.shaped
        /\ q.dropped = {} /\ q.awaiting = r.awaiting \ {f.m} /\ q.urgent = r.urgent \ {f.m}
        /\ RelayOK(q) /\ \A m : \A hs : \A v : Reach(q, m, hs, v) = Reach(r, m, hs, v)
    BY <1>1, FreedIs
  <1>3. Sends(q, d, f, K)
    OBVIOUS
  <1> HIDE DEF q
  <1>4. /\ d \in Relay /\ d.hold = r.hold /\ d.shaped = r.shaped /\ d.urgent = r.urgent \ {f.m}
        /\ d.awaiting = r.awaiting \ {f.m} /\ d.processed = r.processed /\ d.dropped = K
    <2>1. Kept(q, d)
      BY <1>3 DEF Sends
    <2>2. ~q.provides
      BY <1>2, RelayIs
    <2>3. d.dropped = q.dropped \cup K
      BY <1>3, <2>2 DEF Sends
    <2> QED BY <1>2, <2>1, <2>3 DEF Kept
  <1>5. RelayOK(d)
    <2>1. SlotsOK(d)
      BY <1>3 DEF Sends
    <2>2. WindowOK(d)
      <3>1. q \in Sender /\ d \in Sender /\ (q.order # <<>> => Full(q))
        BY <1>2, <1>4, RelayIs DEF RelayOK, WindowOK
      <3>2. (q.order = <<>> => d.order = <<>> \/ Full(q)) /\ (d.out = q.out \/ d.out = Append(q.out, f))
        BY <1>3 DEF Sends
      <3>3. d.order # <<>> => Full(q)
        BY <3>1, <3>2
      <3> QED BY <1>2, <1>4, <3>1, <3>2, <3>3, FullStays DEF WindowOK
    <2>3. ASSUME NEW m \in Members PROVE ~d.slots[m].lazy
      <3>1. CASE m \in K
        <4>1. ~q.provides
          BY <1>2, RelayIs
        <4>2. d.slots[m] = Idle
          BY <1>3, <3>1, <4>1 DEF Sends
        <4> QED BY <4>2, IdleIs
      <3>2. CASE m \notin K /\ m = f.m
        BY <1>3, <3>2 DEF Sends
      <3>3. CASE m \notin K /\ m # f.m
        <4>1. d.slots[m] = q.slots[m]
          BY <1>3, <3>3 DEF Sends
        <4> QED BY <1>2, <4>1 DEF RelayOK
      <3> QED BY <3>1, <3>2, <3>3
    <2>4. ASSUME NEW m \in Members, d.hold = NoHold \/ ~d.shaped \/ m \in d.urgent
          PROVE  d.slots[m] = Idle
      <3>1. m \in r.urgent /\ m # f.m
        BY <1>4, <2>4
      <3>2. q.slots[m] = Idle
        BY <1>2, <3>1 DEF RelayOK
      <3> QED BY <1>3, <3>1, <3>2 DEF Sends
    <2> QED BY <2>1, <2>2, <2>3, <2>4 DEF RelayOK
  <1>6. /\ e \in Relay /\ e.dropped = {} /\ e.awaiting = d.awaiting \cup K /\ e.hold = d.hold
        /\ e.out = d.out /\ e.shaped = d.shaped /\ RelayOK(e)
        /\ \A m : \A hs : \A v : Reach(e, m, hs, v) = Reach(d, m, hs, v)
    BY <1>4, <1>5, AgainIs
  <1> HIDE DEF e
  <1>7. ASSUME NEW S \in SUBSET Keys
        PROVE  Fold(Shaping(Nat), e.out, S) = Shaping(Nat)[<<Fold(Shaping(Nat), r.out, S), f>>]
    <2>1. e.out = r.out \/ e.out = Append(r.out, f)
      BY <1>2, <1>3, <1>6 DEF Sends
    <2>2. r.out \in Seq(Frame)
      BY RelayIs
    <2> DEFINE o == r.out
    <2>3. /\ Fold(Shaping(Nat), Append(o, f), S) = Shaping(Nat)[<<Fold(Shaping(Nat), o, S), f>>]
          /\ Fold(Shaping(Nat), o, S) = Shaping(Nat)[<<Fold(Shaping(Nat), o, S), f>>]
      <3> HIDE DEF o
      <3>1. o \in Seq(Frame)
        BY <2>2 DEF o
      <3> QED BY <3>1, ShapeSent
    <2> QED BY <2>1, <2>3
  <1>8. ASSUME NEW c \in Consumer, NEW m \in Members
        PROVE  /\ m \notin K => Leq(Heard(Passing(c, r, m), m, f), Passing(c, e, m))
               /\ Known(Heard(Passing(c, r, m), m, f)) => Known(Passing(c, e, m))
    <2> DEFINE v == Start(c, m)
               X == Reach(r, m, Nat, v)
               Y == Reach(d, m, Nat, v)
               P == Passing(c, r, m)
               Q == Passing(c, e, m)
    <2>1. v \in Level /\ X \in Level /\ P \in Level
      BY StartIs, RelayIs, ReachIs, PassingIs DEF RelayOK
    <2>2. /\ Known(X) => Known(Y)
          /\ m \notin K => Y = IF m = f.m THEN Heard(X, m, f) ELSE X
      <3>1. q.hold \in Nat
        BY <1>2, RelayIs
      <3>2. /\ Known(Reach(q, m, Nat, v)) => Known(Reach(d, m, Nat, v))
            /\ m \notin K => Reach(d, m, Nat, v) = IF m = f.m THEN Heard(Reach(q, m, Nat, v), m, f)
                                                   ELSE Reach(q, m, Nat, v)
        BY <1>3, <2>1, <3>1 DEF Sends
      <3> QED BY <1>2, <3>2
    <2>3. P = IF m \in r.awaiting /\ Known(X) THEN None ELSE X
      BY DEF Passing
    <2>4. Q = IF (m \in r.awaiting /\ m # f.m) \/ m \in K
              THEN IF Known(Y) THEN None ELSE Y ELSE Y
      <3>1. Reach(e, m, Nat, v) = Y
        BY <1>6
      <3>2. m \in e.awaiting <=> (m \in r.awaiting /\ m # f.m) \/ m \in K
        BY <1>4, <1>6
      <3> HIDE DEF Y, v
      <3> QED BY <3>1, <3>2 DEF Passing, v
    <2> HIDE DEF v, X, Y, P, Q
    <2>5. Known(None) /\ (Known(Heard(P, m, f)) <=> Known(P))
      BY <2>1, LevelIs, HeardState
    <2>6. Known(P) <=> Known(X)
      BY <2>3, <2>5
    <2>7. Known(Y) => Known(Q)
      BY <2>4, <2>5
    <2>8. m # f.m => Heard(P, m, f) = P
      BY HeardAlone
    <2>9. m = f.m /\ f.as # "ops" =>
            /\ Heard(P, m, f) = IF Known(P) THEN f.at ELSE P
            /\ Heard(X, m, f) = IF Known(X) THEN f.at ELSE X
      BY HeardAlone
    <2>10. ASSUME m \notin K PROVE Leq(Heard(P, m, f), Q)
      <3>1. CASE m # f.m
        <4>1. Q = P
          BY <2>2, <2>3, <2>4, <2>10, <3>1
        <4> QED BY <2>8, <3>1, <4>1 DEF Leq
      <3>2. CASE m = f.m /\ m \notin r.awaiting
        <4>1. Q = Heard(P, m, f)
          BY <2>2, <2>3, <2>4, <2>10, <3>2
        <4> QED BY <4>1 DEF Leq
      <3>3. CASE m = f.m /\ f.as # "ops"
        <4>1. Q = Heard(X, m, f)
          BY <2>2, <2>4, <2>10, <3>3
        <4>2. Known(P) => Heard(P, m, f) = Q
          BY <2>6, <2>9, <3>3, <4>1
        <4> QED BY <2>5, <4>2 DEF Leq
      <3> QED BY <3>1, <3>2, <3>3
    <2>11. Known(Heard(P, m, f)) => Known(Q)
      BY <2>2, <2>5, <2>6, <2>7
    <2> QED BY <2>10, <2>11 DEF P, Q
  <1>9. Passes(r, f, e, K)
    BY <1>4, <1>6, <1>7, <1>8 DEF Passes
  <1> QED BY <1>4, <1>9 DEF e

LEMMA RelayStatePasses ==
  ASSUME NEW r \in Relay, RelayOK(r), r.dropped = {}, NEW f \in Frame, f.t = "state",
         f.h = r.hold, r.hold # NoHold, r.shaped
  PROVE  LET d == RelayState(r, f) IN
         d.dropped \in SUBSET Members /\ Passes(r, f, Again(d), d.dropped)
  <1> DEFINE q == Freed(r, f.m)
             d == RelayState(r, f)
  <1>1. f.m \in Members
    BY FrameIs
  <1>2. q \in Relay /\ q.hold = r.hold /\ q.slots = r.slots /\ RelayOK(q)
    BY <1>1, FreedIs
  <1>3. d = IF f.m \in r.awaiting /\ f.as = "ops" THEN r
            ELSE IF f.m \in r.urgent THEN Send(q, f) ELSE SendState(q, f)
    BY DEF RelayState, Freed
  <1> HIDE DEF d, q
  <1> SUFFICES d.dropped \in SUBSET Members /\ Passes(r, f, Again(d), d.dropped)
    BY DEF d
  <1>4. CASE f.m \in r.awaiting /\ f.as = "ops"
    <2>1. d = r
      BY <1>3, <1>4
    <2>2. Again(r) = r
      BY DEF Again, Relay
    <2>3. ASSUME NEW c \in Consumer, NEW m \in Members
          PROVE  Heard(Passing(c, r, m), m, f) = Passing(c, r, m)
      <3> DEFINE X == Reach(r, m, Nat, Start(c, m))
                 P == Passing(c, r, m)
      <3>1. P = IF m \in r.awaiting /\ Known(X) THEN None ELSE X
        BY DEF Passing
      <3>2. CASE m # f.m
        BY <3>2, HeardAlone
      <3>3. CASE m = f.m
        <4>1. P = None \/ ~Known(P)
          <5> HIDE DEF X, P
          <5> QED BY <1>4, <3>1, <3>3
        <4>2. P = None => Heard(P, m, f) = P
          BY <1>4, HeardAlone
        <4>3. ~Known(P) => Heard(P, m, f) = P
          BY DEF Heard
        <4> QED BY <4>1, <4>2, <4>3
      <3> QED BY <3>2, <3>3
    <2>4. \A c \in Consumer : \A m \in Members :
            /\ Leq(Heard(Passing(c, r, m), m, f), Passing(c, r, m))
            /\ Known(Heard(Passing(c, r, m), m, f)) => Known(Passing(c, r, m))
      BY <2>3 DEF Leq
    <2>5. \A S \in SUBSET Keys :
            Fold(Shaping(Nat), r.out, S) = Shaping(Nat)[<<Fold(Shaping(Nat), r.out, S), f>>]
      BY ShapeSent, RelayIs
    <2>6. Passes(r, f, r, {})
      BY <2>4, <2>5 DEF Passes
    <2> QED BY <2>1, <2>2, <2>6
  <1>5. CASE ~(f.m \in r.awaiting /\ f.as = "ops")
    <2>1. \E K \in SUBSET Members : Sends(q, d, f, K)
      <3>1. q \in Sender /\ SlotsOK(q) /\ WindowOK(q) /\ f.h = q.hold /\ ~q.provides
            /\ \A m \in Members : ~q.slots[m].lazy
        BY <1>2, RelayIs DEF RelayOK
      <3>2. CASE f.m \in r.urgent
        <4>1. q.slots[f.m] = Idle
          BY <1>1, <1>2, <3>2 DEF RelayOK
        <4>2. Sends(q, d, f, {})
          BY <1>3, <1>5, <3>1, <3>2, <4>1, SendSends
        <4> QED BY <4>2
      <3>3. CASE f.m \notin r.urgent
        <4>1. d = SendState(q, f)
          BY <1>3, <1>5, <3>3
        <4> QED BY <3>1, <4>1, SendStateIs
      <3> QED BY <3>2, <3>3
    <2>2. PICK K \in SUBSET Members : Sends(q, d, f, K)
      BY <2>1
    <2>3. Sends(Freed(r, f.m), d, f, K)
      BY <2>2 DEF q
    <2>4. d.dropped = K /\ Passes(r, f, Again(d), K)
      BY <1>5, <2>3, SendsPasses
    <2> QED BY <2>4
  <1> QED BY <1>4, <1>5

LEMMA RelayFlushed ==
  ASSUME NEW r \in Relay, RelayOK(r), r.dropped = {}, NEW vs
  PROVE  LET d == Flush([r EXCEPT !.processed = 0], vs) IN
         /\ d \in Relay /\ d.dropped = {} /\ Again(d) = d /\ d.hold = r.hold /\ d.shaped = r.shaped
         /\ RelayOK(d)
         /\ \A S \in SUBSET Keys : Fold(Shaping(Nat), d.out, S) = Fold(Shaping(Nat), r.out, S)
         /\ \A c \in Consumer : \A m \in Members : Passing(c, d, m) = Passing(c, r, m)
  <1> DEFINE q == [r EXCEPT !.processed = 0]
             d == Flush(q, vs)
  <1>1. /\ q \in Relay /\ q.out = r.out /\ q.slots = r.slots /\ q.order = r.order /\ q.hold = r.hold
        /\ q.shaped = r.shaped /\ q.urgent = r.urgent /\ q.awaiting = r.awaiting /\ q.dropped = {}
    BY DEF Relay
  <1> HIDE DEF q
  <1>2. SlotsOK(q) /\ \A m \in Members : ~q.slots[m].lazy
    BY <1>1 DEF RelayOK, SlotsOK, Waits
  <1>3. Moved(q, d) /\ WindowOK(d)
    BY <1>1, <1>2, RelayFlush
  <1> HIDE DEF d
  <1>4. /\ d \in Relay /\ d.hold = r.hold /\ d.shaped = r.shaped /\ d.urgent = r.urgent
        /\ d.awaiting = r.awaiting /\ d.dropped = {} /\ SlotsOK(d)
        /\ \A m \in Members : d.slots[m] = r.slots[m] \/ d.slots[m] = Idle
        /\ \A hs : \A S \in SUBSET Keys : Fold(Shaping(hs), d.out, S) = Fold(Shaping(hs), r.out, S)
    BY <1>1, <1>3 DEF Moved, Kept, Sent
  <1>5. Again(d) = d
    BY <1>4 DEF Again, Relay
  <1>6. RelayOK(d)
    BY <1>3, <1>4, IdleIs DEF RelayOK
  <1>7. ASSUME NEW c \in Consumer, NEW m \in Members PROVE Passing(c, d, m) = Passing(c, r, m)
    <2> DEFINE v == Start(c, m)
    <2>1. v \in Level /\ q.hold \in Nat
      BY <1>1, StartIs, RelayIs
    <2>2. Reach(d, m, Nat, v) = Reach(q, m, Nat, v)
      BY <1>3, <2>1 DEF Moved
    <2>3. Reach(q, m, Nat, v) = Reach(r, m, Nat, v)
      BY <1>1 DEF Reach
    <2> HIDE DEF v
    <2> QED BY <1>4, <2>2, <2>3 DEF Passing, v
  <1> HIDE DEF Relay
  <1>8. \A S \in SUBSET Keys : Fold(Shaping(Nat), d.out, S) = Fold(Shaping(Nat), r.out, S)
    BY <1>4
  <1>9. \A c \in Consumer : \A m \in Members : Passing(c, d, m) = Passing(c, r, m)
    BY <1>7
  <1> QED BY <1>4, <1>5, <1>6, <1>8, <1>9 DEF d, q

-----------------------------------------------------------------------------
(* A frame goes from one link to the next.                                    *)

Taken(c) == [c EXCEPT !.out = Tail(@), !.processed = @ + 1]

LEMMA TakenIs ==
  ASSUME NEW c \in Sender, c.out # <<>>
  PROVE  LET d == Taken(c)
             f == Head(c.out) IN
         /\ f \in Frame /\ d.out = Tail(c.out) /\ d.out \in Seq(Frame)
         /\ d.hold = c.hold /\ d.slots = c.slots /\ d.order = c.order /\ d.dropped = c.dropped
         /\ (Full(d) <=> Full(c)) /\ (SlotsOK(c) => SlotsOK(d)) /\ (WindowOK(c) => WindowOK(d))
         /\ \A k : Waits(d, k) <=> Waits(c, k)
         /\ c \in Provider => /\ d \in Provider /\ d.wants = c.wants /\ d.again = c.again
                              /\ d.feeds = c.feeds
         /\ c \in Relay => /\ d \in Relay /\ d.shaped = c.shaped /\ d.urgent = c.urgent
                           /\ d.awaiting = c.awaiting
  <1> DEFINE d == Taken(c)
             f == Head(c.out)
  <1>1. c.out \in Seq(Frame) /\ Len(c.out) \in Nat /\ c.processed \in Nat
    BY SenderIs
  <1>2. /\ f \in Frame /\ Tail(c.out) \in Seq(Frame) /\ Len(Tail(c.out)) = Len(c.out) - 1
        /\ c.processed + 1 \in Nat
    BY <1>1, HeadTailProperties
  <1>3. /\ d.out = Tail(c.out) /\ d.processed = c.processed + 1 /\ d.hold = c.hold
        /\ d.slots = c.slots /\ d.order = c.order /\ d.dropped = c.dropped
        /\ c \in Provider => /\ d \in Provider /\ d.wants = c.wants /\ d.again = c.again
                             /\ d.feeds = c.feeds
        /\ c \in Relay => /\ d \in Relay /\ d.shaped = c.shaped /\ d.urgent = c.urgent
                          /\ d.awaiting = c.awaiting
    <2>1. CASE c \in Provider
      <3>1. c \notin Relay
        BY <2>1, SenderIs
      <3> QED BY <1>2, <2>1, <3>1 DEF Taken, Provider
    <2>2. CASE c \in Relay
      <3>1. c \notin Provider
        BY <2>2, SenderIs
      <3> QED BY <1>2, <2>2, <3>1 DEF Taken, Relay
    <2> QED BY <2>1, <2>2, SenderIs
  <1> HIDE DEF d, f
  <1>4. \A k : Waits(d, k) <=> Waits(c, k)
    BY <1>3 DEF Waits
  <1>5. Full(d) <=> Full(c)
    <2>1. Len(d.out) = Len(c.out) - 1 /\ Window \in Nat
      BY <1>2, <1>3, BoundsAssumption
    <2> QED BY <1>1, <1>3, <2>1 DEF Full
  <1>6. SlotsOK(c) => SlotsOK(d)
    BY <1>3, <1>4 DEF SlotsOK
  <1>7. WindowOK(c) => WindowOK(d)
    BY <1>3, <1>5 DEF WindowOK
  <1> QED BY <1>2, <1>3, <1>4, <1>5, <1>6, <1>7 DEF d, f

LEMMA TakenReach ==
  ASSUME NEW c \in Sender, c.out # <<>>, NEW m \in Members, NEW hs, NEW v \in Level
  PROVE  LET d == Taken(c)
             f == Head(c.out)
             w == IF f.h \in hs THEN Heard(v, m, f) ELSE v IN
         w \in Level /\ Reach(d, m, hs, w) = Reach(c, m, hs, v)
  <1> DEFINE d == Taken(c)
             f == Head(c.out)
             w == IF f.h \in hs THEN Heard(v, m, f) ELSE v
             g == Hearing(m, hs)
  <1>1. f \in Frame /\ d.out = Tail(c.out) /\ d.slots = c.slots
    BY TakenIs
  <1>2. c.out \in Seq(Frame) /\ c.out # <<>>
    BY SenderIs
  <1>3. g[<<v, f>>] = w /\ w \in Level
    BY <1>1, HearingAt
  <1> HIDE DEF d, g, w
  <1>4. Fold(g, c.out, v) = Fold(g, Tail(c.out), g[<<v, f>>])
    BY <1>2, FoldHead
  <1>5. Fold(g, c.out, v) = Fold(g, d.out, w)
    BY <1>1, <1>3, <1>4
  <1>6. Reach(d, m, hs, w) = Reach(c, m, hs, v)
    BY <1>1, <1>5 DEF Reach, g
  <1> QED BY <1>3, <1>6 DEF d, w

LEMMA TakenShape ==
  ASSUME NEW c \in Sender, c.out # <<>>, NEW hs, NEW S \in SUBSET Keys
  PROVE  LET d == Taken(c)
             f == Head(c.out)
             T == IF f.t = "shape" /\ f.h \in hs THEN f.members ELSE S IN
         T \in SUBSET Keys /\ Fold(Shaping(hs), c.out, S) = Fold(Shaping(hs), d.out, T)
  <1> DEFINE d == Taken(c)
             f == Head(c.out)
             T == IF f.t = "shape" /\ f.h \in hs THEN f.members ELSE S
             g == Shaping(hs)
  <1>1. f \in Frame /\ d.out = Tail(c.out)
    BY TakenIs
  <1>2. c.out \in Seq(Frame) /\ c.out # <<>>
    BY SenderIs
  <1>3. g[<<S, f>>] = T /\ T \in SUBSET Keys
    <2> HIDE DEF f
    <2>1. /\ Shaping(hs)[<<S, f>>] = IF f.t = "shape" /\ f.h \in hs THEN f.members ELSE S
          /\ Shaping(hs)[<<S, f>>] \in SUBSET Keys
      BY <1>1, ShapingAt
    <2> QED BY <2>1
  <1> HIDE DEF d, g, T
  <1>4. Fold(g, c.out, S) = Fold(g, Tail(c.out), g[<<S, f>>])
    BY <1>2, FoldHead
  <1> QED BY <1>1, <1>3, <1>4 DEF d, g, T

LEMMA TakenSeen ==
  ASSUME NEW c \in Sender, c.out # <<>>, NEW h
  PROVE  LET d == Taken(c)
             f == Head(c.out) IN
         /\ f.h # h => Fold(Seen(h), c.out, 0) = Fold(Seen(h), d.out, 0)
         /\ f.h = h /\ f.t = "state" => Fold(Seen(h), c.out, 0) = 2
  <1> DEFINE d == Taken(c)
             f == Head(c.out)
             g == Seen(h)
             x == g[<<0, f>>]
  <1>1. f \in Frame /\ d.out = Tail(c.out) /\ d.out \in Seq(Frame)
    BY TakenIs
  <1>2. c.out \in Seq(Frame) /\ c.out # <<>>
    BY SenderIs
  <1>3. x = IF f.h # h THEN 0 ELSE IF f.t = "shape" THEN 1 ELSE 2
    BY <1>1, SeenAt
  <1>4. \A y \in Frame : g[<<2, y>>] = 2
    <2>1. ASSUME NEW y \in Frame PROVE g[<<2, y>>] = 2
      BY SeenAt
    <2> QED BY <2>1
  <1> HIDE DEF d, g, x, f
  <1>5. Fold(g, c.out, 0) = Fold(g, Tail(c.out), g[<<0, f>>])
    BY <1>2, FoldHead DEF f
  <1>6. Fold(g, d.out, 2) = 2
    <2> DEFINE S == {2}
    <2>1. \A s \in S : \A y \in Frame : g[<<s, y>>] \in S
      BY <1>4
    <2>2. 2 \in S
      OBVIOUS
    <2> HIDE DEF S
    <2>3. Fold(g, d.out, 2) \in S
      BY <1>1, <2>1, <2>2, FoldStays
    <2> QED BY <2>3 DEF S
  <1>7. f.h # h => Fold(g, c.out, 0) = Fold(g, d.out, 0)
    BY <1>1, <1>3, <1>5 DEF x
  <1>8. f.h = h /\ f.t = "state" => Fold(g, c.out, 0) = 2
    BY <1>1, <1>3, <1>5, <1>6 DEF x
  <1> QED BY <1>7, <1>8 DEF d, g, f

LEMMA ReachMore ==
  ASSUME NEW c \in Sender, NEW m \in Members, NEW hs, NEW v \in Level, NEW w \in Level
  PROVE  LET x == Reach(c, m, hs, v)
             y == Reach(c, m, hs, w) IN
         /\ x \in Level /\ y \in Level
         /\ Leq(v, w) => Leq(x, y)
         /\ (Known(v) => Known(w)) => (Known(x) => Known(y))
  <1> DEFINE s == Fold(Hearing(m, hs), c.out, v)
             t == Fold(Hearing(m, hs), c.out, w)
  <1>1. c.out \in Seq(Frame) /\ c.slots[m] \in Slot
    BY SenderIs DEF Keys
  <1>2. /\ s \in Level /\ t \in Level
        /\ Leq(v, w) => Leq(s, t)
        /\ (Known(v) => Known(w)) => (Known(s) => Known(t))
    BY <1>1, HearingStays, HearingMore
  <1>3. Reach(c, m, hs, v) = After(s, m, c.slots[m]) /\ Reach(c, m, hs, w) = After(t, m, c.slots[m])
    BY DEF Reach
  <1> HIDE DEF s, t
  <1>4. /\ After(s, m, c.slots[m]) \in Level /\ After(t, m, c.slots[m]) \in Level
        /\ Leq(s, t) => Leq(After(s, m, c.slots[m]), After(t, m, c.slots[m]))
        /\ (Known(s) => Known(t)) => (Known(After(s, m, c.slots[m])) => Known(After(t, m, c.slots[m])))
    BY <1>1, <1>2, AfterIs
  <1> QED BY <1>2, <1>3, <1>4

\* What is told stays told when more is known where the provider's frames come.
LEMMA TellsMore ==
  ASSUME NEW p \in Provider, NEW n, NEW in \in [Members -> Level], NEW in2 \in [Members -> Level],
         NEW again, NEW again2, again \subseteq again2,
         \A m \in Fed(p) : /\ m \notin again2 => Leq(in[m], in2[m])
                           /\ Known(in[m]) => Known(in2[m]),
         TellsValues(p, n, in, again)
  PROVE  TellsValues(p, n, in2, again2)
  <1> SUFFICES ASSUME NEW m \in Fed(p)
               PROVE  LET x == Reach(p, m, {p.hold}, in2[m]) IN
                      /\ Known(x)
                      /\ p.slots[m].lazy \/ m \in again2 \/ x \in {Failed, [s |-> p.feeds[m], n |-> n[m]]}
    BY DEF TellsValues
  <1> DEFINE x == Reach(p, m, {p.hold}, in[m])
             y == Reach(p, m, {p.hold}, in2[m])
             z == [s |-> p.feeds[m], n |-> n[m]]
  <1>1. /\ p \in Sender /\ m \in Members /\ in[m] \in Level /\ in2[m] \in Level
        /\ p.feeds[m] # 0
    BY ProviderIs
  <1>2. /\ Leq(in[m], in2[m]) => Leq(x, y)
        /\ (Known(in[m]) => Known(in2[m])) => (Known(x) => Known(y))
    BY <1>1, ReachMore
  <1>3. Known(x) /\ (p.slots[m].lazy \/ m \in again \/ x \in {Failed, z})
    BY DEF TellsValues
  <1>4. (m \notin again2 => Leq(in[m], in2[m])) /\ (Known(in[m]) => Known(in2[m]))
    OBVIOUS
  <1>5. z # None /\ Failed # None /\ Known(Failed)
    BY <1>1, LevelIs DEF None
  <1> HIDE DEF x, y, z
  <1>6. Known(y)
    BY <1>2, <1>3, <1>4
  <1>7. m \notin again2 /\ x \in {Failed, z} => y \in {Failed, z}
    BY <1>2, <1>3, <1>4, <1>5 DEF Leq
  <1>8. p.slots[m].lazy \/ m \in again2 \/ y \in {Failed, z}
    BY <1>3, <1>7
  <1> QED BY <1>6, <1>8 DEF y, z

\* The last shape of a link is what it tells; with none, what was unknown stays so.
LEMMA LastShape ==
  ASSUME NEW q \in Seq(Frame), NEW hs
  PROVE  LET s == Fold(Shaping(hs), q, NoShape) IN
         /\ s # NoShape => \A u \in SUBSET Keys : Fold(Shaping(hs), q, u) = s
         /\ s = NoShape => /\ \A u \in SUBSET Keys : Fold(Shaping(hs), q, u) = u
                           /\ \A m \in Members : Fold(Hearing(m, hs), q, Unknown) = Unknown
  <1> DEFINE g == Shaping(hs)
  <1>1. NoShape \in SUBSET Keys /\ \A S \in SUBSET Members : S # NoShape
    BY MembersAssumption DEF NoShape, Keys
  <1>2. ASSUME NEW S \in SUBSET Keys, NEW f \in Frame
        PROVE  /\ g[<<S, f>>] = IF f.t = "shape" /\ f.h \in hs THEN f.members ELSE S
               /\ g[<<S, f>>] \in SUBSET Keys /\ f.members # NoShape
    <2>1. f.members \in SUBSET Members
      BY FrameIs
    <2>2. f.members # NoShape
      BY <1>1, <2>1
    <2>3. /\ Shaping(hs)[<<S, f>>] = IF f.t = "shape" /\ f.h \in hs THEN f.members ELSE S
          /\ Shaping(hs)[<<S, f>>] \in SUBSET Keys
      BY ShapingAt
    <2> QED BY <2>2, <2>3
  <1>3. ASSUME NEW u \in SUBSET Keys
        PROVE  LET s == Fold(g, q, NoShape)
                   t == Fold(g, q, u) IN IF s = NoShape THEN t = u ELSE t = s
    <2> DEFINE R == {p \in (SUBSET Keys) \X (SUBSET Keys) :
                       IF p[1] = NoShape THEN p[2] = u ELSE p[2] = p[1]}
    <2>1. <<NoShape, u>> \in R
      BY <1>1
    <2>2. ASSUME NEW p \in R, NEW f \in Frame PROVE <<g[<<p[1], f>>], g[<<p[2], f>>]>> \in R
      <3>1. p[1] \in SUBSET Keys /\ p[2] \in SUBSET Keys /\ (IF p[1] = NoShape THEN p[2] = u ELSE p[2] = p[1])
        OBVIOUS
      <3>2. /\ g[<<p[1], f>>] = IF f.t = "shape" /\ f.h \in hs THEN f.members ELSE p[1]
            /\ g[<<p[2], f>>] = IF f.t = "shape" /\ f.h \in hs THEN f.members ELSE p[2]
            /\ g[<<p[1], f>>] \in SUBSET Keys /\ g[<<p[2], f>>] \in SUBSET Keys
            /\ f.members # NoShape
        BY <1>2, <3>1
      <3> HIDE DEF g
      <3> QED BY <3>1, <3>2
    <2> HIDE DEF R, g
    <2>3. <<Fold(g, q, NoShape), Fold(g, q, u)>> \in R
      BY <2>1, <2>2, FoldTwo
    <2> QED BY <2>3 DEF R
  <1>4. ASSUME NEW m \in Members
        PROVE  Fold(g, q, NoShape) = NoShape => Fold(Hearing(m, hs), q, Unknown) = Unknown
    <2> DEFINE e == Hearing(m, hs)
               R == {p \in (SUBSET Keys) \X Level : p[1] = NoShape => p[2] = Unknown}
    <2>1. <<NoShape, Unknown>> \in R
      BY <1>1, LevelIs
    <2>2. ASSUME NEW p \in R, NEW f \in Frame PROVE <<g[<<p[1], f>>], e[<<p[2], f>>]>> \in R
      <3>1. p[1] \in SUBSET Keys /\ p[2] \in Level /\ (p[1] = NoShape => p[2] = Unknown)
        OBVIOUS
      <3>2. /\ g[<<p[1], f>>] = IF f.t = "shape" /\ f.h \in hs THEN f.members ELSE p[1]
            /\ g[<<p[1], f>>] \in SUBSET Keys /\ f.members # NoShape
        BY <1>2, <3>1
      <3>3. e[<<p[2], f>>] = (IF f.h \in hs THEN Heard(p[2], m, f) ELSE p[2]) /\ e[<<p[2], f>>] \in Level
        BY <3>1, HearingAt
      <3>4. f.t # "shape" => Heard(Unknown, m, f) = Unknown
        BY LevelIs DEF Heard
      <3> HIDE DEF g, e
      <3> QED BY <3>1, <3>2, <3>3, <3>4
    <2> HIDE DEF R, g, e
    <2>3. <<Fold(g, q, NoShape), Fold(e, q, Unknown)>> \in R
      BY <2>1, <2>2, FoldTwo
    <2> QED BY <2>3 DEF R, e
  <1> QED BY <1>3, <1>4

\* The consumer hears the relay's next frame.
LEMMA FollowsPassing ==
  ASSUME NEW c \in Consumer, c.wish, NEW r \in Relay, SlotsOK(r), r.out # <<>>,
         NEW d, Follows(c, Head(r.out), d), d.status # "ended", NEW m \in Members
  PROVE  /\ Leq(Passing(c, r, m), Passing(d, Taken(r), m))
         /\ Known(Passing(c, r, m)) => Known(Passing(d, Taken(r), m))
  <1> DEFINE q == Taken(r)
             f == Head(r.out)
             v == Start(c, m)
             w == Heard(v, m, f)
             u == Start(d, m)
             X == Reach(r, m, Nat, v)
             Y == Reach(q, m, Nat, u)
  <1>1. r \in Sender /\ v \in Level /\ d \in Consumer /\ u \in Level /\ Leq(w, u)
    BY RelayIs, StartIs DEF Follows
  <1>2. f \in Frame /\ q \in Relay /\ q \in Sender /\ q.awaiting = r.awaiting /\ f.h \in Nat
    BY <1>1, TakenIs, RelayIs, FrameIs
  <1>3. w \in Level /\ Reach(q, m, Nat, w) = X
    BY <1>1, <1>2, TakenReach
  <1>4. Passing(c, r, m) = IF m \in r.awaiting /\ Known(X) THEN None ELSE X
    BY DEF Passing
  <1>5. Passing(d, q, m) = IF m \in r.awaiting /\ Known(Y) THEN None ELSE Y
    BY <1>2 DEF Passing
  <1>6. X \in Level /\ Y \in Level /\ Leq(X, Y)
    <2> HIDE DEF q, v, w, u, f
    <2> QED BY <1>1, <1>2, <1>3, ReachMore
  <1>7. Known(None) /\ Known(Failed) /\ ~Known(Unknown)
    BY LevelIs
  <1> HIDE DEF q, f, v, w, u, X, Y
  <1>8. Leq(Passing(c, r, m), Passing(d, q, m))
    BY <1>4, <1>5, <1>6, <1>7 DEF Leq
  <1>9. Known(Passing(c, r, m)) => Known(Passing(d, q, m))
    BY <1>8, <1>7 DEF Leq
  <1> QED BY <1>8, <1>9 DEF q

LEMMA FollowsShape ==
  ASSUME NEW c \in Consumer, c.wish, NEW r \in Relay, SlotsOK(r), r.out # <<>>,
         NEW d, Follows(c, Head(r.out), d), d.status # "ended", NEW p \in Provider, SlotsOK(p),
         NEW vs \in SUBSET Members, NEW n, NEW again,
         TellsValues(p, n, Inbound(c, r), again), TellsShape(p, vs, ShapeIn(c, r))
  PROVE  TellsShape(p, vs, ShapeIn(d, Taken(r)))
  <1> DEFINE q == Taken(r)
             f == Head(r.out)
             h == {p.hold}
             L == LastOf(c, f)
             D == ShapeOf(d)
             G(u) == Fold(Shaping(Nat), q.out, u)
             H(u) == Fold(Shaping(h), p.out, u)
  <1> SUFFICES ASSUME ~Waits(p, "unit") PROVE Fed(p) = vs /\ H(G(D)) = vs
    BY DEF TellsShape, ShapeIn
  <1>1. /\ r \in Sender /\ f \in Frame /\ q.out \in Seq(Frame) /\ p.out \in Seq(Frame)
        /\ f.h \in Nat /\ q \in Sender /\ SlotsOK(q) /\ p \in Sender
    <2>1. r \in Sender
      BY RelayIs
    <2>2. f \in Frame /\ q.out \in Seq(Frame) /\ q \in Relay /\ SlotsOK(q)
      BY <2>1, TakenIs
    <2> QED BY <2>1, <2>2, RelayIs, ProviderIs, FrameIs
  <1>2. ShapeOf(c) \in SUBSET Keys /\ D \in SUBSET Keys /\ NoShape \in SUBSET Keys
    <2>1. d \in Consumer
      BY DEF Follows
    <2> QED BY <2>1, ConsumerIs DEF ShapeOf, NoShape, Keys
  <1>3. L \in SUBSET Keys /\ Fold(Shaping(Nat), r.out, ShapeOf(c)) = G(L)
    <2> DEFINE T == IF f.t = "shape" /\ f.h \in Nat THEN f.members ELSE ShapeOf(c)
    <2>1. T \in SUBSET Keys /\ Fold(Shaping(Nat), r.out, ShapeOf(c)) = Fold(Shaping(Nat), q.out, T)
      <3> DEFINE S == ShapeOf(c)
      <3>1. r \in Sender /\ r.out # <<>> /\ S \in SUBSET Keys
        BY <1>1, <1>2
      <3> HIDE DEF S, T, G, H, L, D
      <3>2. LET U == IF Head(r.out).t = "shape" /\ Head(r.out).h \in Nat THEN Head(r.out).members ELSE S IN
            U \in SUBSET Keys /\ Fold(Shaping(Nat), r.out, S) = Fold(Shaping(Nat), Taken(r).out, U)
        BY <3>1, TakenShape
      <3> QED BY <3>2 DEF S, T
    <2>2. T = L
      BY <1>1 DEF LastOf
    <2> QED BY <2>1, <2>2
  <1>4. Fed(p) = vs /\ H(G(L)) = vs
    BY <1>3 DEF TellsShape, ShapeIn
  <1>5. \/ D = L \/ L = NoShape
        \/ \E m \in Members : m \in L /\ ~Known(Heard(Start(c, m), m, f))
    BY DEF Follows
  <1>6. vs # NoShape
    BY MembersAssumption DEF NoShape
  <1>7. /\ G(NoShape) # NoShape => \A u \in SUBSET Keys : G(u) = G(NoShape)
        /\ G(NoShape) = NoShape =>
             /\ \A u \in SUBSET Keys : G(u) = u
             /\ \A m \in Members : Fold(Hearing(m, Nat), q.out, Unknown) = Unknown
    BY <1>1, LastShape
  <1>8. /\ H(NoShape) # NoShape => \A u \in SUBSET Keys : H(u) = H(NoShape)
        /\ H(NoShape) = NoShape =>
             /\ \A u \in SUBSET Keys : H(u) = u
             /\ \A m \in Members : Fold(Hearing(m, h), p.out, Unknown) = Unknown
    BY <1>1, LastShape
  <1>9. \A u \in SUBSET Keys : G(u) \in SUBSET Keys
    BY <1>1, FoldTypes
  <1> HIDE DEF q, f, L, D, G, H, h
  <1>10. CASE D = L
    BY <1>4, <1>10
  <1>11. CASE G(NoShape) # NoShape
    BY <1>2, <1>3, <1>4, <1>7, <1>11
  <1>12. CASE H(NoShape) # NoShape
    BY <1>2, <1>3, <1>4, <1>8, <1>9, <1>12
  <1>13. CASE D # L /\ G(NoShape) = NoShape /\ H(NoShape) = NoShape
    <2>1. L = vs
      BY <1>3, <1>4, <1>7, <1>8, <1>13
    <2>2. PICK m \in Members : m \in vs /\ ~Known(Heard(Start(c, m), m, f))
      BY <1>5, <1>6, <1>13, <2>1
    <2> DEFINE v == Start(c, m)
               w == Heard(v, m, f)
               X == Reach(r, m, Nat, v)
    <2>3. v \in Level /\ w \in Level /\ w = Unknown
      BY <1>1, <2>2, StartIs, HeardIs, LevelIs
    <2>4. Reach(q, m, Nat, w) = X
      BY <1>1, <2>3, TakenReach DEF q, f
    <2>5. ~Known(X)
      <3>1. Known(Reach(q, m, Nat, Unknown)) <=> Known(Fold(Hearing(m, Nat), q.out, Unknown))
        BY <1>1, LevelIs, ReachIs
      <3>2. Fold(Hearing(m, Nat), q.out, Unknown) = Unknown
        BY <1>7, <1>13
      <3> HIDE DEF w, v, X
      <3> QED BY <2>3, <2>4, <3>1, <3>2, LevelIs
    <2>6. Passing(c, r, m) \in Level /\ Inbound(c, r)[m] = Passing(c, r, m)
      BY PassingIs
    <2>7. ~Known(Passing(c, r, m))
      BY <2>5 DEF Passing
    <2>8. Inbound(c, r)[m] = Unknown
      BY <2>6, <2>7, LevelIs
    <2>9. Known(Reach(p, m, {p.hold}, Unknown))
      BY <1>4, <2>2, <2>8 DEF TellsValues
    <2>10. Known(Reach(p, m, h, Unknown)) <=> Known(Fold(Hearing(m, h), p.out, Unknown))
      BY <1>1, LevelIs, ReachIs
    <2>11. Fold(Hearing(m, h), p.out, Unknown) = Unknown
      BY <1>8, <1>13
    <2> QED BY <2>9, <2>10, <2>11, LevelIs DEF h
  <1> QED BY <1>10, <1>11, <1>12, <1>13

-----------------------------------------------------------------------------
(* Steps of the provider.                                                     *)

\* What the parts of the invariant read of a provider.
Alike(p, q) ==
  /\ q \in Provider /\ q.out = p.out /\ q.order = p.order /\ q.slots = p.slots /\ q.feeds = p.feeds

LEMMA AlikeIs ==
  ASSUME NEW p \in Provider, NEW q, Alike(p, q), NEW n, NEW in
  PROVE  /\ Fed(q) = Fed(p) /\ \A k : Waits(q, k) <=> Waits(p, k)
         /\ \A m : \A hs : \A v : Reach(q, m, hs, v) = Reach(p, m, hs, v)
         /\ q.hold = p.hold => /\ \A vs : q.wants = p.wants /\ FeedsOK(p, vs) => FeedsOK(q, vs)
                               /\ \A h : First(h, p) => First(h, q)
                               /\ \A again : TellsValues(p, n, in, again) => TellsValues(q, n, in, again)
                               /\ \A vs : \A u : TellsShape(p, vs, u) => TellsShape(q, vs, u)
  <1>1. q.out = p.out /\ q.order = p.order /\ q.slots = p.slots /\ q.feeds = p.feeds
    BY DEF Alike
  <1>2. Fed(q) = Fed(p) /\ \A k : Waits(q, k) <=> Waits(p, k)
    BY <1>1 DEF Fed, Waits
  <1>3. \A m : \A hs : \A v : Reach(q, m, hs, v) = Reach(p, m, hs, v)
    BY <1>1 DEF Reach
  <1>4. ASSUME q.hold = p.hold, NEW vs, q.wants = p.wants, FeedsOK(p, vs) PROVE FeedsOK(q, vs)
    BY <1>1, <1>2, <1>4 DEF FeedsOK, SlotsOK
  <1>5. ASSUME q.hold = p.hold, NEW h, First(h, p) PROVE First(h, q)
    BY <1>1, <1>2, <1>5 DEF First
  <1>6. ASSUME q.hold = p.hold, NEW again, TellsValues(p, n, in, again)
        PROVE  TellsValues(q, n, in, again)
    BY <1>1, <1>2, <1>3, <1>6 DEF TellsValues
  <1>7. ASSUME q.hold = p.hold, NEW vs, NEW u, TellsShape(p, vs, u) PROVE TellsShape(q, vs, u)
    BY <1>1, <1>2, <1>7 DEF TellsShape
  <1> QED BY <1>2, <1>3, <1>4, <1>5, <1>6, <1>7

LEMMA TracksAlike ==
  ASSUME NEW p \in Provider, NEW q, Alike(p, q), q.hold = p.hold, NEW n
  PROVE  TracksOn(p, n, q, n)
  <1> SUFFICES ASSUME NEW m \in Members, NEW v \in Level, Tracks(p, n, m, v) PROVE Tracks(q, n, m, v)
    BY DEF TracksOn
  <1>1. q \in Provider /\ q.out = p.out /\ q.slots = p.slots /\ q.feeds = p.feeds
    BY DEF Alike
  <1>2. Trail(q, m, {p.hold}, v) = Trail(p, m, {p.hold}, v)
    BY <1>1 DEF Trail
  <1> QED BY <1>1, <1>2, TracksStay

\* Frames of other holds tell nothing.
LEMMA ToldNothing ==
  ASSUME NEW q \in Seq(Frame), NEW hs, \A i \in DOMAIN q : q[i].h \notin hs, NEW m, NEW v \in Level
  PROVE  Fold(Telling(m, hs), q, v) = v
  <1> DEFINE X == {f \in Frame : f.h \notin hs}
  <1>1. q \in Seq(X)
    <2>1. q \in [1..Len(q) -> X] /\ Len(q) \in Nat
      <3>1. Len(q) \in Nat /\ DOMAIN q = 1..Len(q) /\ \A i \in DOMAIN q : q[i] \in X
        OBVIOUS
      <3>2. q = [i \in 1..Len(q) |-> q[i]]
        OBVIOUS
      <3> HIDE DEF X
      <3> QED BY <3>1, <3>2
    <2> HIDE DEF X
    <2> QED BY <2>1
  <1>2. \A z \in {v} : \A f \in X : Telling(m, hs)[<<z, f>>] \in {v}
    BY TellingAt
  <1> HIDE DEF X
  <1>3. Fold(Telling(m, hs), q, v) \in {v}
    BY <1>1, <1>2, FoldStays
  <1> QED BY <1>3

\* With no feeds nothing waits.
LEMMA Feedless ==
  ASSUME NEW p \in Provider, NEW vs, FeedsOK(p, vs), Fed(p) = {}
  PROVE  /\ \A m \in Members : ~Waits(p, m)
         /\ \A k \in Keys : p.slots[k] = Idle
  <1>1. \A m \in Members : ~Waits(p, m)
    BY DEF FeedsOK
  <1> QED BY <1>1 DEF FeedsOK, SlotsOK, Keys

\* A hold and a subscription find no feeds, whatever hold and wish they bring.
LEMMA Opened ==
  ASSUME NEW p \in Provider, NEW vs \in SUBSET Members, FeedsOK(p, vs), WindowOK(p), Fed(p) = {},
         NEW q, Alike(p, q), q.processed = p.processed, p.hold = NoHold \/ q.hold = p.hold
  PROVE  /\ FeedsOK(q, Members) /\ WindowOK(q)
         /\ Fed(q) = {} /\ \A h : First(h, p) => First(h, q)
  <1>1. q.out = p.out /\ q.order = p.order /\ q.slots = p.slots /\ q.feeds = p.feeds /\ Fed(q) = {}
        /\ \A k : Waits(q, k) <=> Waits(p, k)
    BY AlikeIs DEF Alike
  <1>2. \A m \in Members : ~Waits(q, m)
    BY <1>1, Feedless
  <1>3. \A k \in Keys : q.slots[k] = Idle
    BY <1>1, Feedless
  <1>4. SlotsOK(q)
    BY <1>3, IdleIs DEF SlotsOK, Keys
  <1>5. Waits(q, "unit") => q.hold # NoHold
    BY <1>1 DEF FeedsOK
  <1>6. FeedsOK(q, Members)
    BY <1>1, <1>2, <1>4, <1>5 DEF FeedsOK
  <1>7. WindowOK(q)
    BY <1>1 DEF WindowOK, Full
  <1>8. \A h : First(h, p) => First(h, q)
    BY <1>1 DEF First
  <1> QED BY <1>1, <1>6, <1>7, <1>8

\* A release and the end of a subscription.
LEMMA Ended ==
  ASSUME NEW p \in Provider, NEW d \in Provider, d.out = p.out, d.order = Forget(p, Keys).order,
         d.slots = Forget(p, Keys).slots, \A m \in Members : d.feeds[m] = 0, NEW vs
  PROVE  FeedsOK(d, vs) /\ WindowOK(d) /\ \A h : First(h, p) => First(h, d)
  <1>1. p \in Sender /\ d \in Sender
    BY ProviderIs
  <1>2. /\ \A k \in Keys : d.slots[k] = Idle
        /\ \A k : Waits(d, k) => k \notin Keys
    BY <1>1, ForgetIs DEF Waits
  <1>3. \A k : ~Waits(d, k)
    <2>1. d.order \in Seq(Keys)
      BY ProviderIs
    <2>2. \A i \in DOMAIN d.order : d.order[i] \in Keys
      BY <2>1
    <2> QED BY <1>2, <2>2 DEF Waits
  <1>4. Fed(d) = {}
    BY DEF Fed
  <1>5. SlotsOK(d)
    BY <1>2, IdleIs DEF SlotsOK, Keys
  <1>6. FeedsOK(d, vs)
    BY <1>3, <1>4, <1>5 DEF FeedsOK, Keys
  <1>7. WindowOK(d)
    BY <1>1, <1>3, OrderIs DEF WindowOK
  <1>8. \A h : First(h, p) => First(h, d)
    BY <1>4 DEF First
  <1> QED BY <1>6, <1>7, <1>8

\* The provider is to send a member again.
LEMMA Lazied ==
  ASSUME NEW p \in Provider, NEW vs \in SUBSET Members, FeedsOK(p, vs), NEW k \in Fed(p)
  PROVE  LET d == [Queued(p, k) EXCEPT !.slots[k] = Lazy] IN
         /\ d \in Provider /\ d.out = p.out /\ d.hold = p.hold /\ d.wants = p.wants
         /\ FeedsOK(d, vs) /\ \A h : First(h, p) => First(h, d)
         /\ \A n : \A in \in [Members -> Level] : \A again : \A again2 :
              again \subseteq again2 \cup {k} /\ TellsValues(p, n, in, again)
                => TellsValues(d, n, in, again2)
         /\ \A u : TellsShape(p, vs, u) => TellsShape(d, vs, u)
         /\ \A n \in [Members -> Nat] : TracksOn(p, n, d, n)
  <1> DEFINE q == Queued(p, k)
             d == [q EXCEPT !.slots[k] = Lazy]
  <1>1. p \in Sender /\ k \in Members /\ k \in Keys /\ p \notin Relay /\ p.hold \in Nat
    BY ProviderIs, SenderIs
  <1>2. /\ Kept(p, q) /\ q.out = p.out /\ q.slots = p.slots
        /\ \A l : Waits(q, l) <=> Waits(p, l) \/ l = k
    BY <1>1, QueuedIs
  <1>3. q \in Sender
    BY <1>1, <1>2, KeptIs
  <1> HIDE DEF q
  <1>4. /\ Kept(q, d) /\ d.out = q.out /\ d.order = q.order
        /\ \A l \in Keys : d.slots[l] = IF l = k THEN Lazy ELSE q.slots[l]
    BY <1>1, <1>3, FillIs, IdleIs
  <1> HIDE DEF d
  <1>5. Kept(p, d)
    BY <1>2, <1>4, KeptIs
  <1>6. d \in Provider /\ d.hold = p.hold /\ d.wants = p.wants /\ d.feeds = p.feeds /\ d.out = p.out
    BY <1>2, <1>4, <1>5 DEF Kept
  <1>7. \A l : Waits(d, l) <=> Waits(p, l) \/ l = k
    BY <1>2, <1>4 DEF Waits
  <1>8. \A l \in Keys : d.slots[l] = IF l = k THEN Lazy ELSE p.slots[l]
    BY <1>2, <1>4
  <1>9. Fed(d) = Fed(p)
    BY <1>6 DEF Fed
  <1>10. SlotsOK(p)
    BY DEF FeedsOK
  <1>11. SlotsOK(d)
    <2>1. \A l \in Keys : d.slots[l] # Idle => Waits(d, l)
      BY <1>7, <1>8, <1>10 DEF SlotsOK
    <2>2. d.slots["unit"] = Idle
      BY <1>1, <1>8, <1>10, MembersAssumption DEF SlotsOK, Keys
    <2>3. \A m \in Members : m \in Keys
      BY DEF Keys
    <2>4. \A m \in Members : SlotFits(d.slots[m], m, d.hold)
      BY <1>6, <1>8, <1>10, <2>3, IdleIs DEF SlotsOK
    <2>5. \A m \in Members : d.slots[m].lazy => d.slots[m] = Lazy
      BY <1>8, <1>10, <2>3 DEF SlotsOK
    <2> QED BY <2>1, <2>2, <2>4, <2>5 DEF SlotsOK
  <1>12. FeedsOK(d, vs)
    BY <1>1, <1>6, <1>7, <1>9, <1>11, MembersAssumption DEF FeedsOK
  <1>13. \A h : First(h, p) => First(h, d)
    BY <1>6, <1>9 DEF First
  <1>14. ASSUME NEW n, NEW in \in [Members -> Level], NEW again, NEW again2,
                again \subseteq again2 \cup {k}, TellsValues(p, n, in, again)
         PROVE  TellsValues(d, n, in, again2)
    <2> SUFFICES ASSUME NEW m \in Fed(d)
                 PROVE  LET x == Reach(d, m, {d.hold}, in[m]) IN
                        Known(x) /\ (d.slots[m].lazy \/ m \in again2 \/ x \in {Failed, [s |-> d.feeds[m], n |-> n[m]]})
      BY DEF TellsValues
    <2>1. m \in Fed(p) /\ m \in Members /\ m \in Keys /\ in[m] \in Level
      BY <1>9 DEF Fed, Keys
    <2>2. LET x == Reach(p, m, {p.hold}, in[m]) IN
          Known(x) /\ (p.slots[m].lazy \/ m \in again \/ x \in {Failed, [s |-> p.feeds[m], n |-> n[m]]})
      BY <1>14, <2>1 DEF TellsValues
    <2>3. CASE m = k
      <3>1. d.slots[m] = Lazy /\ d.slots[m].lazy
        BY <1>8, <2>1, <2>3, IdleIs
      <3>2. Known(Reach(p, m, {p.hold}, in[m])) <=> Known(Fold(Hearing(m, {p.hold}), p.out, in[m]))
        BY <1>1, <1>10, <2>1, ReachIs
      <3>3. d \in Sender
        BY <1>6, ProviderIs
      <3>4. Known(Reach(d, m, {p.hold}, in[m])) <=> Known(Fold(Hearing(m, {p.hold}), d.out, in[m]))
        BY <3>3, <1>11, <2>1, ReachIs
      <3> QED BY <1>6, <2>2, <3>1, <3>2, <3>4
    <2>4. CASE m # k
      <3>1. d.slots[m] = p.slots[m] /\ d.out = p.out /\ d.hold = p.hold /\ d.feeds = p.feeds
        BY <1>6, <1>8, <2>1, <2>4
      <3>2. Reach(d, m, {d.hold}, in[m]) = Reach(p, m, {p.hold}, in[m])
        BY <3>1 DEF Reach
      <3> QED BY <1>14, <2>2, <2>4, <3>1, <3>2
    <2> QED BY <2>3, <2>4
  <1>15. \A u : TellsShape(p, vs, u) => TellsShape(d, vs, u)
    BY <1>6, <1>7, <1>9 DEF TellsShape
  <1>16. ASSUME NEW n \in [Members -> Nat], NEW m \in Members, NEW v \in Level, Tracks(p, n, m, v)
         PROVE  Tracks(d, n, m, v)
    <2>1. m \in Keys
      BY DEF Keys
    <2>2. CASE m = k
      <3>1. d.slots[m] = Lazy
        BY <1>8, <2>1, <2>2
      <3> QED BY <1>6, <1>16, <3>1, TracksLess
    <2>3. CASE m # k
      <3>1. d.slots[m] = p.slots[m]
        BY <1>8, <2>1, <2>3
      <3>2. Trail(d, m, {p.hold}, v) = Trail(p, m, {p.hold}, v)
        BY <1>6, <3>1 DEF Trail
      <3> QED BY <1>6, <1>16, <3>1, <3>2, TracksStay
    <2> QED BY <2>2, <2>3
  <1>17. \A n \in [Members -> Nat] : TracksOn(p, n, d, n)
    BY <1>16 DEF TracksOn
  <1> QED BY <1>6, <1>12, <1>13, <1>14, <1>15, <1>17 DEF d, q

\* What the provider does for a request, l being the last hold that reached it.
ServedOK(p, l, msg, d) ==
  LET k == Turned(Serving(p, l), msg) IN
  /\ d \in Provider /\ d.hold = k.hold /\ d.wants = k.wants
  /\ d.hold <= k.last /\ Bounded(d.out, k.last)
  /\ FeedsOK(d, variant) /\ WindowOK(d) /\ \A h : First(h, p) => First(h, d)
  /\ d.hold # NoHold /\ d.wants =>
       \A in \in [Members -> Level] : \A again : \A u \in SUBSET Keys :
         (msg.t = "resync" => /\ TellsValues(p, val, in, {msg.m} \cup again)
                              /\ TellsShape(p, variant, u))
           => TellsValues(d, val, in, again) /\ TellsShape(d, variant, u)
  /\ msg.t \in {"sub", "resync"} => TracksOn(p, val, d, val)
  /\ msg.t = "hold" => \A m \in Members : \A v \in Level :
                         Known(v) /\ v.n <= val[m] => Tracks(d, val, m, v)

\* The object: its values, the provider and the variant it serves.
ObjectOK(p) ==
  /\ p \in Provider /\ val \in [Members -> Nat] /\ variant \in SUBSET Members
  /\ FeedsOK(p, variant) /\ WindowOK(p)

LEMMA UnitServes ==
  ASSUME NEW p, ObjectOK(p), Fed(p) = {}, NEW q, Alike(p, q), q.processed = p.processed,
         p.hold = NoHold \/ q.hold = p.hold, NEW k \in Control, k.hold = q.hold, k.wants = q.wants,
         q.hold <= k.last, Bounded(p.out, k.last)
  PROVE  LET d == Unit(q, variant) IN
         /\ d \in Provider /\ d.hold = k.hold /\ d.wants = k.wants
         /\ d.hold <= k.last /\ Bounded(d.out, k.last)
         /\ FeedsOK(d, variant) /\ WindowOK(d) /\ \A h : First(h, p) => First(h, d)
         /\ d.hold # NoHold /\ d.wants =>
              \A in \in [Members -> Level] : \A again : \A u \in SUBSET Keys :
                TellsValues(d, val, in, again) /\ TellsShape(d, variant, u)
         /\ TracksOn(q, val, d, val)
  <1> DEFINE d == Unit(q, variant)
  <1>1. /\ p \in Provider /\ val \in [Members -> Nat] /\ variant \in SUBSET Members
        /\ FeedsOK(p, variant) /\ WindowOK(p)
    BY DEF ObjectOK
  <1>2. /\ FeedsOK(q, Members) /\ WindowOK(q) /\ Fed(q) = {} /\ q \in Provider /\ q.out = p.out
        /\ \A h : First(h, p) => First(h, q)
    BY <1>1, Opened DEF Alike
  <1>3. Renewed(q, d, variant)
    BY <1>1, <1>2, UnitIs
  <1> HIDE DEF d
  <1>4. /\ d \in Provider /\ d.hold = q.hold /\ d.wants = q.wants /\ FeedsOK(d, variant) /\ WindowOK(d)
        /\ \A h : First(h, q) => First(h, d)
    BY <1>3 DEF Renewed
  <1>5. Bounded(d.out, k.last)
    BY <1>2, <1>3 DEF Renewed
  <1>6. ASSUME d.hold # NoHold, d.wants, NEW in \in [Members -> Level], NEW again, NEW u \in SUBSET Keys
        PROVE  TellsValues(d, val, in, again) /\ TellsShape(d, variant, u)
    <2>1. TellsValues(q, val, in, again)
      BY <1>2 DEF TellsValues
    <2>2. q.hold # NoHold /\ q.wants
      BY <1>4, <1>6
    <2> QED BY <1>3, <1>6, <2>1, <2>2 DEF Renewed
  <1>7. \A h : First(h, p) => First(h, d)
    BY <1>2, <1>4
  <1>8. TracksOn(q, val, d, val)
    BY <1>3 DEF Renewed
  <1> QED BY <1>4, <1>5, <1>6, <1>7, <1>8 DEF d

LEMMA ServesHold ==
  ASSUME NEW p, ObjectOK(p), NEW l \in Nat, NEW msg \in Message, msg.t = "hold",
         Finds(Serving(p, l), msg), p.hold <= l, Bounded(p.out, l)
  PROVE  ServedOK(p, l, msg, Served(p, msg))
  <1> DEFINE k == Turned(Serving(p, l), msg)
             q == [p EXCEPT !.hold = msg.id, !.wants = msg.state, !.again = msg.again, !.unitSent = FALSE]
  <1>1. p \in Provider /\ FeedsOK(p, variant)
    BY DEF ObjectOK
  <1>2. p.hold = NoHold /\ msg.id > l
    BY <1>1, ServingIs DEF Finds
  <1>3. msg.id \in Nat /\ msg.state \in BOOLEAN /\ msg.again \in BOOLEAN
    BY DEF Message
  <1>4. /\ Alike(p, q) /\ q.processed = p.processed /\ q.hold = msg.id /\ q.wants = msg.state
    BY <1>1, <1>3 DEF Alike, Provider
  <1>5. k = [hold |-> msg.id, wants |-> msg.state, last |-> msg.id]
    BY DEF Turned
  <1>6. k \in Control /\ k.hold = msg.id /\ k.wants = msg.state /\ k.last = msg.id
    BY <1>3, <1>5 DEF Control
  <1>7. Fed(p) = {}
    BY <1>1, <1>2 DEF FeedsOK
  <1>8. Bounded(p.out, k.last)
    <2>1. \A i \in DOMAIN p.out : p.out[i].h \in Nat
      <3>1. p.out \in Seq(Frame)
        BY <1>1, ProviderIs
      <3>2. \A i \in DOMAIN p.out : p.out[i] \in Frame
        BY <3>1
      <3> QED BY <3>2, FrameIs
    <2> QED BY <1>2, <1>3, <1>6, <2>1 DEF Bounded
  <1>9. Served(p, msg) = Unit(q, variant)
    BY DEF Served
  <1>9a. \A m \in Members : \A v \in Level : Known(v) /\ v.n <= val[m] => Tracks(q, val, m, v)
    <2> SUFFICES ASSUME NEW m \in Members, NEW v \in Level, Known(v), v.n <= val[m] PROVE Tracks(q, val, m, v)
      OBVIOUS
    <2>1. \A i \in DOMAIN p.out : p.out[i].h \notin {msg.id}
      <3>1. p.out \in Seq(Frame)
        BY <1>1, ProviderIs
      <3>2. \A i \in DOMAIN p.out : p.out[i].h \in Nat
        BY <3>1, FrameIs
      <3> QED BY <1>2, <1>3, <3>2 DEF Bounded
    <2>2. Fold(Telling(m, {msg.id}), p.out, v) = v
      BY <1>1, <2>1, ProviderIs, ToldNothing
    <2>3. p.slots[m] = Idle /\ m \notin Fed(p) /\ q.out = p.out /\ q.slots = p.slots /\ q.feeds = p.feeds
      BY <1>1, <1>4, <1>7, UnfedIdle DEF Alike
    <2> HIDE DEF q
    <2>4. Trail(q, m, {q.hold}, v) = v
      BY <1>4, <2>2, <2>3, IdleThen DEF Trail
    <2>5. m \notin Fed(q)
      BY <2>3 DEF Fed
    <2> QED BY <2>4, <2>5 DEF Tracks
  <1> HIDE DEF q, k
  <1>10. q.hold <= k.last
    BY <1>3, <1>4, <1>6
  <1> DEFINE d == Unit(q, variant)
  <1>11. /\ d \in Provider /\ d.hold = k.hold /\ d.wants = k.wants
         /\ d.hold <= k.last /\ Bounded(d.out, k.last)
         /\ FeedsOK(d, variant) /\ WindowOK(d) /\ \A h : First(h, p) => First(h, d)
         /\ d.hold # NoHold /\ d.wants =>
              \A in \in [Members -> Level] : \A again : \A u \in SUBSET Keys :
                TellsValues(d, val, in, again) /\ TellsShape(d, variant, u)
         /\ TracksOn(q, val, d, val)
    BY <1>2, <1>4, <1>6, <1>7, <1>8, <1>10, UnitServes
  <1> HIDE DEF d
  <1>11a. \A m \in Members : \A v \in Level : Known(v) /\ v.n <= val[m] => Tracks(d, val, m, v)
    BY <1>9a, <1>11 DEF TracksOn
  <1>12. ServedOK(p, l, msg, d)
    BY <1>11, <1>11a DEF ServedOK, k
  <1> QED BY <1>9, <1>12 DEF d

LEMMA ServesSub ==
  ASSUME NEW p, ObjectOK(p), NEW l \in Nat, NEW msg \in Message, msg.t = "sub",
         Finds(Serving(p, l), msg), p.hold <= l, Bounded(p.out, l)
  PROVE  ServedOK(p, l, msg, Served(p, msg))
  <1> DEFINE s == Serving(p, l)
             k == Turned(s, msg)
             q == [p EXCEPT !.wants = TRUE]
  <1>1. p \in Provider /\ FeedsOK(p, variant)
    BY DEF ObjectOK
  <1>2. s \in Control /\ s.hold = p.hold /\ s.wants = p.wants /\ s.last = l
    BY <1>1, ServingIs
  <1>3. ~p.wants /\ p.hold # NoHold
    BY <1>2 DEF Finds
  <1>4. Alike(p, q) /\ q.processed = p.processed /\ q.hold = p.hold /\ q.wants = TRUE
    BY <1>1 DEF Alike, Provider
  <1>5. k = [s EXCEPT !.wants = TRUE]
    BY DEF Turned
  <1> HIDE DEF s
  <1>6. k \in Control /\ k.hold = p.hold /\ k.wants = TRUE /\ k.last = l
    BY <1>2, <1>5 DEF Control
  <1>7. Fed(p) = {}
    BY <1>1, <1>3 DEF FeedsOK
  <1>9. Served(p, msg) = Unit(q, variant)
    BY <1>3 DEF Served
  <1> HIDE DEF q, k
  <1> DEFINE d == Unit(q, variant)
  <1>11. /\ d \in Provider /\ d.hold = k.hold /\ d.wants = k.wants
         /\ d.hold <= k.last /\ Bounded(d.out, k.last)
         /\ FeedsOK(d, variant) /\ WindowOK(d) /\ \A h : First(h, p) => First(h, d)
         /\ d.hold # NoHold /\ d.wants =>
              \A in \in [Members -> Level] : \A again : \A u \in SUBSET Keys :
                TellsValues(d, val, in, again) /\ TellsShape(d, variant, u)
         /\ TracksOn(q, val, d, val)
    BY <1>4, <1>6, <1>7, UnitServes
  <1> HIDE DEF d
  <1>11a. TracksOn(p, val, d, val)
    BY <1>1, <1>4, <1>11, TracksAlike, TracksOnTwice
  <1>12. ServedOK(p, l, msg, d)
    BY <1>11, <1>11a DEF ServedOK, k, s
  <1> QED BY <1>9, <1>12 DEF d

LEMMA ServesEnd ==
  ASSUME NEW p, ObjectOK(p), NEW l \in Nat, NEW msg \in Message, msg.t \in {"release", "unsub"},
         p.hold <= l, Bounded(p.out, l)
  PROVE  ServedOK(p, l, msg, Served(p, msg))
  <1> DEFINE s == Serving(p, l)
             k == Turned(s, msg)
             d == Served(p, msg)
             z == [m \in Members |-> 0]
             e == Forget(p, Keys)
  <1>1. p \in Provider /\ p \in Sender /\ p.hold \in Nat
    BY ProviderIs DEF ObjectOK
  <1>2. s \in Control /\ s.hold = p.hold /\ s.wants = p.wants /\ s.last = l
    BY <1>1, ServingIs
  <1>3. d = IF msg.t = "release" THEN [e EXCEPT !.hold = NoHold, !.feeds = z]
            ELSE [e EXCEPT !.wants = FALSE, !.feeds = z]
    BY DEF Served, Unserved
  <1>4. Kept(p, e) /\ e.out = p.out
    BY <1>1, ForgetIs
  <1> HIDE DEF e
  <1>5. e \in Provider /\ e.hold = p.hold /\ e.wants = p.wants
    BY <1>1, <1>4 DEF Kept
  <1>6. z \in [Members -> Nat] /\ \A m \in Members : z[m] = 0
    OBVIOUS
  <1> HIDE DEF z
  <1>7. /\ d \in Provider /\ d.out = e.out /\ d.order = e.order /\ d.slots = e.slots /\ d.feeds = z
        /\ d.hold = (IF msg.t = "release" THEN NoHold ELSE e.hold)
        /\ (msg.t = "unsub" => d.wants = FALSE) /\ (msg.t = "release" => d.wants = e.wants)
    <2>1. CASE msg.t = "release"
      <3> DEFINE x == [e EXCEPT !.hold = NoHold, !.feeds = z]
      <3>1. d = x
        BY <1>3, <2>1
      <3>2. x \in Provider /\ x.hold = NoHold
        BY <1>5, <1>6 DEF Provider, NoHold
      <3>3. x.out = e.out /\ x.order = e.order /\ x.slots = e.slots /\ x.feeds = z /\ x.wants = e.wants
        BY <1>5 DEF Provider
      <3> HIDE DEF x, d
      <3> QED BY <2>1, <3>1, <3>2, <3>3
    <2>2. CASE msg.t = "unsub"
      <3> DEFINE x == [e EXCEPT !.wants = FALSE, !.feeds = z]
      <3>1. d = x
        BY <1>3, <2>2
      <3>2. x \in Provider
        BY <1>5, <1>6 DEF Provider
      <3>3. x.wants = FALSE
        BY <1>5 DEF Provider
      <3>4. x.out = e.out /\ x.order = e.order /\ x.slots = e.slots /\ x.feeds = z /\ x.hold = e.hold
        BY <1>5 DEF Provider
      <3> HIDE DEF x, d
      <3> QED BY <2>2, <3>1, <3>2, <3>3, <3>4
    <2> QED BY <2>1, <2>2
  <1> HIDE DEF d
  <1>8. FeedsOK(d, variant) /\ WindowOK(d) /\ \A h : First(h, p) => First(h, d)
    <2>1. /\ p \in Provider /\ d \in Provider /\ d.out = p.out /\ d.order = Forget(p, Keys).order
          /\ d.slots = Forget(p, Keys).slots /\ \A m \in Members : d.feeds[m] = 0
      BY <1>1, <1>4, <1>6, <1>7 DEF e
    <2> QED BY <2>1, Ended
  <1>9. k.hold = d.hold /\ k.wants = d.wants /\ k.last = l
    <2>1. k = IF msg.t = "release" THEN [s EXCEPT !.hold = NoHold] ELSE [s EXCEPT !.wants = FALSE]
      BY DEF Turned
    <2> HIDE DEF s
    <2> QED BY <1>2, <1>5, <1>7, <2>1 DEF Control
  <1> HIDE DEF k
  <1>10. d.hold <= k.last /\ Bounded(d.out, k.last)
    BY <1>1, <1>4, <1>5, <1>7, <1>9 DEF NoHold
  <1>11. ~(d.hold # NoHold /\ d.wants)
    BY <1>7
  <1>12. ServedOK(p, l, msg, d)
    BY <1>7, <1>8, <1>9, <1>10, <1>11 DEF ServedOK, k, s
  <1> QED BY <1>12 DEF d

LEMMA ServesResync ==
  ASSUME NEW p, ObjectOK(p), NEW l \in Nat, NEW msg \in Message, msg.t = "resync",
         p.hold <= l, Bounded(p.out, l)
  PROVE  ServedOK(p, l, msg, Served(p, msg))
  <1> DEFINE k == Turned(Serving(p, l), msg)
  <1>1. /\ p \in Provider /\ val \in [Members -> Nat] /\ variant \in SUBSET Members
        /\ FeedsOK(p, variant) /\ WindowOK(p)
    BY DEF ObjectOK
  <1>2. k.hold = p.hold /\ k.wants = p.wants /\ k.last = l
    BY <1>1, ServingIs DEF Turned
  <1>3. msg.m \in Members
    BY DEF Message
  <1> HIDE DEF k
  <1>3a. ASSUME NEW d, d \in Provider, d.hold = k.hold, d.wants = k.wants, d.hold <= k.last,
                Bounded(d.out, k.last), FeedsOK(d, variant), WindowOK(d), \A h : First(h, p) => First(h, d),
                d.hold # NoHold /\ d.wants =>
                  \A in \in [Members -> Level] : \A again : \A u \in SUBSET Keys :
                    TellsValues(p, val, in, {msg.m} \cup again) /\ TellsShape(p, variant, u)
                      => TellsValues(d, val, in, again) /\ TellsShape(d, variant, u),
                TracksOn(p, val, d, val)
         PROVE  ServedOK(p, l, msg, d)
    BY <1>3a DEF ServedOK, k
  <1>4. CASE p.feeds[msg.m] = 0
    <2>1. Served(p, msg) = p
      BY <1>4 DEF Served
    <2>2. ASSUME NEW in, NEW again, TellsValues(p, val, in, {msg.m} \cup again)
          PROVE  TellsValues(p, val, in, again)
      <3>1. msg.m \notin Fed(p)
        BY <1>4 DEF Fed
      <3> QED BY <2>2, <3>1 DEF TellsValues
    <2>3. ServedOK(p, l, msg, p)
      BY <1>1, <1>2, <1>3a, <2>2, TracksOnIs
    <2> QED BY <2>1, <2>3
  <1>5. CASE p.feeds[msg.m] # 0
    <2> DEFINE q == [Queued(p, msg.m) EXCEPT !.slots[msg.m] = Lazy]
               d == Flush(q, variant)
    <2>1. Served(p, msg) = d
      BY <1>5 DEF Served
    <2>2. msg.m \in Fed(p)
      BY <1>3, <1>5 DEF Fed
    <2>3. /\ q \in Provider /\ q.out = p.out /\ q.hold = p.hold /\ q.wants = p.wants
          /\ FeedsOK(q, variant) /\ \A h : First(h, p) => First(h, q)
          /\ \A n : \A in \in [Members -> Level] : \A again : \A again2 :
               again \subseteq again2 \cup {msg.m} /\ TellsValues(p, n, in, again)
                 => TellsValues(q, n, in, again2)
          /\ \A u : TellsShape(p, variant, u) => TellsShape(q, variant, u)
          /\ TracksOn(p, val, q, val)
      BY <1>1, <2>2, Lazied
    <2> HIDE DEF q
    <2>4. Steady(q, d, variant) /\ WindowOK(d)
      BY <1>1, <2>3, ProviderFlush
    <2> HIDE DEF d
    <2>5. /\ d \in Provider /\ d.hold = p.hold /\ d.wants = p.wants /\ FeedsOK(d, variant)
          /\ \A h : First(h, p) => First(h, d)
          /\ Bounded(d.out, l)
      BY <2>3, <2>4 DEF Steady
    <2>6. ASSUME d.wants, NEW in \in [Members -> Level], NEW again, NEW u \in SUBSET Keys,
                 TellsValues(p, val, in, {msg.m} \cup again), TellsShape(p, variant, u)
          PROVE  TellsValues(d, val, in, again) /\ TellsShape(d, variant, u)
      <3>1. TellsValues(q, val, in, again)
        <4>1. {msg.m} \cup again \subseteq again \cup {msg.m}
          OBVIOUS
        <4> QED BY <2>3, <2>6, <4>1
      <3>2. TellsShape(q, variant, u)
        BY <2>3, <2>6
      <3>3. q.wants
        BY <2>3, <2>5, <2>6
      <3> QED BY <2>4, <2>6, <3>1, <3>2, <3>3 DEF Steady
    <2>6a. TracksOn(p, val, d, val)
      BY <2>3, <2>4, TracksOnTwice DEF Steady
    <2>7. ServedOK(p, l, msg, d)
      BY <1>2, <1>3a, <2>4, <2>5, <2>6, <2>6a
    <2> QED BY <2>1, <2>7
  <1> QED BY <1>4, <1>5

\* The parts of the invariant.
LEMMA IInvIs ==
  ASSUME IInv
  PROVE  /\ ObjectOK(prov) /\ prov \in Provider /\ val \in [Members -> Nat] /\ variant \in SUBSET Members
         /\ variant \in Variants /\ invalid \in SUBSET Members
         /\ relay \in Relay /\ relay.dropped = {} /\ RelayOK(relay) /\ SlotsOK(relay)
         /\ cons \in Consumer /\ ConsOK(cons)
         /\ asked \in Seq(Message) /\ passed \in Seq(Message) /\ events \in Nat /\ events \in 0..MaxEvents
         /\ ShapeFirst /\ RequestsOK /\ Current
         /\ Inbound(cons, relay) \in [Members -> Level] /\ ShapeIn(cons, relay) \in SUBSET Keys
  <1>1. /\ prov \in Provider /\ val \in [Members -> Nat] /\ variant \in SUBSET Members
        /\ invalid \in SUBSET Members
        /\ relay \in Relay /\ relay.dropped = {} /\ cons \in Consumer /\ variant \in Variants
        /\ asked \in Seq(Message) /\ passed \in Seq(Message) /\ events \in Nat /\ events \in 0..MaxEvents
    BY BoundsAssumption DEF IInv, TypeOK, Members
  <1>2. ObjectOK(prov) /\ RelayOK(relay) /\ SlotsOK(relay) /\ ConsOK(cons)
    BY <1>1 DEF IInv, ObjectOK, ProvOK, RelayOK
  <1>3. Inbound(cons, relay) \in [Members -> Level]
    BY <1>1, <1>2, PassingIs
  <1>4. ShapeIn(cons, relay) \in SUBSET Keys
    <2>1. relay.out \in Seq(Frame)
      BY <1>1, RelayIs
    <2>2. ShapeOf(cons) \in SUBSET Keys
      BY <1>1, ConsumerIs DEF ShapeOf, NoShape, Keys
    <2> QED BY <2>1, <2>2, FoldTypes DEF ShapeIn
  <1> QED BY <1>1, <1>2, <1>3, <1>4 DEF IInv

LEMMA QuietIs ==
  ASSUME IInv, Quiet
  PROVE  /\ prov.hold = cons.hold /\ relay.hold = cons.hold /\ prov.hold # NoHold /\ prov.wants
         /\ TellsValues(prov, val, Inbound(cons, relay), AskedAgain(passed))
         /\ TellsShape(prov, variant, ShapeIn(cons, relay))
  <1>1. PICK l \in Nat : Agree(l, prov, relay, cons, passed, asked, events)
    BY IInvIs DEF RequestsOK
  <1>2. /\ cons.hold # NoHold /\ cons.wish /\ asked = <<>>
        /\ \A i \in DOMAIN passed : passed[i].t = "resync"
    BY DEF Quiet
  <1>3. prov \in Provider /\ passed \in Seq(Message) /\ Current
    BY IInvIs
  <1>4. prov.hold = cons.hold /\ relay.hold = cons.hold /\ prov.wants = cons.wish
    BY <1>1, <1>2, <1>3, AgreeQuiet
  <1> QED BY <1>2, <1>3, <1>4 DEF Current

LEMMA ServesIs ==
  ASSUME IInv, ProviderServes, NEW l \in Nat, Agree(l, prov, relay, cons, passed, asked, events)
  PROVE  LET msg == Head(passed) IN
         msg \in Message /\ Finds(Serving(prov, l), msg) /\ ServedOK(prov, l, msg, prov')
  <1> DEFINE msg == Head(passed)
             d == Served(prov, msg)
  <1>1. passed # <<>> /\ prov' = d
    BY DEF ProviderServes
  <1>2. /\ prov \in Provider /\ asked \in Seq(Message) /\ passed \in Seq(Message) /\ events \in Nat
        /\ ObjectOK(prov)
    BY IInvIs
  <1>3. msg \in Message
    BY <1>1, <1>2, HeadTailProperties
  <1> HIDE DEF d
  <1>4. Finds(Serving(prov, l), msg)
    BY <1>1, <1>2, AgreeServed
  <1>5. prov.hold <= l /\ Bounded(prov.out, l)
    BY DEF Agree
  <1> HIDE DEF msg
  <1>6. ServedOK(prov, l, msg, d)
    <2>1. msg.t \in {"hold", "release", "sub", "unsub", "resync"}
      BY <1>3 DEF Message
    <2>2. CASE msg.t = "hold"
      BY <1>2, <1>3, <1>4, <1>5, <2>2, ServesHold DEF d
    <2>3. CASE msg.t = "sub"
      BY <1>2, <1>3, <1>4, <1>5, <2>3, ServesSub DEF d
    <2>4. CASE msg.t \in {"release", "unsub"}
      BY <1>2, <1>3, <1>5, <2>4, ServesEnd DEF d
    <2>5. CASE msg.t = "resync"
      BY <1>2, <1>3, <1>5, <2>5, ServesResync DEF d
    <2> QED BY <2>1, <2>2, <2>3, <2>4, <2>5
  <1> QED BY <1>1, <1>3, <1>4, <1>6 DEF msg

LEMMA ProviderServesKeeps == ASSUME IInv, ProviderServes PROVE IInv'
  <1> DEFINE msg == Head(passed)
             d == Served(prov, msg)
  <1>1. /\ passed # <<>> /\ prov' = d /\ passed' = Tail(passed)
        /\ val' = val /\ invalid' = invalid /\ variant' = variant /\ relay' = relay /\ cons' = cons
        /\ asked' = asked /\ events' = events
    BY DEF ProviderServes
  <1>2. /\ prov \in Provider /\ asked \in Seq(Message) /\ passed \in Seq(Message) /\ events \in Nat
        /\ ObjectOK(prov)
    BY IInvIs
  <1>3. msg \in Message /\ passed' \in Seq(Message)
    BY <1>1, <1>2, HeadTailProperties
  <1>4. PICK l \in Nat : Agree(l, prov, relay, cons, passed, asked, events)
    BY IInvIs DEF RequestsOK
  <1> DEFINE k == Turned(Serving(prov, l), msg)
  <1>5. /\ Finds(Serving(prov, l), msg) /\ k \in Control /\ k.last >= l
        /\ \A p2 : p2.hold = k.hold /\ p2.wants = k.wants /\ p2.hold <= k.last /\ Bounded(p2.out, k.last)
                     => Agree(k.last, p2, relay, cons, Tail(passed), asked, events)
    <2> HIDE DEF d
    <2> QED BY <1>1, <1>2, <1>4, AgreeServed
  <1>6. ServedOK(prov, l, msg, prov')
    BY <1>4, ServesIs
  <1> HIDE DEF d, k, msg
  <1>7. ServedOK(prov, l, msg, d)
    BY <1>1, <1>6
  <1>8. /\ d \in Provider /\ d.hold = k.hold /\ d.wants = k.wants
        /\ d.hold <= k.last /\ Bounded(d.out, k.last)
        /\ FeedsOK(d, variant) /\ WindowOK(d) /\ \A h : First(h, prov) => First(h, d)
        /\ d.hold # NoHold /\ d.wants =>
             \A in \in [Members -> Level] : \A again : \A u \in SUBSET Keys :
               (msg.t = "resync" => /\ TellsValues(prov, val, in, {msg.m} \cup again)
                                    /\ TellsShape(prov, variant, u))
                 => TellsValues(d, val, in, again) /\ TellsShape(d, variant, u)
    BY <1>7 DEF ServedOK, k
  <1>9. Agree(k.last, d, relay, cons, passed', asked, events)
    BY <1>1, <1>5, <1>8
  <1>10. k.last \in Nat
    BY <1>5 DEF Control
  <1>11. TypeOK'
    BY <1>1, <1>3, <1>8 DEF IInv, TypeOK
  <1>12. RequestsOK'
    <2>1. \E j \in Nat : Agree(j, prov', relay', cons', passed', asked', events')
      BY <1>1, <1>9, <1>10
    <2> QED BY <1>1, <2>1 DEF IInv, RequestsOK
  <1>13. ShapeFirst'
    BY <1>1, <1>8 DEF IInv, ShapeFirst
  <1>14. ProvOK(prov, variant)' /\ RelayOK(relay)' /\ ConsOK(cons)'
    BY <1>1, <1>8 DEF IInv, ProvOK
  <1>15. Current'
    <2> SUFFICES ASSUME Quiet'
                 PROVE  /\ TellsValues(d, val, Inbound(cons, relay), AskedAgain(passed'))
                        /\ TellsShape(d, variant, ShapeIn(cons, relay))
      BY <1>1 DEF Current
    <2>1. /\ cons.hold # NoHold /\ cons.wish /\ cons.status # "ended" /\ asked = <<>>
          /\ \A i \in DOMAIN passed' : passed'[i].t = "resync"
      BY <1>1 DEF Quiet
    <2>2. d.hold # NoHold /\ d.wants
      <3>1. d.hold = cons.hold /\ d.wants = cons.wish
        BY <1>3, <1>8, <1>9, <1>10, <2>1, AgreeQuiet
      <3> QED BY <2>1, <3>1
    <2>3. ASSUME msg.t = "resync"
          PROVE  /\ TellsValues(prov, val, Inbound(cons, relay), {msg.m} \cup AskedAgain(passed'))
                 /\ TellsShape(prov, variant, ShapeIn(cons, relay))
      <3>1. \A i \in DOMAIN passed : passed[i] = IF i = 1 THEN msg ELSE passed'[i - 1]
        BY <1>1, <1>2 DEF msg
      <3>2. \A i \in DOMAIN passed : i # 1 => i - 1 \in DOMAIN passed'
        BY <1>1, <1>2
      <3>3. \A i \in DOMAIN passed : passed[i].t = "resync"
        BY <2>1, <2>3, <3>1, <3>2
      <3>4. Quiet
        BY <2>1, <3>3 DEF Quiet
      <3>5. AskedAgain(passed) \subseteq {msg.m} \cup AskedAgain(passed')
        <4> SUFFICES ASSUME NEW m \in Members, NEW i \in DOMAIN passed, passed[i] = Resync(m),
                            m # msg.m
                     PROVE  m \in AskedAgain(passed')
          BY DEF AskedAgain
        <4>1. i # 1
          BY <3>1 DEF Resync, Request
        <4>2. passed'[i - 1] = Resync(m) /\ i - 1 \in DOMAIN passed'
          BY <3>1, <3>2, <4>1
        <4> QED BY <4>2 DEF AskedAgain
      <3>6. /\ TellsValues(prov, val, Inbound(cons, relay), AskedAgain(passed))
            /\ TellsShape(prov, variant, ShapeIn(cons, relay))
        BY <3>4, QuietIs
      <3>7. \A m \in Members : Leq(Inbound(cons, relay)[m], Inbound(cons, relay)[m])
        BY DEF Leq
      <3>8. TellsValues(prov, val, Inbound(cons, relay), {msg.m} \cup AskedAgain(passed'))
        BY <3>5, <3>6 DEF TellsValues
      <3> QED BY <3>6, <3>8
    <2>4. Inbound(cons, relay) \in [Members -> Level] /\ ShapeIn(cons, relay) \in SUBSET Keys
      BY IInvIs
    <2> QED BY <1>8, <2>2, <2>3, <2>4
  <1> QED BY <1>11, <1>12, <1>13, <1>14, <1>15 DEF IInv

\* A step of the object or the provider that no request makes.
LEMMA ProviderMoves ==
  ASSUME IInv, UNCHANGED <<relay, cons, asked, passed>>,
         val' \in [Members -> Nat], invalid' \in SUBSET Members, variant' \in Variants,
         events' \in 0..MaxEvents, events <= events',
         prov' \in Provider, prov'.hold = prov.hold, prov'.wants = prov.wants,
         FeedsOK(prov', variant'), WindowOK(prov'), \A h : First(h, prov) => First(h, prov'),
         \A l : prov.hold <= l /\ Bounded(prov.out, l) => Bounded(prov'.out, l),
         prov.hold # NoHold /\ prov.wants =>
           \A in \in [Members -> Level] : \A again : \A u \in SUBSET Keys :
             TellsValues(prov, val, in, again) /\ TellsShape(prov, variant, u)
               => TellsValues(prov', val', in, again) /\ TellsShape(prov', variant', u)
  PROVE  IInv'
  <1>1. /\ relay' = relay /\ cons' = cons /\ asked' = asked /\ passed' = passed
        /\ prov \in Provider /\ asked \in Seq(Message) /\ passed \in Seq(Message) /\ events \in Nat
    BY IInvIs
  <1>2. events' \in Nat
    BY BoundsAssumption
  <1>3. PICK l \in Nat : Agree(l, prov, relay, cons, passed, asked, events)
    BY IInvIs DEF RequestsOK
  <1>4. Agree(l, prov', relay', cons', passed', asked', events')
    <2>1. Bounded(prov'.out, l)
      BY <1>3 DEF Agree
    <2>2. <<>> \in Seq(Message) /\ \A i \in DOMAIN <<>> : <<>>[i].t = "resync"
      OBVIOUS
    <2>3. Agree(l, prov', relay, cons, passed \o <<>>, asked, events')
      BY <1>1, <1>2, <1>3, <2>1, <2>2, AgreeStays
    <2>4. passed \o <<>> = passed
      BY <1>1
    <2> QED BY <1>1, <2>3, <2>4
  <1>5. TypeOK'
    BY <1>1 DEF IInv, TypeOK
  <1>6. RequestsOK'
    <2>1. \E j \in Nat : Agree(j, prov', relay', cons', passed', asked', events')
      BY <1>4
    <2> QED BY <1>1, <2>1 DEF IInv, RequestsOK
  <1>7. ShapeFirst' /\ ProvOK(prov, variant)' /\ RelayOK(relay)' /\ ConsOK(cons)'
    BY <1>1 DEF IInv, ShapeFirst, ProvOK
  <1>8. Current'
    <2> SUFFICES ASSUME Quiet'
                 PROVE  /\ TellsValues(prov', val', Inbound(cons, relay), AskedAgain(passed))
                        /\ TellsShape(prov', variant', ShapeIn(cons, relay))
      BY <1>1 DEF Current
    <2>1. Quiet
      BY <1>1 DEF Quiet
    <2>2. /\ prov.hold # NoHold /\ prov.wants
          /\ TellsValues(prov, val, Inbound(cons, relay), AskedAgain(passed))
          /\ TellsShape(prov, variant, ShapeIn(cons, relay))
      BY <2>1, QuietIs
    <2>3. Inbound(cons, relay) \in [Members -> Level] /\ ShapeIn(cons, relay) \in SUBSET Keys
      BY IInvIs
    <2> QED BY <2>2, <2>3
  <1> QED BY <1>5, <1>6, <1>7, <1>8 DEF IInv

LEMMA ProviderHearsAckKeeps == ASSUME IInv, ProviderHearsAck PROVE IInv'
  <1> DEFINE q == [prov EXCEPT !.processed = 0]
             d == Flush(q, variant)
  <1>1. /\ prov' = d /\ UNCHANGED <<invalid, relay, cons, asked, passed>>
        /\ val' = val /\ variant' = variant /\ events' = events
    BY DEF ProviderHearsAck
  <1>2. /\ prov \in Provider /\ val \in [Members -> Nat] /\ variant \in SUBSET Members
        /\ variant \in Variants /\ events \in 0..MaxEvents /\ events \in Nat /\ FeedsOK(prov, variant)
    BY IInvIs DEF ObjectOK
  <1>3. Alike(prov, q) /\ q.hold = prov.hold /\ q.wants = prov.wants
    BY <1>2 DEF Alike, Provider
  <1> HIDE DEF q
  <1>4. q \in Provider /\ q.out = prov.out
    BY <1>3 DEF Alike
  <1>5. FeedsOK(q, variant) /\ \A h : First(h, prov) => First(h, q)
    BY <1>2, <1>3, AlikeIs
  <1>6. Steady(q, d, variant) /\ WindowOK(d)
    BY <1>2, <1>4, <1>5, ProviderFlush
  <1> HIDE DEF d
  <1>7. /\ d \in Provider /\ d.hold = prov.hold /\ d.wants = prov.wants /\ FeedsOK(d, variant)
        /\ \A h : First(h, prov) => First(h, d)
        /\ \A l : prov.hold <= l /\ Bounded(prov.out, l) => Bounded(d.out, l)
    BY <1>3, <1>4, <1>5, <1>6 DEF Steady
  <1>8. ASSUME prov.wants, NEW in \in [Members -> Level], NEW again, NEW u \in SUBSET Keys,
               TellsValues(prov, val, in, again), TellsShape(prov, variant, u)
        PROVE  TellsValues(d, val, in, again) /\ TellsShape(d, variant, u)
    <2>1. TellsValues(q, val, in, again) /\ TellsShape(q, variant, u) /\ q.wants
      BY <1>2, <1>3, <1>8, AlikeIs
    <2> QED BY <1>6, <1>8, <2>1 DEF Steady
  <1>9. events <= events' /\ events' \in 0..MaxEvents
    BY <1>1, <1>2
  <1>10. invalid' \in SUBSET Members
    BY <1>1, IInvIs
  <1> QED BY <1>1, <1>2, <1>6, <1>7, <1>8, <1>9, <1>10, ProviderMoves

LEMMA ReshapeKeeps == ASSUME IInv, NEW vs \in Variants, Reshape(vs) PROVE IInv'
  <1> DEFINE d == Unit(prov, vs)
  <1>1. /\ prov' = d /\ UNCHANGED <<invalid, relay, cons, asked, passed>> /\ events < MaxEvents
        /\ val' = val /\ variant' = vs /\ events' = events + 1
    BY DEF Reshape
  <1>2. /\ prov \in Provider /\ val \in [Members -> Nat] /\ variant \in SUBSET Members
        /\ events \in 0..MaxEvents /\ events \in Nat /\ FeedsOK(prov, variant) /\ WindowOK(prov)
    BY IInvIs DEF ObjectOK
  <1>3. vs \in SUBSET Members
    BY DEF Members
  <1>4. FeedsOK(prov, Members)
    <2>1. Fed(prov) \subseteq Members
      BY DEF Fed
    <2> QED BY <1>2, <2>1 DEF FeedsOK
  <1>5. Renewed(prov, d, vs)
    BY <1>2, <1>3, <1>4, UnitIs
  <1> HIDE DEF d
  <1>6. /\ d \in Provider /\ d.hold = prov.hold /\ d.wants = prov.wants /\ FeedsOK(d, vs) /\ WindowOK(d)
        /\ \A h : First(h, prov) => First(h, d)
        /\ \A l : prov.hold <= l /\ Bounded(prov.out, l) => Bounded(d.out, l)
        /\ prov.hold # NoHold /\ prov.wants =>
             \A in \in [Members -> Level] : \A again : \A u \in SUBSET Keys :
               TellsValues(prov, val, in, again) => TellsValues(d, val, in, again) /\ TellsShape(d, vs, u)
    BY <1>5 DEF Renewed
  <1>7. events <= events' /\ events' \in 0..MaxEvents
    BY <1>1, <1>2, BoundsAssumption
  <1>8. invalid' \in SUBSET Members
    BY <1>1, IInvIs
  <1> QED BY <1>1, <1>2, <1>6, <1>7, <1>8, ProviderMoves

LEMMA SendsReach ==
  ASSUME NEW c, NEW d, NEW f, NEW K, Sends(c, d, f, K), NEW hs, c.hold \in hs,
         NEW v \in Level, NEW m \in Members
  PROVE  /\ Known(Reach(c, m, hs, v)) => Known(Reach(d, m, hs, v))
         /\ m \notin K => Reach(d, m, hs, v) = IF m = f.m THEN Heard(Reach(c, m, hs, v), m, f)
                                               ELSE Reach(c, m, hs, v)
  BY DEF Sends

\* A member changes: its value, and what its feed sends.
Changes(prv, p, m, as, x, n, n2, f) ==
  /\ m \in Fed(prv) /\ as \in {"ops", "reset"} /\ x \in Nat \ {0}
  /\ as = "ops" => x = prv.feeds[m]
  /\ p \in Provider /\ p.hold = prv.hold /\ p.wants = prv.wants
  /\ p.out = prv.out /\ p.order = prv.order /\ p.slots = prv.slots /\ p.processed = prv.processed
  /\ p.feeds = [prv.feeds EXCEPT ![m] = x]
  /\ n \in [Members -> Nat] /\ n2 = [n EXCEPT ![m] = @ + 1]
  /\ f \in Frame /\ f.t = "state" /\ f.h = p.hold /\ f.m = m /\ (f.as = "ops" <=> as = "ops")
  /\ as = "ops" => f.ops = <<[s |-> x, n |-> n[m] + 1]>>
  /\ as = "reset" => Anew(f, p.hold, m, x, n[m] + 1)
Changed(prv, d, vs, n, n2) ==
  /\ d \in Provider /\ d.hold = prv.hold /\ d.wants = prv.wants
  /\ FeedsOK(d, vs) /\ WindowOK(d) /\ \A h : First(h, prv) => First(h, d)
  /\ \A l : prv.hold <= l /\ Bounded(prv.out, l) => Bounded(d.out, l)
  /\ \A in \in [Members -> Level] : \A again :
       TellsValues(prv, n, in, again) => TellsValues(d, n2, in, again)
  /\ \A u \in SUBSET Keys : TellsShape(prv, vs, u) => TellsShape(d, vs, u)
  /\ TracksOn(prv, n, d, n2)

LEMMA SendsTrail ==
  ASSUME NEW c, NEW d, NEW f, NEW K, Sends(c, d, f, K), NEW hs, c.hold \in hs,
         NEW v \in Level, NEW m \in Members
  PROVE  /\ m \in K => Later(Trail(d, m, hs, v), Trail(c, m, hs, v))
         /\ m \notin K => IF m = f.m THEN Bears(Told(Trail(c, m, hs, v), m, f), Trail(d, m, hs, v))
                          ELSE Trail(d, m, hs, v) = Trail(c, m, hs, v)
  <1>1. Carries(c, d, f, K)
    BY DEF Sends
  <1> QED BY <1>1 DEF Carries

\* What bears what is known, up to n, is known up to n, and absent if it is not it.
LEMMA BearsKnown ==
  ASSUME NEW v \in Level, NEW w \in Level, Bears(v, w), Known(v), NEW n \in Nat, v.n <= n
  PROVE  Known(w) /\ w.n <= n /\ (w = v \/ w.s = 0)
  <1>1. v.n \in Nat /\ w.n \in Nat
    BY DEF Level, Value, Unknown
  <1>2. CASE w = v
    BY <1>2
  <1>3. CASE w # v
    <2>1. w.s = 0 /\ w.n <= v.n
      BY <1>3 DEF Bears
    <2> QED BY <1>1, <2>1 DEF Known
  <1> QED BY <1>2, <1>3

LEMMA ChangeSends ==
  ASSUME NEW prv \in Provider, NEW vs \in SUBSET Members, FeedsOK(prv, vs), WindowOK(prv),
         NEW m, NEW as, NEW x, NEW p, NEW n, NEW n2, NEW f, Changes(prv, p, m, as, x, n, n2, f)
  PROVE  Changed(prv, SendState(p, f), vs, n, n2)
  <1> DEFINE d == SendState(p, f)
             at == [s |-> x, n |-> n[m] + 1]
  <1>0. /\ m \in Fed(prv) /\ as \in {"ops", "reset"} /\ x \in Nat \ {0}
        /\ (as = "ops" => x = prv.feeds[m])
        /\ p \in Provider /\ p.hold = prv.hold /\ p.wants = prv.wants
        /\ p.out = prv.out /\ p.order = prv.order /\ p.slots = prv.slots /\ p.processed = prv.processed
        /\ p.feeds = [prv.feeds EXCEPT ![m] = x]
        /\ n \in [Members -> Nat] /\ n2 = [n EXCEPT ![m] = @ + 1]
        /\ f \in Frame /\ f.t = "state" /\ f.h = p.hold /\ f.m = m /\ (f.as = "ops" <=> as = "ops")
        /\ (as = "ops" => f.ops = <<[s |-> x, n |-> n[m] + 1]>>)
        /\ (as = "reset" => Anew(f, p.hold, m, x, n[m] + 1))
    BY DEF Changes
  <1>1. /\ m \in Members /\ m \in Keys /\ prv.feeds \in [Members -> Nat] /\ prv.hold \in Nat
        /\ p \in Sender /\ p.provides /\ m # "unit" /\ prv.out \in Seq(Frame) /\ n[m] \in Nat
        /\ Fed(prv) \in SUBSET Members
    BY <1>0, ProviderIs, MembersAssumption DEF Keys
  <1>2. Fed(p) = Fed(prv) /\ \A k : Waits(p, k) <=> Waits(prv, k)
    BY <1>0, <1>1 DEF Fed, Waits
  <1>3. SlotsOK(p) /\ WindowOK(p)
    BY <1>0, <1>2 DEF FeedsOK, SlotsOK, WindowOK, Full
  <1>4. at \in Edit /\ at \in Value /\ at.s # 0
    BY <1>0, <1>1 DEF Edit, Value
  <1>6. f \in Frame /\ f.t = "state" /\ f.h = p.hold /\ f.m = m /\ (f.as = "ops" <=> as = "ops")
        /\ (as = "ops" => f.ops = <<at>>)
    BY <1>0
  <1>6a. ASSUME as = "reset", NEW v \in Level, Known(v)
         PROVE  /\ f.as # "ops" /\ Heard(v, m, f) \in {Failed, at}
                /\ v.n <= n[m] + 1 => Renews(Told(v, m, f), x, n[m] + 1)
    <2>1. x \in Nat /\ n[m] + 1 \in Nat /\ Anew(f, p.hold, m, x, n[m] + 1)
      BY <1>0, <1>1, <1>6a
    <2>2. /\ Heard(v, m, f) = f.at /\ f.at \in {Failed, [s |-> x, n |-> n[m] + 1]}
          /\ v.n <= n[m] + 1 => Renews(Told(v, m, f), x, n[m] + 1)
      BY <1>6a, <2>1, AnewIs
    <2> QED BY <1>6, <1>6a, <2>2
  <1>7. PICK K \in SUBSET Members : Sends(p, d, f, K)
    <2> HIDE DEF d
    <2>1. \E K \in SUBSET Members : Sends(p, SendState(p, f), f, K)
      BY <1>0, <1>1, <1>3, <1>6, SendStateIs
    <2> QED BY <1>0, <2>1 DEF d
  <1> HIDE DEF d, at
  <1>8. /\ p.order = <<>> => d.order = <<>> \/ Full(p)
        /\ Waits(p, "unit") => Waits(d, "unit")
        /\ \A k : Waits(d, k) => Waits(p, k) \/ k = m
    BY <1>0, <1>6, <1>7 DEF Sends
  <1>8a. SlotsOK(d) /\ Kept(p, d) /\ (d.out = p.out \/ d.out = Append(p.out, f))
    BY <1>0, <1>7 DEF Sends
  <1>9. /\ d \in Provider /\ d \in Sender /\ d.hold = prv.hold /\ d.wants = prv.wants /\ d.feeds = p.feeds
        /\ d.processed = p.processed
    BY <1>0, <1>8a, ProviderIs DEF Kept
  <1>10. Fed(d) = Fed(prv)
    BY <1>0, <1>2, <1>9 DEF Fed
  <1>11. FeedsOK(d, vs)
    <2>1. \A k : Waits(d, k) => Waits(prv, k) \/ k = m
      BY <1>0, <1>2, <1>8
    <2> QED BY <1>0, <1>1, <1>8a, <1>9, <1>10, <2>1 DEF FeedsOK
  <1>12. WindowOK(d)
    <2>1. ASSUME Full(p) PROVE Full(d)
      <3>1. p \in Sender /\ d \in Sender /\ f \in Frame /\ d.processed = p.processed
        BY <1>0, <1>1, <1>6, <1>9
      <3> QED BY <1>0, <1>8a, <2>1, <3>1, FullStays
    <2>2. d.order # <<>> => Full(p)
      BY <1>0, <1>3, <1>8, <2>1 DEF WindowOK
    <2> QED BY <1>0, <2>1, <2>2 DEF WindowOK
  <1>13. ASSUME NEW h, First(h, prv) PROVE First(h, d)
    <2> DEFINE s == Fold(Seen(h), prv.out, 0)
               t == Fold(Seen(h), d.out, 0)
    <2>1. s # 2 /\ (s = 0 => prv.hold # h) /\ s \in 0..2
      <3>1. Fold(Seen(h), prv.out, 0) \in 0..2
        BY <1>0, <1>1, FoldTypes
      <3> QED BY <1>0, <1>13, <3>1 DEF First
    <2>2. h # prv.hold \/ s = 1
      <3> HIDE DEF s
      <3> QED BY <1>0, <2>1
    <2>3. d.out = prv.out \/ d.out = Append(prv.out, f)
      BY <1>0, <1>8a
    <2>4. Sent(prv.out, Append(prv.out, f), f.h)
      BY <1>0, <1>1, <1>6, SentOne
    <2>5. t = s
      BY <1>0, <1>6, <2>2, <2>3, <2>4 DEF Sent
    <2> HIDE DEF s, t
    <2>6. t # 2 /\ (t = 0 => prv.hold # h)
      BY <1>0, <2>1, <2>5
    <2> QED BY <1>0, <1>9, <2>6 DEF First, t
  <1>14. ASSUME NEW l, prv.hold <= l, Bounded(prv.out, l) PROVE Bounded(d.out, l)
    <2>1. Sent(prv.out, Append(prv.out, f), f.h)
      BY <1>0, <1>1, <1>6, SentOne
    <2>2. Bounded(Append(prv.out, f), l)
      BY <1>0, <1>6, <1>14, <2>1 DEF Sent, Bounded
    <2> QED BY <1>0, <1>8a, <1>14, <2>2
  <1>15. ASSUME NEW in \in [Members -> Level], NEW again, TellsValues(prv, n, in, again)
         PROVE  TellsValues(d, n2, in, again)
    <2> SUFFICES ASSUME NEW j \in Fed(d)
                 PROVE  LET z == Reach(d, j, {d.hold}, in[j]) IN
                        Known(z) /\ (d.slots[j].lazy \/ j \in again \/ z \in {Failed, [s |-> d.feeds[j], n |-> n2[j]]})
      BY DEF TellsValues
    <2> DEFINE y == Reach(p, j, {p.hold}, in[j])
               z == Reach(d, j, {d.hold}, in[j])
    <2>1. j \in Fed(prv) /\ j \in Members /\ in[j] \in Level /\ d.hold = p.hold
      BY <1>0, <1>1, <1>9, <1>10, <1>15
    <2>2. Known(y) /\ (p.slots[j].lazy \/ j \in again \/ y \in {Failed, [s |-> prv.feeds[j], n |-> n[j]]})
      BY <1>0, <1>15, <2>1 DEF TellsValues, Reach
    <2>3. /\ Known(y) => Known(z)
          /\ j \notin K => z = IF j = m THEN Heard(y, j, f) ELSE y
      <3>1. p.hold \in {p.hold}
        BY <1>0
      <3>2. /\ Known(y) => Known(Reach(d, j, {p.hold}, in[j]))
            /\ j \notin K => Reach(d, j, {p.hold}, in[j]) = IF j = f.m THEN Heard(y, j, f) ELSE y
        BY <1>0, <1>7, <2>1, <3>1, SendsReach
      <3>3. f.m = m
        BY <1>0, <1>6
      <3> QED BY <1>0, <2>1, <3>2, <3>3
    <2>3a. /\ d.feeds[j] = IF j = m THEN x ELSE prv.feeds[j]
           /\ n2[j] = IF j = m THEN n[m] + 1 ELSE n[j]
      <3> HIDE DEF y, z
      <3> QED BY <1>0, <1>1, <1>9, <2>1
    <2>3b. y \in Level
      BY <1>1, <1>3, <2>1, ReachIs
    <2> HIDE DEF y, z
    <2> SUFFICES Known(z) /\ (d.slots[j].lazy \/ j \in again \/ z \in {Failed, [s |-> d.feeds[j], n |-> n2[j]]})
      BY DEF z
    <2>4. CASE j \in K
      <3>1. d.slots[j] = Lazy
        BY <1>0, <1>1, <1>7, <2>4 DEF Sends
      <3> QED BY <1>0, <2>2, <2>3, <3>1, IdleIs
    <2>5. CASE j \notin K /\ j # m
      <3>1. d.slots[j] = p.slots[j]
        BY <1>0, <1>6, <1>7, <2>1, <2>5 DEF Sends
      <3>2. d.feeds[j] = prv.feeds[j] /\ n2[j] = n[j] /\ z = y
        BY <1>0, <2>3, <2>3a, <2>5
      <3> QED BY <1>0, <2>2, <2>3, <3>1, <3>2
    <2>6. CASE j \notin K /\ j = m
      <3>1. d.feeds[j] = x /\ n2[j] = n[j] + 1 /\ z = Heard(y, m, f)
        BY <1>0, <2>3, <2>3a, <2>6
      <3>2. at = [s |-> d.feeds[j], n |-> n2[j]]
        BY <1>0, <2>6, <3>1 DEF at
      <3>3. CASE as = "reset"
        <4>1. z \in {Failed, at}
          BY <1>6a, <2>2, <2>3b, <3>1, <3>3
        <4> QED BY <1>0, <2>2, <2>3, <3>2, <4>1
      <3>4. CASE as = "ops"
        <4>1. ~p.slots[j].lazy
          BY <1>0, <1>6, <1>7, <2>6, <3>4 DEF Sends
        <4>2. CASE j \in again
          BY <1>0, <2>2, <2>3, <4>2
        <4>3. CASE y = [s |-> prv.feeds[j], n |-> n[j]]
          <5>1. y = [s |-> x, n |-> n[j]] /\ y # None /\ y # Failed
            BY <1>0, <1>4, <2>6, <3>4, <4>3 DEF None, Failed, at
          <5>2. z = Applied(y, <<at>>)
            BY <1>0, <1>6, <2>2, <3>1, <3>4, <5>1 DEF Heard
          <5>3. Applied(y, <<at>>) = at
            <6>1. at = [s |-> y.s, n |-> y.n + 1] /\ Len(<<at>>) = 1 /\ y.n + 1 \in Nat
              BY <1>0, <1>1, <2>6, <5>1 DEF at
            <6>2. DOMAIN <<at>> = {1} /\ <<at>>[1] = at
              BY <1>0
            <6> HIDE DEF at
            <6> QED BY <1>0, <6>1, <6>2 DEF Applied
          <5> QED BY <1>0, <2>2, <2>3, <3>2, <5>2, <5>3
        <4>4. CASE y = Failed
          <5>1. z = Failed
            BY <1>6, <2>2, <3>1, <3>4, <4>4 DEF Heard
          <5> QED BY <2>2, <2>3, <5>1
        <4> QED BY <1>0, <2>2, <4>1, <4>2, <4>3, <4>4
      <3> QED BY <1>0, <3>3, <3>4
    <2> QED BY <1>0, <2>4, <2>5, <2>6
  <1>15a. ASSUME NEW j \in Members, NEW v \in Level, Tracks(prv, n, j, v) PROVE Tracks(d, n2, j, v)
    <2> DEFINE y == Trail(p, j, {p.hold}, v)
               z == Trail(d, j, {p.hold}, v)
    <2>1. /\ Known(y) /\ y.n <= n[j]
          /\ j \in Fed(prv) => p.slots[j].lazy \/ y.s = 0 \/ y = [s |-> prv.feeds[j], n |-> n[j]]
      BY <1>0, <1>15a DEF Tracks, Trail
    <2>2. /\ j \in K => Later(z, y)
          /\ j \notin K => IF j = m THEN Bears(Told(y, j, f), z) ELSE z = y
      <3>1. p.hold \in {p.hold} /\ f.m = m
        BY <1>0
      <3> QED BY <1>7, <3>1, SendsTrail
    <2>3. y \in Level /\ z \in Level
      BY <1>1, <1>9, TrailIs
    <2>4. /\ d.feeds[j] = IF j = m THEN x ELSE prv.feeds[j]
          /\ n2[j] = IF j = m THEN n[m] + 1 ELSE n[j]
      <3> HIDE DEF y, z
      <3> QED BY <1>0, <1>1, <1>9
    <2>5. Trail(d, j, {d.hold}, v) = z
      BY <1>0, <1>9
    <2> HIDE DEF y, z
    <2>6. y.n \in Nat /\ z.n \in Nat /\ n[j] \in Nat /\ n2[j] \in Nat /\ n[j] <= n2[j]
      <3>1. n[j] \in Nat /\ n[m] \in Nat
        BY <1>0, <1>1
      <3> QED BY <2>3, <2>4, <3>1 DEF Level, Value, Unknown
    <2> SUFFICES /\ Known(z) /\ z.n <= n2[j]
                 /\ j \in Fed(d) => d.slots[j].lazy \/ z.s = 0 \/ z = [s |-> d.feeds[j], n |-> n2[j]]
      BY <2>5 DEF Tracks
    <2>7. CASE j \in K
      <3>1. d.slots[j] = Lazy
        BY <1>0, <1>1, <1>7, <2>7 DEF Sends
      <3>2. Known(z) /\ z.n <= y.n
        BY <2>1, <2>2, <2>7 DEF Later
      <3>3. z.n <= n2[j]
        BY <2>1, <2>6, <3>2
      <3> QED BY <3>1, <3>2, <3>3, IdleIs
    <2>8. CASE j \notin K /\ j # m
      <3>1. d.slots[j] = p.slots[j] /\ d.feeds[j] = prv.feeds[j] /\ n2[j] = n[j] /\ z = y
        BY <1>0, <1>7, <2>2, <2>4, <2>8 DEF Sends
      <3>2. j \in Fed(d) <=> j \in Fed(prv)
        BY <1>10
      <3> QED BY <2>1, <3>1, <3>2
    <2>9. CASE j \notin K /\ j = m
      <3> DEFINE w == Told(y, j, f)
      <3>1. Bears(w, z) /\ d.feeds[j] = x /\ n2[j] = n[j] + 1 /\ j \in Fed(prv)
        BY <1>0, <2>2, <2>4, <2>9
      <3>2. w \in Level
        BY <1>6, <2>3, ToldIs
      <3>3. at = [s |-> d.feeds[j], n |-> n2[j]] /\ at.n = n2[j]
        BY <2>9, <3>1 DEF at
      <3>4. Known(at)
        BY <1>4, LevelIs
      <3>5. Known(w) /\ w.n <= n2[j] /\ (w.s = 0 \/ w = at)
        <4>1. CASE as = "reset"
          <5>1. y.n <= n[m] + 1
            BY <2>1, <2>6, <2>9
          <5>2. Renews(w, x, n[m] + 1)
            BY <1>6a, <2>1, <2>3, <2>9, <4>1, <5>1
          <5> HIDE DEF w
          <5> QED BY <2>9, <3>1, <5>2 DEF Renews, at
        <4>2. CASE as = "ops" /\ y.s = 0
          <5>1. w = y
            BY <1>6, <2>1, <2>9, <4>2 DEF Told
          <5>2. y.n <= n2[j]
            BY <2>1, <2>6
          <5> HIDE DEF w
          <5> QED BY <2>1, <4>2, <5>1, <5>2
        <4>3. CASE as = "ops" /\ y.s # 0
          <5>1. ~p.slots[j].lazy
            BY <1>0, <1>6, <1>7, <2>9, <4>3 DEF Sends
          <5>2. y = [s |-> x, n |-> n[j]]
            BY <1>0, <2>1, <2>9, <3>1, <4>3, <5>1
          <5>3. w = Joined(y, <<at>>)
            BY <1>6, <2>1, <2>9, <4>3 DEF Told
          <5>4. Applied(y, <<at>>) = at
            <6>1. at = [s |-> y.s, n |-> y.n + 1] /\ Len(<<at>>) = 1 /\ y.n + 1 \in Nat
              BY <2>6, <2>9, <5>2 DEF at
            <6>2. DOMAIN <<at>> = {1} /\ <<at>>[1] = at
              OBVIOUS
            <6> HIDE DEF at
            <6> QED BY <6>1, <6>2 DEF Applied
          <5>5. at # Torn
            BY <1>4 DEF Torn
          <5>6. w = at
            BY <5>3, <5>4, <5>5 DEF Joined
          <5> HIDE DEF w
          <5> QED BY <2>6, <3>3, <3>4, <5>6
        <4> QED BY <1>0, <4>1, <4>2, <4>3
      <3> HIDE DEF w
      <3>6. Known(z) /\ z.n <= n2[j] /\ (z = w \/ z.s = 0)
        BY <2>3, <2>6, <3>1, <3>2, <3>5, BearsKnown
      <3> QED BY <3>3, <3>5, <3>6
    <2> QED BY <2>7, <2>8, <2>9
  <1>15b. TracksOn(prv, n, d, n2)
    BY <1>15a DEF TracksOn
  <1>16. ASSUME NEW u \in SUBSET Keys, TellsShape(prv, vs, u) PROVE TellsShape(d, vs, u)
    <2>1. Sent(prv.out, Append(prv.out, f), f.h)
      BY <1>0, <1>1, <1>6, SentOne
    <2>1a. d.out = prv.out \/ d.out = Append(prv.out, f)
      BY <1>0, <1>8a
    <2>1b. \A hs : Fold(Shaping(hs), Append(prv.out, f), u) = Fold(Shaping(hs), prv.out, u)
      BY <1>0, <1>16, <2>1 DEF Sent
    <2>2. Fold(Shaping({prv.hold}), d.out, u) = Fold(Shaping({prv.hold}), prv.out, u)
      BY <1>0, <2>1a, <2>1b
    <2> QED BY <1>0, <1>2, <1>8, <1>9, <1>10, <1>16, <2>2 DEF TellsShape
  <1> QED BY <1>9, <1>11, <1>12, <1>13, <1>14, <1>15, <1>15b, <1>16 DEF d, Changed

\* A change of a member that has a feed.
LEMMA ChangeIs ==
  ASSUME IInv, NEW m \in Members, NEW as \in {"ops", "reset"}, NEW fits, Change(m, as, fits), prov.feeds[m] # 0
  PROVE  Changed(prov, prov', variant, val, val')
  <1>1. m \in variant /\ val' = [val EXCEPT ![m] = @ + 1]
    BY DEF Change
  <1>2. /\ prov \in Provider /\ val \in [Members -> Nat] /\ variant \in SUBSET Members
        /\ FeedsOK(prov, variant) /\ WindowOK(prov)
    BY IInvIs DEF ObjectOK
  <1> DEFINE p == IF as = "reset" THEN Attach(prov, m) ELSE prov
             x == IF as = "reset" THEN prov.next ELSE prov.feeds[m]
             at == [s |-> x, n |-> val[m] + 1]
             f == IF as = "ops" THEN State(p.hold, m, "ops", None, <<at>>)
                  ELSE Snapshot(p, m, "reset", val[m] + 1, fits)
             d == SendState(p, f)
  <1>3. prov' = d
    <2>1. CASE as = "ops"
      BY <2>1 DEF Change
    <2>2. CASE as = "reset"
      BY <2>2 DEF Change
    <2> QED BY <2>1, <2>2
  <1>4. /\ m \in Fed(prov) /\ x \in Nat \ {0} /\ (as = "ops" => x = prov.feeds[m])
    BY <1>2, ProviderIs
  <1>5. /\ p \in Provider /\ p.hold = prov.hold /\ p.wants = prov.wants
        /\ p.out = prov.out /\ p.order = prov.order /\ p.slots = prov.slots
        /\ p.processed = prov.processed /\ p.feeds = [prov.feeds EXCEPT ![m] = x]
    <2>1. CASE as = "ops"
      <3>1. p = prov /\ x = prov.feeds[m]
        BY <2>1
      <3>2. prov.feeds = [prov.feeds EXCEPT ![m] = prov.feeds[m]]
        BY <1>2, ProviderIs
      <3> HIDE DEF p, x
      <3> QED BY <1>2, <3>1, <3>2
    <2>2. CASE as = "reset"
      <3>1. p = [prov EXCEPT !.feeds[m] = prov.next, !.next = prov.next + 1] /\ x = prov.next
        BY <2>2 DEF Attach
      <3>2. [prov.feeds EXCEPT ![m] = prov.next] \in [Members -> Nat] /\ prov.next + 1 \in Nat \ {0}
        BY <1>2, ProviderIs
      <3> DEFINE w == [prov.feeds EXCEPT ![m] = prov.next]
                 q == [prov EXCEPT !.feeds = w, !.next = prov.next + 1]
      <3>3. p = q
        BY <1>2, <3>1 DEF Provider
      <3>4. w \in [Members -> Nat]
        BY <3>2
      <3>5. w = [prov.feeds EXCEPT ![m] = x]
        BY <3>1
      <3> HIDE DEF w, p
      <3>6. q \in Provider
        BY <1>2, <3>2, <3>4 DEF Provider
      <3>7. /\ q.hold = prov.hold /\ q.wants = prov.wants
            /\ q.out = prov.out /\ q.order = prov.order /\ q.slots = prov.slots
            /\ q.processed = prov.processed /\ q.feeds = w
        BY <1>2 DEF Provider
      <3> HIDE DEF q
      <3> QED BY <3>3, <3>5, <3>6, <3>7
    <2> QED BY <2>1, <2>2
  <1> HIDE DEF p, x
  <1>6. at \in Edit /\ at \in Value /\ at.s # 0 /\ p.hold \in Nat
    BY <1>2, <1>4, <1>5, ProviderIs DEF Edit, Value
  <1> HIDE DEF at
  <1>7. <<>> \in Seq(Edit) /\ <<at>> \in Seq(Edit) /\ None \in Value
    BY <1>6, LevelIs
  <1>8. /\ f \in Frame /\ f.t = "state" /\ f.h = p.hold /\ f.m = m /\ (f.as = "ops" <=> as = "ops")
        /\ (as = "ops" => f.ops = <<at>>) /\ (as = "reset" => Anew(f, p.hold, m, x, val[m] + 1))
    <2>1. CASE as = "ops"
      <3> DEFINE g == State(p.hold, m, "ops", None, <<at>>)
      <3>1. f = g
        BY <2>1
      <3>2. g \in Frame
        BY <1>6, <1>7, FrameMakes
      <3>3. g.t = "state" /\ g.h = p.hold /\ g.m = m /\ g.as = "ops" /\ g.ops = <<at>>
        BY DEF State
      <3> HIDE DEF g, f
      <3> QED BY <2>1, <3>1, <3>2, <3>3
    <2>2. CASE as = "reset"
      <3> DEFINE g == Snapshot(p, m, "reset", val[m] + 1, fits)
      <3>1. f = g
        BY <2>2
      <3>2. p.feeds[m] = x /\ val[m] + 1 \in Nat
        BY <1>2, <1>5, ProviderIs
      <3>3. Anew(g, p.hold, m, x, val[m] + 1)
        BY <1>4, <1>6, <3>2, SnapshotIs
      <3> HIDE DEF g, f
      <3> QED BY <2>2, <3>1, <3>3 DEF Anew
    <2> QED BY <2>1, <2>2
  <1> HIDE DEF f
  <1>9. /\ as = "ops" => f.ops = <<[s |-> x, n |-> val[m] + 1]>>
        /\ as = "reset" => Anew(f, p.hold, m, x, val[m] + 1)
    BY <1>8 DEF at
  <1> DEFINE n2 == val'
  <1>10. n2 = [val EXCEPT ![m] = @ + 1]
    BY <1>1
  <1> HIDE DEF n2
  <1>11. Changed(prov, d, variant, val, n2)
    <2>1. Changes(prov, p, m, as, x, val, n2, f)
      BY <1>2, <1>4, <1>5, <1>8, <1>9, <1>10 DEF Changes
    <2> QED BY <1>2, <2>1, ChangeSends
  <1> HIDE DEF d
  <1> QED BY <1>3, <1>11 DEF n2

LEMMA ChangeKeeps ==
  ASSUME IInv, NEW m \in Members, NEW as \in {"ops", "reset"}, NEW fits, Change(m, as, fits)
  PROVE  IInv'
  <1>1. /\ UNCHANGED <<relay, cons, asked, passed>> /\ events < MaxEvents /\ m \in variant
        /\ val' = [val EXCEPT ![m] = @ + 1] /\ variant' = variant /\ events' = events + 1
    BY DEF Change
  <1>2. /\ prov \in Provider /\ val \in [Members -> Nat] /\ variant \in SUBSET Members
        /\ variant \in Variants /\ events \in 0..MaxEvents /\ events \in Nat
        /\ FeedsOK(prov, variant) /\ WindowOK(prov)
    BY IInvIs DEF ObjectOK
  <1>3. events <= events' /\ events' \in 0..MaxEvents /\ val' \in [Members -> Nat]
    BY <1>1, <1>2, BoundsAssumption
  <1>3a. invalid' \in SUBSET Members
    BY IInvIs DEF Change
  <1>4. CASE prov.feeds[m] = 0
    <2>1. prov' = prov
      BY <1>4 DEF Change
    <2>2. \A j \in Fed(prov) : val'[j] = val[j]
      BY <1>1, <1>2, <1>4 DEF Fed
    <2>3. \A in : \A again : TellsValues(prov, val, in, again) => TellsValues(prov, val', in, again)
      BY <2>2 DEF TellsValues
    <2> QED BY <1>1, <1>2, <1>3, <1>3a, <2>1, <2>3, ProviderMoves
  <1>5. CASE prov.feeds[m] # 0
    <2>1. Changed(prov, prov', variant, val, val')
      BY <1>5, ChangeIs
    <2>2. /\ prov' \in Provider /\ prov'.hold = prov.hold /\ prov'.wants = prov.wants
          /\ FeedsOK(prov', variant) /\ WindowOK(prov') /\ \A h : First(h, prov) => First(h, prov')
          /\ \A l : prov.hold <= l /\ Bounded(prov.out, l) => Bounded(prov'.out, l)
          /\ \A in \in [Members -> Level] : \A again :
               TellsValues(prov, val, in, again) => TellsValues(prov', val', in, again)
          /\ \A u \in SUBSET Keys : TellsShape(prov, variant, u) => TellsShape(prov', variant, u)
      BY <2>1 DEF Changed
    <2>3. variant' = variant /\ UNCHANGED <<relay, cons, asked, passed>>
      BY <1>1
    <2> QED BY <1>2, <1>3, <1>3a, <2>2, <2>3, ProviderMoves
  <1> QED BY <1>4, <1>5

-----------------------------------------------------------------------------
(* Steps of the relay.                                                        *)

\* The relay takes the provider's next frame.
LEMMA TakenFeeds ==
  ASSUME NEW p \in Provider, NEW vs, FeedsOK(p, vs), WindowOK(p), p.out # <<>>
  PROVE  LET d == Taken(p) IN
         /\ d \in Provider /\ d.hold = p.hold /\ d.wants = p.wants
         /\ FeedsOK(d, vs) /\ WindowOK(d)
         /\ \A l : Bounded(p.out, l) => Bounded(d.out, l)
  <1> DEFINE d == Taken(p)
  <1>1. p \in Sender /\ p.out \in Seq(Frame)
    BY ProviderIs
  <1>2. /\ d \in Provider /\ d.out = Tail(p.out) /\ d.hold = p.hold /\ d.wants = p.wants
        /\ d.feeds = p.feeds /\ (SlotsOK(p) => SlotsOK(d)) /\ WindowOK(d)
        /\ \A k : Waits(d, k) <=> Waits(p, k)
    <2> HIDE DEF d
    <2> QED BY <1>1, TakenIs DEF d
  <1> HIDE DEF d
  <1>3. Fed(d) = Fed(p)
    BY <1>2 DEF Fed
  <1>4. FeedsOK(d, vs)
    BY <1>2, <1>3 DEF FeedsOK
  <1>5. ASSUME NEW l, Bounded(p.out, l) PROVE Bounded(d.out, l)
    <2>1. \A i \in DOMAIN Tail(p.out) : i + 1 \in DOMAIN p.out /\ Tail(p.out)[i] = p.out[i + 1]
      BY <1>1
    <2> QED BY <1>2, <1>5, <2>1 DEF Bounded
  <1> QED BY <1>2, <1>4, <1>5 DEF d

LEMMA TakenTells ==
  ASSUME NEW p \in Provider, p.out # <<>>, NEW n, NEW again,
         NEW in \in [Members -> Level], NEW in2,
         \A m \in Members : in2[m] = IF Head(p.out).h = p.hold THEN Heard(in[m], m, Head(p.out)) ELSE in[m],
         TellsValues(p, n, in, again)
  PROVE  TellsValues(Taken(p), n, in2, again)
  <1> DEFINE d == Taken(p)
             f == Head(p.out)
  <1>1. p \in Sender
    BY ProviderIs
  <1>2. d.hold = p.hold /\ d.feeds = p.feeds /\ d.slots = p.slots
    <2> HIDE DEF d
    <2> QED BY <1>1, TakenIs DEF d
  <1>3. Fed(d) = Fed(p)
    BY <1>2 DEF Fed
  <1> SUFFICES ASSUME NEW m \in Fed(d)
               PROVE  LET x == Reach(d, m, {d.hold}, in2[m]) IN
                      Known(x) /\ (d.slots[m].lazy \/ m \in again \/ x \in {Failed, [s |-> d.feeds[m], n |-> n[m]]})
    BY DEF TellsValues
  <1>4. m \in Fed(p) /\ m \in Members /\ in[m] \in Level
    BY <1>3 DEF Fed
  <1>5. LET x == Reach(p, m, {p.hold}, in[m]) IN
        Known(x) /\ (p.slots[m].lazy \/ m \in again \/ x \in {Failed, [s |-> p.feeds[m], n |-> n[m]]})
    BY <1>4 DEF TellsValues
  <1>6. Reach(d, m, {p.hold}, IF f.h \in {p.hold} THEN Heard(in[m], m, f) ELSE in[m])
          = Reach(p, m, {p.hold}, in[m])
    <2> DEFINE hs == {p.hold}
               v == in[m]
    <2>1. v \in Level /\ m \in Members
      BY <1>4
    <2> HIDE DEF hs, v, d, f
    <2>2. Reach(d, m, hs, IF f.h \in hs THEN Heard(v, m, f) ELSE v) = Reach(p, m, hs, v)
      BY <1>1, <2>1, TakenReach DEF d, f
    <2> QED BY <2>2 DEF hs, v
  <1>7. in2[m] = IF f.h \in {p.hold} THEN Heard(in[m], m, f) ELSE in[m]
    BY <1>4
  <1>8. Reach(d, m, {d.hold}, in2[m]) = Reach(p, m, {p.hold}, in[m])
    BY <1>2, <1>6, <1>7
  <1> HIDE DEF d, f
  <1> QED BY <1>2, <1>5, <1>8

LEMMA TakenTellsShape ==
  ASSUME NEW p \in Provider, p.out # <<>>, NEW vs, NEW u \in SUBSET Keys, TellsShape(p, vs, u),
         NEW w, w = IF Head(p.out).t = "shape" /\ Head(p.out).h = p.hold THEN Head(p.out).members ELSE u
  PROVE  TellsShape(Taken(p), vs, w)
  <1> DEFINE d == Taken(p)
             f == Head(p.out)
             hs == {p.hold}
  <1>1. p \in Sender
    BY ProviderIs
  <1>2. d.hold = p.hold /\ d.feeds = p.feeds /\ \A k : Waits(d, k) <=> Waits(p, k)
    <2> HIDE DEF d
    <2> QED BY <1>1, TakenIs DEF d
  <1>3. Fed(d) = Fed(p)
    BY <1>2 DEF Fed
  <1>4. w = IF f.t = "shape" /\ f.h \in hs THEN f.members ELSE u
    OBVIOUS
  <1> HIDE DEF hs, d, f
  <1>5. Fold(Shaping(hs), p.out, u) = Fold(Shaping(hs), d.out, w)
    <2>1. LET T == IF f.t = "shape" /\ f.h \in hs THEN f.members ELSE u IN
          Fold(Shaping(hs), p.out, u) = Fold(Shaping(hs), d.out, T)
      BY <1>1, TakenShape DEF d, f
    <2> QED BY <1>4, <2>1
  <1>6. Fold(Shaping({p.hold}), p.out, u) = Fold(Shaping({d.hold}), d.out, w)
    BY <1>2, <1>5 DEF hs
  <1> QED BY <1>2, <1>3, <1>6 DEF TellsShape, d

LEMMA AskedMore ==
  ASSUME NEW ps \in Seq(Message), NEW K \in SUBSET Members
  PROVE  LET q == SetToSeq({Resync(m) : m \in K}) IN
         /\ q \in Seq(Message) /\ \A i \in DOMAIN q : q[i].t = "resync"
         /\ AskedAgain(ps) \subseteq AskedAgain(ps \o q) /\ K \subseteq AskedAgain(ps \o q)
         /\ ps \o q \in Seq(Message)
  <1> DEFINE S == {Resync(m) : m \in K}
             q == SetToSeq(S)
  <1>1. IsFiniteSet(S)
    <2>1. IsFiniteSet(K)
      BY MembersAssumption, FS_Subset
    <2> DEFINE F == [m \in K |-> Resync(m)]
    <2>2. F \in Surjection(K, S)
      BY DEF Surjection
    <2> QED BY <2>1, <2>2, FS_Surjection
  <1>2. \A m \in Members : Resync(m) \in Message /\ Resync(m).t = "resync"
    <2> TAKE m \in Members
    <2> DEFINE R == [t : {"hold", "release", "sub", "unsub", "resync"}, id : Nat, state : BOOLEAN,
                     again : BOOLEAN, m : Members \cup {"none"}]
               r == Resync(m)
    <2>1. Request("resync") \in R /\ Request("resync").t = "resync"
      BY DEF Request
    <2>2. r \in R /\ r.m = m /\ r.t = "resync"
      BY <2>1 DEF Resync
    <2> HIDE DEF r
    <2>3. r = Resync(r.m) /\ r.m \in Members
      BY <2>2 DEF r
    <2> QED BY <2>2, <2>3 DEF Message, r
  <1>3. q \in Seq(S) /\ \A x : In(q, x) <=> x \in S
    <2> HIDE DEF S
    <2> QED BY <1>1, SetInSeq
  <1> HIDE DEF q
  <1>4. \A i \in DOMAIN q : q[i] \in S
    <2> HIDE DEF S
    <2> QED BY <1>3
  <1>5. \A i \in DOMAIN q : q[i] \in Message /\ q[i].t = "resync"
    BY <1>2, <1>4
  <1>6. q \in Seq(Message)
    <2>1. q \in [1..Len(q) -> Message] /\ Len(q) \in Nat
      <3> HIDE DEF S
      <3> QED BY <1>3, <1>5
    <2> QED BY <2>1
  <1>7. \A m \in K : \E j \in DOMAIN q : q[j] = Resync(m)
    BY <1>3 DEF In
  <1> HIDE DEF S
  <1>8. /\ \A i \in DOMAIN ps : i \in DOMAIN (ps \o q) /\ (ps \o q)[i] = ps[i]
        /\ \A j \in DOMAIN q : Len(ps) + j \in DOMAIN (ps \o q) /\ (ps \o q)[Len(ps) + j] = q[j]
    BY <1>6
  <1>9. AskedAgain(ps) \subseteq AskedAgain(ps \o q) /\ K \subseteq AskedAgain(ps \o q)
    BY <1>7, <1>8 DEF AskedAgain
  <1>10. ps \o q \in Seq(Message)
    BY <1>6
  <1> QED BY <1>5, <1>6, <1>9, <1>10 DEF q, S

\* What the relay's step leaves to show, for the provider's state p2 after it, the relay's
\* r2 and the requests ps2.
LEMMA RelayMoves ==
  ASSUME IInv, UNCHANGED <<val, invalid, variant, cons, asked, events>>,
         prov' \in Provider, prov'.hold = prov.hold, prov'.wants = prov.wants,
         FeedsOK(prov', variant), WindowOK(prov'), \A l : Bounded(prov.out, l) => Bounded(prov'.out, l),
         relay' \in Relay, relay'.dropped = {}, relay'.hold = relay.hold, RelayOK(relay'),
         relay'.hold # NoHold /\ ~relay'.shaped => First(relay'.hold, prov'),
         NEW q \in Seq(Message), \A i \in DOMAIN q : q[i].t = "resync", passed' = passed \o q,
         Quiet => /\ TellsValues(prov', val, Inbound(cons, relay'), AskedAgain(passed'))
                  /\ TellsShape(prov', variant, ShapeIn(cons, relay'))
  PROVE  IInv'
  <1>1. /\ val' = val /\ variant' = variant /\ cons' = cons /\ asked' = asked /\ events' = events
        /\ prov \in Provider /\ asked \in Seq(Message) /\ passed \in Seq(Message) /\ events \in Nat
    BY IInvIs
  <1>2. PICK l \in Nat : Agree(l, prov, relay, cons, passed, asked, events)
    BY IInvIs DEF RequestsOK
  <1>3. Agree(l, prov', relay', cons', passed', asked', events')
    <2>1. Bounded(prov'.out, l)
      BY <1>2 DEF Agree
    <2>2. Agree(l, prov', relay', cons, passed \o q, asked, events)
      <3> DEFINE ps == passed
                 as == asked
                 n == events
      <3>1. /\ prov \in Provider /\ ps \in Seq(Message) /\ as \in Seq(Message) /\ n \in Nat
            /\ Agree(l, prov, relay, cons, ps, as, n)
            /\ prov'.hold = prov.hold /\ prov'.wants = prov.wants /\ relay'.hold = relay.hold
            /\ n <= n
        BY <1>1, <1>2
      <3> HIDE DEF ps, as, n
      <3>2. Agree(l, prov', relay', cons, ps \o q, as, n)
        BY <2>1, <3>1, AgreeStays
      <3> QED BY <3>2 DEF ps, as, n
    <2> QED BY <1>1, <2>2
  <1>4. passed' \in Seq(Message)
    BY <1>1
  <1>5. TypeOK'
    BY <1>1, <1>4 DEF IInv, TypeOK
  <1>6. RequestsOK'
    <2>1. \E j \in Nat : Agree(j, prov', relay', cons', passed', asked', events')
      BY <1>3
    <2> QED BY <1>1, <2>1 DEF IInv, RequestsOK
  <1>7. ShapeFirst' /\ ProvOK(prov, variant)' /\ RelayOK(relay)' /\ ConsOK(cons)'
    BY <1>1 DEF IInv, ShapeFirst, ProvOK
  <1>8. Current'
    <2> SUFFICES ASSUME Quiet' PROVE Quiet
      BY <1>1 DEF Current
    <2>1. \A i \in DOMAIN passed : i \in DOMAIN passed' /\ passed'[i] = passed[i]
      BY <1>1
    <2> QED BY <1>1, <2>1 DEF Quiet
  <1> QED BY <1>5, <1>6, <1>7, <1>8 DEF IInv

\* The relay hears a frame of its hold.
RelayHears(r, f) == IF f.t = "shape" THEN RelayShape(r, f) ELSE RelayState(r, f)

LEMMA RelayHearsIs ==
  ASSUME IInv, prov.out # <<>>, relay.hold # NoHold, Head(prov.out).h = relay.hold
  PROVE  LET f == Head(prov.out)
             d == RelayHears(relay, f) IN
         d.dropped \in SUBSET Members /\ Passes(relay, f, Again(d), d.dropped) /\ Again(d).shaped
  <1> DEFINE f == Head(prov.out)
             R == RelayHears(relay, f)
  <1>1. /\ prov \in Provider /\ prov \in Sender /\ relay \in Relay /\ relay.dropped = {} /\ RelayOK(relay)
        /\ ShapeFirst
    BY IInvIs, ProviderIs
  <1>2. /\ f \in Frame
        /\ f.h = relay.hold /\ f.t = "state" => Fold(Seen(relay.hold), prov.out, 0) = 2
    <2> HIDE DEF f, R
    <2> QED BY <1>1, TakenSeen, TakenIs DEF f
  <1>3. f.h = relay.hold
    OBVIOUS
  <1> HIDE DEF f
  <1>4. f.t = "state" => relay.shaped
    <2> SUFFICES ASSUME f.t = "state", ~relay.shaped PROVE FALSE
      OBVIOUS
    <2>1. First(relay.hold, prov)
      BY <1>1 DEF ShapeFirst
    <2> QED BY <1>2, <1>3, <2>1 DEF First
  <1>5. CASE f.t = "shape"
    <2> DEFINE d == RelayShape(relay, f)
    <2>1. d.dropped = {} /\ d.shaped /\ Again(d) = d /\ Passes(relay, f, d, {})
      BY <1>1, <1>2, <1>5, RelayShapePasses
    <2>2. R = d
      BY <1>5 DEF RelayHears
    <2> HIDE DEF d, R
    <2>3. R.dropped \in SUBSET Members /\ Passes(relay, f, Again(R), R.dropped) /\ Again(R).shaped
      BY <2>1, <2>2
    <2> QED BY <2>3 DEF R, f
  <1>6. CASE f.t = "state"
    <2> DEFINE d == RelayState(relay, f)
    <2>1. d.dropped \in SUBSET Members /\ Passes(relay, f, Again(d), d.dropped)
      BY <1>1, <1>2, <1>3, <1>4, <1>6, RelayStatePasses
    <2>2. R = d
      BY <1>6 DEF RelayHears
    <2>3. Again(d).shaped = relay.shaped
      BY <1>6, <2>1 DEF Passes
    <2> HIDE DEF d, R
    <2>4. R.dropped \in SUBSET Members /\ Passes(relay, f, Again(R), R.dropped) /\ Again(R).shaped
      BY <1>4, <1>6, <2>1, <2>2, <2>3
    <2> QED BY <2>4 DEF R, f
  <1> QED BY <1>2, <1>5, <1>6, FrameIs

LEMMA RelayReceivesKeeps == ASSUME IInv, RelayReceives PROVE IInv'
  <1> DEFINE f == Head(prov.out)
             p == Taken(prov)
             R == RelayHears(relay, f)
  <1>1. /\ UNCHANGED <<val, invalid, variant, cons, asked, events>> /\ prov.out # <<>> /\ prov' = p
        /\ IF relay.hold = NoHold \/ f.h # relay.hold THEN relay' = relay /\ passed' = passed
           ELSE Relayed(R)
    BY DEF RelayReceives, Taken, RelayHears
  <1>2. /\ prov \in Provider /\ prov \in Sender /\ FeedsOK(prov, variant) /\ WindowOK(prov)
        /\ relay \in Relay /\ relay.dropped = {} /\ RelayOK(relay) /\ SlotsOK(relay)
        /\ cons \in Consumer /\ passed \in Seq(Message) /\ ShapeFirst /\ variant \in SUBSET Members
        /\ Inbound(cons, relay) \in [Members -> Level] /\ ShapeIn(cons, relay) \in SUBSET Keys
    BY IInvIs, ProviderIs DEF ObjectOK
  <1>3. /\ p \in Provider /\ p.hold = prov.hold /\ p.wants = prov.wants
        /\ FeedsOK(p, variant) /\ WindowOK(p) /\ \A l : Bounded(prov.out, l) => Bounded(p.out, l)
    BY <1>1, <1>2, TakenFeeds
  <1>4. f \in Frame /\ Fed(p) = Fed(prov)
    <2>1. f \in Frame /\ p.feeds = prov.feeds
      <3> HIDE DEF p, f, R
      <3> QED BY <1>1, <1>2, TakenIs DEF p, f
    <2> QED BY <2>1 DEF Fed
  <1>5. /\ \A h : f.h # h => Fold(Seen(h), prov.out, 0) = Fold(Seen(h), p.out, 0)
        /\ \A h : f.h = h /\ f.t = "state" => Fold(Seen(h), prov.out, 0) = 2
    <2> HIDE DEF p, f, R
    <2> QED BY <1>1, <1>2, TakenSeen DEF p, f
  <1>6. relay.hold # NoHold /\ f.h = relay.hold =>
           R.dropped \in SUBSET Members /\ Passes(relay, f, Again(R), R.dropped) /\ Again(R).shaped
    BY <1>1, RelayHearsIs
  <1> HIDE DEF f, p, R
  <1>7. CASE relay.hold = NoHold \/ f.h # relay.hold
    <2>1. relay' = relay /\ passed' = passed \o <<>>
      BY <1>1, <1>2, <1>7
    <2>2. relay.hold # NoHold /\ ~relay.shaped => First(relay.hold, p)
      <3> SUFFICES ASSUME relay.hold # NoHold, ~relay.shaped PROVE First(relay.hold, p)
        OBVIOUS
      <3>1. First(relay.hold, prov)
        BY <1>2 DEF ShapeFirst
      <3>2. Fold(Seen(relay.hold), prov.out, 0) = Fold(Seen(relay.hold), p.out, 0)
        BY <1>5, <1>7
      <3> QED BY <1>3, <1>4, <3>1, <3>2 DEF First
    <2>3. ASSUME Quiet
          PROVE  /\ TellsValues(p, val, Inbound(cons, relay), AskedAgain(passed))
                 /\ TellsShape(p, variant, ShapeIn(cons, relay))
      <3>1. /\ prov.hold = relay.hold /\ prov.hold # NoHold
            /\ TellsValues(prov, val, Inbound(cons, relay), AskedAgain(passed))
            /\ TellsShape(prov, variant, ShapeIn(cons, relay))
        BY <2>3, QuietIs
      <3>2. f.h # prov.hold
        BY <1>7, <3>1
      <3> DEFINE in == Inbound(cons, relay)
                 u == ShapeIn(cons, relay)
                 again == AskedAgain(passed)
      <3>3. \A m \in Members : in[m] = IF f.h = prov.hold THEN Heard(in[m], m, f) ELSE in[m]
        BY <3>2
      <3>4. u = IF f.t = "shape" /\ f.h = prov.hold THEN f.members ELSE u
        BY <3>2
      <3>5. in \in [Members -> Level] /\ u \in SUBSET Keys /\ TellsValues(prov, val, in, again)
            /\ TellsShape(prov, variant, u)
        BY <1>2, <3>1
      <3> HIDE DEF in, u, again
      <3>6. TellsValues(p, val, in, again)
        BY <1>1, <1>2, <3>3, <3>5, TakenTells DEF p, f
      <3>7. TellsShape(p, variant, u)
        BY <1>1, <1>2, <3>4, <3>5, TakenTellsShape DEF p, f
      <3> QED BY <3>6, <3>7 DEF in, u, again
    <2>4. <<>> \in Seq(Message) /\ \A i \in DOMAIN <<>> : <<>>[i].t = "resync"
      OBVIOUS
    <2>5. passed' = passed
      BY <1>1, <1>7
    <2> QED BY <1>1, <1>2, <1>3, <2>1, <2>2, <2>3, <2>4, <2>5, RelayMoves
  <1>8. CASE relay.hold # NoHold /\ f.h = relay.hold
    <2> DEFINE r == Again(R)
               q == SetToSeq({Resync(m) : m \in R.dropped})
    <2>1. relay' = r /\ passed' = passed \o q
      BY <1>1, <1>8 DEF Relayed, Again
    <2>2. R.dropped \in SUBSET Members /\ Passes(relay, f, r, R.dropped) /\ r.shaped
      BY <1>6, <1>8
    <2> DEFINE K == R.dropped
    <2>3. /\ q \in Seq(Message) /\ \A i \in DOMAIN q : q[i].t = "resync"
          /\ AskedAgain(passed) \subseteq AskedAgain(passed \o q) /\ K \subseteq AskedAgain(passed \o q)
      BY <1>2, <2>2, AskedMore
    <2> HIDE DEF q, r, K
    <2>4. /\ r \in Relay /\ r.dropped = {} /\ r.hold = relay.hold /\ RelayOK(r) /\ SlotsOK(r)
          /\ \A S \in SUBSET Keys :
               Fold(Shaping(Nat), r.out, S) = Shaping(Nat)[<<Fold(Shaping(Nat), relay.out, S), f>>]
          /\ \A m \in Members :
               /\ m \notin K => Leq(Heard(Passing(cons, relay, m), m, f), Passing(cons, r, m))
               /\ Known(Heard(Passing(cons, relay, m), m, f)) => Known(Passing(cons, r, m))
      BY <1>2, <2>2 DEF Passes, K, RelayOK
    <2>5. ASSUME Quiet
          PROVE  /\ TellsValues(p, val, Inbound(cons, r), AskedAgain(passed \o q))
                 /\ TellsShape(p, variant, ShapeIn(cons, r))
      <3>1. /\ prov.hold = relay.hold
            /\ TellsValues(prov, val, Inbound(cons, relay), AskedAgain(passed))
            /\ TellsShape(prov, variant, ShapeIn(cons, relay))
        BY <2>5, QuietIs
      <3>2. f.h = prov.hold
        BY <1>8, <3>1
      <3> DEFINE in == Inbound(cons, relay)
                 in2 == [m \in Members |-> Heard(in[m], m, f)]
                 in3 == Inbound(cons, r)
                 u == ShapeIn(cons, relay)
                 w == IF f.t = "shape" /\ f.h = prov.hold THEN f.members ELSE u
                 a1 == AskedAgain(passed)
                 a2 == AskedAgain(passed \o q)
      <3>3. in \in [Members -> Level] /\ in2 \in [Members -> Level] /\ in3 \in [Members -> Level]
        BY <1>2, <1>4, <2>4, HeardIs, PassingIs
      <3>4. \A m \in Members : in2[m] = IF f.h = prov.hold THEN Heard(in[m], m, f) ELSE in[m]
        BY <3>2
      <3>5. \A m \in Members : /\ m \notin K => Leq(in2[m], in3[m])
                               /\ Known(in2[m]) => Known(in3[m])
        <4> TAKE m \in Members
        <4>1. in[m] = Passing(cons, relay, m) /\ in3[m] = Passing(cons, r, m)
          BY <1>2, <2>4, PassingIs
        <4>2. in2[m] = Heard(in[m], m, f)
          OBVIOUS
        <4> HIDE DEF in, in2, in3
        <4> QED BY <2>4, <4>1, <4>2
      <3>6. ShapeIn(cons, r) = w
        <4>1. ShapeOf(cons) \in SUBSET Keys
          BY <1>2, ConsumerIs DEF ShapeOf, NoShape, Keys
        <4>2. Fold(Shaping(Nat), r.out, ShapeOf(cons)) = Shaping(Nat)[<<u, f>>]
          BY <2>4, <4>1 DEF ShapeIn
        <4>3. Shaping(Nat)[<<u, f>>] = IF f.t = "shape" /\ f.h \in Nat THEN f.members ELSE u
          BY <1>2, <1>4, ShapingAt
        <4>4. f.h \in Nat
          BY <1>4, FrameIs
        <4> QED BY <3>2, <4>2, <4>3, <4>4 DEF ShapeIn
      <3>7. TellsValues(prov, val, in, a1) /\ TellsShape(prov, variant, u) /\ u \in SUBSET Keys
            /\ a1 \subseteq a2 /\ K \subseteq a2
        BY <1>2, <2>3, <3>1
      <3>8. w = IF f.t = "shape" /\ f.h = prov.hold THEN f.members ELSE u
        OBVIOUS
      <3> HIDE DEF in, in2, in3, u, w, a1, a2
      <3>9. TellsValues(p, val, in2, a1)
        BY <1>1, <1>2, <3>3, <3>4, <3>7, TakenTells DEF p, f
      <3>10. TellsShape(p, variant, w)
        BY <1>1, <1>2, <3>7, <3>8, TakenTellsShape DEF p, f
      <3>11. \A m \in Fed(p) : /\ m \notin a2 => Leq(in2[m], in3[m])
                               /\ Known(in2[m]) => Known(in3[m])
        BY <3>5, <3>7 DEF Fed
      <3>12. TellsValues(p, val, in3, a2)
        BY <1>3, <3>3, <3>7, <3>9, <3>11, TellsMore
      <3> QED BY <3>6, <3>10, <3>12 DEF in3, a2
    <2> QED BY <1>1, <1>3, <2>1, <2>2, <2>3, <2>4, <2>5, RelayMoves
  <1> QED BY <1>7, <1>8

LEMMA RelayHearsAckKeeps == ASSUME IInv, RelayHearsAck PROVE IInv'
  <1> DEFINE d == Flush([relay EXCEPT !.processed = 0], variant)
             q == SetToSeq({Resync(m) : m \in d.dropped})
  <1>1. /\ UNCHANGED <<val, invalid, variant, cons, asked, events>> /\ prov' = prov
        /\ relay' = Again(d) /\ passed' = passed \o q
    BY DEF RelayHearsAck, Relayed, Again
  <1>2. /\ prov \in Provider /\ FeedsOK(prov, variant) /\ WindowOK(prov)
        /\ relay \in Relay /\ relay.dropped = {} /\ RelayOK(relay)
        /\ cons \in Consumer /\ passed \in Seq(Message) /\ ShapeFirst
    BY IInvIs DEF ObjectOK
  <1>3. /\ d \in Relay /\ d.dropped = {} /\ Again(d) = d /\ d.hold = relay.hold /\ d.shaped = relay.shaped
        /\ RelayOK(d)
        /\ \A S \in SUBSET Keys : Fold(Shaping(Nat), d.out, S) = Fold(Shaping(Nat), relay.out, S)
        /\ \A c \in Consumer : \A m \in Members : Passing(c, d, m) = Passing(c, relay, m)
    BY <1>2, RelayFlushed
  <1> DEFINE K == d.dropped
  <1> HIDE DEF d
  <1>4. K \in SUBSET Members
    BY <1>3
  <1>5. /\ q \in Seq(Message) /\ \A i \in DOMAIN q : q[i].t = "resync"
        /\ AskedAgain(passed) \subseteq AskedAgain(passed \o q)
    BY <1>2, <1>4, AskedMore
  <1> HIDE DEF q
  <1>6. ASSUME Quiet
        PROVE  /\ TellsValues(prov, val, Inbound(cons, d), AskedAgain(passed \o q))
               /\ TellsShape(prov, variant, ShapeIn(cons, d))
    <2>1. /\ TellsValues(prov, val, Inbound(cons, relay), AskedAgain(passed))
          /\ TellsShape(prov, variant, ShapeIn(cons, relay))
      BY <1>6, QuietIs
    <2>2. Inbound(cons, d) = Inbound(cons, relay)
      BY <1>2, <1>3 DEF Inbound
    <2>3. ShapeIn(cons, d) = ShapeIn(cons, relay)
      <3>1. ShapeOf(cons) \in SUBSET Keys
        BY <1>2, ConsumerIs DEF ShapeOf, NoShape, Keys
      <3> QED BY <1>3, <3>1 DEF ShapeIn
    <2>4. TellsValues(prov, val, Inbound(cons, relay), AskedAgain(passed \o q))
      BY <1>5, <2>1 DEF TellsValues
    <2> QED BY <2>1, <2>2, <2>3, <2>4
  <1>7. relay' = d
    BY <1>1, <1>3
  <1>8. d.hold # NoHold /\ ~d.shaped => First(d.hold, prov)
    BY <1>2, <1>3 DEF ShapeFirst
  <1> QED BY <1>1, <1>2, <1>3, <1>5, <1>6, <1>7, <1>8, RelayMoves

\* A link none of whose frames is of a hold.
LEMMA NotSeen ==
  ASSUME NEW q \in Seq(Frame), NEW h, \A i \in DOMAIN q : q[i].h # h
  PROVE  Fold(Seen(h), q, 0) = 0
  <1> DEFINE X == {f \in Frame : f.h # h}
             S == {0}
             g == Seen(h)
  <1>1. q \in Seq(X)
    <2>1. q \in [1..Len(q) -> X] /\ Len(q) \in Nat
      OBVIOUS
    <2> QED BY <2>1
  <1>2. ASSUME NEW x \in S, NEW f \in X PROVE g[<<x, f>>] \in S
    <2>1. x = 0 /\ f \in Frame /\ f.h # h /\ 0 \in 0..2
      OBVIOUS
    <2>2. Seen(h)[<<0, f>>] = 0
      BY <2>1, SeenAt
    <2> QED BY <2>1, <2>2
  <1>3. 0 \in S
    OBVIOUS
  <1> HIDE DEF X, S, g
  <1>4. Fold(g, q, 0) \in S
    BY <1>1, <1>2, <1>3, FoldStays
  <1> QED BY <1>4 DEF S, g

\* Nothing waits at the relay.
LEMMA RelayEmptied ==
  ASSUME NEW r \in Relay, NEW d \in Relay, d.order = Forget(r, Keys).order, d.slots = Forget(r, Keys).slots
  PROVE  RelayOK(d)
  <1>1. r \in Sender /\ d \in Sender
    BY RelayIs
  <1>2. /\ \A k \in Keys : d.slots[k] = Idle
        /\ \A k : Waits(d, k) => k \notin Keys
    BY <1>1, ForgetIs DEF Waits
  <1>3. \A k : ~Waits(d, k)
    <2>1. d.order \in Seq(Keys)
      BY <1>1, SenderIs
    <2>2. \A i \in DOMAIN d.order : d.order[i] \in Keys
      BY <2>1
    <2> QED BY <1>2, <2>2 DEF Waits
  <1>4. WindowOK(d)
    BY <1>1, <1>3, OrderIs DEF WindowOK
  <1>5. SlotsOK(d)
    BY <1>2, IdleIs DEF SlotsOK, Keys
  <1>6. \A m \in Members : d.slots[m] = Idle /\ ~d.slots[m].lazy
    BY <1>2, IdleIs DEF Keys
  <1> QED BY <1>4, <1>5, <1>6 DEF RelayOK

\* A new RelayRef.
LEMMA RelayFresh ==
  ASSUME NEW r \in Relay, RelayOK(r), r.hold = NoHold, NEW i \in Nat, NEW b \in BOOLEAN
  PROVE  LET d == [r EXCEPT !.hold = i, !.again = b, !.shaped = FALSE, !.urgent = {}, !.awaiting = {}] IN
         d \in Relay /\ d.hold = i /\ d.dropped = r.dropped /\ RelayOK(d)
  <1> DEFINE d == [r EXCEPT !.hold = i, !.again = b, !.shaped = FALSE, !.urgent = {}, !.awaiting = {}]
  <1>1. d \in Relay /\ d.hold = i /\ d.urgent = {} /\ d.awaiting = {}
    BY DEF Relay
  <1>2. d.out = r.out /\ d.processed = r.processed /\ d.order = r.order /\ d.slots = r.slots /\ d.dropped = r.dropped
    BY DEF Relay
  <1> HIDE DEF d
  <1>3. \A m \in Members : d.slots[m] = Idle
    BY <1>2 DEF RelayOK
  <1>4. d.slots["unit"] = Idle
    BY <1>2 DEF RelayOK, SlotsOK
  <1>5. SlotsOK(d)
    BY <1>3, <1>4, IdleIs DEF SlotsOK, Keys
  <1>6. WindowOK(d)
    BY <1>2 DEF RelayOK, WindowOK, Full
  <1>7. RelayOK(d)
    BY <1>3, <1>5, <1>6, IdleIs DEF RelayOK
  <1> QED BY <1>1, <1>2, <1>7 DEF d

LEMMA RelayPassesKeeps == ASSUME IInv, RelayPasses PROVE IInv'
  <1> DEFINE msg == Head(asked)
             fresh == [relay EXCEPT !.hold = msg.id, !.again = msg.again, !.shaped = FALSE,
                                    !.urgent = {}, !.awaiting = {}]
             ended == [Forget(relay, Keys) EXCEPT !.awaiting = {}]
  <1>1. /\ UNCHANGED <<val, invalid, variant, prov, cons, events>> /\ asked # <<>>
        /\ passed' = Append(passed, msg) /\ asked' = Tail(asked)
        /\ relay' = CASE msg.t = "hold" -> fresh [] msg.t = "unsub" -> ended [] OTHER -> relay
    BY DEF RelayPasses
  <1>2. /\ prov \in Provider /\ asked \in Seq(Message) /\ passed \in Seq(Message) /\ events \in Nat
        /\ relay \in Relay /\ relay.dropped = {} /\ RelayOK(relay) /\ ShapeFirst
    BY IInvIs
  <1>3. msg \in Message /\ Tail(asked) \in Seq(Message) /\ Append(passed, msg) \in Seq(Message)
    <2> HIDE DEF fresh, ended
    <2>1. msg \in Message /\ Tail(asked) \in Seq(Message)
      BY <1>1, <1>2, HeadTailProperties
    <2> HIDE DEF msg
    <2> QED BY <1>2, <2>1
  <1>4. /\ msg.t \in {"hold", "sub", "unsub"} /\ cons.hold # NoHold
        /\ \A i \in DOMAIN asked' : asked'[i].t \in {"hold", "sub", "unsub"}
    <2>1. /\ cons.hold = NoHold => asked = <<>>
          /\ \A i \in DOMAIN asked : asked[i].t \in {"hold", "sub", "unsub"}
      BY IInvIs DEF RequestsOK
    <2>2. 1 \in DOMAIN asked /\ msg = asked[1]
      BY <1>1, <1>2
    <2>3. \A i \in DOMAIN asked' : i + 1 \in DOMAIN asked /\ asked'[i] = asked[i + 1]
      BY <1>1, <1>2
    <2> QED BY <1>1, <2>1, <2>2, <2>3
  <1>5. PICK l \in Nat : Agree(l, prov, relay, cons, passed, asked, events)
    BY IInvIs DEF RequestsOK
  <1> DEFINE a == AtRelay(l, prov, passed)
             k == Turned(a, msg)
  <1>6. /\ Finds(a, msg) /\ a \in Control /\ a.hold = relay.hold /\ a.last >= l /\ k \in Control
        /\ \A r2 : r2.hold = k.hold => Agree(l, prov, r2, cons, Append(passed, msg), Tail(asked), events)
    <2> HIDE DEF fresh, ended
    <2> QED BY <1>1, <1>2, <1>5, AgreePassed
  <1>7. prov.hold <= l /\ Bounded(prov.out, l)
    BY <1>5 DEF Agree
  <1> HIDE DEF a
  <1>8. /\ relay' \in Relay /\ relay'.dropped = {} /\ relay'.hold = k.hold /\ RelayOK(relay')
        /\ relay'.hold # NoHold /\ ~relay'.shaped => First(relay'.hold, prov)
    <2>1. CASE msg.t = "hold"
      <3>1. relay' = fresh
        BY <1>1, <2>1
      <3>2. relay.hold = NoHold /\ msg.id > a.last /\ k.hold = msg.id
        BY <1>6, <2>1 DEF Finds, Turned
      <3>3. msg.id \in Nat /\ msg.again \in BOOLEAN
        BY <1>3 DEF Message
      <3>4. fresh \in Relay /\ fresh.hold = msg.id /\ fresh.dropped = relay.dropped /\ RelayOK(fresh)
        <4> DEFINE i == msg.id
                   b == msg.again
        <4>1. i \in Nat /\ b \in BOOLEAN
          BY <3>3
        <4> HIDE DEF i, b
        <4>2. LET d == [relay EXCEPT !.hold = i, !.again = b, !.shaped = FALSE, !.urgent = {}, !.awaiting = {}] IN
              d \in Relay /\ d.hold = i /\ d.dropped = relay.dropped /\ RelayOK(d)
          BY <1>2, <3>2, <4>1, RelayFresh, ZenonT(60)
        <4> QED BY <4>2 DEF i, b
      <3>5. First(msg.id, prov)
        <4>1. prov.out \in Seq(Frame) /\ prov.hold \in Nat /\ a.last \in Nat
          BY <1>2, <1>6, ProviderIs DEF Control
        <4>2. \A i \in DOMAIN prov.out : prov.out[i] \in Frame
          BY <4>1
        <4>3. \A i \in DOMAIN prov.out : prov.out[i].h \in Nat
          BY <4>2, FrameIs
        <4>4. \A i \in DOMAIN prov.out : prov.out[i].h # msg.id
          BY <1>6, <1>7, <3>2, <3>3, <4>1, <4>3 DEF Bounded
        <4> DEFINE h == msg.id
        <4> HIDE DEF h
        <4>5. \A i \in DOMAIN prov.out : prov.out[i].h # h
          BY <4>4 DEF h
        <4>6. Fold(Seen(h), prov.out, 0) = 0
          BY <4>1, <4>5, NotSeen
        <4>7. prov.hold # h
          BY <1>6, <1>7, <3>2, <3>3, <4>1 DEF h
        <4>8. First(h, prov)
          BY <4>6, <4>7 DEF First
        <4> QED BY <4>8 DEF h
      <3> HIDE DEF fresh, msg, k
      <3> QED BY <1>2, <3>1, <3>2, <3>4, <3>5
    <2>2. CASE msg.t = "unsub"
      <3> DEFINE e == Forget(relay, Keys)
      <3>1. relay' = [e EXCEPT !.awaiting = {}]
        BY <1>1, <2>2
      <3>2. Kept(relay, e) /\ e.dropped = relay.dropped
        BY <1>2, RelayIs, ForgetIs
      <3> HIDE DEF e
      <3>3. e \in Relay /\ e.hold = relay.hold /\ e.shaped = relay.shaped
        BY <1>2, <3>2 DEF Kept
      <3>4. /\ relay' \in Relay /\ relay'.hold = relay.hold /\ relay'.dropped = {}
            /\ relay'.order = e.order /\ relay'.slots = e.slots
        BY <1>2, <3>1, <3>2, <3>3 DEF Relay
      <3>5. relay'.shaped = e.shaped
        BY <3>1, <3>3 DEF Relay
      <3>6. RelayOK(relay')
        <4> DEFINE d == relay'
        <4>1. d \in Relay /\ d.order = Forget(relay, Keys).order /\ d.slots = Forget(relay, Keys).slots
          BY <3>4 DEF e
        <4> HIDE DEF d
        <4>2. RelayOK(d)
          BY <1>2, <4>1, RelayEmptied
        <4> QED BY <4>2 DEF d
      <3>7. relay.hold # NoHold /\ ~relay.shaped => First(relay.hold, prov)
        BY <1>2 DEF ShapeFirst
      <3>8. k.hold = relay.hold
        BY <1>6, <2>2 DEF Turned, Control
      <3> HIDE DEF k
      <3> QED BY <3>3, <3>4, <3>5, <3>6, <3>7, <3>8
    <2>3. CASE msg.t = "sub"
      <3>1. relay' = relay
        BY <1>1, <2>3
      <3>2. k.hold = relay.hold
        BY <1>6, <2>3 DEF Turned, Control
      <3>3. relay.hold # NoHold /\ ~relay.shaped => First(relay.hold, prov)
        BY <1>2 DEF ShapeFirst
      <3> HIDE DEF k
      <3> QED BY <1>2, <3>1, <3>2, <3>3
    <2> QED BY <1>4, <2>1, <2>2, <2>3
  <1> HIDE DEF k, fresh, ended, msg
  <1>9. TypeOK'
    BY <1>1, <1>3, <1>8 DEF IInv, TypeOK
  <1>10. RequestsOK'
    <2>1. Agree(l, prov', relay', cons', passed', asked', events')
      BY <1>1, <1>6, <1>8
    <2> QED BY <1>1, <1>4, <2>1 DEF RequestsOK
  <1>11. ShapeFirst' /\ ProvOK(prov, variant)' /\ RelayOK(relay)' /\ ConsOK(cons)'
    BY <1>1, <1>8 DEF IInv, ShapeFirst, ProvOK
  <1>12. Current'
    <2>1. Len(passed) + 1 \in DOMAIN passed' /\ passed'[Len(passed) + 1] = msg
      BY <1>1, <1>2, <1>3
    <2>2. msg.t # "resync"
      BY <1>4
    <2> QED BY <2>1, <2>2 DEF Current, Quiet
  <1> QED BY <1>9, <1>10, <1>11, <1>12 DEF IInv

-----------------------------------------------------------------------------
(* Steps of the consumer.                                                     *)

LEMMA ConsumerReceivesKeeps == ASSUME IInv, ConsumerReceives PROVE IInv'
  <1> DEFINE f == Head(relay.out)
             r == Taken(relay)
  <1>0. PICK unpacks \in BOOLEAN : cons' = Hears(cons, f, unpacks)
    BY DEF ConsumerReceives, Hears
  <1> DEFINE d == Hears(cons, f, unpacks)
  <1>1. /\ UNCHANGED <<val, invalid, variant, prov, asked, passed, events>> /\ relay.out # <<>>
        /\ relay' = r /\ cons' = d
    BY <1>0 DEF ConsumerReceives, Taken
  <1>2. /\ prov \in Provider /\ asked \in Seq(Message) /\ passed \in Seq(Message) /\ events \in Nat
        /\ relay \in Relay /\ relay.dropped = {} /\ RelayOK(relay) /\ SlotsOK(relay)
        /\ cons \in Consumer /\ ConsOK(cons) /\ ShapeFirst /\ variant \in SUBSET Members
        /\ FeedsOK(prov, variant) /\ relay \in Sender
        /\ Inbound(cons, relay) \in [Members -> Level] /\ ShapeIn(cons, relay) \in SUBSET Keys
    BY IInvIs, RelayIs DEF ObjectOK
  <1>3. /\ f \in Frame /\ r \in Relay /\ r.hold = relay.hold /\ r.dropped = {} /\ r.slots = relay.slots
        /\ r.shaped = relay.shaped /\ r.urgent = relay.urgent /\ SlotsOK(r) /\ WindowOK(r)
    <2> HIDE DEF f, r
    <2> QED BY <1>1, <1>2, TakenIs DEF f, r, RelayOK
  <1> HIDE DEF f, r
  <1>5. cons.status = "ended" => d.status = "ended"
    BY DEF Hears
  <1>6. Follows(cons, f, d)
    BY <1>2, <1>3, HearsFollows
  <1> HIDE DEF d
  <1>7. d \in Consumer /\ d.wish = cons.wish /\ d.hold = cons.hold /\ ConsOK(d)
    BY <1>6 DEF Follows
  <1>8. RelayOK(r)
    BY <1>2, <1>3 DEF RelayOK
  <1>9. TypeOK'
    BY <1>1, <1>3, <1>7 DEF IInv, TypeOK
  <1>10. RequestsOK'
    <2>1. PICK l \in Nat : Agree(l, prov, relay, cons, passed, asked, events)
      BY IInvIs DEF RequestsOK
    <2>2. Bounded(prov.out, l)
      BY <2>1 DEF Agree
    <2>3. <<>> \in Seq(Message) /\ \A i \in DOMAIN <<>> : <<>>[i].t = "resync"
      OBVIOUS
    <2>4. Agree(l, prov, r, d, passed \o <<>>, asked, events)
      <3> DEFINE q == <<>>
      <3>1. /\ q \in Seq(Message) /\ (\A i \in DOMAIN q : q[i].t = "resync") /\ events <= events
            /\ r.hold = relay.hold /\ d.hold = cons.hold /\ d.wish = cons.wish
        BY <1>2, <1>3, <1>7, <2>3
      <3> HIDE DEF q
      <3>2. Agree(l, prov, r, d, passed \o q, asked, events)
        BY <1>2, <2>1, <2>2, <3>1, AgreeStays
      <3> QED BY <3>2 DEF q
    <2>5. passed \o <<>> = passed
      BY <1>2
    <2>6. Agree(l, prov', relay', cons', passed', asked', events')
      BY <1>1, <2>4, <2>5
    <2> QED BY <1>1, <1>7, <2>6 DEF IInv, RequestsOK
  <1>11. ShapeFirst' /\ ProvOK(prov, variant)' /\ RelayOK(relay)' /\ ConsOK(cons)'
    BY <1>1, <1>2, <1>3, <1>7, <1>8 DEF IInv, ShapeFirst, ProvOK
  <1>12. Current'
    <2> SUFFICES ASSUME Quiet'
                 PROVE  /\ TellsValues(prov, val, Inbound(d, r), AskedAgain(passed))
                        /\ TellsShape(prov, variant, ShapeIn(d, r))
      BY <1>1 DEF Current
    <2>1. Quiet /\ cons.wish /\ d.status # "ended"
      BY <1>1, <1>5, <1>7 DEF Quiet
    <2> DEFINE in == Inbound(cons, relay)
               in2 == Inbound(d, r)
               again == AskedAgain(passed)
               u == ShapeIn(cons, relay)
    <2>3. TellsValues(prov, val, in, again) /\ TellsShape(prov, variant, u)
      BY <2>1, QuietIs
    <2>4. in \in [Members -> Level] /\ in2 \in [Members -> Level]
      BY <1>2, <1>3, <1>7, PassingIs
    <2>5. \A m \in Members : Leq(in[m], in2[m]) /\ (Known(in[m]) => Known(in2[m]))
      <3> TAKE m \in Members
      <3>1. in[m] = Passing(cons, relay, m) /\ in2[m] = Passing(d, r, m)
        BY <1>2, <1>3, <1>7, PassingIs
      <3>2. /\ Leq(Passing(cons, relay, m), Passing(d, r, m))
            /\ Known(Passing(cons, relay, m)) => Known(Passing(d, r, m))
        BY <1>1, <1>2, <1>6, <2>1, FollowsPassing DEF f, r
      <3> HIDE DEF in, in2
      <3> QED BY <3>1, <3>2
    <2>6. TellsShape(prov, variant, ShapeIn(d, r))
      BY <1>1, <1>2, <1>6, <2>1, <2>3, FollowsShape DEF f, r, FeedsOK
    <2> HIDE DEF in, in2, again, u
    <2>7. \A m \in Fed(prov) : (m \notin again => Leq(in[m], in2[m])) /\ (Known(in[m]) => Known(in2[m]))
      BY <2>5 DEF Fed
    <2>8. TellsValues(prov, val, in2, again)
      BY <1>2, <2>3, <2>4, <2>7, TellsMore
    <2> QED BY <2>6, <2>8 DEF in2, again
  <1> QED BY <1>9, <1>10, <1>11, <1>12 DEF IInv

LEMMA BindKeeps == ASSUME IInv, Bind PROVE IInv'
  <1> DEFINE d == [cons EXCEPT !.hold = events + 1]
             msg == Hold(events + 1, cons.wish, cons.applied)
  <1>1. /\ UNCHANGED <<val, invalid, variant, prov, relay, passed, events>> /\ cons.hold = NoHold
        /\ cons' = d /\ asked' = Append(asked, msg)
    BY DEF Bind
  <1>2. /\ prov \in Provider /\ passed \in Seq(Message) /\ asked \in Seq(Message) /\ events \in Nat
        /\ cons \in Consumer /\ ConsOK(cons)
    BY IInvIs
  <1>3. cons.wish \in BOOLEAN /\ cons.applied \in BOOLEAN
    BY <1>2 DEF Consumer
  <1>4. msg \in Message /\ msg.t = "hold" /\ msg.id = events + 1 /\ msg.state = cons.wish
    <2>1. msg.t # "resync"
      BY DEF Hold
    <2>2. msg.t = "hold" /\ msg.id = events + 1 /\ msg.state = cons.wish
      BY DEF Hold
    <2>3. msg \in [t : {"hold", "release", "sub", "unsub", "resync"}, id : Nat, state : BOOLEAN,
                   again : BOOLEAN, m : Members \cup {"none"}]
      BY <1>2, <1>3 DEF Hold
    <2> HIDE DEF msg
    <2> QED BY <2>1, <2>2, <2>3 DEF Message
  <1> HIDE DEF msg
  <1>5. d \in Consumer /\ d.hold = events + 1 /\ d.pending = cons.pending /\ d.members = cons.members
        /\ d.shape = cons.shape
    <2>1. events + 1 \in Nat
      BY <1>2
    <2>2. d \in Consumer
      BY <1>2, <2>1 DEF Consumer
    <2> QED BY <1>2, <2>2 DEF Consumer
  <1>6. d.wish = cons.wish
    BY <1>2 DEF Consumer
  <1> HIDE DEF d
  <1>7. ConsOK(d)
    BY <1>2, <1>5 DEF ConsOK
  <1>8. asked = <<>> /\ \A i \in DOMAIN asked' : asked'[i].t \in {"hold", "sub", "unsub"}
    <2>1. asked = <<>>
      BY <1>1 DEF IInv, RequestsOK
    <2> QED BY <1>1, <1>4, <2>1
  <1>9. asked' \in Seq(Message)
    BY <1>1, <1>2, <1>4
  <1>10. TypeOK'
    BY <1>1, <1>5, <1>9 DEF IInv, TypeOK
  <1>11. RequestsOK'
    <2>1. PICK l \in Nat : Agree(l, prov, relay, cons, passed, asked, events)
      BY IInvIs DEF RequestsOK
    <2> DEFINE z == AtConsumer(l, prov, passed, asked)
    <2>2. Agreed(AtRelay(l, prov, passed), z, l, prov, relay, cons, events)
      BY <1>2, <2>1, AgreeIs
    <2>3. z \in Control /\ z.hold = NoHold /\ z.last <= events
      <3>1. z \in Control /\ z.hold = cons.hold /\ z.last <= events + (IF cons.hold # NoHold THEN 1 ELSE 0)
        BY <2>2 DEF Agreed
      <3> HIDE DEF z
      <3>2. z.last \in Nat
        BY <3>1 DEF Control
      <3> QED BY <1>1, <1>2, <3>1, <3>2
    <2> HIDE DEF z
    <2>4. Finds(z, msg)
      <3>1. z.last \in Nat
        BY <2>3 DEF Control
      <3> QED BY <1>2, <1>4, <2>3, <3>1 DEF Finds
    <2>5. Turned(z, msg).hold = d.hold /\ Turned(z, msg).wants = d.wish
          /\ Turned(z, msg).last <= events + (IF d.hold # NoHold THEN 1 ELSE 0)
      BY <1>2, <1>4, <1>5, <1>6 DEF Turned, NoHold
    <2>6. Agree(l, prov, relay, d, passed, Append(asked, msg), events)
      BY <1>2, <1>4, <2>1, <2>4, <2>5, AgreeAsked DEF z
    <2>7. Agree(l, prov', relay', cons', passed', asked', events')
      BY <1>1, <2>6
    <2>8. cons'.hold # NoHold
      BY <1>1, <1>2, <1>5 DEF NoHold
    <2> QED BY <1>8, <2>7, <2>8 DEF RequestsOK
  <1>12. ShapeFirst' /\ ProvOK(prov, variant)' /\ RelayOK(relay)' /\ ConsOK(cons)'
    BY <1>1, <1>7 DEF IInv, ShapeFirst, ProvOK
  <1>13. Current'
    <2>1. asked' # <<>>
      BY <1>1, <1>2, <1>4
    <2> QED BY <2>1 DEF Current, Quiet
  <1> QED BY <1>10, <1>11, <1>12, <1>13 DEF IInv

\* What the consumer keeps when the last view that wants state goes, or the first comes.
Wished(c, on, o, l, y) ==
  [c EXCEPT !.wish = on, !.overlap = o, !.left = l, !.hydrated = y,
            !.members = IF on THEN @ ELSE Empty,
            !.pending.missing = IF on THEN @ ELSE {}]
LEMMA WishedIs ==
  ASSUME NEW c \in Consumer, ConsOK(c), NEW on \in BOOLEAN, NEW o \in BOOLEAN,
         NEW l \in SUBSET Members, NEW y \in BOOLEAN
  PROVE  LET d == Wished(c, on, o, l, y) IN
         d \in Consumer /\ d.wish = on /\ d.hold = c.hold /\ ConsOK(d)
  <1> DEFINE d == Wished(c, on, o, l, y)
             mem == IF on THEN c.members ELSE Empty
             mis == IF on THEN c.pending.missing ELSE {}
             pend == [c.pending EXCEPT !.missing = mis]
             e == [c EXCEPT !.wish = on, !.overlap = o, !.left = l, !.hydrated = y, !.members = mem,
                            !.pending = pend]
  <1>1. /\ mem \in Values /\ mis \in SUBSET Members
        /\ \A m \in Members : mem[m] = None \/ mem[m] = c.members[m]
    BY ConsumerIs, NoPendingIs DEF Values
  <1>2. c.pending \in Pendings
    BY DEF Consumer, Pendings
  <1>3. mis \subseteq c.pending.members /\ (~c.pending.on => mis = {})
    BY NoPendingIs DEF ConsOK
  <1>4. d = e
    BY DEF Wished
  <1> HIDE DEF mem, mis, d
  <1>5. pend \in Pendings /\ pend.members = c.pending.members /\ pend.missing = mis
    BY <1>1, <1>2 DEF Pendings
  <1>5a. pend.values = c.pending.values /\ pend.on = c.pending.on
    BY <1>1, <1>2 DEF Pendings
  <1>7. ~c.pending.on => pend = NoPending
    <2> SUFFICES ASSUME ~c.pending.on PROVE pend = NoPending
      OBVIOUS
    <2>1. c.pending = NoPending /\ mis = {}
      BY <1>3 DEF ConsOK
    <2>2. c.pending.missing = {}
      BY <2>1, NoPendingIs
    <2>3. [c.pending EXCEPT !.missing = {}] = c.pending
      BY <1>2, <2>2 DEF Pendings
    <2> QED BY <2>1, <2>3
  <1> HIDE DEF pend
  <1>8. e \in Consumer
    BY <1>1, <1>5 DEF Consumer, Pendings
  <1>9. e.wish = on /\ e.hold = c.hold /\ e.shape = c.shape /\ e.members = mem /\ e.pending = pend
    BY DEF Consumer
  <1> HIDE DEF e
  <1>10. ConsOK(e)
    <2>0. None # Failed
      BY DEF None, Failed
    <2>1. \A m \in Members : /\ e.members[m] # None => m \in e.shape
                             /\ e.members[m] # Failed /\ e.pending.values[m] # Failed
      BY <1>1, <1>5a, <1>9, <2>0 DEF ConsOK
    <2>2. ~e.pending.on => e.pending = NoPending
      BY <1>5a, <1>7, <1>9
    <2>3. e.pending.missing \subseteq e.pending.members
      BY <1>3, <1>5, <1>9
    <2> QED BY <2>1, <2>2, <2>3 DEF ConsOK
  <1> QED BY <1>4, <1>8, <1>9, <1>10 DEF d

LEMMA WishKeeps == ASSUME IInv, Wish PROVE IInv'
  <1> DEFINE on == ~cons.wish
             what == IF on THEN "sub" ELSE "unsub"
             msg == Request(what)
             o == IF on THEN Unsettled ELSE cons.overlap
             old == {m \in Members : on /\ cons.members[m] # None}
             y == cons.hydrated /\ on
             d == Wished(cons, on, o, old, y)
  <1>1. /\ UNCHANGED <<val, invalid, variant, prov, relay, passed>> /\ events < MaxEvents /\ events' = events + 1
        /\ cons' = d
        /\ asked' = IF cons.hold = NoHold THEN asked ELSE Append(asked, Request(IF on THEN "sub" ELSE "unsub"))
    BY DEF Wish, Wished
  <1>2. /\ prov \in Provider /\ passed \in Seq(Message) /\ asked \in Seq(Message) /\ events \in Nat
        /\ cons \in Consumer /\ ConsOK(cons) /\ events \in 0..MaxEvents
    BY IInvIs
  <1>3. /\ on \in BOOLEAN /\ o \in BOOLEAN /\ old \in SUBSET Members /\ y \in BOOLEAN
        /\ (on <=> ~cons.wish)
    BY <1>2 DEF Consumer, Unsettled
  <1>4. msg \in Message /\ msg.t = what /\ what \in {"sub", "unsub"}
    <2>1. what \in {"sub", "unsub"}
      OBVIOUS
    <2> HIDE DEF what
    <2>2. msg.t = what /\ msg.t # "resync"
      BY <2>1 DEF Request
    <2>3. msg \in [t : {"hold", "release", "sub", "unsub", "resync"}, id : Nat, state : BOOLEAN,
                   again : BOOLEAN, m : Members \cup {"none"}]
      BY <2>1 DEF Request
    <2> HIDE DEF msg
    <2> QED BY <2>1, <2>2, <2>3 DEF Message
  <1>5. asked' = IF cons.hold = NoHold THEN asked ELSE Append(asked, msg)
    BY <1>1
  <1>6. (what = "sub") <=> on
    OBVIOUS
  <1> HIDE DEF on, o, old, y
  <1>7. d \in Consumer /\ d.wish = on /\ d.hold = cons.hold /\ ConsOK(d)
    <2>1. cons \in Consumer /\ ConsOK(cons)
      BY <1>2
    <2>2. on \in BOOLEAN /\ o \in BOOLEAN /\ old \in SUBSET Members /\ y \in BOOLEAN
      BY <1>3
    <2> QED BY ONLY <2>1, <2>2, WishedIs
  <1> HIDE DEF msg, what, d
  <1>8. /\ cons.hold = NoHold => asked' = <<>>
        /\ \A i \in DOMAIN asked' : asked'[i].t \in {"hold", "sub", "unsub"}
    <2>1. /\ cons.hold = NoHold => asked = <<>>
          /\ \A i \in DOMAIN asked : asked[i].t \in {"hold", "sub", "unsub"}
      BY DEF IInv, RequestsOK
    <2>2. CASE cons.hold = NoHold
      BY <1>5, <2>1, <2>2
    <2>3. CASE cons.hold # NoHold
      <3>1. \A i \in DOMAIN asked' : asked'[i] = IF i = Len(asked) + 1 THEN msg ELSE asked[i]
        BY <1>2, <1>5, <2>3
      <3>2. \A i \in DOMAIN asked' : i # Len(asked) + 1 => i \in DOMAIN asked
        BY <1>2, <1>5, <2>3
      <3> QED BY <1>4, <2>1, <2>3, <3>1, <3>2
    <2> QED BY <2>2, <2>3
  <1>9. asked' \in Seq(Message) /\ events' \in 0..MaxEvents /\ events' \in Nat
    BY <1>1, <1>2, <1>4, <1>5, BoundsAssumption
  <1>10. TypeOK'
    BY <1>1, <1>7, <1>9 DEF IInv, TypeOK
  <1>11. RequestsOK'
    <2>1. PICK l \in Nat : Agree(l, prov, relay, cons, passed, asked, events)
      BY IInvIs DEF RequestsOK
    <2>2. CASE cons.hold = NoHold
      <3>1. Bounded(prov.out, l)
        BY <2>1 DEF Agree
      <3> DEFINE q == <<>>
                 n2 == events + 1
      <3>2. /\ q \in Seq(Message) /\ (\A i \in DOMAIN q : q[i].t = "resync") /\ events <= n2 /\ n2 \in Nat
        BY <1>2
      <3> HIDE DEF q, n2
      <3>3. Agree(l, prov, relay, d, passed \o q, asked, n2)
        BY <1>2, <1>7, <2>1, <2>2, <3>1, <3>2, AgreeStays
      <3>4. passed \o q = passed
        BY <1>2 DEF q
      <3>5. Agree(l, prov', relay', cons', passed', asked', events')
        BY <1>1, <1>5, <2>2, <3>3, <3>4 DEF n2
      <3> QED BY <1>1, <1>7, <1>8, <3>5 DEF RequestsOK
    <2>3. CASE cons.hold # NoHold
      <3> DEFINE z == AtConsumer(l, prov, passed, asked)
                 n2 == events + 1
      <3>1. Agreed(AtRelay(l, prov, passed), z, l, prov, relay, cons, events)
        BY <1>2, <2>1, AgreeIs
      <3>2. z \in Control /\ z.hold = cons.hold /\ z.wants = cons.wish /\ z.last <= events + 1
        BY <2>3, <3>1 DEF Agreed
      <3> HIDE DEF z
      <3>3. Finds(z, msg)
        <4>1. what = "sub" => ~z.wants
          BY <1>3, <1>6, <3>2
        <4>2. what = "unsub" => z.wants
          BY <1>2, <1>3, <1>6, <3>2 DEF Consumer
        <4> QED BY <1>4, <2>3, <3>2, <4>1, <4>2 DEF Finds
      <3>4. Turned(z, msg).hold = z.hold /\ Turned(z, msg).last = z.last
        <4>1. CASE what = "sub"
          BY <1>4, <3>2, <4>1 DEF Turned, Control
        <4>2. CASE what = "unsub"
          BY <1>4, <3>2, <4>2 DEF Turned, Control
        <4> QED BY <1>4, <4>1, <4>2
      <3>5. Turned(z, msg).wants = on
        <4>1. CASE what = "sub"
          <5>1. Turned(z, msg).wants = TRUE
            BY <1>4, <3>2, <4>1 DEF Turned, Control
          <5> QED BY <1>3, <1>6, <4>1, <5>1
        <4>2. CASE what = "unsub"
          <5>1. Turned(z, msg).wants = FALSE
            BY <1>4, <3>2, <4>2 DEF Turned, Control
          <5> QED BY <1>3, <1>6, <4>2, <5>1
        <4> QED BY <1>4, <4>1, <4>2
      <3>6. Turned(z, msg).last <= n2 + (IF d.hold # NoHold THEN 1 ELSE 0)
        <4>1. z.last \in Nat
          BY <3>2 DEF Control
        <4> QED BY <1>2, <1>7, <2>3, <3>2, <3>4, <4>1
      <3>7. /\ Turned(z, msg).hold = d.hold /\ (d.hold # NoHold => Turned(z, msg).wants = d.wish)
        BY <1>7, <3>2, <3>4, <3>5
      <3> HIDE DEF n2
      <3>8. Agree(l, prov, relay, d, passed, Append(asked, msg), n2)
        BY <1>2, <1>4, <2>1, <3>3, <3>6, <3>7, AgreeAsked DEF z
      <3>9. Agree(l, prov', relay', cons', passed', asked', events')
        BY <1>1, <1>5, <2>3, <3>8 DEF n2
      <3> QED BY <1>1, <1>7, <1>8, <3>9 DEF RequestsOK
    <2> QED BY <2>2, <2>3
  <1>12. ShapeFirst' /\ ProvOK(prov, variant)' /\ RelayOK(relay)' /\ ConsOK(cons)'
    BY <1>1, <1>7 DEF IInv, ShapeFirst, ProvOK
  <1>13. Current'
    <2>1. cons'.hold = NoHold \/ asked' # <<>>
      BY <1>1, <1>2, <1>4, <1>5, <1>7
    <2> QED BY <2>1 DEF Current, Quiet
  <1> QED BY <1>10, <1>11, <1>12, <1>13 DEF IInv

LEMMA LoseKeeps == ASSUME IInv, Lose PROVE IInv'
  <1> DEFINE d == [cons EXCEPT !.hold = NoHold, !.pending = NoPending,
                            !.status = IF @ = "ended" THEN @ ELSE "loading"]
             e == Forget(relay, Keys)
             r == [e EXCEPT !.out = <<>>, !.processed = 0, !.hold = NoHold, !.awaiting = {}]
  <1>1. /\ UNCHANGED <<val, invalid, variant, prov>> /\ events < MaxEvents /\ events' = events + 1
        /\ cons' = d /\ relay' = r /\ asked' = <<>>
        /\ passed' = IF relay.hold = NoHold THEN passed ELSE Append(passed, Request("release"))
    BY DEF Lose
  <1>2. /\ prov \in Provider /\ passed \in Seq(Message) /\ asked \in Seq(Message) /\ events \in Nat
        /\ cons \in Consumer /\ ConsOK(cons) /\ events \in 0..MaxEvents
        /\ relay \in Relay /\ relay.dropped = {}
    BY IInvIs
  <1>3. d \in Consumer /\ d.hold = NoHold /\ d.pending = NoPending /\ d.members = cons.members
        /\ d.shape = cons.shape
    <2>1. NoPending \in Pendings /\ NoHold \in Nat
      BY NoPendingIs DEF NoHold
    <2>2. d.hold = NoHold /\ d.pending = NoPending /\ d.members = cons.members /\ d.shape = cons.shape
      BY <1>2 DEF Consumer
    <2> HIDE DEF NoPending, NoHold
    <2>3. d \in Consumer
      BY <1>2, <2>1 DEF Consumer, Pendings
    <2> QED BY <2>2, <2>3
  <1> HIDE DEF d
  <1>4. ConsOK(d)
    <2>1. None # Failed
      BY DEF None, Failed
    <2>2. \A m \in Members : /\ d.members[m] # None => m \in d.shape
                             /\ d.members[m] # Failed /\ d.pending.values[m] # Failed
      BY <1>2, <1>3, <2>1, NoPendingIs DEF ConsOK
    <2>3. ~d.pending.on => d.pending = NoPending
      BY <1>3
    <2>4. d.pending.missing \subseteq d.pending.members
      BY <1>3, NoPendingIs
    <2> QED BY <2>2, <2>3, <2>4 DEF ConsOK
  <1>5. r \in Relay /\ r.hold = NoHold /\ r.dropped = {} /\ RelayOK(r)
    <2>1. Kept(relay, e) /\ e.dropped = relay.dropped
      BY <1>2, RelayIs, ForgetIs
    <2> HIDE DEF e
    <2>2. e \in Relay /\ <<>> \in Seq(Frame)
      BY <1>2, <2>1 DEF Kept
    <2>3. r \in Relay /\ r.hold = NoHold /\ r.dropped = {} /\ r.order = e.order /\ r.slots = e.slots
      BY <1>2, <2>1, <2>2 DEF Relay, NoHold
    <2> HIDE DEF r
    <2>4. r.order = Forget(relay, Keys).order /\ r.slots = Forget(relay, Keys).slots
      BY <2>3 DEF e
    <2>5. RelayOK(r)
      BY <1>2, <2>3, <2>4, RelayEmptied
    <2> QED BY <2>3, <2>5
  <1> HIDE DEF r
  <1>6. passed' \in Seq(Message)
    <2>1. Request("release") \in Message
      <3> DEFINE q == Request("release")
      <3>1. q \in [t : {"hold", "release", "sub", "unsub", "resync"}, id : Nat, state : BOOLEAN,
                   again : BOOLEAN, m : Members \cup {"none"}] /\ q.t # "resync"
        BY DEF Request
      <3> HIDE DEF q
      <3>2. q \in Message
        BY <3>1 DEF Message
      <3> QED BY <3>2 DEF q
    <2> QED BY <1>1, <1>2, <2>1
  <1>7. events' \in 0..MaxEvents /\ asked' \in Seq(Message)
    BY <1>1, <1>2, BoundsAssumption
  <1>8. TypeOK'
    BY <1>1, <1>3, <1>5, <1>6, <1>7 DEF IInv, TypeOK
  <1>9. RequestsOK'
    <2>1. PICK l \in Nat : Agree(l, prov, relay, cons, passed, asked, events)
      BY IInvIs DEF RequestsOK
    <2> DEFINE ps2 == IF relay.hold = NoHold THEN passed ELSE Append(passed, Request("release"))
    <2>2. Agree(l, prov, r, d, ps2, <<>>, events + 1)
      BY <1>2, <1>3, <1>5, <2>1, AgreeLost
    <2>3. Agree(l, prov', relay', cons', passed', asked', events')
      BY <1>1, <2>2
    <2> QED BY <1>1, <2>3 DEF RequestsOK
  <1>10. ShapeFirst' /\ ProvOK(prov, variant)' /\ RelayOK(relay)' /\ ConsOK(cons)'
    BY <1>1, <1>4, <1>5 DEF IInv, ShapeFirst, ProvOK
  <1>11. Current'
    BY <1>1, <1>3 DEF Current, Quiet
  <1> QED BY <1>8, <1>9, <1>10, <1>11 DEF IInv

-----------------------------------------------------------------------------
LEMMA InitHolds == Init => IInv
  <1> SUFFICES ASSUME Init PROVE IInv
    OBVIOUS
  <1> DEFINE none == [k \in Keys |-> Idle]
             zero == [m \in Members |-> 0]
  <1>1. /\ val = [m \in Members |-> 1] /\ variant \in Variants
        /\ prov = [out |-> <<>>, processed |-> 0, order |-> <<>>, slots |-> none,
                   provides |-> TRUE, dropped |-> {}, hold |-> NoHold, wants |-> FALSE, again |-> FALSE,
                   unitSent |-> FALSE, feeds |-> zero, next |-> 1]
        /\ relay = [out |-> <<>>, processed |-> 0, order |-> <<>>, slots |-> none,
                    provides |-> FALSE, dropped |-> {}, hold |-> NoHold, again |-> FALSE,
                    shaped |-> FALSE, urgent |-> {}, awaiting |-> {}]
        /\ cons = [wish |-> TRUE, hold |-> NoHold, status |-> "loading",
                   hydrated |-> FALSE, applied |-> FALSE, overlap |-> FALSE, shape |-> {}, members |-> Empty,
                   failed |-> {}, left |-> {}, pending |-> NoPending]
        /\ asked = <<>> /\ passed = <<>> /\ events = 0 /\ invalid = {}
    BY DEF Init
  <1>2. /\ none \in [Keys -> Slot] /\ \A k \in Keys : none[k] = Idle
        /\ zero \in [Members -> Nat] /\ \A m \in Members : zero[m] = 0
    BY IdleIs
  <1> HIDE DEF none, zero
  <1>3. /\ prov \in Provider /\ prov.out = <<>> /\ prov.order = <<>> /\ prov.slots = none
        /\ prov.hold = NoHold /\ prov.feeds = zero
    BY <1>1, <1>2 DEF Provider, NoHold
  <1>4. prov.wants = FALSE
    BY <1>1
  <1>5. /\ relay \in Relay /\ relay.out = <<>> /\ relay.order = <<>> /\ relay.slots = none
        /\ relay.hold = NoHold /\ relay.dropped = {} /\ relay.urgent = {}
    BY <1>1, <1>2 DEF Relay, NoHold
  <1>6. /\ cons \in Consumer /\ cons.hold = NoHold /\ cons.pending = NoPending /\ cons.members = Empty
    <2>1. NoPending \in Pendings /\ NoHold \in Nat /\ Empty \in Values
      BY NoPendingIs DEF NoHold, Values
    <2> HIDE DEF NoPending, NoHold, Empty
    <2>2. cons \in Consumer
      BY <1>1, <2>1 DEF Consumer, Pendings
    <2> QED BY <1>1, <2>2
  <1>7. TypeOK
    <2>1. val \in [Members -> Nat] /\ events \in 0..MaxEvents /\ invalid \in SUBSET Members
      BY <1>1, BoundsAssumption
    <2>2. asked \in Seq(Message) /\ passed \in Seq(Message)
      BY <1>1
    <2> QED BY <1>1, <1>3, <1>5, <1>6, <2>1, <2>2 DEF TypeOK
  <1>8. ASSUME NEW c, c.slots = none, c.order = <<>>
        PROVE  SlotsOK(c) /\ WindowOK(c) /\ (\A k : ~Waits(c, k)) /\ \A m \in Members : ~c.slots[m].lazy
    BY <1>2, <1>8, IdleIs DEF SlotsOK, WindowOK, Waits, Keys
  <1>9. ProvOK(prov, variant)
    <2>1. Fed(prov) = {}
      BY <1>2, <1>3 DEF Fed
    <2> QED BY <1>3, <1>8, <2>1 DEF ProvOK, FeedsOK
  <1>10. RelayOK(relay)
    BY <1>2, <1>5, <1>8 DEF RelayOK, Keys
  <1>11. ConsOK(cons)
    BY <1>6, NoPendingIs, LevelIs DEF ConsOK
  <1>12. RequestsOK
    <2> DEFINE a == AtRelay(0, prov, passed)
               s == Serving(prov, 0)
    <2>1. s \in Control /\ s.hold = prov.hold /\ s.last = 0
      BY <1>3, ServingIs
    <2> HIDE DEF s
    <2>2. a = s
      BY <1>1, FoldEmpty DEF AtRelay, s
    <2> HIDE DEF a
    <2>3. a = Fold(Turning, asked, a)
      BY <1>1, FoldEmpty
    <2>4. a.last <= events + (IF cons.hold # NoHold THEN 1 ELSE 0)
      BY <1>1, <2>1, <2>2
    <2>5. /\ prov.hold <= 0 /\ Bounded(prov.out, 0) /\ a.hold = relay.hold /\ a.hold = cons.hold
          /\ a \in Control
      BY <1>3, <1>5, <1>6, <2>1, <2>2 DEF Bounded, NoHold
    <2>6. Agree(0, prov, relay, cons, passed, asked, events)
      BY <1>6, <2>3, <2>4, <2>5, AgreeBy DEF a
    <2> QED BY <1>1, <2>6 DEF RequestsOK
  <1>13. ShapeFirst /\ Current
    BY <1>5, <1>6 DEF ShapeFirst, Current, Quiet
  <1> QED BY <1>7, <1>9, <1>10, <1>11, <1>12, <1>13 DEF IInv

LEMMA StepKeeps == IInv /\ [Next]_vars => IInv'
  <1> SUFFICES ASSUME IInv, [Next]_vars PROVE IInv'
    OBVIOUS
  <1>1. CASE ProviderServes
    BY <1>1, ProviderServesKeeps
  <1>2. CASE ProviderHearsAck
    BY <1>2, ProviderHearsAckKeeps
  <1>3. CASE RelayReceives
    BY <1>3, RelayReceivesKeeps
  <1>4. CASE RelayPasses
    BY <1>4, RelayPassesKeeps
  <1>5. CASE RelayHearsAck
    BY <1>5, RelayHearsAckKeeps
  <1>6. CASE ConsumerReceives
    BY <1>6, ConsumerReceivesKeeps
  <1>7. CASE Bind
    BY <1>7, BindKeeps
  <1>8. CASE Wish
    BY <1>8, WishKeeps
  <1>9. CASE Lose
    BY <1>9, LoseKeeps
  <1>10. ASSUME NEW m \in Members, NEW as \in {"ops", "reset"}, NEW fits \in BOOLEAN, Change(m, as, fits)
         PROVE  IInv'
    BY <1>10, ChangeKeeps
  <1>11. ASSUME NEW vs \in Variants, Reshape(vs) PROVE IInv'
    BY <1>11, ReshapeKeeps
  <1>12. CASE UNCHANGED vars
    BY <1>12 DEF vars, IInv, TypeOK, RequestsOK, ShapeFirst, Current, Quiet
  <1> QED BY <1>1, <1>2, <1>3, <1>4, <1>5, <1>6, <1>7, <1>8, <1>9, <1>10, <1>11, <1>12 DEF Next

\* What was sent and what is remembered agree in every reachable state, at whichever
\* end and on whichever link it is (connection.ts, remote.ts).
THEOREM Invariant == Spec => []IInv
  BY InitHolds, StepKeeps, PTL DEF Spec

\* Senders, the feeds, the relay's reference and the binding have their types: what a
\* provider keeps and what a relay keeps do not mix in their Connection.
THEOREM TypesHold == Spec => []TypeOK
  <1>1. IInv => TypeOK
    BY DEF IInv
  <1> QED BY <1>1, Invariant, PTL

\* With nothing on its way, nothing waits either.
LEMMA NothingWaits ==
  ASSUME NEW c \in Sender, SlotsOK(c), WindowOK(c), c.out = <<>>, c.processed = 0
  PROVE  /\ \A k : ~Waits(c, k)
         /\ \A m \in Members : c.slots[m] = Idle
         /\ \A m \in Members : \A hs : \A v : Reach(c, m, hs, v) = v
         /\ \A hs : \A S : Fold(Shaping(hs), c.out, S) = S
  <1>1. ~Full(c)
    BY BoundsAssumption DEF Full
  <1>2. \A k : ~Waits(c, k)
    BY <1>1, OrderIs DEF WindowOK
  <1>3. \A m \in Members : c.slots[m] = Idle
    BY <1>2 DEF SlotsOK, Keys
  <1>4. \A m \in Members : \A hs : \A v : Reach(c, m, hs, v) = v
    BY <1>3, FoldEmpty, IdleIs DEF Reach
  <1>5. \A hs : \A S : Fold(Shaping(hs), c.out, S) = S
    BY FoldEmpty
  <1> QED BY <1>2, <1>3, <1>4, <1>5

\* With nothing on its way a view that wants state, and that no error ended, sees the
\* members of the object's variant, unless a snapshot it waits for failed; and it sees, or
\* keeps for the shape that waits, the latest value of each member whose last snapshot or
\* reset did not fail: nothing that waited in a slot, was dropped for want of room or was
\* replaced by a newer one is forgotten (#flush, #drop, #shaped, RelayRef).
THEOREM RestCurrent == Spec => []RestIsCurrent
  <1>1. IInv => RestIsCurrent
    <2> DEFINE p == cons.pending
    <2> SUFFICES ASSUME IInv, AtRest, cons.wish, cons.status # "ended"
                 PROVE  /\ \/ cons.status = "live" /\ cons.hydrated /\ cons.shape = variant /\ ~p.on
                           \/ p.members = variant /\ p.missing \cap p.failed # {}
                        /\ \A m \in variant :
                             IF Awaits(cons, m) THEN m \in p.failed \/ p.values[m].n = val[m]
                             ELSE m \in cons.failed \/ cons.members[m].n = val[m]
      BY DEF RestIsCurrent
    <2>1. /\ cons.hold # NoHold /\ asked = <<>> /\ passed = <<>> /\ prov.out = <<>> /\ relay.out = <<>>
          /\ prov.processed = 0 /\ relay.processed = 0
      BY DEF AtRest
    <2>2. Quiet
      BY <2>1 DEF Quiet
    <2>3. /\ prov.hold # NoHold
          /\ TellsValues(prov, val, Inbound(cons, relay), AskedAgain(passed))
          /\ TellsShape(prov, variant, ShapeIn(cons, relay))
      BY <2>2, QuietIs
    <2>4. /\ prov \in Provider /\ prov \in Sender /\ SlotsOK(prov) /\ WindowOK(prov)
          /\ relay \in Relay /\ relay \in Sender /\ SlotsOK(relay) /\ WindowOK(relay)
          /\ cons \in Consumer /\ ConsOK(cons) /\ variant \in SUBSET Members
      BY IInvIs, ProviderIs, RelayIs DEF ObjectOK, FeedsOK, RelayOK
    <2>5. /\ \A k : ~Waits(prov, k)
          /\ \A m \in Members : prov.slots[m] = Idle
          /\ \A m \in Members : \A hs : \A v : Reach(prov, m, hs, v) = v
          /\ \A hs : \A S : Fold(Shaping(hs), prov.out, S) = S
      BY <2>1, <2>4, NothingWaits
    <2>6. /\ \A m \in Members : \A hs : \A v : Reach(relay, m, hs, v) = v
          /\ \A hs : \A S : Fold(Shaping(hs), relay.out, S) = S
      BY <2>1, <2>4, NothingWaits
    <2>7. Fed(prov) = variant /\ ShapeOf(cons) = variant
      BY <2>3, <2>5, <2>6 DEF TellsShape, ShapeIn
    <2>8. variant # NoShape
      BY <2>4, MembersAssumption DEF NoShape
    <2>9. ASSUME NEW m \in variant
          PROVE  /\ m \in Members /\ Start(cons, m) # None /\ Start(cons, m) # Unknown
                 /\ Start(cons, m) = Failed \/ Start(cons, m).n = val[m]
      <3> DEFINE x == Passing(cons, relay, m)
                 w == [s |-> prov.feeds[m], n |-> val[m]]
      <3>1. m \in Members /\ m \in Fed(prov) /\ prov.feeds[m] # 0 /\ prov.feeds[m] \in Nat
        BY <2>4, <2>7, ProviderIs
      <3>2. Inbound(cons, relay)[m] = x
        BY <2>4, <3>1, PassingIs
      <3>3. m \notin AskedAgain(passed) /\ ~prov.slots[m].lazy
        BY <2>1, <2>5, <3>1, IdleIs DEF AskedAgain
      <3>4. x \in {Failed, w}
        BY <2>3, <2>5, <3>1, <3>2, <3>3 DEF TellsValues
      <3>5. w # None /\ w # Unknown /\ w.n = val[m] /\ Failed # None /\ Failed # Unknown
        BY <3>1 DEF None, Unknown, Failed
      <3>6. x = IF m \in relay.awaiting /\ Known(Start(cons, m)) THEN None ELSE Start(cons, m)
        BY <2>6, <3>1 DEF Passing
      <3> HIDE DEF x, w
      <3>7. Start(cons, m) = x
        BY <3>4, <3>5, <3>6
      <3> QED BY <3>1, <3>4, <3>5, <3>7
    <2>10. ASSUME NEW m \in variant, Start(cons, m) = Here(cons, m)
           PROVE  m \in cons.failed \/ cons.members[m].n = val[m]
      <3>1. cons.members[m] # Failed
        BY <2>4, <2>9 DEF ConsOK
      <3> QED BY <2>9, <2>10, <3>1 DEF Here
    <2>11. CASE p.on
      <3>1. p.missing # {} /\ p.members = variant
        BY <2>7, <2>8, <2>11 DEF ShapeOf
      <3>2. PICK m \in p.missing : m \in variant
        BY <2>4, <3>1 DEF ConsOK
      <3>3. m \in p.failed
        BY <2>9, <2>11, <3>1, <3>2 DEF Start, Ready
      <3>4. ASSUME NEW k \in variant, Awaits(cons, k) PROVE k \in p.failed \/ p.values[k].n = val[k]
        <4>1. Start(cons, k) = Ready(p, k)
          BY <3>1, <3>4 DEF Start, Awaits
        <4>2. p.values[k] # Failed
          BY <2>4, <2>9 DEF ConsOK
        <4> QED BY <2>9, <4>1, <4>2 DEF Ready
      <3>5. ASSUME NEW k \in variant, ~Awaits(cons, k)
            PROVE  k \in cons.failed \/ cons.members[k].n = val[k]
        <4>1. Start(cons, k) = Here(cons, k)
          BY <2>11, <3>1, <3>5 DEF Start, Awaits
        <4> QED BY <2>10, <4>1
      <3> QED BY <3>1, <3>2, <3>3, <3>4, <3>5
    <2>12. CASE ~p.on
      <3>1. cons.status = "live" /\ cons.hydrated /\ cons.shape = variant
        BY <2>7, <2>8, <2>12 DEF ShapeOf
      <3>2. ASSUME NEW k \in variant
            PROVE  ~Awaits(cons, k) /\ (k \in cons.failed \/ cons.members[k].n = val[k])
        <4>1. Start(cons, k) = Here(cons, k)
          BY <2>12, <3>1 DEF Start
        <4> QED BY <2>10, <2>12, <4>1 DEF Awaits
      <3> QED BY <2>12, <3>1, <3>2
    <2> QED BY <2>11, <2>12
  <1> QED BY <1>1, Invariant, PTL

=============================================================================
