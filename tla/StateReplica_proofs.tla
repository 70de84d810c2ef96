-------------------------- MODULE StateReplica_proofs -----------------------
(* What a view reads follows the values the object has had: whatever waits,   *)
(* is dropped, sent again or awaited on the way, operations reach the value   *)
(* they were made for.  For every value of the constants of StateStream.      *)
EXTENDS StateStream_proofs

-----------------------------------------------------------------------------
(* What the consumer has of a member and what comes to it, one frame after    *)
(* the other.                                                                 *)

\* The values of m that are kept, as far as they came since a view asked, and no error
\* came instead of a later one: the one that is seen, and the one a shape will show.
Shown(c, m) == IF m \in c.failed \cup c.left THEN None ELSE c.members[m]
Ahead(c, m) == IF m \in c.pending.failed THEN None ELSE c.pending.values[m]

\* The one that the next operations of m apply to; if it is none of these, as much as
\* must be remembered of it.
Had(c, m) ==
  IF c.pending.values[m] = None THEN Shown(c, m)
  ELSE IF m \in c.pending.failed THEN Absent(Shown(c, m).n) ELSE c.pending.values[m]

\* What it is when all that the relay has for the consumer has come: the relay passes
\* on no operations of what it awaits.
Through(c, r, m) ==
  LET x == Trail(r, m, Nat, Had(c, m))
  IN IF m \in r.awaiting /\ Known(x) THEN Absent(x.n) ELSE x

Upto(v, n, m) == Known(v) /\ v.n <= n[m]

\* All that is on its way to the consumer c through the relay r fits, up to the values n;
\* what the provider p sends goes through while the relay holds what p serves.
Line(c, r, p, n, m) ==
  IF p.hold = r.hold /\ p.hold # NoHold THEN Tracks(p, n, m, Through(c, r, m))
  ELSE Upto(Through(c, r, m), n, m)

\* A view wants state, and when it asked nothing of an earlier wish was left.
Following(c) == c.wish /\ ~c.overlap /\ c.status # "ended"

LEMMA HadType ==
  ASSUME NEW c \in Consumer, NEW m \in Members
  PROVE  /\ Shown(c, m) \in Value /\ Ahead(c, m) \in Value /\ Had(c, m) \in Value
         /\ c.members[m] \in Value /\ c.pending.values[m] \in Value
         /\ Had(c, m) \in Level /\ Known(Had(c, m))
         /\ Shown(c, m).n \in Nat /\ Ahead(c, m).n \in Nat /\ Had(c, m).n \in Nat
  <1>1. c.members[m] \in Value /\ c.pending.values[m] \in Value /\ None \in Value
    BY ConsumerIs, LevelIs
  <1>2. Shown(c, m) \in Value /\ Ahead(c, m) \in Value
    BY <1>1 DEF Shown, Ahead
  <1>3. Shown(c, m).n \in Nat /\ Ahead(c, m).n \in Nat
    BY <1>2 DEF Value
  <1>4. Absent(Shown(c, m).n) \in Value
    BY <1>3, AbsentIs
  <1>5. Had(c, m) \in Value
    BY <1>1, <1>2, <1>4 DEF Had
  <1>6. \A v \in Value : v \in Level /\ Known(v) /\ v.n \in Nat
    BY LevelIs DEF Value, Level
  <1> QED BY <1>1, <1>2, <1>3, <1>5, <1>6

LEMMA KnownIs ==
  ASSUME NEW x \in Level, Known(x)
  PROVE  /\ x \in Value /\ x.n \in Nat /\ x.s \in Nat
         /\ Absent(x.n) \in Level /\ Known(Absent(x.n)) /\ Absent(x.n).n = x.n /\ Absent(x.n).s = 0
  <1>1. x \in Value
    BY LevelIs DEF Level
  <1> QED BY <1>1 DEF Value, Level, Known, Absent

LEMMA ThroughIs ==
  ASSUME NEW c \in Consumer, NEW r \in Relay, NEW m \in Members
  PROVE  Had(c, m) \in Level /\ Through(c, r, m) \in Level /\ Later(Had(c, m), Through(c, r, m))
  <1> DEFINE v == Had(c, m)
             x == Trail(r, m, Nat, v)
  <1>1. v \in Level
    BY HadType
  <1> HIDE DEF v
  <1>2. x \in Level /\ Later(v, x)
    BY <1>1, RelayIs, TrailIs
  <1> HIDE DEF x
  <1>3. Through(c, r, m) = IF m \in r.awaiting /\ Known(x) THEN Absent(x.n) ELSE x
    BY DEF Through, x, v
  <1>4. Known(x) => Absent(x.n) \in Level /\ Known(Absent(x.n)) /\ Absent(x.n).n = x.n
    BY <1>2, KnownIs
  <1> QED BY <1>1, <1>2, <1>3, <1>4 DEF Later, v

LEMMA TracksMore ==
  ASSUME NEW p \in Provider, NEW n \in [Members -> Nat], NEW m \in Members,
         NEW v \in Level, NEW w \in Level, Bears(v, w), Tracks(p, n, m, v)
  PROVE  Tracks(p, n, m, w)
  <1> DEFINE x == Trail(p, m, {p.hold}, v)
             y == Trail(p, m, {p.hold}, w)
  <1>1. p \in Sender /\ n[m] \in Nat
    BY ProviderIs
  <1>2. x \in Level /\ y \in Level /\ Bears(x, y)
    BY <1>1, TrailIs
  <1>3. /\ Known(x) /\ x.n <= n[m]
        /\ m \in Fed(p) => p.slots[m].lazy \/ x.s = 0 \/ x = [s |-> p.feeds[m], n |-> n[m]]
    BY DEF Tracks
  <1> HIDE DEF x, y
  <1>4. Known(y) /\ y.n <= n[m] /\ (y = x \/ y.s = 0)
    BY <1>1, <1>2, <1>3, BearsKnown
  <1> QED BY <1>3, <1>4 DEF Tracks, y

LEMMA LineUpto ==
  ASSUME NEW c \in Consumer, NEW r \in Relay, NEW p \in Provider, NEW n \in [Members -> Nat],
         NEW m \in Members, Line(c, r, p, n, m)
  PROVE  Upto(Through(c, r, m), n, m)
  <1> DEFINE v == Through(c, r, m)
             x == Trail(p, m, {p.hold}, v)
  <1>1. v \in Level
    BY ThroughIs
  <1>2. CASE Tracks(p, n, m, v)
    <2> HIDE DEF v
    <2>1. x \in Level /\ Later(v, x)
      BY <1>1, ProviderIs, TrailIs
    <2>2. Known(x) /\ x.n <= n[m]
      BY <1>2 DEF Tracks
    <2> HIDE DEF x
    <2>3. Known(v) /\ v.n <= x.n
      BY <2>1, <2>2 DEF Later
    <2>4. v.n \in Nat /\ x.n \in Nat /\ n[m] \in Nat
      BY <1>1, <2>1, <2>2, <2>3, KnownIs
    <2> QED BY <2>2, <2>3, <2>4 DEF Upto, v
  <1> QED BY <1>2 DEF Line

LEMMA LineMore ==
  ASSUME NEW c \in Consumer, NEW r \in Relay, NEW p \in Provider, NEW n \in [Members -> Nat],
         NEW m \in Members, Line(c, r, p, n, m), NEW c2 \in Consumer, NEW r2 \in Relay, r2.hold = r.hold,
         Bears(Through(c, r, m), Through(c2, r2, m))
  PROVE  Line(c2, r2, p, n, m)
  <1> DEFINE v == Through(c, r, m)
             w == Through(c2, r2, m)
  <1>1. v \in Level /\ w \in Level /\ n[m] \in Nat
    BY ThroughIs
  <1> HIDE DEF v, w
  <1>2. Tracks(p, n, m, v) => Tracks(p, n, m, w)
    BY <1>1, TracksMore DEF v, w
  <1>3. Upto(v, n, m) => Upto(w, n, m)
    BY <1>1, BearsKnown DEF Upto, v, w
  <1> QED BY <1>2, <1>3 DEF Line, v, w

LEMMA LineOn ==
  ASSUME NEW c \in Consumer, NEW r \in Relay, NEW p \in Provider, NEW n \in [Members -> Nat],
         NEW m \in Members, Line(c, r, p, n, m), NEW d \in Provider, d.hold = p.hold,
         NEW n2 \in [Members -> Nat], n[m] <= n2[m], TracksOn(p, n, d, n2)
  PROVE  Line(c, r, d, n2, m)
  <1> DEFINE v == Through(c, r, m)
  <1>1. v \in Level /\ n[m] \in Nat /\ n2[m] \in Nat
    BY ThroughIs
  <1> HIDE DEF v
  <1>2. Tracks(p, n, m, v) => Tracks(d, n2, m, v)
    BY <1>1 DEF TracksOn
  <1>3. Upto(v, n, m) => Upto(v, n2, m)
    BY <1>1, KnownIs DEF Upto
  <1> QED BY <1>2, <1>3 DEF Line, v

\* A request opens a hold that no frame before it is of, or the hold stays or ends.
LEMMA TurnsHold ==
  ASSUME NEW q \in Seq(Message), NEW c \in Control, Fold(Turning, q, c) # Wrong
  PROVE  LET d == Fold(Turning, q, c) IN d.hold = NoHold \/ d.hold = c.hold \/ d.hold > c.last
  <1> DEFINE S == {d \in Controls : d # Wrong =>
                     /\ d \in Control /\ d.last >= c.last
                     /\ d.hold = NoHold \/ d.hold = c.hold \/ d.hold > c.last}
  <1>1. c \in S
    BY DEF Control, Controls
  <1>2. ASSUME NEW d \in S, NEW msg \in Message PROVE Turning[<<d, msg>>] \in S
    <2> DEFINE e == Turn(d, msg)
    <2>1. /\ d \in Controls
          /\ d # Wrong => /\ d \in Control /\ d.last >= c.last
                          /\ d.hold = NoHold \/ d.hold = c.hold \/ d.hold > c.last
      OBVIOUS
    <2>2. /\ Turning[<<d, msg>>] = e /\ e \in Controls
          /\ e # Wrong => /\ d \in Control /\ e \in Control /\ e.last >= d.last
                          /\ Finds(d, msg) /\ e = Turned(d, msg)
      BY <2>1, TurnIs
    <2> HIDE DEF e
    <2>3. ASSUME e # Wrong
          PROVE  /\ e \in Control /\ e.last >= c.last
                 /\ e.hold = NoHold \/ e.hold = c.hold \/ e.hold > c.last
      <3>1. d \in Control /\ e \in Control /\ e.last >= d.last /\ Finds(d, msg) /\ e = Turned(d, msg)
        BY <2>2, <2>3
      <3>2. d.last >= c.last /\ (d.hold = NoHold \/ d.hold = c.hold \/ d.hold > c.last)
        BY <2>1, <3>1, WrongIsNot
      <3>3. c.last \in Nat /\ d.last \in Nat /\ e.last \in Nat /\ msg.id \in Nat
        BY <3>1 DEF Control, Message
      <3>4. e.hold = NoHold \/ e.hold = d.hold \/ (e.hold = msg.id /\ msg.id > d.last)
        BY <3>1 DEF Turned, Finds, Message, Control
      <3> QED BY <3>1, <3>2, <3>3, <3>4
    <2> QED BY <2>2, <2>3
  <1> HIDE DEF S
  <1>3. Fold(Turning, q, c) \in S
    BY <1>1, <1>2, FoldStays
  <1> QED BY <1>3 DEF S

LEMMA OldFrames ==
  ASSUME NEW p \in Provider, NEW l \in Nat, NEW ps \in Seq(Message), NEW as \in Seq(Message),
         NEW r, NEW c, NEW n, Agree(l, p, r, c, ps, as, n)
  PROVE  r.hold = NoHold \/ r.hold = p.hold \/ \A i \in DOMAIN p.out : p.out[i].h # r.hold
  <1> DEFINE a == AtRelay(l, p, ps)
             b == AtConsumer(l, p, ps, as)
  <1>1. Agreed(a, b, l, p, r, c, n)
    BY AgreeIs
  <1>2. a = Fold(Turning, ps, Serving(p, l))
    BY DEF AtRelay
  <1> HIDE DEF a, b
  <1>6. a \in Control /\ a.hold = r.hold /\ Bounded(p.out, l)
    BY <1>1 DEF Agreed
  <1>3. /\ Serving(p, l) \in Control /\ Serving(p, l).hold = p.hold
        /\ Serving(p, l).last = l
    BY ServingIs
  <1>4. a.hold = NoHold \/ a.hold = p.hold \/ a.hold > l
    BY <1>2, <1>3, <1>6, TurnsHold, WrongIsNot
  <1>5. \A i \in DOMAIN p.out : p.out[i].h \in Nat
    BY ProviderIs, FrameIs
  <1> QED BY <1>4, <1>5, <1>6 DEF Bounded, Control

LEMMA TakenTrail ==
  ASSUME NEW c \in Sender, c.out # <<>>, NEW m \in Members, NEW hs, NEW v \in Level
  PROVE  LET d == Taken(c)
             f == Head(c.out)
             w == IF f.h \in hs THEN Told(v, m, f) ELSE v IN
         w \in Level /\ Trail(d, m, hs, w) = Trail(c, m, hs, v)
  <1> DEFINE d == Taken(c)
             f == Head(c.out)
             w == IF f.h \in hs THEN Told(v, m, f) ELSE v
             g == Telling(m, hs)
  <1>1. f \in Frame /\ d.out = Tail(c.out) /\ d.slots = c.slots
    BY TakenIs
  <1>2. c.out \in Seq(Frame) /\ c.out # <<>>
    BY SenderIs
  <1>3. g[<<v, f>>] = w /\ w \in Level
    BY <1>1, TellingAt
  <1> HIDE DEF d, g, w
  <1>4. Fold(g, c.out, v) = Fold(g, Tail(c.out), g[<<v, f>>])
    BY <1>2, FoldHead
  <1>5. Fold(g, c.out, v) = Fold(g, d.out, w)
    BY <1>1, <1>3, <1>4
  <1>6. Trail(d, m, hs, w) = Trail(c, m, hs, v)
    BY <1>1, <1>5 DEF Trail, g
  <1> QED BY <1>3, <1>6 DEF d, w

LEMMA TakenTracks ==
  ASSUME NEW p \in Provider, p.out # <<>>, NEW n, NEW m \in Members, NEW v \in Level,
         Tracks(p, n, m, v)
  PROVE  LET f == Head(p.out)
             w == IF f.h = p.hold THEN Told(v, m, f) ELSE v IN
         w \in Level /\ Tracks(Taken(p), n, m, w)
  <1> DEFINE f == Head(p.out)
             d == Taken(p)
             w == IF f.h = p.hold THEN Told(v, m, f) ELSE v
             u == IF f.h \in {p.hold} THEN Told(v, m, f) ELSE v
  <1>1. p \in Sender
    BY ProviderIs
  <1>2. d.hold = p.hold /\ d.feeds = p.feeds /\ d.slots = p.slots
    BY <1>1, TakenIs
  <1>3. w = u
    OBVIOUS
  <1>4. u \in Level /\ Trail(d, m, {p.hold}, u) = Trail(p, m, {p.hold}, v)
    BY <1>1, TakenTrail
  <1> HIDE DEF d, u, w
  <1>5. Tracks(d, n, m, w)
    BY <1>2, <1>3, <1>4 DEF Tracks, Fed
  <1> QED BY <1>3, <1>4, <1>5 DEF d, w

\* What the relay has for the consumer once a frame of its hold has come.
LEMMA SendsThrough ==
  ASSUME NEW r \in Relay, RelayOK(r), r.dropped = {}, NEW f \in Frame, f.t = "state", f.h = r.hold,
         f.m \notin r.awaiting \/ f.as # "ops",
         NEW d, NEW K \in SUBSET Members, Sends(Freed(r, f.m), d, f, K),
         NEW c \in Consumer, NEW m \in Members
  PROVE  Bears(Told(Through(c, r, m), m, f), Through(c, Again(d), m))
  <1> DEFINE q == Freed(r, f.m)
             e == Again(d)
             v == Had(c, m)
             X == Trail(r, m, Nat, v)
             Y == Trail(d, m, Nat, v)
             P == Through(c, r, m)
             Q == Through(c, e, m)
  <1>1. f.m \in Members /\ f.at \in Value
    BY FrameIs
  <1>2. /\ q \in Relay /\ q.out = r.out /\ q.slots = r.slots /\ q.hold = r.hold
        /\ q.dropped = {} /\ q.awaiting = r.awaiting \ {f.m}
    BY <1>1, FreedIs
  <1>3. Sends(q, d, f, K) /\ v \in Level
    BY ThroughIs
  <1> HIDE DEF q
  <1>4. d \in Relay /\ d.awaiting = r.awaiting \ {f.m} /\ d.dropped = K
    <2>1. Kept(q, d)
      BY <1>3 DEF Sends
    <2>2. ~q.provides
      BY <1>2, RelayIs
    <2>3. d.dropped = q.dropped \cup K
      BY <1>3, <2>2 DEF Sends
    <2> QED BY <1>2, <2>1, <2>3 DEF Kept
  <1>5. /\ e \in Relay /\ e.awaiting = d.awaiting \cup K /\ e.out = d.out /\ e.slots = d.slots
    BY <1>4, AgainIs
  <1> HIDE DEF e
  <1>6. Trail(q, m, Nat, v) = X /\ Trail(e, m, Nat, v) = Y
    BY <1>2, <1>5 DEF Trail
  <1>7. P = IF m \in r.awaiting /\ Known(X) THEN Absent(X.n) ELSE X
    BY DEF Through
  <1>8. Q = IF m \in e.awaiting /\ Known(Y) THEN Absent(Y.n) ELSE Y
    BY <1>6 DEF Through
  <1>9. X \in Level /\ Y \in Level /\ P \in Level /\ Q \in Level
    BY <1>3, <1>4, <1>5, RelayIs, TrailIs, ThroughIs
  <1>10. /\ m \in K => Later(Y, X)
         /\ m \notin K => IF m = f.m THEN Bears(Told(X, m, f), Y) ELSE Y = X
    <2>1. q.hold \in Nat
      BY <1>2, RelayIs
    <2>2. /\ m \in K => Later(Trail(d, m, Nat, v), Trail(q, m, Nat, v))
          /\ m \notin K => IF m = f.m THEN Bears(Told(Trail(q, m, Nat, v), m, f), Trail(d, m, Nat, v))
                            ELSE Trail(d, m, Nat, v) = Trail(q, m, Nat, v)
      BY <1>3, <2>1, SendsTrail
    <2> QED BY <1>6, <2>2
  <1> HIDE DEF v, X, Y, P, Q
  <1> SUFFICES Bears(Told(P, m, f), Q)
    BY DEF P, Q, e
  <1>11. /\ Known(X) => Known(Absent(X.n)) /\ Absent(X.n).n = X.n /\ Absent(X.n).s = 0 /\ X.n \in Nat
         /\ Known(Y) => Known(Absent(Y.n)) /\ Absent(Y.n).n = Y.n /\ Absent(Y.n).s = 0 /\ Y.n \in Nat
         /\ Known(P) => P.n \in Nat
    BY <1>9, KnownIs
  <1>12. CASE m \notin K /\ m # f.m
    <2>1. Y = X /\ (m \in e.awaiting <=> m \in r.awaiting)
      BY <1>4, <1>5, <1>10, <1>12
    <2>2. Q = P
      BY <1>7, <1>8, <2>1
    <2>3. Told(P, m, f) = P
      BY <1>9, <1>12, ToldIs
    <2> QED BY <2>2, <2>3 DEF Bears
  <1>13. CASE m \notin K /\ m = f.m
    <2>1. Q = Y /\ Bears(Told(X, m, f), Y)
      BY <1>4, <1>5, <1>8, <1>10, <1>13
    <2>2. Told(P, m, f) = Told(X, m, f)
      <3>1. CASE m \in r.awaiting /\ Known(X)
        <4>1. f.as # "ops" /\ P = Absent(X.n)
          BY <1>7, <1>13, <3>1
        <4> QED BY <1>11, <1>13, <3>1, <4>1 DEF Told
      <3>2. CASE ~(m \in r.awaiting /\ Known(X))
        BY <1>7, <3>2
      <3> QED BY <3>1, <3>2
    <2> QED BY <2>1, <2>2
  <1>14. CASE m \in K
    <2> DEFINE T == Told(P, m, f)
    <2>1. T \in Level /\ Later(P, T)
      BY <1>9, ToldIs
    <2> HIDE DEF T
    <2>2. ASSUME Known(T) PROVE Q.s = 0 /\ Q.n <= T.n
      <3>1. Known(P) /\ P.n <= T.n
        BY <2>1, <2>2 DEF Later
      <3>2. Known(X) /\ X.n = P.n
        BY <1>7, <1>11, <3>1
      <3>3. Known(Y) /\ Y.n <= X.n
        BY <1>10, <1>14, <3>2 DEF Later
      <3>4. Q = Absent(Y.n)
        BY <1>5, <1>8, <1>14, <3>3
      <3>5. T.n \in Nat
        BY <2>1, <2>2, KnownIs
      <3> QED BY <1>11, <3>1, <3>2, <3>3, <3>4, <3>5
    <2> QED BY <2>2 DEF Bears, T
  <1> QED BY <1>12, <1>13, <1>14

LEMMA RelayStateThrough ==
  ASSUME NEW r \in Relay, RelayOK(r), r.dropped = {}, NEW f \in Frame, f.t = "state", f.h = r.hold,
         NEW c \in Consumer, NEW m \in Members
  PROVE  Bears(Told(Through(c, r, m), m, f), Through(c, Again(RelayState(r, f)), m))
  <1> DEFINE q == Freed(r, f.m)
             d == RelayState(r, f)
  <1>1. f.m \in Members
    BY FrameIs
  <1>2. q \in Relay /\ q.hold = r.hold /\ q.slots = r.slots /\ RelayOK(q)
    BY <1>1, FreedIs
  <1>3. d = IF f.m \in r.awaiting /\ f.as = "ops" THEN r
            ELSE IF f.m \in r.urgent THEN Send(q, f) ELSE SendState(q, f)
    BY DEF RelayState, Freed
  <1> HIDE DEF d, q
  <1>4. CASE f.m \in r.awaiting /\ f.as = "ops"
    <2> DEFINE v == Had(c, m)
               X == Trail(r, m, Nat, v)
               P == Through(c, r, m)
    <2>1. Again(d) = r
      BY <1>3, <1>4 DEF Again, Relay
    <2>2. P \in Level /\ X \in Level
      BY ThroughIs, RelayIs, TrailIs
    <2>3. P = IF m \in r.awaiting /\ Known(X) THEN Absent(X.n) ELSE X
      BY DEF Through
    <2> HIDE DEF v, X, P
    <2>4. Told(P, m, f) = P
      <3>1. CASE m # f.m \/ ~Known(P)
        BY <2>2, <3>1, ToldIs
      <3>2. CASE m = f.m /\ Known(P)
        <4>1. Known(X) => Absent(X.n).s = 0
          BY <2>2, KnownIs
        <4>2. P.s = 0
          BY <1>4, <2>3, <3>2, <4>1
        <4> QED BY <1>4, <4>2 DEF Told
      <3> QED BY <3>1, <3>2
    <2> QED BY <2>1, <2>4 DEF Bears, P, d
  <1>5. CASE ~(f.m \in r.awaiting /\ f.as = "ops")
    <2>1. \E K \in SUBSET Members : Sends(q, d, f, K)
      <3>1. q \in Sender /\ SlotsOK(q) /\ WindowOK(q) /\ f.h = q.hold /\ ~q.provides
            /\ \A k \in Members : ~q.slots[k].lazy
        BY <1>2, RelayIs DEF RelayOK
      <3>2. CASE f.m \in r.urgent
        <4>1. q.slots[f.m] = Idle
          BY <1>1, <1>2, <3>2 DEF RelayOK
        <4>2. Sends(q, d, f, {})
          BY <1>3, <1>5, <3>1, <3>2, <4>1, SendSends
        <4> QED BY <4>2
      <3>3. CASE f.m \notin r.urgent
        <4>1. d = SendState(q, f)
          BY <1>3, <1>5, <3>3
        <4> QED BY <3>1, <4>1, SendStateIs
      <3> QED BY <3>2, <3>3
    <2>2. PICK K \in SUBSET Members : Sends(q, d, f, K)
      BY <2>1
    <2>3. Sends(Freed(r, f.m), d, f, K)
      BY <2>2 DEF q
    <2>4. Bears(Told(Through(c, r, m), m, f), Through(c, Again(d), m))
      BY <1>5, <2>3, SendsThrough
    <2> QED BY <2>4 DEF d
  <1> QED BY <1>4, <1>5

LEMMA RelayShapeThrough ==
  ASSUME NEW r \in Relay, r.dropped = {}, NEW f \in Frame, f.t = "shape",
         NEW c \in Consumer, NEW m \in Members
  PROVE  Told(Through(c, r, m), m, f) = Through(c, Again(RelayShape(r, f)), m)
  <1> DEFINE u == IF ~r.shaped /\ ~r.again THEN f.listed ELSE r.urgent
             q == [r EXCEPT !.shaped = TRUE, !.urgent = u]
             d == Send(q, f)
             e == Again(d)
             v == Had(c, m)
             x == Fold(Telling(m, Nat), r.out, v)
  <1>1. RelayShape(r, f) = d
    BY DEF RelayShape
  <1>2. u \in SUBSET Members
    BY FrameIs, RelayIs
  <1> HIDE DEF u
  <1>3. q \in Relay /\ q.out = r.out /\ q.slots = r.slots /\ q.awaiting = r.awaiting /\ q.dropped = {}
    BY <1>2 DEF Relay
  <1> HIDE DEF q
  <1>4. Kept(q, d) /\ d.out = Append(q.out, f) /\ d.slots = q.slots /\ d.dropped = q.dropped
    BY <1>3, RelayIs, SendIs
  <1> HIDE DEF d
  <1>5. d \in Relay /\ d.awaiting = r.awaiting /\ d.dropped = {} /\ d.out = Append(r.out, f) /\ d.slots = r.slots
    BY <1>3, <1>4 DEF Kept
  <1>12. e.awaiting = d.awaiting \cup d.dropped /\ e.out = d.out /\ e.slots = d.slots
    <2>1. d \in Relay
      BY <1>5
    <2> QED BY <2>1, AgainIs
  <1> HIDE DEF e
  <1>6. e.awaiting = r.awaiting /\ e.out = Append(r.out, f) /\ e.slots = r.slots
    BY <1>5, <1>12
  <1>7. v \in Level /\ x \in Level /\ r \in Sender
    BY ThroughIs, RelayIs, TellingIs
  <1>8. Fold(Telling(m, Nat), Append(r.out, f), v) = x
    <2>1. Fold(Telling(m, Nat), Append(r.out, f), v) = IF f.h \in Nat THEN Told(x, m, f) ELSE x
      BY <1>7, FoldTold
    <2>2. Told(x, m, f) = x
      BY <1>7, ToldIs
    <2> QED BY <2>1, <2>2
  <1>9. Trail(e, m, Nat, v) = Trail(r, m, Nat, v)
    BY <1>6, <1>8 DEF Trail
  <1> HIDE DEF x, v
  <1>10. Through(c, e, m) = Through(c, r, m)
    BY <1>6, <1>9 DEF Through, v
  <1>11. Told(Through(c, r, m), m, f) = Through(c, r, m)
    BY ThroughIs, ToldIs
  <1> QED BY <1>1, <1>10, <1>11 DEF e

LEMMA RelayFlushedThrough ==
  ASSUME NEW r \in Relay, RelayOK(r), NEW vs, NEW c \in Consumer, NEW m \in Members
  PROVE  LET d == Flush([r EXCEPT !.processed = 0], vs) IN Through(c, d, m) = Through(c, r, m)
  <1> DEFINE q == [r EXCEPT !.processed = 0]
             d == Flush(q, vs)
             v == Had(c, m)
  <1>1. /\ q \in Relay /\ q.out = r.out /\ q.slots = r.slots /\ q.order = r.order /\ q.hold = r.hold
        /\ q.awaiting = r.awaiting
    BY DEF Relay
  <1> HIDE DEF q
  <1>2. SlotsOK(q) /\ \A k \in Members : ~q.slots[k].lazy
    BY <1>1 DEF RelayOK, SlotsOK, Waits
  <1>3. Moved(q, d)
    BY <1>1, <1>2, RelayFlush
  <1> HIDE DEF d
  <1>4. SameTrail(q, d) /\ d.awaiting = r.awaiting
    BY <1>1, <1>3 DEF Moved, Kept
  <1>5. v \in Level /\ q.hold \in Nat
    BY <1>1, ThroughIs, RelayIs
  <1>6. Trail(d, m, Nat, v) = Trail(q, m, Nat, v)
    BY <1>4, <1>5 DEF SameTrail
  <1>7. Trail(q, m, Nat, v) = Trail(r, m, Nat, v)
    BY <1>1 DEF Trail
  <1> HIDE DEF v
  <1>8. Through(c, d, m) = Through(c, r, m)
    BY <1>4, <1>6, <1>7 DEF Through, v
  <1> QED BY <1>8 DEF d, q

-----------------------------------------------------------------------------
(* What the consumer makes of it.                                             *)

\* The values of m fit the object's values n, and each other: those that wait for a
\* shape are newer than those that are seen.
ValuesFit(c, n, m) ==
  LET a == Shown(c, m)
      b == Ahead(c, m) IN
  /\ (a.s = 0 => a = None) /\ (b.s = 0 => b = None)
  /\ a.n <= n[m] /\ b.n <= n[m]
  /\ a # None /\ b # None => a.n <= b.n

\* What is seen in d is not an earlier value than in c.
Grows(c, d, m) == Shown(c, m) # None /\ Shown(d, m) # None => Shown(c, m).n <= Shown(d, m).n

\* d is c when it has the value v of m, or none any more.
Fits(c, v, d, n, m) == ValuesFit(d, n, m) /\ Bears(v, Had(d, m)) /\ Grows(c, d, m)

\* Nothing of m differs.
Same(c, d, m) ==
  /\ d.members[m] = c.members[m] /\ d.pending.values[m] = c.pending.values[m]
  /\ m \in d.failed <=> m \in c.failed
  /\ m \in d.left <=> m \in c.left
  /\ m \in d.pending.failed <=> m \in c.pending.failed

LEMMA BearsTwice ==
  ASSUME NEW v \in Level, NEW w \in Level, NEW x \in Level, Bears(v, w), Bears(w, x)
  PROVE  Bears(v, x)
  <1>1. CASE v = w \/ w = x \/ ~Known(v)
    BY <1>1 DEF Bears
  <1>2. CASE v # w /\ w # x /\ Known(v)
    <2>1. w.s = 0 /\ w.n <= v.n
      BY <1>2 DEF Bears
    <2>2. Known(w)
      BY <2>1 DEF Known
    <2>3. x.s = 0 /\ x.n <= w.n
      BY <1>2, <2>2 DEF Bears
    <2>4. Known(x)
      BY <2>3 DEF Known
    <2>5. v.n \in Nat /\ w.n \in Nat /\ x.n \in Nat
      BY <1>2, <2>2, <2>4, KnownIs
    <2> QED BY <2>1, <2>3, <2>5 DEF Bears
  <1> QED BY <1>1, <1>2

\* What came after a value that is seen is no earlier one.
LEMMA HadIs ==
  ASSUME NEW c \in Consumer, NEW n \in [Members -> Nat], NEW m \in Members, ValuesFit(c, n, m)
  PROVE  /\ Shown(c, m).n <= Had(c, m).n /\ Had(c, m).n <= n[m] /\ n[m] \in Nat
         /\ c.pending.values[m] = None => Had(c, m) = Shown(c, m) /\ Ahead(c, m) = None
         /\ c.pending.values[m] # None /\ m \in c.pending.failed =>
              Had(c, m) = Absent(Shown(c, m).n) /\ Ahead(c, m) = None
         /\ c.pending.values[m] # None /\ m \notin c.pending.failed =>
              Had(c, m) = Ahead(c, m) /\ Ahead(c, m) = c.pending.values[m]
  <1> DEFINE a == Shown(c, m)
             b == Ahead(c, m)
             x == c.pending.values[m]
  <1>1. /\ a \in Value /\ b \in Value /\ a.n \in Nat /\ b.n \in Nat /\ n[m] \in Nat
    BY HadType
  <1>2. /\ a.n <= n[m] /\ b.n <= n[m] /\ (a # None /\ b # None => a.n <= b.n)
    BY DEF ValuesFit
  <1>3. /\ Had(c, m) = IF x = None THEN a ELSE IF m \in c.pending.failed THEN Absent(a.n) ELSE x
        /\ b = IF m \in c.pending.failed THEN None ELSE x
    BY DEF Had, Ahead
  <1>4. None.n = 0 /\ Absent(a.n).n = a.n
    BY DEF None, Absent
  <1> HIDE DEF a, b, x
  <1>5. a.n <= Had(c, m).n /\ Had(c, m).n <= n[m]
    BY <1>1, <1>2, <1>3, <1>4
  <1> QED BY <1>1, <1>3, <1>5 DEF a, b, x

LEMMA SameIs ==
  ASSUME NEW c, NEW d, NEW m, Same(c, d, m)
  PROVE  Shown(d, m) = Shown(c, m) /\ Ahead(d, m) = Ahead(c, m) /\ Had(d, m) = Had(c, m)
  <1>1. Shown(d, m) = Shown(c, m) /\ Ahead(d, m) = Ahead(c, m)
    BY DEF Same, Shown, Ahead
  <1> QED BY <1>1 DEF Same, Had

LEMMA FitsSame ==
  ASSUME NEW c \in Consumer, NEW n, NEW m \in Members, ValuesFit(c, n, m), NEW d, Same(c, d, m)
  PROVE  Fits(c, Had(c, m), d, n, m)
  <1>1. Shown(d, m) = Shown(c, m) /\ Ahead(d, m) = Ahead(c, m) /\ Had(d, m) = Had(c, m)
    BY SameIs
  <1>2. ValuesFit(d, n, m)
    BY <1>1 DEF ValuesFit
  <1>3. Shown(c, m).n \in Nat
    BY HadType
  <1> QED BY <1>1, <1>2, <1>3 DEF Fits, Bears, Grows

LEMMA ApplyFits ==
  ASSUME NEW c \in Consumer, NEW n \in [Members -> Nat], NEW m \in Members, ValuesFit(c, n, m)
  PROVE  Fits(c, Had(c, m), Apply(c), n, m)
  <1> DEFINE d == Apply(c)
             p == c.pending
             a == Shown(c, m)
             b == Ahead(c, m)
             v == Had(c, m)
             z == Shown(d, m)
  <1>1. /\ d \in Consumer /\ d.pending = NoPending
        /\ d.members[m] = IF m \notin p.members THEN None
                          ELSE IF p.values[m] # None THEN p.values[m] ELSE c.members[m]
        /\ m \in d.failed <=> /\ m \in p.members
                              /\ IF p.values[m] # None THEN m \in p.failed ELSE m \in c.failed
        /\ m \in d.left <=> m \in c.left /\ m \in p.members /\ p.values[m] = None
    BY ApplyIs
  <1>2. d.pending.values[m] = None /\ m \notin d.pending.failed
    BY <1>1, NoPendingIs
  <1> HIDE DEF d, p
  <1>3. z = IF m \notin p.members THEN None
            ELSE IF p.values[m] = None THEN a ELSE IF m \in p.failed THEN None ELSE p.values[m]
    BY <1>1 DEF Shown
  <1>4. Ahead(d, m) = None /\ Had(d, m) = z
    BY <1>2 DEF Ahead, Had
  <1>5. /\ a \in Value /\ b \in Value /\ z \in Value /\ a.n \in Nat /\ b.n \in Nat /\ v.n \in Nat /\ z.n \in Nat
        /\ n[m] \in Nat
    BY <1>1, HadType
  <1>6. /\ (a.s = 0 => a = None) /\ (b.s = 0 => b = None)
        /\ a.n <= n[m] /\ b.n <= n[m] /\ (a # None /\ b # None => a.n <= b.n)
    BY DEF ValuesFit
  <1>7. /\ p.values[m] = None => v = a
        /\ p.values[m] # None /\ m \notin p.failed => v = p.values[m] /\ b = p.values[m]
    BY HadIs DEF p
  <1>8. None.s = 0 /\ None.n = 0
    BY DEF None
  <1> HIDE DEF a, b, v, z
  <1>9. ValuesFit(d, n, m)
    <2>1. (z.s = 0 => z = None) /\ z.n <= n[m]
      BY <1>3, <1>5, <1>6, <1>7, <1>8
    <2> QED BY <1>4, <1>5, <1>8, <2>1 DEF ValuesFit, z
  <1>10. Bears(v, z)
    BY <1>3, <1>5, <1>7, <1>8 DEF Bears
  <1>11. a # None /\ z # None => a.n <= z.n
    BY <1>3, <1>5, <1>6, <1>7
  <1> QED BY <1>4, <1>9, <1>10, <1>11 DEF Fits, Grows, a, v, z, d

LEMMA FitsApply ==
  ASSUME NEW c \in Consumer, NEW d \in Consumer, NEW n \in [Members -> Nat], NEW m \in Members,
         Shown(d, m) = Shown(c, m), NEW v \in Level, Fits(c, v, d, n, m)
  PROVE  Fits(c, v, Apply(d), n, m)
  <1> DEFINE e == Apply(d)
  <1>1. ValuesFit(d, n, m) /\ Bears(v, Had(d, m))
    BY DEF Fits
  <1>2. e \in Consumer /\ ValuesFit(e, n, m) /\ Bears(Had(d, m), Had(e, m)) /\ Grows(d, e, m)
    BY <1>1, ApplyIs, ApplyFits DEF Fits
  <1> HIDE DEF e
  <1>3. Had(d, m) \in Level /\ Had(e, m) \in Level
    BY <1>2, HadType
  <1>4. Bears(v, Had(e, m))
    BY <1>1, <1>2, <1>3, BearsTwice
  <1>5. Grows(c, e, m)
    BY <1>2 DEF Grows
  <1> QED BY <1>2, <1>4, <1>5 DEF Fits, e

LEMMA ShapedFits ==
  ASSUME NEW c \in Consumer, NEW f \in Frame, f.t = "shape", NEW n \in [Members -> Nat],
         NEW m \in Members, ValuesFit(c, n, m)
  PROVE  Fits(c, Told(Had(c, m), m, f), Shaped(c, f), n, m)
  <1> DEFINE p == c.pending
             missing == IF c.wish THEN (f.listed \cup p.missing) \cap f.members ELSE {}
             pending == [p EXCEPT !.on = TRUE, !.members = f.members, !.missing = missing]
             d == [c EXCEPT !.pending = pending]
             e == Apply(d)
  <1>1. Shaped(c, f) = IF missing = {} THEN e ELSE d
    BY DEF Shaped
  <1> HIDE DEF e
  <1>2. f.members \in SUBSET Members /\ missing \in SUBSET Members
    BY FrameIs
  <1> HIDE DEF missing
  <1>3. pending \in Pendings /\ pending.values = p.values /\ pending.failed = p.failed
    <2>1. p \in Pendings
      BY DEF Consumer, Pendings
    <2> HIDE DEF p
    <2> QED BY <1>2, <2>1 DEF Pendings
  <1>4. pending.values = p.values /\ pending.failed = p.failed
    BY <1>3
  <1> HIDE DEF pending
  <1>5. /\ d \in Consumer /\ d.pending = pending /\ d.members = c.members /\ d.failed = c.failed
        /\ d.left = c.left
    BY <1>3 DEF Consumer, Pendings
  <1> HIDE DEF d, p
  <1>6. Had(c, m) \in Level /\ Told(Had(c, m), m, f) = Had(c, m)
    BY HadType, ToldIs
  <1>7. Same(c, d, m)
    BY <1>4, <1>5 DEF Same, p
  <1>8. Fits(c, Had(c, m), d, n, m)
    BY <1>7, FitsSame
  <1>9. Fits(c, Had(c, m), e, n, m)
    BY <1>5, <1>6, <1>7, <1>8, FitsApply, SameIs DEF e
  <1> QED BY <1>1, <1>6, <1>8, <1>9

\* Operations that fit a value give a later value of its stream.
LEMMA OpsApply ==
  ASSUME NEW v \in Value, v # None, v.s = 0 => v = None, NEW m \in Members,
         NEW f \in Frame, f.t = "state", f.m = m, f.as = "ops",
         NEW n \in [Members -> Nat], Upto(Told(v, m, f), n, m)
  PROVE  LET w == Applied(v, f.ops) IN
         /\ Told(v, m, f) = w /\ w \in Value /\ w.s # 0 /\ v.n <= w.n /\ w.n <= n[m]
         /\ v.n \in Nat /\ w.n \in Nat
  <1> DEFINE w == Applied(v, f.ops)
             j == Joined(v, f.ops)
  <1>1. v.s # 0 /\ Known(v) /\ v \in Level /\ f.ops \in Seq(Edit)
    BY FrameIs, LevelIs DEF Level
  <1>2. Told(v, m, f) = j
    BY <1>1 DEF Told
  <1>3. Known(j) /\ j.n <= n[m]
    BY <1>2 DEF Upto
  <1>4. Later(v, j) /\ j = w /\ j.s = v.s /\ j \in Level
    BY <1>1, <1>3, JoinedIs
  <1> HIDE DEF w, j
  <1>5. j \in Value /\ j.n \in Nat /\ v.n \in Nat
    BY <1>1, <1>3, <1>4, KnownIs
  <1> QED BY <1>1, <1>2, <1>3, <1>4, <1>5 DEF Later, w

LEMMA OpsFits ==
  ASSUME NEW c \in Consumer, NEW f \in Frame, f.t = "state", f.as = "ops",
         NEW n \in [Members -> Nat], NEW m \in Members, ValuesFit(c, n, m),
         Upto(Told(Had(c, m), m, f), n, m)
  PROVE  Fits(c, Told(Had(c, m), m, f), StateOps(c, f), n, m)
  <1> DEFINE p == c.pending
             k == f.m
             d == StateOps(c, f)
             x == c.pending.values[m]
             y == c.members[m]
             a == Shown(c, m)
             b == Ahead(c, m)
             v == Had(c, m)
             w == Told(v, m, f)
  <1>1. /\ k \in Members /\ p.values \in [Members -> Value] /\ c.members \in [Members -> Value]
        /\ f.ops \in Seq(Edit)
    BY FrameIs, ConsumerIs
  <1>2. /\ d.pending.values[m] = IF m = k /\ x # None THEN Applied(x, f.ops) ELSE x
        /\ d.members[m] = IF m = k /\ x = None /\ y # None THEN Applied(y, f.ops) ELSE y
        /\ d.failed = c.failed /\ d.left = c.left /\ d.pending.failed = p.failed
    <2>1. CASE p.values[k] # None
      <3>1. d = [c EXCEPT !.pending.values[k] = Applied(@, f.ops)]
        BY <2>1 DEF StateOps
      <3>2. /\ d.members = c.members /\ d.pending.values = [p.values EXCEPT ![k] = Applied(@, f.ops)]
            /\ d.failed = c.failed /\ d.left = c.left /\ d.pending.failed = p.failed
        BY <3>1 DEF Consumer
      <3> QED BY <1>1, <2>1, <3>2
    <2>2. CASE p.values[k] = None /\ c.members[k] # None
      <3>1. d = [c EXCEPT !.members[k] = Applied(@, f.ops)]
        BY <2>2 DEF StateOps
      <3>2. /\ d.pending = c.pending /\ d.members = [c.members EXCEPT ![k] = Applied(@, f.ops)]
            /\ d.failed = c.failed /\ d.left = c.left
        BY <3>1 DEF Consumer
      <3> QED BY <1>1, <2>2, <3>2
    <2>3. CASE p.values[k] = None /\ c.members[k] = None
      <3>1. d = c
        BY <2>3 DEF StateOps
      <3> QED BY <2>3, <3>1
    <2> QED BY <2>1, <2>2, <2>3
  <1>3. /\ a \in Value /\ b \in Value /\ v \in Value /\ v \in Level /\ Known(v) /\ x \in Value /\ y \in Value
        /\ a.n \in Nat /\ b.n \in Nat /\ v.n \in Nat /\ n[m] \in Nat
    BY HadType
  <1>4. /\ (a.s = 0 => a = None) /\ (b.s = 0 => b = None)
        /\ a.n <= n[m] /\ b.n <= n[m] /\ (a # None /\ b # None => a.n <= b.n)
    BY DEF ValuesFit
  <1>5. /\ x = None => v = a /\ b = None
        /\ x # None /\ m \in p.failed => v = Absent(a.n) /\ b = None
        /\ x # None /\ m \notin p.failed => v = x /\ b = x
    BY HadIs
  <1>6. /\ a = IF m \in c.failed \cup c.left THEN None ELSE y
        /\ Shown(d, m) = IF m \in c.failed \cup c.left THEN None ELSE d.members[m]
        /\ Ahead(d, m) = IF m \in p.failed THEN None ELSE d.pending.values[m]
        /\ Had(d, m) = IF d.pending.values[m] = None THEN Shown(d, m)
                       ELSE IF m \in p.failed THEN Absent(Shown(d, m).n) ELSE d.pending.values[m]
    BY <1>2 DEF Shown, Ahead, Had
  <1>7. Upto(w, n, m)
    OBVIOUS
  <1>8. /\ Applied(x, f.ops) \in Value /\ (x # None => Applied(x, f.ops) # None)
        /\ v.s = 0 => w = v
    <2>1. v.s = 0 => w = v
      BY <1>3 DEF Told
    <2> QED BY <1>1, <1>3, <2>1, AppliedIs
  <1>8a. Absent(a.n).s = 0 /\ None.s = 0 /\ None.n = 0
    BY DEF Absent, None
  <1> HIDE DEF d, w, v, a, b, x, y, p
  <1> SUFFICES Fits(c, w, d, n, m)
    BY DEF w, d, v
  <1>9. CASE v.s = 0 \/ m # k
    <2>1. w = v
      BY <1>3, <1>8, <1>9, ToldIs DEF w
    <2>2. Shown(d, m) = a
      <3>1. m = k /\ x = None => a = None
        BY <1>4, <1>5, <1>9
      <3> QED BY <1>2, <1>6, <1>9, <3>1
    <2>3. Ahead(d, m) = b /\ Had(d, m) = v
      <3>1. CASE m # k \/ x = None
        <4>1. d.pending.values[m] = x
          BY <1>2, <3>1
        <4> QED BY <1>5, <1>6, <2>2, <4>1
      <3>2. CASE m = k /\ x # None
        <4>1. m \in p.failed
          <5>1. ASSUME m \notin p.failed PROVE FALSE
            <6>1. x = None
              BY <1>4, <1>5, <1>9, <3>2, <5>1
            <6> QED BY <3>2, <6>1
          <5> QED BY <5>1
        <4>2. d.pending.values[m] # None
          BY <1>2, <1>8, <3>2
        <4> QED BY <1>5, <1>6, <2>2, <3>2, <4>1, <4>2
      <3> QED BY <3>1, <3>2
    <2>4. ValuesFit(d, n, m)
      BY <1>4, <2>2, <2>3 DEF ValuesFit
    <2>5. Grows(c, d, m)
      BY <1>3, <2>2 DEF Grows, a
    <2> QED BY <2>1, <2>3, <2>4, <2>5 DEF Fits, Bears
  <1>10. CASE v.s # 0 /\ m = k
    <2> DEFINE z == Applied(v, f.ops)
    <2>1. v # None /\ (v.s = 0 => v = None) /\ Upto(Told(v, m, f), n, m)
      BY <1>7, <1>8a, <1>10 DEF w
    <2>2. w = z /\ z \in Value /\ z.s # 0 /\ v.n <= z.n /\ z.n <= n[m] /\ z.n \in Nat
      BY <1>3, <1>10, <2>1, OpsApply DEF w
    <2>3. z # None
      BY <1>8a, <2>2
    <2> HIDE DEF z
    <2>4. CASE x # None
      <3>1. m \notin p.failed /\ v = x /\ b = x
        BY <1>5, <1>8a, <1>10, <2>4
      <3>2. d.pending.values[m] = z /\ d.members[m] = y
        BY <1>2, <1>10, <2>4, <3>1 DEF z
      <3>3. Shown(d, m) = a /\ Ahead(d, m) = z /\ Had(d, m) = z
        BY <1>6, <2>3, <3>1, <3>2
      <3>4. ValuesFit(d, n, m)
        BY <1>3, <1>4, <2>2, <2>4, <3>1, <3>3 DEF ValuesFit
      <3>5. Grows(c, d, m)
        BY <1>3, <3>3 DEF Grows, a
      <3> QED BY <2>2, <3>3, <3>4, <3>5 DEF Fits, Bears
    <2>5. CASE x = None
      <3>1. v = a /\ b = None /\ m \notin c.failed \cup c.left /\ a = y
        BY <1>5, <1>6, <1>8a, <1>10, <2>5
      <3>2. d.members[m] = z /\ d.pending.values[m] = None
        BY <1>2, <1>10, <2>1, <2>5, <3>1 DEF z
      <3>3. Shown(d, m) = z /\ Ahead(d, m) = None /\ Had(d, m) = z
        BY <1>6, <3>1, <3>2
      <3>4. ValuesFit(d, n, m)
        BY <1>3, <1>8a, <2>2, <3>3 DEF ValuesFit
      <3>5. Grows(c, d, m)
        BY <2>2, <3>1, <3>3 DEF Grows, a
      <3> QED BY <2>2, <3>3, <3>4, <3>5 DEF Fits, Bears
    <2> QED BY <2>4, <2>5
  <1> QED BY <1>9, <1>10

\* A value that fits is no earlier one.
LEMMA ToldValue ==
  ASSUME NEW v \in Level, Known(v), NEW m \in Members, NEW f \in Frame, f.t = "state", f.m = m,
         f.as \notin {"ops", "error"}, NEW n \in [Members -> Nat], Upto(Told(v, m, f), n, m)
  PROVE  /\ Told(v, m, f) = f.at /\ v.n <= f.at.n /\ f.at.n <= n[m]
         /\ f.at \in Value /\ f.at \in Level /\ f.at.s # 0 /\ f.at # None /\ f.at.n \in Nat
  <1>1. f.at \in Value /\ f.at.s # 0 /\ f.at.n \in Nat /\ f.at \in Level
    BY FrameIs DEF Frame, Value, Level
  <1>2. v.n \in Nat
    BY KnownIs
  <1>3. Told(v, m, f) = IF f.at.n < v.n THEN Unknown ELSE f.at
    BY DEF Told
  <1>4. Told(v, m, f) = f.at /\ v.n <= f.at.n
    BY <1>1, <1>2, <1>3, LevelIs DEF Upto
  <1>5. f.at # None
    BY <1>1 DEF None
  <1> QED BY <1>1, <1>4, <1>5 DEF Upto

LEMMA ValueFits ==
  ASSUME NEW c \in Consumer, ConsOK(c), NEW f \in Frame, f.t = "state", f.as \notin {"ops", "error"},
         NEW n \in [Members -> Nat], NEW m \in Members, ValuesFit(c, n, m),
         Upto(Told(Had(c, m), m, f), n, m)
  PROVE  Fits(c, Told(Had(c, m), m, f), StateValue(c, f), n, m)
  <1> DEFINE p == c.pending
             k == f.m
             z == [p.values EXCEPT ![k] = f.at]
             missing == p.missing \ {k}
             failed == p.failed \ {k}
             d == [c EXCEPT !.pending.values = z, !.pending.missing = missing, !.pending.failed = failed]
             g == [c EXCEPT !.members[k] = f.at, !.failed = @ \ {k}, !.left = @ \ {k}]
             e == StateValue(c, f)
             a == Shown(c, m)
             b == Ahead(c, m)
             v == Had(c, m)
             w == Told(v, m, f)
  <1>1. /\ k \in Members /\ f.at \in Value
        /\ p.values \in [Members -> Value] /\ c.members \in [Members -> Value]
    BY FrameIs, ConsumerIs
  <1>2. z \in [Members -> Value] /\ \A x \in Members : z[x] = IF x = k THEN f.at ELSE p.values[x]
    BY <1>1
  <1>3. /\ missing \in SUBSET Members /\ failed \in SUBSET Members
        /\ \A x : x \in failed <=> x \in p.failed /\ x # k
    BY ConsumerIs
  <1>4. /\ Awaits(c, k) => e = Apply(d) \/ e = d
        /\ ~Awaits(c, k) /\ k \in c.shape => e = g
        /\ ~Awaits(c, k) /\ k \notin c.shape => e = c
    <2>1. [c EXCEPT !.pending.values[k] = f.at, !.pending.missing = @ \ {k}, !.pending.failed = @ \ {k}] = d
      BY <1>1 DEF Consumer, Values
    <2> HIDE DEF d, missing, failed
    <2> QED BY <2>1 DEF StateValue
  <1>5. /\ g \in Consumer /\ g.pending = p
        /\ \A x \in Members : g.members[x] = IF x = k THEN f.at ELSE c.members[x]
        /\ \A x : x \in g.failed <=> x \in c.failed /\ x # k
        /\ \A x : x \in g.left <=> x \in c.left /\ x # k
    BY <1>1 DEF Consumer, Values
  <1> HIDE DEF e, g, z, missing, failed
  <1>6. /\ d \in Consumer /\ d.members = c.members /\ d.failed = c.failed /\ d.left = c.left
        /\ d.pending.values = z /\ d.pending.failed = failed
    BY <1>2, <1>3 DEF Consumer, Values
  <1>7. /\ a \in Value /\ b \in Value /\ v \in Level /\ Known(v) /\ v.n \in Nat /\ a.n \in Nat /\ b.n \in Nat
        /\ n[m] \in Nat
    BY HadType
  <1>8. /\ (a.s = 0 => a = None) /\ (b.s = 0 => b = None)
        /\ a.n <= n[m] /\ b.n <= n[m] /\ (a # None /\ b # None => a.n <= b.n)
        /\ a.n <= v.n
    BY HadIs DEF ValuesFit
  <1>9. /\ ~p.on => p.values[m] = None
        /\ c.members[m] # None => m \in c.shape
    <2>1. (~p.on => p = NoPending) /\ (c.members[m] # None => m \in c.shape)
      BY DEF ConsOK
    <2> QED BY <2>1, NoPendingIs
  <1>9a. None.s = 0 /\ None.n = 0
    BY DEF None
  <1>10. Upto(w, n, m)
    OBVIOUS
  <1> HIDE DEF d, w, v
  <1> SUFFICES Fits(c, w, e, n, m)
    BY DEF w, e, v
  <1>11. CASE m # k
    <2>1. w = v
      BY <1>7, <1>11, ToldIs DEF w
    <2>2. Same(c, c, m) /\ Same(c, d, m) /\ Same(c, g, m)
      BY <1>2, <1>3, <1>5, <1>6, <1>11 DEF Same
    <2>3. Fits(c, v, c, n, m) /\ Fits(c, v, d, n, m) /\ Fits(c, v, g, n, m)
      BY <2>2, FitsSame DEF v
    <2>4. Shown(d, m) = Shown(c, m)
      BY <2>2, SameIs
    <2>5. Fits(c, v, Apply(d), n, m)
      BY <1>6, <1>7, <2>3, <2>4, FitsApply
    <2> QED BY <1>4, <2>1, <2>3, <2>5
  <1>12. CASE m = k
    <2>1. /\ w = f.at /\ v.n <= f.at.n /\ f.at.n <= n[m] /\ f.at.s # 0 /\ f.at # None /\ f.at.n \in Nat
          /\ f.at \in Level
      BY <1>7, <1>10, <1>12, ToldValue DEF w
    <2>2. a.n <= f.at.n
      BY <1>7, <1>8, <2>1
    <2>3. CASE Awaits(c, k)
      <3>1. /\ Shown(d, m) = a /\ d.pending.values[m] = f.at /\ m \notin d.pending.failed
        BY <1>2, <1>3, <1>6, <1>12 DEF Shown
      <3>2. Ahead(d, m) = f.at /\ Had(d, m) = f.at
        BY <2>1, <3>1 DEF Ahead, Had
      <3> HIDE DEF a, b
      <3>3. ValuesFit(d, n, m)
        BY <1>7, <1>8, <2>1, <2>2, <3>1, <3>2 DEF ValuesFit
      <3>4. Grows(c, d, m)
        BY <1>7, <3>1 DEF Grows, a
      <3>5. Fits(c, w, d, n, m)
        BY <2>1, <3>2, <3>3, <3>4 DEF Fits, Bears
      <3>6. Fits(c, w, Apply(d), n, m)
        BY <1>6, <2>1, <3>1, <3>5, FitsApply DEF a
      <3> QED BY <1>4, <2>3, <3>5, <3>6
    <2>4. CASE ~Awaits(c, k)
      <3>1. p.values[m] = None /\ v = a
        <4>1. p.values[m] = None
          BY <1>9, <1>12, <2>4 DEF Awaits
        <4> QED BY <4>1, HadIs DEF v
      <3>2. CASE m \in c.shape
        <4>1. e = g
          BY <1>4, <1>12, <2>4, <3>2
        <4>2. Shown(g, m) = f.at /\ Ahead(g, m) = None /\ Had(g, m) = f.at
          BY <1>5, <1>12, <3>1 DEF Shown, Ahead, Had
        <4> HIDE DEF a, b
        <4>3. ValuesFit(g, n, m)
          BY <1>7, <1>9a, <2>1, <4>2 DEF ValuesFit
        <4>4. Grows(c, g, m)
          BY <2>2, <4>2 DEF Grows, a
        <4> QED BY <2>1, <4>1, <4>2, <4>3, <4>4 DEF Fits, Bears
      <3>3. CASE m \notin c.shape
        <4>1. e = c /\ v = None
          BY <1>4, <1>9, <1>12, <2>4, <3>1, <3>3 DEF Shown
        <4>2. Bears(w, v)
          BY <1>9a, <2>1, <4>1 DEF Bears
        <4>3. Grows(c, c, m)
          BY <1>7 DEF Grows
        <4> QED BY <4>1, <4>2, <4>3 DEF Fits, v
      <3> QED BY <3>2, <3>3
    <2> QED BY <2>3, <2>4
  <1> QED BY <1>11, <1>12

\* What fails to come as a value, at the provider or where it is unpacked.
LEMMA ErrorFits ==
  ASSUME NEW c \in Consumer, ConsOK(c), NEW f \in Frame, f.t = "state", f.as # "ops",
         NEW n \in [Members -> Nat], NEW m \in Members, ValuesFit(c, n, m),
         Upto(Told(Had(c, m), m, f), n, m), StateError(c, f.m).status # "ended"
  PROVE  Fits(c, Told(Had(c, m), m, f), StateError(c, f.m), n, m)
  <1> DEFINE p == c.pending
             k == f.m
             ready == IF Awaits(c, k) THEN p.failed \cup {k} ELSE p.failed
             failed == IF p.values[k] = None THEN c.failed \cup {k} ELSE c.failed
             d == [c EXCEPT !.pending.failed = ready, !.failed = failed]
             e == StateError(c, k)
             a == Shown(c, m)
             b == Ahead(c, m)
             v == Had(c, m)
             w == Told(v, m, f)
  <1>1. k \in Members
    BY FrameIs
  <1>2. ready \in SUBSET Members /\ failed \in SUBSET Members
    BY <1>1, ConsumerIs
  <1>3. \A x : /\ x \in ready <=> x \in p.failed \/ (x = k /\ Awaits(c, k))
               /\ x \in failed <=> x \in c.failed \/ (x = k /\ p.values[k] = None)
    OBVIOUS
  <1>4. e = d
    <2>1. e = IF ~c.hydrated /\ c.wish THEN [c EXCEPT !.status = "ended", !.pending = NoPending] ELSE d
      BY DEF StateError
    <2>2. [c EXCEPT !.status = "ended", !.pending = NoPending].status = "ended"
      BY DEF Consumer
    <2> HIDE DEF d
    <2> QED BY <2>1, <2>2
  <1> HIDE DEF ready, failed, e
  <1>5. /\ d.members = c.members /\ d.left = c.left /\ d.failed = failed
        /\ d.pending.values = p.values /\ d.pending.failed = ready
    BY <1>2 DEF Consumer
  <1>6. /\ a \in Value /\ b \in Value /\ v \in Level /\ Known(v) /\ v.n \in Nat /\ a.n \in Nat /\ b.n \in Nat
        /\ n[m] \in Nat /\ a.n <= v.n
    BY HadType, HadIs
  <1>7. /\ (a.s = 0 => a = None) /\ a.n <= n[m]
    BY DEF ValuesFit
  <1>8. p.values[m] # None => p.on
    <2>1. ~p.on => p = NoPending
      BY DEF ConsOK
    <2> QED BY <2>1, NoPendingIs
  <1>9. None.s = 0 /\ None.n = 0 /\ Absent(a.n).s = 0 /\ Absent(a.n).n = a.n
    BY DEF None, Absent
  <1> HIDE DEF d
  <1> SUFFICES Fits(c, w, d, n, m)
    BY <1>4 DEF e
  <1>10. CASE m # k
    <2>1. w = v
      BY <1>6, <1>10, ToldIs
    <2>2. Same(c, d, m)
      BY <1>3, <1>5, <1>10 DEF Same
    <2> QED BY <2>1, <2>2, FitsSame
  <1>11. CASE m = k
    <2>1. a.n <= w.n /\ w.n \in Nat
      <3>1. CASE f.as = "error"
        <4>1. w = Absent(v.n)
          BY <1>6, <1>11, <3>1 DEF Told
        <4> HIDE DEF v, w
        <4> QED BY <1>6, <4>1, AbsentIs
      <3>2. CASE f.as # "error"
        <4>1. w = f.at /\ v.n <= f.at.n /\ f.at.n \in Nat
          BY <1>6, <1>11, <3>2, ToldValue
        <4> HIDE DEF v, w, a
        <4> QED BY <1>6, <4>1
      <3> QED BY <3>1, <3>2
    <2> HIDE DEF w, v
    <2>2. CASE p.values[m] # None
      <3>1. Shown(d, m) = a /\ m \in d.pending.failed /\ d.pending.values[m] # None
        BY <1>3, <1>5, <1>8, <1>11, <2>2 DEF Shown, Awaits
      <3>2. Ahead(d, m) = None /\ Had(d, m) = Absent(a.n)
        BY <3>1 DEF Ahead, Had
      <3> HIDE DEF a
      <3>3. ValuesFit(d, n, m)
        BY <1>6, <1>7, <1>9, <3>1, <3>2 DEF ValuesFit
      <3>4. Grows(c, d, m)
        BY <1>6, <3>1 DEF Grows, a
      <3>5. Bears(w, Had(d, m))
        BY <1>9, <2>1, <3>2 DEF Bears
      <3> QED BY <3>3, <3>4, <3>5 DEF Fits
    <2>3. CASE p.values[m] = None
      <3>1. Shown(d, m) = None /\ d.pending.values[m] = None
        BY <1>3, <1>5, <1>11, <2>3 DEF Shown
      <3>2. Ahead(d, m) = None /\ Had(d, m) = None
        BY <3>1 DEF Ahead, Had
      <3>3. ValuesFit(d, n, m)
        BY <1>6, <1>9, <3>1, <3>2 DEF ValuesFit
      <3>4. Grows(c, d, m)
        BY <3>1 DEF Grows
      <3>5. Bears(w, Had(d, m))
        BY <1>9, <2>1, <3>2 DEF Bears
      <3> QED BY <3>3, <3>4, <3>5 DEF Fits
    <2> QED BY <2>2, <2>3
  <1> QED BY <1>10, <1>11

LEMMA HearsFits ==
  ASSUME NEW c \in Consumer, ConsOK(c), NEW f \in Frame, NEW unpacks \in BOOLEAN,
         NEW n \in [Members -> Nat], NEW m \in Members, ValuesFit(c, n, m),
         f.t = "state" => Upto(Told(Had(c, m), m, f), n, m),
         c.status # "ended", Hears(c, f, unpacks).status # "ended"
  PROVE  Fits(c, Told(Had(c, m), m, f), Hears(c, f, unpacks), n, m)
  <1>1. CASE f.t = "shape"
    BY <1>1, ShapedFits DEF Hears
  <1>2. CASE f.t = "state" /\ f.as = "ops"
    BY <1>2, OpsFits DEF Hears
  <1>3. CASE f.t = "state" /\ f.as \notin {"ops", "error"} /\ unpacks
    BY <1>3, ValueFits DEF Hears
  <1>4. CASE f.t = "state" /\ f.as # "ops" /\ ~(f.as # "error" /\ unpacks)
    <2>1. Hears(c, f, unpacks) = StateError(c, f.m)
      BY <1>4 DEF Hears
    <2> QED BY <1>4, <2>1, ErrorFits
  <1> QED BY <1>1, <1>2, <1>3, <1>4, FrameIs

\* Views that want no state have none, nor has a reference that ended, and what is here
\* fits.
HadFits(c, n) ==
  /\ c.hydrated => c.wish /\ c.status # "ended"
  /\ Following(c) => \A m \in Members : ValuesFit(c, n, m)

LEMMA HearsMore ==
  ASSUME NEW c \in Consumer, ConsOK(c), NEW f \in Frame, NEW unpacks \in BOOLEAN,
         c.hydrated => c.wish /\ c.status # "ended"
  PROVE  LET d == Hears(c, f, unpacks) IN
         /\ d.overlap = c.overlap /\ (d.hydrated => c.wish /\ d.status # "ended")
         /\ c.status = "ended" => d.status = "ended"
  <1>1. ASSUME NEW d \in Consumer, d.overlap = c.overlap, d.wish = c.wish
        PROVE  /\ Apply(d).overlap = c.overlap
               /\ Apply(d).hydrated => c.wish /\ Apply(d).status # "ended"
    BY <1>1 DEF Apply, Consumer
  <1>2. CASE c.status = "ended"
    BY <1>2 DEF Hears
  <1>3. CASE c.status # "ended" /\ f.t = "shape"
    <2> DEFINE missing == IF c.wish THEN (f.listed \cup c.pending.missing) \cap f.members ELSE {}
               pending == [c.pending EXCEPT !.on = TRUE, !.members = f.members, !.missing = missing]
               d == [c EXCEPT !.pending = pending]
    <2>1. Hears(c, f, unpacks) = IF missing = {} THEN Apply(d) ELSE d
      BY <1>3 DEF Hears, Shaped
    <2>2. f.members \in SUBSET Members /\ missing \in SUBSET Members
      BY FrameIs
    <2> HIDE DEF missing
    <2>3. pending \in Pendings
      <3>1. c.pending \in Pendings
        BY DEF Consumer, Pendings
      <3> QED BY <2>2, <3>1 DEF Pendings
    <2> HIDE DEF pending
    <2>4. /\ d \in Consumer /\ d.overlap = c.overlap /\ d.wish = c.wish /\ d.hydrated = c.hydrated
          /\ d.status = c.status
      BY <2>3 DEF Consumer, Pendings
    <2> HIDE DEF d
    <2> QED BY <1>1, <1>3, <2>1, <2>4
  <1>4. CASE c.status # "ended" /\ f.t = "state" /\ f.as = "ops"
    <2>1. Hears(c, f, unpacks) = StateOps(c, f)
      BY <1>4 DEF Hears
    <2> QED BY <1>4, <2>1 DEF StateOps, Consumer
  <1>5. CASE c.status # "ended" /\ f.t = "state" /\ f.as # "ops" /\ f.as # "error" /\ unpacks
    <2> DEFINE z == [c.pending.values EXCEPT ![f.m] = f.at]
               missing == c.pending.missing \ {f.m}
               failed == c.pending.failed \ {f.m}
               d == [c EXCEPT !.pending.values = z, !.pending.missing = missing, !.pending.failed = failed]
               g == [c EXCEPT !.members[f.m] = f.at, !.failed = @ \ {f.m}, !.left = @ \ {f.m}]
               e == StateValue(c, f)
    <2>1. Hears(c, f, unpacks) = e
      BY <1>5 DEF Hears
    <2>2. e = Apply(d) \/ e = d \/ e = g \/ e = c
      <3>1. [c EXCEPT !.pending.values[f.m] = f.at, !.pending.missing = @ \ {f.m},
                      !.pending.failed = @ \ {f.m}] = d
        BY FrameIs DEF Consumer, Values
      <3> HIDE DEF d, missing, failed
      <3> QED BY <3>1 DEF StateValue
    <2>3. z \in [Members -> Value] /\ missing \in SUBSET Members /\ failed \in SUBSET Members
      BY <1>5, FrameIs, ConsumerIs
    <2> HIDE DEF z, missing, failed, e
    <2>4. /\ d \in Consumer /\ d.overlap = c.overlap /\ d.wish = c.wish /\ d.hydrated = c.hydrated
          /\ d.status = c.status
      BY <2>3 DEF Consumer, Values
    <2>5. g.overlap = c.overlap /\ g.hydrated = c.hydrated /\ g.status = c.status
      BY DEF Consumer
    <2> HIDE DEF d, g
    <2> QED BY <1>1, <1>5, <2>1, <2>2, <2>4, <2>5
  <1>6. CASE c.status # "ended" /\ f.t = "state" /\ f.as # "ops" /\ ~(f.as # "error" /\ unpacks)
    <2> DEFINE d == StateError(c, f.m)
    <2>1. Hears(c, f, unpacks) = d
      BY <1>6 DEF Hears
    <2>2. CASE ~c.hydrated /\ c.wish
      <3>1. d = [c EXCEPT !.status = "ended", !.pending = NoPending]
        BY <2>2 DEF StateError
      <3>2. d.overlap = c.overlap /\ d.hydrated = c.hydrated
        BY <3>1 DEF Consumer
      <3> QED BY <1>6, <2>1, <2>2, <3>2
    <2>3. CASE ~(~c.hydrated /\ c.wish)
      <3>1. d.overlap = c.overlap /\ d.hydrated = c.hydrated /\ d.status = c.status
        BY <2>3 DEF StateError, Consumer
      <3> QED BY <1>6, <2>1, <3>1
    <2> QED BY <2>2, <2>3
  <1> QED BY <1>2, <1>3, <1>4, <1>5, <1>6, FrameIs

-----------------------------------------------------------------------------
(* The invariant of a view's values.                                          *)

\* No end of the stream comes to a view that follows it.
NoUnsub ==
  Following(cons) =>
    /\ \A i \in DOMAIN asked : asked[i].t # "unsub"
    /\ \A i \in DOMAIN passed : passed[i].t # "unsub"
Lines == Following(cons) => \A m \in Members : Line(cons, relay, prov, val, m)

FInv == HadFits(cons, val) /\ NoUnsub /\ Lines

\* A step gives a view no earlier value.
Grown ==
  Following(cons) /\ Following(cons') => \A m \in Members : Grows(cons, cons', m)

LEMMA GrowsSame ==
  ASSUME NEW c \in Consumer, NEW d, d.members = c.members, d.failed = c.failed, d.left = c.left
  PROVE  \A m \in Members : Grows(c, d, m)
  <1>1. \A m \in Members : Shown(c, m).n \in Nat /\ Shown(d, m) = Shown(c, m)
    BY HadType DEF Shown
  <1> QED BY <1>1 DEF Grows

\* A step that leaves the consumer as it is.
LEMMA ConsumerStays ==
  ASSUME IInv, FInv, cons' = cons, val' \in [Members -> Nat], \A m \in Members : val[m] <= val'[m],
         NoUnsub', Following(cons) => \A m \in Members : Line(cons, relay', prov', val', m)
  PROVE  FInv' /\ Grown
  <1>1. cons \in Consumer /\ val \in [Members -> Nat]
    BY IInvIs
  <1>2. Grown
    BY <1>1, GrowsSame DEF Grown
  <1>3. Following(cons) => \A m \in Members : ValuesFit(cons, val', m)
    <2> SUFFICES ASSUME Following(cons), NEW m \in Members PROVE ValuesFit(cons, val', m)
      OBVIOUS
    <2>1. ValuesFit(cons, val, m)
      BY DEF FInv, HadFits
    <2>2. Shown(cons, m).n \in Nat /\ Ahead(cons, m).n \in Nat /\ val[m] \in Nat /\ val'[m] \in Nat
      BY <1>1, HadType
    <2> QED BY <2>1, <2>2 DEF ValuesFit
  <1>4. cons.hydrated => cons.wish /\ cons.status # "ended"
    BY DEF FInv, HadFits
  <1>5. HadFits(cons, val)'
    BY <1>3, <1>4 DEF HadFits
  <1> QED BY <1>2, <1>5 DEF FInv, Lines

-----------------------------------------------------------------------------
(* Steps of the object and the provider.                                      *)

LEMMA ProviderServesFollows == ASSUME IInv, FInv, ProviderServes PROVE FInv' /\ Grown
  <1> DEFINE msg == Head(passed)
             d == prov'
  <1>1. /\ passed # <<>> /\ passed' = Tail(passed) /\ val' = val /\ relay' = relay /\ cons' = cons
        /\ asked' = asked
    BY DEF ProviderServes
  <1>2. /\ prov \in Provider /\ passed \in Seq(Message) /\ relay \in Relay /\ cons \in Consumer
        /\ val \in [Members -> Nat]
    BY IInvIs
  <1>3. PICK l \in Nat : Agree(l, prov, relay, cons, passed, asked, events)
    BY IInvIs DEF RequestsOK
  <1>4. msg \in Message /\ Finds(Serving(prov, l), msg) /\ ServedOK(prov, l, msg, d)
    BY <1>3, ServesIs
  <1>5. msg = passed[1] /\ 1 \in DOMAIN passed
    BY <1>1, <1>2
  <1> HIDE DEF d, msg
  <1>6. NoUnsub'
    <2>1. \A i \in DOMAIN passed' : i + 1 \in DOMAIN passed /\ passed'[i] = passed[i + 1]
      BY <1>1, <1>2
    <2> QED BY <1>1, <2>1 DEF FInv, NoUnsub
  <1>7. ASSUME Following(cons), NEW m \in Members PROVE Line(cons, relay, d, val, m)
    <2>1. msg.t \in {"hold", "release", "sub", "resync"}
      BY <1>4, <1>5, <1>7 DEF FInv, NoUnsub, Message
    <2>2. Line(cons, relay, prov, val, m)
      BY <1>7 DEF FInv, Lines
    <2>3. Upto(Through(cons, relay, m), val, m) /\ Through(cons, relay, m) \in Level
      BY <1>2, <2>2, LineUpto, ThroughIs
    <2>4. /\ d \in Provider /\ d.hold = Turned(Serving(prov, l), msg).hold
          /\ msg.t \in {"sub", "resync"} => TracksOn(prov, val, d, val)
          /\ msg.t = "hold" => \A j \in Members : \A v \in Level :
                                 Known(v) /\ v.n <= val[j] => Tracks(d, val, j, v)
      BY <1>4 DEF ServedOK
    <2>5. CASE msg.t \in {"sub", "resync"}
      <3>1. d.hold = prov.hold
        BY <2>4, <2>5 DEF Turned, Serving
      <3>2. val[m] <= val[m]
        BY <1>2
      <3> QED BY <1>2, <2>2, <2>4, <2>5, <3>1, <3>2, LineOn
    <2>6. CASE msg.t = "hold"
      <3>1. Tracks(d, val, m, Through(cons, relay, m))
        BY <2>3, <2>4, <2>6 DEF Upto
      <3> QED BY <2>3, <3>1 DEF Line
    <2>7. CASE msg.t = "release"
      <3>1. d.hold = NoHold
        BY <2>4, <2>7 DEF Turned, Serving
      <3> QED BY <2>3, <3>1 DEF Line
    <2> QED BY <2>1, <2>5, <2>6, <2>7
  <1>8. /\ val' \in [Members -> Nat] /\ \A m \in Members : val[m] <= val'[m]
        /\ Following(cons) => \A m \in Members : Line(cons, relay', prov', val', m)
    BY <1>1, <1>2, <1>7 DEF d
  <1> QED BY <1>1, <1>6, <1>8, ConsumerStays

\* A step of the object or the provider that no request makes.
LEMMA ProviderFollows ==
  ASSUME IInv, FInv, UNCHANGED <<relay, cons, asked, passed>>, val' \in [Members -> Nat],
         \A m \in Members : val[m] <= val'[m], prov' \in Provider, prov'.hold = prov.hold,
         TracksOn(prov, val, prov', val')
  PROVE  FInv' /\ Grown
  <1>1. relay' = relay /\ cons' = cons /\ asked' = asked /\ passed' = passed
    OBVIOUS
  <1>2. prov \in Provider /\ relay \in Relay /\ cons \in Consumer /\ val \in [Members -> Nat]
    BY IInvIs
  <1>3. ASSUME Following(cons), NEW m \in Members PROVE Line(cons, relay, prov', val', m)
    <2>1. Line(cons, relay, prov, val, m)
      BY <1>3 DEF FInv, Lines
    <2> QED BY <1>2, <2>1, LineOn
  <1>4. NoUnsub'
    BY <1>1 DEF FInv, NoUnsub
  <1> QED BY <1>1, <1>3, <1>4, ConsumerStays

LEMMA ProviderHearsAckFollows == ASSUME IInv, FInv, ProviderHearsAck PROVE FInv' /\ Grown
  <1> DEFINE q == [prov EXCEPT !.processed = 0]
             d == Flush(q, variant)
  <1>1. prov' = d /\ UNCHANGED <<relay, cons, asked, passed>> /\ val' = val
    BY DEF ProviderHearsAck
  <1>2. /\ prov \in Provider /\ val \in [Members -> Nat] /\ variant \in SUBSET Members
        /\ FeedsOK(prov, variant)
    BY IInvIs DEF ObjectOK
  <1>3. Alike(prov, q) /\ q.hold = prov.hold /\ q.wants = prov.wants
    BY <1>2 DEF Alike, Provider
  <1> HIDE DEF q
  <1>4. q \in Provider /\ FeedsOK(q, variant) /\ TracksOn(prov, val, q, val)
    BY <1>2, <1>3, AlikeIs, TracksAlike DEF Alike
  <1>5. Steady(q, d, variant)
    BY <1>2, <1>4, ProviderFlush
  <1> HIDE DEF d
  <1>6. d \in Provider /\ d.hold = prov.hold /\ TracksOn(prov, val, d, val)
    BY <1>3, <1>4, <1>5, TracksOnTwice DEF Steady
  <1>7. val' \in [Members -> Nat] /\ \A m \in Members : val[m] <= val'[m]
    BY <1>1, <1>2
  <1> QED BY <1>1, <1>6, <1>7, ProviderFollows

LEMMA ReshapeFollows == ASSUME IInv, FInv, NEW vs \in Variants, Reshape(vs) PROVE FInv' /\ Grown
  <1> DEFINE d == Unit(prov, vs)
  <1>1. prov' = d /\ UNCHANGED <<relay, cons, asked, passed>> /\ val' = val
    BY DEF Reshape
  <1>2. prov \in Provider /\ val \in [Members -> Nat] /\ FeedsOK(prov, variant) /\ WindowOK(prov)
    BY IInvIs DEF ObjectOK
  <1>3. vs \in SUBSET Members
    BY DEF Members
  <1>4. FeedsOK(prov, Members)
    <2>1. Fed(prov) \subseteq Members
      BY DEF Fed
    <2> QED BY <1>2, <2>1 DEF FeedsOK
  <1>5. Renewed(prov, d, vs)
    BY <1>2, <1>3, <1>4, UnitIs
  <1> HIDE DEF d
  <1>6. d \in Provider /\ d.hold = prov.hold /\ TracksOn(prov, val, d, val)
    BY <1>5 DEF Renewed
  <1>7. val' \in [Members -> Nat] /\ \A m \in Members : val[m] <= val'[m]
    BY <1>1, <1>2
  <1> QED BY <1>1, <1>6, <1>7, ProviderFollows

LEMMA ChangeFollows ==
  ASSUME IInv, FInv, NEW k \in Members, NEW as \in {"ops", "reset"}, NEW fits \in BOOLEAN,
         Change(k, as, fits)
  PROVE  FInv' /\ Grown
  <1>1. /\ UNCHANGED <<relay, cons, asked, passed>>
        /\ val' = [val EXCEPT ![k] = @ + 1]
    BY DEF Change
  <1>2. prov \in Provider /\ val \in [Members -> Nat]
    BY IInvIs
  <1>3. val' \in [Members -> Nat] /\ \A m \in Members : val[m] <= val'[m]
    BY <1>1, <1>2
  <1>4. CASE prov.feeds[k] = 0
    <2>1. prov' = prov
      BY <1>4 DEF Change
    <2>2. TracksOn(prov, val, prov, val')
      <3> SUFFICES ASSUME NEW m \in Members, NEW v \in Level, Tracks(prov, val, m, v)
                   PROVE  Tracks(prov, val', m, v)
        BY DEF TracksOn
      <3> DEFINE x == Trail(prov, m, {prov.hold}, v)
      <3>1. /\ Known(x) /\ x.n <= val[m]
            /\ m \in Fed(prov) => prov.slots[m].lazy \/ x.s = 0 \/ x = [s |-> prov.feeds[m], n |-> val[m]]
        BY DEF Tracks
      <3>2. x \in Level
        BY <1>2, ProviderIs, TrailIs
      <3> HIDE DEF x
      <3>3. x.n \in Nat
        BY <3>1, <3>2, KnownIs
      <3>4. val[m] \in Nat /\ val'[m] \in Nat /\ val[m] <= val'[m]
        BY <1>2, <1>3
      <3>5. x.n <= val'[m]
        BY <3>1, <3>3, <3>4
      <3>6. m \in Fed(prov) => val'[m] = val[m]
        BY <1>1, <1>2, <1>4 DEF Fed
      <3> QED BY <3>1, <3>5, <3>6 DEF Tracks, x
    <2> QED BY <1>1, <1>2, <1>3, <2>1, <2>2, ProviderFollows
  <1>5. CASE prov.feeds[k] # 0
    <2>1. Changed(prov, prov', variant, val, val')
      BY <1>5, ChangeIs
    <2>2. prov' \in Provider /\ prov'.hold = prov.hold /\ TracksOn(prov, val, prov', val')
      BY <2>1 DEF Changed
    <2> QED BY <1>1, <1>3, <2>2, ProviderFollows
  <1> QED BY <1>4, <1>5

-----------------------------------------------------------------------------
(* Steps of the relay.                                                        *)

\* What the relay asks for again ends no stream.
LEMMA ResyncsFollow ==
  ASSUME IInv, FInv, cons' = cons, asked' = asked, NEW K \in SUBSET Members,
         passed' = passed \o SetToSeq({Resync(m) : m \in K})
  PROVE  NoUnsub'
  <1> DEFINE q == SetToSeq({Resync(m) : m \in K})
  <1>1. passed \in Seq(Message)
    BY IInvIs
  <1>2. q \in Seq(Message) /\ \A i \in DOMAIN q : q[i].t = "resync"
    BY <1>1, AskedMore
  <1>3. passed' = passed \o q
    OBVIOUS
  <1> HIDE DEF q
  <1>4. \A i \in DOMAIN passed' : \/ i \in DOMAIN passed /\ passed'[i] = passed[i]
                                  \/ i - Len(passed) \in DOMAIN q /\ passed'[i] = q[i - Len(passed)]
    BY <1>1, <1>2, <1>3
  <1>5. Following(cons) => \A i \in DOMAIN passed' : passed'[i].t # "unsub"
    BY <1>2, <1>4 DEF FInv, NoUnsub
  <1> QED BY <1>5 DEF FInv, NoUnsub

LEMMA RelayReceivesFollows == ASSUME IInv, FInv, RelayReceives PROVE FInv' /\ Grown
  <1> DEFINE f == Head(prov.out)
             p == Taken(prov)
             R == RelayHears(relay, f)
  <1>1. /\ val' = val /\ cons' = cons /\ asked' = asked /\ prov.out # <<>> /\ prov' = p
        /\ IF relay.hold = NoHold \/ f.h # relay.hold THEN relay' = relay /\ passed' = passed
           ELSE Relayed(R)
    BY DEF RelayReceives, Taken, RelayHears
  <1>2. /\ prov \in Provider /\ prov \in Sender /\ relay \in Relay /\ relay.dropped = {} /\ RelayOK(relay)
        /\ cons \in Consumer /\ passed \in Seq(Message) /\ asked \in Seq(Message)
        /\ val \in [Members -> Nat]
    BY IInvIs, ProviderIs
  <1>3. f \in Frame /\ p \in Provider /\ p.hold = prov.hold
    <2> HIDE DEF p, f, R
    <2> QED BY <1>1, <1>2, TakenIs DEF p, f
  <1>4. relay.hold = NoHold \/ relay.hold = prov.hold \/ f.h # relay.hold
    <2>1. PICK l \in Nat : Agree(l, prov, relay, cons, passed, asked, events)
      BY IInvIs DEF RequestsOK
    <2>2. relay.hold = NoHold \/ relay.hold = prov.hold
          \/ \A i \in DOMAIN prov.out : prov.out[i].h # relay.hold
      BY <1>2, <2>1, OldFrames
    <2>3. prov.out \in Seq(Frame)
      BY <1>2, SenderIs
    <2>4. f = prov.out[1] /\ 1 \in DOMAIN prov.out
      BY <1>1, <2>3
    <2> HIDE DEF f
    <2> QED BY <2>2, <2>4
  <1>5. ASSUME NEW m \in Members, NEW v \in Level, Tracks(prov, val, m, v)
        PROVE  LET w == IF f.h = prov.hold THEN Told(v, m, f) ELSE v IN w \in Level /\ Tracks(p, val, m, w)
    <2> HIDE DEF f, p, R
    <2> QED BY <1>1, <1>2, <1>5, TakenTracks DEF f, p
  <1>6. RelayHears(relay, f) = R
    OBVIOUS
  <1>7. relay.hold # NoHold /\ f.h = relay.hold =>
          R.dropped \in SUBSET Members /\ Passes(relay, f, Again(R), R.dropped)
    BY <1>1, RelayHearsIs
  <1>8. val' \in [Members -> Nat] /\ \A m \in Members : val[m] <= val'[m]
    BY <1>1, <1>2
  <1> HIDE DEF f, p, R
  <1>9. CASE relay.hold = NoHold \/ f.h # relay.hold
    <2>1. relay' = relay /\ passed' = passed
      BY <1>1, <1>9
    <2>2. ASSUME Following(cons), NEW m \in Members PROVE Line(cons, relay, p, val, m)
      <3> DEFINE v == Through(cons, relay, m)
      <3>1. Line(cons, relay, prov, val, m)
        BY <2>2 DEF FInv, Lines
      <3>2. v \in Level
        BY <1>2, ThroughIs
      <3>3. IF prov.hold = relay.hold /\ prov.hold # NoHold THEN Tracks(prov, val, m, v) ELSE Upto(v, val, m)
        BY <3>1 DEF Line
      <3> HIDE DEF v
      <3>4. IF prov.hold = relay.hold /\ prov.hold # NoHold THEN Tracks(p, val, m, v) ELSE Upto(v, val, m)
        BY <1>5, <1>9, <3>2, <3>3
      <3> QED BY <1>3, <3>4 DEF Line, v
    <2>3. NoUnsub'
      BY <1>1, <2>1 DEF FInv, NoUnsub
    <2> QED BY <1>1, <1>8, <2>1, <2>2, <2>3, ConsumerStays
  <1>10. CASE relay.hold # NoHold /\ f.h = relay.hold
    <2> DEFINE r == Again(R)
               K == R.dropped
    <2>1. relay' = r /\ passed' = passed \o SetToSeq({Resync(m) : m \in K})
      BY <1>1, <1>10 DEF Relayed, Again
    <2>2. K \in SUBSET Members /\ r \in Relay /\ r.hold = relay.hold
      BY <1>7, <1>10 DEF Passes
    <2>3. prov.hold = relay.hold
      BY <1>4, <1>10
    <2> HIDE DEF K
    <2>4. NoUnsub'
      BY <1>1, <2>1, <2>2, ResyncsFollow
    <2>5. ASSUME NEW m \in Members PROVE Bears(Told(Through(cons, relay, m), m, f), Through(cons, r, m))
      <3>1. CASE f.t = "shape"
        <4>1. R = RelayShape(relay, f)
          BY <1>6, <3>1 DEF RelayHears
        <4>2. Told(Through(cons, relay, m), m, f) = Through(cons, r, m)
          BY <1>2, <1>3, <3>1, <4>1, RelayShapeThrough
        <4> QED BY <4>2 DEF Bears
      <3>2. CASE f.t = "state"
        <4>1. R = RelayState(relay, f)
          BY <1>6, <3>2 DEF RelayHears
        <4> QED BY <1>2, <1>3, <1>10, <3>2, <4>1, RelayStateThrough
      <3> QED BY <1>3, <3>1, <3>2, FrameIs
    <2> HIDE DEF r
    <2>6. ASSUME Following(cons), NEW m \in Members PROVE Line(cons, r, p, val, m)
      <3> DEFINE v == Through(cons, relay, m)
                 w == Told(v, m, f)
                 x == Through(cons, r, m)
      <3>1. Line(cons, relay, prov, val, m)
        BY <2>6 DEF FInv, Lines
      <3>2. v \in Level /\ x \in Level /\ Bears(w, x)
        BY <1>2, <2>2, <2>5, ThroughIs
      <3>3. Tracks(prov, val, m, v)
        BY <1>10, <2>3, <3>1 DEF Line
      <3> HIDE DEF v
      <3>4. w \in Level /\ Tracks(p, val, m, w)
        BY <1>5, <1>10, <2>3, <3>2, <3>3
      <3> HIDE DEF w, x
      <3>5. Tracks(p, val, m, x)
        BY <1>2, <1>3, <3>2, <3>4, TracksMore
      <3> QED BY <1>3, <1>10, <2>2, <2>3, <3>5 DEF Line, x
    <2> QED BY <1>1, <1>8, <2>1, <2>4, <2>6, ConsumerStays
  <1> QED BY <1>9, <1>10

LEMMA RelayHearsAckFollows == ASSUME IInv, FInv, RelayHearsAck PROVE FInv' /\ Grown
  <1> DEFINE d == Flush([relay EXCEPT !.processed = 0], variant)
             K == d.dropped
  <1>1. /\ val' = val /\ cons' = cons /\ asked' = asked /\ prov' = prov
        /\ relay' = Again(d) /\ passed' = passed \o SetToSeq({Resync(m) : m \in K})
    BY DEF RelayHearsAck, Relayed, Again
  <1>2. /\ prov \in Provider /\ relay \in Relay /\ relay.dropped = {} /\ RelayOK(relay)
        /\ cons \in Consumer /\ val \in [Members -> Nat]
    BY IInvIs
  <1>3. d \in Relay /\ d.dropped = {} /\ Again(d) = d /\ d.hold = relay.hold
    BY <1>2, RelayFlushed
  <1>4. \A m \in Members : Through(cons, d, m) = Through(cons, relay, m)
    BY <1>2, RelayFlushedThrough
  <1> HIDE DEF d
  <1>5. K \in SUBSET Members
    BY <1>3
  <1>6. NoUnsub'
    <2> HIDE DEF K
    <2> QED BY <1>1, <1>5, ResyncsFollow
  <1>7. ASSUME Following(cons), NEW m \in Members PROVE Line(cons, d, prov, val, m)
    <2>1. Line(cons, relay, prov, val, m)
      BY <1>7 DEF FInv, Lines
    <2> QED BY <1>3, <1>4, <2>1 DEF Line
  <1>8. val' \in [Members -> Nat] /\ \A m \in Members : val[m] <= val'[m]
    BY <1>1, <1>2
  <1>9. Following(cons) => \A m \in Members : Line(cons, relay', prov', val', m)
    BY <1>1, <1>3, <1>7
  <1> QED BY <1>1, <1>6, <1>8, <1>9, ConsumerStays

LEMMA RelayPassesFollows == ASSUME IInv, FInv, RelayPasses PROVE FInv' /\ Grown
  <1> DEFINE msg == Head(asked)
             fresh == [relay EXCEPT !.hold = msg.id, !.again = msg.again, !.shaped = FALSE,
                                    !.urgent = {}, !.awaiting = {}]
             ended == [Forget(relay, Keys) EXCEPT !.awaiting = {}]
  <1>1. /\ val' = val /\ prov' = prov /\ cons' = cons /\ asked # <<>>
        /\ passed' = Append(passed, msg) /\ asked' = Tail(asked)
        /\ relay' = CASE msg.t = "hold" -> fresh [] msg.t = "unsub" -> ended [] OTHER -> relay
    BY DEF RelayPasses
  <1>2. /\ prov \in Provider /\ asked \in Seq(Message) /\ passed \in Seq(Message)
        /\ relay \in Relay /\ cons \in Consumer /\ val \in [Members -> Nat]
    BY IInvIs
  <1>3. msg = asked[1] /\ 1 \in DOMAIN asked /\ msg \in Message
    BY <1>1, <1>2
  <1>4. msg.t \in {"hold", "sub", "unsub"}
    BY <1>3 DEF IInv, RequestsOK
  <1>5. Following(cons) => msg.t # "unsub"
    BY <1>3 DEF FInv, NoUnsub
  <1>6. msg.t = "hold" => prov.hold # msg.id
    <2>1. PICK l \in Nat : Agree(l, prov, relay, cons, passed, asked, events)
      BY IInvIs DEF RequestsOK
    <2> DEFINE a == AtRelay(l, prov, passed)
    <2>2. Finds(a, msg) /\ a \in Control /\ a.last >= l
      <3> HIDE DEF fresh, ended
      <3> QED BY <1>1, <1>2, <2>1, AgreePassed
    <2>3. prov.hold <= l
      BY <2>1 DEF Agree
    <2> HIDE DEF a
    <2>4. prov.hold \in Nat /\ a.last \in Nat /\ msg.id \in Nat
      BY <1>2, <1>3, <2>2, ProviderIs DEF Control, Message
    <2>5. msg.t = "hold" => msg.id > a.last
      BY <2>2 DEF Finds
    <2> HIDE DEF msg
    <2> QED BY <2>2, <2>3, <2>4, <2>5
  <1>7. NoUnsub'
    <2> HIDE DEF msg
    <2> SUFFICES ASSUME Following(cons)
                 PROVE  /\ \A i \in DOMAIN asked' : asked'[i].t # "unsub"
                        /\ \A i \in DOMAIN passed' : passed'[i].t # "unsub"
      BY <1>1 DEF NoUnsub
    <2>1. /\ \A i \in DOMAIN asked : asked[i].t # "unsub"
          /\ \A i \in DOMAIN passed : passed[i].t # "unsub"
      BY DEF FInv, NoUnsub
    <2>2. \A i \in DOMAIN asked' : i + 1 \in DOMAIN asked /\ asked'[i] = asked[i + 1]
      BY <1>1, <1>2
    <2>3. \A i \in DOMAIN passed' : passed'[i] = msg \/ (i \in DOMAIN passed /\ passed'[i] = passed[i])
      BY <1>1, <1>2
    <2> QED BY <1>5, <2>1, <2>2, <2>3
  <1>8. ASSUME Following(cons), NEW m \in Members PROVE Line(cons, relay', prov, val, m)
    <2>1. Line(cons, relay, prov, val, m)
      BY <1>8 DEF FInv, Lines
    <2>2. CASE msg.t = "sub"
      BY <1>1, <2>1, <2>2
    <2>3. CASE msg.t = "hold"
      <3>1. relay' = fresh
        BY <1>1, <2>3
      <3>2. fresh.hold = msg.id /\ fresh.out = relay.out /\ fresh.slots = relay.slots /\ fresh.awaiting = {}
        BY <1>2 DEF Relay
      <3> HIDE DEF fresh
      <3> DEFINE v == Through(cons, relay, m)
                 X == Trail(relay, m, Nat, Had(cons, m))
      <3>3. Upto(v, val, m) /\ X \in Level
        BY <1>2, <2>1, LineUpto, ThroughIs, RelayIs, TrailIs
      <3>4. v = IF m \in relay.awaiting /\ Known(X) THEN Absent(X.n) ELSE X
        BY DEF Through
      <3>5. Through(cons, fresh, m) = X
        BY <3>2 DEF Through, Trail
      <3> HIDE DEF v, X
      <3>6. Upto(X, val, m)
        BY <3>3, <3>4, KnownIs DEF Upto
      <3> QED BY <1>6, <2>3, <3>1, <3>2, <3>5, <3>6 DEF Line
    <2> QED BY <1>4, <1>5, <1>8, <2>2, <2>3
  <1>9. val' \in [Members -> Nat] /\ \A m \in Members : val[m] <= val'[m]
    BY <1>1, <1>2
  <1>10. Following(cons) => \A m \in Members : Line(cons, relay', prov', val', m)
    BY <1>1, <1>8
  <1> QED BY <1>1, <1>7, <1>9, <1>10, ConsumerStays

-----------------------------------------------------------------------------
(* Steps of the consumer.                                                     *)

LEMMA GateBears ==
  ASSUME NEW x \in Level, NEW y \in Level, Bears(x, y), NEW b \in BOOLEAN
  PROVE  Bears(IF b /\ Known(x) THEN Absent(x.n) ELSE x, IF b /\ Known(y) THEN Absent(y.n) ELSE y)
  <1>1. CASE ~Known(x)
    BY <1>1 DEF Bears
  <1>2. CASE Known(x)
    <2>1. Known(y) /\ y.n <= x.n
      BY <1>2, KnownIs, BearsKnown
    <2>2. /\ Absent(x.n).n = x.n /\ Absent(y.n).n = y.n /\ Absent(y.n).s = 0
      BY <1>2, <2>1, KnownIs
    <2> QED BY <1>2, <2>1, <2>2 DEF Bears
  <1> QED BY <1>1, <1>2

\* The consumer takes the relay's next frame.
LEMMA HearsThrough ==
  ASSUME NEW c \in Consumer, NEW r \in Relay, r.out # <<>>, NEW m \in Members, NEW d \in Consumer,
         Bears(Told(Had(c, m), m, Head(r.out)), Had(d, m))
  PROVE  Bears(Through(c, r, m), Through(d, Taken(r), m))
  <1> DEFINE f == Head(r.out)
             q == Taken(r)
             v == Had(c, m)
             u == IF f.h \in Nat THEN Told(v, m, f) ELSE v
             w == Told(v, m, f)
             z == Had(d, m)
             X == Trail(r, m, Nat, v)
             Y == Trail(q, m, Nat, z)
  <1>1. /\ r \in Sender /\ f \in Frame /\ q \in Relay /\ q \in Sender
        /\ q.awaiting = r.awaiting
    <2> HIDE DEF f, q
    <2> QED BY RelayIs, TakenIs DEF f, q
  <1>2. v \in Level /\ z \in Level
    BY ThroughIs
  <1>3. u = w
    BY <1>1, FrameIs
  <1>4. u \in Level /\ Trail(q, m, Nat, u) = X
    <2> HIDE DEF v, z
    <2> QED BY <1>1, <1>2, TakenTrail
  <1>5. w \in Level /\ Trail(q, m, Nat, w) = X
    <2> HIDE DEF u, w
    <2> QED BY <1>3, <1>4
  <1>6. Bears(w, z)
    OBVIOUS
  <1>7. /\ Through(c, r, m) = IF m \in r.awaiting /\ Known(X) THEN Absent(X.n) ELSE X
        /\ Through(d, q, m) = IF m \in r.awaiting /\ Known(Y) THEN Absent(Y.n) ELSE Y
    BY <1>1 DEF Through
  <1> HIDE DEF w, z, v, u, q, f
  <1>8. X \in Level /\ Y \in Level /\ Bears(X, Y)
    BY <1>1, <1>2, <1>5, <1>6, TrailIs
  <1> HIDE DEF X, Y
  <1> DEFINE b == m \in r.awaiting
  <1>9. b \in BOOLEAN
    OBVIOUS
  <1>10. Bears(IF b /\ Known(X) THEN Absent(X.n) ELSE X, IF b /\ Known(Y) THEN Absent(Y.n) ELSE Y)
    <2> HIDE DEF b
    <2> QED BY <1>8, <1>9, GateBears
  <1> QED BY <1>7, <1>10 DEF q

\* What comes next fits when all that comes does.
LEMMA NextUpto ==
  ASSUME NEW c \in Consumer, NEW r \in Relay, r.out # <<>>, NEW m \in Members,
         NEW n \in [Members -> Nat], Upto(Through(c, r, m), n, m)
  PROVE  Upto(Told(Had(c, m), m, Head(r.out)), n, m)
  <1> DEFINE f == Head(r.out)
             q == Taken(r)
             v == Had(c, m)
             u == IF f.h \in Nat THEN Told(v, m, f) ELSE v
             w == Told(v, m, f)
             X == Trail(r, m, Nat, v)
  <1>1. r \in Sender /\ f \in Frame /\ q \in Sender
    <2> HIDE DEF f, q
    <2> QED BY RelayIs, TakenIs DEF f, q
  <1>2. v \in Level
    BY ThroughIs
  <1>3. u = w
    BY <1>1, FrameIs
  <1>4. u \in Level /\ Trail(q, m, Nat, u) = X
    <2> HIDE DEF v
    <2> QED BY <1>1, <1>2, TakenTrail
  <1>5. w \in Level /\ Trail(q, m, Nat, w) = X
    <2> HIDE DEF u, w
    <2> QED BY <1>3, <1>4
  <1>6. Through(c, r, m) = IF m \in r.awaiting /\ Known(X) THEN Absent(X.n) ELSE X
    BY DEF Through
  <1> HIDE DEF w, v, u, q, f
  <1>7. X \in Level /\ Later(w, X)
    BY <1>1, <1>5, TrailIs
  <1> HIDE DEF X
  <1>8. Known(X) /\ X.n <= n[m]
    BY <1>6, <1>7, KnownIs DEF Upto
  <1>9. Known(w) /\ w.n <= X.n
    BY <1>7, <1>8 DEF Later
  <1>10. w.n \in Nat /\ X.n \in Nat /\ n[m] \in Nat
    BY <1>5, <1>7, <1>8, <1>9, KnownIs
  <1>11. Upto(w, n, m)
    BY <1>8, <1>9, <1>10 DEF Upto
  <1> QED BY <1>11 DEF w, v, f

LEMMA ConsumerReceivesFollows == ASSUME IInv, FInv, ConsumerReceives PROVE FInv' /\ Grown
  <1>0. PICK unpacks \in BOOLEAN : cons' = Hears(cons, Head(relay.out), unpacks)
    BY BoundsAssumption DEF ConsumerReceives, Hears
  <1> DEFINE f == Head(relay.out)
             d == Hears(cons, f, unpacks)
             r == Taken(relay)
  <1>1. /\ val' = val /\ prov' = prov /\ asked' = asked /\ passed' = passed /\ relay.out # <<>>
        /\ relay' = r /\ cons' = d
    BY <1>0 DEF ConsumerReceives, Taken
  <1>2. /\ prov \in Provider /\ relay \in Relay /\ relay \in Sender /\ val \in [Members -> Nat]
        /\ cons \in Consumer /\ ConsOK(cons)
    BY IInvIs, RelayIs
  <1>3. f \in Frame /\ r \in Relay /\ r.hold = relay.hold
    <2> HIDE DEF f, r
    <2> QED BY <1>1, <1>2, TakenIs DEF f, r
  <1> HIDE DEF f, r
  <1>4. d \in Consumer /\ d.wish = cons.wish
    BY <1>2, <1>3, HearsFollows DEF Follows
  <1>5. /\ d.overlap = cons.overlap /\ (d.hydrated => d.wish /\ d.status # "ended")
        /\ cons.status = "ended" => d.status = "ended"
    <2>1. cons.hydrated => cons.wish /\ cons.status # "ended"
      BY DEF FInv, HadFits
    <2> QED BY <1>2, <1>3, <1>4, <2>1, HearsMore
  <1> HIDE DEF d
  <1>6. Following(d) => Following(cons)
    BY <1>4, <1>5 DEF Following
  <1>7. ASSUME Following(d), NEW m \in Members
        PROVE  Fits(cons, Told(Had(cons, m), m, f), d, val, m) /\ Line(cons, relay, prov, val, m)
    <2>1. /\ ValuesFit(cons, val, m) /\ Line(cons, relay, prov, val, m)
          /\ cons.status # "ended" /\ d.status # "ended"
      BY <1>6, <1>7 DEF FInv, HadFits, Lines, Following
    <2>2. Upto(Through(cons, relay, m), val, m)
      BY <1>2, <2>1, LineUpto
    <2>3. Upto(Told(Had(cons, m), m, f), val, m)
      BY <1>1, <1>2, <2>2, NextUpto DEF f
    <2> QED BY <1>2, <1>3, <2>1, <2>3, HearsFits DEF d
  <1>8. HadFits(d, val) /\ (Following(d) => \A m \in Members : Grows(cons, d, m))
    BY <1>5, <1>7 DEF HadFits, Fits
  <1>9. ASSUME Following(d), NEW m \in Members PROVE Line(d, r, prov, val, m)
    <2>1. Line(cons, relay, prov, val, m) /\ Bears(Told(Had(cons, m), m, f), Had(d, m))
      BY <1>7, <1>9 DEF Fits
    <2>2. Bears(Through(cons, relay, m), Through(d, r, m))
      BY <1>1, <1>2, <1>4, <2>1, HearsThrough DEF f, r
    <2> QED BY <1>2, <1>3, <1>4, <2>1, <2>2, LineMore
  <1>10. NoUnsub'
    BY <1>1, <1>6 DEF FInv, NoUnsub
  <1>11. HadFits(cons, val)' /\ Lines' /\ Grown
    BY <1>1, <1>8, <1>9 DEF Lines, Grown
  <1> QED BY <1>10, <1>11 DEF FInv

LEMMA BindFollows == ASSUME IInv, FInv, Bind PROVE FInv' /\ Grown
  <1> DEFINE d == [cons EXCEPT !.hold = events + 1]
             msg == Hold(events + 1, cons.wish, cons.applied)
  <1>1. /\ val' = val /\ prov' = prov /\ relay' = relay /\ passed' = passed
        /\ cons' = d /\ asked' = Append(asked, msg)
    BY DEF Bind
  <1>2. cons \in Consumer /\ asked \in Seq(Message)
    BY IInvIs
  <1>3. /\ d.wish = cons.wish /\ d.overlap = cons.overlap /\ d.hydrated = cons.hydrated
        /\ d.members = cons.members /\ d.pending = cons.pending /\ d.status = cons.status
        /\ d.failed = cons.failed /\ d.left = cons.left
    BY <1>2 DEF Consumer
  <1>4. msg.t # "unsub"
    BY DEF Hold
  <1> HIDE DEF d, msg
  <1>5. \A m : Shown(d, m) = Shown(cons, m) /\ Ahead(d, m) = Ahead(cons, m) /\ Had(d, m) = Had(cons, m)
    BY <1>3 DEF Shown, Ahead, Had
  <1>6. Following(d) <=> Following(cons)
    BY <1>3 DEF Following
  <1>7. HadFits(d, val)
    BY <1>3, <1>5, <1>6 DEF FInv, HadFits, ValuesFit
  <1>8. Following(d) => \A m \in Members : Line(d, relay, prov, val, m)
    BY <1>5, <1>6 DEF FInv, Lines, Line, Through
  <1>9. Following(d) => \A i \in DOMAIN asked' : asked'[i].t # "unsub"
    <2>1. \A i \in DOMAIN asked' : asked'[i] = msg \/ (i \in DOMAIN asked /\ asked'[i] = asked[i])
      BY <1>1, <1>2
    <2> QED BY <1>4, <1>6, <2>1 DEF FInv, NoUnsub
  <1>10. NoUnsub'
    BY <1>1, <1>6, <1>9 DEF FInv, NoUnsub
  <1>11. HadFits(cons, val)' /\ Lines'
    BY <1>1, <1>7, <1>8 DEF Lines
  <1>12. Grown
    BY <1>1, <1>2, <1>3, GrowsSame DEF Grown
  <1> QED BY <1>10, <1>11, <1>12 DEF FInv

\* Nothing is on its way and nothing waits.
LEMMA TrailEmpty ==
  ASSUME NEW c \in Sender, c.out = <<>>, NEW m \in Members, c.slots[m] = Idle, NEW hs, NEW v \in Level
  PROVE  Trail(c, m, hs, v) = v
  <1>1. Fold(Telling(m, hs), c.out, v) = v
    BY FoldEmpty
  <1> QED BY <1>1, TrailIs

\* With nothing on its way, and no members fed, what the consumer has is all there is.
LEMMA LineEmpty ==
  ASSUME NEW c \in Consumer, NEW r \in Relay, r.out = <<>>, NEW p \in Provider, NEW m \in Members,
         r.slots[m] = Idle, NEW n \in [Members -> Nat], ValuesFit(c, n, m),
         p.hold = r.hold /\ p.hold # NoHold => p.out = <<>> /\ p.slots[m] = Idle /\ m \notin Fed(p)
  PROVE  Line(c, r, p, n, m)
  <1> DEFINE v == Had(c, m)
             x == Through(c, r, m)
  <1>1. v \in Level /\ Known(v) /\ x \in Level /\ r \in Sender /\ p \in Sender
    BY HadType, ThroughIs, RelayIs, ProviderIs
  <1>2. v.n <= n[m]
    BY HadIs
  <1> HIDE DEF v
  <1>3. Trail(r, m, Nat, v) = v
    BY <1>1, TrailEmpty
  <1>4. x = IF m \in r.awaiting /\ Known(v) THEN Absent(v.n) ELSE v
    BY <1>3 DEF Through, v
  <1> HIDE DEF x
  <1>5. Known(x) /\ x.n <= n[m]
    BY <1>1, <1>2, <1>4, KnownIs
  <1>6. ASSUME p.hold = r.hold, p.hold # NoHold PROVE Tracks(p, n, m, x)
    <2> DEFINE hs == {p.hold}
    <2>1. Trail(p, m, hs, x) = x
      <3> HIDE DEF hs
      <3> QED BY <1>1, <1>6, TrailEmpty
    <2> QED BY <1>5, <1>6, <2>1 DEF Tracks
  <1> QED BY <1>5, <1>6 DEF Line, Upto, x

LEMMA WishFollows == ASSUME IInv, FInv, Wish PROVE FInv' /\ Grown
  <1> DEFINE on == ~cons.wish
             o == IF on THEN Unsettled ELSE cons.overlap
             old == {m \in Members : on /\ cons.members[m] # None}
             y == cons.hydrated /\ on
             d == Wished(cons, on, o, old, y)
  <1>1. /\ val' = val /\ prov' = prov /\ relay' = relay /\ passed' = passed /\ cons' = d
        /\ asked' = IF cons.hold = NoHold THEN asked ELSE Append(asked, Request(IF on THEN "sub" ELSE "unsub"))
    BY DEF Wish, Wished
  <1>2. /\ prov \in Provider /\ passed \in Seq(Message) /\ asked \in Seq(Message)
        /\ relay \in Relay /\ RelayOK(relay) /\ SlotsOK(relay) /\ FeedsOK(prov, variant)
        /\ cons \in Consumer /\ ConsOK(cons) /\ val \in [Members -> Nat]
    BY IInvIs DEF ObjectOK
  <1>3. /\ on \in BOOLEAN /\ o \in BOOLEAN /\ old \in SUBSET Members /\ y \in BOOLEAN
    BY <1>2 DEF Consumer, Unsettled
  <1>4. /\ on = ~cons.wish /\ (on => o = Unsettled) /\ ~y
        /\ on => \A m \in Members : m \in old <=> cons.members[m] # None
    BY DEF FInv, HadFits
  <1> HIDE DEF on, o, old, y
  <1>5. d \in Consumer /\ d.wish = on
    <2>1. cons \in Consumer /\ ConsOK(cons)
      BY <1>2
    <2> QED BY ONLY <1>3, <2>1, WishedIs
  <1>6. /\ d.members = (IF on THEN cons.members ELSE Empty) /\ d.overlap = o /\ d.hydrated = y
        /\ d.left = old /\ d.pending.values = cons.pending.values
    BY <1>2 DEF Wished, Consumer
  <1> HIDE DEF d
  <1>7. ASSUME Following(d) PROVE on /\ ~Unsettled /\ ~cons.wish /\ ~cons.pending.on
    BY <1>4, <1>5, <1>6, <1>7 DEF Following, Unsettled
  <1>8. HadFits(d, val)
    <2> SUFFICES ASSUME Following(d), NEW m \in Members PROVE ValuesFit(d, val, m)
      BY <1>4, <1>6 DEF HadFits
    <2>1. on /\ cons.pending = NoPending
      BY <1>2, <1>7 DEF ConsOK
    <2>2. Shown(d, m) = None
      BY <1>4, <1>6, <2>1 DEF Shown
    <2>3. Ahead(d, m) = None
      <3>1. d.pending.values[m] = None
        BY <1>6, <2>1, NoPendingIs
      <3> QED BY <3>1 DEF Ahead
    <2>4. None.n = 0 /\ val[m] \in Nat
      BY <1>2 DEF None
    <2> QED BY <2>2, <2>3, <2>4 DEF ValuesFit
  <1>9. ASSUME Following(d)
        PROVE  /\ NoUnsub'
               /\ \A m \in Members : Line(d, relay, prov, val, m)
    <2>1. on /\ ~Unsettled /\ ~cons.wish
      BY <1>7, <1>9
    <2>2. asked = <<>> /\ passed = <<>> /\ prov.out = <<>> /\ relay.out = <<>> /\ relay.order = <<>>
      BY <2>1 DEF Unsettled
    <2>3. NoUnsub'
      <3>1. asked' = <<>> \/ asked' = <<Request("sub")>>
        BY <1>1, <2>1, <2>2
      <3>2. Request("sub").t # "unsub"
        BY DEF Request
      <3>3. \A i \in DOMAIN asked' : asked'[i].t # "unsub"
        BY <3>1, <3>2
      <3> QED BY <1>1, <2>2, <3>3 DEF NoUnsub
    <2>4. \A m \in Members : relay.slots[m] = Idle
      BY <1>2, <2>2 DEF SlotsOK, Waits, Keys
    <2>5. ASSUME prov.hold = relay.hold, prov.hold # NoHold PROVE Fed(prov) = {}
      <3>1. PICK l \in Nat : Agree(l, prov, relay, cons, passed, asked, events)
        BY IInvIs DEF RequestsOK
      <3>2. Agree(l, prov, relay, cons, passed, <<>>, events)
        BY <2>2, <3>1
      <3>3. relay.hold = cons.hold
        <4> DEFINE a == Fold(Turning, passed, Serving(prov, l))
        <4>1. a.hold = relay.hold /\ Fold(Turning, <<>>, a).hold = cons.hold
          BY <3>2 DEF Agree
        <4> HIDE DEF a
        <4>2. Fold(Turning, <<>>, a) = a
          BY FoldEmpty
        <4> QED BY <4>1, <4>2
      <3>4. \A i \in DOMAIN passed : passed[i].t = "resync"
        BY <2>2
      <3>5. prov.wants = cons.wish
        BY <1>2, <2>5, <3>2, <3>3, <3>4, AgreeQuiet
      <3> QED BY <1>2, <2>1, <3>5 DEF FeedsOK
    <2>6. prov.hold = relay.hold /\ prov.hold # NoHold => \A m \in Members : prov.slots[m] = Idle
      BY <1>2, <2>5, UnfedIdle
    <2>7. ASSUME NEW m \in Members PROVE Line(d, relay, prov, val, m)
      <3>1. ValuesFit(d, val, m)
        BY <1>8, <1>9 DEF HadFits
      <3> QED BY <1>2, <1>5, <2>2, <2>4, <2>5, <2>6, <3>1, LineEmpty
    <2> QED BY <2>3, <2>7
  <1>10. NoUnsub' /\ Lines'
    <2>1. ~Following(d) => NoUnsub'
      BY <1>1 DEF NoUnsub
    <2> QED BY <1>1, <1>9, <2>1 DEF Lines
  <1>11. HadFits(cons, val)' /\ Grown
    BY <1>1, <1>7, <1>8 DEF Grown, Following
  <1> QED BY <1>10, <1>11 DEF FInv

LEMMA LoseFollows == ASSUME IInv, FInv, Lose PROVE FInv' /\ Grown
  <1> DEFINE d == [cons EXCEPT !.hold = NoHold, !.pending = NoPending,
                               !.status = IF @ = "ended" THEN @ ELSE "loading"]
             e == Forget(relay, Keys)
             r == [e EXCEPT !.out = <<>>, !.processed = 0, !.hold = NoHold, !.awaiting = {}]
  <1>1. /\ val' = val /\ prov' = prov /\ cons' = d /\ relay' = r /\ asked' = <<>>
        /\ passed' = IF relay.hold = NoHold THEN passed ELSE Append(passed, Request("release"))
    BY DEF Lose
  <1>2. /\ prov \in Provider /\ passed \in Seq(Message) /\ cons \in Consumer /\ relay \in Relay
        /\ val \in [Members -> Nat]
    BY IInvIs
  <1>3. /\ d \in Consumer /\ d.pending = NoPending /\ d.members = cons.members
        /\ d.hydrated = cons.hydrated
    <2>1. NoPending \in Pendings /\ NoHold \in Nat
      BY NoPendingIs DEF NoHold
    <2> HIDE DEF NoPending, NoHold
    <2>2. d \in Consumer
      BY <1>2, <2>1 DEF Consumer, Pendings
    <2> QED BY <1>2, <2>2 DEF Consumer
  <1>4. /\ d.wish = cons.wish /\ d.overlap = cons.overlap /\ d.failed = cons.failed /\ d.left = cons.left
        /\ d.status = "ended" <=> cons.status = "ended"
    BY <1>2 DEF Consumer
  <1> HIDE DEF d
  <1>5. /\ r \in Relay /\ r.hold = NoHold /\ r.out = <<>> /\ \A m \in Members : r.slots[m] = Idle
    <2>1. Kept(relay, e) /\ \A k \in Keys : e.slots[k] = Idle
      BY <1>2, RelayIs, ForgetIs
    <2> HIDE DEF e
    <2>2. e \in Relay /\ <<>> \in Seq(Frame)
      BY <1>2, <2>1 DEF Kept
    <2>3. r \in Relay /\ r.hold = NoHold /\ r.out = <<>> /\ r.slots = e.slots
      BY <2>2 DEF Relay, NoHold
    <2> HIDE DEF r
    <2> QED BY <2>1, <2>3 DEF Keys
  <1> HIDE DEF r
  <1>6. HadFits(d, val)
    <2>1. d.hydrated => d.wish /\ d.status # "ended"
      BY <1>3, <1>4 DEF FInv, HadFits
    <2> SUFFICES ASSUME Following(cons), NEW m \in Members PROVE ValuesFit(d, val, m)
      BY <1>4, <2>1 DEF HadFits, Following
    <2>2. ValuesFit(cons, val, m)
      BY DEF FInv, HadFits
    <2>3. Shown(d, m) = Shown(cons, m) /\ Ahead(d, m) = None
      <3>1. d.pending.values[m] = None
        BY <1>3, NoPendingIs
      <3> QED BY <1>3, <1>4, <3>1 DEF Shown, Ahead
    <2>4. None.n = 0 /\ val[m] \in Nat
      BY <1>2 DEF None
    <2> QED BY <2>2, <2>3, <2>4 DEF ValuesFit
  <1>7. Following(d) <=> Following(cons)
    BY <1>4 DEF Following
  <1>8. ASSUME Following(d), NEW m \in Members PROVE Line(d, r, prov, val, m)
    <2>1. ValuesFit(d, val, m)
      BY <1>6, <1>8 DEF HadFits
    <2> QED BY <1>2, <1>3, <1>5, <2>1, LineEmpty
  <1>9. NoUnsub'
    <2> SUFFICES ASSUME Following(cons)
                 PROVE  \A i \in DOMAIN passed' : passed'[i].t # "unsub"
      BY <1>1, <1>7 DEF NoUnsub
    <2>1. Request("release").t # "unsub"
      BY DEF Request
    <2>2. \A i \in DOMAIN passed' : \/ passed'[i] = Request("release")
                                    \/ i \in DOMAIN passed /\ passed'[i] = passed[i]
      BY <1>1, <1>2
    <2> QED BY <2>1, <2>2 DEF FInv, NoUnsub
  <1>10. HadFits(cons, val)' /\ Lines'
    BY <1>1, <1>6, <1>8 DEF Lines
  <1>11. Grown
    BY <1>1, <1>2, <1>3, <1>4, GrowsSame DEF Grown
  <1> QED BY <1>9, <1>10, <1>11 DEF FInv

-----------------------------------------------------------------------------
LEMMA InitFollows == Init => FInv
  <1> SUFFICES ASSUME Init PROVE FInv
    OBVIOUS
  <1> DEFINE none == [k \in Keys |-> Idle]
  <1>1. IInv
    BY InitHolds
  <1>2. prov \in Provider /\ relay \in Relay /\ cons \in Consumer /\ val \in [Members -> Nat]
    BY <1>1, IInvIs
  <1>3. /\ relay.out = <<>> /\ relay.slots = none /\ prov.hold = NoHold
        /\ cons.members = Empty /\ cons.pending = NoPending /\ ~cons.hydrated
        /\ asked = <<>> /\ passed = <<>>
    BY DEF Init
  <1>4. \A m \in Members : relay.slots[m] = Idle
    BY <1>3 DEF Keys
  <1>5. ASSUME NEW m \in Members PROVE ValuesFit(cons, val, m)
    <2>1. cons.members[m] = None /\ cons.pending.values[m] = None
      BY <1>3, NoPendingIs
    <2>2. Shown(cons, m) = None /\ Ahead(cons, m) = None
      BY <2>1 DEF Shown, Ahead
    <2>3. None.n = 0 /\ val[m] \in Nat
      BY <1>2 DEF None
    <2> QED BY <2>2, <2>3 DEF ValuesFit
  <1>6. ASSUME NEW m \in Members PROVE Line(cons, relay, prov, val, m)
    BY <1>2, <1>3, <1>4, <1>5, LineEmpty
  <1> QED BY <1>3, <1>5, <1>6 DEF FInv, HadFits, NoUnsub, Lines

LEMMA StepFollows == IInv /\ FInv /\ [Next]_vars => FInv' /\ Grown
  <1> SUFFICES ASSUME IInv, FInv, [Next]_vars PROVE FInv' /\ Grown
    OBVIOUS
  <1>1. CASE ProviderServes
    BY <1>1, ProviderServesFollows
  <1>2. CASE ProviderHearsAck
    BY <1>2, ProviderHearsAckFollows
  <1>3. CASE RelayReceives
    BY <1>3, RelayReceivesFollows
  <1>4. CASE RelayPasses
    BY <1>4, RelayPassesFollows
  <1>5. CASE RelayHearsAck
    BY <1>5, RelayHearsAckFollows
  <1>6. CASE ConsumerReceives
    BY <1>6, ConsumerReceivesFollows
  <1>7. CASE Bind
    BY <1>7, BindFollows
  <1>8. CASE Wish
    BY <1>8, WishFollows
  <1>9. CASE Lose
    BY <1>9, LoseFollows
  <1>10. ASSUME NEW m \in Members, NEW as \in {"ops", "reset"}, NEW fits \in BOOLEAN, Change(m, as, fits)
         PROVE  FInv' /\ Grown
    BY <1>10, ChangeFollows
  <1>11. ASSUME NEW vs \in Variants, Reshape(vs) PROVE FInv' /\ Grown
    BY <1>11, ReshapeFollows
  <1>12. CASE UNCHANGED vars
    <2>1. /\ cons' = cons /\ val' = val /\ relay' = relay /\ prov' = prov
          /\ asked' = asked /\ passed' = passed
      BY <1>12 DEF vars
    <2>2. val \in [Members -> Nat]
      BY IInvIs
    <2>3. val' \in [Members -> Nat] /\ \A m \in Members : val[m] <= val'[m]
      BY <2>1, <2>2
    <2>4. NoUnsub' /\ (Following(cons) => \A m \in Members : Line(cons, relay', prov', val', m))
      BY <2>1 DEF FInv, NoUnsub, Lines
    <2> QED BY <2>1, <2>3, <2>4, ConsumerStays
  <1> QED BY <1>1, <1>2, <1>3, <1>4, <1>5, <1>6, <1>7, <1>8, <1>9, <1>10, <1>11, <1>12 DEF Next

\* A view that asks for state when nothing of an earlier wish is on its way or waits reads
\* of each member, once it came since and as long as no error came instead of it, a value
\* the object had, and never an earlier one than before: whatever waited, was dropped, sent
\* again, awaited by the relay, failed its schema or was replaced by a newer shape,
\* operations reach the value they were made for (connection.ts "Frames of one stream stay
\* in order", #drop, RelayRef's awaiting, RemoteBinding's shaped and state).
THEOREM ReplicaIsFollowed == Spec => ReplicaFollows
  <1> DEFINE Follow ==
        \A m \in Members :
          LET before == Read(cons, m) after == Read(cons', m) IN
          Trusted(cons', m) =>
            /\ after # Torn /\ after.n <= val'[m]
            /\ Trusted(cons, m) /\ before # None /\ after # None => before.n <= after.n
  <1>1. IInv /\ IInv' /\ FInv /\ FInv' /\ Grown => Follow
    <2> SUFFICES ASSUME IInv, IInv', FInv, FInv', Grown, NEW m \in Members, Trusted(cons', m)
                 PROVE  LET before == Read(cons, m) after == Read(cons', m) IN
                        /\ after # Torn /\ after.n <= val'[m]
                        /\ Trusted(cons, m) /\ before # None /\ after # None => before.n <= after.n
      OBVIOUS
    <2> DEFINE a == Shown(cons, m)
               b == Shown(cons', m)
               before == Read(cons, m)
               after == Read(cons', m)
    <2>1. val' \in [Members -> Nat]
      BY DEF IInv, TypeOK
    <2>2. after # None => Following(cons') /\ after = b
      <3>1. after # None => cons'.hydrated /\ after = cons'.members[m]
        BY DEF Read
      <3>2. cons'.hydrated => cons'.wish /\ cons'.status # "ended"
        BY DEF FInv, HadFits
      <3> QED BY <3>1, <3>2 DEF Following, Trusted, Shown
    <2>3. Trusted(cons, m) /\ before # None => Following(cons) /\ before = a
      <3>1. before # None => cons.hydrated /\ before = cons.members[m]
        BY DEF Read
      <3>2. cons.hydrated => cons.wish /\ cons.status # "ended"
        BY DEF FInv, HadFits
      <3> QED BY <3>1, <3>2 DEF Following, Trusted, Shown
    <2>4. Following(cons') => (b.s = 0 => b = None) /\ b.n <= val'[m]
      BY DEF FInv, HadFits, ValuesFit
    <2>5. Following(cons) /\ Following(cons') /\ a # None /\ b # None => a.n <= b.n
      BY DEF Grown, Grows
    <2>6. None # Torn /\ None.n = 0 /\ Torn.s = 0 /\ val'[m] \in Nat
      BY <2>1 DEF None, Torn
    <2> HIDE DEF a, b, before, after
    <2>7. after # Torn /\ after.n <= val'[m]
      BY <2>2, <2>4, <2>6
    <2>8. Trusted(cons, m) /\ before # None /\ after # None => before.n <= after.n
      BY <2>2, <2>3, <2>5
    <2> QED BY <2>7, <2>8 DEF before, after
  <1>2. IInv /\ FInv /\ [Next]_vars => IInv' /\ FInv' /\ Follow
    BY <1>1, StepKeeps, StepFollows
  <1>3. Init => IInv /\ FInv
    BY InitHolds, InitFollows
  <1>4. Spec => [][Follow]_vars
    <2> HIDE DEF Follow
    <2> QED BY <1>2, <1>3, PTL DEF Spec
  <1> QED BY <1>4 DEF ReplicaFollows
=============================================================================
