---------------------------- MODULE StateStream ----------------------------
(***************************************************************************)
(* State of a held object, pushed from its provider through a relay to a   *)
(* consumer (chord: connection.ts, remote.ts).                             *)
(*                                                                         *)
(* Each link is a Connection: frames arrive in order, and a sender lets    *)
(* state wait in slots while too many frames are not acknowledged.  The    *)
(* consumer applies a shape once the snapshots it lists are here.  A value *)
(* is a place in a stream: [s, n] is what the snapshot that began stream s *)
(* and the operations since make of a member at its n-th change; the       *)
(* operation to [s, n] applies to [s, n - 1] only, since its encoding is   *)
(* the stream's.  A snapshot or reset of a value that fails its schema is  *)
(* an error frame instead, and a value may fail to unpack where it comes.  *)
(***************************************************************************)
EXTENDS Integers, Sequences, FiniteSets, SequencesExt, FiniteSetsExt, Subsequences

CONSTANTS
  Variants,    \* the variants of the object's contract: their state members
  Window,      \* frames a sender may have unacknowledged before state waits
  PendingCap,  \* operations that may wait on a link
  Failures,    \* whether values may fail their schema, or fail to unpack
  MaxEvents    \* bound: changes of values, variants and wishes, and lost links

ASSUME BoundsAssumption ==
  /\ Window \in Nat \ {0} /\ PendingCap \in Nat \ {0}
  /\ MaxEvents \in Nat /\ Failures \in BOOLEAN

Members == UNION Variants
Keys == Members \cup {"unit"}     \* what may wait on a link

ASSUME MembersAssumption == IsFiniteSet(Members) /\ "unit" \notin Members

VARIABLES
  val,      \* [Members -> number of changes]: the object's state
  invalid,  \* its members whose value fails its schema
  variant,  \* the members of its variant
  prov,     \* the provider's end of its link: its sender, the served hold
  relay,    \* the relay's end of the consumer's link: its sender, the RelayRef
  cons,     \* the consumer's RemoteBinding
  asked,    \* requests on their way from the consumer to the relay
  passed,   \* requests on their way from the relay to the provider
  events    \* how many of the bounded events there were

vars == <<val, invalid, variant, prov, relay, cons, asked, passed, events>>

None == [s |-> 0, n |-> 0]        \* no value
Torn == [s |-> 0, n |-> 1]        \* operations were applied to another value
Failed == [s |-> 0, n |-> 2]      \* no value but an error

Hold(id, state, again) == [t |-> "hold", id |-> id, state |-> state, again |-> again, m |-> "none"]
Request(what) == [t |-> what, id |-> 0, state |-> FALSE, again |-> FALSE, m |-> "none"]
Resync(m) == [Request("resync") EXCEPT !.m = m]

Shape(h, members, listed) ==
  [t |-> "shape", h |-> h, members |-> members, listed |-> listed,
   m |-> "none", as |-> "none", at |-> None, ops |-> <<>>]
State(h, m, as, at, ops) ==
  [t |-> "state", h |-> h, members |-> {}, listed |-> {}, m |-> m, as |-> as, at |-> at, ops |-> ops]
Error(h, m) == State(h, m, "error", Failed, <<>>)

----------------------------------------------------------------------------
(* Senders (Connection): frames on their way, how many the peer processed  *)
(* but has not acknowledged, and the slots of what waits, oldest first.    *)

NoFrame == Shape(0, {}, {})
Holding(frame) == [base |-> frame, ops |-> <<>>, lazy |-> FALSE]
Idle == Holding(NoFrame)
Lazy == [base |-> NoFrame, ops |-> <<>>, lazy |-> TRUE]

Full(c) == Len(c.out) + c.processed >= Window
Send(c, frame) == [c EXCEPT !.out = Append(@, frame)]
Waits(c, k) == \E i \in DOMAIN c.order : c.order[i] = k
Queued(c, k) == IF Waits(c, k) THEN c ELSE [c EXCEPT !.order = Append(@, k)]
Forget(c, ks) ==
  [c EXCEPT !.order = ItemsAt(@, {i \in DOMAIN @ : @[i] \notin ks}),
            !.slots = [k \in Keys |-> IF k \in ks THEN Idle ELSE @[k]]]
WaitingOps(c) == MapThenSumSet(LAMBDA k : Len(c.slots[k].ops), Keys)

\* #drop: a provider sends the values again when it can, a relay asks for them.
Drop(c, ks) ==
  IF c.provides
  THEN [c EXCEPT !.slots = [k \in Keys |-> IF k \in ks THEN Lazy ELSE @[k]]]
  ELSE [Forget(c, ks) EXCEPT !.dropped = @ \cup ks]

\* #makeRoom: as many of the oldest streams go as it takes, the one that needs
\* room last.
MakeRoom(c, size, m) ==
  LET oldest == [i \in 0..Len(c.order) |->
                   Drop(c, {k \in Members \ {m} : c.slots[k].ops # <<>>
                              /\ \E j \in 1..i : c.order[j] = k})]
      enough == {i \in DOMAIN oldest : WaitingOps(oldest[i]) + size <= PendingCap}
  IN IF enough # {} THEN oldest[Min(enough)] ELSE Drop(oldest[Len(c.order)], {m})

\* sendState: a snapshot, reset or error replaces what waits, operations follow it.
SendState(c, frame) ==
  LET m == frame.m
      d == Queued(c, m)
      e == IF WaitingOps(d) + Len(frame.ops) > PendingCap
           THEN MakeRoom(d, Len(frame.ops), m) ELSE d
  IN IF ~Waits(c, m) /\ ~Full(c) THEN Send(c, frame)
     ELSE IF frame.as # "ops" THEN [d EXCEPT !.slots[m] = Holding(frame)]
     ELSE IF d.slots[m].lazy THEN d
     ELSE IF ~Waits(e, m) \/ e.slots[m].lazy THEN e
     ELSE [e EXCEPT !.slots[m].ops = @ \o frame.ops]

----------------------------------------------------------------------------
(* The provider: a hold it serves, with a feed for each member the         *)
(* consumer has.                                                           *)

NoHold == 0
Fed(p) == {m \in Members : p.feeds[m] # 0}

\* #attach: a new stream from the current value.
Attach(p, m) == [p EXCEPT !.feeds[m] = p.next, !.next = @ + 1]

\* #snapshot: a value that fails its schema is told as an error.
Snapshot(p, m, as, n, fits) ==
  IF fits THEN State(p.hold, m, as, [s |-> p.feeds[m], n |-> n], <<>>) ELSE Error(p.hold, m)
Snap(p, m, as) == Snapshot(p, m, as, val[m], m \notin invalid)

\* #sendUnit, for the members of the variant vs: the shape, then a snapshot of
\* each member the consumer lacks.
SendUnit(p, vs) ==
  LET listed == IF p.wants THEN vs \ Fed(p) ELSE {}
      fed == [Forget(p, {"unit"}) EXCEPT
                !.unitSent = TRUE, !.next = @ + 1,
                !.feeds = [m \in Members |-> IF m \in listed THEN p.next ELSE @[m]]]
      order == SetToSeq(listed)
  IN [fed EXCEPT !.out = Append(@, Shape(p.hold, vs, listed))
                           \o [i \in DOMAIN order |-> Snap(fed, order[i], "snap")]]

\* #resend: from a new stream.
Resend(p, m) ==
  IF p.feeds[m] = 0 THEN p
  ELSE LET q == Attach(p, m) IN Send(q, Snap(q, m, "reset"))

\* #flush: what waits in the order it came, while the window allows.
FlushOne(c, vs) ==
  LET k == Head(c.order)
      slot == c.slots[k]
      d == Forget(c, {k})
      e == IF slot.base = NoFrame THEN d ELSE Send(d, slot.base)
  IN IF k = "unit" THEN SendUnit(d, vs)
     ELSE IF slot.lazy THEN Resend(d, k)
     ELSE IF slot.ops = <<>> THEN e
     ELSE Send(e, State(c.hold, k, "ops", None, slot.ops))
Flush(c, vs) ==
  LET after[i \in 0..Len(c.order)] ==
        IF i = 0 THEN c
        ELSE IF after[i - 1].order = <<>> \/ Full(after[i - 1]) THEN after[i - 1]
        ELSE FlushOne(after[i - 1], vs)
  IN after[Len(c.order)]

\* #unit: members that left lose their stream; the first unit of a hold that is
\* no re-hold goes past the window.
Unit(p, vs) ==
  LET kept == IF p.wants THEN vs ELSE {}
      q == [Forget(p, Members \ kept) EXCEPT
              !.feeds = [m \in Members |-> IF m \in kept THEN p.feeds[m] ELSE 0]]
      urgent == Fed(q) = {} /\ ~(q.again /\ ~q.unitSent)
  IN IF q.hold = NoHold THEN q
     ELSE IF urgent THEN SendUnit(q, vs)
     ELSE Flush(Queued(q, "unit"), vs)

Unserved(p) == [Forget(p, Keys) EXCEPT
                  !.hold = NoHold, !.feeds = [m \in Members |-> 0]]

\* #onHold, #onWantState, #onResync and a release.
Served(p, msg) ==
  CASE msg.t = "hold" -> Unit([p EXCEPT !.hold = msg.id, !.wants = msg.state,
                                        !.again = msg.again, !.unitSent = FALSE], variant)
    [] msg.t = "release" -> Unserved(p)
    [] msg.t = "sub" -> IF p.wants THEN p ELSE Unit([p EXCEPT !.wants = TRUE], variant)
    [] msg.t = "unsub" -> [Forget(p, Keys) EXCEPT
                             !.wants = FALSE, !.feeds = [m \in Members |-> 0]]
    [] msg.t = "resync" ->
         IF p.feeds[msg.m] = 0 THEN p
         ELSE Flush([Queued(p, msg.m) EXCEPT !.slots[msg.m] = Lazy], variant)

ProviderServes ==
  /\ passed # <<>>
  /\ prov' = Served(prov, Head(passed))
  /\ passed' = Tail(passed)
  /\ UNCHANGED <<val, invalid, variant, relay, cons, asked, events>>

\* A member changes: operations in its stream, or, when it was replaced as a
\* whole, a new stream with its reset.  Only in dev mode is a write validated.
Change(m, as, fits) ==
  /\ events < MaxEvents /\ m \in variant /\ (fits \/ Failures)
  /\ val' = [val EXCEPT ![m] = @ + 1]
  /\ invalid' = IF fits THEN invalid \ {m} ELSE invalid \cup {m}
  /\ prov' = IF prov.feeds[m] = 0 THEN prov
             ELSE IF as = "ops"
             THEN SendState(prov, State(prov.hold, m, "ops", None,
                                        <<[s |-> prov.feeds[m], n |-> val[m] + 1]>>))
             ELSE LET p == Attach(prov, m) IN SendState(p, Snapshot(p, m, "reset", val[m] + 1, fits))
  /\ events' = events + 1
  /\ UNCHANGED <<variant, relay, cons, asked, passed>>

\* A reload or another variant: the members of the object change.
Reshape(vs) ==
  /\ events < MaxEvents
  /\ variant' = vs
  /\ prov' = Unit(prov, vs)
  /\ events' = events + 1
  /\ UNCHANGED <<val, invalid, relay, cons, asked, passed>>

\* Acknowledgements are cumulative, and late.
ProviderHearsAck ==
  /\ prov.processed > 0
  /\ prov' = Flush([prov EXCEPT !.processed = 0], variant)
  /\ UNCHANGED <<val, invalid, variant, relay, cons, asked, passed, events>>

----------------------------------------------------------------------------
(* The relay (RelayRef).                                                   *)

\* Members whose operations it dropped are asked for again.
Relayed(r) ==
  /\ relay' = [r EXCEPT !.dropped = {}, !.awaiting = @ \cup r.dropped]
  /\ passed' = passed \o SetToSeq({Resync(m) : m \in r.dropped})

RelayShape(r, frame) ==
  Send([r EXCEPT !.shaped = TRUE,
                 !.urgent = IF ~r.shaped /\ ~r.again THEN frame.listed ELSE @], frame)

\* Bug: the relay forwards operations of a stream it dropped.
Bug_RelayState(r, frame) ==
  IF frame.m \in r.urgent
  THEN Send([r EXCEPT !.urgent = @ \ {frame.m}], frame)
  ELSE SendState([r EXCEPT !.awaiting = @ \ {frame.m}], frame)
RelayState(r, frame) ==
  LET m == frame.m
      q == [r EXCEPT !.awaiting = @ \ {m}, !.urgent = @ \ {m}]
  IN IF m \in r.awaiting /\ frame.as = "ops" THEN r
     ELSE IF m \in r.urgent THEN Send(q, frame) ELSE SendState(q, frame)

RelayReceives ==
  /\ prov.out # <<>>
  /\ LET frame == Head(prov.out) IN
     /\ prov' = [prov EXCEPT !.out = Tail(@), !.processed = @ + 1]
     /\ IF relay.hold = NoHold \/ frame.h # relay.hold THEN UNCHANGED <<relay, passed>>
        ELSE Relayed(IF frame.t = "shape" THEN RelayShape(relay, frame)
                     ELSE RelayState(relay, frame))
  /\ UNCHANGED <<val, invalid, variant, cons, asked, events>>

\* A hold opens a new RelayRef; wantState forwards a change of the wish.
RelayPasses ==
  /\ asked # <<>>
  /\ LET msg == Head(asked)
         fresh == [relay EXCEPT !.hold = msg.id, !.again = msg.again, !.shaped = FALSE,
                                !.urgent = {}, !.awaiting = {}]
     IN /\ relay' = CASE msg.t = "hold" -> fresh
                      [] msg.t = "unsub" ->
                           [Forget(relay, Keys) EXCEPT !.awaiting = {}]
                      [] OTHER -> relay
        /\ passed' = Append(passed, msg)
  /\ asked' = Tail(asked)
  /\ UNCHANGED <<val, invalid, variant, prov, cons, events>>

RelayHearsAck ==
  /\ relay.processed > 0
  /\ Relayed(Flush([relay EXCEPT !.processed = 0], variant))
  /\ UNCHANGED <<val, invalid, variant, prov, cons, asked, events>>

----------------------------------------------------------------------------
(* The consumer (RemoteBinding).  One view only calls methods and stays;   *)
(* `wish` is whether another view wants state.  Three records are not in   *)
(* the code: `overlap`, whether anything of an earlier wish was on its way *)
(* or waited when a view last asked for state; `left`, the members with a  *)
(* value that came while no view wanted it; and `failed`, those whose last *)
(* snapshot or reset was an error, so that what the consumer keeps, and    *)
(* what operations make of it, is not the object's.                        *)

Empty == [m \in Members |-> None]
NoPending == [on |-> FALSE, members |-> {}, missing |-> {}, values |-> Empty, failed |-> {}]

\* Each operation applies to the value before it in its stream.
Applied(at, ops) ==
  IF \A i \in DOMAIN ops : ops[i] = [s |-> at.s, n |-> at.n + i]
  THEN [s |-> at.s, n |-> at.n + Len(ops)] ELSE Torn

\* #apply: the pending shape with its snapshots.
Apply(c) ==
  LET p == c.pending
      values == [m \in Members |->
        IF m \notin p.members THEN None
        ELSE IF p.values[m] # None THEN p.values[m] ELSE c.members[m]]
  IN [c EXCEPT !.pending = NoPending, !.shape = p.members, !.members = values,
        !.failed = {m \in p.members : m \in IF p.values[m] # None THEN p.failed ELSE @},
        !.left = {m \in @ \cap p.members : p.values[m] = None},
        !.hydrated = c.wish /\ \A m \in p.members : values[m] # None,
        !.status = "live", !.applied = TRUE]

\* Bug: a newer shape does not wait for what the older one still lacks.
Bug_Shaped(c, frame) ==
  LET missing == IF c.wish THEN frame.listed \cap frame.members ELSE {}
      d == [c EXCEPT !.pending = [@ EXCEPT !.on = TRUE, !.members = frame.members,
                                           !.missing = missing]]
  IN IF missing = {} THEN Apply(d) ELSE d
\* shaped: a shape waits for its snapshots, and for those of one it replaces.
Shaped(c, frame) ==
  LET missing == IF c.wish THEN (frame.listed \cup c.pending.missing) \cap frame.members ELSE {}
      d == [c EXCEPT !.pending = [@ EXCEPT !.on = TRUE, !.members = frame.members,
                                           !.missing = missing]]
  IN IF missing = {} THEN Apply(d) ELSE d

StateOps(c, frame) ==
  LET m == frame.m IN
  IF c.pending.values[m] # None
  THEN [c EXCEPT !.pending.values[m] = Applied(@, frame.ops)]
  ELSE IF c.members[m] # None THEN [c EXCEPT !.members[m] = Applied(@, frame.ops)]
  ELSE c

\* A shape waits for a value of the member, or has one.
Awaits(c, m) == c.pending.on /\ (m \in c.pending.missing \/ c.pending.values[m] # None)

StateValue(c, frame) ==
  LET m == frame.m
      d == [c EXCEPT !.pending.values[m] = frame.at, !.pending.missing = @ \ {m},
                     !.pending.failed = @ \ {m}]
  IN IF Awaits(c, m) THEN IF d.pending.missing = {} THEN Apply(d) ELSE d
     ELSE IF m \in c.shape
     THEN [c EXCEPT !.members[m] = frame.at, !.failed = @ \ {m}, !.left = @ \ {m}] ELSE c

\* Before the first hydration an error ends the reference; the Connection keeps
\* the hold.  Later it is reported, and what is here stays.
StateError(c, m) ==
  IF ~c.hydrated /\ c.wish THEN [c EXCEPT !.status = "ended", !.pending = NoPending]
  ELSE [c EXCEPT !.pending.failed = IF Awaits(c, m) THEN @ \cup {m} ELSE @,
                 !.failed = IF c.pending.values[m] = None THEN @ \cup {m} ELSE @]

ConsumerReceives ==
  /\ relay.out # <<>>
  /\ \E unpacks \in {TRUE, ~Failures} :
       LET frame == Head(relay.out) IN
       cons' = IF cons.status = "ended" THEN cons
               ELSE IF frame.t = "shape" THEN Shaped(cons, frame)
               ELSE IF frame.as = "ops" THEN StateOps(cons, frame)
               ELSE IF frame.as # "error" /\ unpacks THEN StateValue(cons, frame)
               ELSE StateError(cons, frame.m)
  /\ relay' = [relay EXCEPT !.out = Tail(@), !.processed = @ + 1]
  /\ UNCHANGED <<val, invalid, variant, prov, asked, passed, events>>

\* Something is on its way, or waits at the relay or the consumer.
Unsettled ==
  \/ asked # <<>> \/ passed # <<>> \/ prov.out # <<>> \/ relay.out # <<>>
  \/ relay.order # <<>> \/ cons.pending.on

\* #syncState: a view that wants state comes, or the last one goes.
Wish ==
  /\ events < MaxEvents /\ cons.status # "ended"
  /\ LET on == ~cons.wish IN
     /\ cons' = [cons EXCEPT !.wish = on, !.overlap = IF on THEN Unsettled ELSE @,
                   !.left = {m \in Members : on /\ cons.members[m] # None},
                   !.hydrated = @ /\ on,
                   !.members = IF on THEN @ ELSE Empty,
                   !.pending.missing = IF on THEN @ ELSE {}]
     /\ asked' = IF cons.hold = NoHold THEN asked
                 ELSE Append(asked, Request(IF on THEN "sub" ELSE "unsub"))
  /\ events' = events + 1
  /\ UNCHANGED <<val, invalid, variant, prov, relay, passed>>

\* The consumer holds, or holds again.
Bind ==
  /\ cons.hold = NoHold /\ cons.status # "ended"
  /\ cons' = [cons EXCEPT !.hold = events + 1]
  /\ asked' = Append(asked, Hold(events + 1, cons.wish, cons.applied))
  /\ UNCHANGED <<val, invalid, variant, prov, relay, passed, events>>

\* The consumer's link is lost: both ends forget what was on its way, the relay
\* releases its hold, the consumer keeps its values.
Lose ==
  /\ events < MaxEvents /\ cons.hold # NoHold
  /\ cons' = [cons EXCEPT !.hold = NoHold, !.pending = NoPending,
                          !.status = IF @ = "ended" THEN @ ELSE "loading"]
  /\ asked' = <<>>
  /\ relay' = [Forget(relay, Keys) EXCEPT
                 !.out = <<>>, !.processed = 0, !.hold = NoHold, !.awaiting = {}]
  /\ passed' = IF relay.hold = NoHold THEN passed ELSE Append(passed, Request("release"))
  /\ events' = events + 1
  /\ UNCHANGED <<val, invalid, variant, prov>>

----------------------------------------------------------------------------
Init ==
  /\ val = [m \in Members |-> 1] /\ invalid = {} /\ variant \in Variants
  /\ prov = [out |-> <<>>, processed |-> 0, order |-> <<>>, slots |-> [k \in Keys |-> Idle],
             provides |-> TRUE, dropped |-> {}, hold |-> NoHold, wants |-> FALSE, again |-> FALSE,
             unitSent |-> FALSE, feeds |-> [m \in Members |-> 0], next |-> 1]
  /\ relay = [out |-> <<>>, processed |-> 0, order |-> <<>>, slots |-> [k \in Keys |-> Idle],
              provides |-> FALSE, dropped |-> {}, hold |-> NoHold, again |-> FALSE,
              shaped |-> FALSE, urgent |-> {}, awaiting |-> {}]
  /\ cons = [wish |-> TRUE, hold |-> NoHold, status |-> "loading",
             hydrated |-> FALSE, applied |-> FALSE, overlap |-> FALSE, shape |-> {}, members |-> Empty,
             failed |-> {}, left |-> {}, pending |-> NoPending]
  /\ asked = <<>> /\ passed = <<>>
  /\ events = 0

Next ==
  \/ ProviderServes \/ ProviderHearsAck \/ RelayReceives \/ RelayPasses \/ RelayHearsAck
  \/ ConsumerReceives \/ Bind \/ Wish \/ Lose
  \/ \E m \in Members, as \in {"ops", "reset"}, fits \in BOOLEAN : Change(m, as, fits)
  \/ \E vs \in Variants : Reshape(vs)

Spec == Init /\ [][Next]_vars

----------------------------------------------------------------------------
(* Properties.                                                             *)

Read(c, m) == IF c.hydrated /\ m \in c.shape THEN c.members[m] ELSE None

\* What a view reads of a member is a value the object had, and never an earlier one
\* than before: operations reach the value they were made for, whatever waited, was
\* dropped, sent again or replaced (connection.ts "Frames of one stream stay in order").
DeltasFollowSnapshot ==
  [][\A m \in Members :
       LET before == Read(cons, m) after == Read(cons', m) IN
       /\ after # Torn /\ after.n <= val'[m]
       /\ before # None /\ after # None => before.n <= after.n]_vars

\* The same, for a view that asks for state only when nothing of an earlier wish is on
\* its way or waits, and for what came since it asked and did not fail.
Trusted(c, m) == ~c.overlap /\ m \notin c.left \cup c.failed
ReplicaFollows ==
  [][\A m \in Members :
       LET before == Read(cons, m) after == Read(cons', m) IN
       Trusted(cons', m) =>
         /\ after # Torn /\ after.n <= val'[m]
         /\ Trusted(cons, m) /\ before # None /\ after # None => before.n <= after.n]_vars

\* All that was sent has come and is acknowledged.
AtRest ==
  /\ cons.hold # NoHold /\ asked = <<>> /\ passed = <<>>
  /\ prov.out = <<>> /\ relay.out = <<>> /\ prov.processed = 0 /\ relay.processed = 0

\* At rest a view that wants state, and has not ended with an error, sees the object's
\* members, unless the snapshot of one it waits for failed; and it sees, or has ready
\* for the shape that waits, the latest value of each member whose last snapshot or reset
\* did not fail: what waited, was dropped or was replaced on the way is not forgotten.
RestIsCurrent ==
  AtRest /\ cons.wish /\ cons.status # "ended" =>
    /\ \/ cons.status = "live" /\ cons.hydrated /\ cons.shape = variant /\ ~cons.pending.on
       \/ cons.pending.members = variant /\ cons.pending.missing \cap cons.pending.failed # {}
    /\ \A m \in variant :
         IF Awaits(cons, m)
         THEN m \in cons.pending.failed \/ cons.pending.values[m].n = val[m]
         ELSE m \in cons.failed \/ cons.members[m].n = val[m]

\* At rest a view that only calls methods is ready, whatever other views of the object
\* wanted (guide.md: it is "ready once its object is live").
MethodOnlyIsReady == AtRest => cons.status = "live"
=============================================================================
