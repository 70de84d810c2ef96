---------------------------- MODULE Subsequences ----------------------------
(***************************************************************************)
(* What stays of a list when some of its items are removed by their places *)
(* (splice in inbox.ts), in a form that proofs can follow item by item.    *)
(***************************************************************************)
EXTENDS Integers, Sequences

\* The items at the places K, in order.
ItemsAt(items, K) ==
  LET upTo[i \in 0..Len(items)] ==
        IF i = 0 THEN <<>>
        ELSE IF i \in K THEN Append(upTo[i - 1], items[i]) ELSE upTo[i - 1]
  IN upTo[Len(items)]

\* The items whose submissions are not in S.
Without(items, S) == ItemsAt(items, {i \in DOMAIN items : items[i].id \notin S})
=============================================================================
