---------------------------- MODULE StableStore ----------------------------
(***************************************************************************)
(* What a Raft node needs of its stable store: a term and vote, a snapshot *)
(* and the log after it, brought to an update in a fixed order.  Each part *)
(* of the update takes effect in one step.  A crash forgets the rest of    *)
(* the update and undoes none of what was done.                            *)
(***************************************************************************)
EXTENDS Naturals, Sequences

VARIABLES hard, snapshot, log, update

state == <<hard, snapshot, log>>

NoEntry == [index |-> 0, term |-> 0]
Nothing == [hard |-> 0, snapshot |-> NoEntry, from |-> 0, entries |-> <<>>]

Init ==
    /\ hard = 0
    /\ snapshot = NoEntry
    /\ log = <<>>
    /\ update = Nothing

Request ==
    /\ update = Nothing
    /\ UNCHANGED state

\* A part of the update is done; the process may end with it.
Leaves(rest) == update' \in {rest, Nothing}

\* Terms only grow.
SetHard ==
    /\ update.hard > hard
    /\ hard' = update.hard
    /\ Leaves([update EXCEPT !.hard = 0])
    /\ UNCHANGED <<snapshot, log>>

\* The log after the snapshot stays if the snapshot is a prefix of it.
Install ==
    /\ update.hard = 0
    /\ update.snapshot.index > snapshot.index
    /\ snapshot' = update.snapshot
    /\ LET k == update.snapshot.index - snapshot.index
       IN  log' = IF k \in DOMAIN log /\ log[k].term = snapshot'.term
                  THEN SubSeq(log, k + 1, Len(log)) ELSE <<>>
    /\ Leaves([update EXCEPT !.snapshot = NoEntry])
    /\ UNCHANGED hard

Cut ==
    /\ update.hard = 0 /\ update.from > snapshot.index
    /\ log' = SubSeq(log, 1, update.from - snapshot.index - 1)
    /\ Leaves([update EXCEPT !.from = 0])
    /\ UNCHANGED <<hard, snapshot>>

\* The log goes on where it ends.
Extend ==
    /\ update.hard = 0 /\ update.from = 0 /\ update.entries # <<>>
    /\ Head(update.entries).index = snapshot.index + Len(log) + 1
    /\ log' = Append(log, Head(update.entries))
    /\ Leaves([update EXCEPT !.entries = Tail(@)])
    /\ UNCHANGED <<hard, snapshot>>

Crash ==
    /\ update' = Nothing
    /\ UNCHANGED state

Next == Request \/ SetHard \/ Install \/ Cut \/ Extend \/ Crash

Spec == Init /\ [][Next]_<<state, update>>
=============================================================================
