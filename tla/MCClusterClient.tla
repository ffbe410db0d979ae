-------------------------- MODULE MCClusterClient --------------------------
(* Instances of ClusterClient for TLC: what the callers do, and how much    *)
(* goes wrong, in each scene.                                               *)
EXTENDS ClusterClient

CONSTANTS r1, r2, c1, c2, reader, key, also, put, other

MCAddresses == <<r1, r2>>

W(k, v) == [key |-> k, val |-> v]
R(k) == W(k, None)

Scene(ones, twos, reads, wrong) ==
    [todo |-> (c1 :> ones) @@ (c2 :> twos) @@ (reader :> reads),
     faults |-> wrong[1], elections |-> wrong[2], losses |-> wrong[3], quits |-> wrong[4]]

\* Three writes that fill a memtable, with one failure; a deletion with two;
\* a retry across two leaders with one; a call abandoned and an answer lost;
\* two clients; and a reader, beside a writer and across two leaders.
MCScenes ==
    {Scene(<<W(key, put), W(also, put), W(key, Tombstone)>>, <<>>, <<>>, <<1, 1, 0, 0>>),
     Scene(<<W(key, put), W(key, Tombstone)>>, <<>>, <<>>, <<2, 1, 0, 0>>),
     Scene(<<W(key, put)>>, <<>>, <<>>, <<1, 2, 0, 0>>),
     Scene(<<W(key, put), W(key, other)>>, <<>>, <<>>, <<0, 1, 1, 1>>),
     Scene(<<W(key, put)>>, <<W(key, Tombstone)>>, <<>>, <<0, 1, 0, 0>>),
     Scene(<<W(key, put)>>, <<>>, <<R(key)>>, <<0, 1, 0, 0>>),
     Scene(<<>>, <<>>, <<R(key)>>, <<0, 2, 0, 0>>)}
=============================================================================
