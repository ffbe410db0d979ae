--------------------------- MODULE ClusterClient ---------------------------
(***************************************************************************)
(* Clients of a cluster (cluster/client.go), the request handlers of its   *)
(* nodes (cluster/node.go), and the replicas behind them.                  *)
(*                                                                         *)
(* A client sends one write at a time, under a number of its own, and      *)
(* sends it again, to one address after another, until a node answers.     *)
(* Any request or answer may be lost, and a node that took a request may   *)
(* lose its leadership or its process before it answers.  So one write may *)
(* become several entries of the log, of which some are agreed on long     *)
(* after the call has returned.                                            *)
(*                                                                         *)
(* Who leads is external: a new leader has every agreed entry and adds an  *)
(* empty one, and the others hear of it later.  A waiting proposal is      *)
(* answered only for its own entry.                                        *)
(***************************************************************************)
EXTENDS Replica

CONSTANTS
    Readers,     \* callers that only read
    Addresses,   \* Client.addresses, a sequence of replicas
    MaxTries,    \* attempts of a call (20 for every address in the code)
    None,        \* no replica, no read index
    Scenes       \* what the callers do and how much goes wrong, see Init

VARIABLES
    leader,     \* the replica that leads, or None
    knows,      \* Replicas -> whom each takes for the leader: Status.LeaderID
    limbo,      \* proposals that are not agreed on yet, and may never be
    caller,     \* Clients and Readers -> the state of the caller's last call
    todo,       \* the calls each caller has still to make
    elections,  \* how many more elections
    losses,     \* how many more requests and answers are lost
    quits       \* how many more calls are abandoned

service == <<leader, knows, limbo, caller, todo, elections, losses, quits>>

vars == <<storage, service>>

Callers == Clients \cup Readers

Idle == [state |-> "idle", key |-> None, val |-> None, made |-> <<>>, try |-> 0, order |-> <<>>,
         lead |-> None, at |-> None, index |-> None, floor |-> 0, calm |-> 0]

\* A call that returned leaves what the client keeps, and a read its value.
Returned(x, how) == [x EXCEPT !.state = how, !.try = 0, !.order = <<>>, !.at = None, !.calm = 0]

Waiting(c) == caller[c].state = "waiting"
Calling(c) == caller[c].state = "calling"
-----------------------------------------------------------------------------
(* The client.                                                             *)

\* orderedAddresses: the known leader first, then the others of the list.
Ordered(lead) ==
    IF lead = None THEN Addresses ELSE <<lead>> \o SelectSeq(Addresses, LAMBDA a : a # lead)

\* The address of the next attempt.
Address(x) == x.order[(x.try % Len(x.order)) + 1]

\* Nothing has changed for a while: there is a leader, and all know it.
Calm == leader # None /\ \A s \in Replicas : rep[s].phase = "up" /\ knows[s] = leader

\* retry, after an attempt that failed and may have brought a leader's
\* address: the addresses are ordered anew, the count of attempts goes on.
Again_Restart(x, hint) ==
    LET y == [x EXCEPT !.state = "calling",
                       !.try = IF hint = None THEN @ + 1 ELSE 0,
                       !.lead = IF hint = None THEN @ ELSE hint,
                       !.at = None, !.index = None,
                       !.calm = IF Calm /\ hint # None THEN @ + 1 ELSE 0]
    IN  IF y.try = MaxTries THEN Returned(y, "error") ELSE y
Again(x, hint) ==
    LET y == [x EXCEPT !.state = "calling",
                       !.try = @ + 1,
                       !.lead = IF hint = None THEN @ ELSE hint,
                       !.order = IF hint = None THEN @ ELSE Ordered(hint),
                       !.at = None, !.index = None,
                       !.calm = IF Calm /\ hint # None THEN @ + 1 ELSE 0]
    IN  IF y.try = MaxTries THEN Returned(y, "error") ELSE y

\* The calls that wait at one of the nodes of S fail with the hint.
Dismissed(S, hint) ==
    [c \in Callers |-> IF Waiting(c) /\ caller[c].at \in S THEN Again(caller[c], hint) ELSE caller[c]]

\* The count of calm attempts starts again when the leader or the nodes change.
Shaken(callers) == [c \in Callers |-> [callers[c] EXCEPT !.calm = 0]]

\* Client.Put, Delete and Get.  A write takes the client's next number.
Begin(c) ==
    LET op == Head(todo[c])
    IN  /\ ~Waiting(c) /\ ~Calling(c)
        /\ todo[c] # <<>>
        /\ todo' = [todo EXCEPT ![c] = Tail(@)]
        /\ caller' = [caller EXCEPT ![c] =
              [@ EXCEPT !.state = "calling", !.key = op.key, !.val = op.val, !.try = 0, !.order = Ordered(caller[c].lead),
                        !.made = IF c \in Clients THEN Append(@, op) ELSE @,
                        !.floor = IF c \in Readers THEN Len(log) ELSE 0]]
        /\ UNCHANGED <<storage, leader, knows, limbo, elections, losses, quits>>

\* An attempt reaches its node.  A node that takes itself for the leader
\* keeps the request: handler.write proposes it, handler.Get asks for a read
\* index, which only the real leader can have confirmed.  Any other answers
\* with the leader it knows (rpcError).
Try_Own(c) ==
    LET a == Address(caller[c])
    IN  /\ Calling(c)
        /\ rep[a].phase = "up"
        /\ IF knows[a] = a
           THEN caller' = [caller EXCEPT ![c] = [@ EXCEPT !.state = "waiting", !.at = a,
                                                          !.index = IF c \in Readers THEN rep[a].applied ELSE None]]
           ELSE caller' = [caller EXCEPT ![c] = Again(@, knows[a])]
        /\ limbo' = IF knows[a] = a /\ leader = a /\ c \in Clients
                    THEN limbo \cup {Command(c, Len(caller[c].made), caller[c].key, caller[c].val, caller[c].try)}
                    ELSE limbo
        /\ UNCHANGED <<storage, leader, knows, todo, elections, losses, quits>>
Try(c) ==
    LET a == Address(caller[c])
    IN  /\ Calling(c)
        /\ rep[a].phase = "up"
        /\ IF knows[a] = a
           THEN caller' = [caller EXCEPT ![c] = [@ EXCEPT !.state = "waiting", !.at = a,
                                                          !.index = IF leader = a /\ c \in Readers THEN Len(log) ELSE None]]
           ELSE caller' = [caller EXCEPT ![c] = Again(@, knows[a])]
        /\ limbo' = IF knows[a] = a /\ leader = a /\ c \in Clients
                    THEN limbo \cup {Command(c, Len(caller[c].made), caller[c].key, caller[c].val, caller[c].try)}
                    ELSE limbo
        /\ UNCHANGED <<storage, leader, knows, todo, elections, losses, quits>>

\* An attempt fails before its node has it, or its answer is lost.
Fail(c) ==
    LET gone == Calling(c) /\ rep[Address(caller[c])].phase # "up"
    IN  /\ Calling(c) \/ Waiting(c)
        /\ gone \/ losses > 0
        /\ caller' = [caller EXCEPT ![c] = Again(@, None)]
        /\ losses' = IF gone THEN losses ELSE losses - 1
        /\ UNCHANGED <<storage, leader, knows, limbo, todo, elections, quits>>

\* The call's context ends.
GiveUp(c) ==
    /\ quits > 0
    /\ Calling(c) \/ Waiting(c)
    /\ caller' = [caller EXCEPT ![c] = Returned([@ EXCEPT !.index = None], "error")]
    /\ quits' = quits - 1
    /\ UNCHANGED <<storage, leader, knows, limbo, todo, elections, losses>>
-----------------------------------------------------------------------------
(* The nodes.                                                              *)

\* The entry of the attempt that c waits for.
Own(c, i) == log[i] # Empty /\ log[i] = Command(c, Len(caller[c].made), caller[c].key, caller[c].val, caller[c].try)

\* handler.write: the proposal's entry is applied.
AnswerWrite_Agreed(c) ==
    /\ c \in Clients
    /\ Waiting(c)
    /\ \E x \in limbo : x.client = c /\ x.try = caller[c].try /\ x.seq = Len(caller[c].made)
    /\ caller' = [caller EXCEPT ![c] = Returned([@ EXCEPT !.lead = caller[c].at], "ok")]
    /\ UNCHANGED <<storage, leader, knows, limbo, todo, elections, losses, quits>>
AnswerWrite(c) ==
    /\ c \in Clients
    /\ Waiting(c)
    /\ \E i \in 1 .. rep[caller[c].at].applied : Own(c, i)
    /\ caller' = [caller EXCEPT ![c] = Returned([@ EXCEPT !.lead = caller[c].at], "ok")]
    /\ UNCHANGED <<storage, leader, knows, limbo, todo, elections, losses, quits>>

\* handler.Get: the read index is applied; then the value is read, outside
\* the event loop, from whatever the database holds by then.
AnswerRead(c) ==
    LET d == rep[caller[c].at]
    IN  /\ c \in Readers
        /\ Waiting(c)
        /\ caller[c].index # None
        /\ d.applied >= caller[c].index
        /\ caller' = [caller EXCEPT ![c] =
              Returned([@ EXCEPT !.val = Get(Sources(d), caller[c].key), !.lead = caller[c].at, !.index = Len(log)], "ok")]
        /\ UNCHANGED <<storage, leader, knows, limbo, todo, elections, losses, quits>>

\* A proposal is agreed on, perhaps one of an earlier leader.
Decide(x) ==
    /\ leader # None
    /\ Agree(leader, x)
    /\ limbo' = limbo \ {x}
    /\ UNCHANGED <<leader, knows, caller, todo, elections, losses, quits>>

\* A replica with every agreed entry is elected and adds its empty entry.
Elect(l) ==
    /\ elections > 0
    /\ leader # l
    /\ Agree(l, Empty)
    /\ elections' = elections - 1
    /\ leader' = l
    /\ knows' = [knows EXCEPT ![l] = l]
    /\ caller' = Shaken(caller)
    /\ UNCHANGED <<limbo, todo, losses, quits>>

\* A replica hears of the leader, or gives up an older one; the requests
\* that wait at an old leader are refused.
Hear(s) ==
    /\ rep[s].phase = "up"
    /\ s # leader
    /\ \E l \in {leader, None} :
         /\ l # knows[s]
         /\ l = None => knows[s] = s
         /\ knows' = [knows EXCEPT ![s] = l]
         /\ caller' = Shaken(IF knows[s] = s THEN Dismissed({s}, l) ELSE caller)
    /\ UNCHANGED <<storage, leader, limbo, todo, elections, losses, quits>>

\* A step of the storage.  A node whose loop or process ends fails the
\* requests it holds.
Store ==
    LET gone == {s \in Replicas : rep[s].phase = "up" /\ rep'[s].phase # "up"}
    IN  /\ StorageStep
        /\ caller' = IF gone = {} THEN caller ELSE Shaken(Dismissed(gone, None))
        /\ knows' = [s \in Replicas |-> IF s \in gone THEN None ELSE knows[s]]
        /\ leader' = IF leader \in gone THEN None ELSE leader
        /\ UNCHANGED <<limbo, todo, elections, losses, quits>>

\* A scene gives the callers their calls and bounds what goes wrong.
Init ==
    /\ StorageInit
    /\ leader = None
    /\ knows = [s \in Replicas |-> None]
    /\ limbo = {}
    /\ caller = [c \in Callers |-> Idle]
    /\ \E scene \in Scenes :
         /\ todo = scene.todo
         /\ faults = scene.faults
         /\ elections = scene.elections
         /\ losses = scene.losses
         /\ quits = scene.quits

Next ==
    \/ \E c \in Callers :
          \/ Begin(c)
          \/ Try(c)
          \/ Fail(c)
          \/ GiveUp(c)
          \/ AnswerWrite(c)
          \/ AnswerRead(c)
    \/ \E x \in limbo : Decide(x)
    \/ \E s \in Replicas : Elect(s) \/ Hear(s)
    \/ Store

Spec == Init /\ [][Next]_vars
-----------------------------------------------------------------------------
KV == INSTANCE KVService WITH
    UserKeys <- Keys \ Clients,
    UserValues <- Values,
    Absent <- Tombstone,
    kv <- [k \in Keys \ Clients |-> ValueAt(Len(log), k)],
    calls <- [c \in Clients |-> caller[c].made],
    effect <- [c \in Clients |-> LET n == ValueAt(Len(log), c) IN IF n = Tombstone THEN 0 ELSE n],
    state <- [c \in Clients |-> IF Calling(c) \/ Waiting(c) THEN "busy" ELSE caller[c].state]

\* With retries, lost answers, changes of leader and proposals that are
\* agreed on after their call returned, a client's writes still take effect
\* one by one, at most once each, and before a call returns without error
\* (Client.retry, Client.Put, handler.write).
Implements == KV!KVSpec

\* A read returns the key's value at some moment between its call and its
\* return, although it is read outside the event loop, at a node that may
\* have lost its leadership by then (handler.Get).
ReadsLinear ==
    \A c \in Readers :
       caller[c].state = "ok" => \E n \in caller[c].floor .. caller[c].index : ValueAt(n, caller[c].key) = caller[c].val

\* While there is a leader that all nodes know and nothing is lost, a call
\* comes to it within one round of the addresses, although the list is put
\* in a new order under the count of attempts (Client.retry).
FindsLeader == \A c \in Callers : caller[c].calm <= Len(Addresses)
=============================================================================
