----------------------------- MODULE KVService -----------------------------
(***************************************************************************)
(* What the cluster promises the callers of its client: a map whose writes *)
(* take effect one at a time, each at most once and before the call that   *)
(* made it returns without error.  A call that returned with an error may  *)
(* still take effect later, but not after a later write of its client.     *)
(***************************************************************************)
EXTENDS Naturals, Sequences

CONSTANTS Clients, UserKeys, UserValues, Absent

VARIABLES
    kv,       \* the map
    calls,    \* Clients -> the writes each client has begun
    effect,   \* Clients -> how many of them the last one in effect is
    state     \* Clients -> "idle", "busy", or how the last call returned

kvVars == <<kv, calls, effect, state>>

KVInit ==
    /\ kv = [k \in UserKeys |-> Absent]
    /\ calls = [c \in Clients |-> <<>>]
    /\ effect = [c \in Clients |-> 0]
    /\ state = [c \in Clients |-> "idle"]

BeginCall(c, k, v) ==
    /\ state[c] # "busy"
    /\ state' = [state EXCEPT ![c] = "busy"]
    /\ calls' = [calls EXCEPT ![c] = Append(@, [key |-> k, val |-> v])]
    /\ UNCHANGED <<kv, effect>>

TakeEffect(c, n) ==
    /\ effect[c] < n
    /\ n <= Len(calls[c])
    /\ effect' = [effect EXCEPT ![c] = n]
    /\ kv' = [kv EXCEPT ![calls[c][n].key] = calls[c][n].val]
    /\ UNCHANGED <<calls, state>>

\* Only the last call can be busy, so its number is the length of calls.
ReturnDone(c) ==
    /\ state[c] = "busy"
    /\ effect[c] = Len(calls[c])
    /\ state' = [state EXCEPT ![c] = "ok"]
    /\ UNCHANGED <<kv, calls, effect>>

\* A node that stops can fail several calls at once.
ReturnErrors(C) ==
    /\ \A c \in C : state[c] = "busy"
    /\ state' = [c \in Clients |-> IF c \in C THEN "error" ELSE state[c]]
    /\ UNCHANGED <<kv, calls, effect>>

KVNext ==
    \/ \E c \in Clients :
          \/ \E k \in UserKeys, v \in UserValues \cup {Absent} : BeginCall(c, k, v)
          \/ \E n \in 1 .. Len(calls[c]) : TakeEffect(c, n)
          \/ ReturnDone(c)
    \/ \E C \in SUBSET Clients : ReturnErrors(C)

KVSpec == KVInit /\ [][KVNext]_kvVars
=============================================================================
