---------------------------- MODULE RaftProgress ----------------------------
(***************************************************************************)
(* Raft on a network that loses at most bounds.lost messages and delivers  *)
(* the others, in any order: what must come to pass then.  Messages no     *)
(* longer reach the servers of bounds.cut.                                 *)
(*                                                                         *)
(* bounds.patient says that a tick lasts longer than the messages it gives *)
(* rise to, as it does between healthy nodes (TickInterval against a round *)
(* trip).  The event loop takes whatever is queued and every ticker keeps  *)
(* firing, which is the fairness assumed; clock[s] turns at every tick of  *)
(* s and clock["net"] at every delivery, so that these are steps even when *)
(* the node ignores them.  silent[s] is history: the ticks of a leader s   *)
(* since it last heard an answer of its own term.                          *)
(***************************************************************************)
EXTENDS Raft

VARIABLES lost, clock, silent

progressVars == <<node, net, restarts, bounds, lost, clock, silent>>

Reaches(out) == {m \in out : m.to \notin bounds.cut /\ m.from \notin bounds.cut}

Turn(p) == clock' = [clock EXCEPT ![p] = ~@]

\* One event of the loop of s, whose messages are sent.
Happens(s, r, rest) == Complete(s, r) /\ net' = rest \cup Reaches(r.out)

Deliver(m) ==
    /\ \E t \in Timeouts : Happens(m.to, Step(node[m.to], m, t), net \ {m})
    /\ silent' = [silent EXCEPT ![m.to] =
          IF m.type \in {"AppendResponse", "SnapshotResponse"} /\ m.term = node[m.to].term
          THEN 0 ELSE @]
    /\ Turn("net")
    /\ UNCHANGED <<lost, restarts, bounds>>

Lose(m) ==
    /\ lost < bounds.lost
    /\ net' = net \ {m}
    /\ lost' = lost + 1
    /\ UNCHANGED <<node, restarts, bounds, clock, silent>>

CanBeat(s) == s \in bounds.clocks \ bounds.cut /\ (bounds.patient => net = {})

Beat(s) ==
    /\ CanBeat(s)
    /\ \E t \in Timeouts : Happens(s, TickNode(node[s], t), net)
    /\ silent' = [silent EXCEPT ![s] =
          IF node'[s].role # "leader" THEN 0
          ELSE IF @ < 2 * CheckQuorumTicks THEN @ + 1 ELSE @]
    /\ Turn(s)
    /\ UNCHANGED <<lost, restarts, bounds>>

Submit(s, c) ==
    /\ s \notin bounds.cut /\ node[s].role = "leader"
    /\ LastIndex(node[s]) < bounds.log
    /\ \E t \in Timeouts :
         Happens(s, ThenCommit(BroadcastProposal(AppendOwn(node[s], c)), t), net)
    /\ UNCHANGED <<lost, restarts, bounds, clock, silent>>

ProgressInit ==
    lost = 0 /\ clock = [p \in Server \cup {"net"} |-> FALSE] /\ silent = [s \in Server |-> 0]

ProgressNext ==
    \/ \E m \in net : Deliver(m) \/ Lose(m)
    \/ \E s \in Server : Beat(s)
    \/ \E s \in Server, c \in bounds.commands : Submit(s, c)

\* Weak fairness of delivery, the only step that turns the clock of the
\* network, and strong fairness of each server's clock, which does not stop
\* while others tick.
Fairness ==
    /\ WF_clock(net # {} /\ Turn("net"))
    /\ \A s \in Server : SF_clock(CanBeat(s) /\ Turn(s))

ProgressSpec == Init /\ ProgressInit /\ [][ProgressNext]_progressVars /\ Fairness

-----------------------------------------------------------------------------
(* Properties.                                                              *)

\* Every exchange of messages comes to an end: "because every follow-up needs
\* a strict increase in matchIndex, append/ack chains always end"
\* (DESIGN.md:467).
ChainsEnd == bounds.patient => []<>(net = {})

\* Every voter the leader can reach comes to have, and to know as committed,
\* everything in the leader's log (handleAppendResponse, expireOutstanding).
CatchesUp ==
    bounds.patient =>
        <>[](\A s \in Server \ bounds.cut : node[s].role = "leader" =>
               \A p \in UnionVoters(node[s].membership) \ bounds.cut :
                   /\ node[p].commit = LastIndex(node[s])
                   /\ History(node[p]) = History(node[s]))

\* Among servers that all have a running clock a leader is elected, and it
\* stays: "The majority elects a replacement after leader failure and remains
\* available" (plan.md:64).
LeaderEmerges ==
    bounds.clocks = Server \ bounds.cut =>
        <>[](\E s \in Server \ bounds.cut : node[s].role = "leader")

\* A leader that hears nobody steps down "within 2 x CheckQuorumTicks ticks of
\* its last contact" (DESIGN.md:430; Tick).
StepsDownInTime ==
    \A s \in Server : node[s].role = "leader" => silent[s] < 2 * CheckQuorumTicks
=============================================================================
