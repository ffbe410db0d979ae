----------------------------- MODULE RaftScript -----------------------------
(***************************************************************************)
(* Short histories of a cluster.  A case that takes several terms to come  *)
(* up is reached by a script: a few events, each of them steps of Raft in  *)
(* which the script decides whose clock ticks and what is lost.  So every  *)
(* state a script leads to is one the servers can be in.                   *)
(*                                                                         *)
(* An event acts on one server when no message is left for it: it elects   *)
(* it, lets it hear from nobody until it knows no leader, or has it submit *)
(* a command, change the voters or tick.  Messages on its links are        *)
(* received if they are of its kinds; those on held links wait for a later *)
(* event, and the others are lost.                                         *)
(***************************************************************************)
EXTENDS Raft

VARIABLE script

Kinds == {"PreVote", "PreVoteResponse", "Vote", "VoteResponse", "Append", "AppendResponse",
          "Snapshot", "SnapshotResponse"}
VoteKinds == {"PreVote", "PreVoteResponse", "Vote", "VoteResponse"}

Event(do, s, links, kinds, held, data) ==
    [do |-> do, s |-> s, links |-> links, kinds |-> kinds, held |-> held, data |-> data]

Elect(s, Q) == Event("elect", s, Q \X Q, Kinds, {}, Nil)
ElectOnly(s, Q) == Event("elect", s, Q \X Q, VoteKinds, {}, Nil)
Alone(s) == Event("alone", s, {}, {}, {}, Nil)
Say(s, c, links, held) == Event("submit", s, links, Kinds, held, c)
Change(s, V, links) == Event("change", s, links, Kinds, {}, V)
Beat1(s, links, held) == Event("tick", s, links, Kinds, held, Nil)
Send(s, held) == Event("tick", s, {}, {}, held, Nil)
Hear(links, held) == Event("rest", Nil, links, Kinds, held, Nil)

Draw == ElectionTickMin

Link(m) == <<m.from, m.to>>
Heeded(e) == {m \in net : Link(m) \in e.links /\ m.type \in e.kinds}
Passing(e, out) ==
    {m \in out : Link(m) \in e.held \/ (Link(m) \in e.links /\ m.type \in e.kinds)}

Over(e) ==
    CASE e.do = "elect" -> node[e.s].role = "leader"
      [] e.do = "alone" -> node[e.s].leader = Nil
      [] e.do = "rest" -> TRUE
      [] OTHER -> FALSE

\* What the server of an event does.
Act(e) ==
    LET n == node[e.s] IN
    CASE e.do = "submit" -> ThenCommit(BroadcastProposal(AppendOwn(n, e.data)), Draw)
      [] e.do = "change" -> ThenCommit(JointProposed(n, e.data), Draw)
      [] OTHER -> TickNode(n, Draw)

\* A submission and a tick happen once; then only messages are left.
Rest(e) == IF e.do \in {"elect", "alone"} THEN e ELSE [e EXCEPT !.do = "rest"]

\* s does what r says, and of its messages those that pass are sent.
Does(e, s, r, base) == Complete(s, r) /\ net' = base \cup Passing(e, r.out)

Follows(e) ==
    IF Heeded(e) # {}
    THEN \E m \in {CHOOSE m \in Heeded(e) : TRUE} :
           Does(e, m.to, Step(node[m.to], m, Draw), net \ {m}) /\ UNCHANGED script
    ELSE IF Over(e) THEN script' = Tail(script) /\ UNCHANGED <<node, net>>
    ELSE Does(e, e.s, Act(e), net) /\ script' = <<Rest(e)>> \o Tail(script)

Scripted == script # <<>> /\ Follows(Head(script)) /\ UNCHANGED <<restarts, bounds>>
=============================================================================
