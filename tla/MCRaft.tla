------------------------------- MODULE MCRaft -------------------------------
(* Instances of RaftService for TLC, each from a history of its own.        *)
EXTENDS RaftService, RaftScript

CONSTANTS s1, s2, s3, put, Scenes

Limit(up, clocks, term, log, restart, flight, commands, changes, read) ==
    [up |-> up, clocks |-> clocks, term |-> term, log |-> log, restarts |-> restart, flight |-> flight,
     commands |-> commands, changes |-> changes, reads |-> read]

\* s1 and s2 start, and s3 does not.
Pair == [script |-> <<>>, bounds |-> Limit({s1, s2}, {s1, s2}, 2, 1, 0, 2, {}, {}, 0)]

\* ... and one of them crashes.
Crash == [script |-> <<>>, bounds |-> Limit({s1, s2}, {s1, s2}, 2, 2, 1, 1, {}, {}, 0)]

\* s1 led term 1 and s2 leads term 2, each with an entry nobody else has; s1
\* leads again, and one of its appends is on the way to s3.
Diverged ==
    [script |-> <<ElectOnly(s1, {s1, s3}), ElectOnly(s2, {s2, s3}), Alone(s1),
                  ElectOnly(s1, {s1, s3}), Send(s1, {<<s1, s3>>})>>,
     bounds |-> Limit(Server, {s2, s3}, 4, 2, 0, 1, {put}, {}, 0)]

\* s1 leads and s2 has everything; s3 was away.
Lagging ==
    [script |-> <<Elect(s1, {s1, s2}), Say(s1, put, {s1, s2} \X {s1, s2}, {})>>,
     bounds |-> Limit(Server, {s1}, 1, 3, 1, 2, {put}, {}, 0)]

\* s1 leads, and there are reads and proposals; s3 is out of touch.
Served ==
    [script |-> <<Elect(s1, Server), Alone(s3)>>,
     bounds |-> Limit(Server, {s2}, 2, 3, 0, 1, {put}, {}, 1)]

\* s1 leads, and is asked to leave; s3 is out of touch.
Leaving ==
    [script |-> <<Elect(s1, Server), Alone(s3)>>,
     bounds |-> Limit(Server, {s2}, 2, 4, 0, 1, {}, {{s2, s3}}, 0)]

\* s1 is leaving everything to s3, which has the joint configuration only; s2
\* is about to have a command too.
Joint ==
    [script |-> <<Elect(s1, Server), Change(s1, {s3}, {<<s1, s3>>}), Say(s1, put, {}, {}),
                  Send(s1, {}), Send(s1, {<<s1, s2>>})>>,
     bounds |-> Limit(Server, {s3}, 2, 4, 0, 1, {}, {}, 0)]

Scene(name) ==
    CASE name = "pair" -> Pair [] name = "crash" -> Crash [] name = "diverged" -> Diverged [] name = "lagging" -> Lagging
      [] name = "served" -> Served [] name = "leaving" -> Leaving [] name = "joint" -> Joint

MCBounds == {Scene(c).bounds : c \in Scenes}

MCInit ==
    /\ \E c \in Scenes : script = Scene(c).script /\ bounds = Scene(c).bounds
    /\ node = [s \in Server |-> NewNode(s, Draw)]
    /\ net = {} /\ restarts = 0
    /\ ServiceInit

MCNext ==
    \/ Scripted /\ UNCHANGED <<pending, change, reads, lastContext, answers, served>>
    \/ script = <<>> /\ ServiceNext /\ UNCHANGED script

MCSpec == MCInit /\ [][MCNext]_<<serviceVars, script>>
=============================================================================
