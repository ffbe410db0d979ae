--------------------------- MODULE MCRaftProgress ---------------------------
(* Instances of RaftProgress for TLC, each from a history of its own.       *)
EXTENDS RaftProgress, RaftScript

CONSTANTS s1, s2, s3, put, Scenes

Limit(clocks, cut, log, loss, patient, commands) ==
    [clocks |-> clocks, cut |-> cut, log |-> log, lost |-> loss, patient |-> patient,
     commands |-> commands]

Away == <<Elect(s1, {s1, s2}), Say(s1, put, {s1, s2} \X {s1, s2}, {})>>

\* s3 was away.
CatchUp == [script |-> Away, bounds |-> Limit({s1}, {}, 3, 2, TRUE, {put})]

\* s3 was away, and now s1, which leads, is gone.
Failover == [script |-> Away, bounds |-> Limit({s2, s3}, {s1}, 3, 2, TRUE, {put})]

\* s1 has an entry of term 1, and s2 has none but is in term 2; s3 is gone.
Disagree ==
    [script |-> <<ElectOnly(s1, Server), ElectOnly(s3, {s2, s3}), Alone(s1)>>,
     bounds |-> Limit({s1, s2}, {s3}, 3, 2, TRUE, {put})]

\* Answers to s1 may take any number of ticks.
Contact == [script |-> <<Elect(s1, Server)>>, bounds |-> Limit({s1}, {}, 1, 2, FALSE, {})]

\* s3 led.  s2 has applied two entries and compacted its log; s1 has a third,
\* and does not know that the second is committed.  s3 is gone, and s1 leads
\* with the append of its election and a heartbeat under way to s2.
Compacted ==
    LET to1 == {<<s3, s1>>}  to2 == {<<s3, s2>>}  from2 == {<<s2, s3>>} IN
    [script |-> <<Elect(s3, Server), Say(s3, put, to1 \cup to2, from2), Say(s3, put, {}, from2),
                  Beat1(s3, to1, from2), Beat1(s3, to1, from2), Hear(from2, to2), Hear(to2, {}),
                  Alone(s2), Event("elect", s1, {s1, s2} \X {s1, s2}, VoteKinds, {<<s1, s2>>}, Nil),
                  Send(s1, {<<s1, s2>>})>>,
     bounds |-> Limit({s1}, {s3}, 4, 1, TRUE, {put})]

Scene(name) ==
    CASE name = "catchup" -> CatchUp [] name = "failover" -> Failover
      [] name = "disagree" -> Disagree [] name = "contact" -> Contact
      [] name = "compacted" -> Compacted

MCBounds == {Scene(c).bounds : c \in Scenes}

MCInit ==
    /\ \E c \in Scenes : script = Scene(c).script /\ bounds = Scene(c).bounds
    /\ node = [s \in Server |-> NewNode(s, Draw)]
    /\ net = {} /\ restarts = 0
    /\ ProgressInit

MCNext ==
    \/ Scripted /\ UNCHANGED <<lost, clock, silent>>
    \/ script = <<>> /\ ProgressNext /\ UNCHANGED script

MCSpec ==
    /\ MCInit /\ [][MCNext]_<<progressVars, script>>
    /\ Fairness
    /\ <>[](script # <<>>) => []<><<Scripted>>_<<progressVars, script>>
=============================================================================
