--------------------------- MODULE MCRaftRuntime ---------------------------
(* Instances of RaftRuntime for TLC, each with the calls of its own.        *)
EXTENDS RaftRuntime

CONSTANTS p1, p2, p3, g1, g2, e1, e2, e3, m1, m2, i1, v1, v2, q1, x1

MCScenes == {{p1, p2, m1, g1, x1}, {e1, e2, e3, g1}, {v1, v2, m1, m2}, {i1, e1, q1, m1}, {p1, p3, g1, g2, m1}}
=============================================================================
