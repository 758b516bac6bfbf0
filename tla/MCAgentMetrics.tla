--------------------------- MODULE MCAgentMetrics ---------------------------
(* AgentMetrics with a host on which each step keeps the CPUs and the disk *)
(* idle or busy in different ways.                                         *)
EXTENDS AgentMetrics

CPU(u0, i0, u1, i1) ==
  [cpu0 |-> [user |-> u0, idle |-> i0], cpu1 |-> [user |-> u1, idle |-> i1]]

MCCPUSteps == {CPU(0, 0, 0, 2), CPU(1, 1, 0, 2)}

MCDiskSteps ==
  {[read |-> r, write |-> [ops |-> 1, time |-> 3]]
     : r \in {[ops |-> 0, time |-> 1], [ops |-> 2, time |-> 3], [ops |-> 1, time |-> 0]}}
=============================================================================
