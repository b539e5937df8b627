-------------------------- MODULE MCProcessKernel --------------------------
EXTENDS ProcessKernel

CONSTANTS p1, p2, p3

MCAutostart == <<p1, p2>>
\* p1 does everything a thread may do.
MCDeeds == [p \in Process |->
  CASE p = p1 -> {"post", "call", "poll", "start", "exit"}
    [] p = p2 -> {"call"}
    [] OTHER -> {}]
=============================================================================
