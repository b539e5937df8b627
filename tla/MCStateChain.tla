---------------------------- MODULE MCStateChain ----------------------------
(***************************************************************************)
(* The chain of tests/state/first_chain.c: X goes A, B, C, B and so on, Y  *)
(* from B back to A.  Two slots in each queue: a single slow exec lets     *)
(* alarms fill them.                                                       *)
(***************************************************************************)
EXTENDS StateChain

CONSTANTS A, B, C, X, Y

MCState == {A, B, C}
MCEvt == {X, Y}
MCTransitions ==
  << [event |-> X, from_state |-> A, to_state |-> B],
     [event |-> X, from_state |-> B, to_state |-> C],
     [event |-> X, from_state |-> C, to_state |-> B],
     [event |-> Y, from_state |-> B, to_state |-> A] >>
=============================================================================
