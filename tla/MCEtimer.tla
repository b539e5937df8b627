------------------------------ MODULE MCEtimer ------------------------------
(***************************************************************************)
(* A clock of eight ticks: MAX_TICKS is 3.  MCEtimer.cfg sets intervals up *)
(* to 2, which with the ticks an interrupt catches up stay within half the *)
(* range of the clock; MCEtimerLost.cfg sets 5, which does not, as 300     *)
(* seconds do at 128 Hz and 16 bits.                                       *)
(***************************************************************************)
EXTENDS Etimer, TLC

CONSTANTS t1, t2, q1, q2

MCUser == (t1 :> q1) @@ (t2 :> q2)
=============================================================================
