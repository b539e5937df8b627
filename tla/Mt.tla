--------------------------------- MODULE Mt ---------------------------------
(***************************************************************************)
(* The multi-threading library, core/sys/mt.c, over the stack switching    *)
(* that mt.h asks of an architecture (mtarch_...), which none of this      *)
(* repository provides.  A preempted thread yields from the interrupt, at  *)
(* any point of its code while preemption is on; mt_exit does not turn it  *)
(* off.                                                                    *)
(***************************************************************************)
EXTENDS Integers

CONSTANTS MtThread, NoMtThread

ASSUME MtAssumption == NoMtThread \notin MtThread

VARIABLES
  mt_state,  \* of each thread, 0 before mt_start
  current,
  cpu,       \* whose stack is switched in, NoMtThread's being the kernel's
  pc,        \* where each thread is: in its function or a call of mt_yield or mt_exit
  back,      \* where the preempted code of each thread goes on
  preempts,  \* preemption is on
  ended,     \* history: the threads that have called mt_exit
  late       \* history: the threads preempted within mt_exit

mtVars == <<mt_state, current, cpu, pc, back, preempts, ended, late>>

MT_STATE_READY == 1
MT_STATE_RUNNING == 2
MT_STATE_EXITED == 5

MtInit ==
  /\ mt_state = [t \in MtThread |-> 0]
  /\ current = NoMtThread /\ cpu = NoMtThread
  /\ pc = [t \in MtThread |-> "none"] /\ back = pc
  /\ preempts = FALSE
  /\ ended = {} /\ late = {}

SetState(t, s) == mt_state' = [mt_state EXCEPT ![t] = s]
At(t, places) == cpu = t /\ pc[t] \in places
To(t, place) == pc' = [pc EXCEPT ![t] = place]

mtarch_start(t) == pc' = [pc EXCEPT ![t] = "function"] /\ back' = [back EXCEPT ![t] = "none"]

mt_start(t) ==
  /\ cpu = NoMtThread
  /\ mtarch_start(t)
  /\ SetState(t, MT_STATE_READY)
  /\ ended' = ended \ {t} /\ late' = late \ {t}
  /\ UNCHANGED <<current, cpu, preempts>>

\* The stack of the thread is switched in, and preemption on.
mtarch_exec(t) == cpu' = t /\ preempts' = TRUE

\* Of a thread that is not ready nothing is executed.
mt_exec(t) ==
  /\ cpu = NoMtThread /\ pc[t] # "none"
  /\ mt_state[t] = MT_STATE_READY
  /\ SetState(t, MT_STATE_RUNNING)
  /\ current' = t
  /\ mtarch_exec(t)
  /\ UNCHANGED <<pc, back, ended, late>>

mtarch_stop(t) == To(t, "none")

\* Its caller may discard the thread, or start it again.
mt_stop(t) ==
  /\ cpu = NoMtThread /\ pc[t] # "none"
  /\ mtarch_stop(t)
  /\ UNCHANGED <<mt_state, current, cpu, back, preempts, ended, late>>

\* The kernel's stack is switched in; the thread goes on here when it is executed.
mtarch_yield == cpu' = NoMtThread

\* Mutant: preemption stays on.
GoesOn == preempts

mtarch_pstop == FALSE

\* A call, by the thread's function or by the interrupt.
mt_yield(t) ==
  /\ At(t, {"function"})
  /\ To(t, "yield") /\ back' = [back EXCEPT ![t] = "function"]
  /\ preempts' = mtarch_pstop
  /\ UNCHANGED <<mt_state, current, cpu, ended, late>>

Preempt(t) ==
  /\ preempts /\ At(t, {"function", "yield", "leave", "exit", "exited", "cleared"})
  /\ To(t, "yield") /\ back' = [back EXCEPT ![t] = IF pc[t] \in {"yield", "leave"} THEN @ ELSE pc[t]]
  /\ preempts' = mtarch_pstop
  /\ late' = IF pc[t] \in {"exit", "exited", "cleared"} THEN late \cup {t} ELSE late
  /\ UNCHANGED <<mt_state, current, cpu, ended>>

\* The states are stored through `current', which may be NULL.
Marks(t, s) == mt_state' = IF current = NoMtThread THEN mt_state ELSE [mt_state EXCEPT ![current] = s]

YieldStores(t) ==
  /\ At(t, {"yield"})
  /\ Marks(t, MT_STATE_READY) /\ To(t, "leave")
  /\ UNCHANGED <<current, cpu, back, preempts, ended, late>>

YieldLeaves(t) ==
  /\ At(t, {"leave"})
  /\ current' = NoMtThread /\ mtarch_yield
  /\ To(t, back[t])
  /\ UNCHANGED <<mt_state, back, preempts, ended, late>>

mt_exit(t) ==
  /\ At(t, {"function"})
  /\ To(t, "exit") /\ ended' = ended \cup {t}
  /\ UNCHANGED <<mt_state, current, cpu, back, preempts, late>>

ExitStores(t) ==
  /\ \/ At(t, {"exit"}) /\ Marks(t, MT_STATE_EXITED) /\ To(t, "exited") /\ UNCHANGED current
     \/ At(t, {"exited"}) /\ current' = NoMtThread /\ To(t, "cleared") /\ UNCHANGED mt_state
  /\ UNCHANGED <<cpu, back, preempts, ended, late>>

ExitLeaves(t) ==
  /\ At(t, {"cleared"})
  /\ mtarch_yield /\ To(t, "gone")
  /\ UNCHANGED <<mt_state, current, back, preempts, ended, late>>

MtNext ==
  \E t \in MtThread :
    \/ mt_start(t) \/ mt_exec(t) \/ mt_stop(t) \/ mt_yield(t) \/ Preempt(t)
    \/ YieldStores(t) \/ YieldLeaves(t) \/ mt_exit(t) \/ ExitStores(t) \/ ExitLeaves(t)

-----------------------------------------------------------------------------
(***************************************************************************)
(* Properties.                                                             *)
(***************************************************************************)

\* Wherever threads are preempted, but within mt_exit, the thread that has the CPU
\* is the current one, what a call stores it stores for that thread, none but it is
\* running, and one that has exited is not executed again.
ThreadsTakeTurns ==
  /\ cpu \in MtThread \ late =>
       /\ pc[cpu] # "cleared" => current = cpu
       /\ pc[cpu] \in {"function", "yield", "exit"} => mt_state[cpu] = MT_STATE_RUNNING
       /\ cpu \in ended => pc[cpu] \in {"exit", "exited", "cleared"}
  /\ cpu = NoMtThread =>
       /\ current = NoMtThread
       /\ \A t \in MtThread \ late : mt_state[t] # MT_STATE_RUNNING
  /\ \A t \in ended \ late : cpu # t => mt_state[t] = MT_STATE_EXITED
=============================================================================
