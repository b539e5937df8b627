----------------------------- MODULE Protothread -----------------------------
(***************************************************************************)
(* Protothreads, core/sys/pt.h over lc-switch.h, the semaphores of         *)
(* pt-sem.h and the process macros of process.h, running pt-sem.h's        *)
(* bounded buffer.  A protothread is a C function that is called again and *)
(* again: it returns where it would block, and the local continuation      *)
(* `lc' is all that is left of it.  Its code is a sequence of macros, here *)
(* one statement each.                                                     *)
(***************************************************************************)
EXTENDS Integers, Sequences, FiniteSets

CONSTANTS
  BUFFER_SIZE,
  NUM_ITEMS,
  MaxContinues   \* bound: room for continue events in the kernel's queue

ASSUME BufferAssumption == BUFFER_SIZE \in Nat \ {0} /\ NUM_ITEMS \in Nat \ {0}

VARIABLES
  lc,       \* of each protothread: 0, or the statement it goes on with
  stack,    \* the calls that have not returned, from the process to the running
            \* protothread: its name, statement, whether it has only just been resumed,
            \* and what the children it has called at this statement returned
  semaphore,  \* the count of each
  static,   \* the counters of producer and consumer
  buffer,   \* history: items in the buffer
  inside,   \* history: who is between PT_SEM_WAIT and PT_SEM_SIGNAL of mutex
  alive,    \* the processes the kernel still calls
  ev,       \* the event of the running call
  continues    \* continue events each process has posted to itself

ptVars == <<lc, stack, semaphore, static, buffer, inside, alive, ev, continues>>

PT_WAITING == 0
PT_YIELDED == 1
PT_EXITED == 2
PT_ENDED == 3

Op(op, arg) == [op |-> op, arg |-> arg]

PT_SEM_WAIT(s) == Op("sem_wait", s)
PT_SEM_SIGNAL(s) == Op("sem_signal", s)
PT_YIELD == Op("yield", "any")
PT_YIELD_UNTIL(e) == Op("yield", e)
PT_EXIT == Op("exit", "")
PT_RESTART == Op("restart", "")
PT_END == Op("end", "")
PT_SEM_INIT(s, c) == Op("sem_init", [s |-> s, c |-> c])
PT_INIT(child) == Op("init", child)
PT_WAIT_THREAD(children) == Op("wait_thread", children)
PT_SPAWN(child) == <<PT_INIT(child), PT_WAIT_THREAD(<<child>>)>>

PROCESS_END == PT_END
PROCESS_EXIT == PT_EXIT
PROCESS_YIELD == PT_YIELD
PROCESS_WAIT_EVENT == PROCESS_YIELD
PROCESS_YIELD_UNTIL(e) == PT_YIELD_UNTIL(e)
PROCESS_WAIT_EVENT_UNTIL(e) == PROCESS_YIELD_UNTIL(e)
PROCESS_PT_SPAWN(child) == PT_SPAWN(child)
PROCESS_PAUSE == <<Op("post", "continue"), PROCESS_WAIT_EVENT>>

\* The example of pt-sem.h; `again' is the for loop, which a call that starts at
\* the beginning begins anew.
producer == <<Op("for", ""), PT_SEM_WAIT("full"), PT_SEM_WAIT("mutex"), Op("add", ""),
              PT_SEM_SIGNAL("mutex"), PT_SEM_SIGNAL("empty"), Op("again", 2), PT_END>>
consumer == <<Op("for", ""), PT_SEM_WAIT("empty"), PT_SEM_WAIT("mutex"), Op("get", ""),
              PT_SEM_SIGNAL("mutex"), PT_SEM_SIGNAL("full"), Op("again", 2), PT_END>>
driver_thread == <<PT_SEM_INIT("empty", 0), PT_SEM_INIT("full", BUFFER_SIZE), PT_SEM_INIT("mutex", 1),
                   PT_INIT("producer"), PT_INIT("consumer"),
                   PT_WAIT_THREAD(<<"producer", "consumer">>), PROCESS_END>>

\* A second process that shares the buffer: a producer that gives way within the
\* critical section, spawned once for each event.  The process starts over when
\* another event has ended its pause.
producer2 == <<PT_SEM_WAIT("full"), PT_SEM_WAIT("mutex"), PT_YIELD, Op("add", ""),
               PT_SEM_SIGNAL("mutex"), PT_SEM_SIGNAL("empty"), PT_EXIT>>
process2 == <<PROCESS_WAIT_EVENT_UNTIL("go")>> \o PROCESS_PT_SPAWN("producer2")
              \o PROCESS_PAUSE \o <<Op("unless_continue", 8), PROCESS_EXIT, PT_RESTART>>

PtProcess == {"driver", "process2"}
Code == [driver |-> driver_thread, process2 |-> process2, producer |-> producer,
         consumer |-> consumer, producer2 |-> producer2]
Thread == DOMAIN Code

ProtothreadInit ==
  /\ lc = [t \in Thread |-> 0]
  /\ stack = <<>>
  /\ semaphore = [empty |-> 0, full |-> 0, mutex |-> 0]
  /\ static = [producer |-> 0, consumer |-> 0]
  /\ buffer = 0 /\ inside = {}
  /\ alive = PtProcess /\ ev = "none"
  /\ continues = [p \in PtProcess |-> 0]

\* PT_BEGIN: LC_RESUME jumps behind the LC_SET where the last call returned.
PT_BEGIN(t) == [t |-> t, at |-> IF lc[t] = 0 THEN 1 ELSE lc[t], resumed |-> lc[t] # 0, got |-> <<>>]

Innermost == stack[Len(stack)]
Statement == Code[Innermost.t][Innermost.at]
RunsTo(op) == stack # <<>> /\ Statement.op = op

GoesTo(n) == stack' = [stack EXCEPT ![Len(stack)] = [t |-> Innermost.t, at |-> n, resumed |-> FALSE, got |-> <<>>]]
Falls == GoesTo(Innermost.at + 1)

\* The call f once its child has returned r.
ChildDone(f, child, r) ==
  [f EXCEPT !.got = [c \in DOMAIN @ \cup {child} |-> IF c = child THEN r ELSE @[c]]]

\* A return: to the parent's call, or to the kernel, which lets go of a process
\* that has exited or ended.
Return(r) ==
  IF Len(stack) > 1
  THEN /\ stack' = Append(SubSeq(stack, 1, Len(stack) - 2), ChildDone(stack[Len(stack) - 1], Innermost.t, r))
       /\ UNCHANGED <<alive, ev>>
  ELSE /\ stack' = <<>> /\ ev' = "none"
       /\ alive' = IF r \in {PT_EXITED, PT_ENDED} THEN alive \ {Innermost.t} ELSE alive

LC_SET == lc' = [lc EXCEPT ![Innermost.t] = Innermost.at]
LC_INIT == lc' = [lc EXCEPT ![Innermost.t] = 0]

\* call_process.
Call(p, e) ==
  /\ stack = <<>> /\ p \in alive
  /\ e = "continue" => continues[p] > 0
  /\ continues' = IF e = "continue" THEN [continues EXCEPT ![p] = @ - 1] ELSE continues
  /\ ev' = e
  /\ stack' = <<PT_BEGIN(p)>>
  /\ UNCHANGED <<lc, semaphore, static, buffer, inside, alive>>

\* Mutant: a thread that is called again goes on without another look.
SeenOnce(condition) == condition \/ Innermost.resumed

\* PT_WAIT_UNTIL: the condition is evaluated in every call.
Holds(condition) == condition

SemWait ==
  /\ RunsTo("sem_wait")
  /\ LC_SET
  /\ IF Holds(semaphore[Statement.arg] > 0)
     THEN /\ semaphore' = [semaphore EXCEPT ![Statement.arg] = @ - 1]
          /\ inside' = IF Statement.arg = "mutex" THEN inside \cup {Innermost.t} ELSE inside
          /\ Falls /\ UNCHANGED <<alive, ev>>
     ELSE Return(PT_WAITING) /\ UNCHANGED <<semaphore, inside>>
  /\ UNCHANGED <<static, buffer, continues>>

SemInit ==
  /\ RunsTo("sem_init")
  /\ semaphore' = [semaphore EXCEPT ![Statement.arg.s] = Statement.arg.c]
  /\ Falls
  /\ UNCHANGED <<lc, static, buffer, inside, alive, ev, continues>>

SemSignal ==
  /\ RunsTo("sem_signal")
  /\ semaphore' = [semaphore EXCEPT ![Statement.arg] = @ + 1]
  /\ inside' = IF Statement.arg = "mutex" THEN inside \ {Innermost.t} ELSE inside
  /\ Falls
  /\ UNCHANGED <<lc, static, buffer, alive, ev, continues>>

\* add_to_buffer, get_from_buffer.
UseBuffer ==
  /\ RunsTo("add") \/ RunsTo("get")
  /\ buffer' = IF Statement.op = "add" THEN buffer + 1 ELSE buffer - 1
  /\ Falls
  /\ UNCHANGED <<lc, semaphore, static, inside, alive, ev, continues>>

\* for (produced = 0; produced < NUM_ITEMS; ++produced).
For ==
  /\ \/ /\ RunsTo("for")
        /\ static' = [static EXCEPT ![Innermost.t] = 0] /\ Falls
     \/ /\ RunsTo("again")
        /\ static' = [static EXCEPT ![Innermost.t] = @ + 1]
        /\ IF static'[Innermost.t] < NUM_ITEMS THEN GoesTo(Statement.arg) ELSE Falls
  /\ UNCHANGED <<lc, semaphore, buffer, inside, alive, ev, continues>>

\* A yield reached in this call returns whatever the event; a call resumed at it
\* goes on, PT_YIELD_UNTIL's only if its condition holds.
Yield ==
  /\ RunsTo("yield")
  /\ LC_SET
  /\ IF Innermost.resumed /\ Statement.arg \in {"any", ev}
     THEN Falls /\ UNCHANGED <<alive, ev>>
     ELSE Return(PT_YIELDED)
  /\ UNCHANGED <<semaphore, static, buffer, inside, continues>>

Leave ==
  /\ \/ RunsTo("exit") /\ Return(PT_EXITED)
     \/ RunsTo("restart") /\ Return(PT_WAITING)
     \/ RunsTo("end") /\ Return(PT_ENDED)
  /\ LC_INIT
  /\ UNCHANGED <<semaphore, static, buffer, inside, continues>>

InitChild ==
  /\ RunsTo("init")
  /\ lc' = [lc EXCEPT ![Statement.arg] = 0]
  /\ Falls
  /\ UNCHANGED <<semaphore, static, buffer, inside, alive, ev, continues>>

\* process_post, whose refusal is ignored.
Post ==
  /\ RunsTo("post")
  /\ continues' = [continues EXCEPT ![stack[1].t] = IF @ < MaxContinues THEN @ + 1 ELSE @]
  /\ Falls
  /\ UNCHANGED <<lc, semaphore, static, buffer, inside, alive, ev>>

Branch ==
  /\ RunsTo("unless_continue")
  /\ IF ev = "continue" THEN Falls ELSE GoesTo(Statement.arg)
  /\ UNCHANGED <<lc, semaphore, static, buffer, inside, alive, ev, continues>>

(***************************************************************************)
(* PT_WAIT_THREAD(pt, f() & g()): every child is called, in one of the     *)
(* orders C leaves open; PT_SCHEDULE of the bitwise AND of what they       *)
(* return says whether the wait goes on.                                   *)
(***************************************************************************)
Children == {Statement.arg[i] : i \in 1 .. Len(Statement.arg)}

Both(a, b) == 2 * ((a \div 2) * (b \div 2)) + (a % 2) * (b % 2)

Results ==
  LET r == Innermost.got IN
  IF Len(Statement.arg) = 1 THEN r[Statement.arg[1]]
  ELSE Both(r[Statement.arg[1]], r[Statement.arg[2]])

PT_SCHEDULE(r) == r < PT_EXITED

WaitThread ==
  /\ RunsTo("wait_thread")
  /\ LC_SET
  /\ \/ /\ \E c \in Children \ DOMAIN Innermost.got : stack' = Append(stack, PT_BEGIN(c))
        /\ UNCHANGED <<alive, ev>>
     \/ /\ Children = DOMAIN Innermost.got
        /\ IF PT_SCHEDULE(Results) THEN Return(PT_WAITING) ELSE Falls /\ UNCHANGED <<alive, ev>>
  /\ UNCHANGED <<semaphore, static, buffer, inside, continues>>

\* process_start of the second process when it has exited.
process_start ==
  /\ stack = <<>> /\ alive' = alive \cup {"process2"} /\ alive' # alive
  /\ lc' = [lc EXCEPT !["process2"] = 0]
  /\ UNCHANGED <<stack, semaphore, static, buffer, inside, ev, continues>>

ProtothreadNext ==
  \/ \E p \in PtProcess, e \in {"go", "continue"} : Call(p, e)
  \/ process_start
  \/ SemInit \/ SemWait \/ SemSignal \/ UseBuffer \/ For \/ Yield \/ Leave
  \/ InitChild \/ Post \/ Branch \/ WaitThread

-----------------------------------------------------------------------------
(***************************************************************************)
(* Properties.                                                             *)
(***************************************************************************)

\* However the calls of the threads are ordered, resumed and restarted, the
\* semaphores keep the buffer within its bounds and one thread at a time in the
\* critical section, and never promise a place that is
\* taken or an item that is not there.
BufferShared ==
  /\ buffer \in 0 .. BUFFER_SIZE
  /\ Cardinality(inside) <= 1 /\ semaphore["mutex"] + Cardinality(inside) <= 1
  /\ semaphore["full"] + buffer <= BUFFER_SIZE /\ semaphore["empty"] <= buffer
=============================================================================
