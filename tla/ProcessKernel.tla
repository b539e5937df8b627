--------------------------- MODULE ProcessKernel ---------------------------
(***************************************************************************)
(* The process kernel of the Contiki port, core/sys/process.c, with the    *)
(* scheduler loop of platform/ez/contiki-ez-main.c.                        *)
(*                                                                         *)
(* Processes are event-driven threads on one C stack.  A thread that runs  *)
(* may post an event, poll, start, exit or synchronously call another      *)
(* process, so calls nest, and the loops of do_poll, do_event and          *)
(* exit_process walk process_list while the threads they call change it.   *)
(* `stack' is that C stack, innermost call first.  The threads are any     *)
(* threads: a running one takes any of the steps of ThreadStep, in any     *)
(* order.  Interrupt handlers call process_poll and nothing else.          *)
(***************************************************************************)
EXTENDS Integers, Sequences, FiniteSets

CONSTANTS
  Process,                \* the process structures
  NULL,                   \* a null pointer; also PROCESS_BROADCAST
  Autostart,              \* what main starts, in order
  PROCESS_CONF_NUMEVENTS, \* slots of events (8)
  PostedEvent,            \* what threads post, among "ev" and "exit"
  Polled,                 \* the processes that interrupts and threads poll
  Deeds,                  \* what each process's thread does: a bound
  ExitsRunningCaller      \* threads may process_exit a process being called,
                          \* themselves included, as process.h:372 allows

ASSUME NullAssumption == NULL \notin Process
ASSUME NumEventsAssumption == PROCESS_CONF_NUMEVENTS \in Nat \ {0}
ASSUME AutostartAssumption == Autostart \in Seq(Process)
\* Front and Keep, below, are no processes.
ASSUME FrameAssumption == {"front", "keep"} \cap (Process \cup {NULL}) = {}
ASSUME ThreadAssumption ==
  /\ Polled \subseteq Process
  /\ PostedEvent \subseteq {"ev", "exit"}
  /\ Deeds \in [Process -> SUBSET {"post", "call", "poll", "start", "exit"}]
ASSUME ExitsAssumption == ExitsRunningCaller \in BOOLEAN

VARIABLES
  process_list, next,        \* the linked list of processes
  state, needspoll,          \* of each process
  process_current,
  events,                    \* the queue of events, oldest first
  poll_requested,
  stack,                     \* the calls in progress, innermost first
  main,                      \* where the main program is
  started,                   \* how many of Autostart main has started
  wanted,                    \* history: polled since started and not yet served
  audience, heard            \* history: of the broadcast in progress

listVars == <<process_list, next>>
pollVars == <<needspoll, poll_requested, wanted>>
historyVars == <<audience, heard>>
vars == <<listVars, state, process_current, events, pollVars, stack, main,
          started, historyVars>>

\* PROCESS_STATE_NONE, PROCESS_STATE_RUNNING, PROCESS_STATE_CALLED
ProcState == {"none", "running", "called"}

\* An ordinary event; PROCESS_EVENT_INIT, _POLL, _EXIT and _EXITED.
EventId == {"ev", "init", "poll", "exit", "exited"}
-----------------------------------------------------------------------------
(***************************************************************************)
(* Stack frames.  A loop over process_list remembers the element it is at; *)
(* Front is its position before the first one.  `back' is what             *)
(* process_current is restored to on return, or Keep.                      *)
(***************************************************************************)
Front == "front"
Keep == "keep"

PollLoop(at) == [kind |-> "do_poll", at |-> at]
\* `due': the element it is at has not been called yet.
Broadcast(ev, at, due) ==
  [kind |-> "do_event", at |-> at, ev |-> ev, due |-> due]
Thread(p, ev, back) == [kind |-> "thread", p |-> p, ev |-> ev, back |-> back]
Exit(p, from, back, at) ==
  [kind |-> "exit_process", at |-> at, p |-> p, from |-> from, back |-> back]
\* The direct call p->thread(&p->pt, PROCESS_EVENT_EXIT, NULL).
Farewell(p) == [kind |-> "farewell", p |-> p]

Frame ==
  LET Place == Process \cup {Front}
      Saved == Process \cup {NULL, Keep}
  IN  {PollLoop(at) : at \in Place}
        \cup {f \in {Broadcast(ev, at, due) :
                       ev \in EventId, at \in Place, due \in BOOLEAN} :
                f.due => f.at # Front}
        \cup {Thread(p, ev, back) :
                p \in Process, ev \in EventId, back \in Saved}
        \cup {Exit(p, from, back, at) :
                p \in Process, from \in Process \cup {NULL},
                back \in Process \cup {NULL}, at \in Place \cup {NULL}}
        \cup {Farewell(p) : p \in Process}

Top == Head(stack)
Below == Tail(stack)
InLoop(kind) == stack # <<>> /\ Top.kind = kind

\* The element a loop examines next; read when the call it made has returned.
Following(at) == IF at = Front THEN process_list ELSE next[at]

\* The processes met from n on by following the links nx: those in every set
\* that holds n and that nx does not lead out of.
ClosedFrom(nx, n) ==
  {S \in SUBSET Process :
     n \in S \cup {NULL} /\ \A p \in S : nx[p] \in S \cup {NULL}}
Reachable(nx, n) == {p \in Process : \A S \in ClosedFrom(nx, n) : p \in S}
Listed == Reachable(next, process_list)

-----------------------------------------------------------------------------
TypeOK ==
  /\ process_list \in Process \cup {NULL}
  /\ next \in [Process -> Process \cup {NULL}]
  /\ state \in [Process -> ProcState]
  /\ needspoll \in [Process -> BOOLEAN]
  /\ process_current \in Process \cup {NULL}
  /\ events \in Seq([ev : EventId, p : Process \cup {NULL}])
  /\ Len(events) <= PROCESS_CONF_NUMEVENTS
  /\ poll_requested \in BOOLEAN
  /\ main \in {"boot", "run", "event", "ran", "idle", "asleep"}
  /\ stack \in Seq(Frame)
  /\ started \in 0 .. Len(Autostart)
  /\ wanted \subseteq Process
  /\ audience \subseteq Process
  /\ heard \subseteq Process

\* process_init on zeroed static storage.
Init ==
  /\ process_list = NULL
  /\ next = [p \in Process |-> NULL]
  /\ state = [p \in Process |-> "none"]
  /\ needspoll = [p \in Process |-> FALSE]
  /\ process_current = NULL
  /\ events = <<>>
  /\ poll_requested = FALSE
  /\ stack = <<>>
  /\ main = "boot"
  /\ started = 0
  /\ wanted = {}
  /\ audience = {}
  /\ heard = {}

-----------------------------------------------------------------------------
(***************************************************************************)
(* The operations of process.c.  `rest' is the stack under the new call,   *)
(* `st' the states the code sees when it makes it.                         *)
(***************************************************************************)

\* Mutant: a process that is being called counts as running.
CallAnyRunning(st, rest, p, ev, back) ==
  IF st[p] # "none"
  THEN /\ stack' = <<Thread(p, ev, back)>> \o rest
       /\ state' = [st EXCEPT ![p] = "called"]
       /\ process_current' = p
  ELSE /\ stack' = rest
       /\ state' = st
       /\ UNCHANGED process_current

\* PROCESS_STATE_CALLED lacks the bit of PROCESS_STATE_RUNNING: a process
\* being called is not called again.
call_process(st, rest, p, ev, back) ==
  IF st[p] = "running"
  THEN /\ stack' = <<Thread(p, ev, back)>> \o rest
       /\ state' = [st EXCEPT ![p] = "called"]
       /\ process_current' = p
  ELSE /\ stack' = rest
       /\ state' = st
       /\ UNCHANGED process_current

\* Mutant: the removed element's own link is cleared as well.
UnlinkAndClear(p) ==
  LET before == {q \in Listed : next[q] = p}
  IN  IF process_list = p
      THEN /\ process_list' = next[p]
           /\ next' = [next EXCEPT ![p] = NULL]
      ELSE /\ next' = [q \in Process |-> IF q \in before THEN next[p]
                                         ELSE IF q = p THEN NULL
                                         ELSE next[q]]
           /\ UNCHANGED process_list

\* The end of exit_process.  The removed element keeps its own link.
unlink(p) ==
  LET before == {q \in Listed : next[q] = p}
  IN  IF process_list = p
      THEN process_list' = next[p] /\ UNCHANGED next
      ELSE /\ next' = [q \in Process |->
                         IF q \in before THEN next[p] ELSE next[q]]
           /\ UNCHANGED process_list

\* exit_process up to its first call; a process that is not running is only
\* taken off the list.
exit_process(rest, p, from, back) ==
  IF state[p] # "none"
  THEN /\ state' = [state EXCEPT ![p] = "none"]
       /\ stack' = <<Exit(p, from, back, Front)>> \o rest
       /\ wanted' = wanted \ {p}
       /\ audience' = audience \ {p}
       /\ UNCHANGED <<listVars, process_current, heard>>
  ELSE /\ unlink(p)
       /\ stack' = rest
       /\ process_current' = back
       /\ UNCHANGED <<state, wanted, historyVars>>

\* A process on the list is running already.
process_start(rest, p) ==
  IF p \in Listed
  THEN /\ stack' = rest
       /\ UNCHANGED <<listVars, state, process_current>>
  ELSE /\ next' = [next EXCEPT ![p] = process_list]
       /\ process_list' = p
       /\ call_process([state EXCEPT ![p] = "running"], rest, p, "init",
                       process_current)

\* process_post; the result PROCESS_ERR_FULL is the caller's concern.
process_post(p, ev) ==
  events' = IF Len(events) = PROCESS_CONF_NUMEVENTS
            THEN events
            ELSE Append(events, [ev |-> ev, p |-> p])

process_poll(p) ==
  IF state[p] \in {"running", "called"}
  THEN /\ needspoll' = [needspoll EXCEPT ![p] = TRUE]
       /\ poll_requested' = TRUE
       /\ wanted' = wanted \cup {p}
  ELSE UNCHANGED pollVars

process_nevents == Len(events) + (IF poll_requested THEN 1 ELSE 0)

-----------------------------------------------------------------------------
(***************************************************************************)
(* The main program: start-up, then the scheduler loop.                    *)
(***************************************************************************)

\* process_start of each process of Autostart.
Boot ==
  /\ main = "boot" /\ stack = <<>>
  /\ IF started < Len(Autostart)
     THEN /\ process_start(<<>>, Autostart[started + 1])
          /\ started' = started + 1
          /\ UNCHANGED main
     ELSE /\ main' = "run"
          /\ UNCHANGED <<listVars, state, process_current, stack, started>>
  /\ UNCHANGED <<events, pollVars, historyVars>>

\* do_poll clears the request before it looks at any process.
ClearRequest == poll_requested' = FALSE

\* process_run, first half: `if (poll_requested) do_poll()'.
RunPolls ==
  /\ main = "run" /\ stack = <<>>
  /\ main' = "event"
  /\ IF poll_requested
     THEN ClearRequest /\ stack' = <<PollLoop(Front)>>
     ELSE UNCHANGED <<poll_requested, stack>>
  /\ UNCHANGED <<listVars, state, process_current, events, needspoll,
                 wanted, started, historyVars>>

\* do_event: one event, to one process or to all.
RunEvent ==
  /\ main = "event" /\ stack = <<>>
  /\ main' = "ran"
  /\ IF events = <<>>
     THEN UNCHANGED <<state, process_current, events, stack, historyVars>>
     ELSE LET e == Head(events) IN
          /\ events' = Tail(events)
          /\ IF e.p = NULL
             THEN /\ stack' = <<Broadcast(e.ev, Front, FALSE)>>
                  /\ audience' = Listed
                  /\ UNCHANGED heard
                  /\ UNCHANGED <<state, process_current>>
             ELSE /\ call_process(IF e.ev = "init"
                                  THEN [state EXCEPT ![e.p] = "running"]
                                  ELSE state, <<>>, e.p, e.ev, Keep)
                  /\ UNCHANGED historyVars
  /\ UNCHANGED <<listVars, pollVars, started>>

\* process_run returns; `while (r > 0)'.
RunReturns ==
  /\ main = "ran" /\ stack = <<>>
  /\ main' = IF process_nevents > 0 THEN "run" ELSE "idle"
  /\ UNCHANGED <<listVars, state, process_current, events, pollVars, stack,
                 started, historyVars>>

\* Mutant: main goes to sleep without asking process_nevents again.
SleepUnchecked ==
  /\ main = "idle"
  /\ main' = "asleep"
  /\ UNCHANGED <<listVars, state, process_current, events, pollVars, stack,
                 started, historyVars>>

\* splhigh, process_nevents, and either splx or LPM3, which enables interrupts
\* and sleeps in one instruction.
Idle ==
  /\ main = "idle"
  /\ main' = IF process_nevents # 0 THEN "run" ELSE "asleep"
  /\ UNCHANGED <<listVars, state, process_current, events, pollVars, stack,
                 started, historyVars>>

\* timera1, the uart's receive handler, ...: process_poll and LPM4_EXIT.
InterruptPolls(p) ==
  /\ process_poll(p)
  /\ main' = IF main = "asleep" THEN "run" ELSE main
  /\ UNCHANGED <<listVars, state, process_current, events, stack, started,
                 historyVars>>

-----------------------------------------------------------------------------
(***************************************************************************)
(* The loops over process_list.                                            *)
(***************************************************************************)
\* Mutant: do_poll clears poll_requested when it is done, not before.
PollLoopClearsLast ==
  /\ InLoop("do_poll")
  /\ LET n == Following(Top.at) IN
     /\ poll_requested' = IF n = NULL THEN FALSE ELSE poll_requested
     /\ IF n # NULL /\ needspoll[n]
        THEN /\ needspoll' = [needspoll EXCEPT ![n] = FALSE]
             /\ wanted' = wanted \ {n}
             /\ call_process([state EXCEPT ![n] = "running"],
                             <<PollLoop(n)>> \o Below, n, "poll", Keep)
        ELSE /\ stack' = IF n = NULL THEN Below ELSE <<PollLoop(n)>> \o Below
             /\ UNCHANGED <<state, process_current, needspoll, wanted>>
  /\ UNCHANGED <<listVars, events, main, started, historyVars>>

PollLoopNext ==
  /\ InLoop("do_poll")
  /\ LET n == Following(Top.at) IN
     IF n # NULL /\ needspoll[n]
     THEN /\ needspoll' = [needspoll EXCEPT ![n] = FALSE]
          /\ wanted' = wanted \ {n}
          /\ call_process([state EXCEPT ![n] = "running"],
                          <<PollLoop(n)>> \o Below, n, "poll", Keep)
     ELSE /\ stack' = IF n = NULL THEN Below ELSE <<PollLoop(n)>> \o Below
          /\ UNCHANGED <<state, process_current, needspoll, wanted>>
  /\ UNCHANGED <<listVars, events, poll_requested, main, started,
                 historyVars>>

\* The polls requested meanwhile come before each call of a broadcast.
BroadcastNext ==
  /\ InLoop("do_event") /\ ~Top.due
  /\ LET n == Following(Top.at)
         here == <<Broadcast(Top.ev, n, TRUE)>> \o Below
     IN  IF n = NULL
         THEN /\ stack' = Below
              /\ audience' = {} /\ heard' = {}
              /\ UNCHANGED poll_requested
         ELSE /\ IF poll_requested
                 THEN stack' = <<PollLoop(Front)>> \o here /\ ClearRequest
                 ELSE stack' = here /\ UNCHANGED poll_requested
              /\ UNCHANGED historyVars
  /\ UNCHANGED <<listVars, state, process_current, events, needspoll,
                 wanted, main, started>>

BroadcastCall ==
  /\ InLoop("do_event") /\ Top.due
  /\ call_process(state, <<Broadcast(Top.ev, Top.at, FALSE)>> \o Below,
                  Top.at, Top.ev, Keep)
  /\ heard' = IF state[Top.at] = "running" THEN heard \cup {Top.at} ELSE heard
  /\ UNCHANGED <<listVars, events, pollVars, main, started, audience>>

ExitAt(n) == Exit(Top.p, Top.from, Top.back, n)

\* exit_process tells every other process on the list.
ExitNext ==
  /\ InLoop("exit_process")
  /\ Top.at # NULL
  /\ LET n == Following(Top.at)
         here == <<ExitAt(n)>> \o Below
     IN
     IF n # NULL /\ n # Top.p
     THEN call_process(state, here, n, "exited", Keep)
     ELSE /\ IF n = NULL /\ Top.p # Top.from
             THEN /\ stack' = <<Farewell(Top.p)>> \o here
                  /\ process_current' = Top.p
             ELSE /\ stack' = here
                  /\ UNCHANGED process_current
          /\ UNCHANGED state
  /\ UNCHANGED <<listVars, events, pollVars, main, started, historyVars>>

ExitDone ==
  /\ InLoop("exit_process")
  /\ Top.at = NULL
  /\ unlink(Top.p)
  /\ process_current' = Top.back
  /\ stack' = Below
  /\ UNCHANGED <<state, events, pollVars, main, started, historyVars>>

-----------------------------------------------------------------------------
(***************************************************************************)
(* What the running thread may do.                                         *)
(***************************************************************************)
Running == InLoop("thread") \/ InLoop("farewell")
May(deed) == Running /\ deed \in Deeds[Top.p]

ThreadPosts(p, ev) ==
  /\ May("post")
  /\ process_post(p, ev)
  /\ UNCHANGED <<listVars, state, process_current, pollVars, stack, main,
                 started, historyVars>>

\* process_post_synch
ThreadCalls(p, ev) ==
  /\ May("call")
  /\ call_process(state, stack, p, ev, process_current)
  /\ UNCHANGED <<listVars, events, pollVars, main, started, historyVars>>

ThreadPolls(p) ==
  /\ May("poll")
  /\ process_poll(p)
  /\ UNCHANGED <<listVars, state, process_current, events, stack, main,
                 started, historyVars>>

ThreadStarts(p) ==
  /\ May("start")
  /\ process_start(stack, p)
  /\ UNCHANGED <<events, pollVars, main, started, historyVars>>

Exiting == {stack[i].p : i \in {j \in DOMAIN stack :
                                  stack[j].kind = "exit_process"}}

\* process_exit
ThreadExits(p) ==
  /\ May("exit")
  /\ ExitsRunningCaller \/ (state[p] # "called" /\ p \notin Exiting)
  /\ exit_process(stack, p, process_current, process_current)
  /\ UNCHANGED <<events, needspoll, poll_requested, main, started>>

\* process_current after a call that saved `back'.
Restored(back) == IF back = Keep THEN process_current ELSE back

\* PT_WAITING, PT_YIELDED
ThreadYields ==
  /\ InLoop("thread") /\ Top.ev # "exit"
  /\ state' = [state EXCEPT ![Top.p] = "running"]
  /\ process_current' = Restored(Top.back)
  /\ stack' = Below
  /\ UNCHANGED <<listVars, events, pollVars, main, started, historyVars>>

\* PT_EXITED, PT_ENDED, or any return from PROCESS_EVENT_EXIT
ThreadEnds ==
  /\ InLoop("thread")
  /\ exit_process(Below, Top.p, Top.p, Restored(Top.back))
  /\ UNCHANGED <<events, needspoll, poll_requested, main, started>>

FarewellReturns ==
  /\ InLoop("farewell")
  /\ stack' = Below
  /\ UNCHANGED <<listVars, state, process_current, events, pollVars, main,
                 started, historyVars>>

-----------------------------------------------------------------------------
ThreadStep ==
  \/ \E ev \in PostedEvent, p \in Process \cup {NULL} : ThreadPosts(p, ev)
  \/ \E p \in Process :
       \/ \E ev \in PostedEvent : ThreadCalls(p, ev)
       \/ ThreadStarts(p)
       \/ ThreadExits(p)
  \/ \E p \in Polled : ThreadPolls(p)
  \/ ThreadYields
  \/ ThreadEnds
  \/ FarewellReturns

KernelStep ==
  \/ Boot
  \/ RunPolls
  \/ RunEvent
  \/ RunReturns
  \/ Idle
  \/ PollLoopNext
  \/ BroadcastNext
  \/ BroadcastCall
  \/ ExitNext
  \/ ExitDone

Next ==
  \/ KernelStep
  \/ ThreadStep
  \/ \E p \in Polled : InterruptPolls(p)

Spec == Init /\ [][Next]_vars

\* A thread that runs returns to whoever called it.
Returns(p) == Top.p = p /\ (ThreadYields \/ ThreadEnds \/ FarewellReturns)

(***************************************************************************)
(* Main keeps running while it is awake.  A thread that runs returns in    *)
(* the end: it does not go on calling, starting or ending others for ever  *)
(* (each such call leaves its return disabled for a while: strong          *)
(* fairness), as a thread that never gives up the CPU stops the system.    *)
(* Nothing is assumed of interrupts, or of what threads post.              *)
(***************************************************************************)
FairSpec ==
  /\ Spec
  /\ WF_vars(KernelStep)
  /\ \A p \in Process : SF_vars(Running /\ Returns(p))

-----------------------------------------------------------------------------
(***************************************************************************)
(* Properties.                                                             *)
(***************************************************************************)

\* However threads start and end each other while the list is being walked, it
\* stays a list: no cycle, no process twice, every running process on it, and
\* nothing on it but running processes and those whose exit is in progress.
ListWellFormed ==
  /\ \A p \in Listed : p \notin Reachable(next, next[p])
  /\ \A p \in Process : state[p] # "none" => p \in Listed
  /\ \A p \in Listed : state[p] # "none" \/ p \in Exiting

\* A protothread has one resume point and no frame of its own: a process is
\* never entered while a call of it is in progress, in spite of synchronous
\* events, polls that force its state to running, and exits.  And through every
\* nesting of them PROCESS_CURRENT() is the process whose code runs: timers and
\* packet queues record their owner by it, exit_process tells by it whom not to
\* call.
CallsNest ==
  LET inside == {i \in DOMAIN stack : stack[i].kind \in {"thread", "farewell"}}
  IN  /\ \A i, j \in inside : stack[i].p = stack[j].p => i = j
      /\ Running => process_current = Top.p

\* Starts, ends, posts and calls within calls leave a list of processes none of
\* which is entered twice.
KernelConsistent == TypeOK /\ ListWellFormed /\ CallsNest

\* Where the do_poll in progress, if there is one, has still to look.
StillToPoll ==
  UNION {Reachable(next, Following(stack[i].at)) :
           i \in {j \in DOMAIN stack : stack[j].kind = "do_poll"}}

\* The CPU sleeps only when nothing is left to do; a poll that arrives between
\* process_run and LPM3 keeps it awake.
SleepsOnlyIdle ==
  main = "asleep" => events = <<>> /\ ~poll_requested /\ stack = <<>>

\* No poll is lost: a process polled by an interrupt or a thread and not served
\* yet keeps its flag, and either a do_poll is requested or the one in progress
\* has still to come to the process, whatever was started or ended meanwhile;
\* nor does main fall asleep over a poll or an event.
NoLostPoll ==
  /\ SleepsOnlyIdle
  /\ \A p \in wanted :
       /\ needspoll[p]
       /\ poll_requested \/ p \in StillToPoll

\* A poll is served, or its process ends: main does not fall asleep over it and
\* no stream of further polls or events keeps it out.
PollsServed == \A p \in Process : p \in wanted ~> p \notin wanted

\* A broadcast reaches every process that was on the list when it began and has
\* not ended since, whatever happens to its neighbours on the list.
BroadcastReachesAll ==
  [][InLoop("do_event") /\ stack' = <<>> => audience \subseteq heard]_vars

=============================================================================
