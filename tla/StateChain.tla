----------------------------- MODULE StateChain -----------------------------
(***************************************************************************)
(* The state-chain service of the native firmware, sys/state.c, on top of  *)
(* the event queue of sys/event.c, driven as tests/state drives it: the    *)
(* main program sets the chain up and then loops over event_process, and   *)
(* the callbacks of timer alarms, in interrupt context, call               *)
(* st_notify_event.                                                        *)
(*                                                                         *)
(* A transition does not call the new state's exec.  exec_state copies     *)
(* (exec, event) into a slot of event_data_queue and posts (exec_func,     *)
(* &slot); exec_func, run later by event_process, calls the slot's func    *)
(* and clears the slot with two separate stores.  The events this module   *)
(* posts are therefore the slots themselves.                               *)
(***************************************************************************)
EXTENDS Integers, Sequences, FiniteSetsExt

CONSTANTS
  EVENT_QUEUE_SIZE,       \* slots of event_queue (8)
  ST_EVENT_QUEUE_LENGTH,  \* slots of event_data_queue (8)
  State,                  \* the st_state objects, identified with their exec
  Evt,                    \* the st_event objects
  FirstState,             \* the state first_init makes active
  Transitions,            \* the st_transition objects, as first_init adds them
  Null                    \* a null pointer

DataSlot == 0 .. ST_EVENT_QUEUE_LENGTH - 1

\* struct st_transition; a null from_state stands for any state.
Transition == [from_state : State \cup {Null}, to_state : State, event : Evt]

ASSUME LengthAssumption == ST_EVENT_QUEUE_LENGTH \in Nat \ {0}
ASSUME QueueAssumption ==
  EVENT_QUEUE_SIZE \in Nat /\ EVENT_QUEUE_SIZE >= ST_EVENT_QUEUE_LENGTH
ASSUME NullAssumption ==
  Null \notin State /\ Null \notin Evt /\ Null \notin DataSlot
ASSUME ChainAssumption ==
  /\ FirstState \in State
  /\ Transitions \in Seq(Transition)

VARIABLES
  event_queue, queue_start, queue_len,  \* of event.c
  main, current,                        \* the main program, see EventQueue
  slot_func, slot_data,                 \* event_data_queue
  search_start,                         \* event_data_queue_search_start
  first_transition, active_state,       \* the chain
  step,                                 \* progress of first_init and exec_func
  owed,                                 \* history: executions accepted so far
  refused,     \* history: the last execution asked for was given up
  executed                              \* history: the last state executed

eventVars == <<event_queue, queue_start, queue_len, main, current>>
slotVars == <<slot_func, slot_data, search_start>>
chainVars == <<first_transition, active_state>>
vars == <<eventVars, slotVars, chainVars, step, owed, refused, executed>>

Queue == INSTANCE EventQueue WITH
  Event <- DataSlot, NoEvent <- Null, UsesLPM0 <- FALSE

\* The slots posted and not yet called, oldest first.
PostedSlots ==
  IF main \in {"handler", "remove"} THEN Tail(Queue!Waiting) ELSE Queue!Waiting

\* The slots whose func exec_func has still to call.
Uncalled == IF step = "call" THEN Queue!Waiting ELSE PostedSlots

TypeOK ==
  /\ Queue!TypeOK
  /\ slot_func \in [DataSlot -> State \cup {Null}]
  /\ slot_data \in [DataSlot -> Evt \cup {Null}]
  /\ search_start \in DataSlot
  /\ first_transition \in Seq(Transition)
  /\ active_state \in State \cup {Null}
  /\ step \in {"reset", "setup", "idle", "call", "clear_func", "clear_data"}
  /\ refused \in BOOLEAN
  /\ executed \in State \cup {Null}
  /\ owed \in Seq([state : State, evt : Evt \cup {Null}])

Init ==
  /\ Queue!Init
  /\ slot_func = [i \in DataSlot |-> Null]
  /\ slot_data = [i \in DataSlot |-> Null]
  /\ search_start = 0
  /\ first_transition = <<>>
  /\ active_state = Null
  /\ step = "reset"
  /\ owed = <<>>
  /\ refused = FALSE
  /\ executed = Null

-----------------------------------------------------------------------------
(***************************************************************************)
(* state.c.                                                                *)
(***************************************************************************)

\* Mutant: exec_state takes the next slot, free or not.
AnySlot(i) == TRUE

\* `if (event_data_queue[ix].func == 0x0)'
SlotFree(i) == slot_func[i] = Null

\* ix, for the i of the search.
Searched(i) == (search_start + i) % ST_EVENT_QUEUE_LENGTH

\* get_available_dataslot: the first free slot in ring order from
\* search_start, or Null.
get_available_dataslot ==
  LET free == {i \in DataSlot : SlotFree(Searched(i))}
  IN  IF free = {} THEN Null ELSE Searched(Min(free))

\* exec_state: without a free slot the execution is given up silently; with
\* one, the slot is taken even if event_post then drops the event.
exec_state(state, evt) ==
  LET slot == get_available_dataslot
  IN  IF slot = Null
      THEN /\ refused' = TRUE
           /\ UNCHANGED <<event_queue, queue_start, queue_len, slotVars, owed>>
      ELSE /\ search_start' = (search_start + 1) % ST_EVENT_QUEUE_LENGTH
           /\ slot_func' = [slot_func EXCEPT ![slot] = state]
           /\ slot_data' = [slot_data EXCEPT ![slot] = evt]
           /\ Queue!event_post(slot)
           /\ owed' = IF queue_len < EVENT_QUEUE_SIZE
                      THEN Append(owed, [state |-> state, evt |-> evt])
                      ELSE owed
           /\ refused' = (queue_len = EVENT_QUEUE_SIZE)

\* Mutant: the state is executed and not made active.
ExecuteOnly(state) ==
  /\ exec_state(state, Null)
  /\ UNCHANGED active_state

st_set_active_state(state) ==
  /\ exec_state(state, Null)
  /\ active_state' = state

Matches(t, evt) ==
  t.from_state \in {active_state, Null} /\ t.event = evt

\* st_notify_event: the first matching transition is taken, and becomes the
\* active state whether or not its execution could be queued.
st_notify_event(evt) ==
  LET matching == {i \in DOMAIN first_transition :
                     Matches(first_transition[i], evt)}
  IN  IF matching = {}
      THEN UNCHANGED <<event_queue, queue_start, queue_len, slotVars, owed,
                       refused, active_state>>
      ELSE LET transition == first_transition[Min(matching)]
           IN  /\ exec_state(transition.to_state, evt)
               /\ active_state' = transition.to_state

\* st_add_transition puts the newest first.
st_add_transition(t) == first_transition' = <<t>> \o first_transition

-----------------------------------------------------------------------------
(***************************************************************************)
(* The main program of tests/state.                                        *)
(***************************************************************************)

\* event_init, then st_init.
Reset ==
  /\ step = "reset"
  /\ Queue!EventInit
  /\ slot_func' = [i \in DataSlot |-> Null]
  /\ slot_data' = [i \in DataSlot |-> Null]
  /\ search_start' = 0
  /\ step' = "setup"
  /\ UNCHANGED <<chainVars, owed, refused, executed>>

\* first_init.  It arms the first alarm last, so nothing interrupts it.
AddTransition ==
  /\ step = "setup"
  /\ Len(first_transition) < Len(Transitions)
  /\ st_add_transition(Transitions[Len(first_transition) + 1])
  /\ UNCHANGED <<eventVars, slotVars, active_state, step, owed, refused, executed>>

FirstInit ==
  /\ step = "setup"
  /\ Len(first_transition) = Len(Transitions)
  /\ st_set_active_state(FirstState)
  /\ step' = "idle"
  /\ UNCHANGED <<main, current, first_transition, executed>>

TestQueue ==
  /\ step = "idle"
  /\ Queue!TestQueue
  /\ UNCHANGED <<slotVars, chainVars, step, owed, refused, executed>>

CallEvent ==
  /\ Queue!CallEvent
  /\ step' = "call"
  /\ UNCHANGED <<slotVars, chainVars, owed, refused, executed>>

\* exec_func calls the slot's func with the slot's data.
CallExec ==
  /\ step = "call"
  /\ executed' = slot_func[current]
  /\ owed' = Tail(owed)
  /\ step' = "clear_func"
  /\ UNCHANGED <<eventVars, slotVars, chainVars, refused>>

\* Mutant: exec_func does not clear func.
KeepFunc ==
  /\ step = "clear_func"
  /\ step' = "clear_data"
  /\ UNCHANGED <<eventVars, slotVars, chainVars, owed, refused, executed>>

ClearFunc ==
  /\ step = "clear_func"
  /\ slot_func' = [slot_func EXCEPT ![current] = Null]
  /\ step' = "clear_data"
  /\ UNCHANGED <<eventVars, slot_data, search_start, chainVars, owed, refused, executed>>

\* An interrupt may have taken the slot again since ClearFunc.
ClearData ==
  /\ step = "clear_data"
  /\ slot_data' = [slot_data EXCEPT ![current] = Null]
  /\ Queue!HandlerReturns
  /\ step' = "idle"
  /\ UNCHANGED <<slot_func, search_start, chainVars, owed, refused, executed>>

\* Mutant: event_process tests the queue again without queue_remove.
ForgetRemove ==
  /\ main = "remove"
  /\ main' = "test"
  /\ UNCHANGED <<event_queue, queue_start, queue_len, current, slotVars,
                 chainVars, step, owed, refused, executed>>

RemoveEvent ==
  /\ Queue!RemoveEvent
  /\ UNCHANGED <<slotVars, chainVars, step, owed, refused, executed>>

LPM0 ==
  /\ Queue!LPM0
  /\ UNCHANGED <<slotVars, chainVars, step, owed, refused, executed>>

\* eventX_cb, eventY_cb: a timer alarm fires.  Alarms are armed by first_init
\* and by the states' exec functions, never before.
AlarmCallback(evt) ==
  /\ step \notin {"reset", "setup"}
  /\ st_notify_event(evt)
  /\ UNCHANGED <<main, current, first_transition, step, executed>>

-----------------------------------------------------------------------------
Main ==
  \/ Reset
  \/ AddTransition
  \/ FirstInit
  \/ TestQueue
  \/ CallEvent
  \/ CallExec
  \/ ClearFunc
  \/ ClearData
  \/ RemoveEvent
  \/ LPM0

Next == Main \/ \E evt \in Evt : AlarmCallback(evt)

Spec == Init /\ [][Next]_vars

\* The loop never sleeps and exec functions return.
FairSpec == Spec /\ WF_vars(Main)

-----------------------------------------------------------------------------
(***************************************************************************)
(* Properties.                                                             *)
(***************************************************************************)

\* The states whose executions the service holds, oldest first: what the slots
\* lead to that wait in the event queue.  The oldest has been executed, and its
\* slot cleared, but its entry is still there.
HasRun == step = "clear_data" \/ main = "remove"
Held ==
  [i \in 1 .. queue_len |->
     IF i = 1 /\ HasRun THEN executed ELSE slot_func[Queue!Waiting[i]]]

States == INSTANCE EventService WITH
  Capacity <- EVENT_QUEUE_SIZE,
  Event <- State,
  Idle <- Null,
  queue <- Held,
  running <- IF step = "clear_func" THEN executed ELSE Null,
  executed <- HasRun,
  started <- main # "boot"

\* exec_state and exec_func give for states what event.c gives for functions:
\* however alarms interrupt the search for a slot, the call and the two stores
\* that clear the slot, every execution that is accepted takes place once, and
\* in the order of the transitions.
ImplementsStateService == States!Spec

\* The slots that wait in the event queue are distinct and still hold, in
\* order, the executions that were accepted: no interrupt has given a waiting
\* slot to another transition and exec_func has cleared none, so no state is
\* executed twice, in the wrong order or through a null func.  The event a
\* slot carries may have been wiped by ClearData, but is never another one's.
SlotsHoldWhatIsOwed ==
  /\ Len(Uncalled) = Len(owed)
  /\ \A i, j \in 1 .. Len(owed) : Uncalled[i] = Uncalled[j] => i = j
  /\ \A i \in 1 .. Len(owed) :
       /\ slot_func[Uncalled[i]] = owed[i].state
       /\ slot_data[Uncalled[i]] \in {owed[i].evt, Null}

\* A slot in use that no entry of the event queue leads back to.
Leaked ==
  {s \in DataSlot :
     /\ slot_func[s] # Null
     /\ ~ (s = current /\ step \in {"call", "clear_func"})
     /\ \A i \in 1 .. Len(PostedSlots) : PostedSlots[i] # s}

\* A data slot is lost for good exactly when a transition meets a full event
\* queue while a data slot is free, which is possible although both have the
\* same length: the slot being executed is free before its entry is removed.
LeakedByFullQueue ==
  [][/\ Leaked \subseteq Leaked'
     /\ Leaked' # Leaked =>
          /\ queue_len = EVENT_QUEUE_SIZE
          /\ step = "clear_data" \/ main = "remove"]_vars

\* A slot in use is owed to an entry of the event queue, or lost that way.
SlotsAccounted == []TypeOK /\ []SlotsHoldWhatIsOwed /\ LeakedByFullQueue

\* The active state is the last one executed, or the last that waits to be:
\* a transition and the execution of its state come together.  They part only
\* when exec_state finds no data slot or event_post no room: then the active
\* state moves on although it is never executed, and its caller cannot tell.
ActiveStateExecuted ==
  ~refused =>
    active_state = IF owed = <<>> THEN executed ELSE owed[Len(owed)].state
=============================================================================
