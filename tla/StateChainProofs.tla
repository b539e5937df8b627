-------------------------- MODULE StateChainProofs --------------------------
(***************************************************************************)
(* Proofs about sys/state.c on top of sys/event.c, for every number of     *)
(* states, events, transitions and slots, the event queue being as long as *)
(* the queue of data slots (as it is in the code) or longer; and about     *)
(* drivers/usci.c, which the main program and the radio's interrupts share *)
(* on a node, for every set of frames and registers.                       *)
(***************************************************************************)
EXTENDS StateChain, SensorNode, RingArithmetic, FiniteSetTheorems,
        SequenceTheorems, TLAPS

-----------------------------------------------------------------------------
(***************************************************************************)
(* The inductive invariant.  What a slot holds, SlotsHoldWhatIsOwed, needs *)
(* to know which slot exec_func is at (RunningHeld: it is in no other      *)
(* entry, and taken until ClearFunc), that entries are slots (InRing), and *)
(* where main and exec_func can be together (Phases).                      *)
(***************************************************************************)
Phases ==
  /\ main # "asleep"
  /\ step = "reset" <=> main = "boot"
  /\ step = "setup" => main = "test"
  /\ main = "handler" <=> step \in {"call", "clear_func", "clear_data"}
  /\ main \in {"call", "handler", "remove"} => queue_len > 0
  /\ main = "handler" => current = event_queue[queue_start]
  /\ main # "handler" => current = Null
  /\ main = "boot" => queue_len = 0 /\ \A s \in DataSlot : slot_func[s] = Null

InRing ==
  \A i \in 1 .. queue_len :
    event_queue[(queue_start + (i - 1)) % EVENT_QUEUE_SIZE] \in DataSlot

RunningHeld ==
  step \in {"call", "clear_func"} =>
    /\ slot_func[current] # Null
    /\ \A i \in 1 .. Len(PostedSlots) : PostedSlots[i] # current

IInv ==
  /\ TypeOK
  /\ Phases
  /\ InRing
  /\ RunningHeld
  /\ SlotsHoldWhatIsOwed
  /\ ActiveStateExecuted

LEMMA InitIInv == Init => IInv
<1> SUFFICES ASSUME Init PROVE IInv
  OBVIOUS
<1> USE LengthAssumption, QueueAssumption
<1>1. TypeOK
  <2>1. Queue!TypeOK
    BY DEF Init, Queue!Init, Queue!TypeOK, Queue!Slot, Queue!MainPoint
  <2>2. owed \in Seq([state : State, evt : Evt \cup {Null}])
        /\ first_transition \in Seq(Transition)
    BY DEF Init
  <2> QED
    BY <2>1, <2>2 DEF Init, TypeOK, DataSlot
<1>2. Phases /\ InRing /\ RunningHeld
  BY DEF Init, Phases, InRing, RunningHeld, Queue!Init
<1>3. SlotsHoldWhatIsOwed
  <2>1. Uncalled = Queue!Waiting
    BY DEF Init, Uncalled, PostedSlots, Queue!Init
  <2>2. Len(Queue!Waiting) = 0
    BY EntriesAreSequence DEF Init, Queue!Init, Queue!Waiting
  <2> QED
    BY <2>1, <2>2 DEF Init, SlotsHoldWhatIsOwed
<1>4. ActiveStateExecuted
  BY DEF Init, ActiveStateExecuted
<1> QED
  BY <1>1, <1>2, <1>3, <1>4 DEF IInv

-----------------------------------------------------------------------------
(***************************************************************************)
(* The entries of the event queue, read as a sequence.                     *)
(***************************************************************************)
W == Queue!Waiting

WaitingFacts ==
  /\ W = RingEntries(event_queue, queue_start, queue_len, EVENT_QUEUE_SIZE)
  /\ W \in Seq(DataSlot)
  /\ Len(W) = queue_len
  /\ queue_len > 0 => W[1] = event_queue[queue_start]

LEMMA WaitingSlots == TypeOK /\ InRing => WaitingFacts
<1> SUFFICES ASSUME TypeOK, InRing PROVE WaitingFacts
  OBVIOUS
<1> USE LengthAssumption, QueueAssumption
<1>1. W = RingEntries(event_queue, queue_start, queue_len, EVENT_QUEUE_SIZE)
  BY DEF W, Queue!Waiting, RingEntries
<1>2. /\ EVENT_QUEUE_SIZE \in Nat \ {0}
      /\ queue_start \in 0 .. EVENT_QUEUE_SIZE - 1
      /\ queue_len \in 0 .. EVENT_QUEUE_SIZE
  BY DEF TypeOK, Queue!TypeOK, Queue!Slot
<1>3. /\ RingEntries(event_queue, queue_start, queue_len, EVENT_QUEUE_SIZE)
           \in Seq(DataSlot)
      /\ Len(RingEntries(event_queue, queue_start, queue_len, EVENT_QUEUE_SIZE))
           = queue_len
  BY <1>2 DEF InRing, RingEntries
<1>4. ASSUME queue_len > 0
      PROVE  RingEntries(event_queue, queue_start, queue_len, EVENT_QUEUE_SIZE)[1]
               = event_queue[queue_start]
  BY <1>2, <1>4, OldestEntry, queue_len \in 1 .. EVENT_QUEUE_SIZE
<1> QED
  BY <1>1, <1>3, <1>4 DEF WaitingFacts

\* The entries whose func main has not begun to execute.
LEMMA PostedIsWaiting ==
  ASSUME IInv
  PROVE  /\ W \in Seq(DataSlot) /\ Len(W) = queue_len
         /\ PostedSlots \in Seq(DataSlot)
         /\ main \in {"handler", "remove"} =>
              W # <<>> /\ PostedSlots = Tail(W)
         /\ main \notin {"handler", "remove"} => PostedSlots = W
         /\ Uncalled = IF step = "call" THEN W ELSE PostedSlots
         /\ Uncalled \in Seq(DataSlot)
<1>1. W \in Seq(DataSlot) /\ Len(W) = queue_len
  BY WaitingSlots DEF IInv, WaitingFacts
<1>2. queue_len \in Nat
  BY QueueAssumption DEF IInv, TypeOK, Queue!TypeOK
<1>3. main \in {"handler", "remove"} => W # <<>>
  BY <1>1, <1>2 DEF IInv, Phases
<1>4. PostedSlots = IF main \in {"handler", "remove"} THEN Tail(W) ELSE W
  BY DEF PostedSlots, W
<1>5. Uncalled = IF step = "call" THEN W ELSE PostedSlots
  BY DEF Uncalled, W
<1>6. PostedSlots \in Seq(DataSlot)
  BY <1>1, <1>3, <1>4
<1> QED
  BY <1>1, <1>3, <1>4, <1>5, <1>6

-----------------------------------------------------------------------------
(***************************************************************************)
(* exec_state.                                                             *)
(***************************************************************************)

\* The search for a slot finds a free one or none.
LEMMA SearchFindsFree ==
  ASSUME TypeOK, get_available_dataslot # Null
  PROVE  /\ get_available_dataslot \in DataSlot
         /\ slot_func[get_available_dataslot] = Null
<1> DEFINE free == {i \in DataSlot : SlotFree(Searched(i))}
<1>1. free # {} /\ get_available_dataslot = Searched(Min(free))
  BY DEF get_available_dataslot
<1>2. free \in SUBSET Nat
  BY LengthAssumption DEF DataSlot
<1>3. \E m \in free : \A k \in free : m <= k
  BY <1>1, <1>2, LeastElement
<1>4. Min(free) \in free
  BY <1>3 DEF Min
<1>5. Min(free) \in DataSlot /\ SlotFree(Searched(Min(free)))
  BY <1>4
<1>6. \A i \in DataSlot : Searched(i) \in DataSlot
  <2>1. TAKE i \in DataSlot
  <2>2. i \in 0 .. ST_EVENT_QUEUE_LENGTH /\ search_start \in 0 .. ST_EVENT_QUEUE_LENGTH - 1
    BY LengthAssumption DEF DataSlot, TypeOK
  <2> QED
    BY <2>2, WrapOnce, LengthAssumption DEF Searched, DataSlot
<1> QED
  BY <1>1, <1>5, <1>6 DEF SlotFree

\* The three outcomes: no slot, a slot whose entry the full event queue drops,
\* and an accepted execution.
Accepts(slot, state, evt) ==
  /\ queue_len < EVENT_QUEUE_SIZE
  /\ event_queue' \in [Queue!Slot -> DataSlot \cup {Null}]
  /\ queue_start' = queue_start
  /\ queue_len' = queue_len + 1
  /\ InRing'
  /\ W' = Append(W, slot)
  /\ owed' = Append(owed, [state |-> state, evt |-> evt])
  /\ refused' = FALSE

Drops ==
  /\ queue_len = EVENT_QUEUE_SIZE
  /\ UNCHANGED <<event_queue, queue_start, queue_len, owed>>
  /\ refused' = TRUE

GivesUp ==
  /\ refused' = TRUE
  /\ UNCHANGED <<event_queue, queue_start, queue_len, slotVars, owed>>

Takes(slot, state, evt) ==
  /\ slot_func[slot] = Null
  /\ search_start' \in DataSlot
  /\ slot_func' = [slot_func EXCEPT ![slot] = state]
  /\ slot_data' = [slot_data EXCEPT ![slot] = evt]
  /\ Queue!event_post(slot)
  /\ Accepts(slot, state, evt) \/ Drops

LEMMA ExecOutcomes ==
  ASSUME TypeOK, InRing, NEW state \in State, NEW evt \in Evt \cup {Null},
         exec_state(state, evt)
  PROVE  GivesUp \/ \E slot \in DataSlot : Takes(slot, state, evt)
<1> USE LengthAssumption, QueueAssumption
<1> DEFINE slot == get_available_dataslot
<1>1. CASE slot = Null
  BY <1>1 DEF exec_state, GivesUp
<1>2. CASE slot # Null
  <2>1. /\ search_start' = (search_start + 1) % ST_EVENT_QUEUE_LENGTH
        /\ slot_func' = [slot_func EXCEPT ![slot] = state]
        /\ slot_data' = [slot_data EXCEPT ![slot] = evt]
        /\ Queue!event_post(slot)
        /\ owed' = IF queue_len < EVENT_QUEUE_SIZE
                   THEN Append(owed, [state |-> state, evt |-> evt])
                   ELSE owed
        /\ refused' = (queue_len = EVENT_QUEUE_SIZE)
    BY <1>2 DEF exec_state
  <2>2. slot \in DataSlot /\ slot_func[slot] = Null
    BY <1>2, SearchFindsFree
  <2> HIDE DEF slot
  <2>3. search_start' \in DataSlot
    <3>1. /\ search_start \in 0 .. ST_EVENT_QUEUE_LENGTH - 1
          /\ 1 \in 0 .. ST_EVENT_QUEUE_LENGTH
      BY DEF TypeOK, DataSlot
    <3> QED
      BY <2>1, <3>1, WrapOnce DEF DataSlot
  <2>4. /\ EVENT_QUEUE_SIZE \in Nat \ {0}
        /\ queue_start \in 0 .. EVENT_QUEUE_SIZE - 1
        /\ queue_len \in 0 .. EVENT_QUEUE_SIZE
        /\ event_queue \in [0 .. EVENT_QUEUE_SIZE - 1 -> DataSlot \cup {Null}]
    BY DEF TypeOK, Queue!TypeOK, Queue!Slot
  <2>5. CASE queue_len < EVENT_QUEUE_SIZE
    <3>1. /\ queue_start' = queue_start
          /\ queue_len' = queue_len + 1
          /\ event_queue' = [event_queue EXCEPT
               ![(queue_start + queue_len) % EVENT_QUEUE_SIZE] = slot]
      BY <2>1, <2>5 DEF Queue!event_post
    <3>2. queue_len \in 0 .. EVENT_QUEUE_SIZE - 1 /\ slot \in DataSlot \cup {Null}
      BY <2>2, <2>4, <2>5
    <3>3. /\ event_queue' \in [0 .. EVENT_QUEUE_SIZE - 1 -> DataSlot \cup {Null}]
          /\ \A i \in 1 .. queue_len + 1 :
               event_queue'[(queue_start + (i - 1)) % EVENT_QUEUE_SIZE] \in DataSlot
          /\ RingEntries(event_queue', queue_start, queue_len + 1, EVENT_QUEUE_SIZE)
               = Append(RingEntries(event_queue, queue_start, queue_len,
                                    EVENT_QUEUE_SIZE), slot)
      <4>1. \A i \in 1 .. queue_len :
              event_queue[(queue_start + (i - 1)) % EVENT_QUEUE_SIZE] \in DataSlot
        BY DEF InRing
      <4>2. WriteAppended(event_queue, queue_start, queue_len, EVENT_QUEUE_SIZE,
                          DataSlot \cup {Null}, DataSlot, slot)
        BY <2>2, <2>4, <3>2, <4>1, WriteAppends
      <4> QED
        BY <3>1, <4>2 DEF WriteAppended
    <3>4. InRing'
      BY <3>1, <3>3 DEF InRing
    <3>5. W' = Append(W, slot)
      BY <3>1, <3>3 DEF W, Queue!Waiting, RingEntries
    <3>6. refused' = FALSE
      <4>1. queue_len # EVENT_QUEUE_SIZE
        BY <2>4, <2>5
      <4> QED
        BY <2>1, <4>1
    <3>7. Accepts(slot, state, evt)
      BY <2>1, <2>5, <3>1, <3>3, <3>4, <3>5, <3>6 DEF Accepts, Queue!Slot
    <3> QED
      BY <2>1, <2>2, <2>3, <3>7 DEF Takes
  <2>6. CASE ~(queue_len < EVENT_QUEUE_SIZE)
    <3>1. queue_len = EVENT_QUEUE_SIZE
      BY <2>4, <2>6
    <3>2. Drops
      BY <2>1, <2>6, <3>1 DEF Queue!event_post, Drops
    <3> QED
      BY <2>1, <2>2, <2>3, <3>2 DEF Takes
  <2> QED
    BY <2>5, <2>6
<1> QED
  BY <1>1, <1>2

-----------------------------------------------------------------------------
(***************************************************************************)
(* exec_state preserves the invariant, wherever main is, and whatever part *)
(* of it is named.                                                         *)
(***************************************************************************)

\* A caller of exec_state: it makes the state active; step moves only in
\* first_init.
Calls(state, evt) ==
  /\ exec_state(state, evt)
  /\ active_state' = state
  /\ UNCHANGED <<main, current, first_transition, executed>>
  /\ step \notin {"reset"}
  /\ step' = step \/ (step = "setup" /\ step' = "idle")

\* An accepted slot comes behind the others in what is still to be called.
LEMMA AcceptedIsAppended ==
  ASSUME IInv, NEW slot \in DataSlot, NEW state, NEW evt,
         Accepts(slot, state, evt), main' = main,
         step' = step \/ (step = "setup" /\ step' = "idle")
  PROVE  /\ PostedSlots' = Append(PostedSlots, slot)
         /\ Uncalled' = Append(Uncalled, slot)
<1>1. W' = Append(W, slot)
  BY DEF Accepts
<1>2. /\ W \in Seq(DataSlot)
      /\ main \in {"handler", "remove"} => W # <<>> /\ PostedSlots = Tail(W)
      /\ main \notin {"handler", "remove"} => PostedSlots = W
      /\ Uncalled = IF step = "call" THEN W ELSE PostedSlots
  BY PostedIsWaiting
<1>3. W # <<>> => Tail(Append(W, slot)) = Append(Tail(W), slot)
  BY <1>2
<1>4. PostedSlots' = IF main' \in {"handler", "remove"} THEN Tail(W') ELSE W'
  BY DEF PostedSlots, W
<1>5. PostedSlots' = Append(PostedSlots, slot)
  BY <1>1, <1>2, <1>3, <1>4
<1>6. Uncalled' = IF step' = "call" THEN W' ELSE PostedSlots'
  BY DEF Uncalled, W
<1> QED
  BY <1>1, <1>2, <1>5, <1>6

LEMMA AcceptedKeepsOwed ==
  ASSUME IInv, NEW slot \in DataSlot, slot_func[slot] = Null,
         NEW state \in State, NEW evt \in Evt \cup {Null},
         slot_func' = [slot_func EXCEPT ![slot] = state],
         slot_data' = [slot_data EXCEPT ![slot] = evt],
         owed' = Append(owed, [state |-> state, evt |-> evt]),
         Uncalled' = Append(Uncalled, slot)
  PROVE  SlotsHoldWhatIsOwed'
<1> DEFINE n == Len(owed)
           new == [state |-> state, evt |-> evt]
<1>1. /\ Uncalled \in Seq(DataSlot) /\ Len(Uncalled) = n
      /\ owed \in Seq([state : State, evt : Evt \cup {Null}])
      /\ slot_func \in [DataSlot -> State \cup {Null}]
      /\ slot_data \in [DataSlot -> Evt \cup {Null}]
  BY PostedIsWaiting DEF IInv, SlotsHoldWhatIsOwed, TypeOK
<1>2. n \in Nat /\ new \in [state : State, evt : Evt \cup {Null}]
  BY <1>1
<1>3. \A i \in 1 .. n : owed[i] \in [state : State, evt : Evt \cup {Null}]
  BY <1>1, ElementOfSeq
<1>4. \A i \in 1 .. n : Uncalled[i] \in DataSlot /\ Uncalled[i] # slot
  <2>1. TAKE i \in 1 .. n
  <2>2. Uncalled[i] \in DataSlot
    BY <1>1
  <2>3. slot_func[Uncalled[i]] = owed[i].state /\ owed[i].state \in State
    BY <1>3 DEF IInv, SlotsHoldWhatIsOwed
  <2> QED
    BY <2>2, <2>3, NullAssumption
<1>5. /\ Len(Uncalled') = n + 1 /\ Len(owed') = n + 1
      /\ Uncalled'[n + 1] = slot /\ owed'[n + 1] = new
      /\ \A i \in 1 .. n : Uncalled'[i] = Uncalled[i] /\ owed'[i] = owed[i]
  BY <1>1, <1>2
<1> HIDE DEF n, new
<1>6. \A i \in 1 .. n + 1 : i = n + 1 \/ i \in 1 .. n
  BY <1>2
<1>7. \A i, j \in 1 .. n + 1 : Uncalled'[i] = Uncalled'[j] => i = j
  <2>1. \A i, j \in 1 .. n : Uncalled[i] = Uncalled[j] => i = j
    BY DEF IInv, SlotsHoldWhatIsOwed, n
  <2> QED
    BY <1>4, <1>5, <1>6, <2>1
<1>8. ASSUME NEW i \in 1 .. n + 1
      PROVE  /\ slot_func'[Uncalled'[i]] = owed'[i].state
             /\ slot_data'[Uncalled'[i]] \in {owed'[i].evt, Null}
  <2>1. CASE i = n + 1
    BY <1>1, <1>5, <2>1 DEF new
  <2>2. CASE i \in 1 .. n
    <3>1. /\ slot_func[Uncalled[i]] = owed[i].state
          /\ slot_data[Uncalled[i]] \in {owed[i].evt, Null}
      BY <2>2 DEF IInv, SlotsHoldWhatIsOwed, n
    <3> QED
      BY <1>1, <1>4, <1>5, <2>2, <3>1
  <2> QED
    BY <1>6, <2>1, <2>2
<1> QED
  BY <1>5, <1>7, <1>8 DEF SlotsHoldWhatIsOwed

\* A slot that the full event queue drops is not one that waits.
LEMMA DroppedKeepsOwed ==
  ASSUME IInv, NEW slot \in DataSlot, slot_func[slot] = Null,
         NEW state \in State, NEW evt \in Evt \cup {Null},
         slot_func' = [slot_func EXCEPT ![slot] = state],
         slot_data' = [slot_data EXCEPT ![slot] = evt],
         owed' = owed, Uncalled' = Uncalled
  PROVE  SlotsHoldWhatIsOwed'
<1>1. /\ Uncalled \in Seq(DataSlot) /\ Len(Uncalled) = Len(owed)
      /\ owed \in Seq([state : State, evt : Evt \cup {Null}])
      /\ slot_func \in [DataSlot -> State \cup {Null}]
      /\ slot_data \in [DataSlot -> Evt \cup {Null}]
  BY PostedIsWaiting DEF IInv, SlotsHoldWhatIsOwed, TypeOK
<1>2. ASSUME NEW i \in 1 .. Len(owed)
      PROVE  /\ slot_func'[Uncalled'[i]] = owed'[i].state
             /\ slot_data'[Uncalled'[i]] \in {owed'[i].evt, Null}
  <2>1. Uncalled[i] \in DataSlot
    BY <1>1
  <2>2. /\ slot_func[Uncalled[i]] = owed[i].state /\ owed[i].state \in State
        /\ slot_data[Uncalled[i]] \in {owed[i].evt, Null}
    <3>1. owed[i] \in [state : State, evt : Evt \cup {Null}]
      BY <1>1, ElementOfSeq
    <3> QED
      BY <3>1 DEF IInv, SlotsHoldWhatIsOwed
  <2>3. Uncalled[i] # slot
    BY <2>2, NullAssumption
  <2> QED
    BY <1>1, <2>1, <2>2, <2>3
<1> QED
  BY <1>1, <1>2 DEF IInv, SlotsHoldWhatIsOwed

LEMMA RunningIsSlot ==
  ASSUME IInv, main = "handler"
  PROVE  current \in DataSlot /\ current = W[1] /\ W # <<>>
<1>1. /\ W \in Seq(DataSlot) /\ Len(W) = queue_len
      /\ queue_len > 0 => W[1] = event_queue[queue_start]
  BY WaitingSlots DEF IInv, WaitingFacts
<1>2. queue_len > 0 /\ current = event_queue[queue_start]
  BY DEF IInv, Phases
<1>3. W[1] \in DataSlot
  BY <1>1, <1>2
<1> QED
  BY <1>1, <1>2, <1>3

LEMMA ExecPreserves ==
  ASSUME IInv, NEW state \in State, NEW evt \in Evt \cup {Null},
         Calls(state, evt)
  PROVE  IInv'
<1> USE LengthAssumption, QueueAssumption, NullAssumption
<1> USE DEF Calls
<1>t. TypeOK /\ Phases /\ InRing /\ RunningHeld /\ SlotsHoldWhatIsOwed
  BY DEF IInv
<1>o. /\ owed \in Seq([state : State, evt : Evt \cup {Null}])
      /\ slot_func \in [DataSlot -> State \cup {Null}]
      /\ slot_data \in [DataSlot -> Evt \cup {Null}]
      /\ queue_len \in 0 .. EVENT_QUEUE_SIZE
  BY <1>t DEF TypeOK, Queue!TypeOK
<1>m. main # "boot" /\ (step' = "call" <=> step = "call")
      /\ (step' = "clear_func" <=> step = "clear_func")
  BY <1>t DEF Phases
<1>c. step \in {"call", "clear_func"} =>
        current \in DataSlot /\ slot_func[current] # Null
  BY <1>t, RunningIsSlot DEF Phases, RunningHeld
<1>1. CASE GivesUp
  <2> USE <1>1 DEF GivesUp
  <2>1. TypeOK'
    BY <1>t, <1>1 DEF TypeOK, Queue!TypeOK, slotVars
  <2>2. PostedSlots' = PostedSlots /\ Uncalled' = Uncalled
    BY <1>1, <1>m DEF PostedSlots, Uncalled, Queue!Waiting
  <2>3. Phases' /\ InRing' /\ RunningHeld' /\ SlotsHoldWhatIsOwed'
    BY <1>t, <1>1, <2>2
    DEF Phases, InRing, RunningHeld, SlotsHoldWhatIsOwed, slotVars
  <2> QED
    BY <1>1, <2>1, <2>3 DEF IInv, ActiveStateExecuted
<1>2. ASSUME NEW slot \in DataSlot, Takes(slot, state, evt) PROVE IInv'
  <2>0. /\ slot_func[slot] = Null
        /\ search_start' \in DataSlot
        /\ slot_func' = [slot_func EXCEPT ![slot] = state]
        /\ slot_data' = [slot_data EXCEPT ![slot] = evt]
        /\ Accepts(slot, state, evt) \/ Drops
    BY <1>2 DEF Takes
  <2>1. /\ slot_func' \in [DataSlot -> State \cup {Null}]
        /\ slot_data' \in [DataSlot -> Evt \cup {Null}]
    BY <1>o, <2>0
  <2>2. step \in {"call", "clear_func"} =>
          slot # current /\ slot_func'[current] = slot_func[current]
    BY <1>c, <1>o, <2>0
  <2>3. CASE Accepts(slot, state, evt)
    <3>1. PostedSlots' = Append(PostedSlots, slot)
          /\ Uncalled' = Append(Uncalled, slot)
      BY <2>3, AcceptedIsAppended
    <3>2. SlotsHoldWhatIsOwed'
      BY <2>0, <2>3, <3>1, AcceptedKeepsOwed DEF Accepts
    <3>3. owed' \in Seq([state : State, evt : Evt \cup {Null}])
          /\ Len(owed') = Len(owed) + 1 /\ owed' # <<>>
          /\ owed'[Len(owed')] = [state |-> state, evt |-> evt]
      <4>1. [state |-> state, evt |-> evt] \in [state : State, evt : Evt \cup {Null}]
        OBVIOUS
      <4> QED
        BY <1>o, <2>3, <4>1 DEF Accepts
    <3>4. ActiveStateExecuted'
      BY <3>3 DEF ActiveStateExecuted
    <3>5. TypeOK'
      <4>1. Queue!TypeOK'
        BY <1>t, <1>o, <2>3 DEF Accepts, TypeOK, Queue!TypeOK
      <4> QED
        BY <1>t, <2>0, <2>1, <2>3, <3>3, <4>1 DEF Accepts, TypeOK
    <3>6. InRing'
      BY <2>3 DEF Accepts
    <3>7. Phases'
      <4>1. ASSUME main = "handler" PROVE current' = event_queue'[queue_start']
        <5>1. W \in Seq(DataSlot) /\ current = W[1] /\ W # <<>>
          BY <1>t, <4>1, RunningIsSlot, WaitingSlots DEF WaitingFacts
        <5>2. W'[1] = W[1]
          BY <2>3, <5>1 DEF Accepts
        <5>3. queue_len' > 0
          BY <1>o, <2>3 DEF Accepts
        <5>4. W'[1] = event_queue'[queue_start']
          <6>1. WaitingFacts'
            BY <3>5, <3>6, WaitingSlots, PTL
          <6> QED
            BY <5>3, <6>1 DEF WaitingFacts
        <5> QED
          BY <5>1, <5>2, <5>4
      <4>2. queue_len' > 0
        BY <1>o, <2>3 DEF Accepts
      <4> QED
        BY <1>t, <1>m, <4>1, <4>2 DEF Phases
    <3>8. RunningHeld'
      <4>1. SUFFICES ASSUME step \in {"call", "clear_func"},
                            NEW i \in 1 .. Len(PostedSlots')
                     PROVE  PostedSlots'[i] # current
        BY <1>m, <1>c, <2>2 DEF RunningHeld
      <4>2. PostedSlots \in Seq(DataSlot)
        BY PostedIsWaiting
      <4>3. i \in 1 .. Len(PostedSlots) \/ PostedSlots'[i] = slot
        BY <3>1, <4>2
      <4>4. i \in 1 .. Len(PostedSlots) => PostedSlots'[i] = PostedSlots[i]
        BY <3>1, <4>2
      <4> QED
        BY <1>t, <2>2, <4>1, <4>3, <4>4 DEF RunningHeld
    <3> QED
      BY <3>2, <3>4, <3>5, <3>6, <3>7, <3>8 DEF IInv
  <2>4. CASE Drops
    <3>1. PostedSlots' = PostedSlots /\ Uncalled' = Uncalled
      BY <1>m, <2>4 DEF Drops, PostedSlots, Uncalled, Queue!Waiting
    <3>2. SlotsHoldWhatIsOwed'
      BY <2>0, <2>4, <3>1, DroppedKeepsOwed DEF Drops
    <3>3. TypeOK'
      BY <1>t, <2>0, <2>1, <2>4 DEF Drops, TypeOK, Queue!TypeOK
    <3>4. Phases' /\ InRing'
      BY <1>t, <1>m, <2>4 DEF Drops, Phases, InRing
    <3>5. RunningHeld'
      BY <1>t, <1>m, <2>2, <3>1 DEF RunningHeld
    <3> QED
      BY <2>4, <3>2, <3>3, <3>4, <3>5 DEF IInv, Drops, ActiveStateExecuted
  <2> QED
    BY <2>0, <2>3, <2>4
<1> QED
  <2>1. exec_state(state, evt)
    OBVIOUS
  <2> QED
    BY <1>t, <1>1, <1>2, <2>1, ExecOutcomes

-----------------------------------------------------------------------------
(***************************************************************************)
(* The steps of main and of an alarm.                                      *)
(***************************************************************************)

\* A transition that st_notify_event finds is one that st_add_transition put.
LEMMA NotifyCalls ==
  ASSUME TypeOK, NEW evt \in Evt, AlarmCallback(evt)
  PROVE  \/ \E state \in State : Calls(state, evt)
         \/ UNCHANGED vars
<1> DEFINE matching == {i \in DOMAIN first_transition :
                          Matches(first_transition[i], evt)}
           transition == first_transition[Min(matching)]
<1>1. CASE matching = {}
  BY <1>1 DEF AlarmCallback, st_notify_event, vars, eventVars, chainVars, slotVars
<1>2. CASE matching # {}
  <2>1. first_transition \in Seq(Transition)
    BY DEF TypeOK
  <2>2. DOMAIN first_transition = 1 .. Len(first_transition)
        /\ Len(first_transition) \in Nat
    BY <2>1
  <2>3. matching \in SUBSET Nat
    BY <2>2
  <2>4. Min(matching) \in matching
    BY <1>2, <2>3, LeastElement DEF Min
  <2>5. transition \in Transition
    BY <2>1, <2>2, <2>4, ElementOfSeq
  <2>6. exec_state(transition.to_state, evt) /\ active_state' = transition.to_state
    BY <1>2 DEF AlarmCallback, st_notify_event
  <2>7. Calls(transition.to_state, evt)
    BY <2>6 DEF AlarmCallback, Calls
  <2> QED
    BY <2>5, <2>7 DEF Transition
<1> QED
  BY <1>1, <1>2

LEMMA ResetPreserves == IInv /\ Reset => IInv'
<1> SUFFICES ASSUME IInv, Reset PROVE IInv'
  OBVIOUS
<1> USE LengthAssumption, QueueAssumption
<1>1. /\ queue_start' = 0 /\ queue_len' = 0
      /\ main = "boot" /\ main' = "test" /\ step' = "setup"
      /\ slot_func' = [i \in DataSlot |-> Null]
      /\ slot_data' = [i \in DataSlot |-> Null]
      /\ search_start' = 0
      /\ UNCHANGED <<event_queue, current, chainVars, owed, refused, executed>>
  BY DEF Reset, Queue!EventInit
<1>2. TypeOK'
  BY <1>1 DEF IInv, TypeOK, Queue!TypeOK, Queue!Slot, Queue!MainPoint,
              DataSlot, chainVars
<1>3. InRing' /\ Phases' /\ RunningHeld'
  BY <1>1 DEF IInv, InRing, Phases, RunningHeld
<1>4. Len(owed) = 0
  BY <1>1, PostedIsWaiting DEF IInv, SlotsHoldWhatIsOwed, Phases
<1>5. Len(Uncalled') = 0
  <2>1. Len(W') = 0
    <3>1. WaitingFacts'
      BY <1>2, <1>3, WaitingSlots, PTL
    <3> QED
      BY <1>1, <3>1 DEF WaitingFacts
  <2> QED
    BY <1>1, <2>1 DEF Uncalled, PostedSlots, W
<1>6. SlotsHoldWhatIsOwed'
  BY <1>1, <1>4, <1>5 DEF SlotsHoldWhatIsOwed
<1> QED
  BY <1>1, <1>2, <1>3, <1>6 DEF IInv, ActiveStateExecuted, chainVars

LEMMA CallEventPreserves == IInv /\ CallEvent => IInv'
<1> SUFFICES ASSUME IInv, CallEvent PROVE IInv'
  OBVIOUS
<1>1. /\ main = "call" /\ main' = "handler" /\ step' = "call"
      /\ current' = event_queue[queue_start]
      /\ UNCHANGED <<event_queue, queue_start, queue_len, slotVars, chainVars,
                     owed, refused, executed>>
  BY DEF CallEvent, Queue!CallEvent
<1>2. /\ W \in Seq(DataSlot) /\ Len(W) = queue_len /\ queue_len > 0
      /\ W[1] = event_queue[queue_start]
  BY <1>1, WaitingSlots DEF IInv, WaitingFacts, Phases
<1>3. step # "call" /\ step # "reset" /\ Uncalled = W
  BY <1>1, PostedIsWaiting DEF IInv, Phases
<1>4. W' = W /\ Uncalled' = W /\ PostedSlots' = Tail(W)
  BY <1>1 DEF W, Uncalled, PostedSlots, Queue!Waiting
<1>5. current' \in DataSlot /\ current' = W[1]
  BY <1>1, <1>2
<1>6. TypeOK'
  BY <1>1, <1>5
  DEF IInv, TypeOK, Queue!TypeOK, Queue!MainPoint, slotVars, chainVars
<1>7. Phases' /\ InRing' /\ SlotsHoldWhatIsOwed' /\ ActiveStateExecuted'
  BY <1>1, <1>2, <1>3, <1>4
  DEF IInv, Phases, InRing, SlotsHoldWhatIsOwed, ActiveStateExecuted, slotVars,
      chainVars
<1>8. RunningHeld'
  <2>1. /\ Len(W) = Len(owed)
        /\ \A i, j \in 1 .. Len(owed) : W[i] = W[j] => i = j
        /\ \A i \in 1 .. Len(owed) : slot_func[W[i]] = owed[i].state
    BY <1>3 DEF IInv, SlotsHoldWhatIsOwed
  <2>2. owed \in Seq([state : State, evt : Evt \cup {Null}])
    BY DEF IInv, TypeOK
  <2>3. 1 \in 1 .. Len(owed)
    BY <1>2, <2>1, <2>2
  <2>4. owed[1].state \in State
    <3>1. owed[1] \in [state : State, evt : Evt \cup {Null}]
      BY <2>2, <2>3, ElementOfSeq
    <3> QED
      BY <3>1
  <2>5. slot_func'[current'] # Null
    BY <1>1, <1>5, <2>1, <2>3, <2>4, NullAssumption DEF slotVars
  <2>6. ASSUME NEW i \in 1 .. Len(Tail(W)) PROVE Tail(W)[i] # W[1]
    <3>1. i + 1 \in 1 .. Len(owed) /\ Tail(W)[i] = W[i + 1] /\ i + 1 # 1
      BY <1>2, <2>1
    <3> QED
      BY <2>1, <2>3, <3>1
  <2> QED
    BY <1>4, <1>5, <2>5, <2>6 DEF RunningHeld
<1> QED
  BY <1>6, <1>7, <1>8 DEF IInv

LEMMA CallExecPreserves == IInv /\ CallExec => IInv'
<1> SUFFICES ASSUME IInv, CallExec PROVE IInv'
  OBVIOUS
<1>1. /\ step = "call" /\ step' = "clear_func"
      /\ executed' = slot_func[current] /\ owed' = Tail(owed)
      /\ UNCHANGED <<event_queue, queue_start, queue_len, main, current,
                     slotVars, chainVars, refused>>
  BY DEF CallExec, eventVars
<1>2. main = "handler"
  BY <1>1 DEF IInv, Phases
<1>3. /\ W \in Seq(DataSlot) /\ W # <<>> /\ Uncalled = W
      /\ PostedSlots = Tail(W)
  BY <1>1, <1>2, PostedIsWaiting
<1>4. current = W[1] /\ current \in DataSlot
  BY <1>2, RunningIsSlot
<1>5. PostedSlots' = Tail(W) /\ Uncalled' = Tail(W)
  BY <1>1, <1>3 DEF PostedSlots, Uncalled, Queue!Waiting
<1>6. /\ Len(W) = Len(owed)
      /\ \A i, j \in 1 .. Len(owed) : W[i] = W[j] => i = j
      /\ \A i \in 1 .. Len(owed) :
           /\ slot_func[W[i]] = owed[i].state
           /\ slot_data[W[i]] \in {owed[i].evt, Null}
  BY <1>3 DEF IInv, SlotsHoldWhatIsOwed
<1>7. owed \in Seq([state : State, evt : Evt \cup {Null}]) /\ owed # <<>>
      /\ Len(owed) \in Nat \ {0}
  BY <1>3, <1>6 DEF IInv, TypeOK
<1>8. /\ Len(Tail(W)) = Len(owed) - 1 /\ Len(Tail(owed)) = Len(owed) - 1
      /\ \A i \in 1 .. Len(owed) - 1 :
           /\ i + 1 \in 1 .. Len(owed)
           /\ Tail(W)[i] = W[i + 1] /\ Tail(owed)[i] = owed[i + 1]
  BY <1>3, <1>6, <1>7
<1>9. SlotsHoldWhatIsOwed'
  <2>1. \A i, j \in 1 .. Len(owed) - 1 : Tail(W)[i] = Tail(W)[j] => i = j
    BY <1>6, <1>7, <1>8
  <2>2. \A i \in 1 .. Len(owed) - 1 :
           /\ slot_func[Tail(W)[i]] = Tail(owed)[i].state
           /\ slot_data[Tail(W)[i]] \in {Tail(owed)[i].evt, Null}
    BY <1>6, <1>8
  <2> QED
    BY <1>1, <1>5, <1>8, <2>1, <2>2 DEF SlotsHoldWhatIsOwed, slotVars
<1>10. TypeOK'
  <2>1. Tail(owed) \in Seq([state : State, evt : Evt \cup {Null}])
    BY <1>7
  <2> QED
    BY <1>1, <1>4, <2>1 DEF IInv, TypeOK, Queue!TypeOK, slotVars, chainVars
<1>11. Phases' /\ InRing' /\ RunningHeld'
  BY <1>1, <1>2, <1>3, <1>5
  DEF IInv, Phases, InRing, RunningHeld, slotVars
<1>12. ActiveStateExecuted'
  <2>1. SUFFICES ASSUME ~refused
                 PROVE  active_state = IF Tail(owed) = <<>> THEN slot_func[current]
                                       ELSE Tail(owed)[Len(Tail(owed))].state
    BY <1>1 DEF ActiveStateExecuted, chainVars
  <2>2. active_state = owed[Len(owed)].state
    BY <1>7, <2>1 DEF IInv, ActiveStateExecuted
  <2>3. CASE Tail(owed) = <<>>
    <3>1. Len(owed) = 1
      <4>1. Len(Tail(owed)) = Len(<<>>)
        BY <2>3, Zenon
      <4>2. Len(<<>>) = 0
        OBVIOUS
      <4>3. Len(owed) - 1 = 0
        BY <1>8, <4>1, <4>2
      <4> QED
        BY <1>7, <4>3
    <3> QED
      BY <1>4, <1>6, <2>2, <2>3, <3>1
  <2>4. CASE Tail(owed) # <<>>
    <3>1. Len(owed) - 1 \in 1 .. Len(owed) - 1
      BY <1>7, <1>8, <2>4
    <3>2. Tail(owed)[Len(owed) - 1] = owed[(Len(owed) - 1) + 1]
      BY <1>8, <3>1
    <3> QED
      BY <1>7, <1>8, <2>2, <2>4, <3>2
  <2> QED
    BY <2>3, <2>4
<1> QED
  BY <1>9, <1>10, <1>11, <1>12 DEF IInv

LEMMA ClearFuncPreserves == IInv /\ ClearFunc => IInv'
<1> SUFFICES ASSUME IInv, ClearFunc PROVE IInv'
  OBVIOUS
<1>1. /\ step = "clear_func" /\ step' = "clear_data"
      /\ slot_func' = [slot_func EXCEPT ![current] = Null]
      /\ UNCHANGED <<event_queue, queue_start, queue_len, main, current,
                     slot_data, search_start, chainVars, owed, refused, executed>>
  BY DEF ClearFunc, eventVars
<1>2. main = "handler" /\ step # "call"
  BY <1>1 DEF IInv, Phases
<1>3. current \in DataSlot
  BY <1>2, RunningIsSlot
<1>4. TypeOK'
  BY <1>1, <1>3 DEF IInv, TypeOK, Queue!TypeOK, chainVars
<1>5. Phases' /\ InRing' /\ RunningHeld' /\ ActiveStateExecuted'
  BY <1>1, <1>2
  DEF IInv, Phases, InRing, RunningHeld, ActiveStateExecuted, chainVars
<1>6. /\ Uncalled = PostedSlots /\ PostedSlots \in Seq(DataSlot)
  BY <1>2, PostedIsWaiting
<1>7. Uncalled' = Uncalled
  BY <1>1 DEF Uncalled, PostedSlots, Queue!Waiting
<1>8. SlotsHoldWhatIsOwed'
  <2>1. ASSUME NEW i \in 1 .. Len(owed)
        PROVE  slot_func'[Uncalled[i]] = slot_func[Uncalled[i]]
    <3>1. Len(PostedSlots) = Len(owed)
      BY <1>6 DEF IInv, SlotsHoldWhatIsOwed
    <3>2. PostedSlots[i] # current /\ PostedSlots[i] \in DataSlot
      BY <1>1, <1>6, <3>1 DEF IInv, RunningHeld
    <3> QED
      BY <1>1, <1>6, <3>2 DEF IInv, TypeOK
  <2> QED
    BY <1>1, <1>7, <2>1 DEF IInv, SlotsHoldWhatIsOwed
<1> QED
  BY <1>4, <1>5, <1>8 DEF IInv

LEMMA ClearDataPreserves == IInv /\ ClearData => IInv'
<1> SUFFICES ASSUME IInv, ClearData PROVE IInv'
  OBVIOUS
<1>1. /\ step = "clear_data" /\ step' = "idle"
      /\ slot_data' = [slot_data EXCEPT ![current] = Null]
      /\ main = "handler" /\ main' = "remove" /\ current' = Null
      /\ UNCHANGED <<event_queue, queue_start, queue_len, slot_func,
                     search_start, chainVars, owed, refused, executed>>
  BY DEF ClearData, Queue!HandlerReturns
<1>2. current \in DataSlot
  BY <1>1, RunningIsSlot
<1>3. TypeOK'
  BY <1>1 DEF IInv, TypeOK, Queue!TypeOK, Queue!MainPoint, chainVars
<1>4. Phases' /\ InRing' /\ RunningHeld' /\ ActiveStateExecuted'
  BY <1>1
  DEF IInv, Phases, InRing, RunningHeld, ActiveStateExecuted, chainVars
<1>5. Uncalled = PostedSlots /\ PostedSlots \in Seq(DataSlot)
  BY <1>1, PostedIsWaiting
<1>6. Uncalled' = Uncalled
  BY <1>1, <1>5 DEF Uncalled, PostedSlots, Queue!Waiting
<1>7. SlotsHoldWhatIsOwed'
  <2>1. ASSUME NEW i \in 1 .. Len(owed)
        PROVE  slot_data'[Uncalled[i]] \in {slot_data[Uncalled[i]], Null}
    <3>1. Len(PostedSlots) = Len(owed)
      BY <1>5 DEF IInv, SlotsHoldWhatIsOwed
    <3>2. PostedSlots[i] \in DataSlot
      BY <1>5, <3>1
    <3> QED
      BY <1>1, <1>5, <3>2 DEF IInv, TypeOK
  <2> QED
    BY <1>1, <1>6, <2>1 DEF IInv, SlotsHoldWhatIsOwed
<1> QED
  BY <1>3, <1>4, <1>7 DEF IInv

\* What queue_remove takes is the entry whose func has been called.
LEMMA RemoveDropsHead ==
  ASSUME IInv, RemoveEvent
  PROVE  W' = Tail(W) /\ InRing' /\ queue_start' \in Queue!Slot
<1> USE QueueAssumption, LengthAssumption
<1>1. /\ main = "remove" /\ queue_len' = queue_len - 1
      /\ queue_start' = (queue_start + 1) % EVENT_QUEUE_SIZE
      /\ event_queue' = event_queue
  BY DEF RemoveEvent, Queue!RemoveEvent, Queue!queue_remove
<1>2. /\ EVENT_QUEUE_SIZE \in Nat \ {0}
      /\ queue_start \in 0 .. EVENT_QUEUE_SIZE - 1
      /\ queue_len \in 1 .. EVENT_QUEUE_SIZE
  BY <1>1 DEF IInv, TypeOK, Queue!TypeOK, Queue!Slot, Phases
<1>3. \A i \in 1 .. queue_len :
        event_queue[(queue_start + (i - 1)) % EVENT_QUEUE_SIZE] \in DataSlot
  BY DEF IInv, InRing
<1>4. HeadDropped(event_queue, queue_start, queue_len, EVENT_QUEUE_SIZE, DataSlot)
  BY <1>2, <1>3, AdvanceDropsHead
<1>5. W = RingEntries(event_queue, queue_start, queue_len, EVENT_QUEUE_SIZE)
  BY DEF W, Queue!Waiting, RingEntries
<1>6. W' = RingEntries(event_queue', queue_start', queue_len', EVENT_QUEUE_SIZE)
  BY DEF W, Queue!Waiting, RingEntries
<1> QED
  BY <1>1, <1>4, <1>5, <1>6 DEF HeadDropped, InRing, Queue!Slot

LEMMA RemovePreserves == IInv /\ RemoveEvent => IInv'
<1> SUFFICES ASSUME IInv, RemoveEvent PROVE IInv'
  OBVIOUS
<1>1. /\ main = "remove" /\ main' = "test" /\ queue_len' = queue_len - 1
      /\ UNCHANGED <<event_queue, current, slotVars, chainVars, step, owed,
                     refused, executed>>
  BY DEF RemoveEvent, Queue!RemoveEvent, Queue!queue_remove
<1>2. W' = Tail(W) /\ InRing' /\ queue_start' \in Queue!Slot
  BY RemoveDropsHead
<1>3. /\ step \notin {"reset", "call", "clear_func", "clear_data"}
      /\ queue_len > 0
  BY <1>1 DEF IInv, Phases
<1>4. TypeOK'
  BY <1>1, <1>2, <1>3, QueueAssumption
  DEF IInv, TypeOK, Queue!TypeOK, Queue!MainPoint, slotVars, chainVars
<1>5. PostedSlots = Tail(W) /\ Uncalled = Tail(W)
  BY <1>1, <1>3, PostedIsWaiting
<1>6. Uncalled' = Tail(W)
  BY <1>1, <1>2, <1>3 DEF Uncalled, PostedSlots, W
<1>7. SlotsHoldWhatIsOwed'
  BY <1>1, <1>5, <1>6 DEF IInv, SlotsHoldWhatIsOwed, slotVars
<1>8. Phases' /\ RunningHeld' /\ ActiveStateExecuted'
  BY <1>1, <1>3
  DEF IInv, Phases, RunningHeld, ActiveStateExecuted, chainVars
<1> QED
  BY <1>2, <1>4, <1>7, <1>8 DEF IInv

\* Steps that move only main, and not into or out of the call.
LEMMA LoopPreserves ==
  ASSUME IInv, TestQueue \/ LPM0 \/ UNCHANGED vars \/ AddTransition
  PROVE  IInv'
<1>1. /\ UNCHANGED <<event_queue, queue_start, queue_len, current, slotVars,
                     active_state, step, owed, refused, executed>>
      /\ \/ main' = main
         \/ main = "test" /\ step = "idle" /\ queue_len # 0 /\ main' = "call"
         \/ main = "test" /\ step = "idle" /\ main' = "sleep"
         \/ main = "sleep" /\ main' = "test"
  BY DEF TestQueue, LPM0, AddTransition, Queue!TestQueue, Queue!LPM0, vars,
         eventVars, chainVars, slotVars
<1>2. first_transition' \in Seq(Transition)
  <2>1. CASE AddTransition
    <3>1. /\ first_transition \in Seq(Transition)
          /\ Transitions \in Seq(Transition)
          /\ Len(first_transition) + 1 \in 1 .. Len(Transitions)
      BY <2>1, ChainAssumption DEF IInv, TypeOK, AddTransition
    <3>2. Transitions[Len(first_transition) + 1] \in Transition
      BY <3>1, ElementOfSeq
    <3> QED
      BY <2>1, <3>1, <3>2 DEF AddTransition, st_add_transition
  <2>2. CASE UNCHANGED first_transition
    BY <2>2 DEF IInv, TypeOK
  <2> QED
    BY <2>1, <2>2 DEF TestQueue, LPM0, vars, chainVars
<1>3. TypeOK'
  BY <1>1, <1>2 DEF IInv, TypeOK, Queue!TypeOK, Queue!MainPoint, slotVars
<1>4. PostedSlots' = PostedSlots /\ Uncalled' = Uncalled
  BY <1>1 DEF PostedSlots, Uncalled, Queue!Waiting
<1>5. Phases'
  <2>1. queue_len \in Nat
    BY QueueAssumption DEF IInv, TypeOK, Queue!TypeOK
  <2> QED
    BY <1>1, <2>1 DEF IInv, Phases, slotVars
<1>6. InRing' /\ RunningHeld' /\ SlotsHoldWhatIsOwed' /\ ActiveStateExecuted'
  BY <1>1, <1>4
  DEF IInv, InRing, RunningHeld, SlotsHoldWhatIsOwed, ActiveStateExecuted, slotVars
<1> QED
  BY <1>3, <1>5, <1>6 DEF IInv

\* first_init makes its first state active before anything interrupts it.
LEMMA FirstInitCalls ==
  ASSUME IInv, FirstInit
  PROVE  Calls(FirstState, Null)
BY DEF IInv, Phases, FirstInit, st_set_active_state, Calls

LEMMA NextIInv == IInv /\ [Next]_vars => IInv'
<1> SUFFICES ASSUME IInv, [Next]_vars PROVE IInv'
  OBVIOUS
<1>1. CASE Reset
  BY <1>1, ResetPreserves
<1>2. CASE FirstInit
  BY <1>2, FirstInitCalls, ExecPreserves, ChainAssumption
<1>3. CASE TestQueue \/ LPM0 \/ AddTransition \/ UNCHANGED vars
  BY <1>3, LoopPreserves
<1>4. CASE CallEvent
  BY <1>4, CallEventPreserves
<1>5. CASE CallExec
  BY <1>5, CallExecPreserves
<1>6. CASE ClearFunc
  BY <1>6, ClearFuncPreserves
<1>7. CASE ClearData
  BY <1>7, ClearDataPreserves
<1>8. CASE RemoveEvent
  BY <1>8, RemovePreserves
<1>9. ASSUME NEW evt \in Evt, AlarmCallback(evt)
      PROVE  IInv'
  <2>1. TypeOK
    BY DEF IInv
  <2>2. CASE UNCHANGED vars
    BY <2>2, LoopPreserves
  <2>3. ASSUME NEW state \in State, Calls(state, evt) PROVE IInv'
    BY <2>3, ExecPreserves
  <2> QED
    BY <1>9, <2>1, <2>2, <2>3, NotifyCalls
<1> QED
  BY <1>1, <1>2, <1>3, <1>4, <1>5, <1>6, <1>7, <1>8, <1>9 DEF Next, Main

\* For every chain, every queue size and alarms at any point: the active state
\* is the last one executed or accepted, unless the last was given up.
THEOREM ActiveStateIsExecuted == Spec => []ActiveStateExecuted
<1>1. IInv => ActiveStateExecuted
  BY DEF IInv
<1> QED
  BY <1>1, InitIInv, NextIInv, PTL DEF Spec

-----------------------------------------------------------------------------
(***************************************************************************)
(* The service for states.  SlotsHoldWhatIsOwed makes of the states that   *)
(* are held those that are owed, behind the one that has run; beyond the   *)
(* invariant above, this needs that the slot exec_func is at holds the     *)
(* state it called until ClearFunc (RunningKept).                          *)
(***************************************************************************)
RunningKept == step = "clear_func" => executed = slot_func[current]

StatesOf(s) == [i \in 1 .. Len(s) |-> s[i].state]

\* The oldest entry is that of a state that has been called.
Called == step \in {"clear_func", "clear_data"} \/ main = "remove"

HeldFacts ==
  /\ Held = IF Called THEN <<executed>> \o StatesOf(owed) ELSE StatesOf(owed)
  /\ StatesOf(owed) \in Seq(State)
  /\ Len(StatesOf(owed)) = IF Called THEN queue_len - 1 ELSE queue_len
  /\ step = "call" => owed # <<>>
  /\ step = "clear_func" => executed # Null

LEMMA StatesAppended ==
  ASSUME NEW s \in Seq([state : State, evt : Evt \cup {Null}]),
         NEW state \in State, NEW evt \in Evt \cup {Null}
  PROVE  /\ StatesOf(s) \in Seq(State)
         /\ StatesOf(Append(s, [state |-> state, evt |-> evt])) = Append(StatesOf(s), state)
<1> DEFINE e == [state |-> state, evt |-> evt]
           t == StatesOf(Append(s, e))
           u == Append(StatesOf(s), state)
<1>1. Len(s) \in Nat /\ \A i \in 1 .. Len(s) : s[i].state \in State
  <2>1. \A i \in 1 .. Len(s) : s[i] \in [state : State, evt : Evt \cup {Null}]
    BY ElementOfSeq
  <2> QED
    BY <2>1
<1>2. StatesOf(s) \in Seq(State) /\ Len(StatesOf(s)) = Len(s)
  BY <1>1 DEF StatesOf
<1>3. e \in [state : State, evt : Evt \cup {Null}] /\ e.state = state
  OBVIOUS
<1>4. /\ Append(s, e) \in Seq([state : State, evt : Evt \cup {Null}])
      /\ Len(Append(s, e)) = Len(s) + 1
      /\ \A i \in 1 .. Len(s) : Append(s, e)[i] = s[i]
      /\ Append(s, e)[Len(s) + 1] = e
  BY <1>1, <1>3
<1>5. t \in Seq(State) /\ Len(t) = Len(s) + 1
  BY <1>1, <1>3, <1>4 DEF StatesOf
<1>6. u \in Seq(State) /\ Len(u) = Len(s) + 1
  BY <1>1, <1>2
<1>7. \A i \in 1 .. Len(s) + 1 : t[i] = u[i]
  <2>1. TAKE i \in 1 .. Len(s) + 1
  <2>2. t[i] = Append(s, e)[i].state
    BY <1>1, <1>4 DEF StatesOf
  <2>3. CASE i = Len(s) + 1
    BY <1>2, <1>3, <1>4, <2>2, <2>3
  <2>4. CASE i \in 1 .. Len(s)
    <3>1. u[i] = StatesOf(s)[i]
      BY <1>2, <2>4
    <3>2. StatesOf(s)[i] = s[i].state
      BY <2>4 DEF StatesOf
    <3> QED
      BY <1>4, <2>2, <2>4, <3>1, <3>2
  <2>5. i = Len(s) + 1 \/ i \in 1 .. Len(s)
    BY <1>1
  <2> QED
    BY <2>3, <2>4, <2>5
<1> HIDE DEF t, u
<1>8. t = u
  BY <1>1, <1>5, <1>6, <1>7, SeqEqual
<1> QED
  BY <1>2, <1>8 DEF t, u

LEMMA StatesOfTail ==
  ASSUME NEW s \in Seq([state : State, evt : Evt \cup {Null}]), s # <<>>
  PROVE  /\ s[1].state \in State
         /\ StatesOf(s) = <<s[1].state>> \o StatesOf(Tail(s))
<1> DEFINE t == StatesOf(s)
           u == <<s[1].state>> \o StatesOf(Tail(s))
<1>1. Len(s) \in Nat \ {0} /\ \A i \in 1 .. Len(s) : s[i].state \in State
  <2>1. \A i \in 1 .. Len(s) : s[i] \in [state : State, evt : Evt \cup {Null}]
    BY ElementOfSeq
  <2> QED
    BY <2>1
<1>2. /\ Len(Tail(s)) = Len(s) - 1
      /\ \A i \in 1 .. Len(s) - 1 : Tail(s)[i] = s[i + 1] /\ i + 1 \in 1 .. Len(s)
  BY <1>1
<1>3. StatesOf(Tail(s)) \in Seq(State) /\ Len(StatesOf(Tail(s))) = Len(s) - 1
  BY <1>1, <1>2 DEF StatesOf
<1>4. t \in Seq(State) /\ Len(t) = Len(s)
  BY <1>1 DEF StatesOf
<1>5. s[1].state \in State
  BY <1>1
<1>6. u \in Seq(State) /\ Len(u) = Len(s)
  BY <1>1, <1>3, <1>5
<1>7. \A i \in 1 .. Len(s) : t[i] = u[i]
  <2>1. TAKE i \in 1 .. Len(s)
  <2>2. t[i] = s[i].state
    BY DEF StatesOf
  <2>3. CASE i = 1
    BY <1>3, <1>5, <2>2, <2>3
  <2>4. CASE i # 1
    <3>1. i - 1 \in 1 .. Len(s) - 1
      BY <1>1, <2>4
    <3>2. u[i] = StatesOf(Tail(s))[i - 1]
      BY <1>1, <1>3, <1>5, <2>4, <3>1
    <3>3. StatesOf(Tail(s))[i - 1] = s[i].state
      BY <1>1, <1>2, <3>1 DEF StatesOf
    <3> QED
      BY <2>2, <3>2, <3>3
  <2> QED
    BY <2>3, <2>4
<1> HIDE DEF t, u
<1>8. t = u
  BY <1>1, <1>4, <1>6, <1>7, SeqEqual
<1> QED
  BY <1>5, <1>8 DEF t, u

LEMMA HeldIs == IInv /\ RunningKept => HeldFacts
<1> SUFFICES ASSUME IInv, RunningKept PROVE HeldFacts
  OBVIOUS
<1> DEFINE s == StatesOf(owed)
           h == IF Called THEN <<executed>> \o s ELSE s
<1>1. /\ W \in Seq(DataSlot) /\ Len(W) = queue_len /\ queue_len \in Nat
      /\ main \in {"handler", "remove"} => W # <<>> /\ PostedSlots = Tail(W)
      /\ main \notin {"handler", "remove"} => PostedSlots = W
      /\ Uncalled = IF step = "call" THEN W ELSE PostedSlots
  <2>1. queue_len \in Nat
    BY QueueAssumption DEF IInv, TypeOK, Queue!TypeOK
  <2> QED
    BY <2>1, PostedIsWaiting
<1>2. /\ Len(Uncalled) = Len(owed)
      /\ \A i \in 1 .. Len(owed) : slot_func[Uncalled[i]] = owed[i].state
  BY DEF IInv, SlotsHoldWhatIsOwed
<1>3. /\ main = "handler" <=> step \in {"call", "clear_func", "clear_data"}
      /\ main = "handler" => queue_len > 0
  BY DEF IInv, Phases
<1>4. /\ owed \in Seq([state : State, evt : Evt \cup {Null}]) /\ Len(owed) \in Nat
      /\ \A i \in 1 .. Len(owed) : owed[i].state \in State
  <2>1. owed \in Seq([state : State, evt : Evt \cup {Null}])
    BY DEF IInv, TypeOK
  <2>2. \A i \in 1 .. Len(owed) : owed[i] \in [state : State, evt : Evt \cup {Null}]
    BY <2>1, ElementOfSeq
  <2> QED
    BY <2>1, <2>2
<1>5. s \in Seq(State) /\ Len(s) = Len(owed) /\ \A i \in 1 .. Len(owed) : s[i] = owed[i].state
  BY <1>4 DEF StatesOf
<1>6. executed \in State \cup {Null}
  BY DEF IInv, TypeOK
<1>7. step = "clear_func" => executed = slot_func[W[1]] /\ executed # Null
  <2>1. step = "clear_func" => current = W[1]
    BY <1>3, RunningIsSlot
  <2> QED
    BY <2>1 DEF IInv, RunningHeld, RunningKept
<1>8. CASE Called
  <2>1. main \in {"handler", "remove"} /\ step # "call"
    BY <1>3, <1>8 DEF Called
  <2>2. W # <<>> /\ Uncalled = Tail(W)
    BY <1>1, <2>1
  <2>3. queue_len \in Nat \ {0} /\ Len(owed) = queue_len - 1
        /\ \A i \in 1 .. Len(owed) : Uncalled[i] = W[i + 1]
    BY <1>1, <1>2, <2>2
  <2>4. Held = [i \in 1 .. queue_len |-> IF i = 1 THEN executed ELSE slot_func[W[i]]]
    BY <1>7, <1>8 DEF Held, HasRun, W, Called
  <2>5. \A i \in 2 .. queue_len : slot_func[W[i]] = owed[i - 1].state /\ i - 1 \in 1 .. Len(owed)
    <3>1. TAKE i \in 2 .. queue_len
    <3>2. i - 1 \in 1 .. Len(owed) /\ (i - 1) + 1 = i
      BY <2>3
    <3>3. Uncalled[i - 1] = W[i]
      BY <2>3, <3>2
    <3> QED
      BY <1>2, <3>2, <3>3
  <2>6. Held \in Seq(State \cup {Null}) /\ Len(Held) = queue_len
    BY <1>4, <1>6, <2>3, <2>4, <2>5
  <2>7. h = <<executed>> \o s
    BY <1>8
  <2>8. h \in Seq(State \cup {Null}) /\ Len(h) = queue_len
    <3>1. s \in Seq(State \cup {Null})
      BY <1>4 DEF StatesOf
    <3>2. <<executed>> \in Seq(State \cup {Null}) /\ Len(<<executed>>) = 1
      BY <1>6
    <3> HIDE DEF s, h
    <3> QED
      BY <1>5, <2>3, <2>7, <3>1, <3>2
  <2>9. \A i \in 1 .. queue_len : Held[i] = h[i]
    <3>1. TAKE i \in 1 .. queue_len
    <3>2. CASE i = 1
      BY <1>5, <1>6, <2>3, <2>4, <2>7, <3>2
    <3>3. CASE i # 1
      <4>1. i \in 2 .. queue_len /\ i - 1 \in 1 .. Len(owed)
        BY <2>3, <3>3
      <4>2. h[i] = s[i - 1]
        BY <1>5, <1>6, <2>7, <4>1
      <4>3. Held[i] = owed[i - 1].state
        BY <2>4, <2>5, <3>3, <4>1
      <4> QED
        BY <1>5, <4>1, <4>2, <4>3
    <3> QED
      BY <3>2, <3>3
  <2> HIDE DEF h
  <2>10. Held = h
    BY <1>1, <2>6, <2>8, <2>9, SeqEqual
  <2> QED
    BY <1>5, <1>7, <1>8, <2>1, <2>3, <2>7, <2>10 DEF HeldFacts, s
<1>9. CASE ~Called
  <2>1. Uncalled = W /\ (main = "handler" => step = "call")
    BY <1>1, <1>3, <1>9 DEF Called
  <2>2. Held = [i \in 1 .. queue_len |-> slot_func[W[i]]]
    BY <1>9 DEF Held, HasRun, W, Called
  <2>3. Len(owed) = queue_len
    BY <1>1, <1>2, <2>1
  <2>4. Held \in Seq(State) /\ Len(Held) = queue_len /\ \A i \in 1 .. queue_len : Held[i] = s[i]
    <3>1. \A i \in 1 .. queue_len : slot_func[W[i]] = owed[i].state /\ owed[i].state \in State
      BY <1>2, <1>4, <2>1, <2>3
    <3> HIDE DEF s
    <3>2. \A i \in 1 .. queue_len : Held[i] = owed[i].state /\ Held[i] \in State
      BY <2>2, <3>1
    <3>3. Held = [i \in 1 .. queue_len |-> Held[i]]
      BY <2>2
    <3>4. Held \in [1 .. queue_len -> State]
      BY <3>2, <3>3
    <3>5. Held \in Seq(State) /\ Len(Held) = queue_len
      BY <1>1, <3>4
    <3> QED
      BY <1>5, <2>3, <3>2, <3>5
  <2> HIDE DEF s
  <2>5. Held = s
    BY <1>1, <1>5, <2>3, <2>4, SeqEqual
  <2>6. step = "call" => owed # <<>>
    BY <1>3, <1>4, <2>3
  <2> QED
    BY <1>5, <1>7, <1>9, <2>3, <2>5, <2>6 DEF HeldFacts, s, Called
<1> QED
  BY <1>8, <1>9

\* No alarm takes the slot of the state that is being executed.
LEMMA RunningStays ==
  ASSUME IInv, RunningKept, [Next]_vars
  PROVE  RunningKept'
<1>1. ASSUME NEW state, NEW evt, Calls(state, evt), step = "clear_func",
             GivesUp \/ \E slot \in DataSlot : Takes(slot, state, evt)
      PROVE  executed' = slot_func'[current']
  <2>1. /\ executed = slot_func[current] /\ slot_func[current] # Null
        /\ executed' = executed /\ current' = current
        /\ slot_func \in [DataSlot -> State \cup {Null}]
    BY <1>1 DEF IInv, RunningHeld, RunningKept, Calls, TypeOK
  <2>2. CASE GivesUp
    BY <2>1, <2>2 DEF GivesUp, slotVars
  <2>3. ASSUME NEW slot \in DataSlot, Takes(slot, state, evt)
        PROVE  slot_func'[current] = slot_func[current]
    BY <2>1, <2>3 DEF Takes
  <2> QED
    BY <1>1, <2>1, <2>2, <2>3
<1>2. ASSUME NEW evt \in Evt, AlarmCallback(evt) PROVE RunningKept'
  <2>1. CASE UNCHANGED vars
    BY <2>1 DEF RunningKept, vars, eventVars, slotVars
  <2>2. ASSUME NEW state \in State, Calls(state, evt) PROVE RunningKept'
    <3>1. GivesUp \/ \E slot \in DataSlot : Takes(slot, state, evt)
      BY <2>2, ExecOutcomes DEF IInv, Calls
    <3>2. step' = step
      BY <1>2 DEF AlarmCallback
    <3> QED
      BY <1>1, <2>2, <3>1, <3>2 DEF RunningKept
  <2> QED
    BY <1>2, <2>1, <2>2, NotifyCalls DEF IInv
<1>3. CASE CallExec
  BY <1>3 DEF CallExec, RunningKept, eventVars, slotVars
<1>4. CASE ClearFunc \/ ClearData \/ Reset \/ FirstInit \/ CallEvent
  BY <1>4 DEF ClearFunc, ClearData, Reset, FirstInit, CallEvent, RunningKept
<1>5. CASE AddTransition \/ TestQueue \/ RemoveEvent \/ LPM0 \/ UNCHANGED vars
  <2>1. UNCHANGED <<step, executed, slot_func, current>>
    BY <1>5 DEF AddTransition, TestQueue, RemoveEvent, LPM0, vars, eventVars, slotVars,
                Queue!TestQueue, Queue!RemoveEvent, Queue!LPM0
  <2> QED
    BY <2>1 DEF RunningKept
<1> QED
  BY <1>2, <1>3, <1>4, <1>5 DEF Next, Main

\* An execution that is accepted is posted, one that is not leaves all as it was.
LEMMA CallsPost ==
  ASSUME IInv, RunningKept, HeldFacts, HeldFacts',
         NEW state \in State, NEW evt \in Evt \cup {Null},
         Calls(state, evt)
  PROVE  [States!Next]_(States!vars)
<1>1. /\ exec_state(state, evt) /\ UNCHANGED <<main, current, executed>>
      /\ step' = step \/ (step = "setup" /\ step' = "idle")
  BY DEF Calls
<1>2. owed \in Seq([state : State, evt : Evt \cup {Null}])
  BY DEF IInv, TypeOK
<1>3. /\ Called' = Called /\ HasRun' = HasRun
      /\ (step' = "clear_func" <=> step = "clear_func")
      /\ (main' # "boot" <=> main # "boot")
  BY <1>1 DEF Called, HasRun
<1>4. CASE owed' = owed
  <2>1. Held' = Held
    BY <1>1, <1>3, <1>4 DEF HeldFacts
  <2> QED
    BY <1>1, <1>3, <2>1 DEF States!vars
<1>5. ASSUME NEW slot \in DataSlot, Accepts(slot, state, evt)
      PROVE  States!Post(state)
  <2>1. owed' = Append(owed, [state |-> state, evt |-> evt]) /\ queue_len < EVENT_QUEUE_SIZE
    BY <1>5 DEF Accepts
  <2>2. StatesOf(owed') = Append(StatesOf(owed), state) /\ StatesOf(owed) \in Seq(State)
    BY <1>2, <2>1, StatesAppended
  <2>3. executed \in State \cup {Null}
    BY DEF IInv, TypeOK
  <2>4. Held' = Append(Held, state)
    <3>1. CASE Called
      <4>1. <<executed>> \o Append(StatesOf(owed), state)
              = Append(<<executed>> \o StatesOf(owed), state)
        BY <2>2, <2>3
      <4> QED
        BY <1>1, <1>3, <2>2, <3>1, <4>1 DEF HeldFacts
    <3>2. CASE ~Called
      BY <1>3, <2>2, <3>2 DEF HeldFacts
    <3> QED
      BY <3>1, <3>2
  <2>5. Len(Held) = queue_len
    <3>1. queue_len \in Nat
      BY QueueAssumption DEF IInv, TypeOK, Queue!TypeOK
    <3> QED
      BY <3>1 DEF Held
  <2> QED
    BY <1>1, <1>3, <2>1, <2>4, <2>5 DEF States!Post
<1>6. owed' = owed \/ \E slot \in DataSlot : Accepts(slot, state, evt)
  BY <1>1, ExecOutcomes DEF IInv, GivesUp, Takes, Drops
<1> QED
  BY <1>4, <1>5, <1>6 DEF States!Next

LEMMA NextImplements ==
  ASSUME IInv, RunningKept, HeldFacts, HeldFacts', [Next]_vars
  PROVE  [States!Next]_(States!vars)
<1>o. owed \in Seq([state : State, evt : Evt \cup {Null}]) /\ executed \in State \cup {Null}
  BY DEF IInv, TypeOK
<1>1. CASE Reset
  <2>1. /\ main = "boot" /\ main' = "test" /\ step = "reset" /\ step' = "setup"
        /\ queue_len' = 0
    BY <1>1 DEF Reset, Queue!EventInit
  <2>2. Held' = <<>>
    BY <2>1 DEF Held
  <2> QED
    BY <2>1, <2>2 DEF States!Next, States!Start, HasRun
<1>2. CASE AddTransition \/ TestQueue \/ CallEvent \/ ClearData \/ LPM0 \/ UNCHANGED vars
  <2>1. /\ UNCHANGED <<owed, executed, Called, HasRun>> /\ step # "clear_func" /\ step' # "clear_func"
        /\ (main' # "boot" <=> main # "boot")
     \/ UNCHANGED vars
    BY <1>2 DEF AddTransition, TestQueue, CallEvent, ClearData, LPM0, eventVars, IInv, Phases,
                Queue!TestQueue, Queue!CallEvent, Queue!HandlerReturns, Queue!LPM0, Called, HasRun
  <2>2. CASE UNCHANGED vars
    BY <2>2 DEF vars, eventVars, slotVars, States!vars, Held, HasRun, Queue!Waiting
  <2>3. CASE UNCHANGED <<owed, executed, Called, HasRun>>
    <3>1. Held' = Held
      BY <2>3 DEF HeldFacts
    <3> QED
      BY <2>1, <2>2, <2>3, <3>1 DEF States!vars
  <2> QED
    BY <2>1, <2>2, <2>3
<1>3. CASE CallExec
  <2>1. /\ step = "call" /\ step' = "clear_func" /\ executed' = slot_func[current]
        /\ owed' = Tail(owed) /\ main = "handler" /\ main' = "handler"
        /\ current = W[1] /\ owed # <<>>
    BY <1>3, RunningIsSlot DEF CallExec, eventVars, IInv, Phases, HeldFacts
  <2>2. executed' = owed[1].state
    <3>1. Uncalled = W
      BY <2>1, PostedIsWaiting
    <3>2. 1 \in 1 .. Len(owed)
      BY <1>o, <2>1
    <3> QED
      BY <2>1, <3>1, <3>2 DEF IInv, SlotsHoldWhatIsOwed
  <2>3. StatesOf(owed) = <<executed'>> \o StatesOf(owed') /\ StatesOf(owed) # <<>>
        /\ executed' = StatesOf(owed)[1] /\ executed' \in State
    <3>1. StatesOf(owed) = <<executed'>> \o StatesOf(owed') /\ executed' \in State
      BY <1>o, <2>1, <2>2, StatesOfTail
    <3>2. 1 \in 1 .. Len(owed)
      BY <1>o, <2>1
    <3>3. StatesOf(owed)[1] = owed[1].state /\ Len(StatesOf(owed)) = Len(owed)
      BY <1>o, <3>2 DEF StatesOf
    <3>4. StatesOf(owed) # <<>>
      BY <1>o, <3>2, <3>3
    <3> QED
      BY <2>2, <3>1, <3>3, <3>4
  <2>4. Held = StatesOf(owed) /\ Held' = StatesOf(owed)
    BY <2>1, <2>3 DEF HeldFacts, Called
  <2>5. ~HasRun /\ ~HasRun' /\ executed' # Null
    BY <2>1, <2>3, NullAssumption DEF HasRun
  <2>6. States!Execute
    <3>1. Held # <<>> /\ Held' = Held /\ Held[1] = executed'
      BY <2>3, <2>4
    <3>2. main # "boot" /\ main' # "boot" /\ step # "clear_func" /\ step' = "clear_func"
      BY <2>1
    <3>3. Head(Held) = Held[1]
      BY DEF Head
    <3>4. (IF step = "clear_func" THEN executed ELSE Null) = Null
          /\ (IF step' = "clear_func" THEN executed' ELSE Null) = Head(Held)
      BY <3>1, <3>2, <3>3
    <3>5. HasRun' = HasRun
      <4>1. HasRun' <=> HasRun
        BY <2>5
      <4>2. HasRun \in BOOLEAN /\ HasRun' \in BOOLEAN
        BY DEF HasRun
      <4> QED
        BY <4>1, <4>2
    <3>6. (main' # "boot") = (main # "boot")
      BY <3>2
    <3> QED
      BY <2>5, <3>1, <3>2, <3>4, <3>5, <3>6, Zenon DEF States!Execute
  <2> QED
    BY <2>6 DEF States!Next
<1>4. CASE ClearFunc
  <2>1. /\ step = "clear_func" /\ step' = "clear_data" /\ executed' = executed
        /\ owed' = owed /\ main' = main /\ main = "handler"
    BY <1>4 DEF ClearFunc, eventVars, IInv, Phases
  <2>2. Held' = Held /\ executed # Null
    BY <2>1 DEF HeldFacts, Called
  <2> QED
    BY <2>1, <2>2 DEF States!Next, States!Return, HasRun
<1>5. CASE RemoveEvent
  <2>1. /\ main = "remove" /\ main' = "test" /\ step' = step
        /\ executed' = executed /\ owed' = owed
        /\ step \notin {"clear_func", "clear_data"}
    BY <1>5 DEF RemoveEvent, Queue!RemoveEvent, IInv, Phases
  <2>2. Held = <<executed>> \o StatesOf(owed) /\ Held' = StatesOf(owed)
    BY <2>1 DEF HeldFacts, Called
  <2>3. Tail(<<executed>> \o StatesOf(owed)) = StatesOf(owed)
    BY <1>o DEF HeldFacts
  <2> QED
    BY <2>1, <2>2, <2>3 DEF States!Next, States!Retire, HasRun
<1>6. CASE FirstInit
  BY <1>6, FirstInitCalls, CallsPost, ChainAssumption
<1>7. ASSUME NEW evt \in Evt, AlarmCallback(evt)
      PROVE  [States!Next]_(States!vars)
  <2>1. CASE UNCHANGED vars
    BY <1>2, <2>1
  <2>2. ASSUME NEW state \in State, Calls(state, evt)
        PROVE  [States!Next]_(States!vars)
    BY <2>2, CallsPost
  <2> QED
    BY <1>7, <2>1, <2>2, NotifyCalls DEF IInv
<1> QED
  BY <1>1, <1>2, <1>3, <1>4, <1>5, <1>6, <1>7 DEF Next, Main

\* For every chain and every queue size, and alarms at any point: each execution
\* that is accepted takes place once and in its turn, although its slot is
\* searched for, called and cleared in steps.
THEOREM ChainExecutesInOrder == Spec => ImplementsStateService
<1>1. Init => States!Init /\ RunningKept
  <2> SUFFICES ASSUME Init PROVE States!Init /\ RunningKept
    OBVIOUS
  <2>1. queue_len = 0 /\ step = "reset" /\ main = "boot"
    BY DEF Init, Queue!Init
  <2>2. Held = <<>>
    BY <2>1 DEF Held
  <2> QED
    BY <2>1, <2>2 DEF States!Init, HasRun, RunningKept
<1>2. IInv /\ RunningKept /\ [Next]_vars => RunningKept'
  BY RunningStays
<1>3. IInv /\ RunningKept /\ HeldFacts /\ HeldFacts' /\ [Next]_vars
        => [States!Next]_(States!vars)
  BY NextImplements
<1> QED
  BY <1>1, <1>2, <1>3, InitIInv, NextIInv, HeldIs, PTL
  DEF Spec, ImplementsStateService, States!Spec

-----------------------------------------------------------------------------
(***************************************************************************)
(* Data slots that are lost.                                               *)
(***************************************************************************)

\* Unless exec_func has just freed the slot whose entry is still in the event
\* queue, a full event queue means that every data slot is taken: its entries
\* are that many different slots.
LEMMA FullQueueHoldsAll ==
  ASSUME IInv, queue_len = EVENT_QUEUE_SIZE,
         step # "clear_data", main # "remove",
         NEW s \in DataSlot
  PROVE  slot_func[s] # Null
<1> USE LengthAssumption, QueueAssumption
<1> SUFFICES ASSUME slot_func[s] = Null PROVE FALSE
  OBVIOUS
<1>1. /\ W \in Seq(DataSlot) /\ Len(W) = EVENT_QUEUE_SIZE
      /\ PostedSlots \in Seq(DataSlot)
      /\ main = "handler" => W # <<>> /\ PostedSlots = Tail(W)
      /\ main # "handler" => PostedSlots = W
      /\ Uncalled = IF step = "call" THEN W ELSE PostedSlots
  BY PostedIsWaiting
<1>2. /\ owed \in Seq([state : State, evt : Evt \cup {Null}])
      /\ Len(Uncalled) = Len(owed)
      /\ \A i, j \in 1 .. Len(owed) : Uncalled[i] = Uncalled[j] => i = j
      /\ \A i \in 1 .. Len(owed) : slot_func[Uncalled[i]] = owed[i].state
  BY DEF IInv, TypeOK, SlotsHoldWhatIsOwed
<1>3. \A i \in 1 .. Len(owed) : slot_func[Uncalled[i]] # Null
  <2>1. TAKE i \in 1 .. Len(owed)
  <2>2. owed[i] \in [state : State, evt : Evt \cup {Null}]
    BY <1>2, ElementOfSeq
  <2> QED
    BY <1>2, <2>2, NullAssumption
<1>4. /\ \A i, j \in 1 .. EVENT_QUEUE_SIZE : W[i] = W[j] => i = j
      /\ \A i \in 1 .. EVENT_QUEUE_SIZE : W[i] # s
  <2>1. CASE Uncalled = W
    BY <1>1, <1>2, <1>3, <2>1
  <2>2. CASE Uncalled # W
    <3>1. step = "clear_func" /\ main = "handler" /\ Uncalled = Tail(W)
          /\ PostedSlots = Tail(W) /\ W # <<>>
      BY <1>1, <2>2 DEF IInv, Phases
    <3>2. slot_func[W[1]] # Null /\ \A i \in 1 .. Len(Tail(W)) : Tail(W)[i] # W[1]
      BY <3>1, RunningIsSlot DEF IInv, RunningHeld
    <3>3. /\ Len(Tail(W)) = EVENT_QUEUE_SIZE - 1
          /\ \A i \in 1 .. EVENT_QUEUE_SIZE - 1 : Tail(W)[i] = W[i + 1]
      BY <1>1, <3>1
    <3>4. \A i \in 1 .. EVENT_QUEUE_SIZE :
            i = 1 \/ (i - 1 \in 1 .. EVENT_QUEUE_SIZE - 1 /\ W[i] = Tail(W)[i - 1])
      <4>1. TAKE i \in 1 .. EVENT_QUEUE_SIZE
      <4>2. i # 1 => i - 1 \in 1 .. EVENT_QUEUE_SIZE - 1 /\ (i - 1) + 1 = i
        OBVIOUS
      <4> QED
        BY <3>3, <4>2
    <3>5. ASSUME NEW i \in 1 .. EVENT_QUEUE_SIZE PROVE W[i] # s
      <4>1. CASE i = 1
        BY <3>2, <4>1
      <4>2. CASE i # 1
        <5>1. i - 1 \in 1 .. Len(owed) /\ W[i] = Uncalled[i - 1]
          BY <1>2, <3>1, <3>3, <3>4, <4>2
        <5> QED
          BY <1>3, <5>1
      <4> QED
        BY <4>1, <4>2
    <3>6. ASSUME NEW i \in 1 .. EVENT_QUEUE_SIZE, NEW j \in 1 .. EVENT_QUEUE_SIZE,
                 W[i] = W[j]
          PROVE  i = j
      <4>1. CASE i = 1 \/ j = 1
        BY <3>2, <3>3, <3>4, <3>6, <4>1
      <4>2. CASE i # 1 /\ j # 1
        <5>1. Tail(W)[i - 1] = Tail(W)[j - 1]
          BY <3>4, <3>6, <4>2
        <5>2. i - 1 = j - 1
          BY <1>2, <3>1, <3>3, <3>4, <4>2, <5>1
        <5> QED
          BY <5>2
      <4> QED
        BY <4>1, <4>2
    <3> QED
      BY <3>5, <3>6
  <2> QED
    BY <2>1, <2>2
<1> DEFINE f == [i \in 1 .. EVENT_QUEUE_SIZE |-> W[i]]
           T == DataSlot \ {s}
<1>5. f \in [1 .. EVENT_QUEUE_SIZE -> T]
  BY <1>1, <1>4
<1>6. /\ IsFiniteSet(1 .. EVENT_QUEUE_SIZE)
      /\ Cardinality(1 .. EVENT_QUEUE_SIZE) = EVENT_QUEUE_SIZE
  <2>1. IsFiniteSet(1 .. EVENT_QUEUE_SIZE)
        /\ Cardinality(1 .. EVENT_QUEUE_SIZE)
             = IF 1 > EVENT_QUEUE_SIZE THEN 0 ELSE EVENT_QUEUE_SIZE - 1 + 1
    BY FS_Interval
  <2> QED
    BY <2>1
<1>7. IsFiniteSet(DataSlot) /\ Cardinality(DataSlot) = ST_EVENT_QUEUE_LENGTH
  <2>1. IsFiniteSet(DataSlot)
        /\ Cardinality(DataSlot)
             = IF 0 > ST_EVENT_QUEUE_LENGTH - 1 THEN 0
               ELSE (ST_EVENT_QUEUE_LENGTH - 1) - 0 + 1
    BY FS_Interval DEF DataSlot
  <2> QED
    BY <2>1
<1>8. IsFiniteSet(T) /\ Cardinality(T) = ST_EVENT_QUEUE_LENGTH - 1
  BY <1>7, FS_RemoveElement
<1>9. \E x, y \in 1 .. EVENT_QUEUE_SIZE : x # y /\ f[x] = f[y]
  <2>1. Cardinality(T) < Cardinality(1 .. EVENT_QUEUE_SIZE)
    BY <1>6, <1>8
  <2> HIDE DEF f, T
  <2> QED
    BY <1>5, <1>6, <1>8, <2>1, FS_PigeonHole
<1> QED
  BY <1>4, <1>9

LeakStep ==
  /\ Leaked \subseteq Leaked'
  /\ Leaked' # Leaked =>
       /\ queue_len = EVENT_QUEUE_SIZE
       /\ step = "clear_data" \/ main = "remove"

LEMMA CallsLeak ==
  ASSUME IInv, NEW state \in State, NEW evt \in Evt \cup {Null},
         Calls(state, evt)
  PROVE  LeakStep
<1>1. /\ exec_state(state, evt) /\ UNCHANGED <<main, current>>
      /\ step' \in {"call", "clear_func"} <=> step \in {"call", "clear_func"}
      /\ step' = step \/ (step = "setup" /\ step' = "idle")
  BY DEF Calls
<1>2. CASE GivesUp
  <2>1. PostedSlots' = PostedSlots /\ slot_func' = slot_func
    BY <1>1, <1>2 DEF GivesUp, PostedSlots, Queue!Waiting, slotVars
  <2>2. Leaked' = Leaked
    BY <1>1, <2>1 DEF Leaked
  <2> QED
    BY <2>2 DEF LeakStep
<1>3. ASSUME NEW slot \in DataSlot, Takes(slot, state, evt)
      PROVE  LeakStep
  <2>1. /\ slot_func[slot] = Null
        /\ slot_func' = [slot_func EXCEPT ![slot] = state]
        /\ Accepts(slot, state, evt) \/ Drops
    BY <1>3 DEF Takes
  <2>2. slot \notin Leaked
    BY <2>1 DEF Leaked
  <2>3. \A s \in DataSlot : s # slot => slot_func'[s] = slot_func[s]
    BY <2>1 DEF IInv, TypeOK
  <2>4. PostedSlots \in Seq(DataSlot)
    BY PostedIsWaiting
  <2>5. CASE Accepts(slot, state, evt)
    <3>1. PostedSlots' = Append(PostedSlots, slot)
      BY <1>1, <2>5, AcceptedIsAppended
    <3>2. /\ Len(PostedSlots') = Len(PostedSlots) + 1
          /\ PostedSlots'[Len(PostedSlots) + 1] = slot
          /\ \A i \in 1 .. Len(PostedSlots) : PostedSlots'[i] = PostedSlots[i]
      BY <2>4, <3>1
    <3>3. \A i \in 1 .. Len(PostedSlots') :
            i = Len(PostedSlots) + 1 \/ i \in 1 .. Len(PostedSlots)
      BY <2>4, <3>2
    <3>4. \A i \in 1 .. Len(PostedSlots) : i \in 1 .. Len(PostedSlots')
      BY <2>4, <3>2
    <3>5. slot \notin Leaked'
      <4>1. Len(PostedSlots) + 1 \in 1 .. Len(PostedSlots')
        BY <2>4, <3>2
      <4> QED
        BY <3>2, <4>1 DEF Leaked
    <3>6. ASSUME NEW s \in DataSlot, s # slot
          PROVE  (\A i \in 1 .. Len(PostedSlots') : PostedSlots'[i] # s)
                   <=> (\A i \in 1 .. Len(PostedSlots) : PostedSlots[i] # s)
      BY <3>2, <3>3, <3>4, <3>6
    <3>7. ASSUME NEW s \in DataSlot, s # slot
          PROVE  s \in Leaked' <=> s \in Leaked
      BY <1>1, <2>3, <3>6, <3>7 DEF Leaked
    <3>8. Leaked \subseteq DataSlot /\ Leaked' \subseteq DataSlot
      BY DEF Leaked
    <3>9. Leaked' = Leaked
      BY <2>2, <3>5, <3>7, <3>8
    <3> QED
      BY <3>9 DEF LeakStep
  <2>6. CASE Drops
    <3>1. PostedSlots' = PostedSlots
      BY <1>1, <2>6 DEF Drops, PostedSlots, Queue!Waiting
    <3>2. Leaked \subseteq Leaked'
      BY <1>1, <2>2, <2>3, <3>1 DEF Leaked
    <3>3. queue_len = EVENT_QUEUE_SIZE
      BY <2>6 DEF Drops
    <3>4. step = "clear_data" \/ main = "remove"
      BY <2>1, <3>3, FullQueueHoldsAll
    <3> QED
      BY <3>2, <3>3, <3>4 DEF LeakStep
  <2> QED
    BY <2>1, <2>5, <2>6
<1> QED
  BY <1>1, <1>2, <1>3, ExecOutcomes DEF IInv

LEMMA NextLeaks == IInv /\ [Next]_vars => LeakStep
<1> SUFFICES ASSUME IInv, [Next]_vars PROVE LeakStep
  OBVIOUS
<1> USE DEF LeakStep
<1>w. /\ W \in Seq(DataSlot) /\ Len(W) = queue_len
      /\ PostedSlots \in Seq(DataSlot)
      /\ main \in {"handler", "remove"} => W # <<>> /\ PostedSlots = Tail(W)
      /\ main \notin {"handler", "remove"} => PostedSlots = W
  BY PostedIsWaiting
<1>1. CASE Reset
  <2>1. /\ main = "boot" /\ main' = "test"
        /\ slot_func' = [i \in DataSlot |-> Null]
    BY <1>1 DEF Reset, Queue!EventInit
  <2>2. Leaked = {} /\ Leaked' = {}
    BY <2>1 DEF IInv, Phases, Leaked
  <2> QED
    BY <2>2
<1>2. CASE FirstInit
  BY <1>2, FirstInitCalls, CallsLeak, ChainAssumption
<1>3. CASE TestQueue \/ LPM0 \/ AddTransition \/ UNCHANGED vars
  <2>1. PostedSlots' = PostedSlots
    BY <1>3 DEF TestQueue, LPM0, AddTransition, vars, eventVars, PostedSlots,
                Queue!TestQueue, Queue!LPM0, Queue!Waiting
  <2>2. UNCHANGED <<slot_func, current, step>>
    BY <1>3 DEF TestQueue, LPM0, AddTransition, vars, eventVars, slotVars,
                Queue!TestQueue, Queue!LPM0
  <2> QED
    BY <2>1, <2>2 DEF Leaked
<1>4. CASE CallEvent
  <2>1. /\ main = "call" /\ main' = "handler" /\ step' = "call"
        /\ current' = event_queue[queue_start] /\ slot_func' = slot_func
        /\ UNCHANGED <<event_queue, queue_start, queue_len>>
    BY <1>4 DEF CallEvent, Queue!CallEvent, slotVars
  <2>2. PostedSlots = W /\ PostedSlots' = Tail(W)
    BY <1>w, <2>1 DEF PostedSlots, W, Queue!Waiting
  <2>3. W[1] = current' /\ Len(W) > 0
    BY <2>1, WaitingSlots DEF IInv, WaitingFacts, Phases
  <2>4. step \notin {"call", "clear_func"}
    BY <2>1 DEF IInv, Phases
  <2>5. /\ Len(Tail(W)) = Len(W) - 1
        /\ \A i \in 1 .. Len(W) - 1 : Tail(W)[i] = W[i + 1]
    BY <1>w, <2>3
  <2>6. \A i \in 1 .. Len(W) : i = 1 \/ (i - 1 \in 1 .. Len(W) - 1 /\ W[i] = Tail(W)[i - 1])
    <3>1. TAKE i \in 1 .. Len(W)
    <3>2. i # 1 => i - 1 \in 1 .. Len(W) - 1 /\ (i - 1) + 1 = i
      BY <1>w
    <3> QED
      BY <2>5, <3>2
  <2>7. \A i \in 1 .. Len(W) - 1 : i + 1 \in 1 .. Len(W)
    BY <1>w
  <2>8. 1 \in 1 .. Len(W)
    BY <1>w, <2>3
  <2>9. ASSUME NEW s \in DataSlot
        PROVE  (\A i \in 1 .. Len(W) : W[i] # s)
                 <=> s # current' /\ (\A i \in 1 .. Len(Tail(W)) : Tail(W)[i] # s)
    BY <2>3, <2>5, <2>6, <2>7, <2>8
  <2>10. Leaked' = Leaked
    BY <2>1, <2>2, <2>4, <2>9 DEF Leaked
  <2> QED
    BY <2>10
<1>5. CASE CallExec
  <2>1. PostedSlots' = PostedSlots
    BY <1>5 DEF CallExec, eventVars, PostedSlots, Queue!Waiting
  <2>2. Leaked' = Leaked
    BY <1>5, <2>1 DEF CallExec, eventVars, slotVars, Leaked
  <2> QED
    BY <2>2
<1>6. CASE ClearFunc
  <2>1. PostedSlots' = PostedSlots
    BY <1>6 DEF ClearFunc, eventVars, PostedSlots, Queue!Waiting
  <2>2. current \in DataSlot /\ slot_func \in [DataSlot -> State \cup {Null}]
    BY <1>6, RunningIsSlot DEF ClearFunc, IInv, Phases, TypeOK
  <2>3. Leaked' = Leaked
    BY <1>6, <2>1, <2>2 DEF ClearFunc, eventVars, Leaked
  <2> QED
    BY <2>3
<1>7. CASE ClearData
  <2>1. PostedSlots' = PostedSlots
    BY <1>7 DEF ClearData, Queue!HandlerReturns, PostedSlots, Queue!Waiting
  <2>2. step = "clear_data" /\ step' = "idle" /\ slot_func' = slot_func
    BY <1>7, <1>w DEF ClearData, Queue!HandlerReturns, IInv, Phases
  <2>3. Leaked' = Leaked
    BY <2>1, <2>2 DEF Leaked
  <2> QED
    BY <2>3
<1>8. CASE RemoveEvent
  <2>1. /\ main = "remove" /\ main' = "test"
        /\ UNCHANGED <<slot_func, current, step>>
    BY <1>8 DEF RemoveEvent, Queue!RemoveEvent, slotVars
  <2>2. W' = Tail(W)
    BY <1>8, RemoveDropsHead
  <2>3. PostedSlots' = PostedSlots
    BY <1>w, <2>1, <2>2 DEF PostedSlots, W
  <2>4. Leaked' = Leaked
    BY <2>1, <2>3 DEF Leaked
  <2> QED
    BY <2>4
<1>9. ASSUME NEW evt \in Evt, AlarmCallback(evt)
      PROVE  LeakStep
  <2>1. CASE UNCHANGED vars
    BY <1>3, <2>1
  <2>2. ASSUME NEW state \in State, Calls(state, evt) PROVE LeakStep
    BY <2>2, CallsLeak
  <2> QED
    BY <1>9, <2>1, <2>2, NotifyCalls DEF IInv
<1> QED
  BY <1>1, <1>2, <1>3, <1>4, <1>5, <1>6, <1>7, <1>8, <1>9 DEF Next, Main

\* For every chain, every queue size and alarms at any point of exec_func: what
\* waits in the event queue are distinct slots that still hold, in order, what
\* was accepted, and a slot is lost only in the way LeakedByFullQueue says.
THEOREM SlotsAreAccounted == Spec => SlotsAccounted
<1>1. IInv => TypeOK /\ SlotsHoldWhatIsOwed
  BY DEF IInv
<1>2. IInv /\ [Next]_vars => LeakStep
  BY NextLeaks
<1> QED
  BY <1>1, <1>2, InitIInv, NextIInv, PTL
  DEF Spec, SlotsAccounted, LeakedByFullQueue, LeakStep

-----------------------------------------------------------------------------
(***************************************************************************)
(* A node that reads its sensors while the radio interrupts it:            *)
(* SensorNode. The invariant goes through the transfer point by point and  *)
(* says of each what the bus is doing as long as the module is set up for  *)
(* I2C and no stop has come too late; what is in its receive buffer then   *)
(* is an octet of the transfer's own register.                             *)
(***************************************************************************)

SensorTransfer ==
  [op : {"write", "read", "write_read"}, reg : Register, len : 1 .. 2]

\* mac_send has a frame to send as long as it runs.
MacKept ==
  /\ MacTypeOK
  /\ Sending => mac.frame \in LocalFrame
  /\ mac.phase = "data" => Sending /\ IsWrite

\* What a transfer has still to do and what it has done.
Lengths ==
  /\ call.pc \in {"config", "start", "first", "restart", "stt_in", "in", "stop", "last"} =>
       call.left > 0
  /\ At("config") => call.data = <<>>
  /\ At("stt") /\ call.op # "write" => call.left > 0
  /\ At("in") => call.left > 1
  /\ At("next") => call.op = "write"
  /\ ~At("idle") /\ ~At("stp") => call.ret = "ok"
  /\ At("stp") /\ call.ret = "ok" /\ call.op # "write" => call.data # <<>>

SetUpFor == ~At("idle") /\ ~At("config")

\* What the bus is doing, seen from where the transfer is.
Quiet == line = "free" /\ ~IsSet("UCB0RXIFG") /\ ~IsSet("UCTXSTT") /\ ~IsSet("UCTXSTP")

Sends ==
  /\ line \in {"free", "address", "out"} /\ IsSet("UCTR")
  /\ ~IsSet("UCB0RXIFG") /\ ~IsSet("UCTXSTP")
  /\ ~IsSet("UCTXSTT") => line = "out"

HasSent == line = "out" /\ ~IsSet("UCB0RXIFG") /\ ~IsSet("UCTXSTT") /\ ~IsSet("UCTXSTP")

TurnsRound ==
  /\ ~IsSet("UCTR") /\ ~IsSet("UCTXSTP")
  /\ line = "in" => ~IsSet("UCTXSTT") /\ ~IsSet("UCNACKIFG")
  /\ line # "in" => ~IsSet("UCB0RXIFG")
  /\ line = "address" => ~IsSet("UCNACKIFG")
  /\ ~IsSet("UCTXSTT") => line = "in" \/ (line = "out" /\ IsSet("UCNACKIFG"))

Receives == line = "in" /\ ~IsSet("UCTXSTT") /\ ~IsSet("UCTXSTP")

ReceivesLast ==
  /\ ~IsSet("UCTXSTT")
  /\ \/ line = "in" /\ IsSet("UCTXSTP") /\ ~IsSet("UCB0RXIFG")
     \/ line = "free" /\ ~IsSet("UCTXSTP") /\ IsSet("UCB0RXIFG")

Stops ==
  /\ ~IsSet("UCTXSTT") /\ ~IsSet("UCB0RXIFG")
  /\ line = (IF IsSet("UCTXSTP") THEN "out" ELSE "free")

InStep ==
  /\ call.pc \in {"idle", "config", "start"} => Quiet
  /\ call.pc \in {"first", "stt"} => Sends
  /\ call.pc \in {"next", "restart"} => HasSent
  /\ At("stt_in") => TurnsRound
  /\ call.pc \in {"in", "stop"} => Receives
  /\ At("last") => ReceivesLast
  /\ At("stp") => Stops

OwnOctets == \A i \in DOMAIN call.data : call.data[i] = call.reg

UsciKept ==
  /\ UsciTypeOK
  /\ Lengths
  /\ ~stolen /\ ~call.stale => OwnOctets
  /\ SetUpFor /\ ucb_mode # "I2C" => stolen
  /\ ucb_mode = "I2C" =>
       /\ SetUpFor /\ ~call.stale /\ IsSet("UCB0RXIFG") => rxbuf = call.reg
       /\ ~late => InStep

NodeKept ==
  /\ todo \in Seq(SensorTransfer)
  /\ tmp \in Register \cup {NoOctet}
  /\ failed \in BOOLEAN
  /\ Sending => todo = <<>>
  /\ InTransfer => todo # <<>>
  /\ ~failed => sample.is = sample.of

NodeIInv == MacKept /\ UsciKept /\ NodeKept

-----------------------------------------------------------------------------
LEMMA PiecesAre == ToSet(Pieces) = {"len", "src", "dst", "msg"}
BY DEF ToSet, Pieces

LEMMA Strobes ==
  ASSUME NEW r \in Radio
  PROVE  /\ SIDLE(r) \in Radio /\ SFRX(r) \in Radio /\ SFTX(r) \in Radio
         /\ SRX(r) \in Radio /\ \A clear \in BOOLEAN : STX(r, clear) \in Radio
<1> DEFINE T == Seq(LocalFrame \X ToSet(Pieces))
           F == AirFrame \cup {NoFrame}
<1>1. <<>> \in T /\ NoFrame \in F
  OBVIOUS
<1>2. Radio = [state : RadioState, gdo0 : BOOLEAN, rxfifo : F, crc : BOOLEAN, txfifo : T]
  BY DEF Radio
<1> HIDE DEF T, F
<1> QED
  BY <1>1, <1>2 DEF SIDLE, SFRX, SFTX, SRX, STX, RadioState

LEMMA Resets ==
  ASSUME NEW r \in Radio
  PROVE  reset_rx(r) \in Radio
<1>1. force_idle(r) \in Radio
  <2>1. (IF r.state = "RXOVER" THEN SFRX(r)
         ELSE IF r.state = "TXUNDER" THEN SFTX(r) ELSE r) \in Radio
    BY Strobes
  <2> QED
    BY <2>1, Strobes DEF force_idle
<1>2. SFRX(force_idle(r)) \in Radio
  BY <1>1, Strobes
<1>3. SFTX(SFRX(force_idle(r))) \in Radio
  BY <1>2, Strobes
<1> QED
  BY <1>3, Strobes DEF reset_rx

MacRecord == [frame : LocalFrame \cup {NoFrame}, at : 0 .. 8,
              phase : {"select", "header", "data", "deselect"}]

LEMMA MacTypes ==
  MacTypeOK <=>
    /\ radio \in Radio
    /\ csn \in BOOLEAN /\ burst \in BOOLEAN /\ P2IFG \in BOOLEAN
    /\ status \in RadioState
    /\ gdo0_cb \in {"rx_cb", "tx_cb"}
    /\ mac \in MacRecord
    /\ fate \in {"none", "pending", "aired", "reported", "cut", "wrong"}
<1>1. Len(Commands) = 8
  BY DEF Commands
<1> QED
  BY <1>1 DEF MacTypeOK, MacRecord

LEMMA MacInitial == MacInit => MacKept
<1> SUFFICES ASSUME MacInit PROVE MacKept
  OBVIOUS
<1>1. [state |-> "IDLE", gdo0 |-> FALSE, rxfifo |-> NoFrame, crc |-> FALSE, txfifo |-> <<>>]
        \in Radio
  BY DEF Radio, RadioState
<1>2. radio \in Radio
  BY <1>1, Resets DEF MacInit
<1>3. mac \in MacRecord
  BY DEF MacInit, MacRecord
<1>4. MacTypeOK
  BY <1>2, <1>3, MacTypes DEF MacInit, RadioState
<1> QED
  BY <1>4 DEF MacInit, MacKept, Sending

LEMMA MacTypesNext ==
  MacTypeOK' <=>
    /\ radio' \in Radio
    /\ csn' \in BOOLEAN /\ burst' \in BOOLEAN /\ P2IFG' \in BOOLEAN
    /\ status' \in RadioState
    /\ gdo0_cb' \in {"rx_cb", "tx_cb"}
    /\ mac' \in MacRecord
    /\ fate' \in {"none", "pending", "aired", "reported", "cut", "wrong"}
<1>1. Len(Commands) = 8
  BY DEF Commands
<1> QED
  BY <1>1 DEF MacTypeOK, MacRecord

LEMMA Becomes ==
  ASSUME MacTypeOK, NEW r \in Radio, RadioBecomes(r)
  PROVE  radio' \in Radio /\ P2IFG' \in BOOLEAN
BY MacTypes DEF RadioBecomes

\* Nothing comes to be refused, as the radio has left RX.
LEMMA Fates ==
  ASSUME MacTypeOK, NEW to \in {"aired", "wrong", "reported", "refused"},
         NEW from \in {"refused", "aired", "pending", "wrong"},
         to = "refused" => from = "refused", Comes(to, from)
  PROVE  fate' \in {"none", "pending", "aired", "reported", "cut", "wrong"}
BY MacTypes DEF Comes

LEMMA NextCommandIs ==
  ASSUME mac \in MacRecord
  PROVE  /\ NextCommand \in MacRecord /\ NextCommand.phase = "select"
         /\ NextCommand.frame = mac.frame
<1>1. Len(Commands) = 8
  BY DEF Commands
<1> DEFINE n == IF mac.at = Len(Commands) THEN 0 ELSE mac.at + 1
<1>2. n \in 0 .. 8
  BY <1>1 DEF MacRecord
<1>3. NextCommand = [mac EXCEPT !.at = n, !.phase = "select"]
  BY DEF NextCommand
<1> HIDE DEF n
<1> QED
  BY <1>2, <1>3 DEF MacRecord

LEMMA SendKeepsMac ==
  ASSUME MacKept, NEW f \in LocalFrame, mac_send(f)
  PROVE  MacKept'
<1>1. mac' \in MacRecord /\ mac'.frame = f /\ mac'.phase = "select"
  BY DEF mac_send, MacRecord
<1>2. fate' \in {"none", "pending", "aired", "reported", "cut", "wrong"}
  BY DEF mac_send
<1>3. MacTypeOK'
  BY <1>1, <1>2, MacTypes, MacTypesNext DEF mac_send, radioVars, MacKept
<1> QED
  BY <1>1, <1>3 DEF MacKept

LEMMA MacStepKeeps ==
  ASSUME MacKept, MacStep
  PROVE  MacKept' /\ mac.at # 0
<1>1. /\ MacTypeOK /\ mac \in MacRecord /\ radio \in Radio
      /\ radio.state \in RadioState
  BY MacTypes DEF MacKept, Radio
<1>2. Sending
  BY DEF MacStep, Select, Header, Data, Deselect, SetTxCb
<1>3. CASE Select
  <2>1. mac' \in MacRecord /\ mac'.phase = "header" /\ mac'.frame = mac.frame /\ mac'.at = mac.at
    BY <1>1, <1>3 DEF Select, MacRecord
  <2>2. MacTypeOK'
    BY <1>1, <1>3, <2>1, MacTypes, MacTypesNext DEF Select
  <2> QED
    BY <1>2, <2>1, <2>2 DEF MacKept, Sending
<1>4. CASE Header
  <2>1. /\ mac' \in MacRecord /\ mac'.frame = mac.frame /\ mac'.at = mac.at
        /\ mac'.phase = "data" => IsWrite
    BY <1>1, <1>4 DEF Header, MacRecord
  <2>2. IsWrite \in BOOLEAN
    BY DEF IsWrite
  <2>3. /\ status' \in RadioState /\ burst' \in BOOLEAN
        /\ radio' \in Radio /\ P2IFG' \in BOOLEAN
    <3>1. CASE csn
      <4>1. status' \in RadioState /\ burst' \in BOOLEAN
        BY <1>1, <1>4, <2>2, <3>1 DEF Header, RadioState
      <4>2. Strobed \subseteq Radio
        BY <1>1, Strobes DEF Strobed
      <4>3. PICK r \in Strobed : RadioBecomes(r)
        BY <1>4, <3>1 DEF Header
      <4> QED
        BY <1>1, <4>1, <4>2, <4>3, Becomes
    <3>2. CASE ~csn
      BY <1>1, <1>4, <3>2, MacTypes DEF Header, RadioState
    <3> QED
      BY <3>1, <3>2
  <2>4. MacTypeOK'
    BY <1>1, <1>4, <2>1, <2>3, MacTypes, MacTypesNext DEF Header
  <2>5. IsWrite' <=> IsWrite
    BY <2>1 DEF IsWrite, Command
  <2> QED
    BY <1>2, <2>1, <2>4, <2>5 DEF MacKept, Sending
<1>5. CASE Data
  <2>1. /\ mac' \in MacRecord /\ mac'.frame = mac.frame /\ mac'.at = mac.at
        /\ mac'.phase = "deselect"
    BY <1>1, <1>5 DEF Data, MacRecord
  <2>2. <<mac.frame, Command>> \in LocalFrame \X ToSet(Pieces)
    BY <1>2, <1>5 DEF Data, MacKept, IsWrite
  <2>3. radio' \in Radio
    <3> DEFINE T == LocalFrame \X ToSet(Pieces)
    <3>1. PICK p \in T : p = <<mac.frame, Command>>
      BY <2>2
    <3>2. radio.txfifo \in Seq(T) /\ Append(radio.txfifo, p) \in Seq(T)
      BY <1>1, <3>1 DEF Radio
    <3>3. WriteTxFifo(radio, p) \in Radio
      BY <1>1, <3>2 DEF WriteTxFifo, Radio
    <3> QED
      BY <1>1, <1>5, <3>1, <3>3 DEF Data
  <2>4. MacTypeOK'
    BY <1>1, <1>5, <2>1, <2>3, MacTypes, MacTypesNext DEF Data
  <2> QED
    BY <1>2, <2>1, <2>4 DEF MacKept, Sending
<1>6. CASE Deselect
  <2>1. mac' = NextCommand /\ mac' \in MacRecord /\ mac'.phase = "select" /\ mac'.frame = mac.frame
    BY <1>1, <1>6, NextCommandIs DEF Deselect
  <2>2. fate' \in {"none", "pending", "aired", "reported", "cut", "wrong"}
    <3>1. CASE Comes("refused", "refused")
      BY <1>1, <3>1, Fates
    <3>2. CASE UNCHANGED fate
      BY <1>1, <3>2, MacTypes
    <3> QED
      BY <1>6, <3>1, <3>2 DEF Deselect
  <2>3. MacTypeOK'
    BY <1>1, <1>6, <2>1, <2>2, MacTypes, MacTypesNext DEF Deselect, RadioState
  <2> QED
    BY <1>2, <2>1, <2>3 DEF MacKept, Sending
<1>7. CASE SetTxCb
  <2>1. mac' = NextCommand /\ mac' \in MacRecord /\ mac'.phase = "select" /\ mac'.frame = mac.frame
    BY <1>1, <1>7, NextCommandIs DEF SetTxCb
  <2>2. MacTypeOK'
    BY <1>1, <1>7, <2>1, MacTypes, MacTypesNext DEF SetTxCb
  <2> QED
    BY <1>2, <2>1, <2>2 DEF MacKept, Sending
<1> QED
  BY <1>2, <1>3, <1>4, <1>5, <1>6, <1>7 DEF MacStep, Sending

LEMMA port2irqKeeps ==
  ASSUME MacKept, port2irq
  PROVE  MacKept' /\ mac'.at = mac.at
<1>1. MacTypeOK /\ mac \in MacRecord /\ radio \in Radio
  BY MacTypes DEF MacKept
<1>2. radio' \in Radio
  BY <1>1, Resets DEF port2irq, AfterCallback
<1>3. fate' \in {"none", "pending", "aired", "reported", "cut", "wrong"}
  <2>1. CASE fate' = "cut"
    BY <2>1
  <2>2. CASE Comes("reported", "aired")
    BY <1>1, <2>2, Fates
  <2>3. CASE UNCHANGED fate
    BY <1>1, <2>3, MacTypes
  <2> QED
    BY <2>1, <2>2, <2>3 DEF port2irq
<1>4. /\ mac' \in MacRecord /\ mac'.at = mac.at /\ mac'.phase = mac.phase
      /\ Sending => mac' = mac
  BY <1>1 DEF port2irq, MacRecord
<1>5. MacTypeOK'
  BY <1>2, <1>3, <1>4, MacTypesNext DEF port2irq, RadioState
<1> QED
  BY <1>4, <1>5 DEF MacKept, Sending, IsWrite, Command

LEMMA RadioStepKeeps ==
  ASSUME MacKept, RadioStep
  PROVE  MacKept' /\ mac' = mac
<1>1. MacTypeOK /\ radio \in Radio
  BY MacTypes DEF MacKept
<1>2. mac' = mac
  BY DEF RadioStep, ReceiveSync, ReceiveEnd, TransmitSync, TransmitEnd
<1>3. radio' \in Radio /\ P2IFG' \in BOOLEAN
  <2>1. CASE ReceiveSync \/ TransmitSync
    BY <1>1, <2>1, MacTypes DEF ReceiveSync, TransmitSync, Radio
  <2>2. CASE ReceiveEnd
    <3> DEFINE Ended(f, ok) ==
                 [radio EXCEPT !.gdo0 = FALSE, !.state = "IDLE", !.rxfifo = f, !.crc = ok]
               Over == [radio EXCEPT !.gdo0 = FALSE, !.state = "RXOVER"]
    <3>1. EndsReception(radio) \subseteq Radio
      <4>1. EndsReception(radio) = {Ended(f, ok) : f \in AirFrame, ok \in BOOLEAN} \cup {Over}
        BY DEF EndsReception
      <4>2. Over \in Radio
        BY <1>1 DEF Radio, RadioState
      <4>3. \A f \in AirFrame, ok \in BOOLEAN : Ended(f, ok) \in Radio
        BY <1>1 DEF Radio, RadioState
      <4> HIDE DEF Ended, Over
      <4> QED
        BY <4>1, <4>2, <4>3
    <3> QED
      BY <1>1, <2>2, <3>1, Becomes DEF ReceiveEnd
  <2>3. CASE TransmitEnd
    <3> DEFINE T == LocalFrame \X ToSet(Pieces)
               over == [radio EXCEPT !.gdo0 = FALSE]
    <3>1. over \in Radio /\ over.txfifo = radio.txfifo /\ radio.txfifo \in Seq(T)
      BY <1>1 DEF Radio
    <3>2. SubSeq(radio.txfifo, Len(Pieces) + 1, Len(radio.txfifo)) \in Seq(T)
      <4>1. Len(Pieces) = 4
        BY DEF Pieces
      <4> HIDE DEF T
      <4> QED
        BY <3>1, <4>1
    <3>3. PICK rest \in Seq(T) : rest = SubSeq(over.txfifo, Len(Pieces) + 1, Len(over.txfifo))
      BY <3>1, <3>2
    <3>4. over \in [state : RadioState, gdo0 : BOOLEAN, rxfifo : AirFrame \cup {NoFrame},
                    crc : BOOLEAN, txfifo : Seq(T)]
      BY <3>1 DEF Radio
    <3>5. <<>> \in Seq(T)
      OBVIOUS
    <3>6. EndsTransmission(radio) \subseteq
            {[over EXCEPT !.state = "IDLE", !.txfifo = rest],
             [over EXCEPT !.state = "IDLE", !.txfifo = <<>>], [over EXCEPT !.state = "TXUNDER"]}
      BY <3>3 DEF EndsTransmission
    <3>7. Radio = [state : RadioState, gdo0 : BOOLEAN, rxfifo : AirFrame \cup {NoFrame},
                   crc : BOOLEAN, txfifo : Seq(T)]
      BY DEF Radio
    <3> HIDE DEF T, over
    <3>8. EndsTransmission(radio) \subseteq Radio
      <4>1. /\ [over EXCEPT !.state = "IDLE", !.txfifo = rest] \in Radio
            /\ [over EXCEPT !.state = "IDLE", !.txfifo = <<>>] \in Radio
        BY <3>3, <3>4, <3>5, <3>7 DEF RadioState
      <4>2. [over EXCEPT !.state = "TXUNDER"] \in Radio
        BY <3>4, <3>7 DEF RadioState
      <4> QED
        BY <3>6, <4>1, <4>2
    <3> QED
      BY <1>1, <2>3, <3>8, Becomes DEF TransmitEnd
  <2> QED
    BY <2>1, <2>2, <2>3 DEF RadioStep
<1>4. fate' \in {"none", "pending", "aired", "reported", "cut", "wrong"}
  <2>1. CASE Comes("aired", "pending")
    BY <1>1, <2>1, Fates
  <2>2. CASE Comes("wrong", "wrong")
    BY <1>1, <2>2, Fates
  <2>3. CASE UNCHANGED fate
    BY <1>1, <2>3, MacTypes
  <2> QED
    BY <2>1, <2>2, <2>3 DEF RadioStep, ReceiveSync, ReceiveEnd, TransmitSync, TransmitEnd
<1>5. MacTypeOK'
  BY <1>1, <1>2, <1>3, <1>4, MacTypes, MacTypesNext
     DEF RadioStep, ReceiveSync, ReceiveEnd, TransmitSync, TransmitEnd
<1> QED
  BY <1>2, <1>5 DEF MacKept, Sending, IsWrite, Command
LEMMA Stores ==
  ASSUME bits \subseteq Bit, NEW set \in SUBSET Bit, NEW clear \in SUBSET Bit, Store(set, clear)
  PROVE  /\ bits' \subseteq Bit
         /\ ucb_mode = "I2C" => bits' = (bits \cup set) \ clear
BY DEF Store

Octet == Register \cup {NoOctet}

LEMMA UsciInitial == UsciInit => UsciKept
<1> SUFFICES ASSUME UsciInit PROVE UsciKept
  OBVIOUS
<1>1. call \in Call
  BY DEF UsciInit, NoCall, Call, Points
<1>2. UsciTypeOK
  BY <1>1 DEF UsciInit, UsciTypeOK, Bit
<1>3. Lengths
  BY DEF UsciInit, NoCall, Lengths, At
<1>4. OwnOctets
  BY DEF UsciInit, NoCall, OwnOctets
<1> QED
  BY <1>2, <1>3, <1>4 DEF UsciInit, UsciKept, SetUpFor, At, NoCall

LEMMA TransferKeeps ==
  ASSUME UsciKept, NEW t \in SensorTransfer, i2c_transfer(t.op, t.reg, t.len)
  PROVE  UsciKept' /\ call'.pc = "config"
<1>1. /\ call' \in Call /\ call'.pc = "config" /\ call'.left > 0 /\ call'.ret = "ok"
      /\ call'.data = <<>>
  BY DEF i2c_transfer, Call, Points, SensorTransfer
<1>2. UsciTypeOK'
  BY <1>1 DEF i2c_transfer, UsciTypeOK, UsciKept
<1>3. Lengths' /\ OwnOctets' /\ ~SetUpFor'
  BY <1>1 DEF Lengths, OwnOctets, SetUpFor, At
<1>4. ucb_mode' = "I2C" /\ ~late' => InStep'
  <2>1. ucb_mode = "I2C" /\ ~late => Quiet
    BY DEF UsciKept, InStep, i2c_transfer, At
  <2> QED
    BY <1>1, <2>1 DEF i2c_transfer, InStep, Quiet, At, IsSet
<1> QED
  BY <1>1, <1>2, <1>3, <1>4 DEF UsciKept

\* What the steps of a transfer leave alone.
LEMMA StepTypes ==
  ASSUME UsciTypeOK
  PROVE  /\ ucb_mode \in {"NONE", "SPI", "I2C"} /\ bits \subseteq Bit
         /\ loaded \in BOOLEAN /\ stolen \in BOOLEAN /\ late \in BOOLEAN
         /\ rxbuf \in Octet /\ line \in {"free", "address", "out", "in"}
         /\ call \in Call /\ call.left \in 0 .. 2 /\ call.pc \in Points
         /\ call.stale \in BOOLEAN /\ call.data \in Seq(Octet) /\ call.reg \in Octet
         /\ call.ret \in {"ok", "ERR_I2C_BUSY", "ERR_ADDR_NACK", "ERR_DATA_NACK"}
BY DEF UsciTypeOK, Call, Octet

LEMMA ConfigKeeps ==
  ASSUME UsciKept, CheckConfiguration
  PROVE  UsciKept' /\ ~At("idle")'
<1>1. UsciTypeOK /\ Lengths /\ At("config")
  BY DEF UsciKept, CheckConfiguration
<1>2. /\ ucb_mode' = "I2C" /\ bits' \subseteq Bit /\ loaded' \in BOOLEAN
      /\ late' \in BOOLEAN /\ rxbuf' = rxbuf /\ line' \in {"free", "address", "out", "in"}
  BY <1>1, StepTypes DEF CheckConfiguration, i2c_init, SetUp
<1>4. /\ call' \in Call /\ call'.op = call.op /\ call'.reg = call.reg /\ call'.left = call.left
      /\ call'.pc = "start" /\ call'.ret = call.ret /\ call'.data = call.data
      /\ call'.stale = late'
  <2>1. call' = [call EXCEPT !.pc = "start", !.stale = late'] /\ late' \in BOOLEAN /\ call \in Call
    BY <1>1, <1>2, StepTypes DEF CheckConfiguration
  <2> QED
    BY <2>1 DEF Call, Points
<1>5. UsciTypeOK'
  BY <1>1, <1>2, <1>4, StepTypes DEF CheckConfiguration, UsciTypeOK, Octet
<1>6. Lengths'
  BY <1>1, <1>4 DEF Lengths, At
<1>7. ~late' => Quiet'
  <2>1. CASE ucb_mode = "I2C"
    BY <1>1, <2>1 DEF CheckConfiguration, i2c_init, UsciKept, InStep, Quiet, IsSet, At
  <2>2. CASE ucb_mode # "I2C"
    BY <2>2 DEF CheckConfiguration, i2c_init, SetUp, Quiet, IsSet
  <2> QED
    BY <2>1, <2>2
<1>8. ~late' => InStep'
  BY <1>4, <1>7 DEF InStep, At
<1>9. OwnOctets'
  BY <1>1, <1>4 DEF OwnOctets, Lengths, At
<1> QED
  BY <1>2, <1>4, <1>5, <1>6, <1>7, <1>8, <1>9 DEF UsciKept, Quiet, At, IsSet

\* What a step of a transfer has to keep once the module is set up.
LEMMA StepKeeps ==
  ASSUME UsciKept, SetUpFor, UNCHANGED <<ucb_mode, rxbuf, line, stolen>>,
         bits' \subseteq Bit, loaded' \in BOOLEAN, late' \in BOOLEAN, late => late',
         call' \in Call, call'.reg = call.reg, call'.stale = call.stale,
         Lengths',
         OwnOctets /\ ~stolen /\ ~call.stale => OwnOctets',
         ucb_mode = "I2C" /\ IsSet("UCB0RXIFG")' => IsSet("UCB0RXIFG"),
         ucb_mode = "I2C" /\ ~late' /\ InStep => InStep'
  PROVE  UsciKept'
<1>1. UsciTypeOK'
  BY DEF UsciKept, UsciTypeOK
<1> QED
  BY <1>1 DEF UsciKept

LEMMA GotoKeeps ==
  ASSUME UsciTypeOK, NEW pc \in Points, Goto(pc)
  PROVE  /\ call' \in Call /\ call'.pc = pc /\ call'.op = call.op /\ call'.reg = call.reg
         /\ call'.left = call.left /\ call'.stale = call.stale /\ call'.ret = call.ret
         /\ call'.data = call.data
BY StepTypes DEF Goto, Call

LEMMA FailKeeps ==
  ASSUME UsciTypeOK, NEW ret \in {"ERR_I2C_BUSY", "ERR_ADDR_NACK", "ERR_DATA_NACK"}, Fail(ret)
  PROVE  /\ call' \in Call /\ call'.pc = "stp" /\ call'.op = call.op /\ call'.reg = call.reg
         /\ call'.left = call.left /\ call'.stale = call.stale /\ call'.ret = ret
         /\ call'.data = call.data
         /\ bits' \subseteq Bit
         /\ ucb_mode = "I2C" => bits' = bits \cup {"UCTXSTP"}
<1>1. call' = [call EXCEPT !.pc = "stp", !.ret = ret] /\ call \in Call /\ "stp" \in Points
  BY StepTypes DEF Fail, Points
<1>2. /\ bits' \subseteq Bit
      /\ ucb_mode = "I2C" => bits' = (bits \cup {"UCTXSTP"}) \ {}
  <2>1. {"UCTXSTP"} \in SUBSET Bit /\ {} \in SUBSET Bit /\ bits \subseteq Bit
    BY StepTypes DEF Bit
  <2> QED
    BY <2>1, Stores DEF Fail
<1> QED
  BY <1>1, <1>2 DEF Call

LEMMA BusBusyKeeps ==
  ASSUME UsciKept, BusBusy
  PROVE  UsciKept' /\ call'.ret # "ok"
<1>1. UsciTypeOK /\ Lengths /\ At("start") /\ SetUpFor
  BY DEF UsciKept, BusBusy, At, SetUpFor
<1>2. /\ call' \in Call /\ call'.pc = "idle" /\ call'.reg = call.reg /\ call'.stale = call.stale
      /\ call'.data = call.data /\ call'.ret = "ERR_I2C_BUSY"
  <2>1. call' = [call EXCEPT !.pc = "idle", !.ret = "ERR_I2C_BUSY"] /\ call \in Call /\ "idle" \in Points
    BY <1>1, StepTypes DEF BusBusy, Points
  <2> QED
    BY <2>1 DEF Call
<1>3. Lengths'
  BY <1>2 DEF Lengths, At
<1>4. InStep => InStep'
  BY <1>1, <1>2 DEF BusBusy, InStep, Quiet, At, IsSet
<1>5. OwnOctets => OwnOctets'
  BY <1>2 DEF OwnOctets
<1> QED
  BY <1>1, <1>2, <1>3, <1>4, <1>5, StepTypes, StepKeeps DEF BusBusy, IsSet

LEMMA StartKeeps ==
  ASSUME UsciKept, StartCondition
  PROVE  UsciKept' /\ ~At("idle")'
<1>1. UsciTypeOK /\ Lengths /\ At("start") /\ SetUpFor /\ bits \subseteq Bit
  BY StepTypes DEF UsciKept, StartCondition, At, SetUpFor
<1>2. {"first", "stt_in"} \subseteq Points
  BY DEF Points
<1>3. {"UCTXSTT"} \in SUBSET Bit /\ {"UCTR"} \in SUBSET Bit /\ {"UCTXSTT", "UCTR"} \in SUBSET Bit
      /\ {} \in SUBSET Bit
  BY DEF Bit
<1>4. /\ call' \in Call /\ call'.op = call.op /\ call'.reg = call.reg /\ call'.left = call.left
      /\ call'.stale = call.stale /\ call'.ret = call.ret /\ call'.data = call.data
      /\ call'.pc = (IF call.op = "read" THEN "stt_in" ELSE "first")
  <2>1. CASE call.op = "read"
    BY <1>1, <1>2, <2>1, GotoKeeps DEF StartCondition
  <2>2. CASE call.op # "read"
    BY <1>1, <1>2, <2>2, GotoKeeps DEF StartCondition
  <2> QED
    BY <2>1, <2>2
<1>5. /\ bits' \subseteq Bit
      /\ ucb_mode = "I2C" =>
           bits' = (IF call.op = "read" THEN (bits \cup {"UCTXSTT"}) \ {"UCTR"}
                    ELSE (bits \cup {"UCTXSTT", "UCTR"}) \ {})
  <2>1. CASE call.op = "read"
    BY <1>1, <1>3, <2>1, Stores DEF StartCondition
  <2>2. CASE call.op # "read"
    BY <1>1, <1>3, <2>2, Stores DEF StartCondition
  <2> QED
    BY <2>1, <2>2
<1>6. Lengths'
  BY <1>1, <1>4 DEF Lengths, At
<1>7. ucb_mode = "I2C" /\ IsSet("UCB0RXIFG")' => IsSet("UCB0RXIFG")
  BY <1>5 DEF IsSet
<1>8. ucb_mode = "I2C" /\ InStep => InStep'
  <2>1. SUFFICES ASSUME ucb_mode = "I2C", Quiet PROVE InStep'
    BY <1>1 DEF InStep, At
  <2>2. line' = line
    BY DEF StartCondition
  <2>3. CASE call.op = "read"
    <3>1. TurnsRound'
      BY <1>5, <2>1, <2>2, <2>3 DEF TurnsRound, Quiet, IsSet
    <3> QED
      BY <1>4, <2>3, <3>1 DEF InStep, At
  <2>4. CASE call.op # "read"
    <3>1. Sends'
      BY <1>5, <2>1, <2>2, <2>4 DEF Sends, Quiet, IsSet
    <3> QED
      BY <1>4, <2>4, <3>1 DEF InStep, At
  <2> QED
    BY <2>3, <2>4
<1>9. OwnOctets => OwnOctets'
  BY <1>4 DEF OwnOctets
<1>10. UNCHANGED <<ucb_mode, rxbuf, line, stolen, loaded, late>> /\ loaded \in BOOLEAN /\ late \in BOOLEAN
  BY <1>1, StepTypes DEF StartCondition
<1> QED
  BY <1>1, <1>4, <1>5, <1>6, <1>7, <1>8, <1>9, <1>10, StepKeeps DEF At

LEMMA FirstKeeps ==
  ASSUME UsciKept, FirstOctet
  PROVE  UsciKept' /\ ~At("idle")'
<1>1. UsciTypeOK /\ Lengths /\ At("first") /\ SetUpFor /\ bits \subseteq Bit /\ call.left \in 1 .. 2
  BY StepTypes DEF UsciKept, FirstOctet, At, SetUpFor, Lengths
<1> DEFINE n == IF call.op = "write" THEN call.left - 1 ELSE call.left
<1>2. n \in 0 .. 2 /\ (call.op # "write" => n = call.left)
  BY <1>1
<1>3. call' = [call EXCEPT !.pc = "stt", !.left = n] /\ call \in Call /\ "stt" \in Points
  BY <1>1, StepTypes DEF FirstOctet, Points
<1> HIDE DEF n
<1>4. /\ call' \in Call /\ call'.op = call.op /\ call'.reg = call.reg /\ call'.left = n
      /\ call'.stale = call.stale /\ call'.ret = call.ret /\ call'.data = call.data
      /\ call'.pc = "stt"
  BY <1>2, <1>3 DEF Call
<1>5. Lengths'
  BY <1>1, <1>2, <1>4 DEF Lengths, At
<1>6. /\ bits' = bits \ {"UCB0TXIFG"} /\ loaded' = TRUE
      /\ UNCHANGED <<ucb_mode, rxbuf, line, stolen, late>> /\ late \in BOOLEAN
  BY <1>1, StepTypes DEF FirstOctet
<1>7. InStep => InStep'
  BY <1>1, <1>4, <1>6 DEF InStep, Sends, At, IsSet
<1>8. OwnOctets => OwnOctets'
  BY <1>4 DEF OwnOctets
<1> QED
  BY <1>1, <1>4, <1>5, <1>6, <1>7, <1>8, StepKeeps DEF At, IsSet

LEMMA AddressSentKeeps ==
  ASSUME UsciKept, AddressSent
  PROVE  UsciKept' /\ ~At("idle")'
<1>1. UsciTypeOK /\ Lengths /\ At("stt") /\ SetUpFor /\ bits \subseteq Bit /\ ~IsSet("UCTXSTT")
  BY StepTypes DEF UsciKept, AddressSent, At, SetUpFor
<1>2. UNCHANGED <<ucb_mode, rxbuf, line, stolen, loaded, late>> /\ loaded \in BOOLEAN /\ late \in BOOLEAN
  BY <1>1, StepTypes DEF AddressSent
<1>3. CASE IsSet("UCNACKIFG")
  <2>1. /\ call' \in Call /\ call'.pc = "stp" /\ call'.op = call.op /\ call'.reg = call.reg
        /\ call'.left = call.left /\ call'.stale = call.stale /\ call'.ret = "ERR_ADDR_NACK"
        /\ call'.data = call.data
        /\ bits' \subseteq Bit
        /\ ucb_mode = "I2C" => bits' = bits \cup {"UCTXSTP"}
    BY <1>1, <1>3, FailKeeps DEF AddressSent
  <2>2. Lengths'
    BY <2>1 DEF Lengths, At
  <2>3. ucb_mode = "I2C" /\ InStep => InStep'
    BY <1>1, <1>2, <2>1 DEF InStep, Sends, Stops, At, IsSet
  <2>4. OwnOctets => OwnOctets'
    BY <2>1 DEF OwnOctets
  <2> QED
    BY <1>1, <1>2, <2>1, <2>2, <2>3, <2>4, StepKeeps DEF At, IsSet
<1>4. CASE ~IsSet("UCNACKIFG")
  <2> DEFINE pc == IF call.op = "write" THEN "next" ELSE "restart"
  <2>1. pc \in Points /\ Goto(pc) /\ bits' = bits
    BY <1>4 DEF AddressSent, Points
  <2>2. /\ call' \in Call /\ call'.pc = pc /\ call'.op = call.op /\ call'.reg = call.reg
        /\ call'.left = call.left /\ call'.stale = call.stale /\ call'.ret = call.ret
        /\ call'.data = call.data
    BY <1>1, <2>1, GotoKeeps
  <2>3. Lengths'
    BY <1>1, <2>2 DEF Lengths, At
  <2>4. InStep => InStep'
    BY <1>1, <1>2, <2>1, <2>2 DEF InStep, Sends, HasSent, At, IsSet
  <2>5. OwnOctets => OwnOctets'
    BY <2>2 DEF OwnOctets
  <2> QED
    BY <1>1, <1>2, <2>1, <2>2, <2>3, <2>4, <2>5, StepKeeps DEF At, IsSet
<1> QED
  BY <1>3, <1>4

LEMMA NextOctetKeeps ==
  ASSUME UsciKept, NextOctet
  PROVE  UsciKept' /\ ~At("idle")'
<1>1. UsciTypeOK /\ Lengths /\ At("next") /\ SetUpFor /\ bits \subseteq Bit /\ call.op = "write"
  BY StepTypes DEF UsciKept, NextOctet, At, SetUpFor, Lengths
<1>2. UNCHANGED <<ucb_mode, rxbuf, line, stolen, late>> /\ loaded \in BOOLEAN /\ late \in BOOLEAN
  BY <1>1, StepTypes DEF NextOctet
<1>3. CASE IsSet("UCNACKIFG")
  <2>1. /\ call' \in Call /\ call'.pc = "stp" /\ call'.op = call.op /\ call'.reg = call.reg
        /\ call'.left = call.left /\ call'.stale = call.stale /\ call'.ret = "ERR_DATA_NACK"
        /\ call'.data = call.data
        /\ bits' \subseteq Bit
        /\ ucb_mode = "I2C" => bits' = bits \cup {"UCTXSTP"}
    BY <1>1, <1>3, FailKeeps DEF NextOctet
  <2>2. Lengths'
    BY <2>1 DEF Lengths, At
  <2>3. ucb_mode = "I2C" /\ InStep => InStep'
    BY <1>1, <1>2, <2>1 DEF InStep, HasSent, Stops, At, IsSet
  <2>4. OwnOctets => OwnOctets'
    BY <2>1 DEF OwnOctets
  <2>5. loaded' = loaded
    BY <1>3 DEF NextOctet
  <2> QED
    BY <1>1, <1>2, <2>1, <2>2, <2>3, <2>4, <2>5, StepKeeps DEF At, IsSet
<1>4. CASE ~IsSet("UCNACKIFG") /\ call.left = 0
  <2>1. "stp" \in Points /\ {"UCTXSTP"} \in SUBSET Bit /\ {} \in SUBSET Bit
    BY DEF Points, Bit
  <2>2. Goto("stp") /\ Store({"UCTXSTP"}, {}) /\ loaded' = loaded
    BY <1>4 DEF NextOctet
  <2>3. /\ call' \in Call /\ call'.pc = "stp" /\ call'.op = call.op /\ call'.reg = call.reg
        /\ call'.left = call.left /\ call'.stale = call.stale /\ call'.ret = call.ret
        /\ call'.data = call.data
    BY <1>1, <2>1, <2>2, GotoKeeps
  <2>4. /\ bits' \subseteq Bit
        /\ ucb_mode = "I2C" => bits' = (bits \cup {"UCTXSTP"}) \ {}
    BY <1>1, <2>1, <2>2, Stores
  <2>5. Lengths'
    BY <1>1, <2>3 DEF Lengths, At
  <2>6. ucb_mode = "I2C" /\ InStep => InStep'
    BY <1>1, <1>2, <2>3, <2>4 DEF InStep, HasSent, Stops, At, IsSet
  <2>7. OwnOctets => OwnOctets'
    BY <2>3 DEF OwnOctets
  <2> QED
    BY <1>1, <1>2, <2>2, <2>3, <2>4, <2>5, <2>6, <2>7, StepKeeps DEF At, IsSet
<1>5. CASE ~IsSet("UCNACKIFG") /\ call.left # 0
  <2>1. call.left - 1 \in 0 .. 2 /\ call \in Call
    BY <1>1, <1>5, StepTypes
  <2>2. /\ bits' = bits \ {"UCB0TXIFG"} /\ loaded' = TRUE
        /\ call' = [call EXCEPT !.left = call.left - 1]
    BY <1>5 DEF NextOctet
  <2>3. /\ call' \in Call /\ call'.pc = call.pc /\ call'.op = call.op /\ call'.reg = call.reg
        /\ call'.stale = call.stale /\ call'.ret = call.ret /\ call'.data = call.data
    BY <2>1, <2>2 DEF Call
  <2>4. Lengths'
    BY <1>1, <2>3 DEF Lengths, At
  <2>5. InStep => InStep'
    BY <1>1, <1>2, <2>2, <2>3 DEF InStep, HasSent, At, IsSet
  <2>6. OwnOctets => OwnOctets'
    BY <2>3 DEF OwnOctets
  <2> QED
    BY <1>1, <1>2, <2>2, <2>3, <2>4, <2>5, <2>6, StepKeeps DEF At, IsSet
<1> QED
  BY <1>3, <1>4, <1>5

LEMMA RestartKeeps ==
  ASSUME UsciKept, Restart
  PROVE  UsciKept' /\ ~At("idle")'
<1>1. UsciTypeOK /\ Lengths /\ At("restart") /\ SetUpFor /\ bits \subseteq Bit
  BY StepTypes DEF UsciKept, Restart, At, SetUpFor
<1>2. UNCHANGED <<ucb_mode, rxbuf, line, stolen, loaded, late>> /\ loaded \in BOOLEAN /\ late \in BOOLEAN
  BY <1>1, StepTypes DEF Restart
<1>3. "stt_in" \in Points /\ {"UCTXSTT"} \in SUBSET Bit /\ {"UCTR", "UCB0TXIFG"} \in SUBSET Bit
  BY DEF Points, Bit
<1>4. /\ call' \in Call /\ call'.pc = "stt_in" /\ call'.op = call.op /\ call'.reg = call.reg
      /\ call'.left = call.left /\ call'.stale = call.stale /\ call'.ret = call.ret
      /\ call'.data = call.data
  BY <1>1, <1>3, GotoKeeps DEF Restart
<1>5. /\ bits' \subseteq Bit
      /\ ucb_mode = "I2C" => bits' = (bits \cup {"UCTXSTT"}) \ {"UCTR", "UCB0TXIFG"}
  BY <1>1, <1>3, Stores DEF Restart
<1>6. Lengths'
  BY <1>1, <1>4 DEF Lengths, At
<1>7. ucb_mode = "I2C" /\ InStep => InStep'
  <2>1. ucb_mode = "I2C" /\ HasSent => TurnsRound'
    BY <1>2, <1>5 DEF HasSent, TurnsRound, IsSet
  <2> QED
    BY <1>1, <1>4, <2>1 DEF InStep, At
<1>8. OwnOctets => OwnOctets'
  BY <1>4 DEF OwnOctets
<1>9. ucb_mode = "I2C" /\ IsSet("UCB0RXIFG")' => IsSet("UCB0RXIFG")
  BY <1>5 DEF IsSet
<1> QED
  BY <1>1, <1>2, <1>4, <1>5, <1>6, <1>7, <1>8, <1>9, StepKeeps DEF At

LEMMA AddressSentInKeeps ==
  ASSUME UsciKept, AddressSentIn
  PROVE  UsciKept' /\ ~At("idle")'
<1>1. /\ UsciTypeOK /\ Lengths /\ At("stt_in") /\ SetUpFor /\ bits \subseteq Bit
      /\ ~IsSet("UCTXSTT") /\ call.left \in 1 .. 2
  BY StepTypes DEF UsciKept, AddressSentIn, At, SetUpFor, Lengths
<1>2. UNCHANGED <<ucb_mode, rxbuf, line, stolen, loaded, late>> /\ loaded \in BOOLEAN /\ late \in BOOLEAN
  BY <1>1, StepTypes DEF AddressSentIn
<1>3. CASE IsSet("UCNACKIFG")
  <2>1. /\ call' \in Call /\ call'.pc = "stp" /\ call'.op = call.op /\ call'.reg = call.reg
        /\ call'.left = call.left /\ call'.stale = call.stale /\ call'.ret = "ERR_ADDR_NACK"
        /\ call'.data = call.data
        /\ bits' \subseteq Bit
        /\ ucb_mode = "I2C" => bits' = bits \cup {"UCTXSTP"}
    BY <1>1, <1>3, FailKeeps DEF AddressSentIn
  <2>2. Lengths'
    BY <2>1 DEF Lengths, At
  <2>3. ucb_mode = "I2C" /\ InStep => InStep'
    <3>1. ucb_mode = "I2C" /\ TurnsRound => Stops'
      BY <1>1, <1>2, <1>3, <2>1 DEF TurnsRound, Stops, IsSet
    <3> QED
      BY <1>1, <2>1, <3>1 DEF InStep, At
  <2>4. OwnOctets => OwnOctets'
    BY <2>1 DEF OwnOctets
  <2>5. ucb_mode = "I2C" /\ IsSet("UCB0RXIFG")' => IsSet("UCB0RXIFG")
    BY <2>1 DEF IsSet
  <2> QED
    BY <1>1, <1>2, <2>1, <2>2, <2>3, <2>4, <2>5, StepKeeps DEF At
<1>4. CASE ~IsSet("UCNACKIFG")
  <2> DEFINE pc == IF MoreThanTheLast(call.left) THEN "in" ELSE "stop"
  <2>1. pc \in Points /\ Goto(pc) /\ bits' = bits
    BY <1>4 DEF AddressSentIn, Points
  <2>2. /\ call' \in Call /\ call'.pc = pc /\ call'.op = call.op /\ call'.reg = call.reg
        /\ call'.left = call.left /\ call'.stale = call.stale /\ call'.ret = call.ret
        /\ call'.data = call.data
    BY <1>1, <2>1, GotoKeeps
  <2>3. Lengths'
    BY <1>1, <2>2 DEF Lengths, At, MoreThanTheLast
  <2>4. InStep => InStep'
    <3>1. TurnsRound => Receives'
      BY <1>1, <1>2, <1>4, <2>1 DEF TurnsRound, Receives, IsSet
    <3> QED
      BY <1>1, <2>2, <3>1 DEF InStep, At
  <2>5. OwnOctets => OwnOctets'
    BY <2>2 DEF OwnOctets
  <2> QED
    BY <1>1, <1>2, <2>1, <2>2, <2>3, <2>4, <2>5, StepKeeps DEF At, IsSet
<1> QED
  BY <1>3, <1>4

\* Reading an octet, at "in" or at "last".
LEMMA ReadKeeps ==
  ASSUME UsciKept, NEW pc \in {"in", "stop", "stp"}, ReadOctet(pc),
         SetUpFor, call.left > 0,
         pc \in {"in", "stop"} => call.left > 1 /\ At("in"),
         pc = "in" => call.left - 1 > 1,
         pc = "stp" => At("last")
  PROVE  UsciKept' /\ ~At("idle")'
<1>1. UsciTypeOK /\ Lengths /\ bits \subseteq Bit /\ call.left \in 1 .. 2 /\ rxbuf \in Octet
      /\ call \in Call /\ call.data \in Seq(Octet)
  BY StepTypes DEF UsciKept
<1>2. UNCHANGED <<ucb_mode, rxbuf, line, stolen, loaded, late>> /\ loaded \in BOOLEAN /\ late \in BOOLEAN
  BY <1>1, StepTypes DEF ReadOctet
<1>3. PICK data \in Seq(Octet) : data = Append(call.data, rxbuf)
  BY <1>1, AppendProperties
<1>4. /\ data # <<>> /\ Len(data) = Len(call.data) + 1
      /\ \A i \in DOMAIN data : data[i] = IF i \in DOMAIN call.data THEN call.data[i] ELSE rxbuf
  BY <1>1, <1>3
<1>5. PICK n \in 0 .. 2 : n = call.left - 1
  BY <1>1
<1>6. call' = [call EXCEPT !.pc = pc, !.left = n, !.data = data] /\ pc \in Points
  BY <1>3, <1>5 DEF ReadOctet, Points
<1>7. /\ call' \in Call /\ call'.pc = pc /\ call'.op = call.op /\ call'.reg = call.reg
      /\ call'.left = n /\ call'.stale = call.stale /\ call'.ret = call.ret
      /\ call'.data = data
  <2>1. call.ret \in {"ok", "ERR_I2C_BUSY", "ERR_ADDR_NACK", "ERR_DATA_NACK"} /\ call.stale \in BOOLEAN
    BY <1>1, StepTypes
  <2> QED
    <3>1. /\ call \in Call /\ n \in 0 .. 2 /\ pc \in Points /\ data \in Seq(Octet)
          /\ call.stale \in BOOLEAN
          /\ call.ret \in {"ok", "ERR_I2C_BUSY", "ERR_ADDR_NACK", "ERR_DATA_NACK"}
      BY <1>1, <1>3, <1>5, <1>6, <2>1
    <3> QED
      BY ONLY <3>1, <1>6 DEF Call, Octet
<1>8. bits' = bits \ {"UCB0RXIFG"} /\ IsSet("UCB0RXIFG")
  BY DEF ReadOctet
<1>9. Lengths'
  BY <1>1, <1>4, <1>5, <1>7 DEF Lengths, At
<1>10. OwnOctets /\ ~stolen /\ ~call.stale => OwnOctets'
  <2>1. ~stolen /\ ~call.stale => rxbuf = call.reg
    BY <1>8 DEF UsciKept
  <2> QED
    BY <1>4, <1>7, <2>1 DEF OwnOctets
<1>11. InStep => InStep'
  <2>1. CASE pc \in {"in", "stop"}
    <3>1. Receives => Receives'
      BY <1>2, <1>8 DEF Receives, IsSet
    <3> QED
      BY <1>7, <2>1, <3>1 DEF InStep, At
  <2>2. CASE pc = "stp"
    <3>1. ReceivesLast => Stops'
      BY <1>2, <1>8 DEF ReceivesLast, Stops, IsSet
    <3> QED
      BY <1>7, <2>2, <3>1 DEF InStep, At
  <2> QED
    BY <2>1, <2>2
<1>12. ~IsSet("UCB0RXIFG")' /\ bits' \subseteq Bit
  BY <1>1, <1>8 DEF IsSet
<1>13. UsciKept'
  BY <1>2, <1>7, <1>9, <1>10, <1>11, <1>12, StepKeeps
<1> QED
  BY <1>7, <1>13 DEF At

LEMMA StopKeeps ==
  ASSUME UsciKept, Stop
  PROVE  UsciKept' /\ ~At("idle")'
<1>1. UsciTypeOK /\ Lengths /\ At("stop") /\ SetUpFor /\ bits \subseteq Bit
  BY StepTypes DEF UsciKept, Stop, At, SetUpFor
<1>2. /\ UNCHANGED <<ucb_mode, rxbuf, line, stolen, loaded>> /\ loaded \in BOOLEAN
      /\ late \in BOOLEAN /\ late' = (late \/ IsSet("UCB0RXIFG"))
  BY <1>1, StepTypes DEF Stop
<1>3. late' \in BOOLEAN
  BY <1>2 DEF IsSet
<1>11. ~late' => ~IsSet("UCB0RXIFG")
  BY <1>2, Zenon
<1>4. "last" \in Points /\ {"UCTXSTP"} \in SUBSET Bit /\ {} \in SUBSET Bit
  BY DEF Points, Bit
<1>5. /\ call' \in Call /\ call'.pc = "last" /\ call'.op = call.op /\ call'.reg = call.reg
      /\ call'.left = call.left /\ call'.stale = call.stale /\ call'.ret = call.ret
      /\ call'.data = call.data
  BY <1>1, <1>4, GotoKeeps DEF Stop
<1>6. /\ bits' \subseteq Bit
      /\ ucb_mode = "I2C" => bits' = (bits \cup {"UCTXSTP"}) \ {}
  BY <1>1, <1>4, Stores DEF Stop
<1>7. Lengths'
  BY <1>1, <1>5 DEF Lengths, At
<1>8. ucb_mode = "I2C" /\ ~late' /\ InStep => InStep'
  <2>1. ucb_mode = "I2C" /\ ~late' /\ Receives => ReceivesLast'
    BY <1>2, <1>6, <1>11 DEF Receives, ReceivesLast, IsSet
  <2> QED
    BY <1>1, <1>5, <2>1 DEF InStep, At
<1>9. OwnOctets => OwnOctets'
  BY <1>5 DEF OwnOctets
<1>10. ucb_mode = "I2C" /\ IsSet("UCB0RXIFG")' => IsSet("UCB0RXIFG")
  BY <1>6 DEF IsSet
<1> QED
  BY <1>1, <1>2, <1>3, <1>5, <1>6, <1>7, <1>8, <1>9, <1>10, StepKeeps DEF At

LEMMA ReturnKeeps ==
  ASSUME UsciKept, Return
  PROVE  UsciKept' /\ call'.ret = call.ret /\ call'.data = call.data /\ At("stp")
<1>1. UsciTypeOK /\ Lengths /\ At("stp") /\ SetUpFor /\ bits \subseteq Bit /\ ~IsSet("UCTXSTP")
  BY StepTypes DEF UsciKept, Return, At, SetUpFor
<1>2. UNCHANGED <<ucb_mode, bits, rxbuf, line, stolen, loaded, late>> /\ loaded \in BOOLEAN /\ late \in BOOLEAN
  BY <1>1, StepTypes DEF Return
<1>3. "idle" \in Points
  BY DEF Points
<1>4. /\ call' \in Call /\ call'.pc = "idle" /\ call'.op = call.op /\ call'.reg = call.reg
      /\ call'.left = call.left /\ call'.stale = call.stale /\ call'.ret = call.ret
      /\ call'.data = call.data
  BY <1>1, <1>3, GotoKeeps DEF Return
<1>5. Lengths'
  BY <1>4 DEF Lengths, At
<1>6. InStep => InStep'
  <2>1. Stops => Quiet'
    BY <1>1, <1>2 DEF Stops, Quiet, IsSet
  <2> QED
    BY <1>1, <1>4, <2>1 DEF InStep, At
<1>7. OwnOctets => OwnOctets'
  BY <1>4 DEF OwnOctets
<1> QED
  BY <1>1, <1>2, <1>4, <1>5, <1>6, <1>7, StepKeeps DEF IsSet

LEMMA I2cStepKeeps ==
  ASSUME UsciKept, I2cStep
  PROVE  /\ UsciKept' /\ ~At("idle")
         /\ At("idle")' /\ call'.ret = "ok" => At("stp") /\ call.ret = "ok" /\ call'.data = call.data
<1>1. CASE CheckConfiguration
  BY <1>1, ConfigKeeps DEF CheckConfiguration, At
<1>2. CASE BusBusy
  BY <1>2, BusBusyKeeps DEF BusBusy, At
<1>3. CASE StartCondition
  BY <1>3, StartKeeps DEF StartCondition, At
<1>4. CASE FirstOctet
  BY <1>4, FirstKeeps DEF FirstOctet, At
<1>5. CASE AddressSent
  BY <1>5, AddressSentKeeps DEF AddressSent, At
<1>6. CASE NextOctet
  BY <1>6, NextOctetKeeps DEF NextOctet, At
<1>7. CASE Restart
  BY <1>7, RestartKeeps DEF Restart, At
<1>8. CASE AddressSentIn
  BY <1>8, AddressSentInKeeps DEF AddressSentIn, At
<1>9. CASE InOctet
  <2>1. At("in") /\ SetUpFor /\ call.left \in 0 .. 2 /\ call.left > 1
    BY <1>9, StepTypes DEF InOctet, At, SetUpFor, UsciKept, Lengths
  <2> DEFINE pc == IF MoreThanTheLast(call.left - 1) THEN "in" ELSE "stop"
  <2>2. /\ pc \in {"in", "stop", "stp"} /\ ReadOctet(pc) /\ pc # "stp"
        /\ pc = "in" => call.left - 1 > 1
    BY <1>9 DEF InOctet, MoreThanTheLast
  <2> HIDE DEF pc
  <2>3. UsciKept' /\ ~At("idle")'
    BY <2>1, <2>2, ReadKeeps
  <2> QED
    BY <2>1, <2>3 DEF At
<1>10. CASE Stop
  BY <1>10, StopKeeps DEF Stop, At
<1>11. CASE LastOctet
  <2>1. At("last") /\ SetUpFor /\ call.left \in 0 .. 2 /\ call.left > 0 /\ ReadOctet("stp")
    BY <1>11, StepTypes DEF LastOctet, At, SetUpFor, UsciKept, Lengths
  <2>2. UsciKept' /\ ~At("idle")'
    BY <2>1, ReadKeeps
  <2> QED
    BY <2>1, <2>2 DEF At
<1>12. CASE Return
  BY <1>12, ReturnKeeps DEF Return, At
<1> QED
  BY <1>1, <1>2, <1>3, <1>4, <1>5, <1>6, <1>7, <1>8, <1>9, <1>10, <1>11, <1>12 DEF I2cStep

\* The module's and the slave's steps.
LEMMA UsciStepKeeps ==
  ASSUME UsciKept, UsciStep
  PROVE  UsciKept' /\ call' = call
<1>1. /\ UsciTypeOK /\ Lengths /\ bits \subseteq Bit /\ call \in Call /\ rxbuf \in Octet
      /\ call.reg \in Octet /\ loaded \in BOOLEAN
  BY StepTypes DEF UsciKept
<1>2. UNCHANGED <<ucb_mode, call, stolen, late>>
  BY DEF UsciStep, SendsStart, SendsAddress, SendsOctet, ReceivesOctet, SendsStop, SendsSpiOctet
<1>3. Lengths' /\ (OwnOctets' <=> OwnOctets) /\ (SetUpFor' <=> SetUpFor)
  BY <1>1, <1>2 DEF Lengths, OwnOctets, SetUpFor, At
<1>4. UsciTypeOK'
  <2>1. /\ bits' \subseteq Bit /\ loaded' \in BOOLEAN /\ rxbuf' \in Octet
        /\ line' \in {"free", "address", "out", "in"}
    <3>1. CASE SendsStart
      BY <1>1, <3>1 DEF SendsStart, Bit
    <3>2. CASE SendsAddress
      BY <1>1, <3>2 DEF SendsAddress, Bit
    <3>3. CASE SendsOctet
      BY <1>1, <3>3, StepTypes DEF SendsOctet, Bit
    <3>4. CASE ReceivesOctet
      BY <1>1, <3>4 DEF ReceivesOctet, Bit
    <3>5. CASE SendsStop
      BY <1>1, <3>5 DEF SendsStop
    <3>6. CASE SendsSpiOctet
      BY <1>1, <3>6, StepTypes DEF SendsSpiOctet, Bit, Octet
    <3> QED
      BY <3>1, <3>2, <3>3, <3>4, <3>5, <3>6 DEF UsciStep
  <2> QED
    BY <1>1, <1>2, <2>1, StepTypes DEF UsciTypeOK, Octet
<1>5. CASE ucb_mode # "I2C"
  BY <1>2, <1>3, <1>4, <1>5 DEF UsciKept
<1>6. CASE ucb_mode = "I2C"
  <2>1. SetUpFor /\ ~call.stale /\ IsSet("UCB0RXIFG")' => rxbuf' = call.reg
    <3>1. CASE ReceivesOctet
      BY <3>1 DEF ReceivesOctet
    <3>2. CASE ~ReceivesOctet
      <4>1. rxbuf' = rxbuf /\ (IsSet("UCB0RXIFG")' => IsSet("UCB0RXIFG"))
        BY <1>6, <3>2
           DEF UsciStep, SendsStart, SendsAddress, SendsOctet, SendsStop, SendsSpiOctet, IsSet
      <4> QED
        BY <1>6, <4>1 DEF UsciKept
    <3> QED
      BY <3>1, <3>2
  <2>2. ASSUME ~late PROVE InStep'
    <3>1. InStep
      BY <1>6, <2>2 DEF UsciKept
    <3> DEFINE pc == call.pc
    <3>2. call' = call
      BY <1>2
    <3>3. SUFFICES /\ (Quiet => Quiet') /\ (Sends => Sends') /\ (HasSent => HasSent')
                   /\ (TurnsRound => TurnsRound') /\ (Receives => Receives')
                   /\ (ReceivesLast => ReceivesLast') /\ (Stops => Stops')
      BY <3>1, <3>2 DEF InStep, At
    <3>4. CASE SendsStart
      BY <3>4 DEF SendsStart, Quiet, Sends, HasSent, TurnsRound, Receives, ReceivesLast, Stops, IsSet
    <3>5. CASE SendsAddress
      <4>1. /\ (Quiet => Quiet') /\ (HasSent => HasSent') /\ (Receives => Receives')
            /\ (ReceivesLast => ReceivesLast') /\ (Stops => Stops')
        BY <3>5 DEF SendsAddress, Quiet, HasSent, Receives, ReceivesLast, Stops, IsSet
      <4>2. Sends => Sends'
        BY <3>5 DEF SendsAddress, Sends, IsSet
      <4>3. TurnsRound => TurnsRound'
        BY <3>5 DEF SendsAddress, TurnsRound, IsSet
      <4> QED
        BY <4>1, <4>2, <4>3
    <3>6. CASE SendsOctet
      BY <3>6 DEF SendsOctet, Quiet, Sends, HasSent, TurnsRound, Receives, ReceivesLast, Stops, IsSet
    <3>7. CASE ReceivesOctet
      BY <3>7 DEF ReceivesOctet, Quiet, Sends, HasSent, TurnsRound, Receives, ReceivesLast, Stops, IsSet
    <3>8. CASE SendsStop
      BY <3>8 DEF SendsStop, Quiet, Sends, HasSent, TurnsRound, Receives, ReceivesLast, Stops, IsSet
    <3>9. CASE SendsSpiOctet
      BY <1>6, <3>9 DEF SendsSpiOctet
    <3> QED
      BY <3>4, <3>5, <3>6, <3>7, <3>8, <3>9 DEF UsciStep
  <2> QED
    BY <1>2, <1>3, <1>4, <1>6, <2>1, <2>2 DEF UsciKept
<1> QED
  BY <1>2, <1>5, <1>6

\* The radio takes the module: a transfer it meets is stolen, ...
LEMMA SpiTransfersKeeps ==
  ASSUME UsciKept, SpiTransfers
  PROVE  UsciKept' /\ call' = call
<1>1. UsciTypeOK /\ Lengths /\ bits \subseteq Bit /\ call \in Call /\ rxbuf \in Octet
  BY StepTypes DEF UsciKept
<1>2. /\ call' = call /\ stolen' = (stolen \/ InTransfer) /\ ucb_mode' = "SPI"
      /\ rxbuf' = rxbuf /\ loaded' = FALSE
  BY DEF SpiTransfers, SetUp
<1>3. Lengths' /\ (OwnOctets' <=> OwnOctets) /\ (SetUpFor' => InTransfer)
  BY <1>1, <1>2 DEF Lengths, OwnOctets, SetUpFor, At, InTransfer
<1>4. stolen' \in BOOLEAN /\ (stolen => stolen') /\ (InTransfer => stolen')
  BY <1>1, <1>2, StepTypes DEF InTransfer
<1>5. UsciTypeOK'
  <2>1. bits' \subseteq Bit /\ line' \in {"free", "address", "out", "in"} /\ late' \in BOOLEAN
    BY <1>1, StepTypes DEF SpiTransfers, SetUp, Bit
  <2> QED
    BY <1>1, <1>2, <1>4, <2>1 DEF UsciTypeOK, Octet
<1> QED
  BY <1>2, <1>3, <1>4, <1>5 DEF UsciKept

\* ... and the main program, which sends, is in none.
LEMMA SelectKeeps ==
  ASSUME UsciKept, ~InTransfer, spi_select_radio, UNCHANGED <<call, stolen>>
  PROVE  UsciKept'
<1>1. UsciTypeOK /\ Lengths /\ bits \subseteq Bit /\ call \in Call /\ rxbuf \in Octet /\ stolen \in BOOLEAN
  BY StepTypes DEF UsciKept
<1>2. /\ ucb_mode' = "SPI" /\ rxbuf' = rxbuf
      /\ bits' \subseteq Bit /\ line' \in {"free", "address", "out", "in"}
      /\ late' \in BOOLEAN /\ loaded' \in BOOLEAN
  BY <1>1, StepTypes DEF spi_select_radio, SetUp, Bit
<1>3. Lengths' /\ (OwnOctets' <=> OwnOctets) /\ ~SetUpFor'
  BY <1>1 DEF Lengths, OwnOctets, SetUpFor, At, InTransfer
<1>4. UsciTypeOK'
  BY <1>1, <1>2 DEF UsciTypeOK, Octet
<1> QED
  BY <1>2, <1>3, <1>4 DEF UsciKept

\* A call that is no transfer.
LEMMA ForgetKeeps ==
  ASSUME UsciKept, ~InTransfer, call' = NoCall,
         UNCHANGED <<ucb_mode, bits, loaded, rxbuf, line, stolen, late>>
  PROVE  UsciKept'
<1>1. call' \in Call /\ call'.pc = "idle" /\ call'.data = <<>>
  BY DEF NoCall, Call, Points
<1>2. UsciTypeOK'
  BY <1>1 DEF UsciTypeOK, UsciKept
<1>3. Lengths' /\ OwnOctets' /\ ~SetUpFor'
  BY <1>1 DEF Lengths, OwnOctets, SetUpFor, At
<1>4. InStep => InStep'
  BY <1>1 DEF InStep, Quiet, At, IsSet, InTransfer
<1> QED
  BY <1>2, <1>3, <1>4 DEF UsciKept

LEMMA TransfersAre ==
  /\ lis302 \in Seq(SensorTransfer) /\ hmc5843 \in Seq(SensorTransfer)
  /\ hmc5843_set \in Seq(SensorTransfer)
<1>1. /\ Transfer("write_read", "x", 1) \in SensorTransfer
      /\ Transfer("write_read", "x", 2) \in SensorTransfer
      /\ Transfer("write_read", "y", 2) \in SensorTransfer
      /\ Transfer("write", "flush", 2) \in SensorTransfer
      /\ Transfer("read", "y", 1) \in SensorTransfer
  BY RegisterAssumption DEF Transfer, SensorTransfer
<1> QED
  BY <1>1 DEF lis302, hmc5843, hmc5843_set

LEMMA NodeInitial == NodeInit => NodeIInv
<1> SUFFICES ASSUME NodeInit PROVE NodeIInv
  OBVIOUS
<1>1. MacKept /\ UsciKept
  BY MacInitial, UsciInitial DEF NodeInit
<1>2. ~InTransfer /\ ~Sending
  BY DEF NodeInit, UsciInit, NoCall, InTransfer, MacInit, Sending
<1>3. todo = <<>> /\ tmp = NoOctet /\ sample = NoSample /\ failed = FALSE
  BY DEF NodeInit
<1>4. NodeKept
  <2>1. <<>> \in Seq(SensorTransfer)
    OBVIOUS
  <2>2. sample.is = sample.of
    BY <1>3 DEF NoSample
  <2> QED
    BY <1>2, <1>3, <2>1, <2>2 DEF NodeKept
<1> QED
  BY <1>1, <1>4 DEF NodeIInv

LEMMA NodeNextKeeps ==
  ASSUME NodeIInv, [NodeNext]_nodeVars
  PROVE  NodeIInv'
<1>0. MacKept /\ UsciKept /\ NodeKept
  BY DEF NodeIInv
<1> DEFINE Mine == UNCHANGED <<todo, tmp, sample, failed>>
<1>1. ASSUME UNCHANGED macVars PROVE MacKept' /\ (Sending' <=> Sending)
  BY <1>0, <1>1, MacTypes, MacTypesNext
     DEF macVars, radioVars, MacKept, Sending, IsWrite, Command
<1>2. ASSUME UNCHANGED usciVars PROVE UsciKept' /\ (InTransfer' <=> InTransfer)
  BY <1>0, <1>2
     DEF usciVars, UsciKept, UsciTypeOK, Lengths, OwnOctets, SetUpFor, InStep, Quiet, Sends,
         HasSent, TurnsRound, Receives, ReceivesLast, Stops, IsSet, At, InTransfer
<1>3. CASE sample_evt
  <2>1. todo' \in Seq(SensorTransfer) /\ ~Sending /\ ~InTransfer
    BY <1>3, TransfersAre DEF sample_evt, MainIdle
  <2>2. NodeKept'
    BY <1>1, <1>2, <1>3, <2>1 DEF sample_evt, NodeKept, NoSample
  <2> QED
    BY <1>1, <1>2, <1>3, <2>2 DEF sample_evt, NodeIInv
<1>4. CASE NextTransfer
  <2>1. Head(todo) \in SensorTransfer /\ todo # <<>>
    BY <1>0, <1>4 DEF NextTransfer, NodeKept
  <2>2. UsciKept'
    BY <1>0, <1>4, <2>1, TransferKeeps DEF NextTransfer
  <2>3. MacKept' /\ (Sending' <=> Sending)
    BY <1>1, <1>4 DEF NextTransfer
  <2>4. NodeKept'
    BY <1>0, <1>4, <2>1, <2>3 DEF NextTransfer, NodeKept
  <2> QED
    BY <2>2, <2>3, <2>4 DEF NodeIInv
<1>5. CASE I2cRuns
  <2>1. UsciKept' /\ ~At("idle") /\ MacKept' /\ (Sending' <=> Sending)
    BY <1>0, <1>1, <1>5, I2cStepKeeps DEF I2cRuns
  <2>2. todo # <<>> /\ Tail(todo) \in Seq(SensorTransfer) /\ todo \in Seq(SensorTransfer) /\ ~Sending
    BY <1>0, <2>1 DEF NodeKept, InTransfer, At
  <2>3. CASE call'.pc # "idle"
    <3>1. Mine
      BY <1>5, <2>3 DEF I2cRuns
    <3>2. NodeKept'
      BY <1>0, <2>1, <2>2, <3>1 DEF NodeKept
    <3> QED
      BY <2>1, <3>2 DEF NodeIInv
  <2>4. CASE call'.pc = "idle"
    <3>1. /\ todo' = Tail(todo)
          /\ failed' = (failed \/ call'.ret # "ok" \/ stolen \/ call.stale)
          /\ IF call.op = "write" THEN UNCHANGED <<tmp, sample>>
             ELSE tmp' = Used(call.data) /\ sample' = [of |-> call.reg, is |-> tmp']
      BY <1>5, <2>4 DEF I2cRuns
    <3>2. tmp' \in Octet
      <4>1. call.data \in Seq(Octet) /\ tmp \in Octet
        BY <1>0, StepTypes DEF UsciKept, NodeKept, Octet
      <4>2. Used(call.data) \in Octet
        BY <4>1 DEF Used
      <4> QED
        BY <3>1, <4>1, <4>2
    <3>3. failed' \in BOOLEAN /\ (~failed' => ~failed /\ call'.ret = "ok" /\ ~stolen /\ ~call.stale)
      BY <1>0, <3>1 DEF NodeKept
    <3>4. ~failed' => sample'.is = sample'.of
      <4>1. SUFFICES ASSUME ~failed' PROVE sample'.is = sample'.of
        OBVIOUS
      <4>2. At("stp") /\ call.ret = "ok" /\ OwnOctets /\ Lengths /\ call.data \in Seq(Octet)
        BY <1>0, <1>5, <2>4, <3>3, <4>1, I2cStepKeeps, StepTypes DEF I2cRuns, At, UsciKept
      <4>3. CASE call.op = "write"
        BY <1>0, <3>1, <3>3, <4>1, <4>3 DEF NodeKept
      <4>4. CASE call.op # "write"
        <5>1. call.data # <<>>
          BY <4>2, <4>4 DEF Lengths
        <5>2. Used(call.data) = call.reg
          BY <4>2, <5>1 DEF Used, OwnOctets
        <5> QED
          BY <3>1, <4>4, <5>2
      <4> QED
        BY <4>3, <4>4
    <3> QED
      BY <2>1, <2>2, <2>4, <3>1, <3>2, <3>3, <3>4 DEF NodeKept, NodeIInv, InTransfer, Octet
  <2> QED
    BY <2>1, <2>3, <2>4 DEF NodeIInv
<1>6. CASE BusyWait
  <2>1. UNCHANGED macVars /\ UNCHANGED usciVars /\ Mine
    BY <1>6 DEF BusyWait, nodeVars
  <2> QED
    BY <1>0, <1>1, <1>2, <2>1 DEF NodeIInv, NodeKept
<1>7. ASSUME NEW f \in LocalFrame, Send(f) PROVE NodeIInv'
  <2>1. MacKept' /\ ~InTransfer /\ todo = <<>>
    BY <1>0, <1>7, SendKeepsMac DEF Send, MainIdle
  <2>2. UsciKept'
    BY <1>0, <1>7, <2>1, ForgetKeeps DEF Send
  <2>3. ~InTransfer'
    BY <1>7 DEF Send, NoCall, InTransfer
  <2>4. NodeKept'
    BY <1>0, <1>7, <2>1, <2>3 DEF Send, NodeKept, NoSample
  <2> QED
    BY <2>1, <2>2, <2>4 DEF NodeIInv
<1>8. CASE MacRuns
  <2>1. MacKept' /\ Sending
    BY <1>0, <1>8, MacStepKeeps DEF MacRuns, Sending
  <2>2. ~InTransfer /\ todo = <<>>
    BY <1>0, <2>1 DEF NodeKept
  <2>3. UsciKept' /\ ~InTransfer'
    <3>1. CASE spi_select_radio /\ UNCHANGED <<call, stolen>>
      BY <1>0, <2>2, <3>1, SelectKeeps DEF InTransfer
    <3>2. CASE UNCHANGED usciVars
      BY <1>2, <2>2, <3>2
    <3> QED
      BY <1>8, <3>1, <3>2 DEF MacRuns
  <2>4. NodeKept'
    BY <1>0, <1>8, <2>2, <2>3 DEF MacRuns, NodeKept
  <2> QED
    BY <2>1, <2>3, <2>4 DEF NodeIInv
<1>9. CASE Interrupt
  <2>1. MacKept' /\ mac'.at = mac.at
    BY <1>0, <1>9, port2irqKeeps DEF Interrupt
  <2>2. UsciKept' /\ call' = call
    BY <1>0, <1>9, SpiTransfersKeeps DEF Interrupt
  <2>3. NodeKept'
    BY <1>0, <1>9, <2>1, <2>2 DEF Interrupt, NodeKept, Sending, InTransfer
  <2> QED
    BY <2>1, <2>2, <2>3 DEF NodeIInv
<1>10. CASE RadioRuns
  <2>1. MacKept' /\ mac' = mac
    BY <1>0, <1>10, RadioStepKeeps DEF RadioRuns
  <2>2. UsciKept' /\ (InTransfer' <=> InTransfer)
    BY <1>2, <1>10 DEF RadioRuns
  <2>3. NodeKept'
    BY <1>0, <1>10, <2>1, <2>2 DEF RadioRuns, NodeKept, Sending
  <2> QED
    BY <2>1, <2>2, <2>3 DEF NodeIInv
<1>11. CASE UsciRuns
  <2>1. MacKept' /\ (Sending' <=> Sending)
    BY <1>1, <1>11 DEF UsciRuns
  <2>2. UsciKept' /\ call' = call
    BY <1>0, <1>11, UsciStepKeeps DEF UsciRuns
  <2>3. NodeKept'
    BY <1>0, <1>11, <2>1, <2>2 DEF UsciRuns, NodeKept, InTransfer
  <2> QED
    BY <2>1, <2>2, <2>3 DEF NodeIInv
<1>12. CASE UNCHANGED nodeVars
  <2>1. UNCHANGED macVars /\ UNCHANGED usciVars /\ Mine
    BY <1>12 DEF nodeVars
  <2> QED
    BY <1>0, <1>1, <1>2, <2>1 DEF NodeIInv, NodeKept
<1> QED
  BY <1>3, <1>4, <1>5, <1>6, <1>7, <1>8, <1>9, <1>10, <1>11, <1>12 DEF NodeNext

LEMMA NodeInvariant == NodeSpec => []NodeIInv
<1>1. NodeIInv /\ [NodeNext]_nodeVars => NodeIInv'
  BY NodeNextKeeps
<1> QED
  BY <1>1, NodeInitial, PTL DEF NodeSpec

THEOREM SamplesStayFresh == NodeSpec => []SampleIsFresh
<1>1. NodeIInv => SampleIsFresh
  <2>1. NodeIInv => NodeTypeOK
    BY DEF NodeIInv, NodeTypeOK, MacKept, UsciKept, NodeKept
  <2>2. NodeIInv => ReadsItsOwn
    BY DEF NodeIInv, UsciKept, OwnOctets, ReadsItsOwn
  <2>3. NodeIInv => (~failed => sample.is = sample.of)
    BY DEF NodeIInv, NodeKept
  <2> QED
    BY <2>1, <2>2, <2>3 DEF SampleIsFresh
<1> QED
  BY <1>1, NodeInvariant, PTL

-----------------------------------------------------------------------------
(***************************************************************************)
(* The sends of the same node. The invariant follows a send that nothing   *)
(* has cut through mac_send's SPI frames: the radio's FIFO holds exactly   *)
(* what was written so far, and the radio neither listens nor transmits    *)
(* before it is told to, so what goes on the air is the frame, and what    *)
(* ends it is reported by the tx_cb that mac_send has installed.           *)
(***************************************************************************)

\* What mac_send has written so far.
FirstPieces(f, n) == [i \in 1 .. n |-> <<f, Pieces[i]>>]
PiecesDone == IF mac.at <= 1 THEN 0 ELSE IF mac.at >= 6 THEN 4
              ELSE IF mac.phase = "deselect" THEN mac.at - 1 ELSE mac.at - 2

Airs ==
  /\ radio.state = "TX" /\ ~P2IFG /\ gdo0_cb = "tx_cb"
  /\ radio.txfifo = FirstPieces(mac.frame, 4)

\* A send that nothing has interrupted: the octets go to the radio, which has
\* got what was written and does nothing until it is told to transmit.
Uncut ==
  /\ mac.frame \in LocalFrame
  /\ Sending /\ mac.phase # "select" => csn
  /\ mac.phase = "data" => burst
  /\ mac.at = 1 /\ mac.phase # "deselect" => radio.state # "TX" /\ radio.txfifo = <<>>
  /\ (mac.at = 1 /\ mac.phase = "deselect") \/ mac.at \in 2 .. 6
     \/ (mac.at = 7 /\ mac.phase # "deselect") =>
       /\ radio.state = "IDLE" /\ ~radio.gdo0
       /\ radio.txfifo = FirstPieces(mac.frame, PiecesDone)
  /\ mac.at >= 7 => gdo0_cb = "tx_cb"
  /\ (mac.at = 7 /\ mac.phase = "deselect") \/ mac.at \in {8, 0} => Airs
  /\ mac.at = 8 /\ mac.phase = "deselect" => status # "RX"

FateKept ==
  /\ radio.state \in {"RXOVER", "TXUNDER"} => P2IFG
  /\ radio.state = "TX" => fate \in {"cut", "pending"}
  /\ fate \in {"none", "reported"} => ~Sending /\ gdo0_cb = "rx_cb"
  /\ fate = "aired" => P2IFG /\ gdo0_cb = "tx_cb"
  /\ fate = "pending" => Uncut
  /\ fate # "wrong"
  /\ mac.phase # "select" => Sending /\ mac.at # 6

LEMMA PiecesOf ==
  /\ Len(Pieces) = 4 /\ DOMAIN Pieces = 1 .. 4 /\ Pieces[1] = "len"
  /\ \A k \in 1 .. 4 : Pieces[k] \in ToSet(Pieces)
  /\ \A f : Whole(f) = FirstPieces(f, 4)
<1>1. Len(Pieces) = 4 /\ DOMAIN Pieces = 1 .. 4 /\ Pieces[1] = "len"
  BY DEF Pieces
<1>2. \A k \in 1 .. 4 : Pieces[k] \in ToSet(Pieces)
  BY <1>1 DEF ToSet
<1>3. \A f : Whole(f) = FirstPieces(f, 4)
  BY <1>1 DEF Whole, FirstPieces
<1> QED
  BY <1>1, <1>2, <1>3

LEMMA CommandIs ==
  ASSUME mac.at \in 1 .. 8
  PROVE  /\ IsWrite <=> mac.at \in 2 .. 5
         /\ mac.at \in 2 .. 5 => Command = Pieces[mac.at - 1]
         /\ Command = "SIDLE" <=> mac.at = 1
         /\ Command = "set_cb" <=> mac.at = 6
         /\ Command = "STX" <=> mac.at = 7
         /\ Command = "SNOP" <=> mac.at = 8
<1>1. mac.at \in {1, 2, 3, 4, 5, 6, 7, 8}
  OBVIOUS
<1> QED
  BY <1>1, PiecesAre DEF IsWrite, Command, Commands, Pieces

LEMMA FunctionIsSeq ==
  ASSUME NEW n \in Nat, NEW S, NEW q \in [1 .. n -> S]
  PROVE  q \in Seq(S) /\ Len(q) = n
OBVIOUS

LEMMA NextPiece ==
  ASSUME NEW f, NEW n \in 0 .. 3
  PROVE  /\ Append(FirstPieces(f, n), <<f, Pieces[n + 1]>>) = FirstPieces(f, n + 1)
         /\ Len(FirstPieces(f, n)) = n
         /\ FirstPieces(f, 0) = <<>>
<1> DEFINE S == {<<f, Pieces[k]>> : k \in 1 .. 4}
           s == FirstPieces(f, n)
           t == FirstPieces(f, n + 1)
<1>1. s \in [1 .. n -> S] /\ t \in [1 .. n + 1 -> S]
  BY DEF FirstPieces
<1>2. /\ \A k \in 1 .. n : s[k] = <<f, Pieces[k]>>
      /\ \A k \in 1 .. n + 1 : t[k] = <<f, Pieces[k]>>
  BY DEF FirstPieces
<1>3. PICK last \in S : last = <<f, Pieces[n + 1]>>
  <2>1. n + 1 \in 1 .. 4
    OBVIOUS
  <2> QED
    BY <2>1
<1> HIDE DEF s, t, S
<1>4. s \in Seq(S) /\ Len(s) = n /\ t \in Seq(S) /\ Len(t) = n + 1
  BY <1>1, FunctionIsSeq
<1>5. Append(s, last) = t
  <2>1. /\ Append(s, last) \in Seq(S) /\ Len(Append(s, last)) = n + 1
        /\ Append(s, last)[n + 1] = last
        /\ \A k \in 1 .. n : Append(s, last)[k] = s[k]
    BY <1>3, <1>4, AppendProperties
  <2>2. \A k \in 1 .. n + 1 : Append(s, last)[k] = t[k]
    <3>1. \A k \in 1 .. n + 1 : k \in 1 .. n \/ k = n + 1
      OBVIOUS
    <3>2. n + 1 \in 1 .. n + 1
      OBVIOUS
    <3>3. t[n + 1] = last
      BY <1>2, <1>3, <3>2
    <3>4. \A k \in 1 .. n : k \in 1 .. n + 1 /\ t[k] = s[k]
      BY <1>2
    <3> QED
      BY <2>1, <3>1, <3>3, <3>4, Zenon
  <2> QED
    BY <1>4, <2>1, <2>2, SeqEqual
<1>6. FirstPieces(f, 0) = <<>>
  BY DEF FirstPieces
<1> QED
  BY <1>3, <1>4, <1>5, <1>6 DEF s, t

\* The frame on the air is the one that was written.
LEMMA AtHead ==
  ASSUME NEW r, NEW f \in LocalFrame, r.txfifo = FirstPieces(f, 4)
  PROVE  FrameAtHead(r) = f /\ f # NoFrame
<1> DEFINE Full(g) == FirstPieces(g, 4)
           S == LocalFrame \X ToSet(Pieces)
<1>1. \A g \in LocalFrame : Full(g) \in [1 .. 4 -> S] /\ Full(g)[1] = <<g, "len">>
  BY PiecesOf DEF FirstPieces
<1> HIDE DEF S
<1>2. \A g \in LocalFrame : Full(g) \in Seq(S) /\ Len(Full(g)) = 4
  <2> HIDE DEF Full
  <2>1. 4 \in Nat
    OBVIOUS
  <2>2. ASSUME NEW g \in LocalFrame
        PROVE  Full(g) \in Seq(S) /\ Len(Full(g)) = 4
    <3>1. Full(g) \in [1 .. 4 -> S]
      BY <1>1
    <3> QED
      BY <2>1, <3>1, FunctionIsSeq
  <2> QED
    BY <2>2
<1>3. \A g \in LocalFrame : IsPrefix(Whole(g), r.txfifo) <=> g = f
  <2>1. SUFFICES ASSUME NEW g \in LocalFrame
                 PROVE  IsPrefix(Full(g), Full(f)) <=> g = f
    BY PiecesOf
  <2> HIDE DEF Full
  <2>2. SubSeq(Full(g), 1, 4) = Full(g) /\ SubSeq(Full(f), 1, 4) = Full(f)
    BY <1>2
  <2>3. IsPrefix(Full(g), Full(f)) <=> Full(g) = Full(f)
    BY <1>2, <2>2 DEF IsPrefix
  <2>4. Full(g) = Full(f) => g = f
    BY <1>1
  <2> QED
    BY <2>3, <2>4
<1>4. FrameAtHead(r) = CHOOSE g \in LocalFrame : IsPrefix(Whole(g), r.txfifo)
  BY <1>3 DEF FrameAtHead
<1>5. f # NoFrame
  BY FrameAssumption
<1> QED
  BY <1>3, <1>4, <1>5

LEMMA FateInitial == MacInit => FateKept
<1> SUFFICES ASSUME MacInit PROVE FateKept
  OBVIOUS
<1>1. radio.state = "RX"
  BY DEF MacInit, reset_rx, SRX, SFTX, SFRX, force_idle, SIDLE
<1> QED
  BY <1>1 DEF MacInit, FateKept, Sending

LEMMA SendKeepsFate ==
  ASSUME MacKept, FateKept, NEW f \in LocalFrame, mac_send(f), ~P2IFG
  PROVE  FateKept'
<1>1. /\ mac' = [frame |-> f, at |-> 1, phase |-> "select"]
      /\ UNCHANGED radioVars
      /\ fate' = IF radio.state = "TX" \/ radio.txfifo # <<>> THEN "cut" ELSE "pending"
  BY DEF mac_send
<1>2. mac'.at = 1 /\ mac'.phase = "select" /\ mac'.frame = f
  BY <1>1
<1>3. fate' = "pending" => Uncut'
  BY <1>1, <1>2 DEF Uncut, Sending, radioVars
<1> QED
  BY <1>1, <1>2, <1>3 DEF FateKept, Sending, radioVars

LEMMA MacStepKeepsFate ==
  ASSUME MacKept, FateKept, MacStep, ~P2IFG
  PROVE  FateKept'
<1>1. /\ mac \in MacRecord /\ mac.at \in 1 .. 8 /\ radio \in Radio /\ Sending
      /\ radio.state \in RadioState /\ radio.gdo0 \in BOOLEAN
      /\ mac.frame \in LocalFrame
      /\ mac.phase \in {"select", "header", "data", "deselect"}
  <2>1. mac.at # 0 /\ MacTypeOK
    BY MacStepKeeps DEF MacKept
  <2> QED
    BY <2>1, MacTypes DEF MacRecord, Radio, Sending, MacKept
<1>2. /\ radio.state \in {"IDLE", "RX", "TX"}
      /\ fate \in {"pending", "cut"}
  BY <1>1, MacTypes DEF FateKept, RadioState, MacKept
<1>3. \* what was said of a send that was cut
      ASSUME fate' = "cut", radio'.state \in {"RXOVER", "TXUNDER"} => P2IFG',
             mac'.phase # "select" => Sending' /\ mac'.at # 6
      PROVE  FateKept'
  BY <1>3 DEF FateKept
<1>4. CASE Select
  <2>1. /\ mac'.at = mac.at /\ mac'.phase = "header" /\ mac'.frame = mac.frame
        /\ mac.phase = "select" /\ mac.at # 6 /\ csn' = TRUE
        /\ UNCHANGED <<radio, burst, status, gdo0_cb, P2IFG, fate>>
    BY <1>1, <1>4, CommandIs DEF Select, MacRecord
  <2>2. PiecesDone' = PiecesDone
    BY <2>1 DEF PiecesDone
  <2>3. Uncut => Uncut'
    BY <1>1, <2>1, <2>2 DEF Uncut, Airs, Sending
  <2> QED
    BY <1>1, <1>2, <2>1, <2>3 DEF FateKept, Sending
<1>5. CASE Header
  <2>1. /\ mac'.at = mac.at /\ mac'.frame = mac.frame /\ mac.phase = "header" /\ mac.at # 6
        /\ mac'.phase = (IF mac.at \in 2 .. 5 THEN "data" ELSE "deselect")
        /\ UNCHANGED <<csn, gdo0_cb, fate>>
    BY <1>1, <1>5, CommandIs DEF Header, MacRecord, FateKept
  <2>2. CASE csn
    <3>1. PICK r \in Strobed : RadioBecomes(r)
      BY <1>5, <2>2 DEF Header
    <3>2. /\ status' = (IF mac.at = 8 THEN radio.state ELSE "IDLE")
          /\ burst' = IsWrite /\ (burst' <=> mac.at \in 2 .. 5)
      BY <1>1, <1>5, <2>2, CommandIs DEF Header
    <3>3. radio' = r /\ P2IFG' = (radio.gdo0 /\ ~r.gdo0)
      BY <1>1, <3>1, Zenon DEF RadioBecomes
    <3>4. CASE mac.at = 1
      <4>1. r = [radio EXCEPT !.state = "IDLE", !.gdo0 = FALSE]
        BY <1>1, <1>2, <3>1, <3>4, CommandIs DEF Strobed, SIDLE
      <4>2. r.state = "IDLE" /\ r.gdo0 = FALSE /\ r.txfifo = radio.txfifo
        BY <1>1, <4>1 DEF Radio
      <4>3. Uncut => radio'.txfifo = FirstPieces(mac'.frame, PiecesDone')
        BY <2>1, <3>3, <3>4, <4>2, NextPiece DEF Uncut, PiecesDone, Sending
      <4>4. Uncut => Uncut'
        BY <2>1, <2>2, <3>2, <3>3, <3>4, <4>2, <4>3 DEF Uncut, Sending
      <4> QED
        BY <1>1, <1>2, <2>1, <3>3, <3>4, <4>2, <4>4 DEF FateKept, Sending
    <3>5. CASE mac.at = 7
      <4>1. \E clear \in BOOLEAN : r = STX(radio, clear)
        BY <1>1, <3>1, <3>5, CommandIs DEF Strobed
      <4>2. /\ r.state \in {"IDLE", "RX", "TX"} /\ r.gdo0 = radio.gdo0 /\ r.txfifo = radio.txfifo
            /\ radio.state = "IDLE" => r.state = "TX"
        BY <1>1, <1>2, <4>1 DEF STX, Radio
      <4>3. P2IFG' = FALSE
        BY <1>1, <3>3, <4>2
      <4>4. Uncut => Airs'
        BY <2>1, <3>3, <3>5, <4>2, <4>3 DEF Uncut, Airs, PiecesDone, Sending
      <4>5. Uncut => Uncut'
        BY <2>1, <2>2, <3>2, <3>5, <4>4 DEF Uncut, Airs, Sending
      <4> QED
        BY <1>1, <1>2, <2>1, <3>3, <3>5, <4>2, <4>5 DEF FateKept, Sending
    <3>6. CASE mac.at \notin {1, 7}
      <4>1. r = radio
        BY <1>1, <3>1, <3>6, CommandIs DEF Strobed
      <4>2. radio' = radio /\ P2IFG' = FALSE
        BY <1>1, <3>3, <4>1
      <4>3. PiecesDone' = PiecesDone
        BY <1>1, <2>1, <3>6 DEF PiecesDone
      <4>4. Uncut => Uncut'
        BY <1>1, <2>1, <2>2, <3>2, <3>6, <4>2, <4>3 DEF Uncut, Airs, Sending
      <4> QED
        BY <1>1, <1>2, <2>1, <4>2, <4>4 DEF FateKept, Sending
    <3> QED
      BY <3>4, <3>5, <3>6
  <2>3. CASE ~csn
    <3>1. UNCHANGED <<burst, radio, P2IFG>>
      BY <1>5, <2>3 DEF Header
    <3>2. fate = "cut"
      BY <1>2, <2>1, <2>3, <1>1 DEF FateKept, Uncut
    <3> QED
      BY <1>1, <1>2, <1>3, <2>1, <3>1, <3>2 DEF Sending
  <2> QED
    BY <2>2, <2>3
<1>6. CASE Data
  <2>1. /\ mac'.at = mac.at /\ mac'.frame = mac.frame /\ mac.phase = "data"
        /\ mac'.phase = "deselect" /\ UNCHANGED <<csn, burst, status, gdo0_cb, P2IFG, fate>>
        /\ mac.at \in 2 .. 5
    BY <1>1, <1>6, CommandIs DEF Data, MacRecord, MacKept
  <2>2. /\ radio'.state = radio.state /\ radio'.gdo0 = radio.gdo0
    BY <1>1, <1>6 DEF Data, WriteTxFifo, Radio
  <2>3. Uncut => Uncut'
    <3>1. SUFFICES ASSUME Uncut PROVE Uncut'
      OBVIOUS
    <3>2. /\ csn /\ burst /\ radio.state = "IDLE" /\ ~radio.gdo0
          /\ radio.txfifo = FirstPieces(mac.frame, mac.at - 2)
      BY <1>1, <2>1, <3>1 DEF Uncut, PiecesDone
    <3>3. PICK n \in 0 .. 3 : n = mac.at - 2
      BY <2>1
    <3>4. Command = Pieces[n + 1] /\ Len(radio.txfifo) < FifoRoom
      BY <1>1, <2>1, <3>2, <3>3, CommandIs, NextPiece, FifoAssumption, PiecesOf
    <3>5. radio' = [radio EXCEPT !.txfifo = Append(radio.txfifo, <<mac.frame, Command>>)]
      BY <1>6, <3>2, <3>4 DEF Data, WriteTxFifo
    <3>6. radio'.txfifo = Append(radio.txfifo, <<mac.frame, Command>>)
      BY <1>1, <3>5 DEF Radio
    <3>7. radio'.txfifo = FirstPieces(mac.frame, n + 1)
      BY <3>2, <3>3, <3>4, <3>6, NextPiece
    <3>8. PiecesDone' = n + 1
      BY <2>1, <3>3 DEF PiecesDone
    <3> QED
      BY <1>1, <2>1, <2>2, <3>2, <3>7, <3>8 DEF Uncut, Sending
  <2> QED
    BY <1>1, <1>2, <2>1, <2>2, <2>3 DEF FateKept, Sending
<1>7. CASE Deselect
  <2>1. /\ mac'.at = (IF mac.at = 8 THEN 0 ELSE mac.at + 1) /\ mac'.frame = mac.frame
        /\ mac.phase = "deselect" /\ mac'.phase = "select" /\ mac.at # 6
        /\ UNCHANGED <<radio, gdo0_cb, P2IFG>>
    <3>1. Len(Commands) = 8
      BY DEF Commands
    <3> DEFINE n == IF mac.at = 8 THEN 0 ELSE mac.at + 1
    <3>2. mac' = [mac EXCEPT !.at = n, !.phase = "select"] /\ n \in 0 .. 8
      BY <1>1, <1>7, <3>1 DEF Deselect, NextCommand
    <3>3. mac'.at = n /\ mac'.frame = mac.frame /\ mac'.phase = "select"
      <4> HIDE DEF n
      <4> QED
        BY <1>1, <3>2 DEF MacRecord
    <3> QED
      BY <1>7, <3>3 DEF Deselect, FateKept
  <2>2. fate' = fate
    <3>1. Len(Commands) = 8
      BY DEF Commands
    <3>2. CASE fate = "cut"
      BY <1>7, <3>2 DEF Deselect, Comes
    <3>3. CASE fate = "pending"
      BY <1>1, <1>7, <2>1, <3>1, <3>3 DEF Deselect, FateKept, Uncut
    <3> QED
      BY <1>2, <3>2, <3>3
  <2>3. Uncut => Uncut'
    <3>1. mac.at # 8 => PiecesDone' = PiecesDone
      BY <1>1, <2>1 DEF PiecesDone
    <3> QED
      BY <1>1, <2>1, <3>1 DEF Uncut, Airs, Sending
  <2> QED
    BY <1>1, <1>2, <2>1, <2>2, <2>3 DEF FateKept, Sending
<1>8. CASE SetTxCb
  <2>1. mac.at = 6 /\ mac.phase = "select" /\ gdo0_cb' = "tx_cb"
        /\ UNCHANGED <<radio, csn, burst, status, P2IFG, fate>>
    BY <1>1, <1>8, CommandIs DEF SetTxCb, FateKept
  <2>2. mac'.at = 7 /\ mac'.frame = mac.frame /\ mac'.phase = "select"
    <3>1. Len(Commands) = 8
      BY DEF Commands
    <3>2. mac' = [mac EXCEPT !.at = 7, !.phase = "select"]
      BY <1>8, <2>1, <3>1 DEF SetTxCb, NextCommand
    <3> QED
      BY <1>1, <3>2 DEF MacRecord
  <2>3. Uncut => Uncut'
    <3>1. PiecesDone' = PiecesDone
      BY <2>1, <2>2 DEF PiecesDone
    <3> QED
      BY <1>1, <2>1, <2>2, <3>1 DEF Uncut, Sending
  <2> QED
    BY <1>1, <1>2, <2>1, <2>2, <2>3 DEF FateKept, Sending
<1> QED
  BY <1>4, <1>5, <1>6, <1>7, <1>8 DEF MacStep

LEMMA port2irqKeepsFate ==
  ASSUME MacKept, FateKept, port2irq
  PROVE  FateKept'
<1>1. radio \in Radio /\ MacTypeOK /\ mac \in MacRecord
  BY MacTypes DEF MacKept
<1>2. radio'.state = "RX"
  <2>1. radio' = reset_rx(radio)
    BY DEF port2irq, AfterCallback
  <2>2. force_idle(radio).state = "IDLE" /\ force_idle(radio) \in Radio
    <3> DEFINE q == IF radio.state = "RXOVER" THEN SFRX(radio)
                    ELSE IF radio.state = "TXUNDER" THEN SFTX(radio) ELSE radio
    <3>1. force_idle(radio) = SIDLE(q)
      BY DEF force_idle
    <3>2. q \in Radio /\ q.state \notin {"RXOVER", "TXUNDER"}
      <4>1. CASE radio.state = "RXOVER"
        BY <1>1, <4>1, Strobes DEF SFRX, Radio
      <4>2. CASE radio.state = "TXUNDER"
        BY <1>1, <4>2, Strobes DEF SFTX, Radio
      <4>3. CASE radio.state \notin {"RXOVER", "TXUNDER"}
        BY <1>1, <4>3
      <4> QED
        BY <4>1, <4>2, <4>3
    <3> HIDE DEF q
    <3>3. SIDLE(q).state = "IDLE" /\ SIDLE(q) \in Radio
      BY <3>2, Strobes DEF SIDLE, Radio
    <3> QED
      BY <3>1, <3>3
  <2>3. SFRX(force_idle(radio)).state = "IDLE" /\ SFRX(force_idle(radio)) \in Radio
    BY <2>2, Strobes DEF SFRX, Radio
  <2>4. SFTX(SFRX(force_idle(radio))).state = "IDLE" /\ SFTX(SFRX(force_idle(radio))) \in Radio
    BY <2>3, Strobes DEF SFTX, Radio
  <2> QED
    BY <2>1, <2>4 DEF reset_rx, SRX, Radio
<1>3. /\ gdo0_cb' = "rx_cb" /\ P2IFG' = FALSE /\ P2IFG
      /\ mac'.at = mac.at /\ mac'.phase = mac.phase
  BY <1>1 DEF port2irq, MacRecord
<1>4. CASE Sending
  <2>1. fate' = "cut"
    BY <1>4 DEF port2irq
  <2> QED
    BY <1>2, <1>3, <1>4, <2>1 DEF FateKept, Sending
<1>5. CASE ~Sending
  <2>1. fate # "pending"
    BY <1>3, <1>5 DEF FateKept, Uncut, Airs, Sending
  <2>2. fate' \in {"cut", "reported", "none"}
    <3>1. CASE gdo0_cb = "tx_cb"
      BY <1>1, <1>5, <2>1, <3>1, MacTypes DEF port2irq, Comes, FateKept
    <3>2. CASE gdo0_cb # "tx_cb"
      BY <1>1, <1>5, <2>1, <3>2, MacTypes DEF port2irq, FateKept
    <3> QED
      BY <3>1, <3>2
  <2> QED
    BY <1>2, <1>3, <1>5, <2>2 DEF FateKept, Sending
<1> QED
  BY <1>4, <1>5

LEMMA RadioStepKeepsFate ==
  ASSUME MacKept, FateKept, RadioStep
  PROVE  FateKept'
<1>1. /\ radio \in Radio /\ MacTypeOK /\ mac \in MacRecord /\ P2IFG \in BOOLEAN
      /\ radio.gdo0 \in BOOLEAN
      /\ fate \in {"none", "pending", "aired", "reported", "cut", "wrong"}
  BY MacTypes DEF MacKept, Radio
<1>2. UNCHANGED <<csn, burst, status, gdo0_cb, mac>>
  BY DEF RadioStep, ReceiveSync, ReceiveEnd, TransmitSync, TransmitEnd
<1>3. PiecesDone' = PiecesDone /\ (Sending' <=> Sending)
  BY <1>2 DEF PiecesDone, Sending
<1>4. CASE ReceiveSync \/ TransmitSync
  <2>1. /\ radio'.state = radio.state /\ radio'.txfifo = radio.txfifo
        /\ UNCHANGED <<P2IFG, fate>> /\ radio.state \in {"RX", "TX"}
    BY <1>1, <1>4 DEF ReceiveSync, TransmitSync, Radio
  <2>2. Uncut => Uncut'
    BY <1>2, <1>3, <2>1 DEF Uncut, Airs
  <2> QED
    BY <1>2, <1>3, <2>1, <2>2 DEF FateKept
<1>5. CASE ReceiveEnd
  <2> DEFINE Ended(f, ok) ==
               [radio EXCEPT !.gdo0 = FALSE, !.state = "IDLE", !.rxfifo = f, !.crc = ok]
             Over == [radio EXCEPT !.gdo0 = FALSE, !.state = "RXOVER"]
             Good(r) == r.gdo0 = FALSE /\ r.txfifo = radio.txfifo /\ r.state # "TX"
  <2>1. \A r \in EndsReception(radio) : Good(r)
    <3>1. EndsReception(radio) = {Ended(f, ok) : f \in AirFrame, ok \in BOOLEAN} \cup {Over}
      BY DEF EndsReception
    <3>2. Good(Over)
      BY <1>1 DEF Radio
    <3>3. \A f \in AirFrame, ok \in BOOLEAN : Good(Ended(f, ok))
      BY <1>1 DEF Radio
    <3> HIDE DEF Ended, Over, Good
    <3> QED
      BY <3>1, <3>2, <3>3
  <2>2. PICK r \in EndsReception(radio) : RadioBecomes(r)
    BY <1>5 DEF ReceiveEnd
  <2>3. /\ radio'.gdo0 = FALSE /\ radio'.txfifo = radio.txfifo /\ radio'.state # "TX"
        /\ P2IFG' = TRUE /\ radio.state = "RX" /\ fate' = fate
    <3>1. radio.gdo0 /\ radio.state = "RX" /\ fate' = fate
      BY <1>5 DEF ReceiveEnd
    <3>2. r.gdo0 = FALSE /\ r.txfifo = radio.txfifo /\ r.state # "TX"
      BY <2>1, <2>2
    <3>3. radio' = r /\ P2IFG' = TRUE
      BY <1>1, <2>2, <3>1, <3>2 DEF RadioBecomes
    <3> QED
      BY <3>1, <3>2, <3>3
  <2>4. Uncut => Uncut'
    BY <1>2, <1>3, <2>3 DEF Uncut, Airs
  <2> QED
    BY <1>2, <1>3, <2>3, <2>4 DEF FateKept
<1>6. CASE TransmitEnd
  <2>1. radio.state = "TX" /\ radio.gdo0 /\ fate \in {"cut", "pending"}
    BY <1>6 DEF TransmitEnd, FateKept
  <2>2. PICK r \in EndsTransmission(radio) : RadioBecomes(r)
    BY <1>6 DEF TransmitEnd
  <2>3. r.gdo0 = FALSE /\ r.state # "TX"
    BY <1>1, <2>2 DEF EndsTransmission, Radio
  <2>4. radio' = r /\ P2IFG' = TRUE
    BY <1>1, <2>1, <2>2, <2>3 DEF RadioBecomes
  <2>5. CASE fate = "cut"
    <3>1. fate' = "cut"
      BY <1>6, <2>5 DEF TransmitEnd, Comes
    <3> QED
      BY <1>2, <1>3, <2>4, <3>1 DEF FateKept
  <2>6. CASE fate = "pending"
    <3>1. Airs /\ mac.frame \in LocalFrame /\ gdo0_cb = "tx_cb"
      <4>1. Airs
        BY <1>1, <2>1, <2>6 DEF FateKept, Uncut, MacRecord
      <4> QED
        BY <2>6, <4>1 DEF Airs, FateKept, Uncut
    <3>2. FrameAtHead(radio) = mac.frame
      BY <3>1, AtHead DEF Airs
    <3>3. fate' = "aired"
      BY <1>6, <2>6, <3>2 DEF TransmitEnd, Comes
    <3> QED
      BY <1>2, <1>3, <2>3, <2>4, <3>1, <3>3, <1>1 DEF FateKept
  <2> QED
    BY <2>1, <2>5, <2>6
<1> QED
  BY <1>4, <1>5, <1>6 DEF RadioStep
LEMMA FateUntouched ==
  ASSUME FateKept, UNCHANGED macVars
  PROVE  FateKept'
<1>1. UNCHANGED <<radio, csn, burst, status, gdo0_cb, P2IFG, mac, fate>>
  BY DEF macVars, radioVars
<1>2. PiecesDone' = PiecesDone /\ (Uncut' <=> Uncut) /\ (Sending' <=> Sending)
  BY <1>1 DEF PiecesDone, Uncut, Airs, Sending, FirstPieces
<1> QED
  BY <1>1, <1>2 DEF FateKept

LEMMA NodeNextKeepsFate ==
  ASSUME MacKept, FateKept, [NodeNext]_nodeVars
  PROVE  FateKept'
<1>1. CASE \E f \in LocalFrame : Send(f)
  BY <1>1, SendKeepsFate DEF Send, MainIdle, CpuFree
<1>2. CASE MacRuns
  BY <1>2, MacStepKeepsFate DEF MacRuns, CpuFree
<1>3. CASE Interrupt
  BY <1>3, port2irqKeepsFate DEF Interrupt
<1>4. CASE RadioRuns
  BY <1>4, RadioStepKeepsFate DEF RadioRuns
<1>5. CASE sample_evt \/ NextTransfer \/ I2cRuns \/ UsciRuns
  BY <1>5, FateUntouched DEF sample_evt, NextTransfer, I2cRuns, UsciRuns
<1>6. CASE BusyWait \/ UNCHANGED nodeVars
  BY <1>6, FateUntouched DEF BusyWait, nodeVars
<1> QED
  BY <1>1, <1>2, <1>3, <1>4, <1>5, <1>6 DEF NodeNext

\* A send that no callback interrupted and that found the radio's FIFO empty is
\* transmitted as it was written and then reported by tx_cb; mac_send never
\* returns 0 for it.
THEOREM UncutSendsAreTrue == NodeSpec => []UncutSendIsTrue
<1>1. NodeInit => FateKept
  BY FateInitial DEF NodeInit
<1>2. NodeIInv => MacKept
  BY DEF NodeIInv
<1>3. MacKept /\ FateKept /\ [NodeNext]_nodeVars => FateKept'
  BY NodeNextKeepsFate
<1>4. FateKept => UncutSendIsTrue
  BY DEF FateKept, UncutSendIsTrue
<1> QED
  BY <1>1, <1>2, <1>3, <1>4, NodeInvariant, PTL DEF NodeSpec
=============================================================================
