------------------------------- MODULE Sensors -------------------------------
(***************************************************************************)
(* core/lib/sensors.c: an interrupt reports a change with sensors_changed, *)
(* which sets the sensor's flag and polls sensors_process; the process     *)
(* posts an event for each flag to everyone, waits until it has got the    *)
(* event itself, clears the flag and goes on.                              *)
(*                                                                         *)
(* The kernel is reduced to what it does for this process: do_poll, and    *)
(* do_event, which hands an event to one process after another.  Two other *)
(* processes read a sensor when they are told of it: one stands in the     *)
(* list of processes before sensors_process, one behind it.                *)
(***************************************************************************)
EXTENDS Integers, Sequences

CONSTANTS
  num_sensors,
  NUMEVENTS,   \* PROCESS_CONF_NUMEVENTS
  OtherEvent   \* broadcasts of others

ASSUME SensorsAssumption == num_sensors \in Nat /\ OtherEvent \notin Nat

Sensor == 0 .. num_sensors - 1
Reader == {"before", "behind"}

VARIABLES
  sensors_flags,
  thread,       \* of sensors_process: where it is, its i and whether events # 0
  needspoll,
  sensor_events,  \* the kernel's event queue
  broadcast,    \* the event do_event walks the list with, and who is to get it
  unread,       \* history: the changes a reader has not read the sensor after
  excused       \* history: those it need not learn of

sensorsVars ==
  <<sensors_flags, thread, needspoll, sensor_events, broadcast, unread, excused>>

Nobody == [ev |-> OtherEvent, to |-> <<>>]

\* The initial event was handled: flags clear, sensors configured.
SensorsInit ==
  /\ sensors_flags = [s \in Sensor |-> FALSE]
  /\ thread = [at |-> "wait", i |-> 0, events |-> FALSE]
  /\ needspoll = FALSE
  /\ sensor_events = <<>>
  /\ broadcast = Nobody
  /\ unread = [r \in Reader |-> {}]
  /\ excused = [r \in Reader |-> {}]

Running == thread.at = "scan"

\* The reader in front has got the event, sensors_process not yet: the flag of
\* the sensor will be cleared, and with it a change made now.
ClearedUnseen(s) ==
  thread.at = "posted" /\ thread.i = s /\ broadcast = [ev |-> s, to |-> <<"it", "behind">>]

\* Mutant: the process is not polled.
NotPolled == needspoll

Polled == TRUE

sensors_changed(s) ==
  /\ sensors_flags' = [sensors_flags EXCEPT ![s] = TRUE]
  /\ needspoll' = Polled
  /\ unread' = [r \in Reader |-> unread[r] \cup {s}]
  /\ excused' = IF ClearedUnseen(s) THEN [excused EXCEPT !["before"] = @ \cup {s}]
                                    ELSE excused
  /\ UNCHANGED <<thread, sensor_events, broadcast>>

-----------------------------------------------------------------------------
(***************************************************************************)
(* sensors_process, one flag at a time.                                    *)
(***************************************************************************)
Full == Len(sensor_events) >= NUMEVENTS

NextFlag == [thread EXCEPT !.i = @ + 1]

SkipFlag ==
  /\ Running /\ thread.i \in Sensor /\ ~sensors_flags[thread.i]
  /\ thread' = NextFlag
  /\ UNCHANGED <<sensors_flags, needspoll, sensor_events, broadcast, unread, excused>>

PostEvent ==
  /\ Running /\ thread.i \in Sensor /\ sensors_flags[thread.i]
  /\ ~Full
  /\ sensor_events' = Append(sensor_events, thread.i)
  /\ thread' = [thread EXCEPT !.at = "posted"]
  /\ UNCHANGED <<sensors_flags, needspoll, broadcast, unread, excused>>

\* process_post fails: the flag is cleared all the same.
PostFails ==
  /\ Running /\ thread.i \in Sensor /\ sensors_flags[thread.i]
  /\ Full
  /\ sensors_flags' = [sensors_flags EXCEPT ![thread.i] = FALSE]
  /\ thread' = [NextFlag EXCEPT !.events = TRUE]
  /\ excused' = [r \in Reader |-> excused[r] \cup {thread.i}]
  /\ UNCHANGED <<needspoll, sensor_events, broadcast, unread>>

\* do ... while(events)
EndOfPass ==
  IF thread.events THEN [at |-> "scan", i |-> 0, events |-> FALSE]
                   ELSE [at |-> "wait", i |-> 0, events |-> FALSE]

PassEnds ==
  /\ Running /\ thread.i = num_sensors
  /\ thread' = EndOfPass
  /\ UNCHANGED <<sensors_flags, needspoll, sensor_events, broadcast, unread, excused>>

\* The thread is called with an event that is not a sensor's: any event ends
\* PROCESS_WAIT_EVENT, none of these PROCESS_WAIT_EVENT_UNTIL.
Woken ==
  IF thread.at = "wait" THEN [at |-> "scan", i |-> 0, events |-> FALSE] ELSE thread

Scan == SkipFlag \/ PostEvent \/ PostFails \/ PassEnds

-----------------------------------------------------------------------------
(***************************************************************************)
(* The kernel.                                                             *)
(***************************************************************************)
do_poll ==
  /\ ~Running /\ needspoll
  /\ needspoll' = FALSE
  /\ thread' = Woken
  /\ UNCHANGED <<sensors_flags, sensor_events, broadcast, unread, excused>>

do_event ==
  /\ ~Running /\ broadcast.to = <<>> /\ sensor_events # <<>>
  /\ broadcast' = [ev |-> Head(sensor_events), to |-> <<"before", "it", "behind">>]
  /\ sensor_events' = Tail(sensor_events)
  /\ UNCHANGED <<sensors_flags, thread, needspoll, unread, excused>>

CallReader(r) ==
  /\ unread' = [unread EXCEPT ![r] = @ \ {broadcast.ev}]
  /\ excused' = [excused EXCEPT ![r] = @ \ {broadcast.ev}]
  /\ UNCHANGED <<sensors_flags, thread>>

CallProcess ==
  /\ IF thread.at = "posted" /\ broadcast.ev # OtherEvent
     THEN /\ sensors_flags' = [sensors_flags EXCEPT ![thread.i] = FALSE]
          /\ thread' = [at |-> "scan", i |-> thread.i + 1, events |-> TRUE]
     ELSE thread' = Woken /\ UNCHANGED sensors_flags
  /\ UNCHANGED <<unread, excused>>

Deliver ==
  /\ ~Running /\ broadcast.to # <<>>
  /\ IF Head(broadcast.to) = "it" THEN CallProcess ELSE CallReader(Head(broadcast.to))
  /\ broadcast' = IF Len(broadcast.to) = 1 THEN Nobody
                                           ELSE [broadcast EXCEPT !.to = Tail(@)]
  /\ UNCHANGED <<needspoll, sensor_events>>

OtherPosts ==
  /\ ~Running /\ ~Full
  /\ sensor_events' = Append(sensor_events, OtherEvent)
  /\ UNCHANGED <<sensors_flags, thread, needspoll, broadcast, unread, excused>>

SensorsNext ==
  \/ \E s \in Sensor : sensors_changed(s)
  \/ Scan
  \/ do_poll
  \/ do_event
  \/ Deliver
  \/ OtherPosts

\* process_run takes an event after each do_poll, and do_event polls at most
\* once before each call.
SensorsFairness ==
  /\ WF_sensorsVars(Scan)
  /\ WF_sensorsVars(do_poll)
  /\ SF_sensorsVars(do_event \/ Deliver)

-----------------------------------------------------------------------------
(***************************************************************************)
(* Properties.                                                             *)
(***************************************************************************)

\* Every reader reads a sensor after it has changed, in whatever order flags,
\* polls and events come, unless the event queue was full when the change was
\* to be posted or, for a reader in front of sensors_process, the sensor
\* changed again between the call of the reader and that of sensors_process.
\* Interrupts that set flags faster than a full queue lets the process clear
\* them keep it from ever returning.
ChangesAreRead ==
  []<>~Running =>
    \A s \in Sensor : \A r \in Reader :
      s \in unread[r] ~> s \notin unread[r] \/ s \in excused[r]
=============================================================================
