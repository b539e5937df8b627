------------------------------ MODULE MCEvents ------------------------------
(***************************************************************************)
(* The deferred events of the native programs, and the readings Contiki    *)
(* announces: a behaviour takes place in one of the two.  A ring of three  *)
(* slots fills, wraps and drops within a few posts.                        *)
(***************************************************************************)
EXTENDS EventQueue, Sensors

VARIABLE service

EventsInit == service \in {"event", "sensors"} /\ Init /\ SensorsInit

EventStep == service = "event" /\ Next /\ UNCHANGED <<service, sensorsVars>>
SensorsStep == service = "sensors" /\ SensorsNext /\ UNCHANGED <<service, vars>>

EventsSpec ==
  /\ EventsInit /\ [][EventStep \/ SensorsStep]_<<service, vars, sensorsVars>>
  /\ service = "event" => Fairness
  /\ SensorsFairness
=============================================================================
