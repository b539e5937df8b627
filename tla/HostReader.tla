----------------------------- MODULE HostReader -----------------------------
(***************************************************************************)
(* The readers of the host's oscilloscopes: sensor/zizi/zizi.py with       *)
(* zizi_oscillo.py and ScopeWidget.py, sensor/wiimote/wiimote_reader.py    *)
(* and csv_oscillo_2.py with oscillo/oscillo.py.  A thread of the sensor   *)
(* hands over samples, the timer of the window takes them; the only        *)
(* exclusion between the two is that of the interpreter, one bytecode at a *)
(* time.                                                                   *)
(*                                                                         *)
(* Sample k was measured at time k and its acceleration is called k.  The  *)
(* curves of y and z are handled as that of x, and none of the windows     *)
(* relates them to each other.                                             *)
(***************************************************************************)
EXTENDS Integers, Sequences, FiniteSets, SequencesExt

CONSTANTS
  MaxSamples,   \* bound: samples of a behaviour
  Screen,       \* widths of the screen of ScopeWidget: ten time divisions
  X_SPAN        \* width of the screen of oscillo.py

ASSUME HostAssumption ==
  /\ MaxSamples \in Nat \ {0} /\ X_SPAN \in Nat \ {0}
  /\ Screen \subseteq Nat \ {0} /\ Screen # {}

VARIABLES
  program,      \* "zizi", "wiimote" or "csv"
  sample,       \* number of the last sample; for csv, the time since the start
  ser_data,     \* Zizi.ser_data: "", or the octets of a "whole" or a "cut" line
  t_init,       \* Zizi.t_init: 0 for None
  callback,     \* Zizi.callback: the last sample before it was set, -1 for None
  thread,       \* what the sensor's thread does next, with which curve
  loaded,       \* the array numpy.append has made
  fetched,      \* the dict or list it writes: "current", "taken" or "gone"
  cache,        \* ZiziReader.data, or cache_t and cache_x
  gui,          \* what the window does next, first of all to make the reader
  new_data,     \* what get_new_data returns
  displayed,        \* datat and datax, or AccelData.data
  actualValue,  \* of timedivslider, times ten
  overlapped    \* history: samples whose hand-over met a get_new_data, or __init__

threadVars == <<thread, loaded, fetched, sample, ser_data, t_init>>
guiVars == <<gui, new_data, displayed, actualValue>>
hostVars == <<program, callback, cache, overlapped, threadVars, guiVars>>

Curve == {"t", "x"}
NoData == [k \in Curve |-> <<>>]

HostInit ==
  /\ program \in {"zizi", "wiimote", "csv"}
  /\ sample = 0 /\ ser_data \in {"", "cut"} /\ (program # "zizi" => ser_data = "")
  /\ t_init = 0 /\ callback = -1
  /\ thread = <<"read">> /\ loaded = <<>> /\ fetched = "gone"
  /\ cache = IF program = "csv"
             THEN [k \in Curve |-> [i \in 1 .. MaxSamples |-> i]] ELSE NoData
  /\ gui = (IF program = "wiimote" THEN "starting" ELSE "idle")
  /\ new_data = NoData /\ displayed = NoData
  /\ actualValue = CHOOSE w \in Screen : TRUE
  /\ overlapped = {}

Busy == thread # <<"read">> /\ thread # <<"stopped">>
Meets(k) == IF gui \in {"idle", "ended"} THEN {} ELSE {k}

-----------------------------------------------------------------------------
\* Zizi.run: ser.read() returns an octet, here the rest of a line or its end.
ReadLine ==
  /\ program = "zizi" /\ thread = <<"read">> /\ gui # "ended"
  /\ ser_data = "" /\ sample < MaxSamples
  /\ ser_data' = "whole"
  /\ UNCHANGED <<program, callback, cache, overlapped, thread, loaded, fetched,
                 sample, t_init, guiVars>>

\* The newline: a line of which the port was opened in the middle does not
\* match.  The first that does sets t_init; a sample goes to the callback.
ReadNewline ==
  /\ program = "zizi" /\ thread = <<"read">> /\ gui # "ended"
  /\ ser_data # ""
  /\ ser_data' = ""
  /\ IF ser_data = "cut" THEN UNCHANGED <<sample, t_init, thread, overlapped>>
     ELSE /\ sample' = sample + 1
          /\ t_init' = IF t_init = 0 THEN sample + 1 ELSE t_init
          /\ thread' = IF callback = -1 THEN thread ELSE <<"load", "t">>
          /\ overlapped' = IF callback = -1 THEN overlapped
                           ELSE overlapped \cup Meets(sample + 1)
  /\ UNCHANGED <<program, callback, cache, loaded, fetched, guiVars>>

\* ZiziReader.__init__ starts the thread and sets the callback last.
set_callback ==
  /\ program = "zizi" /\ callback = -1
  /\ callback' = sample
  /\ UNCHANGED <<program, cache, overlapped, threadVars, guiVars>>

ValueOf(k) == IF k = "t" /\ program = "zizi" THEN sample - t_init ELSE sample
AfterCurve(k) ==
  IF k = "x" THEN <<"read">>
  ELSE IF program = "zizi" THEN <<"load", "x">> ELSE <<"fetch", "x">>

\* self.data[k] = numpy.append(self.data[k], dict[k]): the array is made from
\* the dict of the moment, ...
LoadCurve ==
  /\ thread[1] = "load"
  /\ loaded' = Append(cache[thread[2]], ValueOf(thread[2]))
  /\ thread' = <<"fetch", thread[2]>>
  /\ UNCHANGED <<program, callback, cache, overlapped, fetched, sample,
                 ser_data, t_init, guiVars>>

\* The first init_cache has yet to give the reader this list.
NoCache(k) == gui = "starting" \/ (gui = "starting x" /\ k = "x")

\* ... the dict it goes to is fetched after it; and self.cache_t is fetched
\* before the value that is appended to it.  If there is none, the callback
\* ends with an AttributeError, and what it has appended so far stays.
FetchCurve ==
  /\ thread[1] = "fetch"
  /\ IF NoCache(thread[2])
     THEN thread' = <<"read">> /\ UNCHANGED fetched
     ELSE thread' = <<"write", thread[2]>> /\ fetched' = "current"
  /\ UNCHANGED <<program, callback, cache, overlapped, loaded, sample,
                 ser_data, t_init, guiVars>>

WrittenCurve(k) == IF program = "zizi" THEN loaded ELSE Append(cache[k], ValueOf(k))

\* What was replaced meanwhile is written in vain, unless the window still
\* has to read it.
WriteCurve ==
  /\ thread[1] = "write"
  /\ LET k == thread[2]
     IN /\ cache' = IF fetched = "current"
                    THEN [cache EXCEPT ![k] = WrittenCurve(k)] ELSE cache
        /\ new_data' = IF fetched = "taken"
                    THEN [new_data EXCEPT ![k] = loaded] ELSE new_data
        /\ thread' = AfterCurve(k)
  /\ loaded' = <<>> /\ fetched' = "gone"
  /\ UNCHANGED <<program, callback, overlapped, sample, ser_data, t_init,
                 gui, displayed, actualValue>>

\* WiimoteReader.__init__ sets the callback first, then time_init, and makes the
\* lists last, one after the other.
first_init_cache(k) ==
  /\ program = "wiimote" /\ gui = (IF k = "t" THEN "starting" ELSE "starting x")
  /\ gui' = IF k = "t" THEN "starting x" ELSE "idle"
  /\ UNCHANGED <<program, callback, cache, overlapped, threadVars, new_data,
                 displayed, actualValue>>

\* WiimoteReader.callback: one MESG_ACC.
Message ==
  /\ program = "wiimote" /\ thread = <<"read">> /\ gui # "ended"
  /\ sample < MaxSamples
  /\ sample' = sample + 1
  /\ thread' = <<"fetch", "t">>
  /\ overlapped' = overlapped \cup Meets(sample + 1)
  /\ UNCHANGED <<program, callback, cache, loaded, fetched, ser_data, t_init,
                 guiVars>>

\* Zizi.terminate: keep_running is False and the port closed; a line in work
\* is finished.
Stop ==
  /\ thread = <<"read">> /\ gui = "ended"
  /\ thread' = <<"stopped">>
  /\ UNCHANGED <<program, callback, cache, overlapped, loaded, fetched, sample,
                 ser_data, t_init, guiVars>>

-----------------------------------------------------------------------------
Largest(s) == CHOOSE t \in Range(s) : \A u \in Range(s) : u <= t

\* What lies more than span left of the newest sample is cut off, the same
\* number of values from each curve.
Trimmed(curves, span) ==
  LET limit == Largest(curves["t"]) - span
      first == CHOOSE i \in DOMAIN curves["t"] :
                 /\ curves["t"][i] > limit
                 /\ \A j \in 1 .. i - 1 : curves["t"][j] <= limit
  IN IF curves["t"] = <<>> THEN curves
     ELSE [k \in Curve |-> SubSeq(curves[k], first, Len(curves[k]))]

Joined(data) == [k \in Curve |-> displayed[k] \o data[k]]

\* A mutant: the new dict is installed first.
ResetFirst ==
  /\ program = "zizi" /\ gui = "idle"
  /\ new_data' = NoData /\ cache' = NoData
  /\ fetched' = IF fetched = "current" THEN "taken" ELSE fetched
  /\ gui' = "plot"
  /\ overlapped' = IF Busy THEN overlapped \cup {sample} ELSE overlapped
  /\ UNCHANGED <<program, callback, thread, loaded, sample, ser_data, t_init,
                 displayed, actualValue>>

\* ZiziReader.get_new_data: the window keeps the old dict and installs a new.
data_reset ==
  /\ program = "zizi" /\ gui = "idle"
  /\ new_data' = cache /\ cache' = NoData
  /\ fetched' = IF fetched = "current" THEN "taken" ELSE fetched
  /\ gui' = "plot"
  /\ overlapped' = IF Busy THEN overlapped \cup {sample} ELSE overlapped
  /\ UNCHANGED <<program, callback, thread, loaded, sample, ser_data, t_init,
                 displayed, actualValue>>

\* Scope.get_new_data: of arrays that do not match the surplus is dropped.
Matching(data) ==
  LET m == IF Len(data["t"]) < Len(data["x"]) THEN Len(data["t"]) ELSE Len(data["x"])
  IN [k \in Curve |-> SubSeq(data[k], 1, m)]

\* Two screens to the left of the one in view are kept.
PlotNewData ==
  /\ program = "zizi" /\ gui = "plot"
  /\ displayed' = Trimmed(Joined(Matching(new_data)), 3 * actualValue)
  /\ new_data' = NoData /\ gui' = "idle"
  /\ fetched' = IF fetched = "taken" THEN "gone" ELSE fetched
  /\ UNCHANGED <<program, callback, cache, overlapped, thread, loaded, sample,
                 ser_data, t_init, actualValue>>

timediv_changed ==
  /\ program = "zizi" /\ gui = "idle"
  /\ actualValue' \in Screen
  /\ UNCHANGED <<program, callback, cache, overlapped, threadVars, gui, new_data,
                 displayed>>

\* WiimoteReader.get_new_data: both lists are copied, then both replaced.
CopyCache(k) ==
  /\ program = "wiimote" /\ gui = (IF k = "t" THEN "idle" ELSE "copied t")
  /\ new_data' = [new_data EXCEPT ![k] = cache[k]]
  /\ gui' = IF k = "t" THEN "copied t" ELSE "copied x"
  /\ overlapped' = IF Busy THEN overlapped \cup {sample} ELSE overlapped
  /\ UNCHANGED <<program, callback, cache, threadVars, displayed, actualValue>>

\* init_cache; with its last assignment AccelData.refresh goes on.
init_cache(k) ==
  /\ program = "wiimote" /\ gui = (IF k = "t" THEN "copied x" ELSE "cleared t")
  /\ cache' = [cache EXCEPT ![k] = <<>>]
  /\ fetched' = IF thread = <<"write", k>> THEN "gone" ELSE fetched
  /\ IF k = "t" THEN gui' = "cleared t" /\ UNCHANGED <<new_data, displayed>>
     ELSE /\ gui' = "idle" /\ new_data' = NoData
          /\ displayed' = Trimmed(Joined(new_data), X_SPAN)
  /\ UNCHANGED <<program, callback, overlapped, thread, loaded, sample,
                 ser_data, t_init, actualValue>>

TimePasses ==
  /\ program = "csv" /\ sample <= MaxSamples
  /\ sample' = sample + 1
  /\ UNCHANGED <<program, callback, cache, overlapped, thread, loaded, fetched,
                 ser_data, t_init, guiVars>>

\* CsvReader.get_new_data: ix stays 0 when no sample of the file is to come.
Due ==
  LET times == cache["t"]
      later == {i \in DOMAIN times : times[i] > sample}
  IN IF later = {} THEN 0 ELSE (CHOOSE i \in later : \A j \in later : i <= j) - 1

PlayFile ==
  /\ program = "csv" /\ gui = "idle"
  /\ displayed' = Trimmed(Joined([k \in Curve |-> SubSeq(cache[k], 1, Due)]), X_SPAN)
  /\ cache' = [k \in Curve |-> SubSeq(cache[k], Due + 1, Len(cache[k]))]
  /\ UNCHANGED <<program, callback, overlapped, threadVars, gui, new_data,
                 actualValue>>

\* The window is closed, and the reader terminated.
terminate ==
  /\ program # "csv" /\ gui = "idle"
  /\ gui' = "ended"
  /\ UNCHANGED <<program, callback, cache, overlapped, threadVars, new_data,
                 displayed, actualValue>>

HostNext ==
  \/ ReadLine \/ ReadNewline \/ set_callback
  \/ LoadCurve \/ FetchCurve \/ WriteCurve \/ Message \/ Stop
  \/ data_reset \/ PlotNewData \/ timediv_changed
  \/ first_init_cache("t") \/ first_init_cache("x")
  \/ CopyCache("t") \/ CopyCache("x") \/ init_cache("t") \/ init_cache("x")
  \/ TimePasses \/ PlayFile \/ terminate

HostSpec == HostInit /\ [][HostNext]_hostVars

-----------------------------------------------------------------------------
InOrder(s) == \A i \in 1 .. Len(s) - 1 : s[i] < s[i + 1]
All(k) == displayed[k] \o cache[k]
AtRest == thread \in {<<"read">>, <<"stopped">>} /\ gui \in {"idle", "ended"}

\* Samples not yet far enough left of the newest one displayed to be cut off.
Recent(span) ==
  LET newest == displayed["t"][Len(displayed["t"])] + (IF program = "zizi" THEN t_init ELSE 0)
  IN {k \in 1 .. sample : displayed["t"] = <<>> \/ k > newest - span}
Narrowest == CHOOSE w \in Screen : \A v \in Screen : w <= v

\* As long as no hand-over meets a get_new_data, the scope shows each sample
\* at its own time, in order and without a gap; and when one does, the two
\* curves still have one length.
ZiziHonest ==
  /\ Len(displayed["t"]) = Len(displayed["x"])
  /\ (AtRest /\ overlapped = {}) =>
       /\ All("t") = [i \in DOMAIN All("x") |-> All("x")[i] - t_init]
       /\ InOrder(All("x"))
       /\ \A k \in Recent(3 * Narrowest) :
            (callback # -1 /\ k > callback) => k \in Range(All("x"))

\* The lists of the wiimote lose no more than the samples that meet a
\* get_new_data or the first init_cache, and for each of them one more at the
\* left of the screen, as the curves are cut at one index; by as many samples
\* at most is one curve longer than the other, and it stays so.  No sample is
\* displayed twice or out of turn.
WiimoteHonest ==
  AtRest =>
    /\ \A k \in Curve :
         /\ InOrder(All(k))
         /\ Recent(X_SPAN - Cardinality(overlapped)) \ overlapped
                \subseteq Range(All(k))
    /\ Len(All("t")) - Len(All("x"))
         \in - Cardinality(overlapped) .. Cardinality(overlapped)

\* The file is played in order and without a gap, no sample before its time.
FileHonest ==
  /\ InOrder(All("t")) /\ All("t") = All("x")
  /\ Recent(X_SPAN) \cap (1 .. MaxSamples) \subseteq Range(All("t"))
  /\ \A k \in Range(displayed["t"]) : k <= sample

\* A curve shows what the sensor measured, whichever reader the window has
\* (get_new_data of ZiziReader, WiimoteReader and CsvReader).
CurvesHonest ==
  CASE program = "zizi" -> ZiziHonest
    [] program = "wiimote" -> WiimoteHonest
    [] OTHER -> FileHonest

-----------------------------------------------------------------------------
(***************************************************************************)
(* The robot of the host that walks as the wiimote is shaken               *)
(* (walking-robot.py, vizual/robot.py).  A walk swings the legs out and    *)
(* back in small rotations, and carries the body along with each.          *)
(*                                                                         *)
(* Angles are counted in rotations of pi/100, lengths in halves.  Of the   *)
(* lengths that come with an angle only this matters: the height l - l*cos *)
(* is even, zero at zero alone, and proportional to l; the distance l*sin  *)
(* is odd and grows with the angle.                                        *)
(***************************************************************************)
CONSTANTS
  Reach,      \* rotations it takes to pass pi/6
  MaxWalks    \* bound: walks of a behaviour

ASSUME RobotAssumption == Reach \in Nat \ {0} /\ MaxWalks \in Nat

Part == {"body", "head", "left_arm", "right_arm", "left_leg", "right_leg"}
Leg == {"left_leg", "right_leg"}

VARIABLES
  next_walk,            \* "left" or "right"
  phase,                \* "still", "out" or "back"
  left_current_angle,
  deltah_current, deltad_current,
  pos,                  \* of each part, of a leg that of its hip: <<y, z>>
  turned,               \* the rotation of each leg
  walks, slips          \* history: walks done, and those that turned too far

robotVars == <<next_walk, phase, left_current_angle, deltah_current,
               deltad_current, pos, turned, walks, slips>>

RobotInit ==
  /\ next_walk = "left" /\ phase = "still" /\ left_current_angle = 0
  /\ deltah_current = 0 /\ deltad_current = 0
  /\ pos = [p \in Part |-> <<0, 0>>]
  /\ turned = [leg \in Leg |-> 0]
  /\ walks = 0 /\ slips = 0

\* left_leg.height is l; but the legs turn about a point 0.5 below their tops.
LegHeight == 12
HipToFoot == 11

\* l - l * math.cos(angle) and l * math.sin(angle).
Height(angle) == LegHeight * (angle * angle)
Distance(angle) == angle

\* Body.move_body: the arms, the head and the legs go with the body.
move_body(y, z) == pos' = [p \in Part |-> <<pos[p][1] + y, pos[p][2] + z>>]

\* rotate_left_leg_x(angle) and rotate_right_leg_x(-angle), about the hips.
rotate_legs(angle) ==
  turned' = [leg \in Leg |->
    turned[leg] + (IF leg = "left_leg" THEN angle ELSE - angle)]

\* walk_left swings to negative angles first, walk_right to positive ones.
Outward == IF next_walk = "left" THEN -1 ELSE 1

\* The script: a reading below 0.4 calls Body.walk.
walk ==
  /\ phase = "still" /\ walks < MaxWalks
  /\ phase' = "out"
  /\ left_current_angle' = 0 /\ deltah_current' = 0 /\ deltad_current' = 0
  /\ UNCHANGED <<next_walk, pos, turned, walks, slips>>

\* The first loop: the legs are spread, the body comes down and forward.
SwingOut ==
  /\ phase = "out" /\ left_current_angle # Reach * Outward
  /\ LET angle  == left_current_angle + Outward
         deltah == Height(angle)
         deltad == IF next_walk = "left" THEN Distance(angle) ELSE - Distance(angle)
     IN /\ left_current_angle' = angle
        /\ rotate_legs(Outward)
        /\ move_body(deltah_current - deltah, deltad_current - deltad)
        /\ deltah_current' = deltah /\ deltad_current' = deltad
  /\ phase' = IF left_current_angle' = Reach * Outward THEN "back" ELSE "out"
  /\ UNCHANGED <<next_walk, walks, slips>>

\* A mutant: the second loop moves the body as the first does.
SwingBackward ==
  /\ phase = "back" /\ left_current_angle * Outward >= 0
  /\ LET angle  == left_current_angle - Outward
         deltah == Height(angle)
         deltad == IF next_walk = "left" THEN Distance(angle) ELSE - Distance(angle)
     IN /\ left_current_angle' = angle
        /\ rotate_legs(- Outward)
        /\ move_body(deltah_current - deltah, deltad_current - deltad)
        /\ deltah_current' = deltah /\ deltad_current' = deltad
        /\ slips' = IF left_current_angle = 0 THEN slips + 1 ELSE slips
  /\ UNCHANGED <<next_walk, phase, walks>>

\* The second loop: the legs are closed, the body comes up and forward.  At
\* zero the sum of the rotations decides, as rounding has left it: a last
\* one may go beyond.
SwingBack ==
  /\ phase = "back" /\ left_current_angle * Outward >= 0
  /\ LET angle  == left_current_angle - Outward
         deltah == Height(angle)
         deltad == IF next_walk = "left" THEN Distance(angle) ELSE - Distance(angle)
     IN /\ left_current_angle' = angle
        /\ rotate_legs(- Outward)
        /\ move_body(deltah_current - deltah, deltad - deltad_current)
        /\ deltah_current' = deltah /\ deltad_current' = deltad
        /\ slips' = IF left_current_angle = 0 THEN slips + 1 ELSE slips
  /\ UNCHANGED <<next_walk, phase, walks>>

\* The legs are straightened; switch_next_walk.
Straighten ==
  /\ phase = "back" /\ left_current_angle * Outward <= 0
  /\ rotate_legs(- left_current_angle)
  /\ next_walk' = IF next_walk = "left" THEN "right" ELSE "left"
  /\ phase' = "still" /\ walks' = walks + 1
  /\ UNCHANGED <<left_current_angle, deltah_current, deltad_current, pos, slips>>

RobotNext == walk \/ SwingOut \/ SwingBack \/ Straighten

RobotSpec == RobotInit /\ [][RobotNext]_robotVars

-----------------------------------------------------------------------------
Abs(n) == IF n < 0 THEN - n ELSE n

\* How far the walk under way has carried the body.
Forward ==
  CASE phase = "still" -> 0
    [] phase = "out" -> Abs(left_current_angle)
    [] OTHER -> 2 * Reach - left_current_angle * Outward

SlipsNow == IF phase = "back" /\ left_current_angle * Outward < 0 THEN 1 ELSE 0

\* How high a foot is, its leg being turned about the hip.
Foot(leg) == pos[leg][1] + HipToFoot * (turned[leg] * turned[leg])

\* In a walk both feet are in the ground: the body comes down as if the legs
\* turned about their tops.
Sinking == (LegHeight - HipToFoot) * (turned["left_leg"] * turned["left_leg"])

\* The robot walks (Body.walk_left, walk_right): its parts stay together, its
\* legs mirror each other and both feet stay at one height, on the ground when
\* the legs are straight; every walk brings it a full stride forward, with the
\* legs straight at the end.  A walk that turns a rotation too far leaves it
\* lower by the height of that one, and nothing brings it up again.
WalksUpright ==
  /\ \A p, q \in Part : pos[p] = pos[q]
  /\ turned["left_leg"] = - turned["right_leg"]
  /\ phase = "still" => turned["left_leg"] = 0
  /\ \A leg \in Leg : Foot(leg) = - Sinking - (slips - SlipsNow) * Height(1)
  /\ pos["body"][2] = walks * 2 * Distance(Reach) + (slips - SlipsNow) + Forward
=============================================================================
