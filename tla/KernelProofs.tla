---------------------------- MODULE KernelProofs ----------------------------
(***************************************************************************)
(* Proofs about the process kernel: KernelConsistent, NoLostPoll and       *)
(* BroadcastReachesAll hold for any processes, any list of them to start,  *)
(* any length of the event queue and any nesting of calls, provided no     *)
(* thread is ended while it is being called (~ExitsRunningCaller).         *)
(*                                                                         *)
(* The argument has three layers: what starting and ending a process does  *)
(* to the linked list, for a walk that began anywhere; what may lie on     *)
(* what on the C stack, and which process each call holds; and the         *)
(* invariant IInv, preserved action by action.                             *)
(***************************************************************************)
EXTENDS ProcessKernel, TLAPS

-----------------------------------------------------------------------------
(***************************************************************************)
(* The linked list.  nx are the links, h the head.                         *)
(***************************************************************************)
Links == [Process -> Process \cup {NULL}]

\* Reachable(nx, n) itself is closed, and is the least of the closed sets.
LEMMA ReachableClosed ==
  ASSUME NEW nx \in Links, NEW n \in Process \cup {NULL}
  PROVE  Reachable(nx, n) \in ClosedFrom(nx, n)
<1>1. Process \in ClosedFrom(nx, n)
  BY DEF ClosedFrom, Links
<1>2. n \in Reachable(nx, n) \cup {NULL}
  BY DEF ClosedFrom, Reachable
<1>3. ASSUME NEW p \in Reachable(nx, n)
      PROVE  nx[p] \in Reachable(nx, n) \cup {NULL}
  BY DEF ClosedFrom, Reachable, Links
<1>4. Reachable(nx, n) \in SUBSET Process
  BY DEF Reachable
<1> QED BY <1>2, <1>3, <1>4 DEF ClosedFrom

LEMMA ReachableLeast ==
  ASSUME NEW nx, NEW n, NEW S \in ClosedFrom(nx, n)
  PROVE  Reachable(nx, n) \subseteq S
BY DEF Reachable

\* The facts of the two lemmas in the form the others use.
LEMMA ReachableStep ==
  ASSUME NEW nx \in Links, NEW n \in Process \cup {NULL}
  PROVE  /\ Reachable(nx, n) \subseteq Process
         /\ n # NULL => n \in Reachable(nx, n)
         /\ \A p \in Reachable(nx, n) : nx[p] # NULL => nx[p] \in Reachable(nx, n)
BY ReachableClosed DEF ClosedFrom

LEMMA ReachableWithin ==
  ASSUME NEW nx \in Links, NEW n \in Process \cup {NULL},
         NEW S \in SUBSET Process, n # NULL => n \in S,
         \A p \in S : nx[p] # NULL => nx[p] \in S
  PROVE  Reachable(nx, n) \subseteq S
<1>1. S \in ClosedFrom(nx, n)
  BY DEF ClosedFrom, Links
<1> QED BY <1>1, ReachableLeast

LEMMA NothingFromNull ==
  ASSUME NEW nx \in Links
  PROVE  Reachable(nx, NULL) = {}
BY ReachableWithin, NullAssumption

\* What is met from a met element on.
LEMMA ReachableOn ==
  ASSUME NEW nx \in Links, NEW n \in Process \cup {NULL},
         NEW m \in Reachable(nx, n)
  PROVE  Reachable(nx, m) \subseteq Reachable(nx, n)
<1>1. m \in Process
  BY ReachableStep
<1> QED BY <1>1, ReachableStep, ReachableWithin

\* A walk meets an element, then what follows it.
LEMMA ReachableUnfold ==
  ASSUME NEW nx \in Links, NEW n \in Process
  PROVE  Reachable(nx, n) = {n} \cup Reachable(nx, nx[n])
<1> DEFINE S == {n} \cup Reachable(nx, nx[n])
<1>1. nx[n] \in Process \cup {NULL}
  BY DEF Links
<1>2. n \in Reachable(nx, n)
  BY ReachableStep, NullAssumption
<1>3. Reachable(nx, nx[n]) \subseteq Reachable(nx, n)
  <2>1. CASE nx[n] = NULL
    BY <2>1, NothingFromNull
  <2>2. CASE nx[n] # NULL
    <3>1. nx[n] \in Reachable(nx, n)
      BY <1>2, <2>2, ReachableStep
    <3> QED BY <3>1, ReachableOn
  <2> QED BY <2>1, <2>2
<1>4. Reachable(nx, n) \subseteq S
  <2>1. S \in SUBSET Process
    BY <1>1, ReachableStep
  <2>2. \A p \in S : nx[p] # NULL => nx[p] \in S
    BY <1>1, ReachableStep
  <2> HIDE DEF S
  <2>3. n \in S
    BY DEF S
  <2> QED BY <2>1, <2>2, <2>3, ReachableWithin
<1> QED BY <1>2, <1>3, <1>4

\* A walk is undisturbed by changes to links it does not meet.
LEMMA ReachableAgrees ==
  ASSUME NEW nx \in Links, NEW ny \in Links, NEW n \in Process \cup {NULL},
         \A p \in Reachable(nx, n) : ny[p] = nx[p]
  PROVE  Reachable(ny, n) = Reachable(nx, n)
<1>1. Reachable(ny, n) \subseteq Reachable(nx, n)
  BY ReachableStep, ReachableWithin
<1>2. Reachable(nx, n) \subseteq Reachable(ny, n)
  <2> DEFINE S == Reachable(nx, n) \cap Reachable(ny, n)
  <2>1. S \in SUBSET Process /\ (n # NULL => n \in S)
    BY ReachableStep
  <2>2. \A p \in S : nx[p] # NULL => nx[p] \in S
    BY ReachableStep
  <2>3. Reachable(nx, n) \subseteq S
    <3> HIDE DEF S
    <3> QED BY <2>1, <2>2, ReachableWithin
  <2> QED BY <2>3
<1> QED BY <1>1, <1>2

\* No element of the list is met again after it.
Acyclic(nx, h) == \A p \in Reachable(nx, h) : p \notin Reachable(nx, nx[p])

\* process_start links p in front.
Prepended(nx, h, p) == [nx EXCEPT ![p] = h]

LEMMA Inserted ==
  ASSUME NEW nx \in Links, NEW h \in Process \cup {NULL}, NEW p \in Process,
         p \notin Reachable(nx, h), Acyclic(nx, h)
  PROVE  /\ Prepended(nx, h, p) \in Links
         /\ Reachable(Prepended(nx, h, p), p) = {p} \cup Reachable(nx, h)
         /\ Acyclic(Prepended(nx, h, p), p)
<1> DEFINE ny == Prepended(nx, h, p)
<1>1. ny \in Links
  BY DEF Links, Prepended
<1>2. /\ ny[p] = h
      /\ \A q \in Process \ {p} : ny[q] = nx[q]
  BY DEF Links, Prepended
<1> HIDE DEF ny
<1>3. Reachable(nx, h) \subseteq Process
  BY ReachableStep
<1>4. Reachable(ny, h) = Reachable(nx, h)
  BY <1>1, <1>2, <1>3, ReachableAgrees
<1>5. Reachable(ny, p) = {p} \cup Reachable(nx, h)
  <2>1. Reachable(ny, p) = {p} \cup Reachable(ny, ny[p])
    BY <1>1, ReachableUnfold
  <2> QED BY <1>2, <1>4, <2>1
<1>6. ASSUME NEW q \in Reachable(nx, h)
      PROVE  q \notin Reachable(ny, ny[q])
  <2>1. /\ q \in Process /\ q # p
        /\ nx[q] \in Process \cup {NULL}
        /\ ny[q] = nx[q]
    BY <1>2, <1>3 DEF Links
  <2>2. Reachable(nx, nx[q]) \subseteq Reachable(nx, h)
    BY <2>1, ReachableUnfold, ReachableOn
  <2>3. Reachable(ny, nx[q]) = Reachable(nx, nx[q])
    BY <1>1, <1>2, <1>3, <2>1, <2>2, ReachableAgrees
  <2> QED BY <2>1, <2>3 DEF Acyclic
<1>7. p \notin Reachable(ny, ny[p])
  BY <1>2, <1>4
<1> QED BY <1>1, <1>5, <1>6, <1>7 DEF Acyclic, ny

\* A walk that was to meet a listed element still does when p comes in front.
LEMMA InsertedAhead ==
  ASSUME NEW nx \in Links, NEW h \in Process \cup {NULL}, NEW p \in Process,
         p \notin Reachable(nx, h), Acyclic(nx, h),
         NEW n \in Process \cup {NULL},
         NEW x \in Reachable(nx, h), x \in Reachable(nx, n)
  PROVE  x \in Reachable(Prepended(nx, h, p), n)
<1> DEFINE ny == Prepended(nx, h, p)
<1>1. /\ ny \in Links
      /\ Reachable(ny, p) = {p} \cup Reachable(nx, h)
      /\ \A q \in Process \ {p} : ny[q] = nx[q]
  BY Inserted DEF Prepended, Links
<1> HIDE DEF ny
<1>2. CASE p \in Reachable(ny, n)
  BY <1>1, <1>2, ReachableOn DEF ny
<1>3. CASE p \notin Reachable(ny, n)
  <2>1. \A q \in Reachable(ny, n) : nx[q] = ny[q]
    BY <1>1, <1>3, ReachableStep
  <2>2. Reachable(nx, n) = Reachable(ny, n)
    BY <1>1, <2>1, ReachableAgrees
  <2> QED BY <2>2 DEF ny
<1> QED BY <1>2, <1>3

\* What unlink does to the links of a list that p is on.
Skipped(nx, h, p) ==
  IF h = p THEN nx
  ELSE [q \in Process |->
          IF q \in {r \in Reachable(nx, h) : nx[r] = p} THEN nx[p] ELSE nx[q]]
HeadWithout(nx, h, p) == IF h = p THEN nx[p] ELSE h

LEMMA SkippedLinks ==
  ASSUME NEW nx \in Links, NEW h \in Process \cup {NULL}, NEW p \in Process,
         Acyclic(nx, h)
  PROVE  /\ Skipped(nx, h, p) \in Links
         /\ HeadWithout(nx, h, p) \in Process \cup {NULL}
         /\ p \in Reachable(nx, h) => Skipped(nx, h, p)[p] = nx[p]
         /\ \A q \in Process : \/ Skipped(nx, h, p)[q] = nx[q]
                               \/ /\ Skipped(nx, h, p)[q] = nx[p]
                                  /\ nx[q] = p
                                  /\ q \in Reachable(nx, h)
<1>1. nx[p] \in Process \cup {NULL} /\ \A q \in Process : nx[q] \in Process \cup {NULL}
  BY DEF Links
<1>2. ASSUME p \in Reachable(nx, h) PROVE nx[p] # p
  <2>1. p \notin Reachable(nx, nx[p])
    BY <1>2 DEF Acyclic
  <2>2. p \in Reachable(nx, p)
    BY ReachableUnfold
  <2> QED BY <2>1, <2>2
<1> QED BY <1>1, <1>2 DEF Skipped, HeadWithout, Links

\* Wherever a walk is, it still meets all it was to meet but p.
LEMMA SkippedAhead ==
  ASSUME NEW nx \in Links, NEW h \in Process \cup {NULL}, NEW p \in Process,
         Acyclic(nx, h), NEW n \in Process \cup {NULL}
  PROVE  Reachable(nx, n) \subseteq Reachable(Skipped(nx, h, p), n) \cup {p}
<1> DEFINE ny == Skipped(nx, h, p)
           T == Reachable(ny, n)
<1>1. /\ ny \in Links
      /\ p \in Reachable(nx, h) => ny[p] = nx[p]
      /\ \A q \in Process : \/ ny[q] = nx[q]
                            \/ ny[q] = nx[p] /\ nx[q] = p /\ q \in Reachable(nx, h)
  BY SkippedLinks
<1> HIDE DEF ny
<1>2. /\ T \in SUBSET Process
      /\ n # NULL => n \in T
      /\ \A q \in T : ny[q] # NULL => ny[q] \in T
  BY <1>1, ReachableStep
<1> HIDE DEF T
<1>3. CASE \A q \in T : nx[q] # NULL => nx[q] \in T
  BY <1>2, <1>3, ReachableWithin DEF T, ny
<1>4. CASE \E q \in T : nx[q] # NULL /\ nx[q] \notin T
  <2>1. PICK q \in T : nx[q] # NULL /\ nx[q] \notin T
    BY <1>4
  <2>2. ny[q] = nx[p] /\ nx[q] = p /\ q \in Reachable(nx, h)
    BY <1>1, <1>2, <2>1
  <2>3. nx[p] # NULL => nx[p] \in T
    BY <1>2, <2>2
  <2>4. \A r \in T \cup {p} : nx[r] # NULL => nx[r] \in T \cup {p}
    BY <1>1, <1>2, <2>3
  <2>5. T \cup {p} \in SUBSET Process /\ (n # NULL => n \in T \cup {p})
    BY <1>2
  <2> DEFINE S == T \cup {p}
  <2> HIDE DEF S
  <2>6. Reachable(nx, n) \subseteq S
    BY <2>4, <2>5, ReachableWithin DEF S
  <2> QED BY <2>6 DEF S, T, ny
<1> QED BY <1>3, <1>4

\* unlink takes p off the list and nothing else.
LEMMA Unlinked ==
  ASSUME NEW nx \in Links, NEW h \in Process \cup {NULL},
         Acyclic(nx, h), NEW p \in Reachable(nx, h)
  PROVE  /\ Reachable(Skipped(nx, h, p), HeadWithout(nx, h, p))
               = Reachable(nx, h) \ {p}
         /\ Acyclic(Skipped(nx, h, p), HeadWithout(nx, h, p))
<1> DEFINE ny == Skipped(nx, h, p)
           k == HeadWithout(nx, h, p)
           R == Reachable(nx, h)
<1>0. p \in Process /\ R \subseteq Process /\ h # NULL
  BY ReachableStep, NothingFromNull
<1>1. /\ ny \in Links
      /\ k \in Process \cup {NULL}
      /\ ny[p] = nx[p]
      /\ \A q \in Process : \/ ny[q] = nx[q]
                            \/ ny[q] = nx[p] /\ nx[q] = p
  BY <1>0, SkippedLinks
<1>2. nx[p] \in Process \cup {NULL} /\ p \notin Reachable(nx, nx[p]) /\ nx[p] # p
  <2>1. nx[p] \in Process \cup {NULL} /\ p \notin Reachable(nx, nx[p])
    BY <1>0 DEF Acyclic, Links
  <2> QED BY <1>0, <2>1, ReachableStep, NullAssumption
<1>3. \A q \in R : ny[q] # p
  BY <1>0, <1>2 DEF Skipped, Acyclic, Links
<1>4. \A q \in R \ {p} : ny[q] # NULL => ny[q] \in R \ {p}
  <2> SUFFICES ASSUME NEW q \in R \ {p}, ny[q] # NULL PROVE ny[q] \in R
    BY <1>3
  <2>1. /\ nx[q] # NULL => nx[q] \in R
        /\ nx[p] # NULL => nx[p] \in R
    BY ReachableStep
  <2> QED BY <1>0, <1>1, <2>1
<1>5. k # NULL => k \in R \ {p}
  <2>1. nx[p] # NULL => nx[p] \in R
    BY ReachableStep
  <2>2. h \in R
    BY <1>0, ReachableStep
  <2> QED BY <1>2, <2>1, <2>2 DEF HeadWithout
<1>6. Reachable(ny, k) \subseteq R \ {p}
  <2> DEFINE S == R \ {p}
  <2> HIDE DEF ny, k
  <2>1. S \in SUBSET Process
    BY <1>0
  <2>2. \A q \in S : ny[q] # NULL => ny[q] \in S
    BY <1>4
  <2>3. k # NULL => k \in S
    BY <1>5
  <2> HIDE DEF S
  <2>4. Reachable(ny, k) \subseteq S
    BY <1>1, <2>1, <2>2, <2>3, ReachableWithin
  <2> QED BY <2>4 DEF S
<1>7. R \ {p} \subseteq Reachable(ny, k)
  <2>1. CASE h = p
    <3>1. R = {p} \cup Reachable(nx, nx[p])
      BY <1>0, <2>1, ReachableUnfold
    <3>2. ny = nx /\ k = nx[p]
      BY <2>1 DEF Skipped, HeadWithout
    <3> QED BY <3>1, <3>2
  <2>2. CASE h # p
    BY <1>0, <2>2, SkippedAhead DEF HeadWithout
  <2> QED BY <2>1, <2>2
<1>8. ASSUME NEW q \in R
      PROVE  Reachable(ny, ny[q]) \subseteq Reachable(nx, nx[q])
  <2> DEFINE S == Reachable(nx, nx[q])
  <2>1. nx[q] \in Process \cup {NULL} /\ ny[q] \in Process \cup {NULL} /\ q \in Process
    BY <1>0, <1>1 DEF Links
  <2>2. /\ S \in SUBSET Process
        /\ nx[q] # NULL => nx[q] \in S
        /\ \A r \in S : nx[r] # NULL => nx[r] \in S
    BY <2>1, ReachableStep
  <2> HIDE DEF S, ny
  <2>3. ny[q] # NULL => ny[q] \in S
    BY <1>0, <1>1, <2>1, <2>2, NullAssumption
  <2>4. \A r \in S : ny[r] # NULL => ny[r] \in S
    BY <1>0, <1>1, <2>2, NullAssumption
  <2>5. Reachable(ny, ny[q]) \subseteq S
    BY <1>1, <2>1, <2>2, <2>3, <2>4, ReachableWithin
  <2> QED BY <2>5 DEF S
<1>9. Acyclic(ny, k)
  BY <1>6, <1>8 DEF Acyclic
<1> QED BY <1>6, <1>7, <1>9

-----------------------------------------------------------------------------
(***************************************************************************)
(* Walks: what a loop that is at the element `at' has still to meet.       *)
(***************************************************************************)
Place == Process \cup {Front}
FollowingIn(nx, h, at) == IF at = Front THEN h ELSE nx[at]
Ahead(nx, h, at) == Reachable(nx, FollowingIn(nx, h, at))

LEMMA FollowingIsElement ==
  ASSUME NEW nx \in Links, NEW h \in Process \cup {NULL}, NEW at \in Place
  PROVE  FollowingIn(nx, h, at) \in Process \cup {NULL}
BY DEF FollowingIn, Links, Place

\* No process that is on the list is lost from a walk when another is put in
\* front,
LEMMA InsertedKeepsAhead ==
  ASSUME NEW nx \in Links, NEW h \in Process \cup {NULL}, NEW p \in Process,
         p \notin Reachable(nx, h), Acyclic(nx, h), NEW at \in Place,
         NEW x \in Reachable(nx, h), x \in Ahead(nx, h, at)
  PROVE  x \in Ahead(Prepended(nx, h, p), p, at)
<1> DEFINE ny == Prepended(nx, h, p)
<1>1. /\ Reachable(ny, p) = {p} \cup Reachable(nx, h)
      /\ \A n \in Process \cup {NULL} :
           x \in Reachable(nx, n) => x \in Reachable(ny, n)
  BY Inserted, InsertedAhead
<1>2. ny[p] = h /\ \A q \in Process \ {p} : ny[q] = nx[q]
  BY DEF Prepended, Links
<1> HIDE DEF ny
<1>3. CASE at = Front
  BY <1>1, <1>3 DEF Ahead, FollowingIn, ny
<1>4. CASE at = p /\ at # Front
  BY <1>1, <1>2, <1>4 DEF Ahead, FollowingIn, ny
<1>5. CASE at # p /\ at # Front
  <2>1. at \in Process /\ nx[at] \in Process \cup {NULL} /\ ny[at] = nx[at]
    BY <1>2, <1>5 DEF Place, Links
  <2> QED BY <1>1, <1>5, <2>1 DEF Ahead, FollowingIn, ny
<1> QED BY <1>3, <1>4, <1>5

\* nor when another is taken off, wherever the walk is.
LEMMA UnlinkedKeepsAhead ==
  ASSUME NEW nx \in Links, NEW h \in Process \cup {NULL}, NEW p \in Process,
         Acyclic(nx, h), NEW at \in Place
  PROVE  Ahead(nx, h, at) \subseteq
           Ahead(Skipped(nx, h, p), HeadWithout(nx, h, p), at) \cup {p}
<1> DEFINE ny == Skipped(nx, h, p)
           k == HeadWithout(nx, h, p)
           n == FollowingIn(nx, h, at)
           m == FollowingIn(ny, k, at)
<1>1. /\ nx[p] \in Process \cup {NULL}
      /\ n \in Process \cup {NULL}
      /\ \A i \in Process \cup {NULL} :
           Reachable(nx, i) \subseteq Reachable(ny, i) \cup {p}
  BY SkippedAhead, FollowingIsElement DEF Links
<1>2. m = n \/ (n = p /\ m = nx[p])
  BY SkippedLinks DEF HeadWithout, FollowingIn, Place
<1>3. Reachable(nx, p) = {p} \cup Reachable(nx, nx[p])
  BY ReachableUnfold
<1>4. Reachable(nx, n) \subseteq Reachable(ny, m) \cup {p}
  <2> HIDE DEF n, m, ny
  <2>1. CASE m = n
    BY <1>1, <2>1
  <2>2. CASE n = p /\ m = nx[p]
    BY <1>1, <1>3, <2>2
  <2> QED BY <1>2, <2>1, <2>2
<1> QED BY <1>4 DEF Ahead

-----------------------------------------------------------------------------
(***************************************************************************)
(* The C stack.                                                            *)
(***************************************************************************)
LEMMA FrameFields ==
  ASSUME NEW f \in Frame
  PROVE  /\ f.kind \in {"do_poll", "do_event", "thread", "exit_process",
                        "farewell"}
         /\ f.kind \in {"do_poll", "do_event"} => f.at \in Place
         /\ f.kind = "do_event" =>
              /\ f.ev \in EventId /\ f.due \in BOOLEAN
              /\ f.due => f.at \in Process
         /\ f.kind \in {"thread", "exit_process", "farewell"} => f.p \in Process
         /\ f.kind = "thread" =>
              f.ev \in EventId /\ f.back \in Process \cup {NULL, Keep}
         /\ f.kind = "exit_process" =>
              /\ f.at \in Place \cup {NULL}
              /\ f.from \in Process \cup {NULL}
              /\ f.back \in Process \cup {NULL}
BY DEF Frame, PollLoop, Broadcast, Thread, Exit, Farewell, Place

LEMMA PollLoopFrame ==
  ASSUME NEW at \in Place
  PROVE  /\ PollLoop(at) \in Frame
         /\ PollLoop(at).kind = "do_poll" /\ PollLoop(at).at = at
BY DEF Frame, PollLoop, Place

LEMMA BroadcastFrame ==
  ASSUME NEW ev \in EventId, NEW at \in Place, NEW due \in BOOLEAN,
         due => at \in Process
  PROVE  /\ Broadcast(ev, at, due) \in Frame
         /\ Broadcast(ev, at, due).kind = "do_event"
         /\ Broadcast(ev, at, due).ev = ev
         /\ Broadcast(ev, at, due).at = at
         /\ Broadcast(ev, at, due).due = due
<1>1. at # Front \/ ~due
  BY FrameAssumption DEF Front
<1> QED BY <1>1 DEF Frame, Broadcast, Place

LEMMA ThreadFrame ==
  ASSUME NEW p \in Process, NEW ev \in EventId,
         NEW back \in Process \cup {NULL, Keep}
  PROVE  /\ Thread(p, ev, back) \in Frame
         /\ Thread(p, ev, back).kind = "thread"
         /\ Thread(p, ev, back).p = p
         /\ Thread(p, ev, back).back = back
BY DEF Frame, Thread

LEMMA ExitFrame ==
  ASSUME NEW p \in Process, NEW from \in Process \cup {NULL},
         NEW back \in Process \cup {NULL}, NEW at \in Place \cup {NULL}
  PROVE  /\ Exit(p, from, back, at) \in Frame
         /\ Exit(p, from, back, at).kind = "exit_process"
         /\ Exit(p, from, back, at).p = p
         /\ Exit(p, from, back, at).back = back
<1>1. Exit(p, from, back, at) \in Frame
  BY DEF Frame, Place
<1> QED BY <1>1 DEF Exit

LEMMA ExitFrameAtFront ==
  ASSUME NEW p \in Process, NEW from \in Process \cup {NULL},
         NEW back \in Process \cup {NULL}
  PROVE  /\ Exit(p, from, back, Front) \in Frame
         /\ Exit(p, from, back, Front).kind = "exit_process"
         /\ Exit(p, from, back, Front).p = p
         /\ Exit(p, from, back, Front).back = back
<1>1. Front \in Place \cup {NULL}
  BY DEF Place
<1> QED BY <1>1, ExitFrame

LEMMA FarewellFrame ==
  ASSUME NEW p \in Process
  PROVE  /\ Farewell(p) \in Frame
         /\ Farewell(p).kind = "farewell" /\ Farewell(p).p = p
BY DEF Frame, Farewell

\* A stack is a call on top of the calls below.
On(f, s) == <<f>> \o s

LEMMA OnIsStack ==
  ASSUME NEW f \in Frame, NEW s \in Seq(Frame)
  PROVE  /\ On(f, s) \in Seq(Frame)
         /\ On(f, s) # <<>>
         /\ Head(On(f, s)) = f
         /\ Tail(On(f, s)) = s
         /\ Len(On(f, s)) = Len(s) + 1
         /\ On(f, s)[1] = f
         /\ \A i \in DOMAIN s : i + 1 \in DOMAIN On(f, s) /\ On(f, s)[i + 1] = s[i]
         /\ \A i \in DOMAIN On(f, s) : i = 1 \/ (i - 1 \in DOMAIN s /\ On(f, s)[i] = s[i - 1])
         /\ 1 \in DOMAIN On(f, s)
BY DEF On

LEMMA StackIsOn ==
  ASSUME NEW s \in Seq(Frame), s # <<>>
  PROVE  /\ s = On(Head(s), Tail(s))
         /\ Head(s) \in Frame
         /\ Tail(s) \in Seq(Frame)
BY DEF On

\* Which call may lie on which: a walk of do_event is made by main alone, one
\* of do_poll by main or between two calls of a broadcast; the call on a do_poll
\* is of the element it is at; a call made by a thread restores that thread's
\* process_current.
Upon(f, g) ==
  /\ f.kind # "do_event"
  /\ f.kind = "do_poll" => g.kind = "do_event"
  /\ f.kind = "farewell" => g.kind = "exit_process" /\ g.p = f.p
  /\ g.kind = "do_poll" =>
       f.kind \in {"thread", "exit_process"} /\ g.at = f.p
  /\ f.kind \in {"thread", "exit_process"} /\ g.kind \in {"thread", "farewell"}
       => f.back = g.p

\* Main itself makes no farewell.
Nested(s) ==
  \A i \in DOMAIN s : IF i + 1 \in DOMAIN s THEN Upon(s[i], s[i + 1])
                      ELSE s[i].kind # "farewell"

LEMMA NestedOn ==
  ASSUME NEW f \in Frame, NEW s \in Seq(Frame)
  PROVE  Nested(On(f, s)) <=>
           /\ Nested(s)
           /\ s # <<>> => Upon(f, Head(s))
           /\ s = <<>> => f.kind # "farewell"
<1>1. s # <<>> => 1 \in DOMAIN s /\ Head(s) = s[1]
  OBVIOUS
<1>2. 1 \in DOMAIN s => s # <<>>
  OBVIOUS
<1>3. DOMAIN s = 1 .. Len(s) /\ DOMAIN On(f, s) = 1 .. Len(s) + 1 /\ Len(s) \in Nat
  BY OnIsStack
<1>4. On(f, s)[1] = f /\ \A i \in DOMAIN s : On(f, s)[i + 1] = s[i]
  BY OnIsStack
<1>5. ASSUME Nested(On(f, s))
      PROVE  /\ Nested(s)
             /\ s # <<>> => Upon(f, Head(s))
             /\ s = <<>> => f.kind # "farewell"
  <2>1. ASSUME NEW i \in DOMAIN s, i + 1 \in DOMAIN s
        PROVE  Upon(s[i], s[i + 1])
    <3>1. i + 1 \in DOMAIN On(f, s) /\ (i + 1) + 1 \in DOMAIN On(f, s)
      BY <1>3, <2>1
    <3>2. On(f, s)[i + 1] = s[i] /\ On(f, s)[(i + 1) + 1] = s[i + 1]
      BY <1>4, <2>1
    <3> QED BY <1>5, <3>1, <3>2 DEF Nested
  <2>3. ASSUME NEW i \in DOMAIN s, i + 1 \notin DOMAIN s
        PROVE  s[i].kind # "farewell"
    <3>1. i + 1 \in DOMAIN On(f, s) /\ (i + 1) + 1 \notin DOMAIN On(f, s)
      BY <1>3, <2>3
    <3>2. On(f, s)[i + 1] = s[i]
      BY <1>4, <2>3
    <3> QED BY <1>5, <3>1, <3>2 DEF Nested
  <2>4. ASSUME s = <<>> PROVE f.kind # "farewell"
    <3>1. 1 \in DOMAIN On(f, s) /\ 1 + 1 \notin DOMAIN On(f, s)
      BY <1>3, <2>4
    <3> QED BY <1>4, <1>5, <3>1 DEF Nested
  <2>2. ASSUME s # <<>> PROVE Upon(f, Head(s))
    <3>1. 1 \in DOMAIN On(f, s) /\ 1 + 1 \in DOMAIN On(f, s)
      BY <1>1, <1>3, <2>2
    <3>2. On(f, s)[1 + 1] = Head(s)
      BY <1>1, <1>4, <2>2
    <3> QED BY <1>4, <1>5, <3>1, <3>2 DEF Nested
  <2> QED BY <2>1, <2>2, <2>3, <2>4 DEF Nested
<1>6. ASSUME Nested(s), s # <<>> => Upon(f, Head(s)), s = <<>> => f.kind # "farewell"
      PROVE  Nested(On(f, s))
  <2>3. ASSUME NEW i \in DOMAIN On(f, s), i + 1 \notin DOMAIN On(f, s)
        PROVE  On(f, s)[i].kind # "farewell"
    <3>1. CASE i = 1
      <4>1. s = <<>>
        BY <1>3, <2>3, <3>1
      <4> QED BY <1>4, <1>6, <3>1, <4>1
    <3>2. CASE i # 1
      <4>1. i - 1 \in DOMAIN s /\ (i - 1) + 1 \notin DOMAIN s /\ (i - 1) + 1 = i
        BY <1>3, <2>3, <3>2
      <4>2. On(f, s)[i] = s[i - 1]
        BY <1>4, <4>1
      <4> QED BY <1>6, <4>1, <4>2 DEF Nested
    <3> QED BY <3>1, <3>2
  <2> SUFFICES ASSUME NEW i \in DOMAIN On(f, s), i + 1 \in DOMAIN On(f, s)
               PROVE  Upon(On(f, s)[i], On(f, s)[i + 1])
    BY <2>3 DEF Nested
  <2>1. CASE i = 1
    <3>1. 1 \in DOMAIN s
      BY <1>3, <2>1
    <3>2. On(f, s)[i] = f /\ On(f, s)[i + 1] = Head(s)
      BY <1>1, <1>2, <1>4, <2>1, <3>1
    <3> QED BY <1>2, <1>6, <3>1, <3>2
  <2>2. CASE i # 1
    <3>1. i - 1 \in DOMAIN s /\ (i - 1) + 1 \in DOMAIN s /\ (i - 1) + 1 = i
      BY <1>3, <2>2
    <3>2. On(f, s)[i] = s[i - 1] /\ On(f, s)[i + 1] = s[(i - 1) + 1]
      BY <1>4, <3>1
    <3>3. Upon(s[i - 1], s[(i - 1) + 1])
      BY <1>6, <3>1 DEF Nested
    <3> QED BY <3>2, <3>3
  <2> QED BY <2>1, <2>2
<1> QED BY <1>5, <1>6

\* Which process each call holds, where st are the states and L the list: a
\* process is being called exactly when a thread frame has it, and no more than
\* one has; an exit holds its process, no longer running, on the list.
Holds(s, kind, p) == \E i \in DOMAIN s : s[i].kind = kind /\ s[i].p = p
Once(s, kind) ==
  \A i, j \in DOMAIN s :
    s[i].kind = kind /\ s[j].kind = kind /\ s[i].p = s[j].p => i = j
Held(s, st, L) ==
  /\ Once(s, "thread") /\ Once(s, "exit_process")
  /\ \A p \in Process : Holds(s, "thread", p) <=> st[p] = "called"
  /\ \A p \in Process : Holds(s, "exit_process", p) => st[p] = "none" /\ p \in L
  /\ \A p \in Process : st[p] # "none" => p \in L
  /\ \A p \in L : st[p] # "none" \/ Holds(s, "exit_process", p)

LEMMA HoldsOn ==
  ASSUME NEW f \in Frame, NEW s \in Seq(Frame), NEW kind, NEW p
  PROVE  Holds(On(f, s), kind, p) <=>
           Holds(s, kind, p) \/ (f.kind = kind /\ f.p = p)
<1>1. /\ 1 \in DOMAIN On(f, s) /\ On(f, s)[1] = f
      /\ \A i \in DOMAIN s : i + 1 \in DOMAIN On(f, s) /\ On(f, s)[i + 1] = s[i]
      /\ \A i \in DOMAIN On(f, s) :
           i = 1 \/ (i - 1 \in DOMAIN s /\ On(f, s)[i] = s[i - 1])
  BY OnIsStack
<1> QED BY <1>1 DEF Holds

LEMMA OnceOn ==
  ASSUME NEW f \in Frame, NEW s \in Seq(Frame), NEW kind
  PROVE  Once(On(f, s), kind) <=>
           Once(s, kind) /\ (f.kind = kind => ~Holds(s, kind, f.p))
<1>1. /\ 1 \in DOMAIN On(f, s) /\ On(f, s)[1] = f
      /\ \A i \in DOMAIN s : i + 1 \in DOMAIN On(f, s) /\ On(f, s)[i + 1] = s[i]
      /\ \A i \in DOMAIN On(f, s) :
           i = 1 \/ (i - 1 \in DOMAIN s /\ On(f, s)[i] = s[i - 1])
      /\ DOMAIN s \subseteq Nat \ {0} /\ DOMAIN On(f, s) \subseteq Nat
  <2>1. DOMAIN s = 1 .. Len(s) /\ DOMAIN On(f, s) = 1 .. Len(On(f, s))
    BY OnIsStack
  <2>2. DOMAIN s \subseteq Nat \ {0} /\ DOMAIN On(f, s) \subseteq Nat
    BY <2>1
  <2> QED BY <2>2, OnIsStack
<1>2. ASSUME Once(On(f, s), kind)
      PROVE  Once(s, kind) /\ (f.kind = kind => ~Holds(s, kind, f.p))
  <2>1. ASSUME NEW i \in DOMAIN s, NEW j \in DOMAIN s,
               s[i].kind = kind, s[j].kind = kind, s[i].p = s[j].p
        PROVE  i = j
    <3>1. i + 1 = j + 1
      BY <1>1, <1>2, <2>1 DEF Once
    <3> QED BY <1>1, <3>1
  <2>2. ASSUME f.kind = kind, NEW i \in DOMAIN s, s[i].kind = kind, s[i].p = f.p
        PROVE  FALSE
    <3>1. i + 1 = 1
      BY <1>1, <1>2, <2>2 DEF Once
    <3> QED BY <1>1, <3>1
  <2> QED BY <2>1, <2>2 DEF Once, Holds
<1>3. ASSUME Once(s, kind), f.kind = kind => ~Holds(s, kind, f.p)
      PROVE  Once(On(f, s), kind)
  <2> SUFFICES ASSUME NEW i \in DOMAIN On(f, s), NEW j \in DOMAIN On(f, s),
                      On(f, s)[i].kind = kind, On(f, s)[j].kind = kind,
                      On(f, s)[i].p = On(f, s)[j].p
               PROVE  i = j
    BY DEF Once
  <2>1. CASE i = 1 /\ j = 1
    BY <2>1
  <2>2. CASE i = 1 /\ j # 1
    <3>1. j - 1 \in DOMAIN s /\ On(f, s)[j] = s[j - 1] /\ On(f, s)[i] = f
      BY <1>1, <2>2
    <3> QED BY <1>3, <3>1 DEF Holds
  <2>3. CASE i # 1 /\ j = 1
    <3>1. i - 1 \in DOMAIN s /\ On(f, s)[i] = s[i - 1] /\ On(f, s)[j] = f
      BY <1>1, <2>3
    <3> QED BY <1>3, <3>1 DEF Holds
  <2>4. CASE i # 1 /\ j # 1
    <3>1. /\ i - 1 \in DOMAIN s /\ On(f, s)[i] = s[i - 1]
          /\ j - 1 \in DOMAIN s /\ On(f, s)[j] = s[j - 1]
      BY <1>1, <2>4
    <3>2. i - 1 = j - 1
      BY <1>3, <3>1 DEF Once
    <3> QED BY <1>1, <3>2
  <2> QED BY <2>1, <2>2, <2>3, <2>4
<1> QED BY <1>2, <1>3

States == [Process -> ProcState]

\* A loop or a farewell holds no process,
LEMMA HeldUnderLoop ==
  ASSUME NEW f \in Frame, NEW s \in Seq(Frame), NEW st \in States,
         NEW L \in SUBSET Process, f.kind \notin {"thread", "exit_process"}
  PROVE  Held(On(f, s), st, L) <=> Held(s, st, L)
<1>1. \A kind \in {"thread", "exit_process"} :
        /\ Once(On(f, s), kind) <=> Once(s, kind)
        /\ \A p \in Process : Holds(On(f, s), kind, p) <=> Holds(s, kind, p)
  BY OnceOn, HoldsOn
<1> QED BY <1>1 DEF Held

\* a loop of exit_process goes on holding it.
LEMMA HeldByExitLoop ==
  ASSUME NEW f \in Frame, NEW g \in Frame, NEW s \in Seq(Frame),
         NEW st \in States, NEW L \in SUBSET Process,
         f.kind = "exit_process", g.kind = "exit_process", f.p = g.p,
         Held(On(f, s), st, L)
  PROVE  Held(On(g, s), st, L)
<1>1. \A kind \in {"thread", "exit_process"} :
        /\ Once(On(f, s), kind) <=> Once(On(g, s), kind)
        /\ \A p \in Process : Holds(On(f, s), kind, p) <=> Holds(On(g, s), kind, p)
  BY OnceOn, HoldsOn
<1> QED BY <1>1 DEF Held

\* call_process calls the thread of p,
LEMMA HeldCall ==
  ASSUME NEW f \in Frame, NEW s \in Seq(Frame), NEW st \in States,
         NEW L \in SUBSET Process, NEW p \in Process,
         f.kind = "thread", f.p = p, st[p] = "running", Held(s, st, L)
  PROVE  Held(On(f, s), [st EXCEPT ![p] = "called"], L)
<1> DEFINE su == [st EXCEPT ![p] = "called"]
<1>1. su[p] = "called" /\ \A q \in Process \ {p} : su[q] = st[q]
  BY DEF States
<1> HIDE DEF su
<1>2. Once(On(f, s), "thread") /\ Once(On(f, s), "exit_process")
  BY OnceOn DEF Held
<1>3. \A q \in Process : Holds(On(f, s), "thread", q) <=> su[q] = "called"
  BY <1>1, HoldsOn DEF Held
<1>4. \A q \in Process :
        Holds(On(f, s), "exit_process", q) <=> Holds(s, "exit_process", q)
  BY HoldsOn
<1>5. \A q \in Process : (su[q] = "none" <=> st[q] = "none")
  BY <1>1
<1> QED BY <1>2, <1>3, <1>4, <1>5 DEF Held, su

\* and the thread yields.
LEMMA HeldYield ==
  ASSUME NEW f \in Frame, NEW s \in Seq(Frame), NEW st \in States,
         NEW L \in SUBSET Process, NEW p \in Process,
         f.kind = "thread", f.p = p, Held(On(f, s), st, L)
  PROVE  /\ st[p] = "called"
         /\ Held(s, [st EXCEPT ![p] = "running"], L)
<1> DEFINE su == [st EXCEPT ![p] = "running"]
<1>1. su[p] = "running" /\ \A q \in Process \ {p} : su[q] = st[q]
  BY DEF States
<1> HIDE DEF su
<1>2. Once(s, "thread") /\ Once(s, "exit_process") /\ ~Holds(s, "thread", p)
  BY OnceOn DEF Held
<1>3. \A q \in Process : Holds(On(f, s), "thread", q) <=>
                           Holds(s, "thread", q) \/ p = q
  BY HoldsOn
<1>4. \A q \in Process :
        Holds(On(f, s), "exit_process", q) <=> Holds(s, "exit_process", q)
  BY HoldsOn
<1>5. st[p] = "called"
  BY <1>3 DEF Held
<1>6. \A q \in Process : (su[q] = "none" <=> st[q] = "none")
  BY <1>1, <1>5
<1>7. \A q \in Process : Holds(s, "thread", q) <=> su[q] = "called"
  BY <1>1, <1>2, <1>3 DEF Held
<1> QED BY <1>2, <1>4, <1>5, <1>6, <1>7 DEF Held, su

\* exit_process begins for a process that is not in a call,
LEMMA HeldExit ==
  ASSUME NEW f \in Frame, NEW s \in Seq(Frame), NEW st \in States,
         NEW L \in SUBSET Process, NEW p \in Process,
         f.kind = "exit_process", f.p = p, st[p] = "running", Held(s, st, L)
  PROVE  Held(On(f, s), [st EXCEPT ![p] = "none"], L)
<1> DEFINE su == [st EXCEPT ![p] = "none"]
<1>1. su[p] = "none" /\ \A q \in Process \ {p} : su[q] = st[q]
  BY DEF States
<1> HIDE DEF su
<1>2. Once(On(f, s), "thread") /\ Once(On(f, s), "exit_process")
  BY OnceOn DEF Held
<1>3. \A q \in Process : Holds(On(f, s), "thread", q) <=> Holds(s, "thread", q)
  BY HoldsOn
<1>4. \A q \in Process : Holds(On(f, s), "exit_process", q) <=>
                           Holds(s, "exit_process", q) \/ p = q
  BY HoldsOn
<1>5. \A q \in Process : su[q] = "called" <=> st[q] = "called"
  BY <1>1
<1>6. p \in L
  BY DEF Held
<1> QED BY <1>1, <1>2, <1>3, <1>4, <1>5, <1>6 DEF Held, su

\* and takes it off the list.
LEMMA HeldExitDone ==
  ASSUME NEW f \in Frame, NEW s \in Seq(Frame), NEW st \in States,
         NEW L \in SUBSET Process, NEW p \in Process,
         f.kind = "exit_process", f.p = p, Held(On(f, s), st, L)
  PROVE  /\ st[p] = "none" /\ p \in L
         /\ Held(s, st, L \ {p})
<1>1. Once(s, "thread") /\ Once(s, "exit_process") /\ ~Holds(s, "exit_process", p)
  BY OnceOn DEF Held
<1>2. \A q \in Process : Holds(On(f, s), "thread", q) <=> Holds(s, "thread", q)
  BY HoldsOn
<1>3. \A q \in Process : Holds(On(f, s), "exit_process", q) <=>
                           Holds(s, "exit_process", q) \/ p = q
  BY HoldsOn
<1>4. st[p] = "none" /\ p \in L
  BY <1>3 DEF Held
<1> QED BY <1>1, <1>2, <1>3, <1>4 DEF Held

\* process_start puts it on the list, running.
LEMMA HeldStart ==
  ASSUME NEW s \in Seq(Frame), NEW st \in States,
         NEW L \in SUBSET Process, NEW p \in Process \ L, Held(s, st, L)
  PROVE  Held(s, [st EXCEPT ![p] = "running"], {p} \cup L)
<1> DEFINE su == [st EXCEPT ![p] = "running"]
<1>1. su[p] = "running" /\ \A q \in Process \ {p} : su[q] = st[q]
  BY DEF States
<1> HIDE DEF su
<1>2. st[p] = "none" /\ ~Holds(s, "thread", p) /\ ~Holds(s, "exit_process", p)
  BY DEF Held
<1> QED BY <1>1, <1>2 DEF Held, su

-----------------------------------------------------------------------------
(***************************************************************************)
(* What the loops on the stack still owe.                                  *)
(***************************************************************************)
\* A do_poll on the stack has still to come to p.
Kept(p, s, nx, h) ==
  \E i \in DOMAIN s : s[i].kind = "do_poll" /\ p \in Ahead(nx, h, s[i].at)

LEMMA KeptOn ==
  ASSUME NEW f \in Frame, NEW s \in Seq(Frame), NEW nx, NEW h, NEW p
  PROVE  Kept(p, On(f, s), nx, h) <=>
           Kept(p, s, nx, h) \/ (f.kind = "do_poll" /\ p \in Ahead(nx, h, f.at))
<1>1. /\ 1 \in DOMAIN On(f, s) /\ On(f, s)[1] = f
      /\ \A i \in DOMAIN s : i + 1 \in DOMAIN On(f, s) /\ On(f, s)[i + 1] = s[i]
      /\ \A i \in DOMAIN On(f, s) :
           i = 1 \/ (i - 1 \in DOMAIN s /\ On(f, s)[i] = s[i - 1])
  BY OnIsStack
<1> QED BY <1>1 DEF Kept

\* A do_event at f owes its event to those of A: each is running, and is ahead
\* or is the one whose call is due.
OwedBy(f, A, st, nx, h) ==
  \A p \in A : /\ st[p] # "none"
               /\ p \in Ahead(nx, h, f.at) \/ (f.due /\ p = f.at)
Owing(s, A, st, nx, h) ==
  \A i \in DOMAIN s : s[i].kind = "do_event" => OwedBy(s[i], A, st, nx, h)

LEMMA OwingOn ==
  ASSUME NEW f \in Frame, NEW s \in Seq(Frame), NEW A, NEW st, NEW nx, NEW h
  PROVE  Owing(On(f, s), A, st, nx, h) <=>
           /\ Owing(s, A, st, nx, h)
           /\ f.kind = "do_event" => OwedBy(f, A, st, nx, h)
<1>1. /\ 1 \in DOMAIN On(f, s) /\ On(f, s)[1] = f
      /\ \A i \in DOMAIN s : i + 1 \in DOMAIN On(f, s) /\ On(f, s)[i + 1] = s[i]
      /\ \A i \in DOMAIN On(f, s) :
           i = 1 \/ (i - 1 \in DOMAIN s /\ On(f, s)[i] = s[i - 1])
  BY OnIsStack
<1> QED BY <1>1 DEF Owing

\* Debts of fewer processes, on a list on which no walk has lost one of them.
LEMMA OwingStill ==
  ASSUME NEW s \in Seq(Frame), NEW A, NEW st, NEW nx, NEW h,
         NEW B \in SUBSET A, NEW su, NEW ny, NEW k,
         \A p \in B : st[p] # "none" =>
           /\ su[p] # "none"
           /\ \A at \in Place : p \in Ahead(nx, h, at) => p \in Ahead(ny, k, at),
         Owing(s, A, st, nx, h)
  PROVE  Owing(s, B, su, ny, k)
<1> SUFFICES ASSUME NEW i \in DOMAIN s, s[i].kind = "do_event", NEW p \in B
             PROVE  /\ su[p] # "none"
                    /\ p \in Ahead(ny, k, s[i].at) \/ (s[i].due /\ p = s[i].at)
  BY DEF Owing, OwedBy
<1>1. s[i].at \in Place
  <2>1. s[i] \in Frame
    OBVIOUS
  <2> QED BY <2>1, FrameFields
<1> QED BY <1>1 DEF Owing, OwedBy

LEMMA KeptStill ==
  ASSUME NEW s \in Seq(Frame), NEW p, NEW nx, NEW h, NEW ny, NEW k,
         \A at \in Place : p \in Ahead(nx, h, at) => p \in Ahead(ny, k, at),
         Kept(p, s, nx, h)
  PROVE  Kept(p, s, ny, k)
<1>1. PICK i \in DOMAIN s : s[i].kind = "do_poll" /\ p \in Ahead(nx, h, s[i].at)
  BY DEF Kept
<1>2. s[i] \in Frame
  OBVIOUS
<1>3. s[i].at \in Place
  BY <1>1, <1>2, FrameFields
<1> QED BY <1>1, <1>3 DEF Kept

-----------------------------------------------------------------------------
(***************************************************************************)
(* List, stack and states together, and what the operations make of them.  *)
(***************************************************************************)
\* The calls on the stack fit the list and the states.
Base(s, st, nx, h) ==
  /\ s \in Seq(Frame) /\ st \in States
  /\ nx \in Links /\ h \in Process \cup {NULL}
  /\ Acyclic(nx, h)
  /\ Nested(s)
  /\ Held(s, st, Reachable(nx, h))

\* What holds of the innermost call: a thread that runs is the current process,
\* and a do_poll goes on at an element of the list.
Topped(s, pc, nx, h) ==
  /\ pc \in Process \cup {NULL}
  /\ s # <<>> /\ Head(s).kind \in {"thread", "farewell"} => pc = Head(s).p
  /\ s # <<>> /\ Head(s).kind = "do_poll" =>
       FollowingIn(nx, h, Head(s).at) \in Reachable(nx, h) \cup {NULL}

Structured(s, st, pc, nx, h) == Base(s, st, nx, h) /\ Topped(s, pc, nx, h)

LEMMA BaseOnLoop ==
  ASSUME NEW f \in Frame, NEW s, NEW st, NEW nx, NEW h,
         Base(s, st, nx, h), f.kind \notin {"thread", "exit_process"},
         s # <<>> => Upon(f, Head(s)), s = <<>> => f.kind # "farewell"
  PROVE  Base(On(f, s), st, nx, h)
<1>1. On(f, s) \in Seq(Frame)
  BY OnIsStack DEF Base
<1>2. Nested(On(f, s))
  BY NestedOn DEF Base
<1>3. Held(On(f, s), st, Reachable(nx, h))
  BY HeldUnderLoop, ReachableStep DEF Base
<1> QED BY <1>1, <1>2, <1>3 DEF Base

LEMMA BaseUnderLoop ==
  ASSUME NEW f \in Frame, NEW s \in Seq(Frame), NEW st, NEW nx, NEW h,
         Base(On(f, s), st, nx, h), f.kind \notin {"thread", "exit_process"}
  PROVE  Base(s, st, nx, h)
<1>1. Nested(s)
  BY NestedOn DEF Base
<1>2. Held(s, st, Reachable(nx, h))
  BY HeldUnderLoop, ReachableStep DEF Base
<1> QED BY <1>1, <1>2 DEF Base

\* A loop goes on.
LEMMA BaseAdvance ==
  ASSUME NEW f \in Frame, NEW g \in Frame, NEW s \in Seq(Frame),
         NEW st, NEW nx, NEW h, Base(On(f, s), st, nx, h),
         f.kind = g.kind,
         \/ f.kind \in {"do_poll", "do_event"}
         \/ f.kind = "exit_process" /\ f.p = g.p /\ f.back = g.back
  PROVE  Base(On(g, s), st, nx, h)
<1>1. s # <<>> => Upon(f, Head(s))
  BY NestedOn DEF Base
<1>2. /\ s # <<>> => Upon(g, Head(s))
      /\ s = <<>> => g.kind # "farewell"
  BY <1>1 DEF Upon
<1>3. On(g, s) \in Seq(Frame)
  BY OnIsStack
<1>4. Nested(On(g, s))
  BY <1>2, NestedOn DEF Base
<1>5. Held(On(g, s), st, Reachable(nx, h))
  <2>1. Reachable(nx, h) \in SUBSET Process
    BY ReachableStep DEF Base
  <2>2. CASE f.kind = "exit_process"
    BY <2>1, <2>2, HeldByExitLoop DEF Base
  <2>3. CASE f.kind # "exit_process"
    <3>1. f.kind \notin {"thread", "exit_process"}
      BY <2>3
    <3>2. Held(s, st, Reachable(nx, h))
      BY <2>1, <3>1, HeldUnderLoop DEF Base
    <3> QED BY <2>1, <3>1, <3>2, HeldUnderLoop DEF Base
  <2> QED BY <2>2, <2>3
<1> QED BY <1>3, <1>4, <1>5 DEF Base

\* call_process from rest, as seen by constants: s, su and pd are the stack,
\* the states and the current process after it.
Calls(st, rest, p, ev, back, pc, s, su, pd) ==
  \/ /\ st[p] = "running"
     /\ s = On(Thread(p, ev, back), rest)
     /\ su = [st EXCEPT ![p] = "called"]
     /\ pd = p
  \/ /\ st[p] # "running"
     /\ s = rest /\ su = st /\ pd = pc

CallKeeps(st, rest, s, su, pd, nx, h) ==
  /\ Structured(s, su, pd, nx, h)
  /\ \A q \in Process : su[q] = "none" <=> st[q] = "none"
  /\ \A q : Kept(q, rest, nx, h) => Kept(q, s, nx, h)
  /\ \A A \in SUBSET Process :
       Owing(rest, A, st, nx, h) => Owing(s, A, su, nx, h)

LEMMA CallProcess ==
  ASSUME NEW st, NEW rest, NEW p \in Process, NEW ev \in EventId,
         NEW back \in Process \cup {NULL, Keep}, NEW pc, NEW s, NEW su, NEW pd,
         NEW nx, NEW h,
         Base(rest, st, nx, h),
         rest # <<>> => Upon(Thread(p, ev, back), Head(rest)),
         st[p] = "running" \/ Topped(rest, pc, nx, h),
         Calls(st, rest, p, ev, back, pc, s, su, pd)
  PROVE  CallKeeps(st, rest, s, su, pd, nx, h)
<1> DEFINE f == Thread(p, ev, back)
           L == Reachable(nx, h)
<1>1. /\ rest \in Seq(Frame) /\ st \in States
      /\ nx \in Links /\ h \in Process \cup {NULL}
      /\ Nested(rest) /\ Held(rest, st, L) /\ Acyclic(nx, h)
      /\ L \in SUBSET Process
  BY ReachableStep DEF Base
<1>2. f \in Frame /\ f.kind = "thread" /\ f.p = p
  BY ThreadFrame
<1>3. CASE st[p] # "running"
  <2>1. s = rest /\ su = st /\ pd = pc /\ Topped(rest, pc, nx, h)
    BY <1>3 DEF Calls
  <2> QED BY <2>1 DEF CallKeeps, Structured
<1>4. CASE st[p] = "running"
  <2> HIDE DEF f, L
  <2>1. s = On(f, rest) /\ su = [st EXCEPT ![p] = "called"] /\ pd = p
    BY <1>4 DEF Calls, f
  <2>2. s \in Seq(Frame) /\ s # <<>> /\ Head(s) = f
    BY <1>1, <1>2, <2>1, OnIsStack
  <2>3. su \in States /\ \A q \in Process : su[q] = "none" <=> st[q] = "none"
    BY <1>1, <1>4, <2>1 DEF States, ProcState
  <2>4. Nested(s)
    BY <1>1, <1>2, <2>1, NestedOn DEF f
  <2>5. Held(s, su, L)
    BY <1>1, <1>2, <1>4, <2>1, HeldCall
  <2>6. Topped(s, pd, nx, h)
    BY <1>2, <2>1, <2>2 DEF Topped
  <2>7. \A q : Kept(q, rest, nx, h) => Kept(q, s, nx, h)
    BY <1>1, <1>2, <2>1, KeptOn
  <2>8. ASSUME NEW A \in SUBSET Process, Owing(rest, A, st, nx, h)
        PROVE  Owing(s, A, su, nx, h)
    <3>1. Owing(rest, A, su, nx, h)
      BY <2>3, <2>8 DEF Owing, OwedBy
    <3> QED BY <1>1, <1>2, <2>1, <3>1, OwingOn
  <2>9. Base(s, su, nx, h)
    BY <1>1, <2>2, <2>3, <2>4, <2>5 DEF Base, L
  <2> QED BY <2>3, <2>6, <2>7, <2>8, <2>9 DEF CallKeeps, Structured
<1> QED BY <1>3, <1>4

\* process_start, before its call: p is put in front of the list.
LEMMA StartProcess ==
  ASSUME NEW s, NEW st, NEW nx, NEW h, NEW p \in Process \ Reachable(nx, h),
         Base(s, st, nx, h)
  PROVE  /\ Base(s, [st EXCEPT ![p] = "running"], Prepended(nx, h, p), p)
         /\ \A q \in Process : st[q] # "none" =>
              /\ [st EXCEPT ![p] = "running"][q] # "none"
              /\ Kept(q, s, nx, h) => Kept(q, s, Prepended(nx, h, p), p)
         /\ \A A \in SUBSET Process :
              Owing(s, A, st, nx, h) =>
                Owing(s, A, [st EXCEPT ![p] = "running"], Prepended(nx, h, p), p)
<1> DEFINE L == Reachable(nx, h)
           su == [st EXCEPT ![p] = "running"]
           ny == Prepended(nx, h, p)
<1>1. /\ s \in Seq(Frame) /\ st \in States
      /\ nx \in Links /\ h \in Process \cup {NULL}
      /\ Nested(s) /\ Held(s, st, L) /\ Acyclic(nx, h)
      /\ L \in SUBSET Process
  BY ReachableStep DEF Base
<1>2. su \in States /\ \A q \in Process : st[q] # "none" => su[q] # "none"
  BY <1>1 DEF States, ProcState
<1>3. /\ ny \in Links
      /\ Reachable(ny, p) = {p} \cup L
      /\ Acyclic(ny, p)
  BY <1>1, Inserted
<1>4. \A q \in Process : st[q] # "none" => q \in L
  BY <1>1 DEF Held
<1>5. \A q \in L, at \in Place : q \in Ahead(nx, h, at) => q \in Ahead(ny, p, at)
  BY <1>1, InsertedKeepsAhead
<1>6. Held(s, su, {p} \cup L)
  BY <1>1, HeldStart
<1> HIDE DEF L, su, ny
<1>7. Base(s, su, ny, p)
  BY <1>1, <1>2, <1>3, <1>6 DEF Base
<1>8. \A q \in Process : st[q] # "none" =>
        /\ su[q] # "none"
        /\ Kept(q, s, nx, h) => Kept(q, s, ny, p)
  BY <1>1, <1>2, <1>4, <1>5, KeptStill
<1>9. ASSUME NEW A \in SUBSET Process, Owing(s, A, st, nx, h)
      PROVE  Owing(s, A, su, ny, p)
  <2>1. \A q \in A : st[q] # "none" =>
          /\ su[q] # "none"
          /\ \A at \in Place : q \in Ahead(nx, h, at) => q \in Ahead(ny, p, at)
    BY <1>2, <1>4, <1>5
  <2> QED BY <1>1, <1>9, <2>1, OwingStill
<1> QED BY <1>7, <1>8, <1>9 DEF su, ny

\* The end of exit_process: p is taken off the list and its frame off the stack.
UnlinkKeeps(s, st, p, pc, nx, h, ny, k) ==
  /\ Structured(s, st, pc, ny, k)
  /\ st[p] = "none"
  /\ \A q \in Process : st[q] # "none" /\ Kept(q, s, nx, h) => Kept(q, s, ny, k)
  /\ \A A \in SUBSET Process : Owing(s, A, st, nx, h) => Owing(s, A, st, ny, k)

LEMMA UnlinkProcess ==
  ASSUME NEW f \in Frame, f.kind = "exit_process", NEW s \in Seq(Frame),
         NEW st, NEW nx, NEW h, Base(On(f, s), st, nx, h)
  PROVE  UnlinkKeeps(s, st, f.p, f.back, nx, h,
                     Skipped(nx, h, f.p), HeadWithout(nx, h, f.p))
<1> DEFINE p == f.p
           L == Reachable(nx, h)
           ny == Skipped(nx, h, p)
           k == HeadWithout(nx, h, p)
<1>1. /\ st \in States
      /\ nx \in Links /\ h \in Process \cup {NULL}
      /\ Nested(On(f, s)) /\ Held(On(f, s), st, L) /\ Acyclic(nx, h)
      /\ L \in SUBSET Process
      /\ p \in Process /\ f.back \in Process \cup {NULL}
  BY ReachableStep, FrameFields DEF Base
<1>2. Nested(s) /\ (s # <<>> => Upon(f, Head(s)))
  BY <1>1, NestedOn
<1>3. st[p] = "none" /\ p \in L /\ Held(s, st, L \ {p})
  BY <1>1, HeldExitDone
<1>4. ny \in Links /\ k \in Process \cup {NULL} /\ ny[p] = nx[p]
  BY <1>1, <1>3, SkippedLinks
<1>5. Reachable(ny, k) = L \ {p} /\ Acyclic(ny, k)
  BY <1>1, <1>3, Unlinked
<1>6. \A at \in Place : Ahead(nx, h, at) \subseteq Ahead(ny, k, at) \cup {p}
  BY <1>1, UnlinkedKeepsAhead
<1>7. nx[p] \in (L \ {p}) \cup {NULL}
  <2>1. nx[p] \in L \cup {NULL} /\ p \notin Reachable(nx, nx[p])
    BY <1>1, <1>3, ReachableStep DEF Acyclic, Links
  <2>2. p \in Reachable(nx, p)
    BY <1>1, ReachableUnfold
  <2> QED BY <2>1, <2>2
<1> HIDE DEF p, L, ny, k
<1>8. Base(s, st, ny, k)
  BY <1>1, <1>2, <1>3, <1>4, <1>5 DEF Base
<1>9. Topped(s, f.back, ny, k)
  <2> SUFFICES ASSUME s # <<>>
               PROVE  /\ Head(s).kind \in {"thread", "farewell"} =>
                           f.back = Head(s).p
                      /\ Head(s).kind = "do_poll" =>
                           FollowingIn(ny, k, Head(s).at)
                             \in Reachable(ny, k) \cup {NULL}
    BY <1>1 DEF Topped
  <2>1. Upon(f, Head(s))
    BY <1>2
  <2>2. ASSUME Head(s).kind = "do_poll"
        PROVE  FollowingIn(ny, k, Head(s).at) \in Reachable(ny, k) \cup {NULL}
    <3>1. Head(s).at = p /\ p # Front
      BY <1>1, <2>1, <2>2, FrameAssumption DEF Upon, p, Front
    <3> QED BY <1>4, <1>5, <1>7, <3>1 DEF FollowingIn
  <2> QED BY <2>1, <2>2 DEF Upon
<1>10. \A q \in Process : st[q] # "none" /\ Kept(q, s, nx, h) => Kept(q, s, ny, k)
  BY <1>3, <1>6, KeptStill
<1>11. ASSUME NEW A \in SUBSET Process, Owing(s, A, st, nx, h)
       PROVE  Owing(s, A, st, ny, k)
  <2>1. \A q \in A : st[q] # "none" =>
          /\ st[q] # "none"
          /\ \A at \in Place : q \in Ahead(nx, h, at) => q \in Ahead(ny, k, at)
    BY <1>3, <1>6
  <2> QED BY <1>11, <2>1, OwingStill
<1> QED BY <1>3, <1>8, <1>9, <1>10, <1>11 DEF UnlinkKeeps, Structured, p, ny, k

\* call_process resumes when the thread has yielded.
LEMMA YieldProcess ==
  ASSUME NEW f \in Frame, f.kind = "thread", NEW s \in Seq(Frame),
         NEW st, NEW nx, NEW h, NEW pc \in Process \cup {NULL},
         Base(On(f, s), st, nx, h)
  PROVE  /\ st[f.p] = "called"
         /\ Structured(s, [st EXCEPT ![f.p] = "running"],
                       IF f.back = Keep THEN pc ELSE f.back, nx, h)
<1> DEFINE p == f.p
           L == Reachable(nx, h)
           su == [st EXCEPT ![p] = "running"]
           pd == IF f.back = Keep THEN pc ELSE f.back
<1>1. /\ st \in States
      /\ nx \in Links /\ h \in Process \cup {NULL}
      /\ Nested(On(f, s)) /\ Held(On(f, s), st, L) /\ Acyclic(nx, h)
      /\ L \in SUBSET Process
      /\ p \in Process /\ f.back \in Process \cup {NULL, Keep}
  BY ReachableStep, FrameFields DEF Base
<1>2. Nested(s) /\ (s # <<>> => Upon(f, Head(s)))
  BY <1>1, NestedOn
<1>3. st[p] = "called" /\ Held(s, su, L)
  BY <1>1, HeldYield
<1>4. su \in States
  BY <1>1 DEF States, ProcState
<1>5. p \in L
  BY <1>1, <1>3 DEF Held
<1>6. nx[p] \in L \cup {NULL}
  BY <1>1, <1>5, ReachableStep DEF Links
<1> HIDE DEF L, su
<1>7. Base(s, su, nx, h)
  BY <1>1, <1>2, <1>3, <1>4 DEF Base, L
<1>8. Topped(s, pd, nx, h)
  <2>1. pd \in Process \cup {NULL}
    BY <1>1
  <2>2. ASSUME s # <<>>, Head(s).kind \in {"thread", "farewell"}
        PROVE  pd = Head(s).p
    <3>1. f.back = Head(s).p
      BY <1>2, <2>2 DEF Upon
    <3>2. Head(s) \in Frame
      BY <2>2, StackIsOn
    <3>3. Head(s).p \in Process
      BY <2>2, <3>2, FrameFields
    <3> QED BY <3>1, <3>3, FrameAssumption DEF Keep
  <2>3. ASSUME s # <<>>, Head(s).kind = "do_poll"
        PROVE  FollowingIn(nx, h, Head(s).at) \in Reachable(nx, h) \cup {NULL}
    <3>1. Head(s).at = p /\ p # Front
      BY <1>1, <1>2, <2>3, FrameAssumption DEF Upon, Front
    <3> QED BY <1>6, <3>1 DEF FollowingIn, L
  <2> HIDE DEF pd
  <2> QED BY <2>1, <2>2, <2>3 DEF Topped
<1> QED BY <1>3, <1>7, <1>8 DEF Structured, su

\* exit_process of a process that is in no call, up to its loop.
LEMMA ExitProcess ==
  ASSUME NEW p \in Process, NEW from \in Process \cup {NULL},
         NEW back \in Process \cup {NULL}, NEW s, NEW st, NEW nx, NEW h,
         NEW pc \in Process \cup {NULL},
         Base(s, st, nx, h), st[p] = "running",
         s # <<>> => Upon(Exit(p, from, back, Front), Head(s))
  PROVE  /\ Structured(On(Exit(p, from, back, Front), s),
                       [st EXCEPT ![p] = "none"], pc, nx, h)
         /\ \A q : Kept(q, s, nx, h) =>
                     Kept(q, On(Exit(p, from, back, Front), s), nx, h)
         /\ \A A \in SUBSET Process :
              Owing(s, A, st, nx, h) =>
                Owing(On(Exit(p, from, back, Front), s), A \ {p},
                      [st EXCEPT ![p] = "none"], nx, h)
<1> DEFINE f == Exit(p, from, back, Front)
           L == Reachable(nx, h)
           su == [st EXCEPT ![p] = "none"]
<1>1. /\ s \in Seq(Frame) /\ st \in States
      /\ nx \in Links /\ h \in Process \cup {NULL}
      /\ Nested(s) /\ Held(s, st, L) /\ Acyclic(nx, h)
      /\ L \in SUBSET Process
  BY ReachableStep DEF Base
<1>2. f \in Frame /\ f.kind = "exit_process" /\ f.p = p
  BY ExitFrameAtFront
<1> HIDE DEF f, L
<1>3. /\ On(f, s) \in Seq(Frame) /\ On(f, s) # <<>> /\ Head(On(f, s)) = f
  BY <1>1, <1>2, OnIsStack
<1>4. su \in States /\ \A q \in Process \ {p} : su[q] = st[q]
  BY <1>1 DEF States, ProcState
<1>5. Nested(On(f, s))
  BY <1>1, <1>2, NestedOn DEF f
<1>6. Held(On(f, s), su, L)
  BY <1>1, <1>2, HeldExit
<1> HIDE DEF su
<1>7. Base(On(f, s), su, nx, h) /\ Topped(On(f, s), pc, nx, h)
  BY <1>1, <1>2, <1>3, <1>4, <1>5, <1>6 DEF Base, Topped, L
<1>8. \A q : Kept(q, s, nx, h) => Kept(q, On(f, s), nx, h)
  BY <1>1, <1>2, KeptOn
<1>9. ASSUME NEW A \in SUBSET Process, Owing(s, A, st, nx, h)
      PROVE  Owing(On(f, s), A \ {p}, su, nx, h)
  <2>1. Owing(s, A \ {p}, su, nx, h)
    BY <1>4, <1>9 DEF Owing, OwedBy
  <2> QED BY <1>1, <1>2, <2>1, OwingOn
<1> QED BY <1>7, <1>8, <1>9 DEF Structured, f, su

\* While do_poll or do_event is the innermost call no thread runs and no exit is
\* in progress: what is on the list is running, and nothing else.
LEMMA LoopAlone ==
  ASSUME NEW f \in Frame, f.kind \in {"do_poll", "do_event"},
         NEW s \in Seq(Frame), NEW st, NEW nx, NEW h, Base(On(f, s), st, nx, h)
  PROVE  /\ f.kind = "do_event" => s = <<>>
         /\ s # <<>> => Head(s).kind = "do_event"
         /\ \A p \in Reachable(nx, h) : st[p] = "running"
         /\ \A p \in Process : st[p] # "none" => st[p] = "running"
<1> DEFINE L == Reachable(nx, h)
<1>1. /\ st \in States /\ L \in SUBSET Process
      /\ Nested(On(f, s)) /\ Held(On(f, s), st, L)
  BY ReachableStep DEF Base
<1>2. Nested(s) /\ (s # <<>> => Upon(f, Head(s)))
  BY <1>1, NestedOn
<1>3. /\ f.kind = "do_event" => s = <<>>
      /\ s # <<>> => Head(s).kind = "do_event"
  BY <1>2 DEF Upon
<1>4. \A kind, p : ~Holds(<<>>, kind, p)
  BY DEF Holds
<1>5. ASSUME s # <<>>
      PROVE  \A kind \in {"thread", "exit_process"}, p \in Process : ~Holds(s, kind, p)
  <2>1. s = On(Head(s), Tail(s)) /\ Head(s) \in Frame /\ Tail(s) \in Seq(Frame)
    BY <1>5, StackIsOn
  <2>2. Tail(s) # <<>> => Upon(Head(s), Head(Tail(s)))
    BY <1>2, <2>1, NestedOn
  <2>3. Tail(s) = <<>>
    BY <1>3, <1>5, <2>2 DEF Upon
  <2>4. \A kind, p : Holds(On(Head(s), Tail(s)), kind, p) <=>
                       Holds(<<>>, kind, p) \/ (Head(s).kind = kind /\ Head(s).p = p)
    BY <2>1, <2>3, HoldsOn
  <2> QED BY <1>3, <1>4, <1>5, <2>1, <2>4
<1>6. \A kind \in {"thread", "exit_process"}, p \in Process :
        ~Holds(On(f, s), kind, p)
  BY <1>4, <1>5, HoldsOn
<1>7. \A p \in Process : st[p] # "called"
  BY <1>1, <1>6 DEF Held
<1>8. \A p \in L : st[p] # "none"
  BY <1>1, <1>6 DEF Held
<1>9. \A p \in Process : st[p] \in {"none", "running", "called"}
  BY <1>1 DEF States, ProcState
<1> QED BY <1>1, <1>3, <1>7, <1>8, <1>9

-----------------------------------------------------------------------------
(***************************************************************************)
(* The inductive invariant.                                                *)
(***************************************************************************)
Structure == Structured(stack, state, process_current, next, process_list)

\* NoLostPoll, for each process that waits for a poll, and that it is running.
PollsKept ==
  \A p \in wanted :
    /\ needspoll[p]
    /\ state[p] # "none"
    /\ poll_requested \/ Kept(p, stack, next, process_list)

\* What the broadcast in progress has still to reach.
EventOwed == Owing(stack, audience \ heard, state, next, process_list)

MainWaits == main \in {"run", "idle", "asleep"} => stack = <<>>
Asleep == main = "asleep" => events = <<>> /\ ~poll_requested

\* Only process_start sends PROCESS_EVENT_INIT.
Posted == events \in Seq([ev : {"ev", "exit"}, p : Process \cup {NULL}])

\* The types of the variables that Structure does not speak of.
RestTyped ==
  /\ needspoll \in [Process -> BOOLEAN]
  /\ events \in Seq([ev : EventId, p : Process \cup {NULL}])
  /\ Len(events) <= PROCESS_CONF_NUMEVENTS
  /\ poll_requested \in BOOLEAN
  /\ main \in {"boot", "run", "event", "ran", "idle", "asleep"}
  /\ started \in 0 .. Len(Autostart)
  /\ wanted \subseteq Process
  /\ audience \subseteq Process
  /\ heard \subseteq Process

Core == Structure /\ PollsKept /\ EventOwed
IInv == RestTyped /\ Core /\ MainWaits /\ Asleep /\ Posted

LEMMA Typed == Structure <=>
  /\ Structure
  /\ next \in Links /\ process_list \in Process \cup {NULL}
  /\ state \in States /\ stack \in Seq(Frame)
  /\ process_current \in Process \cup {NULL}
  /\ Listed \in SUBSET Process
BY ReachableStep DEF Structure, Structured, Base, Topped, Listed

LEMMA InitEstablishes == Init => IInv
<1> SUFFICES ASSUME Init PROVE IInv
  OBVIOUS
<1>1. RestTyped
  <2>1. <<>> \in Seq([ev : EventId, p : Process \cup {NULL}]) /\ Len(<<>>) = 0
    OBVIOUS
  <2>2. Len(Autostart) \in Nat
    BY AutostartAssumption
  <2>3. started \in 0 .. Len(Autostart) /\ Len(events) <= PROCESS_CONF_NUMEVENTS
    BY <2>1, <2>2, NumEventsAssumption DEF Init
  <2>4. needspoll \in [Process -> BOOLEAN]
    BY DEF Init
  <2> QED BY <2>1, <2>3, <2>4 DEF Init, RestTyped
<1>2. next \in Links /\ process_list = NULL /\ state \in States /\ stack = <<>>
  BY DEF Init, Links, States, ProcState
<1>3. Reachable(next, process_list) = {}
  BY <1>2, NothingFromNull
<1>4. Structure
  <2>1. Acyclic(next, process_list)
    BY <1>3 DEF Acyclic
  <2>2. Nested(<<>>) /\ \A kind, p : ~Holds(<<>>, kind, p) /\ Once(<<>>, kind)
    BY DEF Nested, Holds, Once
  <2>3. Held(stack, state, Reachable(next, process_list))
    BY <1>2, <1>3, <2>2 DEF Held, Init
  <2>4. stack \in Seq(Frame) /\ process_current \in Process \cup {NULL}
    BY DEF Init
  <2> QED BY <1>2, <2>1, <2>2, <2>3, <2>4
       DEF Structure, Structured, Base, Topped
<1>5. PollsKept /\ EventOwed /\ MainWaits /\ Asleep /\ Posted
  BY DEF Init, PollsKept, EventOwed, Owing, MainWaits, Asleep, Posted
<1> QED BY <1>1, <1>4, <1>5 DEF IInv, Core

-----------------------------------------------------------------------------
(***************************************************************************)
(* Every action preserves it.                                              *)
(***************************************************************************)
LEMMA StructureStays ==
  Structure /\ UNCHANGED <<listVars, state, process_current, stack>> => Structure'
BY DEF Structure, listVars

LEMMA EventOwedStays ==
  EventOwed /\ UNCHANGED <<listVars, state, stack, historyVars>> => EventOwed'
BY DEF EventOwed, listVars, historyVars

LEMMA PollsKeptStays ==
  PollsKept /\ UNCHANGED <<listVars, state, stack, pollVars>> => PollsKept'
BY DEF PollsKept, listVars, pollVars

\* A poll, of an interrupt or of a thread, is requested until do_poll begins.
LEMMA PollRequested ==
  ASSUME RestTyped, PollsKept, NEW p \in Process, process_poll(p),
         UNCHANGED <<listVars, state, stack>>
  PROVE  /\ PollsKept'
         /\ needspoll' \in [Process -> BOOLEAN]
         /\ poll_requested' \in BOOLEAN /\ wanted' \subseteq Process
<1>1. CASE state[p] \in {"running", "called"}
  BY <1>1 DEF process_poll, PollsKept, RestTyped
<1>2. CASE state[p] \notin {"running", "called"}
  <2>1. UNCHANGED pollVars
    BY <1>2 DEF process_poll
  <2> QED BY <2>1, PollsKeptStays DEF RestTyped, pollVars
<1> QED BY <1>1, <1>2

\* The debts that a call leaves are those it found.
LEMMA CallKeepsCore ==
  ASSUME Core, RestTyped, NEW st, NEW rest,
         CallKeeps(st, rest, stack', state', process_current', next', process_list'),
         \A q \in wanted' : /\ needspoll'[q]
                            /\ st[q] # "none"
                            /\ poll_requested' \/ Kept(q, rest, next', process_list'),
         audience' \in SUBSET Process,
         Owing(rest, audience' \ heard', st, next', process_list'),
         wanted' \subseteq Process
  PROVE  Core'
<1>1. Structure'
  BY DEF CallKeeps, Structure
<1>2. PollsKept'
  BY DEF CallKeeps, PollsKept
<1>3. EventOwed'
  BY DEF CallKeeps, EventOwed
<1> QED BY <1>1, <1>2, <1>3 DEF Core

\* A thread that runs is the current process, which its calls restore.
LEMMA CallUponRunning ==
  ASSUME Structure, Running, NEW p \in Process, NEW ev, NEW from
  PROVE  /\ Upon(Thread(p, ev, process_current), Head(stack))
         /\ Upon(Exit(p, from, process_current, Front), Head(stack))
<1>1. Head(stack).kind \in {"thread", "farewell"} /\ process_current = Head(stack).p
  BY DEF Structure, Structured, Topped, Running, InLoop, Top
<1> QED BY <1>1 DEF Upon, Thread, Exit

\* process_start, by main or by a thread.
LEMMA Starts ==
  ASSUME Core, RestTyped, NEW p \in Process, stack = <<>> \/ Running,
         process_start(stack, p), UNCHANGED <<pollVars, historyVars>>
  PROVE  Core'
<1>0. /\ next \in Links /\ process_list \in Process \cup {NULL}
      /\ state \in States /\ stack \in Seq(Frame)
      /\ process_current \in Process \cup {NULL}
      /\ Listed \in SUBSET Process
  BY Typed DEF Core
<1>1. CASE p \in Listed
  BY <1>1, StructureStays, EventOwedStays, PollsKeptStays
     DEF process_start, Core, listVars, pollVars, historyVars
<1>2. CASE p \notin Listed
  <2> DEFINE st == [state EXCEPT ![p] = "running"]
             ny == Prepended(next, process_list, p)
  <2>1. /\ next' = ny /\ process_list' = p
        /\ call_process(st, stack, p, "init", process_current)
    BY <1>2 DEF process_start, Prepended
  <2>2. Base(stack, state, next, process_list)
    BY DEF Core, Structure, Structured
  <2>3. p \in Process \ Reachable(next, process_list)
    BY <1>2 DEF Listed
  <2>4. /\ Base(stack, st, ny, p)
        /\ \A q \in Process : state[q] # "none" =>
             st[q] # "none"
             /\ (Kept(q, stack, next, process_list) => Kept(q, stack, ny, p))
        /\ \A A \in SUBSET Process :
             Owing(stack, A, state, next, process_list) => Owing(stack, A, st, ny, p)
    BY <2>2, <2>3, StartProcess
  <2>5. st[p] = "running"
    BY <1>0 DEF States
  <2> HIDE DEF st, ny
  <2>6. Calls(st, stack, p, "init", process_current, process_current,
              stack', state', process_current')
    BY <2>1, <2>5 DEF call_process, Calls, On
  <2>7. stack # <<>> => Upon(Thread(p, "init", process_current), Head(stack))
    BY CallUponRunning DEF Core
  <2>8. CallKeeps(st, stack, stack', state', process_current', ny, p)
    <3>1. "init" \in EventId /\ process_current \in Process \cup {NULL, Keep}
      BY <1>0 DEF EventId
    <3> QED BY <2>4, <2>5, <2>6, <2>7, <3>1, CallProcess
  <2>9. \A q \in wanted : /\ needspoll[q]
                          /\ st[q] # "none"
                          /\ poll_requested \/ Kept(q, stack, ny, p)
    BY <2>4 DEF Core, PollsKept, RestTyped
  <2>10. Owing(stack, audience \ heard, st, ny, p)
    <3>1. audience \ heard \in SUBSET Process
      BY DEF RestTyped
    <3> QED BY <2>4, <3>1 DEF Core, EventOwed
  <2>11. /\ wanted' = wanted /\ needspoll' = needspoll
         /\ poll_requested' = poll_requested
         /\ audience' = audience /\ heard' = heard
    BY DEF pollVars, historyVars
  <2>12. CallKeeps(st, stack, stack', state', process_current', next', process_list')
    BY <2>1, <2>8
  <2> QED BY <2>1, <2>9, <2>10, <2>11, <2>12, CallKeepsCore DEF RestTyped
<1> QED BY <1>1, <1>2

LEMMA BootKeeps == IInv /\ Boot => IInv'
<1> SUFFICES ASSUME IInv, Boot PROVE IInv'
  OBVIOUS
<1>1. CASE started < Len(Autostart)
  <2>1. /\ stack = <<>> /\ process_start(stack, Autostart[started + 1])
        /\ started' = started + 1 /\ main' = "boot"
        /\ UNCHANGED <<events, pollVars, historyVars>>
    BY <1>1 DEF Boot
  <2>2. Len(Autostart) \in Nat /\ started \in Nat
    BY AutostartAssumption DEF IInv, RestTyped
  <2>3. started + 1 \in 1 .. Len(Autostart) /\ started' \in 0 .. Len(Autostart)
    BY <1>1, <2>1, <2>2
  <2>4. Autostart[started + 1] \in Process
    BY <2>3, AutostartAssumption
  <2>5. Core'
    BY <2>1, <2>4, Starts DEF IInv
  <2>6. RestTyped'
    BY <2>1, <2>3 DEF IInv, RestTyped, pollVars, historyVars
  <2>7. MainWaits' /\ Asleep' /\ Posted'
    BY <2>1 DEF IInv, MainWaits, Asleep, Posted
  <2> QED BY <2>5, <2>6, <2>7 DEF IInv
<1>2. CASE ~(started < Len(Autostart))
  <2>1. /\ stack = <<>> /\ main' = "run"
        /\ UNCHANGED <<listVars, state, process_current, stack, started,
                       events, pollVars, historyVars>>
    BY <1>2 DEF Boot
  <2>2. Core'
    BY <2>1, StructureStays, EventOwedStays, PollsKeptStays DEF IInv, Core
  <2>3. RestTyped'
    BY <2>1 DEF IInv, RestTyped, pollVars, historyVars
  <2>4. MainWaits' /\ Asleep' /\ Posted'
    BY <2>1 DEF IInv, MainWaits, Asleep, Posted
  <2> QED BY <2>2, <2>3, <2>4 DEF IInv
<1> QED BY <1>1, <1>2

\* Everything but where main is stands still.
LEMMA MainKeeps ==
  ASSUME IInv, UNCHANGED <<listVars, state, process_current, events, pollVars,
                           stack, started, historyVars>>,
         main' \in {"run", "idle", "asleep"}, stack = <<>>,
         main' = "asleep" => events = <<>> /\ ~poll_requested
  PROVE  IInv'
<1>1. Core'
  BY StructureStays, EventOwedStays, PollsKeptStays DEF IInv, Core
<1>2. RestTyped'
  BY DEF IInv, RestTyped, pollVars, historyVars
<1>3. MainWaits' /\ Asleep' /\ Posted'
  BY DEF IInv, MainWaits, Asleep, Posted, pollVars
<1> QED BY <1>1, <1>2, <1>3 DEF IInv

LEMMA RunReturnsKeeps == IInv /\ RunReturns => IInv'
BY MainKeeps DEF RunReturns

LEMMA IdleKeeps == IInv /\ Idle => IInv'
<1> SUFFICES ASSUME IInv, Idle PROVE IInv'
  OBVIOUS
<1>1. stack = <<>>
  BY DEF IInv, MainWaits, Idle
<1>2. ASSUME process_nevents = 0 PROVE events = <<>> /\ ~poll_requested
  <2>1. /\ Len(events) \in Nat /\ (Len(events) = 0 => events = <<>>)
        /\ poll_requested \in BOOLEAN
    BY DEF IInv, RestTyped
  <2> QED BY <1>2, <2>1 DEF process_nevents
<1> QED BY <1>1, <1>2, MainKeeps DEF Idle

\* The request is cleared and a do_poll begins that has the list before it, on
\* the stack of main or of a broadcast.
LEMMA PollsBegin ==
  ASSUME NEW s, NEW st, NEW nx, NEW h, NEW pc \in Process \cup {NULL},
         Base(s, st, nx, h), s # <<>> => Head(s).kind = "do_event"
  PROVE  /\ Structured(On(PollLoop(Front), s), st, pc, nx, h)
         /\ \A q \in Process : st[q] # "none" => Kept(q, On(PollLoop(Front), s), nx, h)
         /\ \A A : Owing(s, A, st, nx, h) =>
                     Owing(On(PollLoop(Front), s), A, st, nx, h)
<1> DEFINE f == PollLoop(Front)
<1>1. s \in Seq(Frame) /\ h \in Process \cup {NULL} /\ nx \in Links
  BY DEF Base
<1>2. f \in Frame /\ f.kind = "do_poll" /\ f.at = Front
  BY PollLoopFrame DEF Place
<1> HIDE DEF f
<1>3. On(f, s) \in Seq(Frame) /\ Head(On(f, s)) = f
  BY <1>1, <1>2, OnIsStack
<1>4. Base(On(f, s), st, nx, h)
  <2>1. s # <<>> => Upon(f, Head(s))
    BY <1>2 DEF Upon
  <2> QED BY <1>2, <2>1, BaseOnLoop
<1>5. FollowingIn(nx, h, Front) = h
  BY DEF FollowingIn
<1>6. h \in Reachable(nx, h) \cup {NULL}
  BY <1>1, ReachableStep
<1>7. Topped(On(f, s), pc, nx, h)
  BY <1>2, <1>3, <1>5, <1>6 DEF Topped
<1>8. \A q \in Process : st[q] # "none" => Kept(q, On(f, s), nx, h)
  <2>1. \A q \in Process : st[q] # "none" => q \in Reachable(nx, h)
    BY DEF Base, Held
  <2> QED BY <1>1, <1>2, <1>5, <2>1, KeptOn DEF Ahead
<1>9. \A A : Owing(s, A, st, nx, h) => Owing(On(f, s), A, st, nx, h)
  BY <1>1, <1>2, OwingOn
<1> QED BY <1>4, <1>7, <1>8, <1>9 DEF Structured, f

LEMMA RunPollsKeeps == IInv /\ RunPolls => IInv'
<1> SUFFICES ASSUME IInv, RunPolls PROVE IInv'
  OBVIOUS
<1>1. /\ stack = <<>> /\ main' = "event"
      /\ UNCHANGED <<listVars, state, process_current, events, needspoll,
                     wanted, started, historyVars>>
  BY DEF RunPolls
<1>2. RestTyped' /\ MainWaits' /\ Asleep' /\ Posted'
  <2>1. poll_requested' \in BOOLEAN
    BY DEF RunPolls, ClearRequest, IInv, RestTyped
  <2> QED BY <1>1, <2>1
       DEF IInv, RestTyped, MainWaits, Asleep, Posted, pollVars, historyVars
<1>3. CASE ~poll_requested
  <2>1. UNCHANGED <<stack, pollVars>>
    BY <1>1, <1>3 DEF RunPolls, pollVars
  <2>2. Core'
    BY <1>1, <2>1, StructureStays, EventOwedStays, PollsKeptStays DEF IInv, Core
  <2> QED BY <1>2, <2>2 DEF IInv
<1>4. CASE poll_requested
  <2>1. stack' = On(PollLoop(Front), stack)
    <3>1. <<PollLoop(Front)>> \o <<>> = <<PollLoop(Front)>>
      OBVIOUS
    <3> QED BY <1>1, <1>4, <3>1 DEF RunPolls, On
  <2>2. Structure /\ PollsKept /\ EventOwed
    BY DEF IInv, Core
  <2>3. /\ Structured(stack', state, process_current, next, process_list)
        /\ \A q \in Process : state[q] # "none" => Kept(q, stack', next, process_list)
        /\ Owing(stack', audience \ heard, state, next, process_list)
    BY <1>1, <2>1, <2>2, PollsBegin, Typed DEF Structure, Structured, EventOwed
  <2>4. Structure' /\ EventOwed'
    BY <1>1, <2>3 DEF Structure, EventOwed, listVars, historyVars
  <2>5. PollsKept'
    BY <1>1, <2>2, <2>3 DEF PollsKept, listVars, IInv, RestTyped
  <2> QED BY <1>2, <2>4, <2>5 DEF IInv, Core
<1> QED BY <1>3, <1>4

LEMMA HeadInSet ==
  ASSUME NEW S, NEW q \in Seq(S), q # <<>> PROVE Head(q) \in S
OBVIOUS

LEMMA RunEventKeeps == IInv /\ RunEvent => IInv'
<1> SUFFICES ASSUME IInv, RunEvent PROVE IInv'
  OBVIOUS
<1>1. /\ stack = <<>> /\ main' = "ran"
      /\ UNCHANGED <<listVars, pollVars, started>>
  BY DEF RunEvent
<1>2. /\ next \in Links /\ process_list \in Process \cup {NULL}
      /\ state \in States /\ process_current \in Process \cup {NULL}
      /\ Listed \in SUBSET Process
      /\ Base(stack, state, next, process_list)
      /\ Topped(stack, process_current, next, process_list)
      /\ Structure /\ PollsKept /\ EventOwed
  BY Typed DEF IInv, Core, Structure, Structured
<1>3. MainWaits' /\ Asleep'
  BY <1>1 DEF MainWaits, Asleep
<1>4. CASE events = <<>>
  <2>1. UNCHANGED <<state, process_current, events, stack, historyVars>>
    BY <1>4 DEF RunEvent
  <2>2. Core'
    BY <1>1, <1>2, <2>1, StructureStays, EventOwedStays, PollsKeptStays DEF Core
  <2>3. RestTyped' /\ Posted'
    BY <1>1, <2>1 DEF IInv, RestTyped, Posted, pollVars, historyVars
  <2> QED BY <1>3, <2>2, <2>3 DEF IInv
<1>5. CASE events # <<>>
  <2> DEFINE e == Head(events)
  <2>1. /\ e \in [ev : {"ev", "exit"}, p : Process \cup {NULL}]
        /\ events' = Tail(events)
        /\ events' \in Seq([ev : {"ev", "exit"}, p : Process \cup {NULL}])
        /\ events' \in Seq([ev : EventId, p : Process \cup {NULL}])
        /\ Len(events') <= PROCESS_CONF_NUMEVENTS
    <3>1. e \in [ev : {"ev", "exit"}, p : Process \cup {NULL}]
      BY <1>5, HeadInSet DEF IInv, Posted
    <3>2. Tail(events) \in Seq([ev : {"ev", "exit"}, p : Process \cup {NULL}])
      BY <1>5 DEF IInv, Posted
    <3>3. /\ Tail(events) \in Seq([ev : EventId, p : Process \cup {NULL}])
          /\ Len(Tail(events)) <= PROCESS_CONF_NUMEVENTS
      BY <1>5, NumEventsAssumption DEF IInv, RestTyped
    <3>4. events' = Tail(events)
      BY <1>5 DEF RunEvent
    <3> QED BY <3>1, <3>2, <3>3, <3>4
  <2>2. e.ev \in {"ev", "exit"} /\ e.ev \in EventId /\ e.p \in Process \cup {NULL}
    BY <2>1 DEF EventId
  <2>3. Posted'
    BY <2>1 DEF Posted
  <2>4. CASE e.p = NULL
    <3> DEFINE f == Broadcast(e.ev, Front, FALSE)
    <3>1. /\ stack' = <<f>> /\ audience' = Listed
          /\ UNCHANGED <<heard, state, process_current>>
      BY <1>5, <2>4 DEF RunEvent
    <3>2. f \in Frame /\ f.kind = "do_event" /\ f.at = Front
      <4>1. Front \in Place /\ FALSE \in BOOLEAN
        BY DEF Place
      <4> QED BY <2>2, <4>1, BroadcastFrame
    <3> HIDE DEF f
    <3>3. stack' = On(f, stack)
      <4>1. <<f>> \o <<>> = <<f>>
        OBVIOUS
      <4> QED BY <1>1, <3>1, <4>1 DEF On
    <3>4. Base(stack', state, next, process_list)
      BY <1>1, <1>2, <3>2, <3>3, BaseOnLoop
    <3>5. Head(stack') = f
      BY <3>1
    <3>6. Structure'
      BY <1>1, <1>2, <3>1, <3>2, <3>4, <3>5
         DEF Structure, Structured, Topped, listVars
    <3>7. PollsKept'
      <4>1. \A q : Kept(q, stack, next, process_list)
                     => Kept(q, stack', next, process_list)
        BY <1>2, <3>2, <3>3, KeptOn DEF Base
      <4> QED BY <1>1, <1>2, <3>1, <4>1 DEF PollsKept, listVars, pollVars
    <3>8. EventOwed'
      <4>1. OwedBy(f, Listed \ heard, state, next, process_list)
        <5>1. \A q \in Listed : state[q] # "none"
          BY <1>1, <1>2 DEF Base, Held, Holds, Listed
        <5>2. \A q \in Listed : q \in Ahead(next, process_list, f.at)
          BY <3>2 DEF Ahead, FollowingIn, Listed
        <5> QED BY <5>1, <5>2 DEF OwedBy
      <4>2. Owing(stack, Listed \ heard, state, next, process_list)
        BY <1>1 DEF Owing
      <4>3. Owing(stack', Listed \ heard, state, next, process_list)
        BY <1>2, <3>2, <3>3, <4>1, <4>2, OwingOn DEF Base
      <4> QED BY <1>1, <3>1, <4>3 DEF EventOwed, listVars
    <3>9. RestTyped'
      BY <1>1, <1>2, <2>1, <3>1 DEF IInv, RestTyped, pollVars
    <3> QED BY <1>3, <2>3, <3>6, <3>7, <3>8, <3>9 DEF IInv, Core
  <2>5. CASE e.p # NULL
    <3>1. e.p \in Process /\ e.ev # "init"
      BY <2>2, <2>5
    <3>2. /\ call_process(state, stack, e.p, e.ev, Keep)
          /\ UNCHANGED historyVars
      BY <1>1, <1>5, <2>5, <3>1 DEF RunEvent
    <3>3. Calls(state, stack, e.p, e.ev, Keep, process_current,
                stack', state', process_current')
      BY <3>2 DEF call_process, Calls, On
    <3>4. CallKeeps(state, stack, stack', state', process_current',
                    next, process_list)
      <4>1. Keep \in Process \cup {NULL, Keep}
        OBVIOUS
      <4> HIDE DEF e
      <4> QED BY <1>1, <1>2, <2>2, <3>1, <3>3, <4>1, CallProcess
    <3>5. Core'
      <4>1. CallKeeps(state, stack, stack', state', process_current',
                      next', process_list')
        BY <1>1, <3>4 DEF listVars
      <4>2. \A q \in wanted' : /\ needspoll'[q]
                               /\ state[q] # "none"
                               /\ poll_requested' \/ Kept(q, stack, next', process_list')
        BY <1>1, <1>2 DEF PollsKept, listVars, pollVars
      <4>3. Owing(stack, audience' \ heard', state, next', process_list')
        BY <1>1, <1>2, <3>2 DEF EventOwed, listVars, historyVars
      <4>4. audience' \in SUBSET Process /\ wanted' \subseteq Process
        BY <1>1, <3>2 DEF IInv, RestTyped, pollVars, historyVars
      <4> QED BY <4>1, <4>2, <4>3, <4>4, CallKeepsCore DEF IInv
    <3>6. RestTyped'
      BY <1>1, <2>1, <3>2 DEF IInv, RestTyped, pollVars, historyVars
    <3> QED BY <1>3, <2>3, <3>5, <3>6 DEF IInv
  <2> QED BY <2>4, <2>5
<1> QED BY <1>4, <1>5

\* process_poll, from an interrupt or a thread.
LEMMA PollKeeps ==
  ASSUME IInv, NEW p \in Polled, process_poll(p),
         UNCHANGED <<listVars, state, process_current, events, stack, started,
                     historyVars>>,
         main' = IF main = "asleep" THEN "run" ELSE main
  PROVE  IInv'
<1>1. p \in Process
  BY ThreadAssumption
<1>2. /\ PollsKept' /\ needspoll' \in [Process -> BOOLEAN]
      /\ poll_requested' \in BOOLEAN /\ wanted' \subseteq Process
  BY <1>1, PollRequested DEF IInv, Core
<1>3. Core'
  BY <1>2, StructureStays, EventOwedStays DEF IInv, Core
<1>4. RestTyped'
  BY <1>2 DEF IInv, RestTyped, historyVars
<1>5. MainWaits' /\ Asleep' /\ Posted'
  BY DEF IInv, MainWaits, Asleep, Posted
<1> QED BY <1>3, <1>4, <1>5 DEF IInv

LEMMA InterruptPollsKeeps ==
  ASSUME IInv, NEW p \in Polled, InterruptPolls(p) PROVE IInv'
BY PollKeeps DEF InterruptPolls

\* While a thread runs main is inside process_run, or starting.
LEMMA MainBusy ==
  ASSUME IInv, stack # <<>>, UNCHANGED main
  PROVE  main # "asleep" /\ MainWaits' /\ Asleep'
BY DEF IInv, MainWaits, Asleep

LEMMA RunningHasStack == Running => stack # <<>>
BY DEF Running, InLoop

LEMMA ThreadPollsKeeps ==
  ASSUME IInv, NEW p \in Polled, ThreadPolls(p) PROVE IInv'
<1>1. stack # <<>> /\ UNCHANGED main
  BY RunningHasStack DEF ThreadPolls, May
<1>2. main' = IF main = "asleep" THEN "run" ELSE main
  BY <1>1, MainBusy
<1> QED BY <1>2, PollKeeps DEF ThreadPolls

LEMMA ThreadPostsKeeps ==
  ASSUME IInv, NEW ev \in PostedEvent, NEW p \in Process \cup {NULL},
         ThreadPosts(p, ev)
  PROVE  IInv'
<1>1. /\ stack # <<>>
      /\ UNCHANGED <<listVars, state, process_current, pollVars, stack, main,
                     started, historyVars>>
  BY RunningHasStack DEF ThreadPosts, May
<1>2. Core'
  BY <1>1, StructureStays, EventOwedStays, PollsKeptStays DEF IInv, Core
<1>3. ev \in {"ev", "exit"} /\ ev \in EventId
  BY ThreadAssumption DEF EventId
<1>4. CASE Len(events) = PROCESS_CONF_NUMEVENTS
  <2>1. events' = events
    BY <1>4 DEF ThreadPosts, process_post
  <2>2. RestTyped' /\ Posted'
    BY <1>1, <2>1 DEF IInv, RestTyped, Posted, pollVars, historyVars
  <2> QED BY <1>1, <1>2, <2>2, MainBusy DEF IInv
<1>5. CASE Len(events) # PROCESS_CONF_NUMEVENTS
  <2>1. events' = Append(events, [ev |-> ev, p |-> p])
    BY <1>5 DEF ThreadPosts, process_post
  <2>2. Posted'
    BY <1>3, <2>1 DEF IInv, Posted
  <2>3. events' \in Seq([ev : EventId, p : Process \cup {NULL}])
    BY <1>3, <2>1 DEF IInv, RestTyped
  <2>4. Len(events') <= PROCESS_CONF_NUMEVENTS
    <3>1. Len(events') = Len(events) + 1 /\ Len(events) \in Nat
          /\ Len(events) <= PROCESS_CONF_NUMEVENTS
      BY <2>1 DEF IInv, RestTyped
    <3> QED BY <1>5, <3>1, NumEventsAssumption
  <2>5. RestTyped'
    BY <1>1, <2>3, <2>4 DEF IInv, RestTyped, pollVars, historyVars
  <2> QED BY <1>1, <1>2, <2>2, <2>5, MainBusy DEF IInv
<1> QED BY <1>4, <1>5

LEMMA ThreadStartsKeeps ==
  ASSUME IInv, NEW p \in Process, ThreadStarts(p) PROVE IInv'
<1>1. /\ Running /\ stack # <<>> /\ process_start(stack, p)
      /\ UNCHANGED <<events, pollVars, main, started, historyVars>>
  BY RunningHasStack DEF ThreadStarts, May
<1>2. Core'
  BY <1>1, Starts DEF IInv
<1>3. RestTyped' /\ Posted'
  BY <1>1 DEF IInv, RestTyped, Posted, pollVars, historyVars
<1> QED BY <1>1, <1>2, <1>3, MainBusy DEF IInv

\* process_post_synch
LEMMA ThreadCallsKeeps ==
  ASSUME IInv, NEW p \in Process, NEW ev \in PostedEvent, ThreadCalls(p, ev)
  PROVE  IInv'
<1>1. /\ Running /\ stack # <<>>
      /\ call_process(state, stack, p, ev, process_current)
      /\ UNCHANGED <<listVars, events, pollVars, main, started, historyVars>>
  BY RunningHasStack DEF ThreadCalls, May
<1>2. /\ process_current \in Process \cup {NULL, Keep}
      /\ Base(stack, state, next, process_list)
      /\ Topped(stack, process_current, next, process_list)
      /\ Structure /\ PollsKept /\ EventOwed
  BY Typed DEF IInv, Core, Structure, Structured
<1>3. ev \in EventId
  BY ThreadAssumption DEF EventId
<1>4. Calls(state, stack, p, ev, process_current, process_current,
            stack', state', process_current')
  BY <1>1 DEF call_process, Calls, On
<1>5. CallKeeps(state, stack, stack', state', process_current', next, process_list)
  <2>1. Upon(Thread(p, ev, process_current), Head(stack))
    BY <1>1, <1>2, CallUponRunning
  <2> QED BY <1>2, <1>3, <1>4, <2>1, CallProcess
<1>6. CallKeeps(state, stack, stack', state', process_current', next', process_list')
  BY <1>1, <1>5 DEF listVars
<1>7. \A q \in wanted' : /\ needspoll'[q]
                         /\ state[q] # "none"
                         /\ poll_requested' \/ Kept(q, stack, next', process_list')
  BY <1>1, <1>2 DEF PollsKept, listVars, pollVars
<1>8. Owing(stack, audience' \ heard', state, next', process_list')
  BY <1>1, <1>2 DEF EventOwed, listVars, historyVars
<1>9. RestTyped' /\ Posted' /\ audience' \in SUBSET Process /\ wanted' \subseteq Process
  BY <1>1 DEF IInv, RestTyped, Posted, pollVars, historyVars
<1>10. Core'
  BY <1>6, <1>7, <1>8, <1>9, CallKeepsCore DEF IInv
<1> QED BY <1>1, <1>9, <1>10, MainBusy DEF IInv

\* A stack that is not empty is its innermost call on the others.
LEMMA TopOnBelow ==
  ASSUME IInv, stack # <<>>
  PROVE  /\ stack = On(Top, Below)
         /\ Top \in Frame /\ Below \in Seq(Frame)
         /\ Base(On(Top, Below), state, next, process_list)
         /\ next \in Links /\ process_list \in Process \cup {NULL}
         /\ state \in States /\ process_current \in Process \cup {NULL}
         /\ Listed \in SUBSET Process
         /\ Topped(stack, process_current, next, process_list)
         /\ Structure /\ PollsKept /\ EventOwed
<1>1. Structure /\ PollsKept /\ EventOwed
  BY DEF IInv, Core
<1>2. stack \in Seq(Frame)
  BY <1>1, Typed
<1>3. stack = On(Top, Below) /\ Top \in Frame /\ Below \in Seq(Frame)
  BY <1>2, StackIsOn DEF Top, Below
<1>4. Base(stack, state, next, process_list) /\ Topped(stack, process_current, next, process_list)
  BY <1>1 DEF Structure, Structured
<1> QED BY <1>1, <1>3, <1>4, Typed

LEMMA PollLoopNextKeeps == IInv /\ PollLoopNext => IInv'
<1> SUFFICES ASSUME IInv, PollLoopNext PROVE IInv'
  OBVIOUS
<1> DEFINE f == Top
           s == Below
           n == Following(Top.at)
           g == PollLoop(n)
<1>1. /\ stack # <<>> /\ f.kind = "do_poll"
      /\ UNCHANGED <<listVars, events, poll_requested, main, started, historyVars>>
  BY DEF PollLoopNext, InLoop
<1>2. /\ stack = On(f, s) /\ f \in Frame /\ s \in Seq(Frame)
      /\ Base(On(f, s), state, next, process_list)
      /\ next \in Links /\ process_list \in Process \cup {NULL}
      /\ state \in States /\ process_current \in Process \cup {NULL}
      /\ Listed \in SUBSET Process
      /\ Topped(stack, process_current, next, process_list)
      /\ Structure /\ PollsKept /\ EventOwed
  BY <1>1, TopOnBelow
<1>3. f.at \in Place
  BY <1>1, <1>2, FrameFields
<1>4. /\ n = FollowingIn(next, process_list, f.at)
      /\ n \in Listed \cup {NULL}
  <2>1. n = FollowingIn(next, process_list, f.at)
    BY DEF Following, FollowingIn
  <2>2. Head(stack) = f
    BY DEF Top
  <2> QED BY <1>1, <1>2, <2>1, <2>2 DEF Topped, Listed
<1>5. /\ s # <<>> => Head(s).kind = "do_event"
      /\ \A q \in Listed : state[q] = "running"
  BY <1>1, <1>2, LoopAlone DEF Listed
<1>6. MainWaits' /\ Asleep'
  BY <1>1, MainBusy
<1> HIDE DEF f, s
<1>7. /\ Posted'
      /\ needspoll' \in [Process -> BOOLEAN] /\ wanted' \subseteq wanted
      => RestTyped' /\ Posted'
  BY <1>1 DEF IInv, RestTyped, Posted, historyVars
<1>8. Posted'
  BY <1>1 DEF IInv, Posted
<1>9. n # NULL =>
        /\ n \in Process /\ n # Front
        /\ g \in Frame /\ g.kind = "do_poll" /\ g.at = n
        /\ Base(On(g, s), state, next, process_list)
        /\ Topped(On(g, s), process_current, next, process_list)
        /\ Ahead(next, process_list, f.at) = {n} \cup Ahead(next, process_list, n)
  <2> SUFFICES ASSUME n # NULL
               PROVE  /\ n \in Process /\ n # Front
                      /\ g \in Frame /\ g.kind = "do_poll" /\ g.at = n
                      /\ Base(On(g, s), state, next, process_list)
                      /\ Topped(On(g, s), process_current, next, process_list)
                      /\ Ahead(next, process_list, f.at)
                           = {n} \cup Ahead(next, process_list, n)
    OBVIOUS
  <2>1. n \in Listed /\ n \in Process /\ n # Front /\ n \in Place
    BY <1>2, <1>4, FrameAssumption DEF Front, Place
  <2> HIDE DEF n
  <2>2. g \in Frame /\ g.kind = "do_poll" /\ g.at = n
    BY <2>1, PollLoopFrame
  <2> HIDE DEF g
  <2>3. Base(On(g, s), state, next, process_list)
    BY <1>1, <1>2, <2>2, BaseAdvance
  <2>4. FollowingIn(next, process_list, n) = next[n]
    BY <2>1 DEF FollowingIn
  <2>5. next[n] \in Listed \cup {NULL}
    <3>1. next[n] \in Process \cup {NULL}
      BY <1>2, <2>1 DEF Links
    <3> QED BY <1>2, <2>1, <3>1, ReachableStep DEF Listed
  <2>6. Head(On(g, s)) = g
    BY <1>2, <2>2, OnIsStack
  <2>7. Topped(On(g, s), process_current, next, process_list)
    BY <1>2, <2>2, <2>4, <2>5, <2>6 DEF Topped, Listed
  <2>8. Reachable(next, n) = {n} \cup Reachable(next, next[n])
    BY <1>2, <2>1, ReachableUnfold
  <2> QED BY <1>4, <2>1, <2>2, <2>3, <2>4, <2>7, <2>8 DEF Ahead
<1> HIDE DEF n, g
<1>10. \A q : Kept(q, stack, next, process_list) <=>
                Kept(q, s, next, process_list) \/ q \in Ahead(next, process_list, f.at)
  BY <1>1, <1>2, KeptOn
<1>11. Owing(s, audience \ heard, state, next, process_list)
  BY <1>2, OwingOn DEF EventOwed
<1>12. CASE n = NULL
  <2>1. stack' = s /\ UNCHANGED <<state, process_current, needspoll, wanted>>
    BY <1>12 DEF PollLoopNext, n, s
  <2>2. Ahead(next, process_list, f.at) = {}
    BY <1>2, <1>4, <1>12, NothingFromNull DEF Ahead
  <2>3. PollsKept'
    BY <1>1, <1>2, <1>10, <2>1, <2>2 DEF PollsKept, listVars
  <2>4. Structure'
    <3>1. Base(s, state, next, process_list)
      BY <1>1, <1>2, BaseUnderLoop
    <3>2. Topped(s, process_current, next, process_list)
      BY <1>2, <1>5 DEF Topped
    <3> QED BY <1>1, <2>1, <3>1, <3>2 DEF Structure, Structured, listVars
  <2>5. EventOwed'
    BY <1>1, <1>11, <2>1 DEF EventOwed, listVars, historyVars
  <2>6. RestTyped'
    BY <1>7, <1>8, <2>1 DEF IInv, RestTyped
  <2> QED BY <1>6, <1>8, <2>3, <2>4, <2>5, <2>6 DEF IInv, Core
<1>13. CASE n # NULL /\ ~needspoll[n]
  <2>1. stack' = On(g, s) /\ UNCHANGED <<state, process_current, needspoll, wanted>>
    BY <1>13 DEF PollLoopNext, n, s, g, On
  <2>2. \A q : Kept(q, On(g, s), next, process_list) <=>
                 Kept(q, s, next, process_list) \/ q \in Ahead(next, process_list, n)
    BY <1>2, <1>9, <1>13, KeptOn
  <2>3. PollsKept'
    BY <1>1, <1>2, <1>9, <1>10, <1>13, <2>1, <2>2 DEF PollsKept, listVars
  <2>4. Structure'
    BY <1>1, <1>9, <1>13, <2>1 DEF Structure, Structured, listVars
  <2>5. Owing(On(g, s), audience \ heard, state, next, process_list)
    BY <1>2, <1>9, <1>11, <1>13, OwingOn
  <2>6. EventOwed'
    BY <1>1, <2>1, <2>5 DEF EventOwed, listVars, historyVars
  <2>7. RestTyped'
    BY <1>7, <1>8, <2>1 DEF IInv, RestTyped
  <2> QED BY <1>6, <1>8, <2>3, <2>4, <2>6, <2>7 DEF IInv, Core
<1>14. CASE n # NULL /\ needspoll[n]
  <2>1. /\ needspoll' = [needspoll EXCEPT ![n] = FALSE]
        /\ wanted' = wanted \ {n}
        /\ call_process([state EXCEPT ![n] = "running"], On(g, s), n, "poll", Keep)
    BY <1>14 DEF PollLoopNext, n, s, g, On
  <2>2. n \in Process /\ state[n] = "running"
    BY <1>4, <1>5, <1>9, <1>14
  <2>3. [state EXCEPT ![n] = "running"] = state
    BY <1>2, <2>2 DEF States
  <2>4. Calls(state, On(g, s), n, "poll", Keep, process_current,
              stack', state', process_current')
    BY <2>1, <2>2, <2>3 DEF call_process, Calls, On
  <2>5. CallKeeps(state, On(g, s), stack', state', process_current', next, process_list)
    <3>1. "poll" \in EventId /\ Keep \in Process \cup {NULL, Keep}
      BY DEF EventId
    <3>2. Head(On(g, s)) = g
      BY <1>2, <1>9, <1>14, OnIsStack
    <3>3. Upon(Thread(n, "poll", Keep), Head(On(g, s)))
      BY <1>9, <1>14, <3>2 DEF Upon, Thread
    <3> QED BY <1>9, <1>14, <2>2, <2>4, <3>1, <3>3, CallProcess
  <2>6. CallKeeps(state, On(g, s), stack', state', process_current', next', process_list')
    BY <1>1, <2>5 DEF listVars
  <2>7. \A q : Kept(q, On(g, s), next, process_list) <=>
                 Kept(q, s, next, process_list) \/ q \in Ahead(next, process_list, n)
    BY <1>2, <1>9, <1>14, KeptOn
  <2>8. \A q \in wanted' : /\ needspoll'[q]
                           /\ state[q] # "none"
                           /\ poll_requested' \/ Kept(q, On(g, s), next', process_list')
    <3> SUFFICES ASSUME NEW q \in wanted'
                 PROVE  /\ needspoll'[q]
                        /\ state[q] # "none"
                        /\ poll_requested' \/ Kept(q, On(g, s), next', process_list')
      OBVIOUS
    <3>1. q \in wanted /\ q # n /\ q \in Process
      BY <2>1 DEF IInv, RestTyped
    <3>2. needspoll[q] /\ state[q] # "none"
          /\ (poll_requested \/ Kept(q, stack, next, process_list))
      BY <1>2, <3>1 DEF PollsKept
    <3>3. needspoll'[q] = needspoll[q]
      BY <2>1, <3>1 DEF IInv, RestTyped
    <3>4. poll_requested \/ Kept(q, On(g, s), next, process_list)
      BY <1>9, <1>10, <1>14, <2>7, <3>1, <3>2
    <3> QED BY <1>1, <3>2, <3>3, <3>4 DEF listVars
  <2>9. Owing(On(g, s), audience' \ heard', state, next', process_list')
    BY <1>1, <1>2, <1>9, <1>11, <1>14, OwingOn DEF listVars, historyVars
  <2>10. needspoll' \in [Process -> BOOLEAN] /\ wanted' \subseteq wanted
    BY <2>1 DEF IInv, RestTyped
  <2>11. RestTyped'
    BY <1>7, <1>8, <2>10
  <2>12. audience' \in SUBSET Process /\ wanted' \subseteq Process
    BY <2>11 DEF RestTyped
  <2>13. Core'
    BY <2>6, <2>8, <2>9, <2>12, CallKeepsCore DEF IInv
  <2> QED BY <1>6, <1>8, <2>11, <2>13 DEF IInv
<1> QED BY <1>12, <1>13, <1>14

\* A loop of do_event or exit_process goes on, on the same stack.
LEMMA LoopGoesOn ==
  ASSUME NEW f \in Frame, NEW g \in Frame, NEW s \in Seq(Frame),
         NEW st, NEW nx, NEW h, NEW pc \in Process \cup {NULL},
         Base(On(f, s), st, nx, h), f.kind = g.kind,
         \/ f.kind = "do_event"
         \/ f.kind = "exit_process" /\ f.p = g.p /\ f.back = g.back
  PROVE  /\ Structured(On(g, s), st, pc, nx, h)
         /\ On(g, s) \in Seq(Frame) /\ Head(On(g, s)) = g
         /\ \A q : Kept(q, On(f, s), nx, h) => Kept(q, On(g, s), nx, h)
         /\ \A A : Owing(On(f, s), A, st, nx, h) => Owing(s, A, st, nx, h)
         /\ \A A : Owing(s, A, st, nx, h)
                     /\ (g.kind = "do_event" => OwedBy(g, A, st, nx, h))
                   => Owing(On(g, s), A, st, nx, h)
<1>1. On(g, s) \in Seq(Frame) /\ Head(On(g, s)) = g
  BY OnIsStack
<1>2. Base(On(g, s), st, nx, h)
  BY BaseAdvance
<1>3. Topped(On(g, s), pc, nx, h)
  BY <1>1 DEF Topped
<1>4. \A q : Kept(q, On(f, s), nx, h) => Kept(q, On(g, s), nx, h)
  BY KeptOn
<1>5. \A A : Owing(On(f, s), A, st, nx, h) => Owing(s, A, st, nx, h)
  BY OwingOn
<1>6. \A A : Owing(s, A, st, nx, h)
               /\ (g.kind = "do_event" => OwedBy(g, A, st, nx, h))
             => Owing(On(g, s), A, st, nx, h)
  BY OwingOn
<1> QED BY <1>1, <1>2, <1>3, <1>4, <1>5, <1>6 DEF Structured

LEMMA BroadcastNextKeeps == IInv /\ BroadcastNext => IInv'
<1> SUFFICES ASSUME IInv, BroadcastNext PROVE IInv'
  OBVIOUS
<1> DEFINE f == Top
           s == Below
           n == Following(Top.at)
           g == Broadcast(Top.ev, n, TRUE)
<1>1. /\ stack # <<>> /\ f.kind = "do_event" /\ ~f.due
      /\ UNCHANGED <<listVars, state, process_current, events, needspoll,
                     wanted, main, started>>
  BY DEF BroadcastNext, InLoop
<1>2. /\ stack = On(f, s) /\ f \in Frame /\ s \in Seq(Frame)
      /\ Base(On(f, s), state, next, process_list)
      /\ next \in Links /\ process_list \in Process \cup {NULL}
      /\ state \in States /\ process_current \in Process \cup {NULL}
      /\ Structure /\ PollsKept /\ EventOwed
  BY <1>1, TopOnBelow
<1>3. f.at \in Place /\ f.ev \in EventId /\ s = <<>>
  BY <1>1, <1>2, FrameFields, LoopAlone
<1>4. n = FollowingIn(next, process_list, f.at) /\ n \in Process \cup {NULL}
  <2>1. n = FollowingIn(next, process_list, f.at)
    BY DEF Following, FollowingIn
  <2> QED BY <1>2, <1>3, <2>1, FollowingIsElement
<1>5. MainWaits' /\ Asleep'
  <2>1. main # "asleep" /\ MainWaits'
    BY <1>1, MainBusy
  <2> QED BY <1>1, <2>1 DEF Asleep
<1>6. Posted'
  BY <1>1 DEF IInv, Posted
<1> HIDE DEF f, s, n
<1>7. CASE n = NULL
  <2>1. /\ stack' = s /\ audience' = {} /\ heard' = {}
        /\ UNCHANGED poll_requested
    BY <1>7 DEF BroadcastNext, n, s
  <2>2. Base(s, state, next, process_list)
    BY <1>1, <1>2, BaseUnderLoop
  <2>3. Structure'
    BY <1>1, <1>2, <1>3, <2>1, <2>2 DEF Structure, Structured, Topped, listVars
  <2>4. \A q : Kept(q, stack, next, process_list) => Kept(q, s, next, process_list)
    BY <1>1, <1>2, KeptOn
  <2>5. PollsKept'
    BY <1>1, <1>2, <2>1, <2>4 DEF PollsKept, listVars
  <2>6. EventOwed'
    BY <1>3, <2>1 DEF EventOwed, Owing
  <2>7. RestTyped'
    BY <1>1, <2>1 DEF IInv, RestTyped
  <2> QED BY <1>5, <1>6, <2>3, <2>5, <2>6, <2>7 DEF IInv, Core
<1>8. CASE n # NULL
  <2>1. n \in Process /\ n \in Place /\ n # Front
    BY <1>4, <1>8, FrameAssumption DEF Place, Front
  <2>2. g \in Frame /\ g.kind = "do_event" /\ g.at = n /\ g.due
    <3>1. f.ev \in EventId /\ TRUE \in BOOLEAN
      BY <1>3
    <3> QED BY <2>1, <3>1, BroadcastFrame DEF f
  <2>3. Ahead(next, process_list, f.at) = {n} \cup Ahead(next, process_list, n)
    <3>1. Reachable(next, n) = {n} \cup Reachable(next, next[n])
      BY <1>2, <2>1, ReachableUnfold
    <3> QED BY <1>4, <2>1, <3>1 DEF Ahead, FollowingIn
  <2>4. OwedBy(g, audience \ heard, state, next, process_list)
    <3>1. OwedBy(f, audience \ heard, state, next, process_list)
      BY <1>1, <1>2, OwingOn DEF EventOwed
    <3> HIDE DEF g
    <3> QED BY <1>1, <2>2, <2>3, <3>1 DEF OwedBy
  <2>5. /\ Structured(On(g, s), state, process_current, next, process_list)
        /\ On(g, s) \in Seq(Frame) /\ Head(On(g, s)) = g
        /\ \A q : Kept(q, stack, next, process_list) => Kept(q, On(g, s), next, process_list)
        /\ Owing(On(g, s), audience \ heard, state, next, process_list)
    <3> HIDE DEF g
    <3>1. /\ Structured(On(g, s), state, process_current, next, process_list)
          /\ On(g, s) \in Seq(Frame) /\ Head(On(g, s)) = g
          /\ \A q : Kept(q, On(f, s), next, process_list) => Kept(q, On(g, s), next, process_list)
          /\ \A A : Owing(On(f, s), A, state, next, process_list) => Owing(s, A, state, next, process_list)
          /\ \A A : Owing(s, A, state, next, process_list)
                      /\ (g.kind = "do_event" => OwedBy(g, A, state, next, process_list))
                    => Owing(On(g, s), A, state, next, process_list)
      BY <1>1, <1>2, <2>2, LoopGoesOn
    <3> QED BY <1>2, <2>4, <3>1 DEF EventOwed
  <2>6. CASE poll_requested
    <3>1. /\ stack' = On(PollLoop(Front), On(g, s))
          /\ UNCHANGED historyVars /\ poll_requested' = FALSE
      BY <1>8, <2>6 DEF BroadcastNext, n, s, f, ClearRequest, On
    <3> HIDE DEF g
    <3>2. Base(On(g, s), state, next, process_list)
      BY <2>5 DEF Structured
    <3>3. /\ Structured(stack', state, process_current, next, process_list)
          /\ \A q \in Process : state[q] # "none" => Kept(q, stack', next, process_list)
          /\ Owing(stack', audience \ heard, state, next, process_list)
      BY <1>2, <2>2, <2>5, <3>1, <3>2, PollsBegin
    <3>4. Structure' /\ EventOwed'
      BY <1>1, <3>1, <3>3 DEF Structure, EventOwed, listVars, historyVars
    <3>5. PollsKept'
      BY <1>1, <1>2, <3>1, <3>3 DEF PollsKept, listVars, IInv, RestTyped
    <3>6. RestTyped'
      BY <1>1, <3>1 DEF IInv, RestTyped, historyVars
    <3> QED BY <1>5, <1>6, <3>4, <3>5, <3>6 DEF IInv, Core
  <2>7. CASE ~poll_requested
    <3>1. stack' = On(g, s) /\ UNCHANGED <<historyVars, poll_requested>>
      BY <1>8, <2>7 DEF BroadcastNext, n, s, f, On
    <3> HIDE DEF g
    <3>2. Structure' /\ EventOwed'
      BY <1>1, <2>5, <3>1 DEF Structure, EventOwed, listVars, historyVars
    <3>3. PollsKept'
      BY <1>1, <1>2, <2>5, <3>1 DEF PollsKept, listVars
    <3>4. RestTyped'
      BY <1>1, <3>1 DEF IInv, RestTyped, historyVars
    <3> QED BY <1>5, <1>6, <3>2, <3>3, <3>4 DEF IInv, Core
  <2> QED BY <2>6, <2>7
<1> QED BY <1>7, <1>8

LEMMA BroadcastCallKeeps == IInv /\ BroadcastCall => IInv'
<1> SUFFICES ASSUME IInv, BroadcastCall PROVE IInv'
  OBVIOUS
<1> DEFINE f == Top
           s == Below
           n == Top.at
           g == Broadcast(Top.ev, Top.at, FALSE)
           A == audience \ heard
           B == audience \ heard'
<1>1. /\ stack # <<>> /\ f.kind = "do_event" /\ f.due
      /\ call_process(state, On(g, s), n, f.ev, Keep)
      /\ heard' = IF state[n] = "running" THEN heard \cup {n} ELSE heard
      /\ UNCHANGED <<listVars, events, pollVars, main, started, audience>>
  BY DEF BroadcastCall, InLoop, On
<1>2. /\ stack = On(f, s) /\ f \in Frame /\ s \in Seq(Frame)
      /\ Base(On(f, s), state, next, process_list)
      /\ process_current \in Process \cup {NULL}
      /\ Structure /\ PollsKept /\ EventOwed
  BY <1>1, TopOnBelow
<1>3. n \in Process /\ n \in Place /\ f.ev \in EventId /\ f.at = n
  BY <1>1, <1>2, FrameFields
<1>4. \A q \in Process : state[q] # "none" => state[q] = "running"
  BY <1>1, <1>2, LoopAlone
<1> HIDE DEF f, s, n
<1>5. g \in Frame /\ g.kind = "do_event" /\ g.at = n /\ ~g.due
  <2>1. FALSE \in BOOLEAN
    OBVIOUS
  <2> QED BY <1>3, <2>1, BroadcastFrame DEF f, n
<1> HIDE DEF g
<1>6. OwedBy(f, A, state, next, process_list)
  BY <1>1, <1>2, OwingOn DEF EventOwed
<1>7. B \subseteq A /\ n \notin B
  BY <1>1, <1>3, <1>4, <1>6 DEF OwedBy
<1>8. OwedBy(g, B, state, next, process_list)
  BY <1>3, <1>5, <1>6, <1>7 DEF OwedBy
<1>9. /\ Structured(On(g, s), state, process_current, next, process_list)
      /\ On(g, s) \in Seq(Frame) /\ Head(On(g, s)) = g
      /\ \A q : Kept(q, stack, next, process_list) => Kept(q, On(g, s), next, process_list)
      /\ Owing(s, A, state, next, process_list)
      /\ \A C : Owing(s, C, state, next, process_list)
                  /\ (g.kind = "do_event" => OwedBy(g, C, state, next, process_list))
                => Owing(On(g, s), C, state, next, process_list)
  <2> HIDE DEF A
  <2>1. /\ Structured(On(g, s), state, process_current, next, process_list)
        /\ On(g, s) \in Seq(Frame) /\ Head(On(g, s)) = g
        /\ \A q : Kept(q, On(f, s), next, process_list) => Kept(q, On(g, s), next, process_list)
        /\ \A C : Owing(On(f, s), C, state, next, process_list) => Owing(s, C, state, next, process_list)
        /\ \A C : Owing(s, C, state, next, process_list)
                    /\ (g.kind = "do_event" => OwedBy(g, C, state, next, process_list))
                  => Owing(On(g, s), C, state, next, process_list)
    BY <1>1, <1>2, <1>5, LoopGoesOn
  <2> QED BY <1>2, <2>1 DEF EventOwed, A
<1>10. Owing(On(g, s), B, state, next, process_list)
  <2>1. Owing(s, B, state, next, process_list)
    BY <1>7, <1>9 DEF Owing, OwedBy
  <2> QED BY <1>8, <1>9, <2>1
<1>11. Calls(state, On(g, s), n, f.ev, Keep, process_current,
             stack', state', process_current')
  BY <1>1 DEF call_process, Calls, On
<1>12. CallKeeps(state, On(g, s), stack', state', process_current', next, process_list)
  <2>1. Upon(Thread(n, f.ev, Keep), Head(On(g, s)))
    BY <1>5, <1>9 DEF Upon, Thread
  <2>2. Keep \in Process \cup {NULL, Keep}
    OBVIOUS
  <2> QED BY <1>3, <1>9, <1>11, <2>1, <2>2, CallProcess DEF Structured
<1>13. RestTyped' /\ Posted'
  BY <1>1, <1>3 DEF IInv, RestTyped, Posted, pollVars
<1>14. Core'
  <2>1. CallKeeps(state, On(g, s), stack', state', process_current', next', process_list')
    BY <1>1, <1>12 DEF listVars
  <2>2. \A q \in wanted' : /\ needspoll'[q]
                           /\ state[q] # "none"
                           /\ poll_requested' \/ Kept(q, On(g, s), next', process_list')
    BY <1>1, <1>2, <1>9 DEF PollsKept, listVars, pollVars
  <2>3. Owing(On(g, s), audience' \ heard', state, next', process_list')
    BY <1>1, <1>10 DEF listVars
  <2>4. audience' \in SUBSET Process /\ wanted' \subseteq Process
    BY <1>13 DEF RestTyped
  <2> QED BY <2>1, <2>2, <2>3, <2>4, CallKeepsCore DEF IInv
<1> QED BY <1>1, <1>13, <1>14, MainBusy DEF IInv

LEMMA ExitNextKeeps == IInv /\ ExitNext => IInv'
<1> SUFFICES ASSUME IInv, ExitNext PROVE IInv'
  OBVIOUS
<1> DEFINE f == Top
           s == Below
           n == Following(Top.at)
           g == ExitAt(Following(Top.at))
           A == audience \ heard
<1>1. /\ stack # <<>> /\ f.kind = "exit_process" /\ f.at # NULL
      /\ UNCHANGED <<listVars, events, pollVars, main, started, historyVars>>
  BY DEF ExitNext, InLoop
<1>2. /\ stack = On(f, s) /\ f \in Frame /\ s \in Seq(Frame)
      /\ Base(On(f, s), state, next, process_list)
      /\ next \in Links /\ process_list \in Process \cup {NULL}
      /\ process_current \in Process \cup {NULL}
      /\ Structure /\ PollsKept /\ EventOwed
  BY <1>1, TopOnBelow
<1>3. /\ f.at \in Place /\ f.p \in Process
      /\ f.from \in Process \cup {NULL} /\ f.back \in Process \cup {NULL}
  BY <1>1, <1>2, FrameFields
<1>4. n \in Process \cup {NULL}
  <2>1. n = FollowingIn(next, process_list, f.at)
    BY DEF Following, FollowingIn
  <2> QED BY <1>2, <1>3, <2>1, FollowingIsElement
<1>5. g = Exit(f.p, f.from, f.back, n)
  BY DEF ExitAt
<1> HIDE DEF n, f, s, g
<1>6. g \in Frame /\ g.kind = "exit_process" /\ g.p = f.p /\ g.back = f.back
  <2>1. n \in Place \cup {NULL}
    BY <1>4 DEF Place
  <2>2. Exit(f.p, f.from, f.back, n) \in Frame
    BY <1>3, <2>1, ExitFrame
  <2>3. /\ Exit(f.p, f.from, f.back, n).kind = "exit_process"
        /\ Exit(f.p, f.from, f.back, n).p = f.p
        /\ Exit(f.p, f.from, f.back, n).back = f.back
    BY DEF Exit
  <2> QED BY <1>5, <2>2, <2>3
<1>7. /\ Structured(On(g, s), state, process_current, next, process_list)
      /\ On(g, s) \in Seq(Frame) /\ Head(On(g, s)) = g
      /\ \A q : Kept(q, stack, next, process_list) => Kept(q, On(g, s), next, process_list)
      /\ Owing(On(g, s), A, state, next, process_list)
  <2>1. /\ Structured(On(g, s), state, process_current, next, process_list)
        /\ On(g, s) \in Seq(Frame) /\ Head(On(g, s)) = g
        /\ \A q : Kept(q, On(f, s), next, process_list) => Kept(q, On(g, s), next, process_list)
        /\ \A C : Owing(On(f, s), C, state, next, process_list) => Owing(s, C, state, next, process_list)
        /\ \A C : Owing(s, C, state, next, process_list)
                    /\ (g.kind = "do_event" => OwedBy(g, C, state, next, process_list))
                  => Owing(On(g, s), C, state, next, process_list)
    BY <1>1, <1>2, <1>6, LoopGoesOn
  <2> QED BY <1>2, <1>6, <2>1 DEF EventOwed
<1>8. RestTyped' /\ Posted'
  BY <1>1 DEF IInv, RestTyped, Posted, pollVars, historyVars
<1>9. MainWaits' /\ Asleep'
  BY <1>1, MainBusy
<1>10. CASE n # NULL /\ n # f.p
  <2>1. call_process(state, On(g, s), n, "exited", Keep)
    BY <1>10 DEF ExitNext, n, f, s, g, On
  <2>2. n \in Process /\ "exited" \in EventId /\ Keep \in Process \cup {NULL, Keep}
    BY <1>4, <1>10 DEF EventId
  <2>3. Calls(state, On(g, s), n, "exited", Keep, process_current,
              stack', state', process_current')
    BY <2>1 DEF call_process, Calls, On
  <2>4. CallKeeps(state, On(g, s), stack', state', process_current', next, process_list)
    <3>1. Upon(Thread(n, "exited", Keep), Head(On(g, s)))
      BY <1>6, <1>7 DEF Upon, Thread
    <3> QED BY <1>7, <2>2, <2>3, <3>1, CallProcess DEF Structured
  <2>5. CallKeeps(state, On(g, s), stack', state', process_current', next', process_list')
    BY <1>1, <2>4 DEF listVars
  <2>6. \A q \in wanted' : /\ needspoll'[q]
                           /\ state[q] # "none"
                           /\ poll_requested' \/ Kept(q, On(g, s), next', process_list')
    BY <1>1, <1>2, <1>7 DEF PollsKept, listVars, pollVars
  <2>7. Owing(On(g, s), audience' \ heard', state, next', process_list')
    BY <1>1, <1>7 DEF listVars, historyVars
  <2>8. audience' \in SUBSET Process /\ wanted' \subseteq Process
    BY <1>8 DEF RestTyped
  <2>9. Core'
    BY <2>5, <2>6, <2>7, <2>8, CallKeepsCore DEF IInv
  <2> QED BY <1>8, <1>9, <2>9 DEF IInv
<1>11. CASE ~(n # NULL /\ n # f.p) /\ n = NULL /\ f.p # f.from
  <2> DEFINE b == Farewell(f.p)
  <2>1. /\ stack' = On(b, On(g, s)) /\ process_current' = f.p
        /\ UNCHANGED state
    BY <1>11 DEF ExitNext, n, f, s, g, On
  <2>2. b \in Frame /\ b.kind = "farewell" /\ b.p = f.p
    BY <1>3, FarewellFrame
  <2> HIDE DEF b
  <2>3. Upon(b, Head(On(g, s)))
    BY <1>6, <1>7, <2>2 DEF Upon
  <2>4. Base(On(g, s), state, next, process_list)
    BY <1>7 DEF Structured
  <2>5. Base(stack', state, next, process_list)
    <3>1. On(g, s) # <<>>
      BY <1>2, <1>6, OnIsStack
    <3> QED BY <2>1, <2>2, <2>3, <2>4, <3>1, BaseOnLoop
  <2>6. Head(stack') = b
    BY <1>7, <2>1, <2>2, OnIsStack
  <2>7. Structure'
    BY <1>1, <1>3, <2>1, <2>2, <2>5, <2>6 DEF Structure, Structured, Topped, listVars
  <2>8. \A q : Kept(q, On(g, s), next, process_list) => Kept(q, stack', next, process_list)
    BY <1>7, <2>1, <2>2, KeptOn
  <2>9. PollsKept'
    BY <1>1, <1>2, <1>7, <2>1, <2>8 DEF PollsKept, listVars, pollVars
  <2>10. Owing(stack', A, state, next, process_list)
    BY <1>7, <2>1, <2>2, OwingOn
  <2>11. EventOwed'
    BY <1>1, <2>1, <2>10 DEF EventOwed, listVars, historyVars
  <2> QED BY <1>8, <1>9, <2>7, <2>9, <2>11 DEF IInv, Core
<1>12. CASE ~(n # NULL /\ n # f.p) /\ ~(n = NULL /\ f.p # f.from)
  <2>1. stack' = On(g, s) /\ UNCHANGED <<process_current, state>>
    BY <1>12 DEF ExitNext, n, f, s, g, On
  <2>2. Structure'
    BY <1>1, <1>7, <2>1 DEF Structure, listVars
  <2>3. PollsKept'
    BY <1>1, <1>2, <1>7, <2>1 DEF PollsKept, listVars, pollVars
  <2>4. EventOwed'
    BY <1>1, <1>7, <2>1 DEF EventOwed, listVars, historyVars
  <2> QED BY <1>8, <1>9, <2>2, <2>3, <2>4 DEF IInv, Core
<1> QED BY <1>10, <1>11, <1>12

LEMMA ExitDoneKeeps == IInv /\ ExitDone => IInv'
<1> SUFFICES ASSUME IInv, ExitDone PROVE IInv'
  OBVIOUS
<1> DEFINE f == Top
           s == Below
           ny == Skipped(next, process_list, f.p)
           k == HeadWithout(next, process_list, f.p)
           A == audience \ heard
<1>1. /\ stack # <<>> /\ f.kind = "exit_process"
      /\ process_current' = f.back /\ stack' = s
      /\ UNCHANGED <<state, events, pollVars, main, started, historyVars>>
  BY DEF ExitDone, InLoop
<1>2. /\ stack = On(f, s) /\ f \in Frame /\ s \in Seq(Frame)
      /\ Base(On(f, s), state, next, process_list)
      /\ Structure /\ PollsKept /\ EventOwed
  BY <1>1, TopOnBelow
<1>3. next' = ny /\ process_list' = k
  BY DEF ExitDone, unlink, Skipped, HeadWithout, Listed
<1> HIDE DEF f, s
<1>4. UnlinkKeeps(s, state, f.p, f.back, next, process_list, ny, k)
  BY <1>1, <1>2, UnlinkProcess
<1> HIDE DEF ny, k
<1>5. RestTyped' /\ Posted'
  BY <1>1 DEF IInv, RestTyped, Posted, pollVars, historyVars
<1>6. Structure'
  BY <1>1, <1>3, <1>4 DEF UnlinkKeeps, Structure
<1>7. \A q : Kept(q, stack, next, process_list) => Kept(q, s, next, process_list)
  BY <1>1, <1>2, KeptOn
<1>8. PollsKept'
  <2>1. \A q \in wanted : /\ q \in Process /\ needspoll[q] /\ state[q] # "none"
                          /\ poll_requested \/ Kept(q, s, next, process_list)
    BY <1>2, <1>7 DEF PollsKept, IInv, RestTyped
  <2>2. \A q \in Process :
          state[q] # "none" /\ Kept(q, s, next, process_list) => Kept(q, s, ny, k)
    BY <1>4 DEF UnlinkKeeps
  <2> QED BY <1>1, <1>3, <2>1, <2>2 DEF PollsKept, pollVars
<1>9. EventOwed'
  <2>1. Owing(s, A, state, next, process_list)
    BY <1>2, OwingOn DEF EventOwed
  <2>2. A \in SUBSET Process
    BY DEF IInv, RestTyped
  <2>3. Owing(s, A, state, ny, k)
    BY <1>4, <2>1, <2>2 DEF UnlinkKeeps
  <2> QED BY <1>1, <1>3, <2>3 DEF EventOwed, historyVars
<1> QED BY <1>1, <1>5, <1>6, <1>8, <1>9, MainBusy DEF IInv, Core

LEMMA ThreadYieldsKeeps == IInv /\ ThreadYields => IInv'
<1> SUFFICES ASSUME IInv, ThreadYields PROVE IInv'
  OBVIOUS
<1> DEFINE f == Top
           s == Below
           A == audience \ heard
           su == [state EXCEPT ![f.p] = "running"]
<1>1. /\ stack # <<>> /\ f.kind = "thread"
      /\ state' = su
      /\ process_current' = IF f.back = Keep THEN process_current ELSE f.back
      /\ stack' = s
      /\ UNCHANGED <<listVars, events, pollVars, main, started, historyVars>>
  BY DEF ThreadYields, InLoop, Restored
<1>2. /\ stack = On(f, s) /\ f \in Frame /\ s \in Seq(Frame)
      /\ Base(On(f, s), state, next, process_list)
      /\ state \in States /\ process_current \in Process \cup {NULL}
      /\ Structure /\ PollsKept /\ EventOwed
  BY <1>1, TopOnBelow
<1> HIDE DEF f, s
<1>3. /\ state[f.p] = "called"
      /\ Structured(s, su, IF f.back = Keep THEN process_current ELSE f.back,
                    next, process_list)
  BY <1>1, <1>2, YieldProcess
<1>4. f.p \in Process /\ \A q \in Process : su[q] = "none" <=> state[q] = "none"
  BY <1>1, <1>2, <1>3, FrameFields DEF States
<1>5. Structure'
  BY <1>1, <1>3 DEF Structure, listVars
<1> HIDE DEF su
<1>6. \A q : Kept(q, stack, next, process_list) => Kept(q, s, next, process_list)
  BY <1>1, <1>2, KeptOn
<1>7. PollsKept'
  <2>1. \A q \in wanted : q \in Process
    BY DEF IInv, RestTyped
  <2> QED BY <1>1, <1>2, <1>4, <1>6, <2>1 DEF PollsKept, listVars, pollVars
<1>8. EventOwed'
  <2>1. Owing(s, A, state, next, process_list)
    BY <1>2, OwingOn DEF EventOwed
  <2>2. A \in SUBSET Process
    BY DEF IInv, RestTyped
  <2> HIDE DEF A
  <2>3. Owing(s, A, su, next, process_list)
    BY <1>4, <2>1, <2>2 DEF Owing, OwedBy
  <2> QED BY <1>1, <2>3 DEF EventOwed, listVars, historyVars, A
<1>9. RestTyped' /\ Posted'
  BY <1>1 DEF IInv, RestTyped, Posted, pollVars, historyVars
<1> QED BY <1>1, <1>5, <1>7, <1>8, <1>9, MainBusy DEF IInv, Core

\* process_exit of a process that is not being called.
LEMMA ThreadExitsKeeps ==
  ASSUME IInv, ~ExitsRunningCaller, NEW p \in Process, ThreadExits(p)
  PROVE  IInv'
<1> DEFINE A == audience \ heard
           B == audience' \ heard'
           L == Listed
<1>1. /\ Running /\ stack # <<>>
      /\ state[p] # "called" /\ p \notin Exiting
      /\ exit_process(stack, p, process_current, process_current)
      /\ UNCHANGED <<events, needspoll, poll_requested, main, started>>
  BY RunningHasStack DEF ThreadExits, May
<1>2. /\ next \in Links /\ process_list \in Process \cup {NULL}
      /\ state \in States /\ stack \in Seq(Frame)
      /\ process_current \in Process \cup {NULL}
      /\ L \in SUBSET Process
      /\ Base(stack, state, next, process_list)
      /\ Structure /\ PollsKept /\ EventOwed
  BY Typed DEF IInv, Core, Structure, Structured
<1>3. MainWaits' /\ Asleep'
  BY <1>1, MainBusy
<1>4. Posted'
  BY <1>1 DEF IInv, Posted
<1>5. CASE state[p] = "none"
  <2>1. p \notin L
    <3>1. ~Holds(stack, "exit_process", p)
      BY <1>1 DEF Exiting, Holds
    <3> QED BY <1>2, <1>5, <3>1 DEF Base, Held, Listed
  <2>2. process_list # p /\ \A q \in L : next[q] # p
    BY <1>2, <2>1, ReachableStep, NullAssumption DEF Listed
  <2>3. /\ unlink(p) /\ stack' = stack /\ process_current' = process_current
        /\ UNCHANGED <<state, wanted, historyVars>>
    BY <1>1, <1>5 DEF exit_process
  <2>4. next' = next /\ process_list' = process_list
    <3>1. /\ next' = [q \in Process |->
                        IF q \in {r \in Listed : next[r] = p} THEN next[p] ELSE next[q]]
          /\ process_list' = process_list
      BY <2>2, <2>3 DEF unlink
    <3>2. \A q \in Process : q \notin {r \in Listed : next[r] = p}
      BY <2>2
    <3> QED BY <1>2, <3>1, <3>2 DEF Links
  <2>5. Core'
    BY <1>1, <1>2, <2>3, <2>4, StructureStays, EventOwedStays, PollsKeptStays
       DEF Core, listVars, pollVars
  <2>6. RestTyped'
    BY <1>1, <2>3 DEF IInv, RestTyped, historyVars
  <2> QED BY <1>3, <1>4, <2>5, <2>6 DEF IInv
<1>6. CASE state[p] # "none"
  <2> DEFINE f == Exit(p, process_current, process_current, Front)
  <2>1. /\ state' = [state EXCEPT ![p] = "none"]
        /\ stack' = On(f, stack)
        /\ wanted' = wanted \ {p}
        /\ audience' = audience \ {p}
        /\ UNCHANGED <<listVars, process_current, heard>>
    BY <1>1, <1>6 DEF exit_process, On
  <2>2. state[p] = "running"
    BY <1>1, <1>2, <1>6 DEF States, ProcState
  <2>3. Upon(f, Head(stack))
    BY <1>1, <1>2, CallUponRunning
  <2>4. /\ Structured(On(f, stack), [state EXCEPT ![p] = "none"],
                      process_current, next, process_list)
        /\ \A q : Kept(q, stack, next, process_list)
                    => Kept(q, On(f, stack), next, process_list)
        /\ \A C \in SUBSET Process :
             Owing(stack, C, state, next, process_list) =>
               Owing(On(f, stack), C \ {p}, [state EXCEPT ![p] = "none"],
                     next, process_list)
    BY <1>2, <2>2, <2>3, ExitProcess
  <2> HIDE DEF f
  <2>5. Structure'
    BY <2>1, <2>4 DEF Structure, listVars
  <2>6. PollsKept'
    <3>1. \A q \in wanted : q \in Process
      BY DEF IInv, RestTyped
    <3>2. \A q \in Process \ {p} : state'[q] = state[q]
      BY <1>2, <2>1 DEF States
    <3> QED BY <1>1, <1>2, <2>1, <2>4, <3>1, <3>2 DEF PollsKept, listVars
  <2>7. EventOwed'
    <3>1. A \in SUBSET Process /\ B = A \ {p}
      BY <2>1 DEF IInv, RestTyped
    <3>2. Owing(stack, A, state, next, process_list)
      BY <1>2 DEF EventOwed
    <3> HIDE DEF A
    <3>3. Owing(On(f, stack), A \ {p}, [state EXCEPT ![p] = "none"], next, process_list)
      BY <2>4, <3>1, <3>2
    <3> QED BY <2>1, <3>1, <3>3 DEF EventOwed, listVars
  <2>8. RestTyped'
    BY <1>1, <2>1 DEF IInv, RestTyped
  <2> QED BY <1>3, <1>4, <2>5, <2>6, <2>7, <2>8 DEF IInv, Core
<1> QED BY <1>5, <1>6

\* A thread ends, or returns from PROCESS_EVENT_EXIT: the call gives way to the
\* exit, on the same stack.
LEMMA ThreadEndsKeeps == IInv /\ ThreadEnds => IInv'
<1> SUFFICES ASSUME IInv, ThreadEnds PROVE IInv'
  OBVIOUS
<1> DEFINE f == Top
           s == Below
           p == Top.p
           A == audience \ heard
           B == audience' \ heard'
           back == IF f.back = Keep THEN process_current ELSE f.back
           st == [state EXCEPT ![p] = "running"]
           su == [state EXCEPT ![p] = "none"]
           g == Exit(p, p, back, Front)
<1>1. /\ stack # <<>> /\ f.kind = "thread" /\ f.p = p
      /\ exit_process(s, p, p, back)
      /\ UNCHANGED <<events, needspoll, poll_requested, main, started>>
  BY DEF ThreadEnds, InLoop, Restored
<1>2. /\ stack = On(f, s) /\ f \in Frame /\ s \in Seq(Frame)
      /\ Base(On(f, s), state, next, process_list)
      /\ state \in States /\ process_current \in Process \cup {NULL}
      /\ Structure /\ PollsKept /\ EventOwed
  BY <1>1, TopOnBelow
<1>3. p \in Process /\ f.back \in Process \cup {NULL, Keep}
  BY <1>1, <1>2, FrameFields
<1>4. back \in Process \cup {NULL}
  BY <1>2, <1>3
<1> HIDE DEF f, s, p
<1>5. /\ state[p] = "called"
      /\ Structured(s, st, back, next, process_list)
  <2>1. /\ state[f.p] = "called"
        /\ Structured(s, [state EXCEPT ![f.p] = "running"], back, next, process_list)
    BY <1>1, <1>2, YieldProcess
  <2> QED BY <1>1, <2>1
<1>6. /\ state' = su
      /\ stack' = On(g, s)
      /\ wanted' = wanted \ {p}
      /\ audience' = audience \ {p}
      /\ UNCHANGED <<listVars, process_current, heard>>
  BY <1>1, <1>5 DEF exit_process, On
<1>7. s # <<>> => Upon(g, Head(s))
  <2> SUFFICES ASSUME s # <<>> PROVE Upon(g, Head(s))
    OBVIOUS
  <2>1. Upon(f, Head(s))
    BY <1>2, NestedOn DEF Base
  <2>2. Head(s).kind \in {"thread", "farewell"} => back = Head(s).p
    BY <1>5 DEF Structured, Topped
  <2>3. g.kind = "exit_process" /\ g.p = p /\ g.back = back
    BY DEF Exit
  <2> HIDE DEF g, back
  <2> QED BY <1>1, <2>1, <2>2, <2>3 DEF Upon
<1>8. [st EXCEPT ![p] = "none"] = su /\ st[p] = "running"
  BY <1>2, <1>3 DEF States
<1> HIDE DEF st, su, back
<1>9. /\ Structured(On(g, s), su, process_current, next, process_list)
      /\ \A q : Kept(q, s, next, process_list) => Kept(q, On(g, s), next, process_list)
      /\ \A C \in SUBSET Process :
           Owing(s, C, st, next, process_list) =>
             Owing(On(g, s), C \ {p}, su, next, process_list)
  <2>1. Base(s, st, next, process_list)
    BY <1>5 DEF Structured
  <2>2. p \in Process \cup {NULL}
    BY <1>3
  <2>3. /\ Structured(On(g, s), [st EXCEPT ![p] = "none"], process_current, next, process_list)
        /\ \A q : Kept(q, s, next, process_list) => Kept(q, On(g, s), next, process_list)
        /\ \A C \in SUBSET Process :
             Owing(s, C, st, next, process_list) =>
               Owing(On(g, s), C \ {p}, [st EXCEPT ![p] = "none"], next, process_list)
    BY <1>2, <1>3, <1>4, <1>7, <1>8, <2>1, <2>2, ExitProcess
  <2> QED BY <1>8, <2>3
<1> HIDE DEF g
<1>10. Structure'
  BY <1>6, <1>9 DEF Structure, listVars
<1>11. PollsKept'
  <2>1. \A q \in wanted : q \in Process
    BY DEF IInv, RestTyped
  <2>2. \A q \in Process \ {p} : state'[q] = state[q]
    BY <1>2, <1>6 DEF States, su
  <2>3. \A q : Kept(q, stack, next, process_list) => Kept(q, s, next, process_list)
    BY <1>1, <1>2, KeptOn
  <2> QED BY <1>1, <1>2, <1>6, <1>9, <2>1, <2>2, <2>3 DEF PollsKept, listVars
<1>12. EventOwed'
  <2>1. A \in SUBSET Process /\ B = A \ {p}
    BY <1>6 DEF IInv, RestTyped
  <2>2. Owing(s, A, state, next, process_list)
    BY <1>2, OwingOn DEF EventOwed
  <2> HIDE DEF A
  <2>3. \A q \in Process : state[q] # "none" => st[q] # "none"
    BY <1>2, <1>3 DEF States, st
  <2>4. Owing(s, A, st, next, process_list)
    BY <2>1, <2>2, <2>3 DEF Owing, OwedBy
  <2>5. Owing(On(g, s), A \ {p}, su, next, process_list)
    BY <1>9, <2>1, <2>4
  <2> QED BY <1>6, <2>1, <2>5 DEF EventOwed, listVars
<1>13. RestTyped' /\ Posted'
  BY <1>1, <1>6 DEF IInv, RestTyped, Posted
<1> QED BY <1>1, <1>10, <1>11, <1>12, <1>13, MainBusy DEF IInv, Core

LEMMA FarewellReturnsKeeps == IInv /\ FarewellReturns => IInv'
<1> SUFFICES ASSUME IInv, FarewellReturns PROVE IInv'
  OBVIOUS
<1> DEFINE f == Top
           s == Below
<1>1. /\ stack # <<>> /\ f.kind = "farewell" /\ stack' = s
      /\ UNCHANGED <<listVars, state, process_current, events, pollVars, main,
                     started, historyVars>>
  BY DEF FarewellReturns, InLoop
<1>2. /\ stack = On(f, s) /\ f \in Frame /\ s \in Seq(Frame)
      /\ Base(On(f, s), state, next, process_list)
      /\ process_current \in Process \cup {NULL}
      /\ Structure /\ PollsKept /\ EventOwed
  BY <1>1, TopOnBelow
<1> HIDE DEF f, s
<1>3. s # <<>> => Head(s).kind = "exit_process"
  <2>1. s # <<>> => Upon(f, Head(s))
    BY <1>2, NestedOn DEF Base
  <2> QED BY <1>1, <2>1 DEF Upon
<1>4. Base(s, state, next, process_list) /\ Topped(s, process_current, next, process_list)
  BY <1>1, <1>2, <1>3, BaseUnderLoop DEF Topped
<1>5. Structure'
  BY <1>1, <1>4 DEF Structure, Structured, listVars
<1>6. PollsKept'
  <2>1. \A q : Kept(q, stack, next, process_list) => Kept(q, s, next, process_list)
    BY <1>1, <1>2, KeptOn
  <2> QED BY <1>1, <1>2, <2>1 DEF PollsKept, listVars, pollVars
<1>7. EventOwed'
  <2>1. Owing(s, audience \ heard, state, next, process_list)
    BY <1>2, OwingOn DEF EventOwed
  <2> QED BY <1>1, <2>1 DEF EventOwed, listVars, historyVars
<1>8. RestTyped' /\ Posted'
  BY <1>1 DEF IInv, RestTyped, Posted, pollVars, historyVars
<1> QED BY <1>1, <1>5, <1>6, <1>7, <1>8, MainBusy DEF IInv, Core

LEMMA NextKeeps ==
  ASSUME ~ExitsRunningCaller PROVE IInv /\ [Next]_vars => IInv'
<1> SUFFICES ASSUME IInv, [Next]_vars PROVE IInv'
  OBVIOUS
<1>1. CASE UNCHANGED vars
  <2>1. UNCHANGED <<listVars, state, process_current, events, pollVars, stack,
                    main, started, historyVars>>
    BY <1>1 DEF vars
  <2>2. Core'
    BY <2>1, StructureStays, EventOwedStays, PollsKeptStays DEF IInv, Core
  <2>3. RestTyped' /\ MainWaits' /\ Asleep' /\ Posted'
    BY <2>1 DEF IInv, RestTyped, MainWaits, Asleep, Posted, pollVars, historyVars
  <2> QED BY <2>2, <2>3 DEF IInv
<1>2. CASE KernelStep
  BY <1>2, BootKeeps, RunPollsKeeps, RunEventKeeps, RunReturnsKeeps, IdleKeeps,
     PollLoopNextKeeps, BroadcastNextKeeps, BroadcastCallKeeps, ExitNextKeeps,
     ExitDoneKeeps DEF KernelStep
<1>3. CASE ThreadStep
  <2>1. ASSUME NEW ev \in PostedEvent, NEW p \in Process \cup {NULL}, ThreadPosts(p, ev)
        PROVE  IInv'
    BY <2>1, ThreadPostsKeeps
  <2>2. ASSUME NEW p \in Process, NEW ev \in PostedEvent, ThreadCalls(p, ev)
        PROVE  IInv'
    BY <2>2, ThreadCallsKeeps
  <2>3. ASSUME NEW p \in Process, ThreadStarts(p) PROVE IInv'
    BY <2>3, ThreadStartsKeeps
  <2>4. ASSUME NEW p \in Process, ThreadExits(p) PROVE IInv'
    BY <2>4, ThreadExitsKeeps
  <2>5. ASSUME NEW p \in Polled, ThreadPolls(p) PROVE IInv'
    BY <2>5, ThreadPollsKeeps
  <2> QED BY <1>3, <2>1, <2>2, <2>3, <2>4, <2>5, ThreadYieldsKeeps,
             ThreadEndsKeeps, FarewellReturnsKeeps DEF ThreadStep
<1>4. ASSUME NEW p \in Polled, InterruptPolls(p) PROVE IInv'
  BY <1>4, InterruptPollsKeeps
<1> QED BY <1>1, <1>2, <1>3, <1>4 DEF Next

-----------------------------------------------------------------------------
(***************************************************************************)
(* The properties.                                                         *)
(***************************************************************************)
LEMMA ListIsWellFormed == IInv => ListWellFormed
<1> SUFFICES ASSUME IInv PROVE ListWellFormed
  OBVIOUS
<1>1. /\ Acyclic(next, process_list) /\ Held(stack, state, Listed)
      /\ Listed \in SUBSET Process
  BY Typed DEF IInv, Core, Structure, Structured, Base, Listed
<1>2. \A p : Holds(stack, "exit_process", p) => p \in Exiting
  BY DEF Holds, Exiting
<1> QED BY <1>1, <1>2 DEF ListWellFormed, Acyclic, Held, Listed

LEMMA CallsAreNested == IInv => CallsNest
<1> SUFFICES ASSUME IInv PROVE CallsNest
  OBVIOUS
<1>1. /\ Nested(stack) /\ Held(stack, state, Listed) /\ stack \in Seq(Frame)
      /\ Topped(stack, process_current, next, process_list)
  BY Typed DEF IInv, Core, Structure, Structured, Base, Listed
<1>2. \A i \in DOMAIN stack : i \in Nat
  BY <1>1
<1>3. ASSUME NEW i \in DOMAIN stack, stack[i].kind = "farewell"
      PROVE  /\ i + 1 \in DOMAIN stack
             /\ stack[i + 1].kind = "exit_process"
             /\ stack[i + 1].p = stack[i].p
  BY <1>1, <1>3 DEF Nested, Upon
<1>4. \A i \in DOMAIN stack : stack[i].kind \in {"thread", "farewell"} => stack[i].p \in Process
  <2>1. \A i \in DOMAIN stack : stack[i] \in Frame
    BY <1>1
  <2> QED BY <2>1, FrameFields
<1>5. ASSUME NEW i \in DOMAIN stack, NEW j \in DOMAIN stack,
             stack[i].kind = "thread", stack[j].kind = "farewell"
      PROVE  stack[i].p # stack[j].p
  <2>1. state[stack[i].p] = "called"
    BY <1>1, <1>4, <1>5 DEF Held, Holds
  <2>2. Holds(stack, "exit_process", stack[j].p)
    BY <1>3, <1>5 DEF Holds
  <2>3. state[stack[j].p] = "none"
    BY <1>1, <1>4, <1>5, <2>2 DEF Held
  <2> QED BY <2>1, <2>3
<1>6. ASSUME NEW i \in DOMAIN stack, NEW j \in DOMAIN stack,
             stack[i].kind \in {"thread", "farewell"},
             stack[j].kind \in {"thread", "farewell"},
             stack[i].p = stack[j].p
      PROVE  i = j
  <2>1. CASE stack[i].kind = "thread" /\ stack[j].kind = "thread"
    BY <1>1, <1>6, <2>1 DEF Held, Once
  <2>2. CASE stack[i].kind = "farewell" /\ stack[j].kind = "farewell"
    <3>1. /\ i + 1 \in DOMAIN stack /\ j + 1 \in DOMAIN stack
          /\ stack[i + 1].kind = "exit_process" /\ stack[j + 1].kind = "exit_process"
          /\ stack[i + 1].p = stack[j + 1].p
      BY <1>3, <1>6, <2>2
    <3>2. i + 1 = j + 1
      BY <1>1, <3>1 DEF Held, Once
    <3> QED BY <1>2, <3>2
  <2> QED BY <1>5, <1>6, <2>1, <2>2
<1>7. Running => process_current = Top.p
  BY <1>1 DEF Topped, Running, InLoop, Top
<1> QED BY <1>6, <1>7 DEF CallsNest

\* However calls, polls, starts and ends nest, the list of processes stays a
\* list of those that run or are ending, none is entered twice, and the current
\* process is the one whose code runs: process.c, as long as nothing ends a
\* process while it is being called.
THEOREM KernelStaysConsistent ==
  ASSUME ~ExitsRunningCaller PROVE Spec => []KernelConsistent
<1>1. IInv /\ [Next]_vars => IInv'
  BY NextKeeps
<1>2. IInv => TypeOK
  BY Typed DEF IInv, Core, RestTyped, TypeOK, Links, States
<1>3. IInv => KernelConsistent
  BY <1>2, ListIsWellFormed, CallsAreNested DEF KernelConsistent
<1> QED BY <1>1, <1>3, InitEstablishes, PTL DEF Spec

\* A process polled and not served yet keeps its flag and is still before a
\* do_poll, requested or in progress, whatever was started or ended meanwhile;
\* and main sleeps over no poll and no event: do_poll's walk of a list that
\* changes under it, and the order in which it clears the request.
THEOREM PollsAreNotLost ==
  ASSUME ~ExitsRunningCaller PROVE Spec => []NoLostPoll
<1>1. IInv /\ [Next]_vars => IInv'
  BY NextKeeps
<1>2. IInv => NoLostPoll
  <2> SUFFICES ASSUME IInv PROVE NoLostPoll
    OBVIOUS
  <2>1. SleepsOnlyIdle
    BY DEF IInv, MainWaits, Asleep, SleepsOnlyIdle
  <2>2. ASSUME NEW p, Kept(p, stack, next, process_list)
        PROVE  p \in StillToPoll
    BY <2>2 DEF Kept, StillToPoll, Ahead, FollowingIn, Following
  <2> QED BY <2>1, <2>2 DEF NoLostPoll, IInv, Core, PollsKept
<1> QED BY <1>1, <1>2, InitEstablishes, PTL DEF Spec

\* A broadcast has reached every process that was on the list when it began and
\* has not ended since when its walk comes to the end: do_event's static p, which
\* follows the links of processes that may have left the list.
THEOREM BroadcastsReachAll ==
  ASSUME ~ExitsRunningCaller PROVE Spec => BroadcastReachesAll
<1>1. IInv /\ [Next]_vars => IInv'
  BY NextKeeps
<1>2. IInv /\ [Next]_vars =>
        [InLoop("do_event") /\ stack' = <<>> => audience \subseteq heard]_vars
  <2> SUFFICES ASSUME IInv, Next, InLoop("do_event"), stack' = <<>>
               PROVE  audience \subseteq heard
    OBVIOUS
  <2>1. stack # <<>> /\ Top.kind = "do_event"
    BY DEF InLoop
  <2>2. /\ stack = On(Top, Below) /\ Top \in Frame /\ Below \in Seq(Frame)
        /\ Base(On(Top, Below), state, next, process_list)
        /\ next \in Links /\ process_list \in Process \cup {NULL}
        /\ EventOwed
    BY <2>1, TopOnBelow
  <2>3. main \notin {"run", "idle", "asleep"} /\ ~Running
    BY <2>1 DEF IInv, MainWaits, Running, InLoop
  <2>4. BroadcastNext \/ BroadcastCall
    <3>1. ~Boot /\ ~RunPolls /\ ~RunEvent /\ ~RunReturns /\ ~Idle
      BY <2>1, <2>3 DEF Boot, RunPolls, RunEvent, RunReturns, Idle
    <3>2. ~PollLoopNext /\ ~ExitNext /\ ~ExitDone
      BY <2>1 DEF PollLoopNext, ExitNext, ExitDone, InLoop
    <3>3. ~ThreadStep
      BY <2>1, <2>3 DEF ThreadStep, ThreadPosts, ThreadCalls, ThreadPolls,
         ThreadStarts, ThreadExits, ThreadYields, ThreadEnds, FarewellReturns,
         May, InLoop
    <3>4. \A p \in Polled : ~InterruptPolls(p)
      BY <2>1 DEF InterruptPolls
    <3> QED BY <3>1, <3>2, <3>3, <3>4 DEF Next, KernelStep
  <2>5. ~BroadcastCall
    <3> DEFINE g == Broadcast(Top.ev, Top.at, FALSE)
    <3> SUFFICES ASSUME BroadcastCall PROVE FALSE
      OBVIOUS
    <3>1. Top.due /\ call_process(state, <<g>> \o Below, Top.at, Top.ev, Keep)
      BY DEF BroadcastCall
    <3> HIDE DEF g
    <3>2. /\ <<g>> \o Below # <<>>
          /\ <<Thread(Top.at, Top.ev, Keep)>> \o (<<g>> \o Below) # <<>>
      BY <2>2
    <3> QED BY <3>1, <3>2 DEF call_process
  <2>6. ~Top.due /\ Following(Top.at) = NULL
    <3> DEFINE g == Broadcast(Top.ev, Following(Top.at), TRUE)
    <3>1. BroadcastNext
      BY <2>4, <2>5
    <3>2. /\ ~Top.due
          /\ Following(Top.at) # NULL =>
               stack' = <<PollLoop(Front)>> \o (<<g>> \o Below) \/ stack' = <<g>> \o Below
      BY <3>1 DEF BroadcastNext
    <3> HIDE DEF g
    <3>3. /\ <<g>> \o Below # <<>>
          /\ <<PollLoop(Front)>> \o (<<g>> \o Below) # <<>>
      BY <2>2
    <3> QED BY <3>2, <3>3
  <2>7. Ahead(next, process_list, Top.at) = {}
    BY <2>2, <2>6, NothingFromNull DEF Ahead, FollowingIn, Following
  <2>8. OwedBy(Top, audience \ heard, state, next, process_list)
    BY <2>1, <2>2, OwingOn DEF EventOwed
  <2> QED BY <2>6, <2>7, <2>8 DEF OwedBy
<1> QED BY <1>1, <1>2, InitEstablishes, PTL DEF Spec, BroadcastReachesAll

=============================================================================
