----------------------------- MODULE SerialLine -----------------------------
(***************************************************************************)
(* The line input of core/dev/serial-line.c: the receive interrupt puts    *)
(* bytes into a ring buffer and polls serial_line_process, which collects  *)
(* them into buf and broadcasts an event at the end of each line.          *)
(*                                                                         *)
(* The ring buffer is RingBuf, access by access.  The receive interrupt    *)
(* takes the steps of ringbuf_put and the process those of ringbuf_get;    *)
(* they interleave freely, which includes what an interrupt does, that is  *)
(* all its steps at once.  Of the kernel (ProcessKernel) this module keeps *)
(* the poll flag of the process and the queue of events, which other       *)
(* processes fill as well.  Characters are known by line and position.     *)
(***************************************************************************)
EXTENDS RingBuf

CONSTANTS
  NumEvents, \* slots of the kernel's event queue
  MaxLine,   \* bound: lines received
  MaxChar    \* bound: characters in a line

VARIABLES
  overflow,   \* of serial_line_input_byte
  buf, ptr,   \* of the process
  at,         \* where the process is
  polled,     \* process_poll(&serial_line_process) is pending
  events,     \* the kernel's queue
  line, char  \* what the sender has sent: its place in the input

inputVars == <<overflow, polled, line, char>>
processVars == <<buf, ptr, at, events>>
lineVars == <<vars, inputVars, processVars>>

END == <<"end">>
NUL == <<"nul">>
Char == (1 .. MaxLine) \X (1 .. MaxChar)
LineByte == Char \cup {END}

ASSUME LineAssumption ==
  /\ BUFSIZE >= 2 /\ NumEvents \in Nat \ {0} /\ MaxLine \in Nat /\ MaxChar \in Nat
  /\ Byte = LineByte

\* `fill' the process runs and is about to call ringbuf_get; `yield' it waits in
\* PROCESS_YIELD; `wait' it waits for PROCESS_EVENT_CONTINUE.
Running == at = "fill"

\* What a reader of buf sees.
Text ==
  LET n == CHOOSE i \in 0 .. BUFSIZE :
             /\ i = BUFSIZE \/ buf[i] = NUL
             /\ \A j \in 0 .. i - 1 : buf[j] # NUL
  IN  [i \in 1 .. n |-> buf[i - 1]]

\* A queued event; `text' is what buf held when a line was posted.
Event == [ev : {"line", "continue", "other"}, text : Seq(Char)]
Posted(ev) == [ev |-> ev, text |-> <<>>]

LineTypeOK ==
  /\ overflow \in BOOLEAN
  /\ buf \in [0 .. BUFSIZE - 1 -> Char \cup {NUL}]
  /\ ptr \in 0 .. BUFSIZE - 1
  /\ at \in {"fill", "yield", "wait"}
  /\ polled \in BOOLEAN
  /\ events \in Seq(Event) /\ Len(events) <= NumEvents
  /\ line \in 1 .. MaxLine + 1 /\ char \in 0 .. MaxChar

\* serial_line_init; the process is about to call ringbuf_get for the first time.
LineInit ==
  /\ Init
  /\ overflow = FALSE
  /\ buf = [i \in 0 .. BUFSIZE - 1 |-> NUL]
  /\ ptr = 0
  /\ at = "fill"
  /\ polled = FALSE
  /\ events = <<>>
  /\ line = 1 /\ char = 0

-----------------------------------------------------------------------------
(***************************************************************************)
(* The receive interrupt.                                                  *)
(***************************************************************************)
\* Mutant: while the rest of a line is ignored, anything that fits ends that.
ResumeAnywhere(c) == TRUE

\* After a byte that did not fit only the END of its line is tried.
IsTried(c) == overflow => c = END

\* process_poll(&serial_line_process), whether or not the byte was added.
WakeUp(c) == polled' = TRUE

\* The rest of a line that did not fit is ignored; with an END that does not fit
\* the next line is ignored as well.  A carriage return always is.
serial_line_input_byte(c) ==
  IF IsTried(c)
  THEN /\ PutTest(c)
       /\ IF putting' = <<"idle">> THEN overflow' = TRUE /\ WakeUp(c)
                                   ELSE UNCHANGED <<overflow, polled>>
  ELSE /\ putting = <<"idle">>
       /\ WakeUp(c)
       /\ UNCHANGED <<vars, overflow>>

ReceiveChar ==
  /\ line <= MaxLine /\ char < MaxChar
  /\ char' = char + 1
  /\ serial_line_input_byte(<<line, char + 1>>)
  /\ UNCHANGED <<line, processVars>>

ReceiveEnd ==
  /\ line <= MaxLine
  /\ line' = line + 1
  /\ char' = 0
  /\ serial_line_input_byte(END)
  /\ UNCHANGED processVars

ReceiveStores ==
  /\ PutStore
  /\ UNCHANGED <<inputVars, processVars>>

ReceiveAdds ==
  /\ PutAdvance
  /\ overflow' = FALSE
  /\ WakeUp(putting[2])
  /\ UNCHANGED <<line, char, processVars>>

-----------------------------------------------------------------------------
(***************************************************************************)
(* serial_line_process.                                                    *)
(***************************************************************************)
\* The test of ringbuf_get; `-1' and PROCESS_YIELD if there is no byte.
GetByte ==
  /\ Running
  /\ GetTest
  /\ at' = IF getting' = <<"idle">> THEN "yield" ELSE "fill"
  /\ UNCHANGED <<inputVars, buf, ptr, events>>

LoadByte ==
  /\ Running
  /\ GetLoad
  /\ UNCHANGED <<inputVars, processVars>>

\* What does not fit is ignored, up to the end of the line.
FillBuffer ==
  /\ Running
  /\ GetAdvance /\ taken' # END
  /\ IF ptr < BUFSIZE - 1
     THEN buf' = [buf EXCEPT ![ptr] = taken'] /\ ptr' = ptr + 1
     ELSE UNCHANGED <<buf, ptr>>
  /\ UNCHANGED <<inputVars, at, events>>

process_post(queued, e) ==
  IF Len(queued) = NumEvents THEN queued ELSE Append(queued, e)

\* Mutant: the process waits for its event whether or not it was posted.
WaitAnyway ==
  /\ Running
  /\ GetAdvance /\ taken' = END
  /\ buf' = [buf EXCEPT ![ptr] = NUL]
  /\ events' = process_post(process_post(events, [ev |-> "line", text |-> Text']),
                            Posted("continue"))
  /\ at' = "wait"
  /\ UNCHANGED <<inputVars, ptr>>

\* The broadcast may fail silently; without a CONTINUE the process does not wait.
EndLine ==
  /\ Running
  /\ GetAdvance /\ taken' = END
  /\ buf' = [buf EXCEPT ![ptr] = NUL]
  /\ LET broadcast == process_post(events, [ev |-> "line", text |-> Text'])
     IN  /\ events' = process_post(broadcast, Posted("continue"))
         /\ IF events' # broadcast
            THEN at' = "wait" /\ UNCHANGED ptr
            ELSE ptr' = 0 /\ UNCHANGED at
  /\ UNCHANGED inputVars

\* The kernel calls the process with `ev'.
Resume(ev) ==
  \/ at = "yield" /\ at' = "fill" /\ UNCHANGED ptr
  \/ at = "wait" /\ ev = "continue" /\ at' = "fill" /\ ptr' = 0
  \/ at = "wait" /\ ev # "continue" /\ UNCHANGED <<at, ptr>>

Poll ==
  /\ ~Running
  /\ polled
  /\ polled' = FALSE
  /\ Resume("poll")
  /\ UNCHANGED <<vars, overflow, buf, events, line, char>>

\* do_event; an event of others may be a broadcast or not.
Deliver ==
  /\ ~Running
  /\ events # <<>>
  /\ events' = Tail(events)
  /\ \/ Resume(Head(events).ev)
     \/ Head(events).ev = "other" /\ UNCHANGED <<at, ptr>>
  /\ UNCHANGED <<vars, inputVars, buf>>

OtherPosts ==
  /\ ~Running
  /\ Len(events) < NumEvents
  /\ events' = process_post(events, Posted("other"))
  /\ UNCHANGED <<vars, inputVars, buf, ptr, at>>

-----------------------------------------------------------------------------
Process == GetByte \/ LoadByte \/ FillBuffer \/ EndLine
Receive == ReceiveStores \/ ReceiveAdds

LineNext ==
  \/ ReceiveChar
  \/ ReceiveEnd
  \/ Receive
  \/ Process
  \/ Poll
  \/ Deliver
  \/ OtherPosts

(***************************************************************************)
(* An interrupt that began ends.  Main runs the kernel: every process_run  *)
(* serves the polls and then delivers one event, however many more are     *)
(* posted.                                                                 *)
(***************************************************************************)
LineSpec ==
  /\ LineInit /\ [][LineNext]_lineVars
  /\ WF_lineVars(Receive)
  /\ WF_lineVars(Process)
  /\ SF_lineVars(Poll)
  /\ SF_lineVars(Deliver)

-----------------------------------------------------------------------------
(***************************************************************************)
(* Properties.                                                             *)
(***************************************************************************)

LinesQueued == {events[i].text : i \in {j \in DOMAIN events :
                                          events[j].ev = "line"}}

\* Whatever overflows, rxbuf, buf or both, a line that is announced is the
\* beginning of one line of the input and never the mixture of two.
NoMixedLine ==
  /\ LineTypeOK
  /\ \A text \in LinesQueued :
       \E n \in 1 .. MaxLine, k \in 0 .. MaxChar :
         text = [i \in 1 .. k |-> <<n, i>>]

\* The process always comes back to an empty ring buffer once input pauses: it is
\* not left waiting for a CONTINUE that was never queued.
InputConsumed == []<>(ringbuf_elements = 0)
=============================================================================
