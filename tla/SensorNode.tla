----------------------------- MODULE SensorNode -----------------------------
(***************************************************************************)
(* A node as appli/sensorssend makes one: the main program reads a sensor  *)
(* over I2C and sends what it has read with mac_send, while the radio      *)
(* interrupts it.  Sensors and radio share USCI B0, and the interrupt does *)
(* not know what it takes the module away from.                            *)
(***************************************************************************)
EXTENDS Csma, Usci

\* The registers read and written below; `flush' stands for those written.
ASSUME RegisterAssumption == {"x", "y", "flush"} \subseteq Register

VARIABLES
  todo,    \* the transfers of the sensor function that are still to be made
  tmp,     \* its buffer
  sample,  \* the last coordinate: which it should be, and which it is
  failed   \* history: a transfer of this sample failed, was stolen or late

nodeVars == <<macVars, usciVars, todo, tmp, sample, failed>>

NoSample == [of |-> NoOctet, is |-> NoOctet]

Transfer(op, reg, len) == [op |-> op, reg |-> reg, len |-> len]

\* lis302_getx; hmc5843_getXYZ, of which two coordinates show what there is to
\* see; hmc5843_init's write and an i2c_read, which only tests/i2c calls.
lis302 == <<Transfer("write_read", "x", 1)>>
hmc5843 == <<Transfer("write_read", "x", 2), Transfer("write_read", "y", 2)>>
hmc5843_set == <<Transfer("write", "flush", 2), Transfer("read", "y", 1)>>

NodeTypeOK == MacTypeOK /\ UsciTypeOK /\ failed \in BOOLEAN

NodeInit ==
  /\ MacInit
  /\ UsciInit
  /\ todo = <<>> /\ tmp = NoOctet /\ sample = NoSample /\ failed = FALSE

\* The main program has interrupts enabled: a pending one comes first.
CpuFree == ~P2IFG
MainIdle == CpuFree /\ ~Sending /\ ~InTransfer /\ todo = <<>>

sample_evt ==
  /\ MainIdle
  /\ todo' \in {lis302, hmc5843, hmc5843_set}
  /\ tmp' = NoOctet /\ sample' = NoSample /\ failed' = FALSE
  /\ UNCHANGED <<macVars, usciVars>>

NextTransfer ==
  /\ CpuFree /\ todo # <<>> /\ ~InTransfer
  /\ i2c_transfer(Head(todo).op, Head(todo).reg, Head(todo).len)
  /\ UNCHANGED <<macVars, todo, tmp, sample, failed>>

\* What the caller makes of the result: the buffer keeps its former octets when
\* nothing was read, and the error is not looked at.
Used(data) == IF data = <<>> THEN tmp ELSE data[Len(data)]

I2cRuns ==
  /\ CpuFree /\ I2cStep
  /\ IF call'.pc = "idle"
     THEN /\ todo' = Tail(todo)
          /\ IF call.op = "write" THEN UNCHANGED <<tmp, sample>>
             ELSE /\ tmp' = Used(call.data)
                  /\ sample' = [of |-> call.reg, is |-> tmp']
          /\ failed' = (failed \/ call'.ret # "ok" \/ stolen \/ call.stale)
     ELSE UNCHANGED <<todo, tmp, sample, failed>>
  /\ UNCHANGED macVars

Send(f) ==
  /\ MainIdle
  /\ mac_send(f)
  /\ tmp' = NoOctet /\ sample' = NoSample /\ failed' = FALSE
  /\ call' = NoCall
  /\ UNCHANGED <<ucb_mode, bits, loaded, rxbuf, line, stolen, late, todo>>

\* The first octet to the radio after a transfer sets the module up again.
MacRuns ==
  /\ CpuFree /\ MacStep
  /\ IF Sending /\ mac.phase = "select" /\ Command # "set_cb"
     THEN spi_select_radio /\ UNCHANGED <<call, stolen>>
     ELSE UNCHANGED usciVars
  /\ UNCHANGED <<todo, tmp, sample, failed>>

Interrupt ==
  /\ port2irq
  /\ SpiTransfers
  /\ UNCHANGED <<todo, tmp, sample, failed>>

RadioRuns == RadioStep /\ UNCHANGED <<usciVars, todo, tmp, sample, failed>>
UsciRuns == UsciStep /\ UNCHANGED <<macVars, todo, tmp, sample, failed>>

\* A flag that is not set is read again, for ever if need be.
BusyWait == CpuFree /\ InTransfer /\ UNCHANGED nodeVars

NodeNext ==
  \/ sample_evt
  \/ NextTransfer
  \/ I2cRuns
  \/ BusyWait
  \/ \E f \in LocalFrame : Send(f)
  \/ MacRuns
  \/ Interrupt
  \/ RadioRuns
  \/ UsciRuns

NodeSpec == NodeInit /\ [][NodeNext]_nodeVars

\* The CPU runs, the hardware works; nobody need send, sample or be received.
NodeFairSpec ==
  /\ NodeSpec
  /\ WF_nodeVars(NextTransfer) /\ WF_nodeVars(I2cRuns) /\ WF_nodeVars(MacRuns)
  /\ WF_nodeVars(Interrupt) /\ WF_nodeVars(UsciRuns)
  /\ WF_nodeVars(ReceiveEnd /\ RadioRuns)
  /\ WF_nodeVars((TransmitSync \/ TransmitEnd) /\ RadioRuns)

-----------------------------------------------------------------------------
\* Every coordinate of a sample is the one it is taken for, unless a transfer
\* of the sample failed, was stolen or late: the drivers ignore the result of a
\* transfer, and the next coordinate repeats the one before.
SampleIsFresh ==
  /\ NodeTypeOK
  /\ ReadsItsOwn
  /\ ~failed => sample.is = sample.of

\* The node goes on: its transfers return, its radio keeps listening and its
\* sends are reported.
NodeGoesOn == TransferReturns /\ ListensAgain /\ UncutSendIsReported
=============================================================================
