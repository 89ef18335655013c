------------------------------ MODULE I2cSlave ------------------------------
(***************************************************************************)
(* The slave of qm_i2c.c: a master writes to it and reads from it in       *)
(* transfers of any length, between STARTs and STOPs the slave learns of by *)
(* interrupt.  One handler empties and fills the FIFOs, tells the client   *)
(* where a transfer begins and ends, and asks it for new buffers when one  *)
(* is full or used up; meanwhile the bus goes on.                          *)
(*                                                                         *)
(* A byte written is its number in its transfer.  Of the master and the    *)
(* bus only what this slave sees is here; general calls are left out.      *)
(***************************************************************************)
EXTENDS Naturals, Sequences

CONSTANTS
  FIFO_SIZE, TX_TL, RX_TL,
  SlvLens,     \* bound: lengths of the client's buffers
  SlvMaxBytes, \* bound: the bytes of one transfer
  \* What follows a START, STOP or last byte read on the bus takes longer than
  \* the handler needs for it.
  SlvPrompt

ASSUME SlvAssumption ==
  /\ FIFO_SIZE \in Nat \ {0} /\ {TX_TL, RX_TL} \subseteq 0 .. FIFO_SIZE - 1
  /\ SlvLens \subseteq Nat \ {0} /\ SlvMaxBytes \in Nat
  /\ SlvPrompt \in BOOLEAN

VARIABLES
  slvBus,      \* "free", "write", "read", "wait" for data, "last" byte read,
               \* or in use by "others"
  slvSeg,      \* ghost: bytes written in the transfer, or in the last one
  slvOver,     \* ghost: one of them was lost
  slvOut,      \* ghost: what the master has read in the transfer
  slvOn,       \* the controller is enabled
  slvRxFifo, slvTxFifo,
  slvRaised,   \* interrupts raised and not cleared
  slvTxEmpty,  \* TX_EMPTY is unmasked
  slvXfer,     \* the client's stop and buffer length
  slvRx,       \* what its buffer holds; its length is i2c_read_pos
  slvWritePos, \* i2c_write_pos
  slvGiven,    \* ghost: bytes of the client given to the FIFO since the START
  slvOngoing,  \* transfer_ongoing
  slvFirst,    \* first_start
  slvAddressed,\* is_addressed
  slvMsg,      \* ghost: full buffers the client was told of since the START
  slvPc, slvSnap, \* where the handler is, ic_intr_stat
  slvStale     \* the transfer it works with is no longer the client's

slvLine == <<slvBus, slvSeg, slvOver, slvOut>>
slvFifos == <<slvRxFifo, slvTxFifo>>
slvCallee == <<slvXfer, slvRx, slvWritePos, slvGiven, slvOngoing, slvMsg>>
slvFlags == <<slvFirst, slvAddressed>>
slvIsr == <<slvPc, slvSnap, slvStale>>
slvVars == <<slvLine, slvOn, slvFifos, slvRaised, slvTxEmpty, slvCallee,
             slvFlags, slvIsr>>

SlvTransfers == [stop : BOOLEAN, len : SlvLens]

\* qm_i2c_slave_irq_transfer: 0 bytes done, nothing going on.
SlvInit ==
  /\ slvBus = "free" /\ slvSeg = 0 /\ slvOver = FALSE /\ slvOut = <<>>
  /\ slvOn = TRUE /\ slvRxFifo = <<>> /\ slvTxFifo = <<>>
  /\ slvRaised = {} /\ slvTxEmpty = FALSE
  /\ slvXfer \in SlvTransfers
  /\ slvRx = <<>> /\ slvWritePos = 0 /\ slvGiven = 0 /\ slvOngoing = FALSE
  /\ slvFirst = TRUE /\ slvAddressed = FALSE /\ slvMsg = <<>>
  /\ slvPc = "idle" /\ slvSnap = {} /\ slvStale = FALSE

\* ic_intr_stat: what was raised, and the levels of the FIFOs.
IntrStat(raised, rx, tx) ==
  raised \cup (IF Len(rx) > RX_TL THEN {"RX_FULL"} ELSE {})
         \cup (IF slvTxEmpty /\ Len(tx) <= TX_TL THEN {"TX_EMPTY"} ELSE {})

-----------------------------------------------------------------------------
(* The bus.                                                                *)

\* An address goes over the bus after a START, and only then data; but a STOP
\* may follow the last byte, and a START the STOP, at once.
Addressed == SlvPrompt => "START" \notin slvRaised
InTime == SlvPrompt => slvRaised \cap {"START", "STOP", "RX_DONE"} = {}

\* A START, or a RESTART within a transfer.
BusStart ==
  /\ slvOn /\ slvBus \in {"free", "write", "last", "others"} /\ Addressed
  /\ slvBus' \in {"write", "read", "others"}
  /\ slvRaised' = slvRaised \cup {"START"}
  /\ slvOut' = <<>>
  /\ UNCHANGED <<slvSeg, slvOver, slvFifos>>

\* How many bytes of a write there are: 0 again once the client has been told.
BusWrite ==
  /\ slvOn /\ slvBus = "write" /\ InTime /\ slvSeg < SlvMaxBytes
  /\ slvSeg' = slvSeg + 1
  /\ IF Len(slvRxFifo) < FIFO_SIZE
     THEN /\ slvRxFifo' = Append(slvRxFifo, slvSeg')
          /\ UNCHANGED <<slvOver, slvRaised>>
     ELSE /\ slvOver' = TRUE /\ slvRaised' = slvRaised \cup {"RX_OVER"}
          /\ UNCHANGED slvRxFifo
  /\ UNCHANGED <<slvBus, slvOut, slvTxFifo>>

\* The clock is held until there is something to send.
BusAsk ==
  /\ slvOn /\ slvBus = "read" /\ InTime /\ slvTxFifo = <<>>
  /\ slvBus' = "wait" /\ slvRaised' = slvRaised \cup {"RD_REQ"}
  /\ UNCHANGED <<slvSeg, slvOver, slvOut, slvFifos>>

\* With the last byte what is left in the FIFO is flushed.
BusTake ==
  /\ slvOn /\ slvBus \in {"read", "wait"} /\ InTime /\ slvTxFifo # <<>>
  /\ slvOut' = Append(slvOut, Head(slvTxFifo))
  /\ \/ /\ slvBus' = "last" /\ slvTxFifo' = <<>>
        /\ slvRaised' = slvRaised \cup {"RX_DONE", "TX_ABRT"}
     \/ /\ Len(slvOut') < SlvMaxBytes
        /\ slvBus' = "read" /\ slvTxFifo' = Tail(slvTxFifo)
        /\ UNCHANGED slvRaised
  /\ UNCHANGED <<slvSeg, slvOver, slvRxFifo>>

\* stop_detect_behaviour decides whether the slave hears of others' STOPs.
BusStop ==
  /\ slvBus \in {"write", "last", "others"} /\ Addressed
  /\ slvBus' = "free"
  /\ \/ slvOn /\ slvRaised' = slvRaised \cup {"STOP"}
     \/ (slvBus = "others" \/ ~slvOn) /\ UNCHANGED slvRaised
  /\ UNCHANGED <<slvSeg, slvOver, slvOut, slvFifos>>

SlvBus ==
  /\ BusStart \/ BusWrite \/ BusAsk \/ BusTake \/ BusStop
  /\ UNCHANGED <<slvOn, slvTxEmpty, slvCallee, slvFlags, slvIsr>>

-----------------------------------------------------------------------------
(* The handler.                                                            *)

SlvEnter ==
  /\ slvPc = "idle" /\ IntrStat(slvRaised, slvRxFifo, slvTxFifo) # {}
  /\ slvPc' = "stop"
  /\ slvSnap' = IntrStat(slvRaised, slvRxFifo, slvTxFifo)
  /\ slvStale' = FALSE
  /\ UNCHANGED <<slvLine, slvOn, slvFifos, slvRaised, slvTxEmpty, slvCallee,
                 slvFlags>>

SlvGoto(from, to) ==
  /\ slvPc = from /\ slvPc' = to
  /\ UNCHANGED <<slvLine, slvOn, slvFifos, slvRaised, slvTxEmpty, slvCallee,
                 slvFlags, slvSnap, slvStale>>

\* Told that its buffer is full or used up, the client changes its
\* qm_i2c_transfer_t, or gives another, of which the handler learns when it is
\* next entered; or it does neither, which ends its part in the transfer.
SlvAskClient(rx, pos) ==
  \/ /\ slvOngoing' = TRUE /\ slvRx' = <<>> /\ slvWritePos' = 0
     /\ slvStale' \in {slvStale, TRUE}
  \/ /\ slvOngoing' = FALSE /\ slvRx' = rx /\ slvWritePos' = pos
     /\ UNCHANGED slvStale

Draining == {"drainStop", "drainStart", "drainRx"}

\* A byte that went to a structure the client has given up.
Astray == 0

\* empty_rx_fifo, one byte.  What goes astray is missing from the client's buffer.
SlvDrain ==
  /\ slvPc \in Draining /\ slvRxFifo # <<>>
  /\ slvRxFifo' = Tail(slvRxFifo)
  /\ LET rx == Append(slvRx, IF slvStale THEN Astray ELSE Head(slvRxFifo))
     IN IF ~slvOngoing
        THEN UNCHANGED <<slvOngoing, slvRx, slvWritePos, slvStale, slvMsg>>
        ELSE IF Len(rx) = slvXfer.len
        THEN slvMsg' = slvMsg \o rx /\ SlvAskClient(rx, slvWritePos)
        ELSE /\ slvRx' = rx
             /\ UNCHANGED <<slvOngoing, slvWritePos, slvStale, slvMsg>>
  /\ UNCHANGED <<slvLine, slvOn, slvTxFifo, slvRaised, slvTxEmpty, slvXfer,
                 slvGiven, slvFlags, slvPc, slvSnap>>

Filling == {"fill", "fillReq"}

\* Mutant: the abort raised meanwhile is not looked for.
RoomOnly == Len(slvTxFifo) < FIFO_SIZE

MayFill == Len(slvTxFifo) < FIFO_SIZE /\ "TX_ABRT" \notin slvRaised

Dummy == <<"dummy", 0>>
Old == <<"old", 0>>   \* a byte of a structure the client has given up
Data(k) == <<"data", k>>

\* slave_fill_tx_fifo, one byte.
SlvFill ==
  /\ slvPc \in Filling /\ MayFill
  /\ IF slvOngoing
     THEN /\ slvTxFifo' = Append(slvTxFifo, IF slvStale THEN Old ELSE Data(slvGiven + 1))
          /\ slvGiven' = slvGiven + 1
          /\ IF slvWritePos + 1 = slvXfer.len
             THEN SlvAskClient(slvRx, slvWritePos + 1)
             ELSE /\ slvWritePos' = slvWritePos + 1
                  /\ UNCHANGED <<slvOngoing, slvRx, slvStale>>
     ELSE /\ slvTxFifo' = Append(slvTxFifo, Dummy)
          /\ UNCHANGED <<slvGiven, slvOngoing, slvRx, slvWritePos, slvStale>>
  /\ UNCHANGED <<slvLine, slvOn, slvRxFifo, slvRaised, slvTxEmpty, slvXfer,
                 slvMsg, slvFlags, slvPc, slvSnap>>

\* A STOP or START is reported with the bytes received since the last report.
SlvClose ==
  /\ slvRx' = <<>> /\ slvWritePos' = 0 /\ slvMsg' = <<>>
  /\ slvSeg' = 0 /\ slvOver' = FALSE

\* Mutant: the FIFO is left to RX_FULL.
StraightOn == "stopped"

AtStop == "drainStop"

SlvStopSeen == SlvGoto("stop", IF "STOP" \in slvSnap THEN AtStop ELSE "start")

\* The STOP: a single transfer ends here, if the slave knows it was addressed.
SlvStop ==
  /\ slvPc = "stopped"
  /\ slvOn' = (slvOn /\ ~(slvXfer.stop /\ (slvAddressed \/ slvRx # <<>>)))
  /\ IF slvOn' THEN UNCHANGED <<slvBus, slvFifos>>
     ELSE /\ slvRxFifo' = <<>> /\ slvTxFifo' = <<>>
          /\ slvBus' = IF slvBus = "free" THEN "free" ELSE "others"
  /\ SlvClose
  /\ slvTxEmpty' = FALSE /\ slvAddressed' = FALSE /\ slvFirst' = TRUE
  /\ slvRaised' = slvRaised \ {"STOP"}
  /\ slvSnap' = IntrStat(slvRaised', slvRxFifo', slvTxFifo') \ {"TX_EMPTY"}
  /\ slvPc' = "start"
  /\ UNCHANGED <<slvOut, slvXfer, slvGiven, slvOngoing, slvStale>>

\* After a STOP the FIFO can only hold bytes of the transfer that starts.
SlvStartSeen ==
  SlvGoto("start", IF "START" \notin slvSnap THEN "rx"
                   ELSE IF slvFirst THEN "started" ELSE "drainStart")

SlvStart ==
  /\ slvPc = "started" /\ slvPc' = "rx"
  /\ SlvClose
  /\ slvGiven' = 0 /\ slvOngoing' = TRUE
  /\ slvRaised' = slvRaised \ {"START"}
  /\ slvFirst' = FALSE
  /\ UNCHANGED <<slvBus, slvOut, slvOn, slvFifos, slvTxEmpty, slvXfer,
                 slvAddressed, slvSnap, slvStale>>

\* Mutant: the abort that comes with RX_DONE stays.
DoneOnly == {"RX_DONE"}

DoneClears == {"RX_DONE", "TX_ABRT"}

\* An overflow is reported; then the first of the conditions that holds.
SlvStatus ==
  /\ slvPc = "rx"
  /\ LET left == slvRaised \ (slvSnap \cap {"RX_OVER"})
     IN \/ /\ "RX_FULL" \in slvSnap
           /\ slvPc' = "drainRx" /\ slvRaised' = left
           /\ UNCHANGED <<slvTxEmpty, slvAddressed>>
        \/ /\ "RX_FULL" \notin slvSnap /\ "RD_REQ" \in slvSnap
           /\ slvPc' = "fillReq" /\ slvRaised' = left \ {"RD_REQ"}
           /\ slvAddressed' = TRUE
           /\ UNCHANGED slvTxEmpty
        \/ /\ slvSnap \cap {"RX_FULL", "RD_REQ"} = {} /\ "RX_DONE" \in slvSnap
           /\ slvPc' = "idle" /\ slvRaised' = left \ DoneClears
           /\ slvTxEmpty' = FALSE
           /\ UNCHANGED slvAddressed
        \/ /\ slvSnap \cap {"RX_FULL", "RD_REQ", "RX_DONE"} = {}
           /\ slvPc' = IF "TX_EMPTY" \in slvSnap THEN "fill" ELSE "idle"
           /\ slvRaised' = left
           /\ UNCHANGED <<slvTxEmpty, slvAddressed>>
  /\ UNCHANGED <<slvLine, slvOn, slvFifos, slvCallee, slvFirst, slvSnap,
                 slvStale>>

\* The end of a loop of the handler.
SlvLooped ==
  \/ /\ slvPc \in Draining /\ slvRxFifo = <<>>
     /\ slvPc' = CASE slvPc = "drainStop" -> "stopped"
                   [] slvPc = "drainStart" -> "started"
                   [] OTHER -> "idle"
     /\ slvAddressed' = (slvAddressed \/ slvPc = "drainRx")
     /\ UNCHANGED slvTxEmpty
  \/ /\ slvPc \in Filling /\ ~MayFill
     /\ slvPc' = "idle"
     /\ slvTxEmpty' = (slvTxEmpty \/ slvPc = "fillReq")
     /\ UNCHANGED slvAddressed

SlvHandler ==
  \/ SlvEnter \/ SlvStopSeen \/ SlvStop \/ SlvStartSeen \/ SlvStart
  \/ SlvStatus \/ SlvDrain \/ SlvFill
  \/ /\ SlvLooped
     /\ UNCHANGED <<slvLine, slvOn, slvFifos, slvRaised, slvCallee, slvFirst,
                    slvSnap, slvStale>>

\* The client starts another transfer after a single one.
SlvAgain ==
  /\ ~slvOn /\ slvPc = "idle" /\ slvBus = "free"
  /\ slvOn' = TRUE /\ slvRaised' = {} /\ slvTxEmpty' = FALSE
  /\ slvXfer' \in SlvTransfers
  /\ slvRx' = <<>> /\ slvWritePos' = 0 /\ slvGiven' = 0 /\ slvOngoing' = FALSE
  /\ slvFirst' = TRUE /\ slvAddressed' = FALSE /\ slvMsg' = <<>>
  /\ UNCHANGED <<slvLine, slvFifos, slvIsr>>

SlvNext == SlvBus \/ SlvHandler \/ SlvAgain

\* The master takes what it waits for, and interrupts are served.
SlvFairness == WF_slvVars(SlvBus) /\ WF_slvVars(SlvHandler)

SlvSpec == SlvInit /\ [][SlvNext]_slvVars /\ SlvFairness

-----------------------------------------------------------------------------
(* Properties.                                                             *)

SlvInterrupts == {"START", "STOP", "RX_OVER", "RX_FULL", "RD_REQ", "RX_DONE",
                  "TX_ABRT", "TX_EMPTY"}

\* The type invariant; neither FIFO nor the client's buffer holds too much.
SlvTypeOK ==
  /\ slvBus \in {"free", "write", "read", "wait", "last", "others"}
  /\ slvSeg \in 0 .. SlvMaxBytes
  /\ slvRxFifo \in Seq(1 .. SlvMaxBytes) /\ Len(slvRxFifo) <= FIFO_SIZE
  /\ slvTxFifo \in Seq({"data", "dummy", "old"} \X Nat)
  /\ Len(slvTxFifo) <= FIFO_SIZE /\ Len(slvOut) <= SlvMaxBytes
  /\ slvRaised \cup slvSnap \subseteq SlvInterrupts
  /\ slvXfer \in SlvTransfers
  /\ slvRx \in Seq(0 .. SlvMaxBytes) /\ Len(slvRx) <= slvXfer.len
  /\ slvWritePos \in 0 .. slvXfer.len /\ slvGiven \in Nat
  /\ {slvOver, slvOn, slvTxEmpty, slvOngoing, slvFirst, slvAddressed, slvStale}
       \subseteq BOOLEAN
  /\ slvPc \in {"idle", "stop", "stopped", "start", "started", "rx"}
               \cup Draining \cup Filling

\* The bytes of the master after its first k, but for those that went astray.
HoldsFrom(k, bytes) == \A i \in 1 .. Len(bytes) : bytes[i] \in {k + i, Astray}

\* What the client is told of by a START or STOP, with the buffers before it, is
\* one transfer of the master: all of it, or its beginning if the client wanted
\* no more, and nothing of the next one; unless the FIFO overflowed.  Of a client
\* that gives another structure meanwhile bytes may go astray, and only those.
SlaveReceives ==
  [][SlvStop \/ SlvStart =>
       LET told == slvMsg \o (IF slvOngoing THEN slvRx ELSE <<>>)
       IN \/ slvOver
          \/ HoldsFrom(0, told) /\ (slvOngoing => Len(told) = slvSeg)]_slvVars

\* The master reads the client's bytes from the first on, without a gap, and
\* dummies once the client has no more; what it left in the FIFO at the end of a
\* transfer never turns up in the next.  In place of some it may read bytes of the
\* structure of a client that gives another.
SlaveAnswers ==
  \E k \in 0 .. Len(slvOut) :
    \A i \in DOMAIN slvOut :
      slvOut[i] \in (IF i <= k THEN {Data(i), Old} ELSE {Dummy})

\* A master the clock is held from gets its byte.
SlaveServes == slvBus = "wait" ~> slvBus # "wait"

\* qm_i2c.h on stop: "Slave: stop at the end of transaction."
StopsAfterTransfer ==
  [][SlvStop /\ slvXfer.stop /\ slvSeg > 0 => ~slvOn']_slvVars
-----------------------------------------------------------------------------
(* The inductive invariant behind SlaveReceives and SlaveAnswers, for a    *)
(* prompt handler.                                                         *)

SlvItems == {"data", "dummy", "old"} \X Nat

\* The master reads, and the slave has seen the START of it.
SlvServing == slvOn /\ slvBus \in {"read", "wait"} /\ "START" \notin slvRaised

\* Somebody may fill the FIFO, or is told not to by TX_ABRT.
SlvMayServe == SlvServing \/ "RX_DONE" \in slvRaised

\* What the master has read and is going to: the client's bytes, then dummies
\* from when the client had no more.
SlvAnswer ==
  LET answer == slvOut \o slvTxFifo
  IN  /\ slvGiven <= Len(answer)
      /\ slvOngoing => slvGiven = Len(answer)
      /\ \A i \in 1 .. Len(answer) :
           answer[i] \in (IF i <= slvGiven THEN {Data(i), Old} ELSE {Dummy})

\* What is raised fits the bus, whose STOP and next START may be raised together.
SlvRaisedOK ==
  /\ "START" \in slvRaised => slvOut = <<>>
  /\ "STOP" \in slvRaised => slvBus = "free" \/ "START" \in slvRaised \/ ~slvOn
  /\ "TX_ABRT" \in slvRaised <=> "RX_DONE" \in slvRaised
  /\ "RX_DONE" \in slvRaised => slvTxFifo = <<>>
  /\ "RD_REQ" \in slvRaised => SlvMayServe
  /\ "TX_EMPTY" \notin slvRaised

BeforeStart == {"stop", "drainStop", "stopped", "start", "drainStart", "started"}

\* What the handler has seen is still raised until it clears it, and it does not
\* see a START and miss the STOP before, or a read that is over and not its RD_REQ.
SlvSnapOK ==
  /\ slvPc \in BeforeStart /\ "START" \in slvSnap => "START" \in slvRaised
  /\ slvPc = "stop" /\ {"START", "STOP"} \cap slvSnap # {} =>
       ("STOP" \in slvRaised <=> "STOP" \in slvSnap)
  /\ slvPc \in {"drainStop", "stopped"} => "STOP" \in slvRaised
  /\ slvPc \in {"start", "drainStart", "started"} /\ "START" \in slvSnap =>
       "STOP" \notin slvRaised
  /\ slvPc \in {"drainStart", "started"} => "START" \in slvSnap
  /\ slvPc \in BeforeStart \cup {"rx"} =>
       /\ "RX_DONE" \in slvSnap =>
            /\ "RX_DONE" \in slvRaised
            /\ "RD_REQ" \in slvRaised => "RD_REQ" \in slvSnap
       /\ "RD_REQ" \in slvSnap => "RD_REQ" \in slvRaised
       /\ "TX_EMPTY" \in slvSnap => SlvMayServe

\* The master writes, and the slave has seen the START of it.
SlvTaking == slvOn /\ slvBus = "write" /\ "START" \notin slvRaised

CountsFrom(k, bytes) == \A i \in 1 .. Len(bytes) : bytes[i] = k + i

\* What the client was told of, what is in its buffer and what is in the FIFO
\* follow each other, as long as the client wants more.
SlvFollow ==
  /\ HoldsFrom(0, slvMsg)
  /\ slvOngoing =>
       /\ HoldsFrom(Len(slvMsg), slvRx)
       /\ CountsFrom(Len(slvMsg) + Len(slvRx), slvRxFifo)
       /\ slvSeg = Len(slvMsg) + Len(slvRx) + Len(slvRxFifo)

\* They are what the master has written, unless the FIFO overflowed.
SlvReceived ==
  /\ slvSeg \in Nat /\ slvRxFifo \in Seq(Nat)
  /\ slvRx \in Seq(Nat) /\ slvMsg \in Seq(Nat)
  /\ slvFirst \/ ~slvOn \/ slvPc \in {"stopped", "started"} => slvRxFifo = <<>>
  /\ slvFirst => ~SlvTaking
  /\ SlvServing => slvSeg = 0 /\ ~slvOver
  /\ slvOver \/ SlvFollow

SlvInv ==
  /\ slvOut \in Seq(SlvItems) /\ slvTxFifo \in Seq(SlvItems) /\ slvGiven \in Nat
  /\ slvOn \in BOOLEAN /\ slvOngoing \in BOOLEAN /\ slvStale \in BOOLEAN
  /\ SlvRaisedOK /\ SlvSnapOK
  /\ slvTxEmpty \/ slvPc \in Filling => SlvMayServe
  /\ IF SlvServing THEN SlvAnswer ELSE slvTxFifo = <<>>
  /\ SlvReceived /\ SlaveAnswers
=============================================================================
