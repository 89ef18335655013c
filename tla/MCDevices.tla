------------------------------ MODULE MCDevices ------------------------------
(* Instances of the mailbox, the console, QDA's dialogue, the I2C and the      *)
(* SPI slave, the clock and the timers for TLC.  They share nothing, so that   *)
(* each behaviour is one of one of them, chosen at the start.                  *)
EXTENDS Console, Mailbox, Qda, I2cSlave, SpiSlave, Clock, Timers

VARIABLE device   \* the one that runs

devicesVars ==
  <<device, consoleVars, mboxVars, qdaVars, slvVars, spsVars,
    clockVars, timersVars>>

Devices ==
  {"console", "mailbox", "qda", "slave", "spi_slave", "clock", "timers"}

\* What is chosen at the start is chosen by the one that runs only.
DevicesInit ==
  /\ device \in Devices
  /\ ConsoleInit /\ MboxInit /\ QdaInit /\ SlvInit /\ SpsInit
  /\ ClockInit /\ TimersInit
  /\ device # "qda" => ~pinLow
  /\ device # "slave" => slvXfer = CHOOSE x \in SlvTransfers : TRUE
  /\ device # "timers" => timer = CHOOSE t \in TimerKinds : TRUE

RunConsole(A) ==
  /\ device = "console" /\ A
  /\ UNCHANGED <<device, mboxVars, qdaVars, slvVars, spsVars,
                 clockVars, timersVars>>
RunMailbox(A) ==
  /\ device = "mailbox" /\ A
  /\ UNCHANGED <<device, consoleVars, qdaVars, slvVars, spsVars,
                 clockVars, timersVars>>
RunQda(A) ==
  /\ device = "qda" /\ A
  /\ UNCHANGED <<device, consoleVars, mboxVars, slvVars, spsVars,
                 clockVars, timersVars>>
RunSlave(A) ==
  /\ device = "slave" /\ A
  /\ UNCHANGED <<device, consoleVars, mboxVars, qdaVars, spsVars,
                 clockVars, timersVars>>
RunSpiSlave(A) ==
  /\ device = "spi_slave" /\ A
  /\ UNCHANGED <<device, consoleVars, mboxVars, qdaVars, slvVars,
                 clockVars, timersVars>>
RunClock(A) ==
  /\ device = "clock" /\ A
  /\ UNCHANGED <<device, consoleVars, mboxVars, qdaVars, slvVars,
                 spsVars, timersVars>>
RunTimers(A) ==
  /\ device = "timers" /\ A
  /\ UNCHANGED <<device, consoleVars, mboxVars, qdaVars, slvVars,
                 spsVars, clockVars>>

DevicesNext ==
  \/ RunConsole(ConsoleNext) \/ RunMailbox(MboxNext)
  \/ RunQda(QdaNext) \/ RunSlave(SlvNext) \/ RunSpiSlave(SpsNext)
  \/ RunClock(ClockNext) \/ RunTimers(TimersNext)

\* The fairness of the one that runs: MboxFairness, that of QdaFairSpec or of
\* SpsSpec, or SlvFairness; the console waits for its user.
DevicesFairness ==
  /\ WF_devicesVars(
       \/ RunMailbox(MboxHandler) \/ RunQda(Device)
       \/ RunSlave(SlvBus) \/ RunSpiSlave(SpsMaster))
  /\ SF_devicesVars(RunMailbox(MboxRead("task")))
  /\ WF_devicesVars(
       \/ RunQda(Host) \/ RunSlave(SlvHandler) \/ RunSpiSlave(SpsHandler))
  /\ \A c \in MboxChannels :
       /\ WF_devicesVars(RunMailbox(MboxWriter(c)))
       /\ SF_devicesVars(RunMailbox(TaskRead(c)))

DevicesSpec == DevicesInit /\ [][DevicesNext]_devicesVars /\ DevicesFairness

\* The type invariants of those that have one.
DevicesTypeOK ==
  /\ ConsoleTypeOK /\ MboxTypeOK /\ QdaTypeOK /\ SlvTypeOK
  /\ ClockTypeOK /\ TimersTypeOK

\* DialogueEnds of Qda, where it is QDA's dialogue that runs.
QdaDialogueEnds == <>(device = "qda" => DialogueOver)

\* Someone waits for a slave: the I2C master its clock is held from, or the
\* client of an SPI transfer whose end was not reported.  One whose first buffer is
\* as long as the default threshold waits for ever (SpsEnds, which does not hold).
SlaveAwaited == slvBus = "wait" \/ (spsBusy /\ ~SpsUnreached)

\* No slave keeps its master or its client waiting for ever, whatever buffers an
\* SPI client goes on with, that first one apart.  (SlaveServes and SpsEnds in one.)
SlavesServe == SlaveAwaited ~> ~SlaveAwaited

MCCompletions == {<<1>>}
=============================================================================
