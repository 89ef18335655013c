------------------------------ MODULE Mailbox ------------------------------
(***************************************************************************)
(* The mailbox between the two cores of the Quark SE, qm_mailbox_se.c.     *)
(* One core writes; the other reads, from the callback of the interrupt,   *)
(* from a task that the callback wakes, or by polling.  The registers are  *)
(* shared by both cores and accessed one word at a time.                   *)
(*                                                                         *)
(* A message is a payload and a control word.  Each channel has one        *)
(* writer, it is not locked, and a client in interrupt mode reads either   *)
(* in the callback or once it was called back.                             *)
(***************************************************************************)
EXTENDS Integers

CONSTANTS
  MboxChannels, \* an interval 0 .. NUM_MAILBOXES - 1
  MboxMessages  \* the messages, not containing -1

ASSUME MailboxAssumption == -1 \notin MboxMessages /\ MboxChannels \subseteq Nat

VARIABLES
  mboxSts,   \* ch_sts of each channel: "INT" and "STS"
  mboxCtrl,  \* its control word
  mboxData,  \* its payload
  mboxDev,   \* mailbox_devs: "interrupt", "polling" or "unused"
  mboxPut,   \* the writer: its place in qm_mbox_ch_write and its message
  mboxGet,   \* qm_mbox_ch_read, by the task and by the handler
  mboxIsr,   \* the handler: the channels it has still to look at
  mboxWoken, \* channels whose callback has woken the task
  mboxGot    \* ghost: the last message read of each channel

mboxVars == <<mboxSts, mboxCtrl, mboxData, mboxDev, mboxPut, mboxGet, mboxIsr,
              mboxWoken, mboxGot>>

NoMboxMessage == -1
MboxModes == {"interrupt", "polling", "unused"}
MboxReaders == {"task", "handler"}

TornMessage == -2

NotReading == [at |-> "none", ch |-> 0, ctrl |-> NoMboxMessage, data |-> NoMboxMessage]
Reading(c) == [at |-> "ctrl", ch |-> c, ctrl |-> NoMboxMessage, data |-> NoMboxMessage]

MboxInit ==
  /\ mboxSts = [c \in MboxChannels |-> {}]
  /\ mboxCtrl = [c \in MboxChannels |-> NoMboxMessage]
  /\ mboxData = [c \in MboxChannels |-> NoMboxMessage]
  /\ mboxDev = [c \in MboxChannels |-> "unused"]
  /\ mboxPut = [c \in MboxChannels |-> [at |-> "none", msg |-> NoMboxMessage]]
  /\ mboxGet = [r \in MboxReaders |-> NotReading]
  /\ mboxIsr = [run |-> FALSE, left |-> {}, called |-> FALSE]
  /\ mboxWoken = {}
  /\ mboxGot = [c \in MboxChannels |-> NoMboxMessage]

-----------------------------------------------------------------------------
(* The core that writes: qm_mbox_ch_write.                                 *)

\* Mutants: it is once it was read, or once its interrupt was served.
ConsumedRead(sts) == "STS" \notin sts
ConsumedServed(sts) == "INT" \notin sts

\* The previous message is consumed when neither bit is set.
Consumed(sts) == sts = {}

WriteCheck(c, m) ==
  /\ mboxPut[c].at = "none" /\ Consumed(mboxSts[c])
  /\ mboxPut' = [mboxPut EXCEPT ![c] = [at |-> "data", msg |-> m]]
  /\ UNCHANGED <<mboxSts, mboxCtrl, mboxData, mboxDev, mboxGet, mboxIsr, mboxWoken,
                 mboxGot>>

WriteData(c) ==
  /\ mboxPut[c].at = "data"
  /\ mboxData' = [mboxData EXCEPT ![c] = mboxPut[c].msg]
  /\ mboxPut' = [mboxPut EXCEPT ![c].at = "ctrl"]
  /\ UNCHANGED <<mboxSts, mboxCtrl, mboxDev, mboxGet, mboxIsr, mboxWoken, mboxGot>>

\* The control word triggers the interrupt and marks the channel full.
WriteCtrl(c) ==
  /\ mboxPut[c].at = "ctrl"
  /\ mboxCtrl' = [mboxCtrl EXCEPT ![c] = mboxPut[c].msg]
  /\ mboxSts' = [mboxSts EXCEPT ![c] = {"INT", "STS"}]
  /\ mboxPut' = [mboxPut EXCEPT ![c] = [at |-> "none", msg |-> NoMboxMessage]]
  /\ UNCHANGED <<mboxData, mboxDev, mboxGet, mboxIsr, mboxWoken, mboxGot>>

-----------------------------------------------------------------------------
(* The core that reads.                                                    *)

\* The channels whose interrupt reaches this core.
Routed(c) == mboxDev[c] = "interrupt" /\ "INT" \in mboxSts[c]

\* qm_mbox_ch_set_config.  An interrupt that is pending comes first, and the
\* task has read what it was woken for.
ChSetConfig(c, mode) ==
  /\ ~mboxIsr.run /\ mboxGet["task"].at = "none"
  /\ mboxDev[c] # mode /\ ~Routed(c) /\ c \notin mboxWoken
  /\ mboxDev' = [mboxDev EXCEPT ![c] = mode]
  /\ UNCHANGED <<mboxSts, mboxCtrl, mboxData, mboxPut, mboxGet, mboxIsr, mboxWoken,
                 mboxGot>>

\* What qm_mbox_ch_read finds before it copies: it refuses a channel that is
\* not this core's, and an empty one.
Readable(c) == mboxDev[c] # "unused" /\ "STS" \in mboxSts[c]

\* The task reads what it polls for, or was woken for.
TaskRead(c) ==
  /\ ~mboxIsr.run /\ mboxGet["task"].at = "none"
  /\ mboxDev[c] = "polling" \/ c \in mboxWoken
  /\ mboxGet' = [mboxGet EXCEPT !["task"] =
       IF Readable(c) THEN Reading(c) ELSE @]
  /\ mboxWoken' = mboxWoken \ {c}
  /\ UNCHANGED <<mboxSts, mboxCtrl, mboxData, mboxDev, mboxPut, mboxIsr, mboxGot>>

\* Only the handler runs while it runs.
MboxRuns(r) == mboxIsr.run <=> r = "handler"

CopyCtrl(r) ==
  LET g == mboxGet[r] IN
  /\ MboxRuns(r) /\ g.at = "ctrl"
  /\ mboxGet' = [mboxGet EXCEPT ![r].ctrl = mboxCtrl[g.ch], ![r].at = "data"]
  /\ UNCHANGED <<mboxSts, mboxCtrl, mboxData, mboxDev, mboxPut, mboxIsr, mboxWoken,
                 mboxGot>>

\* In polling mode nobody else clears the interrupt.
AfterData(c) == IF mboxDev[c] = "polling" THEN "int" ELSE "sts"

CopyData(r) ==
  LET g == mboxGet[r] IN
  /\ MboxRuns(r) /\ g.at = "data"
  /\ mboxGet' = [mboxGet EXCEPT ![r].data = mboxData[g.ch], ![r].at = AfterData(g.ch)]
  /\ UNCHANGED <<mboxSts, mboxCtrl, mboxData, mboxDev, mboxPut, mboxIsr, mboxWoken,
                 mboxGot>>

ClearInt(r) ==
  LET g == mboxGet[r] IN
  /\ MboxRuns(r) /\ g.at = "int"
  /\ mboxSts' = [mboxSts EXCEPT ![g.ch] = @ \ {"INT"}]
  /\ mboxGet' = [mboxGet EXCEPT ![r].at = "sts"]
  /\ UNCHANGED <<mboxCtrl, mboxData, mboxDev, mboxPut, mboxIsr, mboxWoken, mboxGot>>

\* The channel is free again; the message is what was copied, if it is whole.
ClearSts(r) ==
  LET g == mboxGet[r] IN
  /\ MboxRuns(r) /\ g.at = "sts"
  /\ mboxSts' = [mboxSts EXCEPT ![g.ch] = @ \ {"STS"}]
  /\ mboxGot' = [mboxGot EXCEPT ![g.ch] = IF g.ctrl = g.data THEN g.ctrl ELSE TornMessage]
  /\ mboxGet' = [mboxGet EXCEPT ![r] = NotReading]
  /\ UNCHANGED <<mboxCtrl, mboxData, mboxDev, mboxPut, mboxIsr, mboxWoken>>

-----------------------------------------------------------------------------
(* mailbox_isr_handler.                                                    *)

\* The status of all channels is read once.
IsrSnapshot ==
  /\ ~mboxIsr.run
  /\ \E c \in MboxChannels : Routed(c)
  /\ mboxIsr' = [run |-> TRUE, left |-> {c \in MboxChannels : Routed(c)}, called |-> FALSE]
  /\ UNCHANGED <<mboxSts, mboxCtrl, mboxData, mboxDev, mboxPut, mboxGet, mboxWoken,
                 mboxGot>>

\* The channels are looked at in their order.
IsrCurrent(c) == c \in mboxIsr.left /\ \A d \in mboxIsr.left : c <= d

\* The callback of the channel reads the message or wakes the task.
IsrCallback(c) ==
  /\ mboxIsr.run /\ IsrCurrent(c) /\ ~mboxIsr.called
  /\ mboxIsr' = [mboxIsr EXCEPT !.called = TRUE]
  /\ \/ /\ Readable(c)
        /\ mboxGet' = [mboxGet EXCEPT !["handler"] = Reading(c)]
        /\ UNCHANGED mboxWoken
     \/ /\ mboxWoken' = mboxWoken \cup {c}
        /\ UNCHANGED mboxGet
  /\ UNCHANGED <<mboxSts, mboxCtrl, mboxData, mboxDev, mboxPut, mboxGot>>

\* The interrupt is cleared after the callback.
IsrClear(c) ==
  /\ mboxIsr.run /\ IsrCurrent(c) /\ mboxIsr.called /\ mboxGet["handler"].at = "none"
  /\ mboxSts' = [mboxSts EXCEPT ![c] = @ \ {"INT"}]
  /\ mboxIsr' = [run |-> mboxIsr.left # {c}, left |-> mboxIsr.left \ {c}, called |-> FALSE]
  /\ UNCHANGED <<mboxCtrl, mboxData, mboxDev, mboxPut, mboxGet, mboxWoken, mboxGot>>

MboxRead(r) == CopyCtrl(r) \/ CopyData(r) \/ ClearInt(r) \/ ClearSts(r)

MboxHandler ==
  \/ IsrSnapshot
  \/ \E c \in MboxChannels : IsrCallback(c) \/ IsrClear(c)
  \/ MboxRead("handler")

MboxWriter(c) == WriteData(c) \/ WriteCtrl(c)

MboxNext ==
  \/ \E c \in MboxChannels :
       \/ \E m \in MboxMessages : WriteCheck(c, m)
       \/ MboxWriter(c)
       \/ \E mode \in MboxModes : ChSetConfig(c, mode)
       \/ TaskRead(c)
  \/ MboxRead("task")
  \/ MboxHandler

MboxSpec == MboxInit /\ [][MboxNext]_mboxVars

\* Both cores go on; between interrupts the task gets on with a read, and comes
\* back to each of its channels, however often it is interrupted or busy with
\* another.
MboxFairness ==
  /\ WF_mboxVars(MboxHandler)
  /\ SF_mboxVars(MboxRead("task"))
  /\ \A c \in MboxChannels : WF_mboxVars(MboxWriter(c)) /\ SF_mboxVars(TaskRead(c))

-----------------------------------------------------------------------------
(* Properties.                                                             *)

MboxTypeOK ==
  LET word == MboxMessages \cup {NoMboxMessage} IN
  /\ mboxSts \in [MboxChannels -> SUBSET {"INT", "STS"}]
  /\ mboxCtrl \in [MboxChannels -> word] /\ mboxData \in [MboxChannels -> word]
  /\ mboxDev \in [MboxChannels -> MboxModes]
  /\ mboxPut \in [MboxChannels -> [at : {"none", "data", "ctrl"}, msg : word]]
  /\ mboxGet \in [MboxReaders ->
       [at : {"none", "ctrl", "data", "int", "sts"}, ch : MboxChannels \cup {0},
        ctrl : word, data : word]]
  /\ mboxIsr \in [run : BOOLEAN, left : SUBSET MboxChannels, called : BOOLEAN]
  /\ mboxWoken \subseteq MboxChannels
  /\ mboxGot \in [MboxChannels -> word \cup {TornMessage}]

\* The message that waits in each channel.
Waiting ==
  [c \in MboxChannels |-> IF "STS" \in mboxSts[c] THEN mboxCtrl[c] ELSE NoMboxMessage]

Slots == INSTANCE MessageSlot WITH
  Channels <- MboxChannels, Messages <- MboxMessages, NoMessage <- NoMboxMessage,
  slot <- Waiting, got <- mboxGot

\* Between two cores that share the registers and take no lock, no message is
\* overwritten, read twice, or read half old and half new.
MboxImplements == Slots!Spec

\* A message that was sent is read unless its channel is given up: the flags
\* of the driver never lose the interrupt that announces it.
MboxDelivers ==
  \A c \in MboxChannels :
    "STS" \in mboxSts[c] ~> "STS" \notin mboxSts[c] \/ mboxDev[c] = "unused"
=============================================================================
