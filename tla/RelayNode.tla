------------------------------- MODULE RelayNode -------------------------------
(***************************************************************************)
(* The relay application: relay_app.c over the LoRa driver sx1272.c, the   *)
(* analog comparators and the deep sleep of the Quark D2000.               *)
(*                                                                         *)
(* One thread goes round task_RelayControl: listen, arm the comparators,   *)
(* sleep, read the touch pad, look for a packet, act on it.  Around it     *)
(* move the radio, which receives, ends a transmission and ends a channel  *)
(* activity detection (CAD) on its own, the user's finger, and the         *)
(* comparator interrupt, which masks the pins it reports.                  *)
(*                                                                         *)
(* A packet is what it says to this node: "on", "off" or nothing ("none",  *)
(* which is also a cleared FIFO).  Delays, power levels, the FIFO pointers *)
(* and the contents of acknowledgements beyond the state they report are   *)
(* left out.  The comparators are taken as level sensitive, under which    *)
(* fewer wake-ups are lost than if they latched edges.                     *)
(***************************************************************************)
EXTENDS Naturals, FiniteSets

CONSTANTS
  Aux   \* comparators other than those of DIO0 and the touch pad

ASSUME AuxAssumption == Aux \cap {"dio0", "touch"} = {}

VARIABLES
  pc,        \* where the thread is in task_RelayControl and sendData
  ret,       \* where sendData returns to
  radio,     \* the mode the radio is in
  cached,    \* currentMode: the mode the driver believes it is in
  map,       \* the event the radio shows on DIO0
  rxDone,    \* RxDone in RegIrqFlags
  crcErr,    \* PayloadCrcError in RegIrqFlags
  cad,       \* CadDone and CadDetected in RegIrqFlags
  fifo,      \* what the radio's FIFO holds
  msg,       \* task_RelayControl's buffer
  fresh,     \* ghost: msg was filled in this round, from a good packet
  pad,       \* the touch pad is being touched
  enabled,   \* cmp_en: the enabled comparators
  masked,    \* both pins are masked in the interrupt router
  stat,      \* device_data->relay_stat
  out,       \* the RELAY_OUT pin
  led,       \* the PIN_OUT pin
  acked      \* the state the last acknowledgement reported

chip == <<radio, map, rxDone, crcErr, cad, fifo>>
comps == <<enabled, masked>>
relay == <<stat, out, led, acked>>
heard == <<msg, fresh>>
relayVars == <<pc, ret, chip, cached, heard, pad, comps, relay>>

Modes == {"SLEEP", "STANDBY", "RX", "TX", "CAD"}
Packets == {"on", "off", "none"}
Pins == {"dio0", "touch"}

\* sendData, from the call to its return
Sending == {"send", "cad", "busy", "listen", "fill", "key", "tx", "sent"}
PCs == {"start", "arm", "unmask", "sleep", "halted", "woke", "touch",
        "standby", "recv", "crc", "act", "apply"} \cup Sending

\* main() after Radio_Init has listened to the noise for a random seed.
RelayInit ==
  /\ pc = "start" /\ ret = "none"
  /\ radio = "SLEEP" /\ cached = "SLEEP" /\ map = "TX"
  /\ rxDone \in BOOLEAN
  /\ crcErr \in {FALSE, rxDone}
  /\ cad = "none" /\ fifo = "none"
  /\ msg \in Packets /\ fresh = FALSE
  /\ pad \in BOOLEAN
  /\ enabled = {} /\ masked = TRUE
  /\ stat = 0 /\ out = 0 /\ led = 0 /\ acked = 0

-----------------------------------------------------------------------------
(* The driver.                                                             *)

\* Mutant: the mode is written and not remembered.
ForgetMode(m) ==
  /\ radio' = (IF cached = m THEN radio ELSE m)
  /\ UNCHANGED cached

\* setMode writes RegOpMode only when the cached mode differs.  Its wait for
\* DIO5 ends at once, as the one of TxWait does.
ChangeMode(m) ==
  /\ cached' = m
  /\ radio' = IF cached = m THEN radio ELSE m

\* A radio that goes to sleep loses its FIFO.
SetMode(m) ==
  /\ ChangeMode(m)
  /\ fifo' = IF radio' = "SLEEP" THEN "none" ELSE fifo

\* What DIO0 shows.  Nothing here reads it while it shows TxDone.
Dio0 == map = "RX" /\ rxDone

Goto(from, to) == pc = from /\ pc' = to

SendCall(back) == pc' = "send" /\ ret' = back

\* Mutant: the detection waits without having been started.
CadNotStarted ==
  /\ Goto("send", "cad")
  /\ SetMode("SLEEP")
  /\ UNCHANGED <<ret, map, rxDone, crcErr, cad, heard, pad, comps, relay>>

\* To sleep, which clears the FIFO, and from there to CAD.
CadStart ==
  /\ Goto("send", "cad")
  /\ ChangeMode("CAD") /\ fifo' = "none"
  /\ UNCHANGED <<ret, map, rxDone, crcErr, cad, heard, pad, comps, relay>>

\* The channel is busy: the LED comes on until it is free.
CadBusy ==
  /\ Goto("cad", "busy") /\ cad = "detected"
  /\ SetMode("SLEEP")
  /\ cad' = "none" /\ led' = 1
  /\ UNCHANGED <<ret, map, rxDone, crcErr, heard, pad, comps, stat, out, acked>>

CadClear ==
  /\ Goto("cad", "fill") /\ cad = "clear"
  /\ SetMode("SLEEP")
  /\ cad' = "none"
  /\ UNCHANGED <<ret, map, rxDone, crcErr, heard, pad, comps, relay>>

\* SX1272IsChannelFree: listen, then read the signal strength.
Listen ==
  /\ Goto("busy", "listen")
  /\ SetMode("RX")
  /\ UNCHANGED <<ret, map, rxDone, crcErr, cad, heard, pad, comps, relay>>

StillBusy ==
  /\ Goto("listen", "busy")
  /\ SetMode("SLEEP")
  /\ UNCHANGED <<ret, map, rxDone, crcErr, cad, heard, pad, comps, relay>>

\* Mutant: the LED stays on.
ChannelFreeLit ==
  /\ Goto("listen", "fill")
  /\ SetMode("SLEEP")
  /\ UNCHANGED <<ret, map, rxDone, crcErr, cad, heard, pad, comps, relay>>

ChannelFree ==
  /\ Goto("listen", "fill")
  /\ SetMode("SLEEP")
  /\ led' = 0
  /\ UNCHANGED <<ret, map, rxDone, crcErr, cad, heard, pad, comps,
                 stat, out, acked>>

\* The acknowledgement replaces whatever the FIFO held.
Fill ==
  /\ Goto("fill", "key")
  /\ ChangeMode("STANDBY")
  /\ map' = "TX" /\ fifo' = "none"
  /\ UNCHANGED <<ret, rxDone, crcErr, cad, heard, pad, comps, relay>>

Key ==
  /\ Goto("key", "tx")
  /\ SetMode("TX")
  /\ UNCHANGED <<ret, map, rxDone, crcErr, cad, heard, pad, comps, relay>>

\* The loop runs while qm_gpio_read_pin returns non-zero.  It returns zero
\* on success and puts the level elsewhere: the loop ends at once.
TxWait ==
  /\ Goto("tx", "sent")
  /\ UNCHANGED <<ret, chip, cached, heard, pad, comps, relay>>

TxSleep ==
  /\ pc = "sent" /\ pc' = ret
  /\ ret' = "none"
  /\ SetMode("SLEEP")
  /\ UNCHANGED <<map, rxDone, crcErr, cad, heard, pad, comps, relay>>

SendData == \/ CadStart \/ CadBusy \/ CadClear \/ Listen \/ StillBusy
            \/ ChannelFree \/ Fill \/ Key \/ TxWait \/ TxSleep

-----------------------------------------------------------------------------
(* task_RelayControl.                                                      *)

StartReceiving ==
  /\ Goto("start", "arm")
  /\ SetMode("RX")
  /\ fresh' = FALSE
  /\ UNCHANGED <<ret, map, rxDone, crcErr, cad, msg, pad, comps, relay>>

\* Mutant: DIO0 goes on showing TxDone.
ArmUnmapped ==
  /\ Goto("arm", "unmask")
  /\ \E others \in SUBSET Aux : enabled' = Pins \cup others
  /\ UNCHANGED <<ret, chip, cached, heard, pad, masked, relay>>

\* IntCompSet(IRQ_SET, RX_DONE) sets bits in an uninitialised structure: any
\* other comparator may be enabled with the two it asks for.
Arm ==
  /\ Goto("arm", "unmask")
  /\ map' = "RX"
  /\ \E others \in SUBSET Aux : enabled' = Pins \cup others
  /\ UNCHANGED <<ret, radio, rxDone, crcErr, cad, fifo, cached, heard, pad,
                 masked, relay>>

\* Mutant: the pins stay masked.
StayMasked ==
  /\ Goto("unmask", "sleep")
  /\ UNCHANGED <<ret, chip, cached, heard, pad, comps, relay>>

Unmask ==
  /\ Goto("unmask", "sleep")
  /\ masked' = FALSE
  /\ UNCHANGED <<ret, chip, cached, heard, pad, enabled, relay>>

\* qm_power_soc_deep_sleep, with interrupts enabled all the way to its HLT.
Halt ==
  /\ Goto("sleep", "halted")
  /\ UNCHANGED <<ret, chip, cached, heard, pad, comps, relay>>

\* A comparator that is enabled, not masked, and high.
Pending == \/ "dio0" \in enabled /\ Dio0 /\ ~masked
           \/ "touch" \in enabled /\ pad /\ ~masked
           \/ enabled \cap Aux # {}

\* The interrupt handler masks both pins, whichever comparator it was.
Isr ==
  /\ Pending
  /\ \/ pc = "sleep" /\ UNCHANGED pc
     \/ Goto("halted", "woke")
  /\ masked' = TRUE
  /\ UNCHANGED <<ret, chip, cached, heard, pad, enabled, relay>>

Disarm ==
  /\ Goto("woke", "touch")
  /\ map' = "RX" /\ enabled' = {}
  /\ UNCHANGED <<ret, radio, rxDone, crcErr, cad, fifo, cached, heard, pad,
                 masked, relay>>

\* Disarm has switched the pad's input buffer off: it may read low.
TouchLow ==
  /\ Goto("touch", "standby")
  /\ UNCHANGED <<ret, chip, cached, heard, pad, comps, relay>>

\* Mutant: the pad only ever counts up.
TouchCounts ==
  /\ pc = "touch" /\ pad
  /\ SendCall("standby")
  /\ stat' = stat + 1
  /\ out' = stat' /\ led' = stat' /\ acked' = stat'
  /\ UNCHANGED <<chip, cached, heard, pad, comps>>

Touch ==
  /\ pc = "touch" /\ pad
  /\ SendCall("standby")
  /\ stat' = 1 - stat
  /\ out' = stat' /\ led' = stat' /\ acked' = stat'
  /\ UNCHANGED <<chip, cached, heard, pad, comps>>

Standby ==
  /\ Goto("standby", "recv")
  /\ SetMode("STANDBY")
  /\ UNCHANGED <<ret, map, rxDone, crcErr, cad, heard, pad, comps, relay>>

NoMessage ==
  /\ Goto("recv", "start") /\ ~rxDone
  /\ UNCHANGED <<ret, chip, cached, heard, pad, comps, relay>>

Receive ==
  /\ Goto("recv", "crc") /\ rxDone
  /\ rxDone' = FALSE
  /\ UNCHANGED <<ret, radio, map, crcErr, cad, fifo, cached, heard, pad,
                 comps, relay>>

\* Mutant: the packet is read from a FIFO already cleared.
ReadCleared ==
  /\ Goto("crc", "act") /\ ~crcErr
  /\ msg' = "none" /\ fresh' = TRUE
  /\ UNCHANGED <<ret, chip, cached, pad, comps, relay>>

ReadFifo ==
  /\ Goto("crc", "act") /\ ~crcErr
  /\ msg' = fifo /\ fresh' = TRUE
  /\ UNCHANGED <<ret, chip, cached, pad, comps, relay>>

\* receiveMessage returns 0 here too, and msg keeps what the stack held: the
\* last round's message, or bytes that say nothing to this node.
CrcFailed ==
  /\ Goto("crc", "act") /\ crcErr
  /\ crcErr' = FALSE
  /\ msg' \in {msg, "none"}
  /\ UNCHANGED <<ret, radio, map, rxDone, cad, fifo, cached, fresh, pad,
                 comps, relay>>

Obey ==
  /\ pc = "act" /\ msg # "none"
  /\ SendCall("apply")
  /\ stat' = IF msg = "on" THEN 1 ELSE 0
  /\ acked' = stat'
  /\ UNCHANGED <<chip, cached, heard, pad, comps, out, led>>

Ignore ==
  /\ Goto("act", "start") /\ msg = "none"
  /\ UNCHANGED <<ret, chip, cached, heard, pad, comps, relay>>

\* Mutant: the relay follows only when it is switched on.
ApplyOn ==
  /\ Goto("apply", "start")
  /\ out' = (IF stat = 1 THEN 1 ELSE out) /\ led' = stat
  /\ UNCHANGED <<ret, chip, cached, heard, pad, comps, stat, acked>>

Apply ==
  /\ Goto("apply", "start")
  /\ out' = stat /\ led' = stat
  /\ UNCHANGED <<ret, chip, cached, heard, pad, comps, stat, acked>>

Task == \/ StartReceiving \/ Arm \/ Unmask \/ Halt \/ Disarm \/ TouchLow
        \/ Touch \/ Standby \/ NoMessage \/ Receive \/ CrcFailed \/ ReadFifo
        \/ Obey \/ Ignore \/ Apply \/ SendData

-----------------------------------------------------------------------------
(* The radio and the user.                                                 *)

\* A packet ends; one with a bad checksum leaves garbage in the FIFO.
PacketArrives ==
  /\ radio = "RX"
  /\ rxDone' = TRUE
  /\ \/ fifo' \in Packets /\ UNCHANGED crcErr
     \/ fifo' = "none" /\ crcErr' = TRUE
  /\ UNCHANGED <<pc, ret, radio, map, cad, cached, heard, pad, comps, relay>>

\* The radio leaves TX and CAD for standby by itself.
TxCompletes ==
  /\ radio = "TX" /\ radio' = "STANDBY"
  /\ UNCHANGED <<pc, ret, map, rxDone, crcErr, cad, fifo, cached, heard, pad,
                 comps, relay>>

CadCompletes ==
  /\ radio = "CAD" /\ radio' = "STANDBY"
  /\ cad' \in {"clear", "detected"}
  /\ UNCHANGED <<pc, ret, map, rxDone, crcErr, fifo, cached, heard, pad,
                 comps, relay>>

Finger ==
  /\ pad' = ~pad
  /\ UNCHANGED <<pc, ret, chip, cached, heard, comps, relay>>

RelayNext == Task \/ Isr \/ PacketArrives \/ TxCompletes \/ CadCompletes \/ Finger

RelaySpec == RelayInit /\ [][RelayNext]_relayVars

\* The processor and the radio keep going; the channel does not stay busy for
\* ever.  Nothing is assumed of the user, of packets, or of the other
\* comparators, which wake the processor only if they happen to.
RelayFairness ==
  /\ WF_relayVars(Task)
  /\ WF_relayVars(Isr /\ (Dio0 \/ pad) /\ ~masked)
  /\ WF_relayVars(CadCompletes)
  /\ SF_relayVars(ChannelFree)

RelayFairSpec == RelaySpec /\ RelayFairness

-----------------------------------------------------------------------------
(* Properties.                                                             *)

RelayTypeOK ==
  /\ pc \in PCs /\ ret \in {"none", "standby", "apply"}
  /\ radio \in Modes /\ cached \in Modes /\ map \in {"RX", "TX"}
  /\ rxDone \in BOOLEAN /\ crcErr \in BOOLEAN
  /\ cad \in {"none", "clear", "detected"}
  /\ fifo \in Packets /\ msg \in Packets
  /\ fresh \in BOOLEAN /\ pad \in BOOLEAN /\ masked \in BOOLEAN
  /\ enabled \in SUBSET (Pins \cup Aux)
  /\ stat \in {0, 1} /\ out \in {0, 1} /\ led \in {0, 1} /\ acked \in {0, 1}

\* setMode does nothing when the cached mode is the one asked for, and the
\* radio leaves TX and CAD by itself.  The cache is wrong only about those
\* two, and only until sendData has put the radio to sleep: no mode change
\* is ever skipped.
ModeCacheSound ==
  \/ cached = radio
  \/ radio = "STANDBY" /\ cached = "CAD" /\ pc = "cad"
  \/ radio = "STANDBY" /\ cached = "TX" /\ pc \in {"tx", "sent"}

\* However the last round ended, the node goes to sleep with the radio listening, a
\* received packet shown on DIO0, and both pins enabled as comparator inputs.  It may
\* still be deaf: an interrupt taken between the unmasking and the HLT masks both
\* pins (PacketWakes, below, which does not hold).
SleepsListening ==
  pc \in {"sleep", "halted"} =>
    radio = "RX" /\ cached = "RX" /\ map = "RX" /\ Pins \subseteq enabled

\* relay_stat, the relay's output and the last acknowledgement are written at
\* four places on either side of sendData, and agree whenever the node sleeps.
\* sendData also borrows the LED to show a busy channel: it may leave it dark
\* while the relay is on, but never lit while the relay is off.
OutputsAgree ==
  /\ pc \in {"sleep", "halted"} => out = stat /\ acked = stat
  /\ pc = "halted" /\ led = 1 => stat = 1

\* The invariant the proofs use: what each part of a round may rely on.  The
\* relay's output lags relay_stat only while an obeyed command is being
\* acknowledged; the LED is lit over a relay that is off only then, and
\* while the channel is busy.
RelayInv ==
  /\ RelayTypeOK
  /\ ModeCacheSound
  /\ cached = "CAD" => pc = "cad"
  /\ cached = "TX" => pc \in {"tx", "sent"}
  /\ pc \in {"arm", "unmask", "sleep", "halted"} => radio = "RX" /\ cached = "RX"
  /\ pc \in {"unmask", "sleep", "halted"} => map = "RX" /\ Pins \subseteq enabled
  /\ ret = "none" <=> pc \notin Sending
  /\ acked = stat
  /\ out = stat \/ ret = "apply" \/ pc = "apply"
  /\ led = 1 => stat = 1 \/ ret = "apply" \/ pc \in {"apply", "busy", "listen"}

\* Every round ends in sleep: the loops of sendData and of the detector end.
RoundEnds == pc = "woke" ~> pc = "halted"

\* A node asleep with its pins unmasked that receives a good "on" command
\* switches on, unless something else takes the FIFO first: the
\* acknowledgement of a touch, or another packet.
CommandObeyed ==
  (pc = "halted" /\ ~masked /\ rxDone /\ ~crcErr /\ fifo = "on")
    ~> (stat = 1 \/ fifo # "on" \/ crcErr)

\* sx1272.c:271 has sendData leave the loop with the message sent.
SentBeforeSleep == pc = "sent" => radio # "TX"

\* sx1272.c:166 calls a packet that fails the check a failed message: it
\* switches nothing.
FailedPacketIgnored == ret = "apply" => fresh

\* relay_app.c:42 sleeps until a comparator wakes it: a received packet does.
PacketWakes == (pc = "halted" /\ rxDone) ~> pc # "halted"
=============================================================================
