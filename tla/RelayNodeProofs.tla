--------------------------- MODULE RelayNodeProofs ---------------------------
(***************************************************************************)
(* RelayInv is inductive, whatever other comparators the uninitialised     *)
(* configuration enables, and the safety properties of RelayNode follow.   *)
(***************************************************************************)
EXTENDS RelayNode, TLAPS

\* The state Radio_Init leaves behind satisfies the invariant.
LEMMA InitInv == ASSUME RelayInit PROVE RelayInv
<1>1. RelayTypeOK
  BY DEF RelayInit, RelayTypeOK, PCs, Sending, Modes, Packets
<1>2. ret = "none" <=> pc \notin Sending
  BY DEF RelayInit, Sending
<1> QED
  BY <1>1, <1>2 DEF RelayInit, RelayInv, ModeCacheSound

\* A mode change is written through the cache: what the radio is in
\* afterwards is what the driver believes, given that the cache was right.
LEMMA ModeSet ==
  ASSUME RelayInv, NEW m \in Modes, SetMode(m), pc \notin {"cad", "tx", "sent"}
  PROVE  radio' = m /\ cached' = m /\ fifo' \in Packets
BY DEF RelayInv, RelayTypeOK, ModeCacheSound, SetMode, ChangeMode, Modes, Packets

\* The same at the end of a detection or a transmission, where the cache may
\* be wrong, and where the mode asked for is another one.
LEMMA PutToSleep ==
  ASSUME RelayInv, SetMode("SLEEP"), pc \in {"cad", "sent"}
  PROVE  radio' = "SLEEP" /\ cached' = "SLEEP" /\ fifo' \in Packets
BY DEF RelayInv, RelayTypeOK, ModeCacheSound, SetMode, ChangeMode, Modes, Packets

\* Every step of sendData.
LEMMA SendDataInv == ASSUME RelayInv, SendData PROVE RelayInv'
<1>1. CASE CadStart
  BY <1>1 DEF CadStart, ChangeMode, RelayInv, RelayTypeOK, ModeCacheSound, PCs,
         Sending, Modes, Packets, Pins, Goto, chip, comps, relay, heard
<1>2. CASE CadBusy
  <2>1. radio' = "SLEEP" /\ cached' = "SLEEP" /\ fifo' \in Packets
    BY <1>2, PutToSleep DEF CadBusy, Goto
  <2> QED
    BY <1>2, <2>1 DEF CadBusy, RelayInv, RelayTypeOK, ModeCacheSound, PCs, Sending,
         Modes, Packets, Pins, Goto, chip, comps, relay, heard
<1>3. CASE CadClear
  <2>1. radio' = "SLEEP" /\ cached' = "SLEEP" /\ fifo' \in Packets
    BY <1>3, PutToSleep DEF CadClear, Goto
  <2> QED
    BY <1>3, <2>1 DEF CadClear, RelayInv, RelayTypeOK, ModeCacheSound, PCs,
         Sending, Modes, Packets, Pins, Goto, chip, comps, relay, heard
<1>4. CASE Listen
  <2>1. radio' = "RX" /\ cached' = "RX" /\ fifo' \in Packets
    BY <1>4, ModeSet DEF Listen, Goto, Modes
  <2> QED
    BY <1>4, <2>1 DEF Listen, RelayInv, RelayTypeOK, ModeCacheSound, PCs, Sending,
         Modes, Packets, Pins, Goto, chip, comps, relay, heard
<1>5. CASE StillBusy
  <2>1. radio' = "SLEEP" /\ cached' = "SLEEP" /\ fifo' \in Packets
    BY <1>5, ModeSet DEF StillBusy, Goto, Modes
  <2> QED
    BY <1>5, <2>1 DEF StillBusy, RelayInv, RelayTypeOK, ModeCacheSound, PCs,
         Sending, Modes, Packets, Pins, Goto, chip, comps, relay, heard
<1>6. CASE ChannelFree
  <2>1. radio' = "SLEEP" /\ cached' = "SLEEP" /\ fifo' \in Packets
    BY <1>6, ModeSet DEF ChannelFree, Goto, Modes
  <2> QED
    BY <1>6, <2>1 DEF ChannelFree, RelayInv, RelayTypeOK, ModeCacheSound, PCs,
         Sending, Modes, Packets, Pins, Goto, chip, comps, relay, heard
<1>7. CASE Fill
  BY <1>7 DEF Fill, ChangeMode, RelayInv, RelayTypeOK, ModeCacheSound, PCs,
         Sending, Modes, Packets, Pins, Goto, chip, comps, relay, heard
<1>8. CASE Key
  <2>1. radio' = "TX" /\ cached' = "TX" /\ fifo' \in Packets
    BY <1>8, ModeSet DEF Key, Goto, Modes
  <2> QED
    BY <1>8, <2>1 DEF Key, RelayInv, RelayTypeOK, ModeCacheSound, PCs, Sending,
         Modes, Packets, Pins, Goto, chip, comps, relay, heard
<1>9. CASE TxWait
  BY <1>9 DEF TxWait, ChangeMode, RelayInv, RelayTypeOK, ModeCacheSound, PCs,
         Sending, Modes, Packets, Pins, Goto, chip, comps, relay, heard
<1>10. CASE TxSleep
  <2>1. radio' = "SLEEP" /\ cached' = "SLEEP" /\ fifo' \in Packets
    BY <1>10, PutToSleep DEF TxSleep, Goto
  <2> QED
    BY <1>10, <2>1 DEF TxSleep, RelayInv, RelayTypeOK, ModeCacheSound, PCs,
         Sending, Modes, Packets, Pins, Goto, chip, comps, relay, heard
<1> QED
  BY <1>1, <1>2, <1>3, <1>4, <1>5, <1>6, <1>7, <1>8, <1>9, <1>10 DEF SendData

\* Every step of the task outside sendData.
LEMMA TaskInv == ASSUME RelayInv, Task PROVE RelayInv'
<1>1. CASE StartReceiving
  <2>1. radio' = "RX" /\ cached' = "RX" /\ fifo' \in Packets
    BY <1>1, ModeSet DEF StartReceiving, Goto, Modes
  <2>2. fresh' \in BOOLEAN
    BY <1>1, Zenon DEF StartReceiving
  <2> QED
    BY <1>1, <2>1, <2>2 DEF StartReceiving, RelayInv, RelayTypeOK, ModeCacheSound, PCs,
         Sending, Modes, Packets, Pins, Goto, chip, comps, relay, heard
<1>2. CASE Arm
  BY <1>2 DEF Arm, SendCall, RelayInv, RelayTypeOK, ModeCacheSound, PCs, Sending,
         Modes, Packets, Pins, Goto, chip, comps, relay, heard
<1>3. CASE Unmask
  <2>1. rxDone' \in BOOLEAN /\ crcErr' \in BOOLEAN /\ fresh' \in BOOLEAN
        /\ masked' \in BOOLEAN /\ pad' \in BOOLEAN
    BY <1>3, Zenon DEF Unmask, RelayInv, RelayTypeOK, comps, heard, chip
  <2> QED
    BY <1>3, <2>1 DEF Unmask, RelayInv, RelayTypeOK, ModeCacheSound, PCs,
         Sending, Modes, Packets, Pins, Goto, chip, comps, relay, heard
<1>4. CASE Halt
  BY <1>4 DEF Halt, SendCall, RelayInv, RelayTypeOK, ModeCacheSound, PCs, Sending,
         Modes, Packets, Pins, Goto, chip, comps, relay, heard
<1>5. CASE Disarm
  BY <1>5 DEF Disarm, SendCall, RelayInv, RelayTypeOK, ModeCacheSound, PCs,
         Sending, Modes, Packets, Pins, Goto, chip, comps, relay, heard
<1>6. CASE TouchLow
  BY <1>6 DEF TouchLow, SendCall, RelayInv, RelayTypeOK, ModeCacheSound, PCs,
         Sending, Modes, Packets, Pins, Goto, chip, comps, relay, heard
<1>7. CASE Touch
  BY <1>7 DEF Touch, SendCall, RelayInv, RelayTypeOK, ModeCacheSound, PCs, Sending,
         Modes, Packets, Pins, Goto, chip, comps, relay, heard
<1>8. CASE Standby
  <2>1. radio' = "STANDBY" /\ cached' = "STANDBY" /\ fifo' \in Packets
    BY <1>8, ModeSet DEF Standby, Goto, Modes
  <2> QED
    BY <1>8, <2>1 DEF Standby, RelayInv, RelayTypeOK, ModeCacheSound, PCs, Sending,
         Modes, Packets, Pins, Goto, chip, comps, relay, heard
<1>9. CASE NoMessage
  BY <1>9 DEF NoMessage, SendCall, RelayInv, RelayTypeOK, ModeCacheSound, PCs,
         Sending, Modes, Packets, Pins, Goto, chip, comps, relay, heard
<1>10. CASE Receive
  <2>1. rxDone' \in BOOLEAN /\ crcErr' \in BOOLEAN /\ fresh' \in BOOLEAN
        /\ masked' \in BOOLEAN /\ pad' \in BOOLEAN
    BY <1>10, Zenon DEF Receive, RelayInv, RelayTypeOK, comps, heard, chip
  <2> QED
    BY <1>10, <2>1 DEF Receive, RelayInv, RelayTypeOK, ModeCacheSound, PCs,
         Sending, Modes, Packets, Pins, Goto, chip, comps, relay, heard
<1>11. CASE CrcFailed
  <2>1. rxDone' \in BOOLEAN /\ crcErr' \in BOOLEAN /\ fresh' \in BOOLEAN
        /\ masked' \in BOOLEAN /\ pad' \in BOOLEAN
    BY <1>11, Zenon DEF CrcFailed, RelayInv, RelayTypeOK, comps, heard, chip
  <2> QED
    BY <1>11, <2>1 DEF CrcFailed, RelayInv, RelayTypeOK, ModeCacheSound, PCs,
         Sending, Modes, Packets, Pins, Goto, chip, comps, relay, heard
<1>12. CASE ReadFifo
  BY <1>12 DEF ReadFifo, SendCall, RelayInv, RelayTypeOK, ModeCacheSound, PCs,
         Sending, Modes, Packets, Pins, Goto, chip, comps, relay, heard
<1>13. CASE Obey
  BY <1>13 DEF Obey, SendCall, RelayInv, RelayTypeOK, ModeCacheSound, PCs, Sending,
         Modes, Packets, Pins, Goto, chip, comps, relay, heard
<1>14. CASE Ignore
  BY <1>14 DEF Ignore, SendCall, RelayInv, RelayTypeOK, ModeCacheSound, PCs,
         Sending, Modes, Packets, Pins, Goto, chip, comps, relay, heard
<1>15. CASE Apply
  BY <1>15 DEF Apply, SendCall, RelayInv, RelayTypeOK, ModeCacheSound, PCs,
         Sending, Modes, Packets, Pins, Goto, chip, comps, relay, heard
<1> QED
  BY <1>1, <1>2, <1>3, <1>4, <1>5, <1>6, <1>7, <1>8, <1>9, <1>10, <1>11,
         <1>12, <1>13, <1>14, <1>15, SendDataInv DEF Task

\* The interrupt, the radio's own steps, and the finger.
LEMMA AroundInv ==
  ASSUME RelayInv, Isr \/ PacketArrives \/ TxCompletes \/ CadCompletes \/ Finger
  PROVE  RelayInv'
<1>1. CASE Isr
  BY <1>1 DEF Isr, RelayInv, RelayTypeOK, ModeCacheSound, PCs, Sending, Modes,
         Packets, Pins, Goto, chip, comps, relay, heard
<1>2. CASE PacketArrives
  <2>1. rxDone' \in BOOLEAN /\ crcErr' \in BOOLEAN /\ fresh' \in BOOLEAN
        /\ masked' \in BOOLEAN /\ pad' \in BOOLEAN
    BY <1>2, Zenon DEF PacketArrives, RelayInv, RelayTypeOK, comps, heard, chip
  <2> QED
    BY <1>2, <2>1 DEF PacketArrives, RelayInv, RelayTypeOK, ModeCacheSound, PCs,
         Sending, Modes, Packets, Pins, Goto, chip, comps, relay, heard
<1>3. CASE TxCompletes
  BY <1>3 DEF TxCompletes, RelayInv, RelayTypeOK, ModeCacheSound, PCs, Sending,
         Modes, Packets, Pins, Goto, chip, comps, relay, heard
<1>4. CASE CadCompletes
  BY <1>4 DEF CadCompletes, RelayInv, RelayTypeOK, ModeCacheSound, PCs, Sending,
         Modes, Packets, Pins, Goto, chip, comps, relay, heard
<1>5. CASE Finger
  BY <1>5 DEF Finger, RelayInv, RelayTypeOK, ModeCacheSound, PCs, Sending, Modes,
         Packets, Pins, Goto, chip, comps, relay, heard
<1> QED
  BY <1>1, <1>2, <1>3, <1>4, <1>5

\* Every reachable state of the node satisfies the invariant, for any set of
\* comparators enabled by accident.
THEOREM RelayInvariance == RelaySpec => []RelayInv
<1>1. ASSUME RelayInv, [RelayNext]_relayVars PROVE RelayInv'
  <2>1. CASE RelayNext
    BY <1>1, <2>1, TaskInv, AroundInv DEF RelayNext
  <2>2. CASE UNCHANGED relayVars
    BY <1>1, <2>2 DEF relayVars, chip, comps, relay, heard, RelayInv, RelayTypeOK,
                      ModeCacheSound
  <2> QED
    BY <1>1, <2>1, <2>2
<1> QED
  BY InitInv, <1>1, PTL DEF RelaySpec

\* Every variable keeps its type.
THEOREM RelayTypeCorrect == RelaySpec => []RelayTypeOK
<1>1. RelayInv => RelayTypeOK
  BY DEF RelayInv
<1> QED
  BY <1>1, RelayInvariance, PTL

\* No mode change is ever skipped because of a stale cache.
THEOREM ModeCacheIsSound == RelaySpec => []ModeCacheSound
<1>1. RelayInv => ModeCacheSound
  BY DEF RelayInv
<1> QED
  BY <1>1, RelayInvariance, PTL

\* The node sleeps with the radio listening, RxDone on DIO0 and both pins enabled as
\* comparator inputs (whether they are masked is another matter, see PacketWakes).
THEOREM SleepsReadyToListen == RelaySpec => []SleepsListening
<1>1. RelayInv => SleepsListening
  BY DEF RelayInv, SleepsListening
<1> QED
  BY <1>1, RelayInvariance, PTL

\* The relay's state, output and acknowledgement agree in sleep.
THEOREM OutputsInAgreement == RelaySpec => []OutputsAgree
<1>1. RelayInv => OutputsAgree
  BY DEF RelayInv, OutputsAgree, Sending
<1> QED
  BY <1>1, RelayInvariance, PTL
==============================================================================
