-------------------------------- MODULE Adc --------------------------------
(***************************************************************************)
(* The ADC of the Quark D2000 and its driver, qm_adc.c: conversions in     *)
(* continuous mode, calibrations and mode changes, whose ends share one    *)
(* handler with the FIFO's overflow; the handler looks at a copy of the    *)
(* interrupt status, and the ADC goes on converting meanwhile.             *)
(*                                                                         *)
(* A channel number is the set of its bits, a sample the channel it comes  *)
(* from and whether samples before it were lost.  The client has one       *)
(* operation under way at a time and gives callbacks; it starts none from  *)
(* a callback.  Sample window, resolution and the setting and reading of   *)
(* the calibration's value have no part in the control and are left out.   *)
(***************************************************************************)
EXTENDS Naturals, Sequences

CONSTANTS
  QM_ADC_FIFO_LEN,
  FIFO_INTERRUPT_THRESHOLD,
  AdcChannels,    \* bound: the channels, each the set of its number's bits
  AdcMaxChannels, \* bound: the length of a channel sequence
  AdcLens         \* bound: the values of samples_len

\* An overflow leaves a full FIFO behind a count of samples that has come round.
ASSUME AdcAssumption ==
  /\ FIFO_INTERRUPT_THRESHOLD \in Nat \ {0}
  /\ QM_ADC_FIFO_LEN = 2 * FIFO_INTERRUPT_THRESHOLD
  /\ AdcMaxChannels \in 1 .. QM_ADC_FIFO_LEN
  /\ AdcLens \subseteq Nat \ {0}

VARIABLES
  adcSeq,      \* the sequence table
  adcRuns,     \* the command that runs: "none", "single", "cont" or "cal"
  adcPos,      \* the entry of the table that is converted next
  adcTaken,    \* samples since the last interrupt for a continuous conversion
  adcLost,     \* a sample was lost since the conversion began
  adcFifo,
  adcStatus,   \* the interrupt status register: "FO", "CONT_CC", "CC"
  adcEnable,   \* the interrupt enable register
  adcMode,     \* the operating mode: "low" or "normal"
  adcModeTo,   \* the mode it changes to, or "none"
  adcXfer,     \* irq_xfer: the last transfer, or NoAdcXfer
  adcSamples,  \* what was copied of it; count is its length
  adcDummy,    \* dummy_conversion
  adcAt,       \* where the handler is
  adcSnap,     \* int_status, the handler's copy
  adcOp,       \* ghost: the operation under way, "none" once reported
  adcGot,      \* ghost: what the first report of the last transfer said
  adcData      \* ghost: for whom the callback_data of the last report was

adcTable == <<adcSeq, adcPos, adcTaken, adcLost>>
adcChip ==
  <<adcTable, adcRuns, adcFifo, adcStatus, adcEnable, adcMode, adcModeTo>>
adcDriver == <<adcXfer, adcSamples, adcDummy>>
adcIsr == <<adcAt, adcSnap>>
adcGhost == <<adcOp, adcGot, adcData>>
adcVars == <<adcChip, adcDriver, adcIsr, adcGhost>>

AdcSequences == UNION {[1 .. n -> AdcChannels] : n \in 1 .. AdcMaxChannels}
NoAdcXfer == [ch |-> <<>>, len |-> 0]
AdcTransfers == [ch : AdcSequences, len : AdcLens]

\* QM_ADC_CHAN_SEQ_MAX, the same as the length of the FIFO.
AdcSlots == 1 .. QM_ADC_FIFO_LEN
AdcSeqDefault == [ch |-> {}, last |-> TRUE]

AdcInit ==
  /\ adcSeq = [i \in AdcSlots |-> AdcSeqDefault]
  /\ adcRuns = "none" /\ adcPos = 1 /\ adcTaken = 0 /\ adcLost = FALSE
  /\ adcFifo = <<>> /\ adcStatus = {} /\ adcEnable = {}
  /\ adcMode = "low" /\ adcModeTo = "none"
  /\ adcXfer = NoAdcXfer /\ adcSamples = <<>> /\ adcDummy = FALSE
  /\ adcAt = "idle" /\ adcSnap = {}
  /\ adcOp = "none" /\ adcGot = "none" /\ adcData = "none"

-----------------------------------------------------------------------------
(* The ADC.                                                                *)

\* One more sample of a continuous conversion.
AdcSample ==
  /\ adcRuns = "cont"
  /\ adcPos' = IF adcSeq[adcPos].last THEN 1 ELSE adcPos + 1
  /\ LET round == adcTaken + 1 = FIFO_INTERRUPT_THRESHOLD
         full  == Len(adcFifo) = QM_ADC_FIFO_LEN
     IN /\ adcTaken' = IF round THEN 0 ELSE adcTaken + 1
        /\ adcFifo' =
             IF full THEN adcFifo
             ELSE Append(adcFifo, [ch |-> adcSeq[adcPos].ch, whole |-> ~adcLost])
        /\ adcLost' = (adcLost \/ full)
        /\ adcStatus' = adcStatus \cup (IF round THEN {"CONT_CC"} ELSE {})
                                  \cup (IF full THEN {"FO"} ELSE {})
  /\ UNCHANGED <<adcSeq, adcRuns, adcEnable, adcMode, adcModeTo>>

\* A single conversion leaves its samples in the FIFO.
AdcCommandDone ==
  /\ adcRuns \in {"single", "cal"}
  /\ adcRuns' = "none"
  /\ adcStatus' = adcStatus \cup {"CC"}
  /\ adcFifo' = IF adcRuns = "single"
                THEN <<[ch |-> adcSeq[1].ch, whole |-> TRUE]>> ELSE adcFifo
  /\ UNCHANGED <<adcTable, adcEnable, adcMode, adcModeTo>>

AdcHardware ==
  /\ AdcSample \/ AdcCommandDone
  /\ UNCHANGED <<adcDriver, adcIsr, adcGhost>>

-----------------------------------------------------------------------------
(* The functions of the driver.                                            *)

AdcFree == adcOp = "none" /\ adcAt = "idle"

AdcBegin(op) ==
  /\ adcOp' = op
  /\ adcGot' = IF op = "convert" THEN "none" ELSE adcGot
  /\ UNCHANGED adcData

\* The Last bit is cleared, the channel's bits are set, and none is cleared.
AdcSetupTable(ch) ==
  adcSeq' = [i \in AdcSlots |->
    IF i > Len(ch) THEN adcSeq[i]
    ELSE [ch |-> adcSeq[i].ch \cup ch[i], last |-> i = Len(ch)]]

AdcIrqConvert(x) ==
  /\ AdcFree /\ adcMode = "normal"
  /\ adcXfer' = x /\ adcSamples' = <<>> /\ adcFifo' = <<>>
  /\ AdcSetupTable(x.ch)
  /\ adcStatus' = {} /\ adcEnable' = {"FO", "CONT_CC"}
  /\ adcRuns' = "cont" /\ adcPos' = 1 /\ adcTaken' = 0 /\ adcLost' = FALSE
  /\ AdcBegin("convert")
  /\ UNCHANGED <<adcMode, adcModeTo, adcDummy, adcIsr>>

AdcIrqCalibrate ==
  /\ AdcFree /\ adcMode = "normal"
  /\ adcStatus' = adcStatus \ {"CC"} /\ adcEnable' = adcEnable \cup {"CC"}
  /\ adcRuns' = "cal"
  /\ AdcBegin("calibrate")
  /\ UNCHANGED <<adcTable, adcFifo, adcMode, adcModeTo, adcDriver, adcIsr>>

AdcIrqSetMode(mode) ==
  /\ AdcFree
  /\ adcModeTo' = mode
  /\ adcEnable' = adcEnable \cup (IF mode = "normal" THEN {"CC"} ELSE {})
  /\ AdcBegin("mode")
  /\ UNCHANGED <<adcTable, adcRuns, adcFifo, adcStatus, adcMode, adcDriver, adcIsr>>

\* seq0, four entries, goes back to its default.
AdcSeqZero ==
  adcSeq' = [i \in AdcSlots |-> IF i <= 4 THEN AdcSeqDefault ELSE adcSeq[i]]

\* The blocking functions, which hold the processor until the ADC is done.  A
\* command without QM_ADC_CMD_IE leaves no interrupt status.
AdcConvert(x) ==
  /\ AdcFree /\ adcMode = "normal" /\ x.len <= QM_ADC_FIFO_LEN
  /\ AdcSetupTable(x.ch)
  /\ adcFifo' = <<>>
  /\ UNCHANGED <<adcPos, adcTaken, adcLost, adcRuns, adcStatus, adcEnable, adcMode,
                 adcModeTo, adcDriver, adcIsr, adcGhost>>

AdcCalibrate ==
  /\ AdcFree /\ adcMode = "normal"
  /\ adcStatus' = adcStatus \ {"CC"}
  /\ UNCHANGED <<adcTable, adcRuns, adcFifo, adcEnable, adcMode, adcModeTo,
                 adcDriver, adcIsr, adcGhost>>

AdcSetMode(mode) ==
  /\ AdcFree
  /\ adcMode' = mode
  /\ IF mode = "normal"
     THEN AdcSeqZero /\ adcFifo' = <<>> /\ adcStatus' = adcStatus \ {"CC"}
     ELSE UNCHANGED <<adcSeq, adcFifo, adcStatus>>
  /\ UNCHANGED <<adcPos, adcTaken, adcLost, adcRuns, adcEnable, adcModeTo,
                 adcDriver, adcIsr, adcGhost>>

AdcClient ==
  \/ \E x \in AdcTransfers : AdcIrqConvert(x) \/ AdcConvert(x)
  \/ AdcIrqCalibrate \/ AdcCalibrate
  \/ \E mode \in {"low", "normal"} : AdcIrqSetMode(mode) \/ AdcSetMode(mode)

-----------------------------------------------------------------------------
(* The handlers.                                                           *)

\* Every callback gets the data of irq_xfer, which may not be set.
AdcReport(op, outcome) ==
  /\ adcData' = IF adcXfer = NoAdcXfer THEN "undefined" ELSE "convert"
  /\ adcOp' = IF op = adcOp THEN "none" ELSE adcOp
  /\ adcGot' = IF op = "convert" /\ adcOp = op THEN outcome ELSE adcGot

\* qm_adc_pwr_0_isr_handler: the mode has changed.
AdcPowerIsr ==
  /\ adcModeTo # "none" /\ adcAt = "idle"
  /\ adcMode' = adcModeTo /\ adcModeTo' = "none"
  /\ IF adcModeTo = "normal"
     THEN /\ AdcSeqZero
          /\ adcStatus' = adcStatus \ {"CC"}
          /\ adcDummy' = TRUE /\ adcRuns' = "single"
          /\ UNCHANGED adcGhost
     ELSE /\ AdcReport("mode", "done")
          /\ UNCHANGED <<adcSeq, adcStatus, adcDummy, adcRuns>>
  /\ UNCHANGED <<adcPos, adcTaken, adcLost, adcFifo, adcEnable, adcXfer,
                 adcSamples, adcIsr>>

\* qm_adc_isr_handler copies the status.
AdcIsrEnter ==
  /\ adcAt = "idle" /\ adcStatus \cap adcEnable # {}
  /\ adcAt' = "fo" /\ adcSnap' = adcStatus
  /\ UNCHANGED <<adcChip, adcDriver, adcGhost>>

AdcStop(outcome) ==
  /\ adcRuns' = "none" /\ adcEnable' = {}
  /\ AdcReport("convert", outcome)

\* Mutant: an overflow is seen only if nothing else has happened.
OnlyOverrun == adcSnap = {"FO"}

Overrun == "FO" \in adcSnap

AdcIsrOverrun ==
  /\ adcAt = "fo" /\ adcAt' = "cont"
  /\ IF Overrun THEN AdcStop("failed")
                         ELSE UNCHANGED <<adcRuns, adcEnable, adcGhost>>
  /\ UNCHANGED <<adcTable, adcFifo, adcStatus, adcMode, adcModeTo, adcDriver, adcSnap>>

AdcLeast(a, b) == IF a <= b THEN a ELSE b

\* samples_to_read, at the end of the handler's copying.
AdcToRead == AdcLeast(Len(adcFifo), adcXfer.len - Len(adcSamples))

AdcIsrSamples ==
  /\ adcAt = "cont" /\ adcAt' = "cc"
  /\ IF "CONT_CC" \in adcSnap
     THEN /\ adcStatus' = adcStatus \ {"CONT_CC"}
          /\ adcSamples' = adcSamples \o SubSeq(adcFifo, 1, AdcToRead)
          /\ adcFifo' = SubSeq(adcFifo, AdcToRead + 1, Len(adcFifo))
          /\ IF Len(adcSamples') = adcXfer.len
             THEN AdcStop("done")
             ELSE UNCHANGED <<adcRuns, adcEnable, adcGhost>>
     ELSE UNCHANGED <<adcStatus, adcSamples, adcFifo, adcRuns, adcEnable, adcGhost>>
  /\ UNCHANGED <<adcTable, adcMode, adcModeTo, adcXfer, adcDummy, adcSnap>>

\* The end of a calibration, or of the dummy conversion.
AdcIsrCommand ==
  /\ adcAt = "cc" /\ adcAt' = "idle" /\ adcSnap' = {}
  /\ IF "CC" \in adcSnap
     THEN /\ adcStatus' = adcStatus \ {"CC"} /\ adcEnable' = adcEnable \ {"CC"}
          /\ adcDummy' = FALSE
          /\ adcFifo' = IF adcDummy THEN <<>> ELSE adcFifo
          /\ AdcReport(IF adcDummy THEN "mode" ELSE "calibrate", "done")
     ELSE UNCHANGED <<adcStatus, adcEnable, adcDummy, adcFifo, adcGhost>>
  /\ UNCHANGED <<adcTable, adcRuns, adcMode, adcModeTo, adcXfer, adcSamples>>

AdcHandler ==
  AdcPowerIsr \/ AdcIsrEnter \/ AdcIsrOverrun \/ AdcIsrSamples \/ AdcIsrCommand

AdcNext == AdcHardware \/ AdcClient \/ AdcHandler

\* The ADC converts, and its interrupts are served.
AdcFairness == WF_adcVars(AdcHardware) /\ WF_adcVars(AdcHandler)

AdcSpec == AdcInit /\ [][AdcNext]_adcVars /\ AdcFairness

-----------------------------------------------------------------------------
(* Properties.                                                             *)

AdcSamplesOf == [ch : SUBSET UNION AdcChannels, whole : BOOLEAN]

\* The type invariant; what is copied fits the client's array.
AdcTypeOK ==
  /\ adcSeq \in [AdcSlots -> [ch : SUBSET UNION AdcChannels, last : BOOLEAN]]
  /\ adcRuns \in {"none", "single", "cont", "cal"}
  /\ adcPos \in AdcSlots /\ adcTaken \in 0 .. FIFO_INTERRUPT_THRESHOLD - 1
  /\ adcLost \in BOOLEAN /\ adcDummy \in BOOLEAN
  /\ adcFifo \in Seq(AdcSamplesOf) /\ Len(adcFifo) <= QM_ADC_FIFO_LEN
  /\ adcSamples \in Seq(AdcSamplesOf) /\ Len(adcSamples) <= adcXfer.len
  /\ adcStatus \cup adcEnable \cup adcSnap \subseteq {"FO", "CONT_CC", "CC"}
  /\ adcMode \in {"low", "normal"} /\ adcModeTo \in {"none", "low", "normal"}
  /\ adcXfer \in AdcTransfers \cup {NoAdcXfer}
  /\ adcAt \in {"idle", "fo", "cont", "cc"}
  /\ adcOp \in {"none", "convert", "calibrate", "mode"}
  /\ adcGot \in {"none", "done", "failed"}
  /\ adcData \in {"none", "undefined", "convert"}

\* A conversion reported as complete has every sample asked for, in the order of
\* conversion and without a gap, however late the handler comes: it looks for an
\* overflow first, and stops with an error.
AdcNoGaps ==
  adcGot = "done" =>
    /\ Len(adcSamples) = adcXfer.len
    /\ \A i \in DOMAIN adcSamples : adcSamples[i].whole

\* qm_adc.h: ch is the "Channel sequence array": those channels are converted, in
\* their order.
AdcChannelsAsAsked ==
  \A i \in DOMAIN adcSamples :
    adcSamples[i].ch = adcXfer.ch[((i - 1) % Len(adcXfer.ch)) + 1]

\* qm_adc.h: the callback of a calibration or a mode change gets "The callback
\* user data" given with it.
AdcOwnData ==
  [][adcOp # "none" /\ adcOp' = "none" => adcData' = adcOp]_adcVars

\* qm_adc.c, on an overflow: "Stop the transfer."  Nothing of a transfer that was
\* reported is copied later.
AdcStopped == [][adcOp # "convert" => adcSamples' \in {adcSamples, <<>>}]_adcVars
-----------------------------------------------------------------------------
(* The inductive invariant behind AdcNoGaps.                               *)

\* Of these samples none follows a lost one.
Whole(samples) == \A i \in DOMAIN samples : samples[i].whole

\* Which operation is under way, as the ADC and the driver have it.
AdcOperation ==
  /\ adcOp = "convert" <=> adcRuns = "cont"
  /\ adcModeTo # "none" => adcOp = "mode"
  /\ adcDummy => adcOp = "mode" /\ adcModeTo = "none"

\* A continuous conversion stays within the table.
AdcInTable ==
  adcRuns = "cont" => \E i \in AdcSlots : i >= adcPos /\ adcSeq[i].last

\* No sample is lost unless the status tells; one that is lost behind the copy the
\* handler took of it has left the FIFO full of samples that precede it.
AdcOverflowTold ==
  /\ "FO" \notin adcStatus => ~adcLost /\ Whole(adcFifo)
  /\ adcOp = "convert" /\ adcAt \in {"fo", "cont"} /\ "FO" \notin adcSnap
       => Whole(adcFifo) /\ (adcLost => Len(adcFifo) = QM_ADC_FIFO_LEN)
  /\ adcOp = "convert" /\ adcAt = "cont" => "FO" \notin adcSnap

\* What is copied of a conversion under way, or reported as complete.
AdcCopied ==
  /\ adcOp = "convert" => Whole(adcSamples)
  /\ adcGot = "done" => /\ adcOp # "convert" /\ Whole(adcSamples)
                        /\ Len(adcSamples) = adcXfer.len

AdcInv ==
  /\ AdcTypeOK /\ AdcOperation /\ AdcInTable /\ AdcOverflowTold /\ AdcCopied
=============================================================================
