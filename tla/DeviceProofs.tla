----------------------------- MODULE DeviceProofs -----------------------------
(***************************************************************************)
(* Six drivers that have to keep in step with their device.  Each has an   *)
(* inductive invariant, at the end of its own module or, for the mailbox,   *)
(* here, which says how far the driver may be behind the device, or what it *)
(* has still to do to it:                                                   *)
(*   - DmaInv: how many blocks have been moved, counted and reported;       *)
(*   - AdcInv: what is in the FIFO, and when an overflow has been told;     *)
(*   - TimersInv: in which order handlers call and clear, and why a channel *)
(*     is quiet while its callback and data are changed;                    *)
(*   - SlvInv: what is raised, what the handler has seen of it, and the     *)
(*     bytes on their way between the master and the client;                *)
(*   - ClockInv: where the register writes still to do lead;                *)
(*   - MboxInv: who may touch a channel of the mailbox.                     *)
(***************************************************************************)
EXTENDS Dma, Adc, Timers, I2cSlave, Clock, Mailbox, SequenceTheorems, TLAPS

\* Division with remainder.
LEMMA ModDef ==
  ASSUME NEW a \in Nat, NEW s \in Nat \ {0}
  PROVE  /\ a \div s \in Nat /\ a % s \in Nat /\ a % s < s
         /\ a = s * (a \div s) + (a % s)
OBVIOUS

\* The quotient and the remainder are the only ones.
LEMMA ModUnique ==
  ASSUME NEW s \in Nat \ {0}, NEW a \in Nat, NEW q \in Int, NEW r \in Nat,
         r < s, a = s * q + r
  PROVE  a % s = r
<1> DEFINE t == a \div s
           m == a % s
<1>1. t \in Nat /\ m \in Nat /\ m < s /\ a = s * t + m
  BY ModDef
<1>2. s * (q - t) = m - r
  BY <1>1, SMT
<1>3. CASE q - t >= 1
  <2>1. s * (q - t) >= s
    BY <1>1, <1>3, SMT
  <2> QED
    BY <1>1, <1>2, <2>1
<1>4. CASE q - t <= -1
  <2>1. s * (q - t) <= -s
    BY <1>1, <1>4, SMT
  <2> QED
    BY <1>1, <1>2, <2>1
<1>5. CASE q - t = 0
  BY <1>1, <1>2, <1>5
<1> QED
  BY <1>1, <1>3, <1>4, <1>5

\* What is less than the divisor is its own remainder.
LEMMA ModSmall ==
  ASSUME NEW s \in Nat \ {0}, NEW a \in Nat, a < s
  PROVE  a % s = a
<1>1. a = s * 0 + a
  OBVIOUS
<1> QED
  BY <1>1, ModUnique

\* A number is a multiple of itself.
LEMMA ModSelf ==
  ASSUME NEW s \in Nat \ {0}
  PROVE  s % s = 0 /\ 0 % s = 0
<1>1. s = s * 1 + 0 /\ 0 = s * 0 + 0
  OBVIOUS
<1> QED
  BY <1>1, ModUnique

\* One more buffer keeps a multiple one.
LEMMA ModPlus ==
  ASSUME NEW s \in Nat \ {0}, NEW a \in Nat, a % s = 0
  PROVE  (a + s) % s = 0
<1> DEFINE q == a \div s
<1>1. q \in Nat /\ a = s * q + 0
  BY ModDef
<1> HIDE DEF q
<1> DEFINE t == q + 1
           n == a + s
<1>2. n = s * t + 0 /\ t \in Int /\ n \in Nat
  BY <1>1, SMT
<1> HIDE DEF t, n
<1>3. n % s = 0
  BY <1>2, ModUnique
<1> QED
  BY <1>3 DEF n

\* What is less than s short of a multiple is one only if nothing is missing.
LEMMA ModShort ==
  ASSUME NEW s \in Nat \ {0}, NEW a \in Nat, NEW j \in Nat, j < s,
         (a + j) % s = 0
  PROVE  a % s = 0 <=> j = 0
<1>1. CASE a % s = 0
  <2> DEFINE q == a \div s
             n == a + j
  <2>1. q \in Nat /\ a = s * q + 0
    BY <1>1, ModDef
  <2> HIDE DEF q
  <2>2. n = s * q + j /\ n \in Nat
    BY <2>1
  <2> HIDE DEF n
  <2>3. n % s = j
    BY <2>1, <2>2, ModUnique
  <2> QED
    BY <1>1, <2>3 DEF n
<1>2. CASE a % s # 0
  BY <1>2
<1> QED
  BY <1>1, <1>2

\* The width of a block count, as far as the arithmetic needs it: MaxCount
\* stays unexpanded elsewhere.
LEMMA MaxCountIs == MaxCount \in Nat \ {0}
BY SMT DEF MaxCount

\* The 16-bit decrement of the handler, where it does not wrap around.
LEMMA DecrementIs ==
  ASSUME NEW n \in 1 .. MaxCount
  PROVE  Decrement(n) = n - 1
<1> DEFINE w == MaxCount + 1
           m == n - 1
<1>1. m \in Nat /\ m < w /\ w \in Nat \ {0}
  BY MaxCountIs
<1>2. Decrement(n) = m % w
  BY DEF Decrement
<1> HIDE DEF w, m
<1>3. m % w = m
  BY <1>1, ModSmall
<1> QED
  BY <1>2, <1>3 DEF m

\* It stays a count when it does wrap around.
LEMMA DecrementCount ==
  ASSUME NEW n \in 0 .. MaxCount
  PROVE  Decrement(n) \in 0 .. MaxCount
<1> DEFINE w == MaxCount + 1
           m == n - 1
<1>1. m \in Int /\ w \in Nat \ {0}
  BY MaxCountIs
<1>2. Decrement(n) = m % w
  BY DEF Decrement
<1> HIDE DEF w, m
<1>3. m % w \in 0 .. w - 1
  BY <1>1
<1>4. w - 1 = MaxCount
  BY MaxCountIs DEF w
<1> QED
  BY <1>2, <1>3, <1>4

-----------------------------------------------------------------------------
(* The DMA controller.                                                     *)

\* What the type of the state says of one channel.
LEMMA DmaFields ==
  ASSUME DmaTypeOK, NEW c \in DmaChannels
  PROVE  /\ dmaPrv[c].perBuffer \in 0 .. MaxCount
         /\ dmaPrv[c].pending \in 0 .. MaxCount
         /\ dmaPrv[c].perBuffer \in Nat /\ dmaPrv[c].pending \in Nat
         /\ dmaPrv[c].tail \in BOOLEAN /\ dmaPrv[c].circular \in BOOLEAN
         /\ dmaReg[c].chain \in BOOLEAN /\ dmaReg[c].reload \in BOOLEAN
         /\ dmaReg[c].llp \in BOOLEAN /\ dmaReg[c].en \in BOOLEAN
         /\ dmaRaw[c] \in SUBSET DmaInterrupts
         /\ dmaMask[c] \in SUBSET DmaInterrupts
         /\ dmaState[c] \in {"off", "configured", "set", "busy"}
         /\ dmaAsked[c].size \in Nat /\ dmaAsked[c].all \in Nat
         /\ dmaPos[c] \in Nat /\ dmaOwed[c] \in Int
<1>1. dmaPrv[c] \in DmaConfigs /\ dmaReg[c] \in DmaRegisters
  BY DEF DmaTypeOK
<1>2. dmaAsked[c] \in DmaRequests
  BY DEF DmaTypeOK
<1>3. /\ dmaRaw[c] \in SUBSET DmaInterrupts
      /\ dmaMask[c] \in SUBSET DmaInterrupts
      /\ dmaState[c] \in {"off", "configured", "set", "busy"}
      /\ dmaPos[c] \in Nat /\ dmaOwed[c] \in Int
  BY DEF DmaTypeOK, DmaStates
<1>4. /\ dmaPrv[c].perBuffer \in 0 .. MaxCount
      /\ dmaPrv[c].pending \in 0 .. MaxCount
      /\ dmaPrv[c].tail \in BOOLEAN /\ dmaPrv[c].circular \in BOOLEAN
  BY <1>1 DEF DmaConfigs
<1>5. /\ dmaReg[c].chain \in BOOLEAN /\ dmaReg[c].reload \in BOOLEAN
      /\ dmaReg[c].llp \in BOOLEAN /\ dmaReg[c].en \in BOOLEAN
  BY <1>1 DEF DmaRegisters
<1>6. dmaAsked[c].size \in Nat /\ dmaAsked[c].all \in Nat
  BY <1>2 DEF DmaRequests
<1> QED
  BY <1>3, <1>4, <1>5, <1>6, MaxCountIs

\* An action that leaves a channel alone leaves what is known of it.
LEMMA DmaFrame ==
  ASSUME NEW d \in DmaChannels, DmaChannelInv(d),
         dmaPrv'[d] = dmaPrv[d], dmaReg'[d] = dmaReg[d], dmaRaw'[d] = dmaRaw[d],
         dmaMask'[d] = dmaMask[d], dmaState'[d] = dmaState[d],
         dmaAsked'[d] = dmaAsked[d], dmaPos'[d] = dmaPos[d], dmaOwed'[d] = dmaOwed[d],
         d \in dmaUpset' <=> d \in dmaUpset
  PROVE  DmaChannelInv(d)'
<1>1. AtRest(d)' <=> AtRest(d)
  BY DEF AtRest
<1>2. Chained(d)' <=> Chained(d)
  BY DEF Chained
<1>3. CountsRight(d)' <=> CountsRight(d)
  BY DEF CountsRight
<1>4. Owes(d)' <=> Owes(d)
  BY DEF Owes
<1>5. LastRuns(d)' <=> LastRuns(d)
  BY DEF LastRuns
<1>6. BlockMoved(d)' = BlockMoved(d)
  BY DEF BlockMoved
<1>7. Reloads(d)' <=> Reloads(d)
  BY <1>6 DEF Reloads
<1>8. ChainRuns(d)' <=> ChainRuns(d)
  BY <1>2, <1>6 DEF ChainRuns
<1>9. Runs(d)' <=> Runs(d)
  BY <1>4, <1>5, <1>7, <1>8 DEF Runs
<1> QED
  BY <1>1, <1>2, <1>3, <1>9 DEF DmaChannelInv

DmaSame(d) ==
  /\ dmaPrv'[d] = dmaPrv[d] /\ dmaReg'[d] = dmaReg[d] /\ dmaRaw'[d] = dmaRaw[d]
  /\ dmaMask'[d] = dmaMask[d] /\ dmaState'[d] = dmaState[d]
  /\ dmaAsked'[d] = dmaAsked[d] /\ dmaPos'[d] = dmaPos[d]
  /\ dmaOwed'[d] = dmaOwed[d] /\ (d \in dmaUpset' <=> d \in dmaUpset)

\* What the calls of a client leave in the driver and in the registers of their
\* channel, the other channels being left alone: qm_dma_channel_set_config, ...
LEMMA ChannelSetConfigDoes ==
  ASSUME DmaTypeOK, NEW c \in DmaChannels, NEW type \in DmaTypes,
         ChannelSetConfig(c, type)
  PROVE  /\ DmaTypeOK' /\ \A d \in DmaChannels \ {c} : DmaSame(d)
         /\ dmaRaw'[c] = dmaRaw[c] /\ dmaMask'[c] = dmaMask[c]
         /\ dmaPos'[c] = dmaPos[c] /\ dmaOwed'[c] = dmaOwed[c]
         /\ dmaPrv'[c] = [perBuffer |-> 1, pending |-> dmaPrv[c].pending, tail |-> FALSE,
               circular |-> type = "MULTI_LL_CIRCULAR"]
         /\ dmaReg'[c] = [chain |-> type \in {"MULTI_LL", "MULTI_LL_CIRCULAR"},
               reload |-> type = "MULTI_CONT", llp |-> FALSE, en |-> dmaReg[c].en]
         /\ dmaState'[c] = "configured"
         /\ dmaAsked'[c] = NoBlocks /\ dmaUpset' = dmaUpset
<1> USE DEF ChannelSetConfig
<1>1. /\ dmaRaw' \in [DmaChannels -> SUBSET DmaInterrupts] /\ dmaRaw' = dmaRaw
      /\ dmaMask' \in [DmaChannels -> SUBSET DmaInterrupts]
      /\ dmaMask' = dmaMask
      /\ dmaPos' \in [DmaChannels -> Nat] /\ dmaPos' = dmaPos
      /\ dmaOwed' \in [DmaChannels -> Int] /\ dmaOwed' = dmaOwed
  BY DEF DmaTypeOK
<1>2. dmaPrv' \in [DmaChannels -> DmaConfigs]
  <2>1. [perBuffer |-> 1, pending |-> dmaPrv[c].pending, tail |-> FALSE,
          circular |-> type = "MULTI_LL_CIRCULAR"] \in DmaConfigs
    BY MaxCountIs DEF DmaTypeOK, DmaConfigs
  <2> QED
    BY <2>1 DEF DmaTypeOK
<1>3. dmaReg' \in [DmaChannels -> DmaRegisters]
  <2>1. [chain |-> type \in {"MULTI_LL", "MULTI_LL_CIRCULAR"},
          reload |-> type = "MULTI_CONT", llp |-> FALSE, en |-> dmaReg[c].en] \in DmaRegisters
    BY DEF DmaTypeOK, DmaRegisters
  <2> QED
    BY <2>1 DEF DmaTypeOK
<1>4. dmaState' \in [DmaChannels -> DmaStates]
  <2>1. "configured" \in DmaStates
    BY DEF DmaTypeOK, DmaStates
  <2> QED
    BY <2>1 DEF DmaTypeOK
<1>5. dmaAsked' \in [DmaChannels -> DmaRequests]
  <2>1. NoBlocks \in DmaRequests
    BY DEF DmaTypeOK, DmaRequests, NoBlocks
  <2> QED
    BY <2>1 DEF DmaTypeOK
<1>6. DmaTypeOK'
  BY <1>1, <1>2, <1>3, <1>4, <1>5 DEF DmaTypeOK
<1>7. \A d \in DmaChannels \ {c} : DmaSame(d)
  BY DEF DmaSame, DmaTypeOK
<1> QED
  BY <1>6, <1>7 DEF DmaTypeOK

\* ... qm_dma_transfer_set_config, ...
LEMMA TransferSetConfigDoes ==
  ASSUME DmaTypeOK, NEW c \in DmaChannels, TransferSetConfig(c)
  PROVE  /\ DmaTypeOK' /\ \A d \in DmaChannels \ {c} : DmaSame(d)
         /\ dmaPrv'[c] = dmaPrv[c] /\ dmaReg'[c] = dmaReg[c]
         /\ dmaRaw'[c] = dmaRaw[c] /\ dmaMask'[c] = dmaMask[c]
         /\ dmaPos'[c] = dmaPos[c] /\ dmaOwed'[c] = dmaOwed[c]
         /\ dmaState'[c] = "set"
         /\ dmaAsked'[c] = [size |-> 1, all |-> 1] /\ dmaUpset' = dmaUpset
<1> USE DEF TransferSetConfig
<1>1. /\ dmaPrv' \in [DmaChannels -> DmaConfigs] /\ dmaPrv' = dmaPrv
      /\ dmaReg' \in [DmaChannels -> DmaRegisters] /\ dmaReg' = dmaReg
      /\ dmaRaw' \in [DmaChannels -> SUBSET DmaInterrupts] /\ dmaRaw' = dmaRaw
      /\ dmaMask' \in [DmaChannels -> SUBSET DmaInterrupts]
      /\ dmaMask' = dmaMask
      /\ dmaPos' \in [DmaChannels -> Nat] /\ dmaPos' = dmaPos
      /\ dmaOwed' \in [DmaChannels -> Int] /\ dmaOwed' = dmaOwed
  BY DEF DmaTypeOK
<1>2. dmaState' \in [DmaChannels -> DmaStates]
  <2>1. "set" \in DmaStates
    BY DEF DmaTypeOK, DmaStates
  <2> QED
    BY <2>1 DEF DmaTypeOK
<1>3. dmaAsked' \in [DmaChannels -> DmaRequests]
  <2>1. [size |-> 1, all |-> 1] \in DmaRequests
    BY DEF DmaTypeOK, DmaRequests
  <2> QED
    BY <2>1 DEF DmaTypeOK
<1>4. DmaTypeOK'
  BY <1>1, <1>2, <1>3 DEF DmaTypeOK
<1>5. \A d \in DmaChannels \ {c} : DmaSame(d)
  BY DEF DmaSame, DmaTypeOK
<1> QED
  BY <1>4, <1>5 DEF DmaTypeOK

\* ... qm_dma_transfer_start, ...
LEMMA TransferStartDoes ==
  ASSUME DmaTypeOK, NEW c \in DmaChannels, TransferStart(c)
  PROVE  /\ DmaTypeOK' /\ \A d \in DmaChannels \ {c} : DmaSame(d)
         /\ dmaPrv'[c] = dmaPrv[c] /\ dmaAsked'[c] = dmaAsked[c]
         /\ dmaReg'[c] = [dmaReg[c] EXCEPT !.en = TRUE]
         /\ dmaRaw'[c] = {}
         /\ dmaMask'[c] = dmaMask[c] \cup UnmaskAtStart(c)
         /\ dmaState'[c] = "busy"
         /\ dmaPos'[c] = 0
         /\ dmaOwed'[c] = 0
         /\ c \in dmaUpset' <=> StartsUpset(c)
<1> USE DEF TransferStart
<1>1. /\ dmaPrv' \in [DmaChannels -> DmaConfigs] /\ dmaPrv' = dmaPrv
      /\ dmaAsked' \in [DmaChannels -> DmaRequests] /\ dmaAsked' = dmaAsked
  BY DEF DmaTypeOK
<1>2. dmaReg' \in [DmaChannels -> DmaRegisters]
  <2>1. [dmaReg[c] EXCEPT !.en = TRUE] \in DmaRegisters
    BY DEF DmaTypeOK, DmaRegisters
  <2> QED
    BY <2>1 DEF DmaTypeOK
<1>3. dmaRaw' \in [DmaChannels -> SUBSET DmaInterrupts]
  <2>1. {} \in SUBSET DmaInterrupts
    BY DEF DmaTypeOK, DmaInterrupts
  <2> QED
    BY <2>1 DEF DmaTypeOK
<1>4. dmaMask' \in [DmaChannels -> SUBSET DmaInterrupts]
  <2>1. dmaMask[c] \cup UnmaskAtStart(c) \in SUBSET DmaInterrupts
    BY DEF DmaTypeOK, DmaInterrupts, UnmaskAtStart
  <2> QED
    BY <2>1 DEF DmaTypeOK
<1>5. dmaState' \in [DmaChannels -> DmaStates]
  <2>1. "busy" \in DmaStates
    BY DEF DmaTypeOK, DmaStates
  <2> QED
    BY <2>1 DEF DmaTypeOK
<1>6. dmaPos' \in [DmaChannels -> Nat]
  <2>1. 0 \in Nat
    BY DEF DmaTypeOK
  <2> QED
    BY <2>1 DEF DmaTypeOK
<1>7. dmaOwed' \in [DmaChannels -> Int]
  <2>1. 0 \in Int
    BY DEF DmaTypeOK
  <2> QED
    BY <2>1 DEF DmaTypeOK
<1>8. DmaTypeOK'
  BY <1>1, <1>2, <1>3, <1>4, <1>5, <1>6, <1>7 DEF DmaTypeOK
<1>9. \A d \in DmaChannels \ {c} : DmaSame(d)
  BY DEF DmaSame, DmaTypeOK
<1> QED
  BY <1>8, <1>9 DEF DmaTypeOK

\* ... qm_dma_transfer_terminate.
LEMMA TransferTerminateDoes ==
  ASSUME DmaTypeOK, NEW c \in DmaChannels, TransferTerminate(c)
  PROVE  /\ DmaTypeOK' /\ \A d \in DmaChannels \ {c} : DmaSame(d)
         /\ dmaPrv'[c] = dmaPrv[c] /\ dmaRaw'[c] = dmaRaw[c]
         /\ dmaReg'[c] = [dmaReg[c] EXCEPT !.llp = FALSE, !.en = FALSE]
         /\ dmaMask'[c] = {}
         /\ dmaState'[c] = "configured"
         /\ dmaAsked'[c] = NoBlocks
         /\ dmaPos'[c] = 0
         /\ dmaOwed'[c] = 0
<1> USE DEF TransferTerminate
<1>1. /\ dmaPrv' \in [DmaChannels -> DmaConfigs] /\ dmaPrv' = dmaPrv
      /\ dmaRaw' \in [DmaChannels -> SUBSET DmaInterrupts] /\ dmaRaw' = dmaRaw
  BY DEF DmaTypeOK
<1>2. dmaReg' \in [DmaChannels -> DmaRegisters]
  <2>1. [dmaReg[c] EXCEPT !.llp = FALSE, !.en = FALSE] \in DmaRegisters
    BY DEF DmaTypeOK, DmaRegisters
  <2> QED
    BY <2>1 DEF DmaTypeOK
<1>3. dmaMask' \in [DmaChannels -> SUBSET DmaInterrupts]
  <2>1. {} \in SUBSET DmaInterrupts
    BY DEF DmaTypeOK, DmaInterrupts
  <2> QED
    BY <2>1 DEF DmaTypeOK
<1>4. dmaState' \in [DmaChannels -> DmaStates]
  <2>1. "configured" \in DmaStates
    BY DEF DmaTypeOK, DmaStates
  <2> QED
    BY <2>1 DEF DmaTypeOK
<1>5. dmaAsked' \in [DmaChannels -> DmaRequests]
  <2>1. NoBlocks \in DmaRequests
    BY DEF DmaTypeOK, DmaRequests, NoBlocks
  <2> QED
    BY <2>1 DEF DmaTypeOK
<1>6. dmaPos' \in [DmaChannels -> Nat]
  <2>1. 0 \in Nat
    BY DEF DmaTypeOK
  <2> QED
    BY <2>1 DEF DmaTypeOK
<1>7. dmaOwed' \in [DmaChannels -> Int]
  <2>1. 0 \in Int
    BY DEF DmaTypeOK
  <2> QED
    BY <2>1 DEF DmaTypeOK
<1>8. DmaTypeOK'
  BY <1>1, <1>2, <1>3, <1>4, <1>5, <1>6, <1>7 DEF DmaTypeOK
<1>9. \A d \in DmaChannels \ {c} : DmaSame(d)
  BY DEF DmaSame, DmaTypeOK
<1> QED
  BY <1>8, <1>9 DEF DmaTypeOK

\* What the handler does for a finished transfer, ...
LEMMA IsrTransferDoes ==
  ASSUME DmaTypeOK, NEW c \in DmaChannels, IsrTransfer(c)
  PROVE  /\ DmaTypeOK' /\ \A d \in DmaChannels \ {c} : DmaSame(d)
         /\ dmaPrv'[c] = dmaPrv[c]
         /\ dmaReg'[c] = [dmaReg[c] EXCEPT !.llp = FALSE]
         /\ dmaRaw'[c] = dmaRaw[c] \ {"TFR", "BLOCK"}
         /\ dmaMask'[c] = {}
         /\ dmaState'[c] = "configured"
         /\ dmaOwed'[c] = dmaOwed[c] - 1
         /\ c \notin dmaUpset' =>
              c \notin dmaUpset /\ "TFR" \in dmaRaw[c] /\ dmaPos'[c] = 0
<1> USE DEF IsrTransfer
<1>1. /\ dmaPrv' \in [DmaChannels -> DmaConfigs] /\ dmaPrv' = dmaPrv
  BY DEF DmaTypeOK
<1>2. dmaReg' \in [DmaChannels -> DmaRegisters]
  <2>1. [dmaReg[c] EXCEPT !.llp = FALSE] \in DmaRegisters
    BY DEF DmaTypeOK, DmaRegisters
  <2> QED
    BY <2>1 DEF DmaTypeOK
<1>3. dmaRaw' \in [DmaChannels -> SUBSET DmaInterrupts]
  <2>1. dmaRaw[c] \ {"TFR", "BLOCK"} \in SUBSET DmaInterrupts
    BY DEF DmaTypeOK, DmaInterrupts
  <2> QED
    BY <2>1 DEF DmaTypeOK
<1>4. dmaMask' \in [DmaChannels -> SUBSET DmaInterrupts]
  <2>1. {} \in SUBSET DmaInterrupts
    BY DEF DmaTypeOK, DmaInterrupts
  <2> QED
    BY <2>1 DEF DmaTypeOK
<1>5. dmaState' \in [DmaChannels -> DmaStates]
  <2>1. "configured" \in DmaStates
    BY DEF DmaTypeOK, DmaStates
  <2> QED
    BY <2>1 DEF DmaTypeOK
<1>6. dmaAsked' \in [DmaChannels -> DmaRequests]
  <2>1. NoBlocks \in DmaRequests
    BY DEF DmaTypeOK, DmaRequests, NoBlocks
  <2> QED
    BY <2>1 DEF DmaTypeOK
<1>7. dmaPos' \in [DmaChannels -> Nat]
  <2>1. 0 \in Nat
    BY DEF DmaTypeOK
  <2> QED
    BY <2>1 DEF DmaTypeOK
<1>8. dmaOwed' \in [DmaChannels -> Int]
  <2>1. dmaOwed[c] - 1 \in Int
    BY DEF DmaTypeOK
  <2> QED
    BY <2>1 DEF DmaTypeOK
<1>9. DmaTypeOK'
  BY <1>1, <1>2, <1>3, <1>4, <1>5, <1>6, <1>7, <1>8 DEF DmaTypeOK
<1>10. \A d \in DmaChannels \ {c} : DmaSame(d)
  BY DEF DmaSame, DmaTypeOK
<1> QED
  BY <1>9, <1>10 DEF DmaTypeOK

\* ... and the controller at an error of the bus.
LEMMA BusErrorDoes ==
  ASSUME DmaTypeOK, NEW c \in DmaChannels, BusError(c)
  PROVE  /\ DmaTypeOK' /\ \A d \in DmaChannels \ {c} : DmaSame(d)
         /\ dmaPrv'[c] = dmaPrv[c] /\ dmaMask'[c] = dmaMask[c]
         /\ dmaState'[c] = dmaState[c] /\ dmaAsked'[c] = dmaAsked[c]
         /\ dmaPos'[c] = dmaPos[c] /\ dmaOwed'[c] = dmaOwed[c]
         /\ dmaReg'[c] = [dmaReg[c] EXCEPT !.en = FALSE]
         /\ dmaRaw'[c] = dmaRaw[c] \cup {"ERR"} /\ dmaUpset' = dmaUpset
<1> USE DEF BusError
<1>1. /\ dmaPrv' \in [DmaChannels -> DmaConfigs] /\ dmaPrv' = dmaPrv
      /\ dmaMask' \in [DmaChannels -> SUBSET DmaInterrupts]
      /\ dmaMask' = dmaMask
      /\ dmaState' \in [DmaChannels -> DmaStates] /\ dmaState' = dmaState
      /\ dmaAsked' \in [DmaChannels -> DmaRequests] /\ dmaAsked' = dmaAsked
      /\ dmaPos' \in [DmaChannels -> Nat] /\ dmaPos' = dmaPos
      /\ dmaOwed' \in [DmaChannels -> Int] /\ dmaOwed' = dmaOwed
  BY DEF DmaTypeOK
<1>2. dmaReg' \in [DmaChannels -> DmaRegisters]
  <2>1. [dmaReg[c] EXCEPT !.en = FALSE] \in DmaRegisters
    BY DEF DmaTypeOK, DmaRegisters
  <2> QED
    BY <2>1 DEF DmaTypeOK
<1>3. dmaRaw' \in [DmaChannels -> SUBSET DmaInterrupts]
  <2>1. dmaRaw[c] \cup {"ERR"} \in SUBSET DmaInterrupts
    BY DEF DmaTypeOK, DmaInterrupts
  <2> QED
    BY <2>1 DEF DmaTypeOK
<1>4. DmaTypeOK'
  BY <1>1, <1>2, <1>3 DEF DmaTypeOK
<1>5. \A d \in DmaChannels \ {c} : DmaSame(d)
  BY DEF DmaSame, DmaTypeOK
<1> QED
  BY <1>4, <1>5 DEF DmaTypeOK

\* What qm_dma_multi_transfer_set_config makes of its parameters.
BufferSize(c, n) == IF ~dmaReg[c].llp THEN n ELSE dmaPrv[c].perBuffer
Refused(c, n) ==
  \/ TransferType(c) = "SINGLE"
  \/ TransferType(c) # "MULTI_CONT" /\ BufferSize(c, n) # n
Chains(c, n) == ~Refused(c, n) /\ TransferType(c) # "MULTI_CONT"
AllBlocks(c, n) == IF ~dmaReg[c].llp THEN n ELSE dmaAsked[c].all + n

\* qm_dma_multi_transfer_set_config does what the four above say.
LEMMA MultiTransferSetConfigDoes ==
  ASSUME DmaTypeOK, NEW c \in DmaChannels, NEW n \in DmaBlocks,
         MultiTransferSetConfig(c, n)
  PROVE  /\ DmaTypeOK' /\ \A d \in DmaChannels \ {c} : DmaSame(d)
         /\ dmaRaw'[c] = dmaRaw[c] /\ dmaMask'[c] = dmaMask[c]
         /\ dmaPos'[c] = dmaPos[c] /\ dmaOwed'[c] = dmaOwed[c]
         /\ dmaPrv'[c] = [dmaPrv[c] EXCEPT !.perBuffer = BufferSize(c, n),
                            !.pending = BlocksPending(c, n), !.tail = @ \/ Chains(c, n)]
         /\ dmaReg'[c] = [dmaReg[c] EXCEPT !.llp = @ \/ Chains(c, n)]
         /\ dmaState'[c] = IF Refused(c, n) THEN "configured" ELSE "set"
         /\ dmaAsked'[c] = IF Refused(c, n) THEN dmaAsked[c]
                           ELSE [size |-> n, all |-> AllBlocks(c, n)]
<1> DEFINE prv == [dmaPrv[c] EXCEPT !.perBuffer = BufferSize(c, n),
                     !.pending = BlocksPending(c, n), !.tail = @ \/ Chains(c, n)]
           reg == [dmaReg[c] EXCEPT !.llp = @ \/ Chains(c, n)]
           asked == IF Refused(c, n) THEN dmaAsked[c]
                    ELSE [size |-> n, all |-> AllBlocks(c, n)]
           state == IF Refused(c, n) THEN "configured" ELSE "set"
<1>0. n \in 1 .. MaxCount /\ BlocksPending(c, n) \in 0 .. MaxCount
  BY DmaAssumption, MaxCountIs DEF BlocksPending
<1>1. /\ dmaRaw' \in [DmaChannels -> SUBSET DmaInterrupts] /\ dmaRaw' = dmaRaw
      /\ dmaMask' \in [DmaChannels -> SUBSET DmaInterrupts]
      /\ dmaMask' = dmaMask
      /\ dmaPos' \in [DmaChannels -> Nat] /\ dmaPos' = dmaPos
      /\ dmaOwed' \in [DmaChannels -> Int] /\ dmaOwed' = dmaOwed
      /\ dmaUpset' \subseteq DmaChannels /\ dmaUpset' = dmaUpset
  BY DEF DmaTypeOK, MultiTransferSetConfig
<1>2. /\ dmaPrv' = [dmaPrv EXCEPT ![c] = prv]
      /\ dmaReg' = [dmaReg EXCEPT ![c] = reg]
      /\ dmaState' = [dmaState EXCEPT ![c] = state]
      /\ dmaAsked' = [dmaAsked EXCEPT ![c] = asked]
  BY DEF MultiTransferSetConfig, DmaTypeOK, BufferSize, Refused, Chains,
     AllBlocks
<1>3. prv \in DmaConfigs
  <2>1. dmaPrv[c] \in DmaConfigs
    BY DEF DmaTypeOK
  <2>2. BufferSize(c, n) \in 0 .. MaxCount
    BY <2>1, <1>0 DEF DmaConfigs, BufferSize
  <2>3. Chains(c, n) \in BOOLEAN
    BY DEF Chains
  <2> QED
    BY <1>0, <2>1, <2>2, <2>3 DEF DmaConfigs
<1>4. reg \in DmaRegisters
  <2>1. dmaReg[c] \in DmaRegisters /\ Chains(c, n) \in BOOLEAN
    BY DEF DmaTypeOK, Chains
  <2> QED
    BY <2>1 DEF DmaRegisters
<1>5. asked \in DmaRequests
  <2>1. dmaAsked[c] \in DmaRequests /\ n \in Nat
    BY <1>0 DEF DmaTypeOK
  <2>2. AllBlocks(c, n) \in Nat
    BY <2>1 DEF DmaRequests, AllBlocks
  <2> QED
    BY <2>1, <2>2 DEF DmaRequests
<1>6. state \in DmaStates
  BY DEF DmaStates
<1> HIDE DEF prv, reg, asked, state
<1>7. DmaTypeOK'
  BY <1>1, <1>2, <1>3, <1>4, <1>5, <1>6 DEF DmaTypeOK
<1>8. \A d \in DmaChannels \ {c} : DmaSame(d)
  BY <1>1, <1>2 DEF DmaSame, DmaTypeOK
<1>9. dmaPrv'[c] = prv /\ dmaReg'[c] = reg /\ dmaState'[c] = state /\ dmaAsked'[c] = asked
  BY <1>2 DEF DmaTypeOK
<1> QED
  BY <1>1, <1>7, <1>8, <1>9 DEF prv, reg, asked, state

\* What the handler does for a finished block, left blocks being left ...
LEMMA IsrBlockDoes ==
  ASSUME DmaTypeOK, NEW c \in DmaChannels, IsrBlock(c),
         NEW left, left = Decrement(dmaPrv[c].pending),
         NEW done, done = (dmaPrv[c].tail /\ left = 0)
  PROVE  /\ DmaTypeOK' /\ \A d \in DmaChannels \ {c} : DmaSame(d)
         /\ dmaMask'[c] = dmaMask[c] /\ dmaState'[c] = dmaState[c]
         /\ dmaAsked'[c] = dmaAsked[c] /\ dmaPos'[c] = dmaPos[c]
         /\ dmaPrv'[c] = [dmaPrv[c] EXCEPT !.pending =
                            IF done THEN dmaPrv[c].perBuffer ELSE left]
         /\ dmaReg'[c] = [dmaReg[c] EXCEPT !.reload = @ /\ ~(~dmaPrv[c].tail /\ left = 1)]
         /\ dmaRaw'[c] = dmaRaw[c] \ {"BLOCK"}
         /\ dmaOwed'[c] = IF done THEN dmaOwed[c] - 1 ELSE dmaOwed[c]
         /\ dmaUpset' = dmaUpset
<1> DEFINE prv == [dmaPrv[c] EXCEPT !.pending =
                     IF done THEN dmaPrv[c].perBuffer ELSE left]
           reg == [dmaReg[c] EXCEPT !.reload = @ /\ ~(~dmaPrv[c].tail /\ left = 1)]
           raw == dmaRaw[c] \ {"BLOCK"}
           owed == IF done THEN dmaOwed[c] - 1 ELSE dmaOwed[c]
<1>0. dmaPrv[c] \in DmaConfigs /\ dmaReg[c] \in DmaRegisters
  BY DEF DmaTypeOK
<1>1. left \in 0 .. MaxCount
  <2>1. dmaPrv[c].pending \in 0 .. MaxCount
    BY <1>0 DEF DmaConfigs
  <2> QED
    BY <2>1, DecrementCount
<1>3. /\ dmaMask' \in [DmaChannels -> SUBSET DmaInterrupts]
      /\ dmaMask' = dmaMask
      /\ dmaState' \in [DmaChannels -> DmaStates] /\ dmaState' = dmaState
      /\ dmaAsked' \in [DmaChannels -> DmaRequests] /\ dmaAsked' = dmaAsked
      /\ dmaPos' \in [DmaChannels -> Nat] /\ dmaPos' = dmaPos
      /\ dmaUpset' \subseteq DmaChannels /\ dmaUpset' = dmaUpset
  BY DEF DmaTypeOK, IsrBlock
<1>4. /\ dmaPrv' = [dmaPrv EXCEPT ![c] = prv]
      /\ dmaReg' = [dmaReg EXCEPT ![c] = reg]
      /\ dmaRaw' = [dmaRaw EXCEPT ![c] = raw]
      /\ dmaOwed' = [dmaOwed EXCEPT ![c] = owed]
  BY DEF IsrBlock, DmaTypeOK, BufferDone, LastReload
<1>5. prv \in DmaConfigs
  BY <1>0, <1>1 DEF DmaConfigs
<1>6. /\ reg \in DmaRegisters
      /\ raw \in SUBSET DmaInterrupts /\ owed \in Int
  <2>1. reg \in DmaRegisters
    BY <1>0 DEF DmaRegisters
  <2>2. raw \in SUBSET DmaInterrupts /\ owed \in Int
    BY DEF DmaTypeOK
  <2> QED
    BY <2>1, <2>2
<1> HIDE DEF prv, reg, raw, owed
<1>7. DmaTypeOK'
  BY <1>3, <1>4, <1>5, <1>6 DEF DmaTypeOK
<1>8. \A d \in DmaChannels \ {c} : DmaSame(d)
  BY <1>3, <1>4 DEF DmaSame, DmaTypeOK
<1>9. dmaPrv'[c] = prv /\ dmaReg'[c] = reg /\ dmaRaw'[c] = raw /\ dmaOwed'[c] = owed
  BY <1>4 DEF DmaTypeOK
<1> QED
  BY <1>3, <1>7, <1>8, <1>9 DEF prv, reg, raw, owed

\* ... and the controller, that moves one.
LEMMA MoveBlockDoes ==
  ASSUME DmaTypeOK, NEW c \in DmaChannels, MoveBlock(c),
         NEW turn, turn = (dmaReg[c].chain /\ dmaPrv[c].circular
                             /\ dmaPos[c] + 1 = dmaAsked[c].all),
         NEW ends, ends = (/\ dmaAsked[c].size > 0
                           /\ (dmaPos[c] + 1) % dmaAsked[c].size = 0)
  PROVE  /\ DmaTypeOK' /\ \A d \in DmaChannels \ {c} : DmaSame(d)
         /\ dmaPrv'[c] = dmaPrv[c] /\ dmaMask'[c] = dmaMask[c]
         /\ dmaState'[c] = dmaState[c] /\ dmaAsked'[c] = dmaAsked[c]
         /\ dmaReg'[c] = [dmaReg[c] EXCEPT !.en = ~LastBlock(c)]
         /\ dmaRaw'[c] = dmaRaw[c] \cup {"BLOCK"}
                                   \cup (IF LastBlock(c) THEN {"TFR"} ELSE {})
         /\ dmaPos'[c] = IF turn THEN 0 ELSE dmaPos[c] + 1
         /\ dmaOwed'[c] = IF ends THEN dmaOwed[c] + 1 ELSE dmaOwed[c]
         /\ dmaUpset' = dmaUpset
<1> DEFINE reg == [dmaReg[c] EXCEPT !.en = ~LastBlock(c)]
           raw == dmaRaw[c] \cup {"BLOCK"} \cup (IF LastBlock(c) THEN {"TFR"} ELSE {})
           pos == IF turn THEN 0 ELSE dmaPos[c] + 1
           owed == IF ends THEN dmaOwed[c] + 1 ELSE dmaOwed[c]
<1>1. /\ dmaPrv' \in [DmaChannels -> DmaConfigs] /\ dmaPrv' = dmaPrv
      /\ dmaMask' \in [DmaChannels -> SUBSET DmaInterrupts]
      /\ dmaMask' = dmaMask
      /\ dmaState' \in [DmaChannels -> DmaStates] /\ dmaState' = dmaState
      /\ dmaAsked' \in [DmaChannels -> DmaRequests] /\ dmaAsked' = dmaAsked
      /\ dmaUpset' \subseteq DmaChannels /\ dmaUpset' = dmaUpset
  BY DEF DmaTypeOK, MoveBlock
<1>2. /\ dmaReg' = [dmaReg EXCEPT ![c] = reg]
      /\ dmaRaw' = [dmaRaw EXCEPT ![c] = raw]
      /\ dmaPos' = [dmaPos EXCEPT ![c] = pos]
      /\ dmaOwed' = [dmaOwed EXCEPT ![c] = owed]
  BY DEF MoveBlock, DmaTypeOK
<1>3. LastBlock(c) \in BOOLEAN
  BY DEF LastBlock, DmaTypeOK, DmaRegisters
<1>4. reg \in DmaRegisters
  BY <1>3 DEF DmaRegisters, DmaTypeOK
<1>5. raw \in SUBSET DmaInterrupts
  BY DEF DmaInterrupts, DmaTypeOK
<1>6. pos \in Nat /\ owed \in Int
  BY DEF DmaTypeOK
<1> HIDE DEF reg, raw, pos, owed
<1>7. DmaTypeOK'
  BY <1>1, <1>2, <1>4, <1>5, <1>6 DEF DmaTypeOK
<1>8. \A d \in DmaChannels \ {c} : DmaSame(d)
  BY <1>1, <1>2 DEF DmaSame, DmaTypeOK
<1>9. dmaReg'[c] = reg /\ dmaRaw'[c] = raw /\ dmaPos'[c] = pos /\ dmaOwed'[c] = owed
  BY <1>2 DEF DmaTypeOK
<1> QED
  BY <1>1, <1>7, <1>8, <1>9 DEF reg, raw, pos, owed

\* What an action on one channel has to keep, that the invariant is kept.
LEMMA DmaOthers ==
  ASSUME DmaInv, NEW c \in DmaChannels, \A d \in DmaChannels \ {c} : DmaSame(d),
         DmaTypeOK', DmaChannelInv(c)'
  PROVE  DmaInv'
<1>1. ASSUME NEW d \in DmaChannels, d # c
      PROVE  DmaChannelInv(d)'
  <2>1. DmaSame(d)
    BY <1>1
  <2> QED
    BY <2>1, <1>1, DmaFrame DEF DmaInv, DmaSame
<1> QED
  BY <1>1 DEF DmaInv

\* A chain that is set up has buffers of one size, which a count can hold.
LEMMA ChainedSize ==
  ASSUME NEW c \in DmaChannels, Chained(c)
  PROVE  /\ dmaAsked[c].size >= 1 /\ dmaAsked[c].size \in Nat \ {0}
         /\ dmaAsked[c].size <= MaxCount
         /\ dmaAsked[c].size = dmaPrv[c].perBuffer
         /\ dmaAsked[c].all >= dmaAsked[c].size /\ dmaPrv[c].tail
         /\ dmaAsked[c].all % dmaAsked[c].size = 0
<1>1. dmaAsked[c].size \in 1 .. MaxCount
  BY DmaAssumption DEF Chained
<1> QED
  BY <1>1, MaxCountIs DEF Chained

\* The actions keep the invariant, one by one.  The calls of the client come
\* while nothing moves.
LEMMA ChannelSetConfigKeeps ==
  ASSUME DmaInv, NEW c \in DmaChannels, NEW type \in DmaTypes,
         ChannelSetConfig(c, type)
  PROVE  DmaInv'
<1>1. DmaTypeOK /\ DmaChannelInv(c)
  BY DEF DmaInv
<1>2. /\ dmaState[c] # "busy" /\ dmaState'[c] = "configured"
      /\ ~dmaPrv'[c].tail /\ ~dmaReg'[c].llp /\ dmaReg'[c].en = dmaReg[c].en
      /\ dmaReg'[c].chain => ~dmaReg'[c].reload
  <2>1. dmaState[c] # "busy"
    BY DEF ChannelSetConfig
  <2>2. /\ dmaPrv'[c] = [perBuffer |-> 1, pending |-> dmaPrv[c].pending, tail |-> FALSE,
                         circular |-> type = "MULTI_LL_CIRCULAR"]
        /\ dmaReg'[c] = [chain |-> type \in {"MULTI_LL", "MULTI_LL_CIRCULAR"},
                         reload |-> type = "MULTI_CONT", llp |-> FALSE,
                         en |-> dmaReg[c].en]
        /\ dmaState'[c] = "configured"
    BY <1>1, ChannelSetConfigDoes
  <2>3. ~dmaPrv'[c].tail /\ ~dmaReg'[c].llp /\ dmaReg'[c].en = dmaReg[c].en
    BY <2>2
  <2>4. type \in {"MULTI_LL", "MULTI_LL_CIRCULAR"} => type # "MULTI_CONT"
    OBVIOUS
  <2>5. /\ dmaReg'[c].chain = (type \in {"MULTI_LL", "MULTI_LL_CIRCULAR"})
        /\ dmaReg'[c].reload = (type = "MULTI_CONT")
    BY <2>2
  <2> QED
    BY <2>1, <2>2, <2>3, <2>4, <2>5
<1>3. /\ DmaTypeOK' /\ \A d \in DmaChannels \ {c} : DmaSame(d)
      /\ dmaMask'[c] = dmaMask[c] /\ dmaPos'[c] = dmaPos[c]
      /\ dmaOwed'[c] = dmaOwed[c] /\ dmaUpset' = dmaUpset
  BY <1>1, ChannelSetConfigDoes
<1>4. DmaChannelInv(c)'
  BY <1>1, <1>2, <1>3 DEF DmaChannelInv, AtRest
<1> QED
  BY <1>2, <1>3, <1>4, DmaOthers

LEMMA TransferSetConfigKeeps ==
  ASSUME DmaInv, NEW c \in DmaChannels, TransferSetConfig(c)
  PROVE  DmaInv'
<1>1. DmaTypeOK /\ DmaChannelInv(c)
  BY DEF DmaInv
<1>2. /\ dmaState[c] \in {"configured", "set"} /\ dmaState'[c] = "set"
      /\ ~dmaReg[c].chain /\ ~dmaReg[c].reload 
      /\ dmaReg[c].llp \in BOOLEAN /\ dmaReg[c].chain \in BOOLEAN
      /\ dmaAsked'[c].size = 1 /\ dmaAsked'[c].all = 1
  <2>1. /\ dmaState[c] \in {"configured", "set"}
        /\ ~dmaReg[c].chain /\ ~dmaReg[c].reload
    BY DEF TransferSetConfig, TransferType
  <2>2. dmaState'[c] = "set" /\ dmaAsked'[c] = [size |-> 1, all |-> 1]
    BY <1>1, TransferSetConfigDoes
  <2>3. dmaReg[c].llp \in BOOLEAN /\ dmaReg[c].chain \in BOOLEAN
    BY <1>1, DmaFields
  <2> QED
    BY <2>1, <2>2, <2>3
<1>3. /\ DmaTypeOK' /\ \A d \in DmaChannels \ {c} : DmaSame(d)
      /\ dmaPrv'[c] = dmaPrv[c] /\ dmaReg'[c] = dmaReg[c]
      /\ dmaMask'[c] = dmaMask[c] /\ dmaPos'[c] = dmaPos[c]
      /\ dmaOwed'[c] = dmaOwed[c] /\ dmaUpset' = dmaUpset
  BY <1>1, TransferSetConfigDoes
<1>4. /\ dmaMask'[c] = {} /\ (c \notin dmaUpset => AtRest(c)')
      /\ dmaReg[c].llp = FALSE /\ ~dmaPrv[c].tail
  BY <1>1, <1>2, <1>3 DEF DmaChannelInv, AtRest
<1>5. CountsRight(c)' /\ dmaReg'[c].llp = dmaReg'[c].chain
  BY <1>2, <1>3, <1>4 DEF CountsRight
<1>6. DmaChannelInv(c)'
  BY <1>2, <1>3, <1>4, <1>5 DEF DmaChannelInv
<1> QED
  BY <1>2, <1>3, <1>6, DmaOthers

LEMMA TransferStartKeeps ==
  ASSUME DmaInv, NEW c \in DmaChannels, TransferStart(c)
  PROVE  DmaInv'
<1>1. DmaTypeOK /\ DmaChannelInv(c)
  BY DEF DmaInv
<1>2. /\ dmaState[c] = "set" /\ CountsRight(c)
      /\ dmaReg[c].llp = dmaReg[c].chain
      /\ dmaReg[c].llp => Chained(c)
      /\ dmaMask[c] = {}
  BY <1>1 DEF DmaChannelInv, TransferStart
<1>3. /\ DmaTypeOK' /\ \A d \in DmaChannels \ {c} : DmaSame(d)
      /\ dmaPrv'[c] = dmaPrv[c] /\ dmaAsked'[c] = dmaAsked[c] /\ dmaRaw'[c] = {}
      /\ dmaMask'[c] = {"TFR", "ERR"}
                         \cup (IF dmaPrv[c].pending > 0 THEN {"BLOCK"} ELSE {})
      /\ dmaState'[c] = "busy" /\ dmaPos'[c] = 0 /\ dmaOwed'[c] = 0
      /\ c \in dmaUpset' <=> StartsUpset(c)
  BY <1>1, <1>2, TransferStartDoes DEF UnmaskAtStart
<1>4. /\ dmaReg'[c].chain = dmaReg[c].chain
      /\ dmaReg'[c].reload = dmaReg[c].reload
      /\ dmaReg'[c].llp = dmaReg[c].llp
  <2>1. dmaReg'[c] = [dmaReg[c] EXCEPT !.en = TRUE] /\ dmaReg[c] \in DmaRegisters
    BY <1>1, TransferStartDoes DEF DmaTypeOK
  <2> QED
    BY <2>1 DEF DmaRegisters
<1>5. /\ dmaPrv[c].pending \in Nat /\ dmaAsked[c].all \in Nat
      /\ dmaAsked[c].size \in Nat
      /\ dmaPrv[c].circular \in BOOLEAN /\ dmaReg[c].chain \in BOOLEAN
      /\ dmaReg[c].reload \in BOOLEAN
  BY <1>1, DmaFields
<1>6. BlockMoved(c)' = 0 /\ ~Owes(c)'
  BY <1>3 DEF BlockMoved, Owes
<1>7. ASSUME dmaReg[c].chain
      PROVE  ChainRuns(c)'
  <2>0. Chained(c) /\ dmaAsked[c].all >= dmaAsked[c].size /\ dmaAsked[c].size >= 1
    BY <1>2, <1>7, ChainedSize
  <2>1. Chained(c)' /\ dmaAsked[c].all >= dmaAsked[c].size /\ dmaAsked[c].size >= 1
    BY <1>3, <2>0 DEF Chained
  <2>2. (0 + dmaAsked[c].size - 0) % dmaAsked[c].size = 0
    BY <2>1, <1>5, ModSelf
  <2>3. CASE dmaPrv[c].pending = 0
    BY <1>2, <1>3, <1>5, <1>7, <2>1, <2>3 DEF ChainRuns, CountsRight
  <2>4. CASE dmaPrv[c].pending # 0
    <3>1. dmaPrv[c].pending = dmaAsked[c].size
      BY <1>2, <1>7, <2>4 DEF CountsRight
    <3>2. "BLOCK" \in dmaMask'[c]
      BY <1>3, <1>5, <2>4
    <3>3. (dmaPos'[c] + dmaPrv'[c].pending - BlockMoved(c)') % dmaAsked'[c].size = 0
      BY <1>3, <1>6, <2>2, <3>1
    <3> QED
      BY <1>3, <1>5, <2>1, <2>4, <3>1, <3>2, <3>3 DEF ChainRuns
  <2> QED
    BY <2>3, <2>4
<1>8. ASSUME ~dmaReg[c].chain, dmaReg[c].reload, c \notin dmaUpset'
      PROVE  Reloads(c)'
  <2>1. dmaPrv[c].pending # 1
    BY <1>3, <1>8 DEF StartsUpset
  <2> QED
    BY <1>2, <1>3, <1>5, <1>6, <1>8, <2>1 DEF Reloads, CountsRight
<1>9. ASSUME ~dmaReg[c].chain, ~dmaReg[c].reload
      PROVE  LastRuns(c)'
  BY <1>2, <1>3, <1>5, <1>9 DEF LastRuns, CountsRight
<1>10. c \notin dmaUpset' => Runs(c)'
  BY <1>3, <1>4, <1>6, <1>7, <1>8, <1>9 DEF Runs
<1>11. DmaChannelInv(c)'
  <2>1. Chained(c) <=> Chained(c)'
    BY <1>3 DEF Chained
  <2> QED
    BY <1>1, <1>2, <1>3, <1>4, <1>10, <2>1 DEF DmaChannelInv
<1> QED
  BY <1>3, <1>11, DmaOthers

LEMMA MultiTransferSetConfigKeeps ==
  ASSUME DmaInv, NEW c \in DmaChannels, NEW n \in DmaBlocks,
         MultiTransferSetConfig(c, n)
  PROVE  DmaInv'
<1>1. DmaTypeOK /\ DmaChannelInv(c) /\ dmaState[c] \in {"configured", "set"}
  BY DEF DmaInv, MultiTransferSetConfig
<1>2. /\ DmaTypeOK' /\ \A d \in DmaChannels \ {c} : DmaSame(d)
      /\ dmaRaw'[c] = dmaRaw[c] /\ dmaMask'[c] = dmaMask[c]
      /\ dmaPos'[c] = dmaPos[c] /\ dmaOwed'[c] = dmaOwed[c]
      /\ dmaPrv'[c] = [dmaPrv[c] EXCEPT !.perBuffer = BufferSize(c, n),
                         !.pending = BlocksPending(c, n), !.tail = @ \/ Chains(c, n)]
      /\ dmaReg'[c] = [dmaReg[c] EXCEPT !.llp = @ \/ Chains(c, n)]
      /\ dmaState'[c] = IF Refused(c, n) THEN "configured" ELSE "set"
      /\ dmaAsked'[c] = IF Refused(c, n) THEN dmaAsked[c]
                         ELSE [size |-> n, all |-> AllBlocks(c, n)]
  BY <1>1, MultiTransferSetConfigDoes
<1>14. dmaUpset' = dmaUpset
  BY DEF MultiTransferSetConfig
<1>3. /\ dmaPrv'[c].perBuffer = BufferSize(c, n)
      /\ dmaPrv'[c].pending = BlocksPending(c, n)
      /\ dmaPrv'[c].tail = (dmaPrv[c].tail \/ Chains(c, n))
      /\ dmaPrv'[c].circular = dmaPrv[c].circular
  <2>1. dmaPrv[c] \in DmaConfigs
    BY <1>1 DEF DmaTypeOK
  <2> QED
    BY <1>2, <2>1 DEF DmaConfigs
<1>4. /\ dmaReg'[c].llp = (dmaReg[c].llp \/ Chains(c, n))
      /\ dmaReg'[c].chain = dmaReg[c].chain
      /\ dmaReg'[c].reload = dmaReg[c].reload
      /\ dmaReg'[c].en = dmaReg[c].en
  <2>1. dmaReg[c] \in DmaRegisters
    BY <1>1 DEF DmaTypeOK
  <2> QED
    BY <1>2, <2>1 DEF DmaRegisters
<1>5. /\ dmaReg[c].chain \in BOOLEAN /\ dmaReg[c].reload \in BOOLEAN
      /\ dmaReg[c].llp \in BOOLEAN /\ dmaPrv[c].circular \in BOOLEAN
      /\ dmaPrv[c].tail \in BOOLEAN /\ dmaAsked[c].all \in Nat
      /\ n \in Nat \ {0}
  <2>1. n \in 1 .. MaxCount
    BY DmaAssumption
  <2> QED
    BY <1>1, <2>1, DmaFields, MaxCountIs
<1>6. /\ dmaPrv[c].tail \/ dmaReg[c].llp => dmaReg[c].chain
      /\ dmaReg[c].chain => ~dmaReg[c].reload
      /\ dmaReg[c].llp => Chained(c)
      /\ dmaMask[c] = {} /\ (c \notin dmaUpset => AtRest(c))
  BY <1>1 DEF DmaChannelInv
<1>7. dmaMask'[c] = {} /\ (c \notin dmaUpset' => AtRest(c)')
  BY <1>2, <1>4, <1>6, <1>14 DEF AtRest
<1>8. ASSUME Chains(c, n)
      PROVE  /\ dmaReg[c].chain /\ Chained(c)' /\ CountsRight(c)'
             /\ dmaReg'[c].llp /\ dmaReg'[c].chain
  <2>1. dmaReg[c].chain /\ BufferSize(c, n) = n /\ ~Refused(c, n)
    BY <1>8, <1>5 DEF TransferType, Chains, Refused
  <2>2. dmaAsked'[c].size = n /\ dmaAsked'[c].all = AllBlocks(c, n)
    BY <1>2, <2>1
  <2>3. dmaPrv'[c].pending = IF ~dmaPrv[c].circular /\ ~dmaReg[c].llp THEN 0 ELSE n
    BY <1>3, <2>1 DEF BlocksPending, TransferType
  <2>4. CASE ~dmaReg[c].llp
    <3>1. AllBlocks(c, n) = n /\ n % n = 0
      BY <2>4, <1>5, ModSelf DEF AllBlocks
    <3>2. dmaAsked'[c].size = n /\ dmaAsked'[c].all = n
      BY <2>2, <3>1
    <3>3. Chained(c)'
      <4>1. dmaPrv'[c].perBuffer = n /\ dmaPrv'[c].tail
        BY <1>3, <1>8, <2>1
      <4>2. n >= n
        BY <1>5
      <4> QED
        BY <3>1, <3>2, <4>1, <4>2 DEF Chained
    <3>4. CountsRight(c)'
      BY <1>3, <1>4, <2>1, <2>3, <2>4, <3>2 DEF CountsRight
    <3> QED
      BY <1>4, <1>8, <2>1, <3>3, <3>4
  <2>5. CASE dmaReg[c].llp
    <3>1. Chained(c) /\ dmaPrv[c].perBuffer = n
      BY <1>6, <2>1, <2>5 DEF BufferSize
    <3>2. dmaAsked[c].size = n /\ dmaAsked[c].all >= n /\ dmaAsked[c].all % n = 0
      BY <3>1 DEF Chained
    <3>3. AllBlocks(c, n) = dmaAsked[c].all + n /\ (dmaAsked[c].all + n) % n = 0
      BY <2>5, <3>2, <1>5, ModPlus DEF AllBlocks
    <3>4. AllBlocks(c, n) >= n /\ AllBlocks(c, n) # n
      BY <3>2, <3>3, <1>5
    <3> QED
      BY <1>3, <1>4, <1>5, <1>8, <2>1, <2>2, <2>3, <2>5, <3>3, <3>4
      DEF Chained, CountsRight
  <2> QED
    BY <2>4, <2>5, <1>5
<1>9. ASSUME ~Chains(c, n), Refused(c, n)
      PROVE  dmaState'[c] = "configured" /\ (dmaReg'[c].llp => Chained(c)')
  <2>1. ASSUME dmaReg'[c].llp
        PROVE  Chained(c)'
    <3>1. dmaReg[c].llp /\ Chained(c) /\ BufferSize(c, n) = dmaPrv[c].perBuffer
      BY <2>1, <1>4, <1>6, <1>9 DEF BufferSize
    <3>2. dmaAsked'[c] = dmaAsked[c] /\ dmaPrv'[c].perBuffer = dmaPrv[c].perBuffer
      BY <1>2, <1>3, <1>9, <3>1
    <3> QED
      BY <1>3, <3>1, <3>2 DEF Chained
  <2> QED
    BY <1>2, <1>9, <2>1
<1>10. ASSUME ~Chains(c, n), ~Refused(c, n)
       PROVE  CountsRight(c)' /\ ~dmaReg'[c].llp /\ dmaReg'[c].llp = dmaReg'[c].chain
  <2>1. ~dmaReg[c].chain /\ dmaReg[c].reload /\ TransferType(c) = "MULTI_CONT"
    BY <1>10, <1>5 DEF TransferType, Chains, Refused
  <2>2. ~dmaReg[c].llp
    BY <1>6, <2>1
  <2>3. dmaAsked'[c].size = n /\ dmaAsked'[c].all = n /\ dmaPrv'[c].pending = n
    BY <1>2, <1>3, <1>10, <2>1, <2>2 DEF BlocksPending, AllBlocks
  <2> QED
    BY <1>4, <1>5, <1>10, <2>1, <2>2, <2>3 DEF CountsRight
<1>11. /\ dmaPrv'[c].tail \/ dmaReg'[c].llp => dmaReg'[c].chain
       /\ dmaReg'[c].chain => ~dmaReg'[c].reload
  BY <1>3, <1>4, <1>6, <1>8
<1>12. dmaState'[c] \in {"configured", "set"}
  BY <1>2
<1>13. DmaChannelInv(c)'
  <2>1. CASE Chains(c, n)
    BY <1>7, <1>8, <1>11, <1>12, <2>1 DEF DmaChannelInv
  <2>2. CASE ~Chains(c, n) /\ Refused(c, n)
    BY <1>7, <1>9, <1>11, <1>12, <2>2 DEF DmaChannelInv
  <2>3. CASE ~Chains(c, n) /\ ~Refused(c, n)
    BY <1>7, <1>10, <1>11, <1>12, <2>3 DEF DmaChannelInv
  <2> QED
    BY <2>1, <2>2, <2>3
<1> QED
  BY <1>2, <1>12, <1>13, DmaOthers

LEMMA TransferTerminateKeeps ==
  ASSUME DmaInv, NEW c \in DmaChannels, TransferTerminate(c)
  PROVE  DmaInv'
<1>1. DmaTypeOK /\ DmaChannelInv(c)
  BY DEF DmaInv
<1>2. /\ DmaTypeOK' /\ \A d \in DmaChannels \ {c} : DmaSame(d)
      /\ dmaPrv'[c] = dmaPrv[c] /\ dmaMask'[c] = {}
      /\ dmaState'[c] = "configured"
      /\ dmaReg'[c] = [dmaReg[c] EXCEPT !.llp = FALSE, !.en = FALSE]
      /\ dmaPos'[c] = 0 /\ dmaOwed'[c] = 0
  BY <1>1, TransferTerminateDoes
<1>3. /\ ~dmaReg'[c].llp /\ ~dmaReg'[c].en
      /\ dmaReg'[c].chain = dmaReg[c].chain
      /\ dmaReg'[c].reload = dmaReg[c].reload
  <2>1. dmaReg[c] \in DmaRegisters
    BY <1>1 DEF DmaTypeOK
  <2> QED
    BY <1>2, <2>1 DEF DmaRegisters
<1>4. DmaChannelInv(c)'
  BY <1>1, <1>2, <1>3 DEF DmaChannelInv, AtRest
<1> QED
  BY <1>2, <1>4, DmaOthers

\* A channel that may interrupt is busy, and runs unless it was upset, ...
LEMMA BusyIf ==
  ASSUME DmaInv, NEW c \in DmaChannels, dmaMask[c] # {}
  PROVE  dmaState[c] = "busy" /\ (c \notin dmaUpset => Runs(c))
BY DEF DmaInv, DmaChannelInv

\* ... as does one that is enabled.
LEMMA RunsIf ==
  ASSUME DmaInv, NEW c \in DmaChannels, c \notin dmaUpset, dmaReg[c].en
  PROVE  dmaState[c] = "busy" /\ Runs(c)
BY DEF DmaInv, DmaChannelInv, AtRest

\* The end of a transfer: all its blocks have been moved, and reported.
LEMMA IsrTransferKeeps ==
  ASSUME DmaInv, NEW c \in DmaChannels, IsrTransfer(c)
  PROVE  DmaInv'
<1>1. DmaTypeOK /\ DmaChannelInv(c)
  BY DEF DmaInv
<1>2. dmaState[c] = "busy" /\ (c \notin dmaUpset => Runs(c))
  BY BusyIf DEF IsrTransfer, DmaStatus
<1>3. /\ DmaTypeOK' /\ \A d \in DmaChannels \ {c} : DmaSame(d)
      /\ dmaPrv'[c] = dmaPrv[c] /\ dmaMask'[c] = {}
      /\ dmaState'[c] = "configured"
      /\ dmaReg'[c] = [dmaReg[c] EXCEPT !.llp = FALSE]
      /\ dmaOwed'[c] = dmaOwed[c] - 1
      /\ c \notin dmaUpset' =>
           c \notin dmaUpset /\ "TFR" \in dmaRaw[c] /\ dmaPos'[c] = 0
  BY <1>1, IsrTransferDoes
<1>4. /\ ~dmaReg'[c].llp /\ dmaReg'[c].en = dmaReg[c].en
      /\ dmaReg'[c].chain = dmaReg[c].chain
      /\ dmaReg'[c].reload = dmaReg[c].reload
  <2>1. dmaReg[c] \in DmaRegisters
    BY <1>1 DEF DmaTypeOK
  <2> QED
    BY <1>3, <2>1 DEF DmaRegisters
<1>5. ASSUME c \notin dmaUpset'
      PROVE  AtRest(c)'
  <2>1. Runs(c) /\ "TFR" \in dmaRaw[c] /\ dmaPos'[c] = 0
    BY <1>2, <1>3, <1>5
  <2>2. ~dmaReg[c].en
    BY <2>1 DEF Runs
  <2>3. Owes(c)
    <3>1. CASE dmaReg[c].chain /\ dmaPrv[c].pending # 0
      BY <2>1, <3>1 DEF Runs, ChainRuns, Owes, Chained
    <3>2. CASE ~(dmaReg[c].chain /\ dmaPrv[c].pending # 0)
      BY <2>1, <3>2 DEF Owes
    <3> QED
      BY <3>1, <3>2
  <2>4. dmaOwed'[c] = 0
    BY <1>3, <2>1, <2>3 DEF Runs
  <2> QED
    BY <1>4, <2>1, <2>2, <2>4 DEF AtRest
<1>6. DmaChannelInv(c)'
  BY <1>1, <1>3, <1>4, <1>5 DEF DmaChannelInv
<1> QED
  BY <1>3, <1>6, DmaOthers

\* After an error of the bus nothing more is moved.
LEMMA BusErrorKeeps ==
  ASSUME DmaInv, NEW c \in DmaChannels, BusError(c)
  PROVE  DmaInv'
<1>1. DmaTypeOK /\ DmaChannelInv(c)
  BY DEF DmaInv
<1>2. /\ DmaTypeOK' /\ \A d \in DmaChannels \ {c} : DmaSame(d)
      /\ dmaPrv'[c] = dmaPrv[c] /\ dmaMask'[c] = dmaMask[c]
      /\ dmaState'[c] = dmaState[c] /\ dmaAsked'[c] = dmaAsked[c]
      /\ dmaPos'[c] = dmaPos[c] /\ dmaOwed'[c] = dmaOwed[c]
      /\ dmaReg'[c] = [dmaReg[c] EXCEPT !.en = FALSE]
      /\ dmaRaw'[c] = dmaRaw[c] \cup {"ERR"} /\ dmaUpset' = dmaUpset
  BY <1>1, BusErrorDoes
<1>3. /\ dmaReg'[c].llp = dmaReg[c].llp /\ ~dmaReg'[c].en
      /\ dmaReg'[c].chain = dmaReg[c].chain
      /\ dmaReg'[c].reload = dmaReg[c].reload
  <2>1. dmaReg[c] \in DmaRegisters
    BY <1>1 DEF DmaTypeOK
  <2> QED
    BY <1>2, <2>1 DEF DmaRegisters
<1>4. BlockMoved(c)' = BlockMoved(c) /\ (Owes(c)' <=> Owes(c)) /\ (Chained(c)' <=> Chained(c))
  BY <1>2, <1>3 DEF BlockMoved, Owes, Chained
<1>5. ChainRuns(c) => ChainRuns(c)'
  BY <1>2, <1>3, <1>4 DEF ChainRuns
<1>6. Reloads(c) => Reloads(c)'
  BY <1>2, <1>4 DEF Reloads
<1>7. LastRuns(c) => LastRuns(c)'
  BY <1>2, <1>3 DEF LastRuns
<1>8. ASSUME c \notin dmaUpset
      PROVE  dmaState[c] = "busy" /\ Runs(c)'
  <2>1. dmaState[c] = "busy" /\ Runs(c)
    BY <1>8, RunsIf DEF BusError
  <2> QED
    BY <1>2, <1>3, <1>4, <1>5, <1>6, <1>7, <2>1 DEF Runs
<1>9. CountsRight(c)' <=> CountsRight(c)
  BY <1>2, <1>3 DEF CountsRight
<1>10. DmaChannelInv(c)'
  BY <1>1, <1>2, <1>3, <1>4, <1>8, <1>9 DEF DmaChannelInv
<1> QED
  BY <1>2, <1>10, DmaOthers

\* A finished block: the handler counts it down, reports a finished buffer, and
\* ends the automatic reload one block ahead of the last.
LEMMA IsrBlockKeeps ==
  ASSUME DmaInv, NEW c \in DmaChannels, IsrBlock(c)
  PROVE  DmaInv'
<1> DEFINE p == dmaPrv[c].pending
           left == Decrement(p)
           done == dmaPrv[c].tail /\ left = 0
           size == dmaAsked[c].size
<1>1. /\ DmaTypeOK /\ DmaChannelInv(c)
      /\ dmaState[c] = "busy" /\ (c \notin dmaUpset => Runs(c))
  BY BusyIf DEF DmaInv, IsrBlock, DmaStatus
<1>2. "BLOCK" \in dmaRaw[c] /\ "BLOCK" \in dmaMask[c]
  BY DEF IsrBlock, DmaStatus
<1>3. c \notin dmaUpset => "TFR" \notin dmaRaw[c]
  <2>1. c \notin dmaUpset => "TFR" \in dmaMask[c] /\ "TFR" \notin DmaStatus(c)
    BY <1>1 DEF IsrBlock, StatusInt, Runs
  <2> QED
    BY <2>1 DEF DmaStatus
<1>4. /\ p \in Nat /\ size \in Nat /\ dmaAsked[c].all \in Nat
      /\ dmaPos[c] \in Nat
      /\ dmaReg[c].chain \in BOOLEAN /\ dmaReg[c].reload \in BOOLEAN
      /\ dmaPrv[c].tail \in BOOLEAN
  BY <1>1, DmaFields
<1>6. /\ DmaTypeOK' /\ \A d \in DmaChannels \ {c} : DmaSame(d)
      /\ dmaMask'[c] = dmaMask[c] /\ dmaState'[c] = dmaState[c]
      /\ dmaAsked'[c] = dmaAsked[c] /\ dmaPos'[c] = dmaPos[c]
      /\ dmaPrv'[c] = [dmaPrv[c] EXCEPT !.pending =
                         IF done THEN dmaPrv[c].perBuffer ELSE left]
      /\ dmaReg'[c] = [dmaReg[c] EXCEPT !.reload = @ /\ ~(~dmaPrv[c].tail /\ left = 1)]
      /\ dmaRaw'[c] = dmaRaw[c] \ {"BLOCK"}
      /\ dmaOwed'[c] = IF done THEN dmaOwed[c] - 1 ELSE dmaOwed[c]
      /\ dmaUpset' = dmaUpset
  BY <1>1, IsrBlockDoes
<1> HIDE DEF done, left
<1>7. /\ dmaPrv'[c].pending = IF done THEN dmaPrv[c].perBuffer ELSE left
      /\ dmaPrv'[c].perBuffer = dmaPrv[c].perBuffer
      /\ dmaPrv'[c].tail = dmaPrv[c].tail
      /\ dmaPrv'[c].circular = dmaPrv[c].circular
  <2>1. dmaPrv[c] \in DmaConfigs
    BY <1>1 DEF DmaTypeOK
  <2> QED
    BY <1>6, <2>1 DEF DmaConfigs
<1>8. /\ dmaReg'[c].llp = dmaReg[c].llp /\ dmaReg'[c].chain = dmaReg[c].chain
      /\ dmaReg'[c].en = dmaReg[c].en
      /\ dmaReg'[c].reload = (dmaReg[c].reload /\ ~(~dmaPrv[c].tail /\ left = 1))
  <2>1. dmaReg[c] \in DmaRegisters
    BY <1>1 DEF DmaTypeOK
  <2> QED
    BY <1>6, <2>1 DEF DmaRegisters
<1>5. Chained(c) => Chained(c)'
  BY <1>6, <1>7 DEF Chained
<1>9. CASE c \in dmaUpset
  <2>1. DmaChannelInv(c)'
    BY <1>1, <1>5, <1>6, <1>7, <1>8, <1>9 DEF DmaChannelInv
  <2> QED
    BY <1>6, <2>1, DmaOthers
<1>10. SUFFICES ASSUME c \notin dmaUpset
               PROVE  DmaInv'
  BY <1>9
<1>11. /\ p # 0 /\ BlockMoved(c) = 1 /\ p \in 1 .. MaxCount
       /\ dmaReg[c].chain \/ dmaReg[c].reload
       /\ dmaPrv[c].tail <=> dmaReg[c].chain
  <2>1. /\ p # 0 /\ BlockMoved(c) = 1
        /\ dmaReg[c].chain \/ dmaReg[c].reload
        /\ dmaPrv[c].tail <=> dmaReg[c].chain
    BY <1>1, <1>2, <1>3, <1>4, <1>10
    DEF Runs, ChainRuns, Chained, Reloads, LastRuns, BlockMoved, DmaChannelInv
  <2>2. p \in 0 .. MaxCount
    BY <1>1, DmaFields
  <2> QED
    BY <2>1, <2>2, MaxCountIs
<1>12. left \in Nat /\ p = left + 1
  <2>1. left = p - 1
    BY <1>11, DecrementIs DEF left
  <2> QED
    BY <1>4, <1>11, <2>1
<1>13. BlockMoved(c)' = 0 /\ "TFR" \notin dmaRaw'[c] /\ "BLOCK" \notin dmaRaw'[c] /\ ~Owes(c)'
  BY <1>3, <1>6, <1>10 DEF BlockMoved, Owes
<1>14. CASE dmaReg[c].chain
  <2>1. /\ ChainRuns(c) /\ Chained(c) /\ p \in 1 .. size
        /\ (dmaPos[c] + p - 1) % size = 0 /\ size \in Nat \ {0}
        /\ size = dmaPrv[c].perBuffer /\ dmaPrv[c].tail
    BY <1>1, <1>10, <1>11, <1>14, ChainedSize DEF Runs, ChainRuns
  <2>2. dmaPos[c] % size = 0 <=> left = 0
    <3>1. left < size /\ (dmaPos[c] + left) % size = 0
      <4>1. dmaPos[c] + p - 1 = dmaPos[c] + left
        BY <1>4, <1>12
      <4> QED
        BY <1>4, <1>12, <2>1, <4>1
    <3> QED
      BY <1>4, <1>12, <2>1, <3>1, ModShort
  <2>3. dmaOwed'[c] = 0
    <3>1. dmaOwed[c] = IF dmaPos[c] % size = 0 THEN 1 ELSE 0
      BY <1>1, <1>10, <1>2, <1>11, <1>14 DEF Runs, Owes
    <3> QED
      BY <1>6, <2>1, <2>2, <3>1 DEF done
  <2>4. /\ dmaPrv'[c].pending \in 1 .. size
        /\ (dmaPos[c] + dmaPrv'[c].pending - 0) % size = 0
    <3>1. CASE left = 0
      <4>1. dmaPrv'[c].pending = size
        BY <1>7, <2>1, <3>1 DEF done
      <4>2. (dmaPos[c] + size) % size = 0
        BY <1>4, <2>1, <2>2, <3>1, ModPlus
      <4>3. dmaPos[c] + size - 0 = dmaPos[c] + size /\ size \in 1 .. size
        BY <1>4, <2>1
      <4> QED
        BY <4>1, <4>2, <4>3
    <3>2. CASE left # 0
      <4>1. dmaPrv'[c].pending = left
        BY <1>7, <3>2 DEF done
      <4>2. dmaPos[c] + p - 1 = dmaPos[c] + left - 0
        BY <1>4, <1>12
      <4> QED
        BY <1>4, <1>12, <2>1, <3>2, <4>1, <4>2
    <3> QED
      BY <3>1, <3>2
  <2>5. ChainRuns(c)'
    <3>1. /\ dmaPos'[c] <= dmaAsked'[c].all
          /\ dmaReg'[c].en => dmaPos'[c] < dmaAsked'[c].all
      BY <1>6, <1>8, <2>1 DEF ChainRuns
    <3>2. dmaPrv'[c].pending # 0 /\ dmaPrv'[c].pending \in 1 .. dmaAsked'[c].size
      BY <1>4, <1>6, <2>4
    <3>3. (dmaPos'[c] + dmaPrv'[c].pending - BlockMoved(c)') % dmaAsked'[c].size = 0
      BY <1>6, <1>13, <2>4
    <3> QED
      BY <1>2, <1>6, <1>13, <1>5, <2>1, <3>1, <3>2, <3>3 DEF ChainRuns
  <2>6. Runs(c)'
    BY <1>1, <1>10, <1>6, <1>8, <1>13, <1>14, <2>3, <2>5 DEF Runs
  <2>7. DmaChannelInv(c)'
    BY <1>1, <1>10, <1>6, <1>7, <1>8, <1>5, <1>14, <2>6 DEF DmaChannelInv
  <2> QED
    BY <1>6, <2>7, DmaOthers
<1>15. CASE ~dmaReg[c].chain
  <2>1. Reloads(c) /\ dmaReg[c].reload /\ ~dmaPrv[c].tail
    BY <1>1, <1>10, <1>11, <1>15 DEF Runs
  <2>2. dmaOwed'[c] = 0 /\ dmaPrv'[c].pending = left
    BY <1>1, <1>10, <1>3, <1>6, <1>7, <1>15, <2>1 DEF Runs, Owes, done
  <2>3. /\ p \in 2 .. dmaAsked[c].all /\ dmaPos[c] + p = dmaAsked[c].all + 1
        /\ size = dmaAsked[c].all
    BY <1>11, <2>1 DEF Reloads
  <2>4. ASSUME left = 1
        PROVE  Runs(c)'
    <3>1. ~dmaReg'[c].reload
      BY <1>8, <2>1, <2>4
    <3>2. dmaPos[c] = dmaAsked[c].all - 1 /\ dmaAsked[c].all >= 1
      BY <1>4, <1>12, <2>3, <2>4
    <3>3. LastRuns(c)'
      BY <1>6, <1>8, <1>13, <2>3, <3>2 DEF LastRuns
    <3> QED
      BY <1>1, <1>10, <1>6, <1>8, <1>13, <1>15, <2>2, <3>1, <3>3 DEF Runs
  <2>5. ASSUME left # 1
        PROVE  Runs(c)'
    <3>1. dmaReg'[c].reload
      BY <1>8, <2>1, <2>5
    <3>2. left \in 2 .. dmaAsked[c].all /\ dmaPos[c] + left = dmaAsked[c].all + 0
      BY <1>4, <1>12, <2>3, <2>5
    <3>3. Reloads(c)'
      BY <1>2, <1>6, <1>13, <2>2, <2>3, <3>2 DEF Reloads
    <3> QED
      BY <1>1, <1>10, <1>6, <1>8, <1>13, <1>15, <2>2, <3>1, <3>3 DEF Runs
  <2>6. Runs(c)'
    BY <2>4, <2>5
  <2>7. DmaChannelInv(c)'
    BY <1>1, <1>10, <1>6, <1>7, <1>8, <1>5, <1>15, <2>6 DEF DmaChannelInv
  <2> QED
    BY <1>6, <2>7, DmaOthers
<1> QED
  BY <1>14, <1>15

\* A block is moved only while no interrupt of the channel is pending: of the
\* blocks that count, one at most is moved and not yet counted.
LEMMA MoveBlockKeeps ==
  ASSUME DmaInv, NEW c \in DmaChannels, MoveBlock(c)
  PROVE  DmaInv'
<1> DEFINE p == dmaPrv[c].pending
           size == dmaAsked[c].size
           all == dmaAsked[c].all
           next == dmaPos[c] + 1
           turn == dmaReg[c].chain /\ dmaPrv[c].circular /\ dmaPos[c] + 1 = all
           ends == size > 0 /\ (dmaPos[c] + 1) % size = 0
           last == LastBlock(c)
<1>0. DmaTypeOK /\ DmaChannelInv(c)
  BY DEF DmaInv
<1>4. /\ DmaTypeOK' /\ \A d \in DmaChannels \ {c} : DmaSame(d)
      /\ dmaPrv'[c] = dmaPrv[c] /\ dmaMask'[c] = dmaMask[c]
      /\ dmaState'[c] = dmaState[c] /\ dmaAsked'[c] = dmaAsked[c]
      /\ dmaReg'[c] = [dmaReg[c] EXCEPT !.en = ~last]
      /\ dmaRaw'[c] = dmaRaw[c] \cup {"BLOCK"} \cup (IF last THEN {"TFR"} ELSE {})
      /\ dmaPos'[c] = IF turn THEN 0 ELSE next
      /\ dmaOwed'[c] = IF ends THEN dmaOwed[c] + 1 ELSE dmaOwed[c]
      /\ dmaUpset' = dmaUpset
  BY <1>0, MoveBlockDoes
<1>5. /\ dmaReg'[c].llp = dmaReg[c].llp /\ dmaReg'[c].chain = dmaReg[c].chain
      /\ dmaReg'[c].en = ~last /\ dmaReg'[c].reload = dmaReg[c].reload
  <2>1. dmaReg[c] \in DmaRegisters
    BY <1>0 DEF DmaTypeOK
  <2> QED
    BY <1>4, <2>1 DEF DmaRegisters
<1>14. CASE c \in dmaUpset
  <2>1. (Chained(c)' <=> Chained(c)) /\ (CountsRight(c)' <=> CountsRight(c))
    BY <1>4, <1>5 DEF Chained, CountsRight
  <2>2. DmaChannelInv(c)'
    BY <1>0, <1>4, <1>5, <1>14, <2>1 DEF DmaChannelInv
  <2> QED
    BY <1>4, <2>2, DmaOthers
<1>15. SUFFICES ASSUME c \notin dmaUpset
                PROVE  DmaInv'
  BY <1>14
<1>1. dmaState[c] = "busy" /\ Runs(c) /\ dmaReg[c].en
  BY <1>15, RunsIf DEF MoveBlock
<1>2. /\ "TFR" \notin dmaRaw[c]
      /\ "BLOCK" \in dmaMask[c] => "BLOCK" \notin dmaRaw[c]
  BY <1>1 DEF MoveBlock, DmaStatus, Runs
<1>3. /\ p \in Nat /\ size \in Nat /\ all \in Nat /\ dmaPos[c] \in Nat
      /\ dmaReg[c].chain \in BOOLEAN /\ dmaReg[c].reload \in BOOLEAN
      /\ dmaPrv[c].tail \in BOOLEAN /\ dmaPrv[c].circular \in BOOLEAN
      /\ dmaReg[c].chain => ~dmaReg[c].reload
  BY <1>0, DmaFields DEF DmaChannelInv
<1>6. "BLOCK" \in dmaRaw'[c] /\ BlockMoved(c)' = 1 /\ ("TFR" \in dmaRaw'[c] <=> last)
  BY <1>2, <1>4 DEF BlockMoved
<1>7. Chained(c)' <=> Chained(c)
  BY <1>4 DEF Chained
<1>8. dmaOwed[c] = 0
  BY <1>1, <1>2 DEF Runs, Owes, ChainRuns
<1> HIDE DEF last
<1>9. SUFFICES Runs(c)'
  <2>1. ASSUME Runs(c)'
        PROVE  DmaChannelInv(c)'
    BY <1>0, <1>1, <1>4, <1>5, <1>7, <2>1 DEF DmaChannelInv
  <2> QED
    BY <1>4, <2>1, DmaOthers
<1>10. CASE dmaReg[c].chain /\ p = 0
  <2>1. /\ Chained(c) /\ ChainRuns(c) /\ dmaPos[c] < all /\ ~dmaPrv[c].circular
        /\ all = size /\ size \in Nat \ {0} /\ "BLOCK" \notin dmaMask[c]
    BY <1>1, <1>10, ChainedSize DEF Runs, ChainRuns
  <2>2. ~turn /\ (last <=> next = all) /\ dmaPos'[c] = next /\ next <= all
    BY <1>1, <1>3, <1>4, <1>10, <2>1 DEF last, LastBlock, Runs
  <2>3. ends <=> last
    BY <1>3, <2>1, <2>2, ModSelf, ModSmall
  <2>4. ChainRuns(c)'
    BY <1>3, <1>4, <1>5, <1>7, <1>10, <2>1, <2>2 DEF ChainRuns
  <2>5. dmaOwed'[c] = IF Owes(c)' THEN 1 ELSE 0
    BY <1>4, <1>5, <1>6, <1>8, <1>10, <2>3 DEF Owes
  <2> QED
    BY <1>1, <1>2, <1>4, <1>5, <1>6, <1>10, <2>2, <2>4, <2>5 DEF Runs
<1>11. CASE dmaReg[c].chain /\ p # 0
  <2>1. /\ Chained(c) /\ ChainRuns(c) /\ dmaPos[c] < all /\ size \in Nat \ {0}
        /\ "BLOCK" \in dmaMask[c] /\ p \in 1 .. size
        /\ all >= size /\ all % size = 0
    BY <1>1, <1>11, ChainedSize DEF Runs, ChainRuns
  <2>2. (dmaPos[c] + p) % size = 0
    <3>1. BlockMoved(c) = 0 /\ dmaPos[c] + p - 0 = dmaPos[c] + p
      BY <1>2, <1>3, <2>1 DEF BlockMoved
    <3> QED
      BY <1>11, <2>1, <3>1 DEF ChainRuns
  <2>3. ends <=> p = 1
    <3> DEFINE j == p - 1
    <3>1. j \in Nat /\ j < size /\ next \in Nat /\ (next + j) % size = 0
      <4>1. next + j = dmaPos[c] + p
        BY <1>3
      <4>2. (next + j) % size = 0
        BY <2>2, <4>1
      <4>3. j \in Nat /\ j < size /\ next \in Nat
        BY <1>3, <2>1
      <4> QED
        BY <4>2, <4>3
    <3>2. next % size = 0 <=> j = 0
      <4> HIDE DEF next, j
      <4> QED
        BY <2>1, <3>1, ModShort
    <3> QED
      BY <1>3, <2>1, <3>2
  <2>4. turn => ends
    BY <1>3, <2>1
  <2>5. (dmaPos'[c] + p - 1) % size = 0
    <3>1. CASE turn
      <4>1. dmaPos'[c] = 0 /\ p = 1
        BY <1>4, <2>3, <2>4, <3>1
      <4>2. dmaPos'[c] + p - 1 = 0
        BY <4>1
      <4> QED
        BY <2>1, <4>2, ModSelf
    <3>2. CASE ~turn
      <4>1. dmaPos'[c] = dmaPos[c] + 1
        BY <1>4, <3>2
      <4>2. dmaPos[c] + 1 + p - 1 = dmaPos[c] + p
        BY <1>3
      <4> QED
        BY <2>2, <4>1, <4>2
    <3> QED
      BY <3>1, <3>2
  <2>6. ends <=> dmaPos'[c] % size = 0
    <3>1. CASE turn
      BY <1>4, <2>1, <2>4, <3>1, ModSelf
    <3>2. CASE ~turn
      BY <1>3, <1>4, <2>1, <3>2
    <3> QED
      BY <3>1, <3>2
  <2>7. /\ dmaPos'[c] <= all /\ (~last => dmaPos'[c] < all)
        /\ last => dmaPos'[c] = all
    <3>1. last => dmaPos[c] + 1 = all /\ ~dmaPrv[c].circular
      BY <1>3, <1>11 DEF last, LastBlock
    <3>2. CASE turn
      <4>1. dmaPos'[c] = 0 /\ ~last
        BY <1>4, <3>1, <3>2
      <4>2. 0 < all
        BY <1>3, <2>1
      <4> QED
        BY <1>3, <4>1, <4>2
    <3>3. CASE ~turn
      <4>1. ~last => dmaPos[c] + 1 # all
        BY <1>3, <1>11, <3>3 DEF last, LastBlock
      <4> QED
        BY <1>3, <1>4, <2>1, <3>1, <3>3, <4>1
    <3> QED
      BY <3>2, <3>3
  <2>8. ChainRuns(c)'
    <3>1. (dmaPos'[c] + dmaPrv'[c].pending - BlockMoved(c)') % dmaAsked'[c].size = 0
      BY <1>4, <1>6, <2>5
    <3> QED
      BY <1>4, <1>5, <1>6, <1>7, <1>11, <2>1, <2>7, <3>1 DEF ChainRuns
  <2>9. dmaOwed'[c] = IF Owes(c)' THEN 1 ELSE 0
    BY <1>4, <1>5, <1>6, <1>8, <1>11, <2>6 DEF Owes
  <2> QED
    BY <1>1, <1>2, <1>4, <1>5, <1>6, <1>11, <2>7, <2>8, <2>9 DEF Runs
<1>12. CASE ~dmaReg[c].chain /\ dmaReg[c].reload
  <2>1. /\ Reloads(c) /\ "BLOCK" \in dmaMask[c] /\ p \in 2 .. all /\ size = all
    BY <1>1, <1>12 DEF Runs, Reloads
  <2>2. BlockMoved(c) = 0 /\ dmaPos[c] + p = all
    BY <1>2, <1>3, <2>1 DEF BlockMoved, Reloads
  <2>3. ~turn /\ ~last /\ dmaPos'[c] = next
    BY <1>4, <1>12 DEF last, LastBlock
  <2>4. ~ends
    <3>1. next \in Nat /\ next < size /\ size \in Nat \ {0} /\ next # 0
      BY <1>3, <2>1, <2>2
    <3>2. next % size = next
      <4> HIDE DEF next
      <4> QED
        BY <3>1, ModSmall
    <3> QED
      BY <3>1, <3>2
  <2>5. Reloads(c)'
    <3>1. dmaPos'[c] + p = all + 1
      BY <1>3, <2>2, <2>3
    <3> QED
      BY <1>4, <1>6, <2>1, <2>3, <3>1 DEF Reloads
  <2>6. dmaOwed'[c] = IF Owes(c)' THEN 1 ELSE 0
    BY <1>4, <1>5, <1>6, <1>8, <1>12, <2>3, <2>4 DEF Owes
  <2> QED
    BY <1>1, <1>2, <1>4, <1>5, <1>6, <1>12, <2>3, <2>5, <2>6 DEF Runs
<1>13. CASE ~dmaReg[c].chain /\ ~dmaReg[c].reload
  <2>1. LastRuns(c) /\ dmaPos[c] = all - 1 /\ size = all /\ all >= 1
    BY <1>1, <1>13 DEF Runs, LastRuns
  <2>2. ~turn /\ last /\ dmaPos'[c] = all
    BY <1>3, <1>4, <1>13, <2>1 DEF last, LastBlock
  <2>3. ends
    <3>1. next = size /\ size \in Nat \ {0}
      BY <1>3, <2>1
    <3> QED
      BY <3>1, ModSelf
  <2>4. LastRuns(c)'
    BY <1>3, <1>4, <1>5, <1>6, <2>1, <2>2 DEF LastRuns
  <2>5. dmaOwed'[c] = IF Owes(c)' THEN 1 ELSE 0
    BY <1>4, <1>5, <1>6, <1>8, <1>13, <2>2, <2>3 DEF Owes
  <2> QED
    BY <1>1, <1>2, <1>4, <1>5, <1>6, <1>13, <2>2, <2>4, <2>5 DEF Runs
<1> QED
  BY <1>3, <1>10, <1>11, <1>12, <1>13

\* The error handler turns off every channel it finds at fault.
LEMMA IsrErrorKeeps ==
  ASSUME DmaInv, IsrError
  PROVE  DmaInv'
<1> DEFINE bad == {c \in DmaChannels : "ERR" \in DmaStatus(c)}
<1>1. /\ dmaRaw' = [c \in DmaChannels |->
                      IF c \in bad THEN dmaRaw[c] \ {"ERR"} ELSE dmaRaw[c]]
      /\ dmaMask' = [c \in DmaChannels |-> IF c \in bad THEN {} ELSE dmaMask[c]]
      /\ dmaState' = [c \in DmaChannels |-> IF c \in bad THEN "off" ELSE dmaState[c]]
      /\ dmaOwed' = [c \in DmaChannels |-> IF c \in bad THEN 0 ELSE dmaOwed[c]]
      /\ dmaPos' = [c \in DmaChannels |-> IF c \in bad THEN 0 ELSE dmaPos[c]]
      /\ dmaAsked' = [c \in DmaChannels |-> IF c \in bad THEN NoBlocks ELSE dmaAsked[c]]
      /\ dmaPrv' = dmaPrv /\ dmaReg' = dmaReg /\ dmaUpset' = dmaUpset
  BY DEF IsrError
<1>2. ASSUME NEW c \in bad, c \notin dmaUpset
      PROVE  ~dmaReg[c].en
  BY <1>2, BusyIf DEF DmaStatus, Runs
<1> HIDE DEF bad
<1>3. DmaTypeOK'
  <2>1. NoBlocks \in DmaRequests /\ "off" \in DmaStates
    BY DEF NoBlocks, DmaRequests, DmaStates
  <2> QED
    BY <1>1, <2>1 DEF DmaInv, DmaTypeOK
<1>4. ASSUME NEW c \in DmaChannels
      PROVE  DmaChannelInv(c)'
  <2>1. DmaChannelInv(c)
    BY DEF DmaInv
  <2>2. CASE c \in bad
    <3>1. /\ dmaState'[c] = "off" /\ dmaPos'[c] = 0 /\ dmaOwed'[c] = 0
          /\ dmaMask'[c] = {} /\ dmaPrv'[c] = dmaPrv[c]
          /\ dmaReg'[c] = dmaReg[c] /\ dmaUpset' = dmaUpset
          /\ c \notin dmaUpset => ~dmaReg[c].en
      BY <1>1, <1>2, <2>2
    <3> QED
      BY <2>1, <3>1 DEF DmaChannelInv, AtRest
  <2>3. CASE c \notin bad
    BY <1>1, <2>1, <2>3, DmaFrame
  <2> QED
    BY <2>2, <2>3
<1> QED
  BY <1>3, <1>4 DEF DmaInv

\* Nothing is configured at first.
LEMMA DmaInitInv == DmaInit => DmaInv
<1> SUFFICES ASSUME DmaInit
             PROVE  DmaInv
  OBVIOUS
<1>1. DmaTypeOK
  <2>1. NoBlocks \in DmaRequests /\ "off" \in DmaStates
    BY DEF NoBlocks, DmaRequests, DmaStates
  <2>2. /\ [perBuffer |-> 0, pending |-> 0, tail |-> FALSE, circular |-> FALSE] \in DmaConfigs
        /\ [chain |-> FALSE, reload |-> FALSE, llp |-> FALSE, en |-> FALSE] \in DmaRegisters
    BY MaxCountIs DEF DmaConfigs, DmaRegisters
  <2> QED
    BY <2>1, <2>2 DEF DmaInit, DmaTypeOK
<1>2. ASSUME NEW c \in DmaChannels
      PROVE  DmaChannelInv(c)
  BY DEF DmaInit, DmaChannelInv, AtRest
<1> QED
  BY <1>1, <1>2 DEF DmaInv

\* DmaInv is inductive.
LEMMA DmaStepInv ==
  ASSUME DmaInv, [DmaNext]_dmaVars
  PROVE  DmaInv'
<1>1. CASE IsrError
  BY <1>1, IsrErrorKeeps
<1>2. CASE UNCHANGED dmaVars
  <2>1. ASSUME NEW c \in DmaChannels
        PROVE  DmaChannelInv(c)'
    BY <1>2, DmaFrame DEF dmaVars, DmaInv
  <2>2. DmaTypeOK'
    BY <1>2 DEF dmaVars, DmaInv, DmaTypeOK
  <2> QED
    BY <2>1, <2>2 DEF DmaInv
<1>3. ASSUME NEW c \in DmaChannels,
             \/ \E type \in DmaTypes : ChannelSetConfig(c, type)
             \/ TransferSetConfig(c)
             \/ \E n \in DmaBlocks : MultiTransferSetConfig(c, n)
      PROVE  DmaInv'
  BY <1>3, ChannelSetConfigKeeps, TransferSetConfigKeeps,
     MultiTransferSetConfigKeeps
<1>4. ASSUME NEW c \in DmaChannels, TransferStart(c) \/ TransferTerminate(c)
      PROVE  DmaInv'
  BY <1>4, TransferStartKeeps, TransferTerminateKeeps
<1>5. ASSUME NEW c \in DmaChannels, IsrTransfer(c) \/ IsrBlock(c)
      PROVE  DmaInv'
  BY <1>5, IsrTransferKeeps, IsrBlockKeeps
<1>6. ASSUME NEW c \in DmaChannels, MoveBlock(c) \/ BusError(c)
      PROVE  DmaInv'
  BY <1>6, MoveBlockKeeps, BusErrorKeeps
<1> QED
  BY <1>1, <1>2, <1>3, <1>4, <1>5, <1>6 DEF DmaNext

\* The counts of every channel stay right through configuration, blocks moved,
\* interrupts, errors and terminations of any number of channels: what the driver
\* still counts, what the controller has moved and what has been reported add up to
\* what was asked.  Only of a channel that met one of the two things named at the
\* head of Dma.tla is less said, and that until it is stopped: what is configured
\* is kept, and nothing is unmasked while it is not busy.
THEOREM DmaInvariance == DmaSpec => []DmaInv
<1>1. DmaInv /\ [DmaNext]_dmaVars => DmaInv'
  BY DmaStepInv
<1> QED
  BY <1>1, DmaInitInv, PTL DEF DmaSpec

\* The controller never moves more blocks than the client asked for: the handler,
\* which counts them in arrears, stops the automatic reload in time, unless there is
\* a single block or the end of another channel's transfer is taken for this one's.
THEOREM BlocksWithinBuffer == DmaSpec => []NeverPastBuffer
<1>1. ASSUME DmaInv
      PROVE  NeverPastBuffer
  <2> SUFFICES ASSUME NEW c \in DmaChannels \ dmaUpset
               PROVE  dmaPos[c] <= dmaAsked[c].all
    BY DEF NeverPastBuffer
  <2>1. /\ DmaTypeOK /\ DmaChannelInv(c)
        /\ dmaPos[c] \in Nat /\ dmaAsked[c].all \in Nat
        /\ dmaPrv[c].pending \in Nat
    BY <1>1, DmaFields DEF DmaInv
  <2>2. CASE dmaState[c] # "busy"
    BY <2>1, <2>2 DEF DmaChannelInv, AtRest
  <2>3. CASE dmaState[c] = "busy" /\ dmaReg[c].chain
    BY <2>1, <2>3 DEF DmaChannelInv, Runs, ChainRuns
  <2>4. CASE dmaState[c] = "busy" /\ ~dmaReg[c].chain /\ dmaReg[c].reload
    <3>1. dmaPrv[c].pending >= 2 /\ BlockMoved(c) \in {0, 1}
          /\ dmaPos[c] + dmaPrv[c].pending = dmaAsked[c].all + BlockMoved(c)
      BY <2>1, <2>4 DEF DmaChannelInv, Runs, Reloads, BlockMoved
    <3> QED
      BY <2>1, <3>1
  <2>5. CASE dmaState[c] = "busy" /\ ~dmaReg[c].chain /\ ~dmaReg[c].reload
    <3>1. dmaPos[c] \in {dmaAsked[c].all - 1, dmaAsked[c].all}
      BY <2>1, <2>5 DEF DmaChannelInv, Runs, LastRuns
    <3> QED
      BY <2>1, <3>1
  <2> QED
    BY <2>2, <2>3, <2>4, <2>5
<1> QED
  BY <1>1, DmaInvariance, PTL

\* A finished buffer is called back for exactly once: none is reported before its
\* last block and a second one is never due before the first has been reported, with
\* the same two exceptions.
THEOREM BuffersReportedOnce == DmaSpec => []OneCallbackPerBuffer
<1>1. ASSUME DmaInv
      PROVE  OneCallbackPerBuffer
  <2> SUFFICES ASSUME NEW c \in DmaChannels \ dmaUpset
               PROVE  /\ dmaOwed[c] \in {0, 1}
                      /\ dmaOwed[c] = 1 => dmaState[c] = "busy" /\ DmaStatus(c) # {}
    BY DEF OneCallbackPerBuffer
  <2>1. DmaChannelInv(c)
    BY <1>1 DEF DmaInv
  <2>2. CASE dmaState[c] # "busy"
    BY <2>1, <2>2 DEF DmaChannelInv, AtRest
  <2>3. CASE dmaState[c] = "busy" /\ ~Owes(c)
    BY <2>1, <2>3 DEF DmaChannelInv, Runs
  <2>4. CASE dmaState[c] = "busy" /\ Owes(c)
    <3>1. Runs(c) /\ dmaOwed[c] = 1
      BY <2>1, <2>4 DEF DmaChannelInv, Runs
    <3>2. CASE dmaReg[c].chain /\ dmaPrv[c].pending # 0
      BY <2>4, <3>1, <3>2 DEF Owes, Runs, ChainRuns, DmaStatus
    <3>3. CASE ~(dmaReg[c].chain /\ dmaPrv[c].pending # 0)
      BY <2>4, <3>1, <3>3 DEF Owes, Runs, DmaStatus
    <3> QED
      BY <2>4, <3>1, <3>2, <3>3
  <2> QED
    BY <2>2, <2>3, <2>4
<1> QED
  BY <1>1, DmaInvariance, PTL

-----------------------------------------------------------------------------
(* The ADC.                                                                *)

\* Samples of which none follows a lost one stay so in what is put together, cut
\* off or appended.
LEMMA WholeParts ==
  ASSUME NEW S, NEW s \in Seq(S), Whole(s)
  PROVE  /\ \A t \in Seq(S) : Whole(t) => Whole(s \o t)
         /\ \A e \in S : e.whole => Whole(Append(s, e))
         /\ \A n \in 0 .. Len(s) : /\ Whole(SubSeq(s, 1, n))
                                   /\ Whole(SubSeq(s, n + 1, Len(s)))
BY DEF Whole

LEMMA WholeEmpty == Whole(<<>>)
BY DEF Whole

\* What the handler reads of the FIFO, and what it leaves.
LEMMA AdcReads ==
  ASSUME AdcTypeOK
  PROVE  /\ adcXfer.len \in Nat /\ Len(adcSamples) \in Nat
         /\ Len(adcFifo) \in Nat
         /\ AdcToRead \in 0 .. Len(adcFifo)
         /\ Len(adcSamples) + AdcToRead <= adcXfer.len
         /\ Len(adcSamples) = adcXfer.len => AdcToRead = 0
         /\ SubSeq(adcFifo, 1, AdcToRead) \in Seq(AdcSamplesOf)
         /\ Len(SubSeq(adcFifo, 1, AdcToRead)) = AdcToRead
         /\ SubSeq(adcFifo, AdcToRead + 1, Len(adcFifo)) \in Seq(AdcSamplesOf)
         /\ Len(SubSeq(adcFifo, AdcToRead + 1, Len(adcFifo))) <= Len(adcFifo)
<1>1. adcXfer.len \in Nat
  <2>1. adcXfer \in AdcTransfers \/ adcXfer = NoAdcXfer
    BY DEF AdcTypeOK
  <2>2. NoAdcXfer.len \in Nat
    BY DEF NoAdcXfer
  <2>3. \A x \in AdcTransfers : x.len \in Nat
    BY AdcAssumption DEF AdcTransfers
  <2> QED
    BY <2>1, <2>2, <2>3
<1>2. /\ adcFifo \in Seq(AdcSamplesOf) /\ adcSamples \in Seq(AdcSamplesOf)
      /\ Len(adcSamples) <= adcXfer.len
  BY DEF AdcTypeOK
<1>3. Len(adcSamples) \in Nat /\ Len(adcFifo) \in Nat
  BY <1>2
<1>4. /\ AdcToRead \in 0 .. Len(adcFifo)
      /\ Len(adcSamples) + AdcToRead <= adcXfer.len
      /\ Len(adcSamples) = adcXfer.len => AdcToRead = 0
  BY <1>1, <1>2, <1>3 DEF AdcToRead, AdcLeast
<1> HIDE DEF AdcToRead
<1> QED
  BY <1>1, <1>2, <1>3, <1>4

\* The tables of the sequencer that a conversion is set up with.
LEMMA AdcTables ==
  ASSUME AdcTypeOK, NEW x \in AdcTransfers, AdcSetupTable(x.ch)
  PROVE  /\ adcSeq' \in [AdcSlots -> [ch : SUBSET UNION AdcChannels, last : BOOLEAN]]
         /\ x.len \in Nat /\ 1 \in AdcSlots
         /\ \E i \in AdcSlots : i >= 1 /\ adcSeq'[i].last
<1>1. PICK n \in 1 .. AdcMaxChannels : x.ch \in [1 .. n -> AdcChannels]
  BY DEF AdcTransfers, AdcSequences
<1>2. Len(x.ch) = n
  BY <1>1
<1>3. n \in AdcSlots /\ n >= 1 /\ 1 \in AdcSlots
  BY AdcAssumption DEF AdcSlots
<1>4. ASSUME NEW i \in AdcSlots
      PROVE  (IF i > Len(x.ch) THEN adcSeq[i]
              ELSE [ch |-> adcSeq[i].ch \cup x.ch[i], last |-> i = Len(x.ch)])
                \in [ch : SUBSET UNION AdcChannels, last : BOOLEAN]
  <2>1. CASE i > Len(x.ch)
    BY <2>1 DEF AdcTypeOK
  <2>2. CASE ~(i > Len(x.ch))
    <3>1. i \in 1 .. n
      BY <1>2, <2>2 DEF AdcSlots
    <3>2. x.ch[i] \in AdcChannels /\ adcSeq[i].ch \in SUBSET UNION AdcChannels
      BY <1>1, <3>1 DEF AdcTypeOK
    <3> QED
      BY <2>2, <3>2
  <2> QED
    BY <2>1, <2>2
<1>5. adcSeq' \in [AdcSlots -> [ch : SUBSET UNION AdcChannels, last : BOOLEAN]]
  BY <1>4 DEF AdcSetupTable
<1>6. adcSeq'[n].last
  <2>1. adcSeq'[n] = [ch |-> adcSeq[n].ch \cup x.ch[n], last |-> n = Len(x.ch)]
    BY <1>2, <1>3 DEF AdcSetupTable
  <2>2. adcSeq'[n].last = (n = Len(x.ch))
    BY <2>1
  <2> QED
    BY <1>2, <2>2
<1> QED
  BY <1>3, <1>5, <1>6, AdcAssumption DEF AdcTransfers

\* The table of a conversion that has none of its own.
LEMMA AdcZeroTable ==
  ASSUME AdcTypeOK, AdcSeqZero
  PROVE  adcSeq' \in [AdcSlots -> [ch : SUBSET UNION AdcChannels, last : BOOLEAN]]
<1>1. AdcSeqDefault \in [ch : SUBSET UNION AdcChannels, last : BOOLEAN]
  BY DEF AdcSeqDefault
<1> QED
  BY <1>1 DEF AdcSeqZero, AdcTypeOK

\* The sequencer takes a sample: into the FIFO, or lost with its overflow told.
LEMMA AdcSampleKeeps ==
  ASSUME AdcInv, AdcSample, UNCHANGED <<adcDriver, adcIsr, adcGhost>>
  PROVE  AdcInv'
<1> DEFINE e == [ch |-> adcSeq[adcPos].ch, whole |-> ~adcLost]
           round == adcTaken + 1 = FIFO_INTERRUPT_THRESHOLD
           full == Len(adcFifo) = QM_ADC_FIFO_LEN
<1>1. /\ adcRuns = "cont" /\ adcSeq' = adcSeq /\ adcRuns' = adcRuns
      /\ adcEnable' = adcEnable /\ adcMode' = adcMode /\ adcModeTo' = adcModeTo
      /\ adcXfer' = adcXfer /\ adcSamples' = adcSamples /\ adcDummy' = adcDummy
      /\ adcAt' = adcAt /\ adcSnap' = adcSnap
      /\ adcOp' = adcOp /\ adcGot' = adcGot /\ adcData' = adcData
      /\ adcPos' = (IF adcSeq[adcPos].last THEN 1 ELSE adcPos + 1)
      /\ adcTaken' = (IF round THEN 0 ELSE adcTaken + 1)
      /\ adcFifo' = (IF full THEN adcFifo ELSE Append(adcFifo, e))
      /\ adcLost' = (adcLost \/ full)
      /\ adcStatus' = adcStatus \cup (IF round THEN {"CONT_CC"} ELSE {})
                                \cup (IF full THEN {"FO"} ELSE {})
  BY DEF AdcSample, adcDriver, adcIsr, adcGhost
<1>2. /\ adcPos \in AdcSlots /\ adcTaken \in 0 .. FIFO_INTERRUPT_THRESHOLD - 1
      /\ adcFifo \in Seq(AdcSamplesOf) /\ Len(adcFifo) <= QM_ADC_FIFO_LEN
      /\ adcLost \in BOOLEAN
      /\ QM_ADC_FIFO_LEN \in Nat \ {0} /\ FIFO_INTERRUPT_THRESHOLD \in Nat \ {0}
  BY AdcAssumption DEF AdcInv, AdcTypeOK
<1>3. e \in AdcSamplesOf /\ e.whole = ~adcLost
  BY <1>2 DEF AdcSamplesOf, AdcInv, AdcTypeOK
<1>4. PICK i \in AdcSlots : i >= adcPos /\ adcSeq[i].last
  BY <1>1 DEF AdcInv, AdcInTable
<1> HIDE DEF e
<1>5. /\ adcPos' \in AdcSlots
      /\ \E j \in AdcSlots : j >= adcPos' /\ adcSeq[j].last
  <2>1. CASE adcSeq[adcPos].last
    <3>1. adcPos' = 1
      BY <1>1, <2>1
    <3>2. 1 \in AdcSlots /\ i >= 1
      BY <1>2, <1>4 DEF AdcSlots
    <3> QED
      BY <1>4, <3>1, <3>2
  <2>2. CASE ~adcSeq[adcPos].last
    <3>1. adcPos' = adcPos + 1 /\ i # adcPos
      BY <1>1, <1>4, <2>2
    <3>2. adcPos + 1 \in AdcSlots /\ i >= adcPos + 1
      BY <1>2, <1>4, <3>1 DEF AdcSlots
    <3> QED
      BY <1>4, <3>1, <3>2
  <2> QED
    BY <2>1, <2>2
<1>6. adcTaken' \in 0 .. FIFO_INTERRUPT_THRESHOLD - 1
  BY <1>1, <1>2
<1>7. adcFifo' \in Seq(AdcSamplesOf) /\ Len(adcFifo') <= QM_ADC_FIFO_LEN
  BY <1>1, <1>2, <1>3
<1>8. AdcTypeOK'
  <2>1. adcLost' \in BOOLEAN
    BY <1>1
  <2>2. adcStatus' \cup adcEnable' \cup adcSnap' \subseteq {"FO", "CONT_CC", "CC"}
    BY <1>1 DEF AdcInv, AdcTypeOK
  <2> QED
    BY <1>1, <1>5, <1>6, <1>7, <2>1, <2>2 DEF AdcInv, AdcTypeOK
<1>9. AdcOperation' /\ AdcInTable' /\ AdcCopied'
  BY <1>1, <1>5 DEF AdcInv, AdcOperation, AdcInTable, AdcCopied
<1>10. AdcOverflowTold'
  <2>1. CASE full
    <3>1. adcFifo' = adcFifo /\ "FO" \in adcStatus'
      BY <1>1, <2>1
    <3> QED
      BY <1>1, <2>1, <3>1 DEF AdcInv, AdcOverflowTold
  <2>2. CASE ~full
    <3>1. /\ adcFifo' = Append(adcFifo, e) /\ adcLost' = adcLost
          /\ "FO" \in adcStatus' <=> "FO" \in adcStatus
      BY <1>1, <1>2, <2>2
    <3>2. Whole(adcFifo) /\ ~adcLost => Whole(adcFifo')
      BY <1>2, <1>3, <3>1, WholeParts
    <3> QED
      BY <1>1, <2>2, <3>1, <3>2 DEF AdcInv, AdcOverflowTold
  <2> QED
    BY <2>1, <2>2
<1> QED
  BY <1>8, <1>9, <1>10 DEF AdcInv

\* A command of the converter ends.
LEMMA AdcCommandDoneKeeps ==
  ASSUME AdcInv, AdcCommandDone, UNCHANGED <<adcDriver, adcIsr, adcGhost>>
  PROVE  AdcInv'
<1>1. /\ adcRuns \in {"single", "cal"} /\ adcRuns' = "none"
      /\ adcSeq' = adcSeq /\ adcPos' = adcPos /\ adcTaken' = adcTaken
      /\ adcLost' = adcLost
      /\ adcEnable' = adcEnable /\ adcMode' = adcMode /\ adcModeTo' = adcModeTo
      /\ adcXfer' = adcXfer /\ adcSamples' = adcSamples /\ adcDummy' = adcDummy
      /\ adcAt' = adcAt /\ adcSnap' = adcSnap
      /\ adcOp' = adcOp /\ adcGot' = adcGot /\ adcData' = adcData
      /\ adcStatus' = adcStatus \cup {"CC"}
      /\ adcFifo' = (IF adcRuns = "single"
                     THEN <<[ch |-> adcSeq[1].ch, whole |-> TRUE]>> ELSE adcFifo)
  BY DEF AdcCommandDone, adcTable, adcDriver, adcIsr, adcGhost
<1>2. /\ adcFifo' \in Seq(AdcSamplesOf) /\ Len(adcFifo') <= QM_ADC_FIFO_LEN
      /\ Whole(adcFifo) => Whole(adcFifo')
  <2>1. CASE adcRuns = "single"
    <3> DEFINE e == [ch |-> adcSeq[1].ch, whole |-> TRUE]
    <3>1. e \in AdcSamplesOf /\ e.whole
      BY AdcAssumption DEF AdcInv, AdcTypeOK, AdcSlots, AdcSamplesOf
    <3> HIDE DEF e
    <3>2. Whole(<<e>>) /\ <<e>> \in Seq(AdcSamplesOf) /\ Len(<<e>>) = 1
      BY <3>1 DEF Whole
    <3>3. adcFifo' = <<e>>
      BY <1>1, <2>1 DEF e
    <3> QED
      BY <3>2, <3>3, AdcAssumption
  <2>2. CASE adcRuns # "single"
    BY <1>1, <2>2 DEF AdcInv, AdcTypeOK
  <2> QED
    BY <2>1, <2>2
<1>3. AdcTypeOK'
  <2>1. adcStatus' \cup adcEnable' \cup adcSnap' \subseteq {"FO", "CONT_CC", "CC"}
    BY <1>1 DEF AdcInv, AdcTypeOK
  <2> QED
    BY <1>1, <1>2, <2>1 DEF AdcInv, AdcTypeOK
<1>4. AdcOperation' /\ AdcInTable' /\ AdcCopied'
  BY <1>1 DEF AdcInv, AdcOperation, AdcInTable, AdcCopied
<1>5. AdcOverflowTold'
  <2>1. adcOp # "convert"
    BY <1>1 DEF AdcInv, AdcOperation
  <2>2. "FO" \in adcStatus' <=> "FO" \in adcStatus
    BY <1>1
  <2> QED
    BY <1>1, <1>2, <2>1, <2>2 DEF AdcInv, AdcOverflowTold
<1> QED
  BY <1>3, <1>4, <1>5 DEF AdcInv

\* A conversion begins with an empty FIFO and no overflow told.
LEMMA AdcIrqConvertKeeps ==
  ASSUME AdcInv, NEW x \in AdcTransfers, AdcIrqConvert(x)
  PROVE  AdcInv'
<1>1. /\ adcOp = "none" /\ adcAt = "idle"
      /\ adcXfer' = x /\ adcSamples' = <<>> /\ adcFifo' = <<>>
      /\ adcStatus' = {} /\ adcEnable' = {"FO", "CONT_CC"}
      /\ adcRuns' = "cont" /\ adcPos' = 1 /\ adcTaken' = 0 /\ adcLost' = FALSE
      /\ adcOp' = "convert" /\ adcGot' = "none" /\ adcData' = adcData
      /\ adcMode' = adcMode /\ adcModeTo' = adcModeTo /\ adcDummy' = adcDummy
      /\ adcAt' = adcAt /\ adcSnap' = adcSnap
  BY DEF AdcIrqConvert, AdcFree, AdcBegin, adcIsr
<1>2. /\ adcSeq' \in [AdcSlots -> [ch : SUBSET UNION AdcChannels, last : BOOLEAN]]
      /\ x.len \in Nat /\ 1 \in AdcSlots
      /\ \E i \in AdcSlots : i >= 1 /\ adcSeq'[i].last
  BY AdcTables DEF AdcIrqConvert, AdcInv
<1>3. Whole(<<>>) /\ <<>> \in Seq(AdcSamplesOf) /\ Len(<<>>) = 0
  BY WholeEmpty
<1>4. AdcTypeOK'
  <2>1. adcStatus' \cup adcEnable' \cup adcSnap' \subseteq {"FO", "CONT_CC", "CC"}
    BY <1>1 DEF AdcInv, AdcTypeOK
  <2>2. 0 \in 0 .. FIFO_INTERRUPT_THRESHOLD - 1 /\ 0 <= QM_ADC_FIFO_LEN /\ 0 <= x.len
    BY <1>2, AdcAssumption
  <2> QED
    BY <1>1, <1>2, <1>3, <2>1, <2>2 DEF AdcInv, AdcTypeOK
<1>5. AdcOperation' /\ AdcInTable' /\ AdcCopied' /\ AdcOverflowTold'
  BY <1>1, <1>2, <1>3
  DEF AdcInv, AdcOperation, AdcInTable, AdcCopied, AdcOverflowTold
<1> QED
  BY <1>4, <1>5 DEF AdcInv

\* The calls that begin no conversion: they wait until nothing is under way.
LEMMA AdcCallKeeps ==
  ASSUME AdcInv, AdcFree,
         \/ \E x \in AdcTransfers : AdcConvert(x)
         \/ AdcIrqCalibrate \/ AdcCalibrate
         \/ \E mode \in {"low", "normal"} : AdcIrqSetMode(mode) \/ AdcSetMode(mode)
  PROVE  AdcInv'
<1> USE DEF AdcInv
<1>1. adcOp = "none" /\ adcAt = "idle" /\ adcRuns # "cont"
      /\ adcModeTo = "none" /\ ~adcDummy
  BY DEF AdcFree, AdcOperation
<1>2. /\ adcPos' = adcPos /\ adcTaken' = adcTaken /\ adcLost' = adcLost
      /\ adcXfer' = adcXfer /\ adcSamples' = adcSamples /\ adcDummy' = adcDummy
      /\ adcAt' = adcAt /\ adcSnap' = adcSnap /\ adcGot' = adcGot
      /\ adcData' = adcData
  BY DEF AdcConvert, AdcIrqCalibrate, AdcCalibrate, AdcIrqSetMode, AdcSetMode,
     AdcBegin,
     adcTable, adcDriver, adcIsr, adcGhost
<1>3. /\ adcSeq' \in [AdcSlots -> [ch : SUBSET UNION AdcChannels, last : BOOLEAN]]
      /\ adcFifo' \in {adcFifo, <<>>}
  <2>1. CASE \E x \in AdcTransfers : AdcConvert(x)
    BY <2>1, AdcTables DEF AdcConvert
  <2>2. CASE \E mode \in {"low", "normal"} : AdcSetMode(mode)
    BY <2>2, AdcZeroTable DEF AdcSetMode, AdcTypeOK
  <2>3. CASE \/ AdcIrqCalibrate \/ AdcCalibrate
             \/ \E mode \in {"low", "normal"} : AdcIrqSetMode(mode)
    BY <2>3
    DEF AdcIrqCalibrate, AdcCalibrate, AdcIrqSetMode, adcTable, AdcTypeOK
  <2> QED
    BY <2>1, <2>2, <2>3
<1>4. adcStatus' \in {adcStatus, adcStatus \ {"CC"}}
  BY DEF AdcConvert, AdcIrqCalibrate, AdcCalibrate, AdcIrqSetMode, AdcSetMode
<1>5. \/ /\ adcRuns' = adcRuns /\ adcOp' = adcOp /\ adcModeTo' = adcModeTo
         /\ adcEnable' = adcEnable /\ adcMode' \in {adcMode, "low", "normal"}
      \/ /\ adcRuns' = "cal" /\ adcOp' = "calibrate" /\ adcModeTo' = adcModeTo
         /\ adcEnable' = adcEnable \cup {"CC"} /\ adcMode' = adcMode
      \/ /\ adcRuns' = adcRuns /\ adcOp' = "mode" /\ adcModeTo' \in {"low", "normal"}
         /\ adcEnable' \in {adcEnable, adcEnable \cup {"CC"}}
         /\ adcMode' = adcMode
  BY DEF AdcConvert, AdcIrqCalibrate, AdcCalibrate, AdcIrqSetMode, AdcSetMode,
     AdcBegin,
     adcTable, adcGhost
<1>6. /\ adcFifo' \in Seq(AdcSamplesOf) /\ Len(adcFifo') <= QM_ADC_FIFO_LEN
      /\ Whole(adcFifo) => Whole(adcFifo')
  <2>1. CASE adcFifo' = adcFifo
    BY <2>1 DEF AdcTypeOK
  <2>2. CASE adcFifo' = <<>>
    <3>1. <<>> \in Seq(AdcSamplesOf) /\ Len(<<>>) = 0 /\ 0 <= QM_ADC_FIFO_LEN
      BY AdcAssumption
    <3> QED
      BY <2>2, <3>1, WholeEmpty
  <2> QED
    BY <1>3, <2>1, <2>2
<1>7. AdcTypeOK'
  <2>1. adcStatus' \cup adcEnable' \cup adcSnap' \subseteq {"FO", "CONT_CC", "CC"}
    BY <1>2, <1>4, <1>5 DEF AdcTypeOK
  <2>2. /\ adcRuns' \in {"none", "single", "cont", "cal"}
        /\ adcMode' \in {"low", "normal"}
        /\ adcModeTo' \in {"none", "low", "normal"}
        /\ adcOp' \in {"none", "convert", "calibrate", "mode"}
    BY <1>5 DEF AdcTypeOK
  <2> QED
    BY <1>2, <1>3, <1>6, <2>1, <2>2 DEF AdcTypeOK
<1>8. adcOp' # "convert" /\ adcRuns' # "cont"
  BY <1>1, <1>5
<1>9. AdcOperation' /\ AdcInTable' /\ AdcCopied'
  BY <1>1, <1>2, <1>5, <1>8 DEF AdcOperation, AdcInTable, AdcCopied
<1>10. AdcOverflowTold'
  <2>1. "FO" \in adcStatus' <=> "FO" \in adcStatus
    BY <1>4
  <2> QED
    BY <1>2, <1>6, <1>8, <2>1 DEF AdcOverflowTold
<1> QED
  BY <1>7, <1>9, <1>10

\* The handler of a change of mode.
LEMMA AdcPowerIsrKeeps ==
  ASSUME AdcInv, AdcPowerIsr
  PROVE  AdcInv'
<1> USE DEF AdcInv
<1>1. /\ adcModeTo # "none" /\ adcAt = "idle" /\ adcOp = "mode"
      /\ adcRuns # "cont"
  BY DEF AdcPowerIsr, AdcOperation
<1>2. /\ adcMode' = adcModeTo /\ adcModeTo' = "none"
      /\ adcPos' = adcPos /\ adcTaken' = adcTaken /\ adcLost' = adcLost
      /\ adcFifo' = adcFifo /\ adcEnable' = adcEnable /\ adcXfer' = adcXfer
      /\ adcSamples' = adcSamples /\ adcAt' = adcAt /\ adcSnap' = adcSnap
  BY DEF AdcPowerIsr, adcIsr
<1>3. /\ adcSeq' \in [AdcSlots -> [ch : SUBSET UNION AdcChannels, last : BOOLEAN]]
      /\ adcStatus' \in {adcStatus, adcStatus \ {"CC"}}
  BY AdcZeroTable DEF AdcPowerIsr, AdcTypeOK
<1>4. \/ /\ adcDummy' = TRUE /\ adcRuns' = "single"
         /\ adcOp' = adcOp /\ adcGot' = adcGot /\ adcData' = adcData
      \/ /\ adcDummy' = adcDummy /\ adcRuns' = adcRuns /\ adcOp' = "none"
         /\ adcGot' = adcGot /\ adcData' \in {"undefined", "convert"}
         /\ ~adcDummy
  BY <1>1 DEF AdcPowerIsr, AdcReport, adcGhost, AdcOperation
<1>5. AdcTypeOK'
  <2>1. adcStatus' \cup adcEnable' \cup adcSnap' \subseteq {"FO", "CONT_CC", "CC"}
    BY <1>2, <1>3 DEF AdcTypeOK
  <2>2. /\ adcRuns' \in {"none", "single", "cont", "cal"}
        /\ adcDummy' \in BOOLEAN
        /\ adcOp' \in {"none", "convert", "calibrate", "mode"}
        /\ adcData' \in {"none", "undefined", "convert"} /\ adcGot' = adcGot
    BY <1>4 DEF AdcTypeOK
  <2>3. adcMode' \in {"low", "normal"} /\ adcModeTo' \in {"none", "low", "normal"}
    BY <1>1, <1>2 DEF AdcTypeOK
  <2> QED
    BY <1>2, <1>3, <2>1, <2>2, <2>3 DEF AdcTypeOK
<1>6. AdcOperation' /\ AdcInTable' /\ AdcCopied'
  BY <1>1, <1>2, <1>4 DEF AdcOperation, AdcInTable, AdcCopied
<1>7. AdcOverflowTold'
  <2>1. "FO" \in adcStatus' <=> "FO" \in adcStatus
    BY <1>3
  <2> QED
    BY <1>1, <1>2, <1>4, <2>1 DEF AdcOverflowTold
<1> QED
  BY <1>5, <1>6, <1>7

\* The handler looks once at what is to be told.
LEMMA AdcIsrEnterKeeps ==
  ASSUME AdcInv, AdcIsrEnter
  PROVE  AdcInv'
<1> USE DEF AdcInv
<1>1. /\ adcAt = "idle" /\ adcAt' = "fo" /\ adcSnap' = adcStatus
      /\ adcSeq' = adcSeq /\ adcPos' = adcPos /\ adcTaken' = adcTaken
      /\ adcLost' = adcLost
      /\ adcRuns' = adcRuns /\ adcFifo' = adcFifo /\ adcStatus' = adcStatus
      /\ adcEnable' = adcEnable /\ adcMode' = adcMode /\ adcModeTo' = adcModeTo
      /\ adcXfer' = adcXfer /\ adcSamples' = adcSamples /\ adcDummy' = adcDummy
      /\ adcOp' = adcOp /\ adcGot' = adcGot /\ adcData' = adcData
  BY DEF AdcIsrEnter, adcChip, adcTable, adcDriver, adcGhost
<1>2. AdcTypeOK'
  BY <1>1 DEF AdcTypeOK
<1>3. AdcOperation' /\ AdcInTable' /\ AdcCopied'
  BY <1>1 DEF AdcOperation, AdcInTable, AdcCopied
<1>4. AdcOverflowTold'
  BY <1>1 DEF AdcOverflowTold
<1> QED
  BY <1>2, <1>3, <1>4

\* The end of a conversion, which only stops one that was under way.
LEMMA AdcStopDoes ==
  ASSUME AdcInv, NEW outcome \in {"done", "failed"}, AdcStop(outcome)
  PROVE  /\ adcRuns' = "none" /\ adcEnable' = {}
         /\ adcData' \in {"undefined", "convert"}
         /\ adcOp' = IF adcOp = "convert" THEN "none" ELSE adcOp
         /\ adcGot' = IF adcOp = "convert" THEN outcome ELSE adcGot
BY DEF AdcStop, AdcReport

\* It ends the conversion when an overflow is, ...
LEMMA AdcIsrOverrunKeeps ==
  ASSUME AdcInv, AdcIsrOverrun
  PROVE  AdcInv'
<1> USE DEF AdcInv
<1>1. /\ adcAt = "fo" /\ adcAt' = "cont" /\ adcSnap' = adcSnap
      /\ adcSeq' = adcSeq /\ adcPos' = adcPos /\ adcTaken' = adcTaken
      /\ adcLost' = adcLost
      /\ adcFifo' = adcFifo /\ adcStatus' = adcStatus
      /\ adcMode' = adcMode /\ adcModeTo' = adcModeTo
      /\ adcXfer' = adcXfer /\ adcSamples' = adcSamples /\ adcDummy' = adcDummy
  BY DEF AdcIsrOverrun, adcTable, adcDriver
<1>2. CASE "FO" \in adcSnap
  <2>1. /\ adcRuns' = "none" /\ adcEnable' = {}
        /\ adcData' \in {"undefined", "convert"}
        /\ adcOp' = (IF adcOp = "convert" THEN "none" ELSE adcOp)
        /\ adcGot' = (IF adcOp = "convert" THEN "failed" ELSE adcGot)
    BY <1>2, AdcStopDoes DEF AdcIsrOverrun, Overrun
  <2>2. adcOp' # "convert" /\ (adcGot' = "done" => adcGot = "done")
    BY <2>1
  <2>3. AdcTypeOK'
    <3>1. adcStatus' \cup adcEnable' \cup adcSnap' \subseteq {"FO", "CONT_CC", "CC"}
      BY <1>1, <2>1 DEF AdcTypeOK
    <3>2. /\ adcOp' \in {"none", "convert", "calibrate", "mode"}
          /\ adcGot' \in {"none", "done", "failed"}
      BY <2>1 DEF AdcTypeOK
    <3> QED
      BY <1>1, <2>1, <3>1, <3>2 DEF AdcTypeOK
  <2>4. AdcOperation' /\ AdcInTable'
    BY <1>1, <2>1 DEF AdcOperation, AdcInTable
  <2>5. AdcCopied' /\ AdcOverflowTold'
    BY <1>1, <2>1, <2>2 DEF AdcCopied, AdcOverflowTold
  <2> QED
    BY <2>3, <2>4, <2>5
<1>3. CASE "FO" \notin adcSnap
  <2>1. /\ adcRuns' = adcRuns /\ adcEnable' = adcEnable
        /\ adcOp' = adcOp /\ adcGot' = adcGot /\ adcData' = adcData
    BY <1>3 DEF AdcIsrOverrun, Overrun, adcGhost
  <2>2. AdcTypeOK'
    BY <1>1, <2>1 DEF AdcTypeOK
  <2>3. AdcOperation' /\ AdcInTable' /\ AdcCopied'
    BY <1>1, <2>1 DEF AdcOperation, AdcInTable, AdcCopied
  <2>4. AdcOverflowTold'
    BY <1>1, <1>3, <2>1 DEF AdcOverflowTold
  <2> QED
    BY <2>2, <2>3, <2>4
<1> QED
  BY <1>2, <1>3

\* ... copies whole samples as long as none is, ...
LEMMA AdcIsrSamplesKeeps ==
  ASSUME AdcInv, AdcIsrSamples
  PROVE  AdcInv'
<1> DEFINE read == SubSeq(adcFifo, 1, AdcToRead)
           rest == SubSeq(adcFifo, AdcToRead + 1, Len(adcFifo))
<1>1. /\ adcAt = "cont" /\ adcAt' = "cc" /\ adcSnap' = adcSnap
      /\ adcSeq' = adcSeq /\ adcPos' = adcPos /\ adcTaken' = adcTaken
      /\ adcLost' = adcLost
      /\ adcMode' = adcMode /\ adcModeTo' = adcModeTo
      /\ adcXfer' = adcXfer /\ adcDummy' = adcDummy
  BY DEF AdcIsrSamples, adcTable
<1>2. AdcTypeOK /\ AdcOperation /\ AdcInTable /\ AdcCopied /\ AdcOverflowTold
  BY DEF AdcInv
<1>3. CASE "CONT_CC" \notin adcSnap
  <2>1. /\ adcRuns' = adcRuns /\ adcEnable' = adcEnable
        /\ adcStatus' = adcStatus
        /\ adcSamples' = adcSamples /\ adcFifo' = adcFifo
        /\ adcOp' = adcOp /\ adcGot' = adcGot /\ adcData' = adcData
    BY <1>3 DEF AdcIsrSamples, adcGhost
  <2>2. AdcTypeOK' /\ AdcOperation' /\ AdcInTable'
    BY <1>1, <1>2, <2>1 DEF AdcTypeOK, AdcOperation, AdcInTable
  <2>3. AdcCopied' /\ AdcOverflowTold'
    BY <1>1, <1>2, <2>1 DEF AdcCopied, AdcOverflowTold
  <2> QED
    BY <2>2, <2>3 DEF AdcInv
<1>4. CASE "CONT_CC" \in adcSnap
  <2>1. /\ adcStatus' = adcStatus \ {"CONT_CC"}
        /\ adcSamples' = adcSamples \o read /\ adcFifo' = rest
        /\ IF Len(adcSamples') = adcXfer.len THEN AdcStop("done")
           ELSE /\ adcRuns' = adcRuns /\ adcEnable' = adcEnable
                /\ adcOp' = adcOp /\ adcGot' = adcGot /\ adcData' = adcData
    BY <1>4 DEF AdcIsrSamples, adcGhost
  <2>2. \/ /\ Len(adcSamples') = adcXfer.len
           /\ adcRuns' = "none" /\ adcEnable' = {}
           /\ adcData' \in {"undefined", "convert"}
           /\ adcOp' = (IF adcOp = "convert" THEN "none" ELSE adcOp)
           /\ adcGot' = (IF adcOp = "convert" THEN "done" ELSE adcGot)
        \/ /\ adcRuns' = adcRuns /\ adcEnable' = adcEnable
           /\ adcOp' = adcOp /\ adcGot' = adcGot /\ adcData' = adcData
    BY <2>1, AdcStopDoes
  <2>3. /\ adcXfer.len \in Nat /\ Len(adcSamples) \in Nat
        /\ AdcToRead \in 0 .. Len(adcFifo)
        /\ Len(adcSamples) + AdcToRead <= adcXfer.len
        /\ Len(adcSamples) = adcXfer.len => AdcToRead = 0
        /\ read \in Seq(AdcSamplesOf) /\ Len(read) = AdcToRead
        /\ rest \in Seq(AdcSamplesOf) /\ Len(rest) <= Len(adcFifo)
    BY <1>2, AdcReads
  <2>4. /\ adcSamples \in Seq(AdcSamplesOf) /\ adcFifo \in Seq(AdcSamplesOf)
        /\ Len(adcFifo) <= QM_ADC_FIFO_LEN
    BY <1>2 DEF AdcTypeOK
  <2>5. Whole(adcFifo) => Whole(read) /\ Whole(rest)
    BY <2>3, <2>4, WholeParts
  <2> HIDE DEF read, rest
  <2>6. adcSamples' \in Seq(AdcSamplesOf) /\ Len(adcSamples') <= adcXfer.len
    BY <2>1, <2>3, <2>4
  <2>7. Whole(adcSamples) /\ Whole(adcFifo) => Whole(adcSamples')
    BY <2>1, <2>3, <2>4, <2>5, WholeParts
  <2>8. Len(adcSamples) = adcXfer.len => adcSamples' = adcSamples
    <3>1. ASSUME Len(read) = 0
          PROVE  adcSamples \o read = adcSamples
      BY <2>3, <2>4, <3>1
    <3> QED
      BY <2>1, <2>3, <3>1
  <2>9. AdcTypeOK'
    <3>1. adcStatus' \cup adcEnable' \cup adcSnap' \subseteq {"FO", "CONT_CC", "CC"}
      BY <1>1, <1>2, <2>1, <2>2 DEF AdcTypeOK
    <3>2. /\ adcRuns' \in {"none", "single", "cont", "cal"}
          /\ adcOp' \in {"none", "convert", "calibrate", "mode"}
          /\ adcGot' \in {"none", "done", "failed"}
          /\ adcData' \in {"none", "undefined", "convert"}
      BY <1>2, <2>2 DEF AdcTypeOK
    <3>3. adcFifo' \in Seq(AdcSamplesOf) /\ Len(adcFifo') <= QM_ADC_FIFO_LEN
      BY <2>1, <2>3, <2>4, AdcAssumption
    <3> QED
      BY <1>1, <1>2, <2>6, <3>1, <3>2, <3>3 DEF AdcTypeOK
  <2>10. AdcOperation' /\ AdcInTable'
    BY <1>1, <1>2, <2>2 DEF AdcOperation, AdcInTable
  <2>11. AdcOverflowTold'
    <3>1. "FO" \in adcStatus' <=> "FO" \in adcStatus
      BY <2>1
    <3> QED
      BY <1>1, <1>2, <2>1, <2>5, <3>1 DEF AdcOverflowTold
  <2>12. AdcCopied'
    <3>1. CASE adcOp = "convert"
      <4>1. Whole(adcSamples) /\ Whole(adcFifo) /\ adcGot # "done"
        BY <1>1, <1>2, <3>1 DEF AdcCopied, AdcOverflowTold
      <4> QED
        BY <1>1, <2>2, <2>7, <3>1, <4>1 DEF AdcCopied
    <3>2. CASE adcOp # "convert"
      <4>1. adcOp' = adcOp /\ adcGot' = adcGot
        BY <2>2, <3>2
      <4> QED
        BY <1>1, <1>2, <2>8, <3>2, <4>1 DEF AdcCopied
    <3> QED
      BY <3>1, <3>2
  <2> QED
    BY <2>9, <2>10, <2>11, <2>12 DEF AdcInv
<1> QED
  BY <1>3, <1>4

\* ... and is done with the command.
LEMMA AdcIsrCommandKeeps ==
  ASSUME AdcInv, AdcIsrCommand
  PROVE  AdcInv'
<1> USE DEF AdcInv
<1>1. /\ adcAt = "cc" /\ adcAt' = "idle" /\ adcSnap' = {}
      /\ adcSeq' = adcSeq /\ adcPos' = adcPos /\ adcTaken' = adcTaken
      /\ adcLost' = adcLost
      /\ adcRuns' = adcRuns /\ adcMode' = adcMode /\ adcModeTo' = adcModeTo
      /\ adcXfer' = adcXfer /\ adcSamples' = adcSamples
  BY DEF AdcIsrCommand, adcTable
<1>2. CASE "CC" \notin adcSnap
  <2>1. /\ adcStatus' = adcStatus /\ adcEnable' = adcEnable
        /\ adcDummy' = adcDummy
        /\ adcFifo' = adcFifo
        /\ adcOp' = adcOp /\ adcGot' = adcGot /\ adcData' = adcData
    BY <1>2 DEF AdcIsrCommand, adcGhost
  <2>2. AdcTypeOK'
    BY <1>1, <2>1 DEF AdcTypeOK
  <2>3. AdcOperation' /\ AdcInTable' /\ AdcCopied' /\ AdcOverflowTold'
    BY <1>1, <2>1 DEF AdcOperation, AdcInTable, AdcCopied, AdcOverflowTold
  <2> QED
    BY <2>2, <2>3
<1>3. CASE "CC" \in adcSnap
  <2> DEFINE op == IF adcDummy THEN "mode" ELSE "calibrate"
  <2>1. /\ adcStatus' = adcStatus \ {"CC"} /\ adcEnable' = adcEnable \ {"CC"}
        /\ adcDummy' = FALSE /\ adcFifo' = (IF adcDummy THEN <<>> ELSE adcFifo)
        /\ adcData' \in {"undefined", "convert"}
        /\ adcOp' = (IF op = adcOp THEN "none" ELSE adcOp)
        /\ adcGot' = adcGot
    BY <1>3 DEF AdcIsrCommand, AdcReport
  <2>2. /\ adcOp' = "convert" <=> adcOp = "convert"
        /\ adcModeTo # "none" => adcOp' = "mode"
        /\ adcOp' \in {"none", "convert", "calibrate", "mode"}
    BY <2>1 DEF AdcOperation, AdcTypeOK
  <2>3. /\ adcFifo' \in Seq(AdcSamplesOf) /\ Len(adcFifo') <= QM_ADC_FIFO_LEN
        /\ Whole(adcFifo) => Whole(adcFifo')
    <3>1. CASE adcDummy
      <4>1. <<>> \in Seq(AdcSamplesOf) /\ Len(<<>>) = 0 /\ 0 <= QM_ADC_FIFO_LEN
        BY AdcAssumption
      <4> QED
        BY <2>1, <3>1, <4>1, WholeEmpty
    <3>2. CASE ~adcDummy
      BY <2>1, <3>2 DEF AdcTypeOK
    <3> QED
      BY <3>1, <3>2
  <2>4. AdcTypeOK'
    <3>1. adcStatus' \cup adcEnable' \cup adcSnap' \subseteq {"FO", "CONT_CC", "CC"}
      BY <1>1, <2>1 DEF AdcTypeOK
    <3> QED
      BY <1>1, <2>1, <2>2, <2>3, <3>1 DEF AdcTypeOK
  <2>5. AdcOperation' /\ AdcInTable' /\ AdcCopied'
    BY <1>1, <2>1, <2>2 DEF AdcOperation, AdcInTable, AdcCopied
  <2>6. AdcOverflowTold'
    <3>1. "FO" \in adcStatus' <=> "FO" \in adcStatus
      BY <2>1
    <3> QED
      BY <1>1, <2>1, <2>3, <3>1 DEF AdcOverflowTold
  <2> QED
    BY <2>4, <2>5, <2>6
<1> QED
  BY <1>2, <1>3

\* No conversion is under way at first.
LEMMA AdcInitInv == AdcInit => AdcInv
<1> SUFFICES ASSUME AdcInit
             PROVE  AdcInv
  OBVIOUS
<1>1. AdcTypeOK
  <2>1. /\ 1 \in AdcSlots /\ 0 \in 0 .. FIFO_INTERRUPT_THRESHOLD - 1
        /\ 0 <= QM_ADC_FIFO_LEN
    BY AdcAssumption DEF AdcSlots
  <2>2. AdcSeqDefault \in [ch : SUBSET UNION AdcChannels, last : BOOLEAN]
    BY DEF AdcSeqDefault
  <2>3. NoAdcXfer.len = 0 /\ <<>> \in Seq(AdcSamplesOf) /\ Len(<<>>) = 0
    BY DEF NoAdcXfer
  <2>4. /\ adcFifo \in Seq(AdcSamplesOf) /\ Len(adcFifo) <= QM_ADC_FIFO_LEN
        /\ adcSamples \in Seq(AdcSamplesOf) /\ Len(adcSamples) <= adcXfer.len
    BY <2>1, <2>3 DEF AdcInit
  <2>5. adcSeq \in [AdcSlots -> [ch : SUBSET UNION AdcChannels, last : BOOLEAN]]
    BY <2>2 DEF AdcInit
  <2> QED
    BY <2>1, <2>4, <2>5 DEF AdcInit, AdcTypeOK
<1>2. AdcOperation /\ AdcInTable /\ AdcOverflowTold /\ AdcCopied
  BY WholeEmpty
  DEF AdcInit, AdcOperation, AdcInTable, AdcOverflowTold, AdcCopied
<1> QED
  BY <1>1, <1>2 DEF AdcInv

\* AdcInv is inductive.
LEMMA AdcStepInv ==
  ASSUME AdcInv, [AdcNext]_adcVars
  PROVE  AdcInv'
<1>1. CASE AdcHardware
  BY <1>1, AdcSampleKeeps, AdcCommandDoneKeeps DEF AdcHardware
<1>2. CASE \E x \in AdcTransfers : AdcIrqConvert(x)
  BY <1>2, AdcIrqConvertKeeps
<1>3. CASE \/ \E x \in AdcTransfers : AdcConvert(x)
           \/ AdcIrqCalibrate \/ AdcCalibrate
           \/ \E mode \in {"low", "normal"} : AdcIrqSetMode(mode) \/ AdcSetMode(mode)
  <2>1. AdcFree
    BY <1>3
    DEF AdcConvert, AdcIrqCalibrate, AdcCalibrate, AdcIrqSetMode, AdcSetMode
  <2> QED
    BY <1>3, <2>1, AdcCallKeeps
<1>4. CASE AdcHandler
  BY <1>4, AdcPowerIsrKeeps, AdcIsrEnterKeeps, AdcIsrOverrunKeeps,
     AdcIsrSamplesKeeps,
     AdcIsrCommandKeeps DEF AdcHandler
<1>5. CASE UNCHANGED adcVars
  BY <1>5
  DEF adcVars, adcChip, adcTable, adcDriver, adcIsr, adcGhost, AdcInv, AdcTypeOK,
      AdcOperation, AdcInTable, AdcOverflowTold, AdcCopied
<1> QED
  BY <1>1, <1>2, <1>3, <1>4, <1>5 DEF AdcNext, AdcClient

\* The state of the ADC driver stays in step with the converter: the FIFO holds
\* no sample behind a lost one unless an overflow is told, whatever order samples, commands and
\* the three sources of the interrupt come in.
THEOREM AdcInvariance == AdcSpec => []AdcInv
<1>1. AdcInv /\ [AdcNext]_adcVars => AdcInv'
  BY AdcStepInv
<1> QED
  BY <1>1, AdcInitInv, PTL DEF AdcSpec

\* A conversion that is reported complete has given its client as many samples as
\* it asked for, none of them after a lost one, for every FIFO depth, threshold and
\* transfer length: the handler looks for an overflow before it copies anything.
THEOREM CompleteWithoutGaps == AdcSpec => []AdcNoGaps
<1>1. AdcInv => AdcNoGaps
  BY DEF AdcInv, AdcCopied, AdcNoGaps, Whole
<1> QED
  BY <1>1, AdcInvariance, PTL

-----------------------------------------------------------------------------
(* The timers.                                                             *)

\* A sequence that is not empty, its first element and the rest.
LEMMA HeadTail ==
  ASSUME NEW S, NEW s \in Seq(S), s # <<>>
  PROVE  /\ Head(s) = s[1] /\ s[1] \in S /\ Len(s) \in Nat /\ Len(s) >= 1
         /\ Tail(s) \in Seq(S) /\ Len(Tail(s)) = Len(s) - 1
         /\ \A i \in 1 .. Len(s) - 1 : Tail(s)[i] = s[i + 1]
OBVIOUS

\* What the handlers do, and do not do.
LEMMA IsrActDoes ==
  ASSUME NEW s \in IsrActs, Does(s)
  PROVE  /\ s[2] \in Channels /\ s[1] \in {"look", "call", "clear", "mask"}
         /\ s = Step(s[1], s[2])
         /\ on' = on /\ callback' = callback /\ callback_data' = callback_data
         /\ pending' = IF s[1] = "clear" THEN pending \ {s[2]} ELSE pending
<1>1. PICK what \in {"look", "call", "clear", "mask"}, c \in Channels : s = Step(what, c)
  BY DEF IsrActs
<1>2. s[1] = what /\ s[2] = c
  BY <1>1 DEF Step
<1> QED
  BY <1>1, <1>2 DEF Does

LEMMA TaskActDoes ==
  ASSUME NEW s \in TaskActs, Does(s)
  PROVE  /\ s[2] \in Channels /\ s[3] \in Callbacks \cup {NoCallback}
         /\ s[1] \in {"on", "off", "mask", "unmask", "clear", "callback", "data"}
         /\ s = <<s[1], s[2], s[3]>>
         /\ s[1] # "on" => on' \subseteq on
         /\ s[1] = "off" => s[2] \notin on'
         /\ pending' = IF s[1] = "clear" THEN pending \ {s[2]} ELSE pending
         /\ callback' = IF s[1] = "callback" THEN [callback EXCEPT ![s[2]] = s[3]]
                                             ELSE callback
         /\ callback_data' = IF s[1] = "data" THEN [callback_data EXCEPT ![s[2]] = s[3]]
                                              ELSE callback_data
<1>1. PICK what \in {"on", "off", "mask", "unmask", "clear", "callback", "data"},
           c \in Channels, f \in Callbacks \cup {NoCallback} : s = <<what, c, f>>
  BY DEF TaskActs
<1>2. s[1] = what /\ s[2] = c /\ s[3] = f
  BY <1>1
<1> QED
  BY <1>1, <1>2 DEF Does

\* The steps of a handler for channels whose interrupts are pending.
Handles(s) ==
  /\ s \in Seq(IsrActs)
  /\ \A i \in 1 .. Len(s) :
       /\ s[i][1] = "clear" => i # 1 /\ s[i - 1] = Step("call", s[i][2])
       /\ s[i][1] = "call" => s[i][2] \in pending

\* What the handlers' sequences are put together from.
LEMMA HandlesParts ==
  /\ Handles(<<>>)
  /\ \A c \in Channels : \A what \in {"look", "mask"} : Handles(<<Step(what, c)>>)
  /\ \A c \in Channels \cap pending :
       Handles(<<Step("call", c)>>) /\ Handles(<<Step("call", c), Step("clear", c)>>)
<1>1. ASSUME NEW c \in Channels, NEW what \in {"look", "call", "clear", "mask"}
      PROVE  Step(what, c) \in IsrActs /\ Step(what, c)[1] = what /\ Step(what, c)[2] = c
  BY DEF IsrActs, Step
<1>2. Handles(<<>>)
  BY DEF Handles
<1>3. ASSUME NEW c \in Channels, NEW what \in {"look", "mask"}
      PROVE  Handles(<<Step(what, c)>>)
  BY <1>1 DEF Handles
<1>4. ASSUME NEW c \in Channels \cap pending
      PROVE  Handles(<<Step("call", c)>>)
  BY <1>1 DEF Handles
<1>5. ASSUME NEW c \in Channels \cap pending
      PROVE  Handles(<<Step("call", c), Step("clear", c)>>)
  <2> DEFINE a == Step("call", c)
             b == Step("clear", c)
             s == <<a, b>>
  <2>1. /\ a \in IsrActs /\ b \in IsrActs
        /\ a[1] = "call" /\ a[2] = c /\ b[1] = "clear" /\ b[2] = c
    BY <1>1
  <2>2. a = Step("call", c)
    OBVIOUS
  <2> HIDE DEF a, b
  <2>3. s \in Seq(IsrActs) /\ Len(s) = 2 /\ s[1] = a /\ s[2] = b
    BY <2>1
  <2> HIDE DEF s
  <2>4. \A i \in 1 .. Len(s) : i = 1 \/ (i = 2 /\ s[i - 1] = a)
    BY <2>3
  <2>5. Handles(s)
    BY <2>1, <2>2, <2>3, <2>4 DEF Handles
  <2> QED
    BY <2>5 DEF s, a, b
<1> QED
  BY <1>2, <1>3, <1>4, <1>5

LEMMA HandlesBoth ==
  ASSUME NEW s, NEW t, Handles(s), Handles(t)
  PROVE  Handles(s \o t)
<1> DEFINE u == s \o t
<1>1. /\ s \in Seq(IsrActs) /\ t \in Seq(IsrActs)
      /\ u \in Seq(IsrActs) /\ Len(u) = Len(s) + Len(t)
      /\ Len(s) \in Nat /\ Len(t) \in Nat
      /\ \A i \in 1 .. Len(s) : u[i] = s[i]
      /\ \A i \in 1 .. Len(t) : u[Len(s) + i] = t[i]
  BY DEF Handles
<1> HIDE DEF u
<1>2. ASSUME NEW i \in 1 .. Len(u)
      PROVE  /\ u[i][1] = "clear" => i # 1 /\ u[i - 1] = Step("call", u[i][2])
             /\ u[i][1] = "call" => u[i][2] \in pending
  <2>1. CASE i <= Len(s)
    <3>1. /\ i \in 1 .. Len(s) /\ u[i] = s[i]
          /\ i # 1 => u[i - 1] = s[i - 1]
      <4>1. /\ i \in 1 .. Len(s)
            /\ i # 1 => i - 1 \in 1 .. Len(s)
        BY <1>1, <2>1
      <4> QED
        BY <1>1, <4>1
    <3> QED
      BY <3>1 DEF Handles
  <2>2. CASE i > Len(s)
    <3> DEFINE j == i - Len(s)
    <3>1. j \in 1 .. Len(t) /\ u[i] = t[j] /\ (j # 1 => i # 1)
      BY SMTT(30), <1>1, <2>2
    <3>2. j # 1 => u[i - 1] = t[j - 1]
      <4>1. ASSUME j # 1
            PROVE  j - 1 \in 1 .. Len(t) /\ i - 1 = Len(s) + (j - 1)
        BY <1>1, <2>2, <4>1
      <4> QED
        BY <1>1, <4>1
    <3> HIDE DEF j
    <3> QED
      BY <1>1, <3>1, <3>2 DEF Handles
  <2> QED
    BY <1>1, <2>1, <2>2
<1> QED
  BY <1>1, <1>2 DEF Handles, u

\* Every handler clears only what it has called back for; that of the PIC timer
\* clears nothing.
LEMMA IsrStepsHandle ==
  ASSUME TimersSteps, NEW c \in Channels, c \in pending
  PROVE  /\ Handles(IsrSteps(c))
         /\ timer = "pic" => IsrSteps(c) = <<Step("call", c)>>
<1>1. timer \in AllTimerKinds
  BY TimersAssumption DEF TimersSteps
<1>2. /\ timer = "aonpt" => 0 \in Channels /\ 1 \in Channels
      /\ timer = "pwm" => 0 \in Channels /\ 1 \in Channels
  BY DEF Channels
<1>3. CASE timer = "aonpt"
  <2>1. Handles(<<Step("look", 0)>>) /\ Handles(<<Step("look", 1)>>)
    BY <1>2, <1>3, HandlesParts
  <2>2. Handles(<<Step("look", 0)>> \o <<Step("look", 1)>>)
    BY <2>1, HandlesBoth
  <2>3. AonptIsr = <<Step("look", 0)>> \o <<Step("look", 1)>>
    BY DEF AonptIsr
  <2> QED
    BY <1>3, <2>2, <2>3 DEF IsrSteps
<1>4. CASE timer = "rtc"
  <2>1. /\ Handles(<<Step("mask", c)>>)
        /\ Handles(<<Step("call", c), Step("clear", c)>>)
    BY HandlesParts
  <2>2. Handles(<<Step("mask", c)>> \o <<Step("call", c), Step("clear", c)>>)
    BY <2>1, HandlesBoth
  <2>3. RtcIsr(c) = <<Step("mask", c)>> \o <<Step("call", c), Step("clear", c)>>
    BY DEF RtcIsr
  <2> QED
    BY <1>4, <2>2, <2>3 DEF IsrSteps
<1>5. CASE timer = "pwm"
  <2>1. ASSUME NEW d \in Channels
        PROVE  Handles(Reported(d))
    <3>1. CASE d \in pending /\ callback[d] # NoCallback
      <4>1. Handles(<<Step("call", d), Step("clear", d)>>)
        BY <3>1, HandlesParts
      <4>2. Reported(d) = <<Step("call", d)>> \o <<Step("clear", d)>>
        BY <3>1 DEF Reported, ClearReported
      <4>3. <<Step("call", d), Step("clear", d)>>
              = <<Step("call", d)>> \o <<Step("clear", d)>>
        OBVIOUS
      <4> QED
        BY <4>1, <4>2, <4>3
    <3>2. CASE ~(d \in pending /\ callback[d] # NoCallback)
      BY <3>2, HandlesParts DEF Reported
    <3> QED
      BY <3>1, <3>2
  <2>2. Handles(Reported(0) \o Reported(1))
    BY <1>2, <1>5, <2>1, HandlesBoth
  <2> QED
    BY <1>5, <2>2 DEF IsrSteps, PwmSharedIsr
<1>6. CASE timer \in {"pwms", "wdt", "ss"}
  <2>1. Handles(<<Step("call", c), Step("clear", c)>>)
    BY HandlesParts
  <2> QED
    BY <1>6, <2>1 DEF IsrSteps, PwmIsr, WdtIsr, SsTimerIsr
<1>7. CASE timer = "pic"
  <2>1. Handles(<<Step("call", c)>>)
    BY HandlesParts
  <2> QED
    BY <1>7, <2>1 DEF IsrSteps, PicIsr
<1> QED
  BY <1>1, <1>3, <1>4, <1>5, <1>6, <1>7 DEF AllTimerKinds

\* A step of the handler: it goes on with the rest of its steps, before which it
\* puts those of a counter it finds pending.
LEMMA IsrGoesOn ==
  ASSUME TimersSteps, IsrStep, NEW s, s = isr[1]
  PROVE  /\ s \in IsrActs /\ Does(s) /\ isr' \in Seq(IsrActs)
         /\ \/ /\ s[1] = "look" /\ s[2] \in pending
               /\ Len(isr') = Len(isr) + 1
               /\ isr'[1] = Step("call", s[2]) /\ isr'[2] = Step("clear", s[2])
               /\ \A i \in 3 .. Len(isr') : isr'[i] = isr[i - 1]
            \/ /\ Len(isr') = Len(isr) - 1
               /\ \A i \in 1 .. Len(isr') : isr'[i] = isr[i + 1]
<1>1. isr \in Seq(IsrActs) /\ isr # <<>> /\ Head(isr) = s
  BY DEF TimersSteps, IsrStep
<1>2. /\ s \in IsrActs /\ Does(s) /\ isr' = Found(s) \o Tail(isr)
      /\ Tail(isr) \in Seq(IsrActs) /\ Len(Tail(isr)) = Len(isr) - 1
      /\ Len(isr) \in Nat /\ Len(isr) >= 1
      /\ \A i \in 1 .. Len(isr) - 1 : Tail(isr)[i] = isr[i + 1]
  BY <1>1, HeadTail DEF IsrStep
<1> DEFINE rest == Tail(isr)
<1>3. CASE s[1] = "look" /\ s[2] \in pending
  <2> DEFINE a == Step("call", s[2])
             b == Step("clear", s[2])
             both == <<a, b>>
  <2>1. s[2] \in Channels
    BY <1>2, IsrActDoes
  <2>2. a \in IsrActs /\ b \in IsrActs
    BY <2>1 DEF IsrActs
  <2>3. isr' = both \o rest
    BY <1>2, <1>3 DEF Found
  <2> HIDE DEF a, b, rest
  <2>4. both \in Seq(IsrActs) /\ Len(both) = 2 /\ both[1] = a /\ both[2] = b
    BY <2>2
  <2>5. rest \in Seq(IsrActs) /\ Len(rest) = Len(isr) - 1
    BY <1>2 DEF rest
  <2> HIDE DEF both
  <2>6. /\ isr' \in Seq(IsrActs) /\ Len(isr') = Len(isr) + 1
        /\ isr'[1] = a /\ isr'[2] = b
        /\ \A i \in 1 .. Len(rest) : isr'[2 + i] = rest[i]
    <3>0. /\ isr' \in Seq(IsrActs) /\ Len(isr') = Len(both) + Len(rest)
          /\ \A i \in 1 .. Len(both) + Len(rest) :
               isr'[i] = IF i <= Len(both) THEN both[i] ELSE rest[i - Len(both)]
      BY <2>3, <2>4, <2>5, ConcatProperties
    <3>1. ASSUME NEW i \in 1 .. Len(rest)
          PROVE  isr'[2 + i] = rest[i]
      <4>1. 2 + i \in 1 .. 2 + Len(rest) /\ ~(2 + i <= 2) /\ (2 + i) - 2 = i
        BY <1>2, <2>5
      <4> QED
        BY <2>4, <3>0, <4>1
    <3>2. 1 \in 1 .. 2 + Len(rest) /\ 2 \in 1 .. 2 + Len(rest)
      BY <1>2, <2>5
    <3>3. isr'[1] = a /\ isr'[2] = b
      BY <2>4, <3>0, <3>2
    <3>4. \A i \in 1 .. Len(rest) : isr'[2 + i] = rest[i]
      BY <3>1
    <3>5. isr' \in Seq(IsrActs) /\ Len(isr') = 2 + (Len(isr) - 1)
      BY <2>4, <2>5, <3>0
    <3>6. 2 + (Len(isr) - 1) = Len(isr) + 1
      BY <1>2
    <3> QED
      BY <3>3, <3>4, <3>5, <3>6
  <2>7. ASSUME NEW i \in 3 .. Len(isr')
        PROVE  isr'[i] = isr[i - 1]
    <3>1. i - 2 \in 1 .. Len(rest) /\ 2 + (i - 2) = i /\ (i - 2) + 1 = i - 1
      BY <1>2, <2>5, <2>6
    <3>2. isr'[2 + (i - 2)] = rest[i - 2]
      BY <2>6, <3>1
    <3>3. rest[i - 2] = isr[(i - 2) + 1]
      BY <1>2, <2>5, <3>1 DEF rest
    <3> QED
      BY <3>1, <3>2, <3>3
  <2> QED
    BY <1>2, <1>3, <2>6, <2>7 DEF a, b
<1>4. CASE ~(s[1] = "look" /\ s[2] \in pending)
  <2>1. isr' = <<>> \o rest
    BY <1>2, <1>4 DEF Found
  <2>2. isr' = rest
    BY <1>2, <2>1, ConcatEmptySeq
  <2> QED
    BY <1>2, <2>2
<1> QED
  BY <1>3, <1>4

\* A handler that is not running calls nothing back.
LEMMA NoCallAtRest == \A e : ~Contains(<<>>, e)
BY DEF Contains

\* Steps that do different things are different.
LEMMA StepsDiffer ==
  ASSUME NEW v, NEW w, NEW c, NEW d
  PROVE  /\ Step(v, c)[1] = v /\ Step(v, c)[2] = c
         /\ Step(v, c) = Step(w, d) <=> v = w /\ c = d
BY DEF Step

\* The actions keep every expiry answered, one by one.
LEMMA TaskStepKeepsExpiries ==
  ASSUME ExpiryInv, TaskStep
  PROVE  ExpiryInv'
<1> DEFINE s == Head(task)
<1>1. /\ isr = <<>> /\ isr' = isr /\ timer' = timer /\ task # <<>>
      /\ task' = Tail(task)
      /\ Does(s)
      /\ unseen' = IF s[1] = "clear" THEN unseen \ {s[2]} ELSE unseen
  BY DEF TaskStep
<1>2. TimersSteps /\ \A c \in unseen : c \in pending
  BY <1>1, NoCallAtRest DEF ExpiryInv, NoExpiryLost
<1>3. s \in TaskActs /\ Tail(task) \in Seq(TaskActs)
  BY <1>1, <1>2, HeadTail DEF TimersSteps
<1>4. /\ s[2] \in Channels /\ s[3] \in Callbacks \cup {NoCallback}
      /\ pending' = IF s[1] = "clear" THEN pending \ {s[2]} ELSE pending
      /\ callback' = IF s[1] = "callback" THEN [callback EXCEPT ![s[2]] = s[3]]
                                          ELSE callback
      /\ callback_data' = IF s[1] = "data" THEN [callback_data EXCEPT ![s[2]] = s[3]]
                                           ELSE callback_data
  BY <1>1, <1>3, TaskActDoes
<1> HIDE DEF s
<1>5. Channels' = Channels /\ IsrActs' = IsrActs /\ TaskActs' = TaskActs
  BY <1>1 DEF Channels, IsrActs, TaskActs, Step
<1>6. TimersSteps'
  BY <1>1, <1>2, <1>3, <1>4, <1>5 DEF TimersSteps
<1>7. CalledThenCleared'
  BY <1>1 DEF CalledThenCleared
<1>8. NoExpiryLost'
  BY <1>1, <1>2, <1>4 DEF NoExpiryLost
<1> QED
  BY <1>6, <1>7, <1>8 DEF ExpiryInv

LEMMA IsrKeepsExpiries ==
  ASSUME ExpiryInv, NEW c \in Channels, Isr(c)
  PROVE  ExpiryInv'
<1>1. /\ isr = <<>> /\ c \in pending /\ isr' = IsrSteps(c)
      /\ pending' = IF timer = "pic" THEN pending \ {c} ELSE pending
      /\ timer' = timer /\ callback' = callback
      /\ callback_data' = callback_data
      /\ task' = task /\ unseen' = unseen
  BY DEF Isr
<1>2. TimersSteps /\ \A d \in unseen : d \in pending
  BY <1>1, NoCallAtRest DEF ExpiryInv, NoExpiryLost
<1>3. Handles(isr') /\ (timer = "pic" => isr' = <<Step("call", c)>>)
  BY <1>1, <1>2, IsrStepsHandle
<1>4. IsrActs' = IsrActs /\ TaskActs' = TaskActs /\ Channels' = Channels
  BY <1>1 DEF IsrActs, TaskActs, Channels, Step
<1>5. TimersSteps'
  BY <1>1, <1>2, <1>3, <1>4 DEF TimersSteps, Handles
<1>6. CalledThenCleared'
  BY <1>3 DEF CalledThenCleared, Handles, Step
<1>7. NoExpiryLost'
  <2> SUFFICES ASSUME NEW d \in unseen, d \notin pending'
               PROVE  Contains(isr', Step("call", d))
    BY <1>1 DEF NoExpiryLost, Step
  <2>1. timer = "pic" /\ d = c
    BY <1>1, <1>2
  <2> QED
    BY <1>3, <2>1 DEF Contains
<1> QED
  BY <1>5, <1>6, <1>7 DEF ExpiryInv

LEMMA IsrStepKeepsExpiries ==
  ASSUME ExpiryInv, IsrStep
  PROVE  ExpiryInv'
<1> DEFINE s == isr[1]
<1>1. /\ isr # <<>> /\ timer' = timer /\ task' = task
      /\ unseen' = IF s[1] = "call" THEN unseen \ {s[2]} ELSE unseen
  BY HeadTail DEF IsrStep, ExpiryInv, TimersSteps
<1>2. /\ TimersSteps /\ CalledThenCleared /\ NoExpiryLost
      /\ isr \in Seq(IsrActs) /\ Len(isr) \in Nat /\ Len(isr) >= 1
  BY <1>1 DEF ExpiryInv, TimersSteps
<1>3. /\ s \in IsrActs /\ Does(s) /\ isr' \in Seq(IsrActs)
      /\ \/ /\ s[1] = "look" /\ s[2] \in pending
            /\ Len(isr') = Len(isr) + 1
            /\ isr'[1] = Step("call", s[2]) /\ isr'[2] = Step("clear", s[2])
            /\ \A i \in 3 .. Len(isr') : isr'[i] = isr[i - 1]
         \/ /\ Len(isr') = Len(isr) - 1
            /\ \A i \in 1 .. Len(isr') : isr'[i] = isr[i + 1]
  BY <1>2, IsrGoesOn
<1>4. /\ s[2] \in Channels /\ s = Step(s[1], s[2])
      /\ callback' = callback /\ callback_data' = callback_data
      /\ pending' = IF s[1] = "clear" THEN pending \ {s[2]} ELSE pending
  BY <1>3, IsrActDoes
<1>5. IsrActs' = IsrActs /\ TaskActs' = TaskActs /\ Channels' = Channels
  BY <1>1 DEF IsrActs, TaskActs, Channels, Step
<1>6. TimersSteps'
  BY <1>1, <1>2, <1>3, <1>4, <1>5 DEF TimersSteps
<1>7. s[1] = "clear" => s[2] \notin unseen
  BY <1>2 DEF CalledThenCleared
<1> HIDE DEF s
<1>8. CalledThenCleared'
  <2> SUFFICES ASSUME NEW i \in 1 .. Len(isr'), isr'[i][1] = "clear"
               PROVE  IF i = 1 THEN isr'[i][2] \notin unseen'
                      ELSE isr'[i - 1] = Step("call", isr'[i][2])
    BY DEF CalledThenCleared, Step
  <2>1. CASE /\ Len(isr') = Len(isr) - 1
             /\ \A j \in 1 .. Len(isr') : isr'[j] = isr[j + 1]
    <3>1. /\ i + 1 \in 1 .. Len(isr) /\ isr'[i] = isr[i + 1] /\ i + 1 # 1
          /\ (i + 1) - 1 = i /\ i - 1 \in Nat
          /\ i # 1 => i - 1 \in 1 .. Len(isr') /\ (i - 1) + 1 = i
      BY <1>2, <2>1
    <3>2. isr[i] = Step("call", isr[i + 1][2])
      BY <1>2, <3>1 DEF CalledThenCleared
    <3>3. CASE i = 1
      <4>1. s[1] = "call" /\ s[2] = isr'[i][2]
        BY <3>1, <3>2, <3>3, StepsDiffer DEF s
      <4> QED
        BY <1>1, <3>3, <4>1
    <3>4. CASE i # 1
      BY <2>1, <3>1, <3>2, <3>4
    <3> QED
      BY <3>3, <3>4
  <2>2. CASE /\ Len(isr') = Len(isr) + 1 /\ s[1] = "look"
             /\ isr'[1] = Step("call", s[2]) /\ isr'[2] = Step("clear", s[2])
             /\ \A j \in 3 .. Len(isr') : isr'[j] = isr[j - 1]
    <3>1. CASE i = 1
      BY <2>2, <3>1, StepsDiffer
    <3>2. CASE i = 2
      BY <2>2, <3>2, StepsDiffer
    <3>3. CASE i > 2
      <4>1. /\ i \in 3 .. Len(isr') /\ i - 1 \in 1 .. Len(isr) /\ i - 1 # 1
            /\ (i - 1) - 1 = i - 2
        BY <1>2, <2>2, <3>3
      <4>2. isr'[i] = isr[i - 1]
        BY <2>2, <4>1
      <4>3. isr[i - 2] = Step("call", isr[i - 1][2])
        BY <1>2, <4>1, <4>2 DEF CalledThenCleared
      <4>4. CASE i = 3
        <5>1. s = Step("call", isr[2][2])
          BY <4>3, <4>4 DEF s
        <5> QED
          BY <2>2, <5>1, StepsDiffer
      <4>5. CASE i # 3
        <5>1. i - 1 \in 3 .. Len(isr')
          BY <3>3, <4>1, <4>5
        <5>2. isr'[i - 1] = isr[(i - 1) - 1]
          BY <2>2, <5>1
        <5> QED
          BY <3>3, <4>1, <4>2, <4>3, <5>2
      <4> QED
        BY <4>4, <4>5
    <3> QED
      BY <3>1, <3>2, <3>3
  <2> QED
    BY <1>3, <2>1, <2>2
<1>9. NoExpiryLost'
  <2> SUFFICES ASSUME NEW c \in unseen', c \notin pending'
               PROVE  Contains(isr', Step("call", c))
    BY DEF NoExpiryLost, Step
  <2>1. c \in unseen /\ c \notin pending
    BY <1>1, <1>4, <1>7
  <2>2. PICK i \in 1 .. Len(isr) : isr[i] = Step("call", c)
    BY <1>2, <2>1 DEF NoExpiryLost, Contains
  <2>3. i # 1
    <3>1. i = 1 => s[1] = "call" /\ s[2] = c
      BY <2>2, StepsDiffer DEF s
    <3> QED
      BY <1>1, <3>1
  <2>4. CASE /\ Len(isr') = Len(isr) - 1
             /\ \A j \in 1 .. Len(isr') : isr'[j] = isr[j + 1]
    <3>1. i - 1 \in 1 .. Len(isr') /\ (i - 1) + 1 = i
      BY <1>2, <2>3, <2>4
    <3> QED
      BY <2>2, <2>4, <3>1 DEF Contains
  <2>5. CASE /\ Len(isr') = Len(isr) + 1
             /\ \A j \in 3 .. Len(isr') : isr'[j] = isr[j - 1]
    <3>1. i + 1 \in 3 .. Len(isr') /\ i + 1 \in 1 .. Len(isr') /\ (i + 1) - 1 = i
      BY <1>2, <2>3, <2>5
    <3> QED
      BY <2>2, <2>5, <3>1 DEF Contains
  <2> QED
    BY <1>3, <2>4, <2>5
<1> QED
  BY <1>6, <1>8, <1>9 DEF ExpiryInv

LEMMA ExpireKeepsExpiries ==
  ASSUME ExpiryInv, NEW c \in Channels, Expire(c)
  PROVE  ExpiryInv'
<1>1. /\ pending' = pending \cup {c} /\ unseen' \subseteq unseen \cup {c}
      /\ timer' = timer /\ callback' = callback
      /\ callback_data' = callback_data
      /\ task' = task /\ isr' = isr /\ ~Served(c)
  BY DEF Expire
<1>2. TimersSteps'
  BY <1>1 DEF ExpiryInv, TimersSteps, TaskActs, IsrActs, Channels, Step
<1>3. CalledThenCleared'
  <2> SUFFICES ASSUME NEW i \in 1 .. Len(isr), isr[i][1] = "clear"
               PROVE  IF i = 1 THEN isr[i][2] \notin unseen'
                      ELSE isr[i - 1] = Step("call", isr[i][2])
    BY <1>1 DEF CalledThenCleared, Step
  <2>1. IF i = 1 THEN isr[i][2] \notin unseen ELSE isr[i - 1] = Step("call", isr[i][2])
    BY DEF ExpiryInv, CalledThenCleared
  <2>2. ASSUME i = 1
        PROVE  isr[i][2] # c
    <3>1. isr \in Seq(IsrActs) /\ isr # <<>>
      BY DEF ExpiryInv, TimersSteps
    <3>2. isr[1] \in IsrActs /\ Head(isr) = isr[1]
      BY <3>1, HeadTail
    <3>3. isr[1] = Step(isr[1][1], isr[1][2])
      BY <3>2 DEF IsrActs, Step
    <3> QED
      BY <1>1, <2>2, <3>1, <3>2, <3>3 DEF Served
  <2> QED
    BY <1>1, <2>1, <2>2
<1>4. NoExpiryLost'
  BY <1>1 DEF ExpiryInv, NoExpiryLost, Step
<1> QED
  BY <1>2, <1>3, <1>4 DEF ExpiryInv

\* The steps of the calls that configure a channel, timer by timer.
LEMMA AonptConfigIs ==
  ASSUME NEW c, NEW f, NEW t, t = AonptConfig(c, f)
  PROVE  /\ Len(t) = IF f = NoCallback THEN 2 ELSE 3
         /\ t[1] = Step("clear", c) /\ t[2] = <<"callback", c, f>>
         /\ f # NoCallback => t[3] = <<"data", c, f>>
BY DEF AonptConfig, SetCallback

LEMMA RtcConfigIs ==
  ASSUME NEW c, NEW f, NEW t, t = RtcConfig(c, f)
  PROVE  /\ Len(t) = 6
         /\ t[1] = Step("off", c) /\ t[2] = Step("clear", c)
         /\ t[3] = <<"callback", c, f>> /\ t[4] = <<"data", c, f>>
         /\ t[5] = Step(IF f = NoCallback THEN "mask" ELSE "unmask", c)
         /\ t[6] = Step("on", c)
BY DEF RtcConfig, RtcFirst, SetCallback, MaskUnless

LEMMA PwmConfigIs ==
  ASSUME NEW c, NEW f, NEW t, t = PwmConfig(c, f)
  PROVE  /\ Len(t) = 4 /\ t[1] = Step("off", c)
         /\ t[2] = Step(IF f = NoCallback THEN "mask" ELSE "unmask", c)
         /\ t[3] = <<"callback", c, f>> /\ t[4] = <<"data", c, f>>
BY DEF PwmConfig, SetCallback, MaskUnless

LEMMA WdtConfigIs ==
  ASSUME NEW c, NEW f, NEW t, t = WdtConfig(c, f)
  PROVE  /\ t[1] = Step("clear", c)
         /\ f = NoCallback => /\ Len(t) = 3 /\ t[2] = Step("mask", c)
                              /\ t[3] = Step("clear", c)
         /\ f # NoCallback => /\ Len(t) = 5
                              /\ t[2] = <<"callback", c, f>>
                              /\ t[3] = <<"data", c, f>>
                              /\ t[4] = Step("unmask", c)
                              /\ t[5] = Step("clear", c)
BY DEF WdtConfig, SetCallback, MaskUnless

LEMMA PicConfigIs ==
  ASSUME NEW c, NEW f, NEW t, t = PicConfig(c, f)
  PROVE  /\ Len(t) = 5 /\ t[1] = Step("off", c) /\ t[2] = Step("mask", c)
         /\ t[3] = <<"callback", c, f>> /\ t[4] = <<"data", c, f>>
         /\ t[5] = Step(IF f = NoCallback THEN "mask" ELSE "unmask", c)
BY DEF PicConfig, SetCallback, MaskUnless

LEMMA SsTimerConfigIs ==
  ASSUME NEW c, NEW f, NEW t, t = SsTimerConfig(c, f)
  PROVE  /\ Len(t) = 4 /\ t[1] = Step("clear", c)
         /\ t[2] = Step(IF f = NoCallback THEN "mask" ELSE "unmask", c)
         /\ t[3] = <<"callback", c, f>> /\ t[4] = <<"data", c, f>>
BY DEF SsTimerConfig, SetCallback, MaskUnless

\* What a call of the client for one channel is made of.
ConfigOf(t, c) ==
  /\ t \in Seq(TaskActs)
  /\ \A i \in 1 .. Len(t) :
       /\ t[i][1] \in {"callback", "data"} =>
            /\ t[i][2] = c
            /\ \A j \in 1 .. i - 1 : t[j][1] # "on"
            /\ timer = "rtc" => i >= 3 /\ t[1] = Step("off", c) /\ t[2] = Step("clear", c)
       /\ t[i][1] = "callback" =>
            \/ t[i][3] = NoCallback
            \/ i < Len(t) /\ t[i + 1] = <<"data", c, t[i][3]>>
       /\ t[i][1] = "data" => i # 1 /\ t[i - 1] = <<"callback", c, t[i][3]>>

LEMMA NoPairIs ==
  ASSUME NEW t \in Seq(TaskActs), NEW c,
         \A i \in 1 .. Len(t) : t[i][1] \notin {"callback", "data"}
  PROVE  ConfigOf(t, c)
BY DEF ConfigOf

LEMMA OnePairIs ==
  ASSUME NEW t \in Seq(TaskActs), NEW c, NEW f, NEW k \in 1 .. Len(t),
         t[k] = <<"callback", c, f>>,
         \/ f = NoCallback /\ k = Len(t)
         \/ k < Len(t) /\ t[k + 1] = <<"data", c, f>>,
         \A i \in 1 .. Len(t) :
           i = k \/ i = k + 1 \/ t[i][1] \notin {"callback", "data"},
         \A i \in 1 .. k - 1 : t[i][1] # "on",
         timer = "rtc" => k = 3 /\ t[1] = Step("off", c) /\ t[2] = Step("clear", c)
  PROVE  ConfigOf(t, c)
<1>1. t[k][1] = "callback" /\ t[k][2] = c /\ t[k][3] = f
  OBVIOUS
<1>2. ASSUME NEW i \in 1 .. Len(t), t[i][1] \in {"callback", "data"}
      PROVE  /\ t[i][2] = c
             /\ \A j \in 1 .. i - 1 : t[j][1] # "on"
             /\ timer = "rtc" => i >= 3 /\ t[1] = Step("off", c) /\ t[2] = Step("clear", c)
             /\ t[i][1] = "callback" =>
                  \/ t[i][3] = NoCallback
                  \/ i < Len(t) /\ t[i + 1] = <<"data", c, t[i][3]>>
             /\ t[i][1] = "data" => i # 1 /\ t[i - 1] = <<"callback", c, t[i][3]>>
  <2>1. CASE i = k
    BY <1>1, <2>1
  <2>2. CASE i = k + 1
    <3>1. t[i] = <<"data", c, f>> /\ i # 1 /\ i - 1 = k
      BY <2>2
    <3>2. t[i][1] = "data" /\ t[i][2] = c /\ t[i][3] = f
      BY <3>1
    <3>3. \A j \in 1 .. i - 1 : j = k \/ j \in 1 .. k - 1
      BY <2>2
    <3>4. \A j \in 1 .. i - 1 : t[j][1] # "on"
      BY <1>1, <3>3
    <3> QED
      BY <2>2, <3>1, <3>2, <3>4
  <2> QED
    BY <1>2, <2>1, <2>2
<1> QED
  BY <1>2 DEF ConfigOf

\* Whatever the timer, a call changes the callback and the data of its channel
\* at neighbouring places, after it has turned off and cleared an RTC.
LEMMA ConfigStepsAre ==
  ASSUME timer \in TimerKinds, NEW c \in Channels,
         NEW f \in Callbacks \cup {NoCallback}
  PROVE  ConfigOf(ConfigSteps(c, f), c)
<1> DEFINE cb == <<"callback", c, f>>
           data == <<"data", c, f>>
           w == IF f = NoCallback THEN "mask" ELSE "unmask"
<1> SUFFICES ASSUME NEW t, t = ConfigSteps(c, f)
             PROVE  ConfigOf(t, c)
  OBVIOUS
<1>1. timer \in AllTimerKinds
  BY TimersAssumption
<1>2. cb \in TaskActs /\ data \in TaskActs
  BY DEF TaskActs
<1>3. ASSUME NEW what \in {"on", "off", "mask", "unmask", "clear"}
      PROVE  Step(what, c) \in TaskActs /\ Step(what, c)[1] = what
  BY DEF TaskActs, Step
<1>4. w \in {"mask", "unmask"}
  OBVIOUS
<1>5. /\ <<cb, data>> \in Seq(TaskActs) /\ <<cb>> \in Seq(TaskActs)
      /\ <<Step(w, c)>> \in Seq(TaskActs) /\ <<Step("on", c)>> \in Seq(TaskActs)
      /\ <<Step("clear", c)>> \in Seq(TaskActs)
      /\ <<Step("off", c)>> \in Seq(TaskActs)
      /\ <<Step("off", c), Step("clear", c)>> \in Seq(TaskActs)
      /\ <<Step("off", c), Step("mask", c)>> \in Seq(TaskActs)
  BY <1>2, <1>3, <1>4
<1>6. /\ SetCallback(c, f) = <<cb, data>> /\ MaskUnless(f, c) = <<Step(w, c)>>
      /\ RtcFirst(c) = <<Step("off", c), Step("clear", c)>>
  BY DEF SetCallback, MaskUnless, RtcFirst
<1> HIDE DEF w
<1>7. CASE timer = "aonpt"
  <2>1. t = AonptConfig(c, f)
    BY <1>7 DEF ConfigSteps
  <2>2. t \in Seq(TaskActs)
    BY <1>5, <1>6, <2>1 DEF AonptConfig
  <2>3. /\ Len(t) = IF f = NoCallback THEN 2 ELSE 3
        /\ t[1] = Step("clear", c) /\ t[2] = cb
        /\ f # NoCallback => t[3] = data
    BY <2>1, AonptConfigIs
  <2>4. /\ 2 \in 1 .. Len(t)
        /\ \A i \in 1 .. Len(t) : i = 2 \/ i = 2 + 1 \/ t[i][1] \notin {"callback", "data"}
        /\ \A i \in 1 .. 2 - 1 : t[i][1] # "on"
    BY <1>3, <2>3
  <2> QED
    BY <1>7, <2>2, <2>3, <2>4, OnePairIs
<1>8. CASE timer = "rtc"
  <2>1. t = RtcConfig(c, f)
    BY <1>8 DEF ConfigSteps
  <2>2. t \in Seq(TaskActs)
    BY <1>5, <1>6, <2>1 DEF RtcConfig
  <2>3. /\ Len(t) = 6 /\ t[1] = Step("off", c) /\ t[2] = Step("clear", c)
        /\ t[3] = cb /\ t[4] = data /\ t[5] = Step(w, c) /\ t[6] = Step("on", c)
    BY <2>1, RtcConfigIs DEF w
  <2>4. /\ 3 \in 1 .. Len(t)
        /\ \A i \in 1 .. Len(t) : i = 3 \/ i = 3 + 1 \/ t[i][1] \notin {"callback", "data"}
        /\ \A i \in 1 .. 3 - 1 : t[i][1] # "on"
    BY <1>3, <1>4, <2>3
  <2>5. 3 < Len(t) /\ t[3 + 1] = data
    BY <2>3
  <2> HIDE DEF cb, data
  <2> QED
    BY SMTT(30), <1>8, <2>2, <2>3, <2>4, <2>5, OnePairIs DEF cb, data
<1>9. CASE timer \in {"pwm", "pwms"}
  <2>1. t = PwmConfig(c, f)
    BY <1>9 DEF ConfigSteps
  <2>2. t \in Seq(TaskActs)
    BY <1>5, <1>6, <2>1 DEF PwmConfig
  <2>3. /\ Len(t) = 4 /\ t[1] = Step("off", c) /\ t[2] = Step(w, c)
        /\ t[3] = cb /\ t[4] = data
    BY <2>1, PwmConfigIs DEF w
  <2>4. /\ 3 \in 1 .. Len(t)
        /\ \A i \in 1 .. Len(t) : i = 3 \/ i = 3 + 1 \/ t[i][1] \notin {"callback", "data"}
        /\ \A i \in 1 .. 3 - 1 : t[i][1] # "on"
    BY <1>3, <1>4, <2>3
  <2> QED
    BY SMTT(30), <1>9, <2>2, <2>3, <2>4, OnePairIs
<1>10. CASE timer = "wdt"
  <2>1. t = WdtConfig(c, f)
    BY <1>10 DEF ConfigSteps
  <2>2. t \in Seq(TaskActs)
    BY <1>5, <1>6, <2>1 DEF WdtConfig
  <2>3. CASE f = NoCallback
    <3>1. /\ Len(t) = 3 /\ t[1] = Step("clear", c) /\ t[2] = Step("mask", c)
          /\ t[3] = Step("clear", c)
      BY <2>1, <2>3, WdtConfigIs
    <3>2. \A i \in 1 .. Len(t) : t[i][1] \notin {"callback", "data"}
      BY <1>3, <3>1
    <3> QED
      BY <2>2, <3>2, NoPairIs
  <2>4. CASE f # NoCallback
    <3>1. /\ Len(t) = 5 /\ t[1] = Step("clear", c) /\ t[2] = cb /\ t[3] = data
          /\ t[4] = Step("unmask", c) /\ t[5] = Step("clear", c)
      BY <2>1, <2>4, WdtConfigIs
    <3>2. /\ 2 \in 1 .. Len(t)
          /\ \A i \in 1 .. Len(t) : i = 2 \/ i = 2 + 1 \/ t[i][1] \notin {"callback", "data"}
          /\ \A i \in 1 .. 2 - 1 : t[i][1] # "on"
      BY <1>3, <3>1
    <3> QED
      BY SMTT(30), <1>10, <2>2, <3>1, <3>2, OnePairIs
  <2> QED
    BY <2>3, <2>4
<1>11. CASE timer = "pic"
  <2>1. t = PicConfig(c, f)
    BY <1>11 DEF ConfigSteps
  <2>2. t \in Seq(TaskActs)
    BY <1>5, <1>6, <2>1 DEF PicConfig
  <2>3. /\ Len(t) = 5 /\ t[1] = Step("off", c) /\ t[2] = Step("mask", c)
        /\ t[3] = cb /\ t[4] = data /\ t[5] = Step(w, c)
    BY <2>1, PicConfigIs DEF w
  <2>4. /\ 3 \in 1 .. Len(t)
        /\ \A i \in 1 .. Len(t) : i = 3 \/ i = 3 + 1 \/ t[i][1] \notin {"callback", "data"}
        /\ \A i \in 1 .. 3 - 1 : t[i][1] # "on"
    BY <1>3, <1>4, <2>3
  <2> QED
    BY SMTT(30), <1>11, <2>2, <2>3, <2>4, OnePairIs
<1>12. CASE timer = "ss"
  <2>1. t = SsTimerConfig(c, f)
    BY <1>12 DEF ConfigSteps
  <2>2. t \in Seq(TaskActs)
    BY <1>5, <1>6, <2>1 DEF SsTimerConfig
  <2>3. /\ Len(t) = 4 /\ t[1] = Step("clear", c) /\ t[2] = Step(w, c)
        /\ t[3] = cb /\ t[4] = data
    BY <2>1, SsTimerConfigIs DEF w
  <2>4. /\ 3 \in 1 .. Len(t)
        /\ \A i \in 1 .. Len(t) : i = 3 \/ i = 3 + 1 \/ t[i][1] \notin {"callback", "data"}
        /\ \A i \in 1 .. 3 - 1 : t[i][1] # "on"
    BY <1>3, <1>4, <2>3
  <2> QED
    BY <1>12, <2>2, <2>3, <2>4, OnePairIs
<1> QED
  BY <1>1, <1>7, <1>8, <1>9, <1>10, <1>11, <1>12 DEF AllTimerKinds

TimersCall(c) ==
  \/ Start(c) \/ Stop(c) \/ Clear(c) \/ SetAlarm(c)
  \/ \E f \in Callbacks \cup {NoCallback} : SetConfig(c, f)

\* A call of the client, when it starts.
LEMMA CallDoes ==
  ASSUME TimersSteps, NEW c \in Channels, TimersCall(c)
  PROVE  /\ task = <<>> /\ isr = <<>>
         /\ ConfigOf(task', c)
         /\ \/ \A i \in 1 .. Len(task') : task'[i][1] \notin {"callback", "data"}
            \/ c \in on \cup pending => timer \in LiveReconfig
         /\ timer' = timer /\ on' = on /\ pending' = pending /\ isr' = isr
         /\ callback' = callback /\ callback_data' = callback_data
         /\ unseen' = unseen
<1> DEFINE Plain(t) == /\ t \in Seq(TaskActs)
                       /\ \A i \in 1 .. Len(t) : t[i][1] \notin {"callback", "data"}
<1>1. ASSUME NEW what \in {"on", "off", "mask", "unmask", "clear"}
      PROVE  Step(what, c) \in TaskActs /\ Step(what, c)[1] = what
  BY DEF TaskActs, Step
<1>2. /\ Plain(<<Step("on", c)>>) /\ Plain(<<Step("off", c)>>)
      /\ Plain(<<Step("clear", c)>>) /\ Plain(<<Step("unmask", c)>>)
  BY <1>1
<1>3. Plain(<<Step("on", c), Step("clear", c)>>)
  <2> DEFINE a == Step("on", c)
             b == Step("clear", c)
  <2>1. a \in TaskActs /\ b \in TaskActs /\ a[1] = "on" /\ b[1] = "clear"
    BY <1>1
  <2> HIDE DEF a, b
  <2>2. Plain(<<a, b>>)
    BY <2>1
  <2> QED
    BY <2>2 DEF a, b
<1>4. CASE Start(c)
  <2>1. task' = <<Step("on", c)>> \o IF timer = "wdt" THEN <<Step("clear", c)>> ELSE <<>>
    BY <1>4 DEF Start, Calls
  <2>2. /\ <<Step("on", c)>> \o <<>> = <<Step("on", c)>>
        /\ <<Step("on", c), Step("clear", c)>> = <<Step("on", c)>> \o <<Step("clear", c)>>
    OBVIOUS
  <2>3. Plain(task')
    BY <1>2, <1>3, <2>1, <2>2
  <2> QED
    BY <1>4, <2>3, NoPairIs DEF Start, Calls
<1>5. CASE Stop(c) \/ Clear(c) \/ SetAlarm(c)
  <2>1. Plain(task')
    BY <1>2, <1>5 DEF Stop, Clear, SetAlarm, Calls
  <2> QED
    BY <1>5, <2>1, NoPairIs DEF Stop, Clear, SetAlarm, Calls
<1>6. ASSUME NEW f \in Callbacks \cup {NoCallback}, SetConfig(c, f)
      PROVE  /\ task = <<>> /\ isr = <<>> /\ ConfigOf(task', c)
             /\ c \in on \cup pending => timer \in LiveReconfig
             /\ timer' = timer /\ on' = on /\ pending' = pending /\ isr' = isr
             /\ callback' = callback /\ callback_data' = callback_data
             /\ unseen' = unseen
  BY <1>6, ConfigStepsAre DEF SetConfig, Calls, TimersSteps
<1> QED
  BY <1>4, <1>5, <1>6 DEF TimersCall

LEMMA CallKeepsExpiries ==
  ASSUME ExpiryInv, NEW c \in Channels, TimersCall(c)
  PROVE  ExpiryInv'
<1>1. /\ task' \in Seq(TaskActs)
      /\ timer' = timer /\ pending' = pending /\ isr' = isr
      /\ callback' = callback /\ callback_data' = callback_data
      /\ unseen' = unseen
  BY CallDoes DEF ExpiryInv, ConfigOf
<1> QED
  BY <1>1
  DEF ExpiryInv, TimersSteps, CalledThenCleared, NoExpiryLost, TaskActs, IsrActs,
      Channels, Step

\* No timer is on at first.
LEMMA ExpiryInitInv == TimersInit => ExpiryInv
BY TimersAssumption
DEF TimersInit, ExpiryInv, TimersSteps, CalledThenCleared, NoExpiryLost

\* ExpiryInv is inductive.
LEMMA ExpiryStepInv ==
  ASSUME ExpiryInv, [TimersNext]_timersVars
  PROVE  ExpiryInv'
<1>1. CASE UNCHANGED timersVars
  BY <1>1
  DEF timersVars, ExpiryInv, TimersSteps, CalledThenCleared, NoExpiryLost, TaskActs,
      IsrActs, Channels, Step
<1>2. ASSUME NEW c \in Channels, TimersCall(c)
      PROVE  ExpiryInv'
  BY <1>2, CallKeepsExpiries
<1>3. ASSUME NEW c \in Channels, Isr(c) \/ Expire(c)
      PROVE  ExpiryInv'
  BY <1>3, IsrKeepsExpiries, ExpireKeepsExpiries
<1>4. CASE TaskStep \/ IsrStep
  BY <1>4, TaskStepKeepsExpiries, IsrStepKeepsExpiries
<1> QED
  BY <1>1, <1>2, <1>3, <1>4 DEF TimersNext, TimersCall

\* No expiry is lost, whatever channel's handler runs and whatever call of the
\* client it meets: a handler clears an interrupt only right after the call for it.
THEOREM ExpiriesAnswered == TimersSpec => []NoExpiryLost
<1>1. ExpiryInv /\ [TimersNext]_timersVars => ExpiryInv'
  BY ExpiryStepInv
<1>2. ExpiryInv => NoExpiryLost
  BY DEF ExpiryInv
<1> QED
  BY <1>1, <1>2, ExpiryInitInv, PTL DEF TimersSpec

\* While the client's call stands still, and no channel that was quiet comes to
\* life, what its further steps rely on stays.
LEMMA CallWaits ==
  ASSUME TimersInv, task' = task, on' = on, timer' = timer,
         callback' = callback, callback_data' = callback_data,
         \A c \in Channels : Quiet(c) => Quiet(c)'
  PROVE  ChangedQuiet' /\ ChangedTogether' /\ DataFollows'
<1>1. /\ ChangedQuiet /\ ChangedTogether /\ DataFollows /\ Channels' = Channels
      /\ task \in Seq(TaskActs)
  BY DEF TimersInv, ExpiryInv, TimersSteps, Channels
<1>2. ChangedQuiet'
  <2> SUFFICES ASSUME NEW i \in 1 .. Len(task), task[i][1] \in {"callback", "data"}
               PROVE  /\ QuietBy(i, task[i][2])'
                      /\ \A j \in 1 .. i - 1 : task[j][1] # "on"
    BY DEF ChangedQuiet, QuietBy, Quiet, Step
  <2>1. task[i][2] \in Channels
    BY <1>1 DEF TaskActs
  <2>2. QuietBy(i, task[i][2]) /\ \A j \in 1 .. i - 1 : task[j][1] # "on"
    BY <1>1 DEF ChangedQuiet
  <2>3. QuietBy(i, task[i][2])'
    BY <2>1, <2>2 DEF QuietBy, Step
  <2> QED
    BY <2>2, <2>3
<1>3. ChangedTogether'
  BY <1>1 DEF ChangedTogether
<1>4. DataFollows'
  BY <1>1 DEF DataFollows
<1> QED
  BY <1>2, <1>3, <1>4

\* The actions keep what the calls rely on, one by one: a handler starts only
\* for what is pending, ...
LEMMA IsrKeepsCalls ==
  ASSUME TimersInv, NEW c \in Channels, Isr(c)
  PROVE  ChangedQuiet' /\ ChangedTogether' /\ DataFollows'
<1>1. /\ isr = <<>> /\ c \in pending /\ isr' = IsrSteps(c)
      /\ pending' \subseteq pending
      /\ timer' = timer /\ on' = on /\ callback' = callback
      /\ callback_data' = callback_data /\ task' = task
  BY DEF Isr
<1>2. Handles(isr')
  BY <1>1, IsrStepsHandle DEF TimersInv, ExpiryInv
<1>3. ASSUME NEW d \in Channels, Quiet(d)
      PROVE  Quiet(d)'
  <2>1. ~Contains(isr', Step("call", d))
    <3> SUFFICES ASSUME NEW i \in 1 .. Len(isr'), isr'[i] = Step("call", d)
                 PROVE  FALSE
      BY DEF Contains
    <3>1. isr'[i][1] = "call" /\ isr'[i][2] = d
      BY StepsDiffer
    <3> QED
      BY <1>2, <1>3, <3>1 DEF Handles, Quiet
  <2> QED
    BY <1>1, <1>3, <2>1 DEF Quiet, Step
<1> QED
  BY <1>1, <1>3, CallWaits

\* ... calls back only what was pending, ...
LEMMA IsrStepKeepsCalls ==
  ASSUME TimersInv, IsrStep
  PROVE  ChangedQuiet' /\ ChangedTogether' /\ DataFollows'
<1> DEFINE s == isr[1]
<1>1. TimersSteps /\ timer' = timer /\ task' = task
  BY DEF IsrStep, TimersInv, ExpiryInv
<1>2. isr \in Seq(IsrActs) /\ isr # <<>> /\ Len(isr) \in Nat
  BY <1>1 DEF IsrStep, TimersSteps
<1>3. /\ s \in IsrActs /\ Does(s)
      /\ \/ /\ s[1] = "look" /\ s[2] \in pending
            /\ Len(isr') = Len(isr) + 1
            /\ isr'[1] = Step("call", s[2]) /\ isr'[2] = Step("clear", s[2])
            /\ \A i \in 3 .. Len(isr') : isr'[i] = isr[i - 1]
         \/ /\ Len(isr') = Len(isr) - 1
            /\ \A i \in 1 .. Len(isr') : isr'[i] = isr[i + 1]
  BY <1>1, IsrGoesOn
<1>4. /\ on' = on /\ callback' = callback /\ callback_data' = callback_data
      /\ pending' \subseteq pending
  BY <1>3, IsrActDoes
<1> HIDE DEF s
<1>5. ASSUME NEW d \in Channels, Quiet(d)
      PROVE  Quiet(d)'
  <2>1. ~Contains(isr', Step("call", d))
    <3> SUFFICES ASSUME NEW i \in 1 .. Len(isr'), isr'[i] = Step("call", d)
                 PROVE  Contains(isr, Step("call", d)) \/ d \in pending
      BY <1>5 DEF Contains, Quiet
    <3>1. CASE /\ Len(isr') = Len(isr) - 1
               /\ \A j \in 1 .. Len(isr') : isr'[j] = isr[j + 1]
      <4>1. i + 1 \in 1 .. Len(isr) /\ isr[i + 1] = Step("call", d)
        BY <1>2, <3>1
      <4> QED
        BY <4>1 DEF Contains
    <3>2. CASE /\ Len(isr') = Len(isr) + 1 /\ s[2] \in pending
               /\ isr'[1] = Step("call", s[2]) /\ isr'[2] = Step("clear", s[2])
               /\ \A j \in 3 .. Len(isr') : isr'[j] = isr[j - 1]
      <4>1. CASE i \in {1, 2}
        BY <3>2, <4>1, StepsDiffer
      <4>2. CASE i \notin {1, 2}
        <5>1. i \in 3 .. Len(isr') /\ i - 1 \in 1 .. Len(isr)
          BY <1>2, <3>2, <4>2
        <5> QED
          BY <3>2, <5>1 DEF Contains
      <4> QED
        BY <4>1, <4>2
    <3> QED
      BY <1>3, <3>1, <3>2
  <2> QED
    BY <1>4, <1>5, <2>1 DEF Quiet, Step
<1> QED
  BY <1>1, <1>4, <1>5, CallWaits

\* ... and only a channel that is on expires.
LEMMA ExpireKeepsCalls ==
  ASSUME TimersInv, NEW c \in Channels, Expire(c)
  PROVE  ChangedQuiet' /\ ChangedTogether' /\ DataFollows'
<1>1. /\ c \in on /\ pending' = pending \cup {c} /\ timer' = timer /\ on' = on
      /\ callback' = callback /\ callback_data' = callback_data
      /\ task' = task /\ isr' = isr
  BY DEF Expire
<1>2. \A d \in Channels : Quiet(d) => Quiet(d)'
  BY <1>1 DEF Quiet, Step
<1> QED
  BY <1>1, <1>2, CallWaits

\* QuietBy of the state after a step.
QuietByNext(i, c) ==
  \/ c \notin on' \cup pending' /\ ~Contains(isr', Step("call", c))
  \/ \E j \in 1 .. i - 1 :
       /\ task'[j] = Step("clear", c)
       /\ c \notin on' \/ \E k \in 1 .. j - 1 : task'[k] = Step("off", c)

LEMMA ChangedQuietNext ==
  ASSUME \A i \in 1 .. Len(task') :
           task'[i][1] \in {"callback", "data"} =>
             /\ QuietByNext(i, task'[i][2])
             /\ \A j \in 1 .. i - 1 : task'[j][1] # "on"
  PROVE  ChangedQuiet'
BY DEF ChangedQuiet, QuietBy, Quiet, QuietByNext

\* A call starts while its channel is off, or turns the RTC off first.
LEMMA CallKeepsCalls ==
  ASSUME TimersInv, NEW c \in Channels, TimersCall(c),
         LiveReconfig \subseteq {"rtc"}
  PROVE  ChangedQuiet' /\ ChangedTogether' /\ DataFollows'
<1>1. /\ task = <<>> /\ isr = <<>>
      /\ \/ \A i \in 1 .. Len(task') : task'[i][1] \notin {"callback", "data"}
         \/ c \in on \cup pending => timer = "rtc"
      /\ timer' = timer /\ on' = on /\ pending' = pending /\ isr' = isr
      /\ callback' = callback /\ callback_data' = callback_data
  BY CallDoes DEF TimersInv, ExpiryInv
<1>2. /\ task' \in Seq(TaskActs)
      /\ \A i \in 1 .. Len(task') :
           /\ task'[i][1] \in {"callback", "data"} =>
                /\ task'[i][2] = c
                /\ \A j \in 1 .. i - 1 : task'[j][1] # "on"
                /\ timer = "rtc" => /\ i >= 3
                                    /\ task'[1] = Step("off", c)
                                    /\ task'[2] = Step("clear", c)
           /\ task'[i][1] = "callback" =>
                \/ task'[i][3] = NoCallback
                \/ i < Len(task') /\ task'[i + 1] = <<"data", c, task'[i][3]>>
           /\ task'[i][1] = "data" =>
                i # 1 /\ task'[i - 1] = <<"callback", c, task'[i][3]>>
  BY CallDoes DEF ConfigOf, TimersInv, ExpiryInv
<1>3. ChangedQuiet'
  <2> SUFFICES ASSUME NEW i \in 1 .. Len(task'), task'[i][1] \in {"callback", "data"}
               PROVE  QuietByNext(i, c)
    BY <1>2, ChangedQuietNext
  <2>1. CASE c \notin on \cup pending
    BY <1>1, <2>1, NoCallAtRest DEF QuietByNext
  <2>2. CASE timer = "rtc"
    <3>1. /\ 2 \in 1 .. i - 1 /\ 1 \in 1 .. 2 - 1
          /\ task'[1] = Step("off", c) /\ task'[2] = Step("clear", c)
      BY <1>2, <2>2
    <3> QED
      BY <3>1 DEF QuietByNext, Step
  <2> QED
    BY <1>1, <2>1, <2>2
<1>4. ChangedTogether'
  <2> SUFFICES ASSUME NEW i \in 1 .. Len(task')
               PROVE  /\ task'[i][1] = "callback" =>
                           \/ task'[i][3] = NoCallback
                           \/ /\ i < Len(task')
                              /\ task'[i + 1] = <<"data", task'[i][2], task'[i][3]>>
                      /\ task'[i][1] = "data" =>
                           /\ i # 1
                           /\ task'[i - 1] = <<"callback", task'[i][2], task'[i][3]>>
    BY DEF ChangedTogether
  <2> QED
    BY <1>2
<1>5. DataFollows'
  BY <1>1 DEF TimersInv, DataFollows, Channels
<1> QED
  BY <1>3, <1>4, <1>5

\* Each further step of the call leaves its rest what it relies on.
LEMMA TaskStepKeepsCalls ==
  ASSUME TimersInv, TaskStep
  PROVE  ChangedQuiet' /\ ChangedTogether' /\ DataFollows'
<1> DEFINE s == task[1]
<1>1. /\ isr = <<>> /\ isr' = <<>> /\ timer' = timer /\ task # <<>>
      /\ task' = Tail(task) /\ task \in Seq(TaskActs)
      /\ ChangedQuiet /\ ChangedTogether /\ DataFollows
  BY DEF TaskStep, TimersInv, ExpiryInv, TimersSteps
<1>2. /\ s \in TaskActs /\ Head(task) = s /\ Len(task) \in Nat /\ Len(task) >= 1
      /\ task' \in Seq(TaskActs) /\ Len(task') = Len(task) - 1
      /\ \A i \in 1 .. Len(task') : i + 1 \in 1 .. Len(task) /\ task'[i] = task[i + 1]
  BY <1>1, HeadTail
<1>3. Does(s)
  BY <1>2 DEF TaskStep
<1>4. /\ s[2] \in Channels /\ s[3] \in Callbacks \cup {NoCallback}
      /\ s = <<s[1], s[2], s[3]>>
      /\ s[1] # "on" => on' \subseteq on
      /\ s[1] = "off" => s[2] \notin on'
      /\ pending' = IF s[1] = "clear" THEN pending \ {s[2]} ELSE pending
      /\ callback' = IF s[1] = "callback" THEN [callback EXCEPT ![s[2]] = s[3]]
                                          ELSE callback
      /\ callback_data' = IF s[1] = "data" THEN [callback_data EXCEPT ![s[2]] = s[3]]
                                           ELSE callback_data
  BY <1>2, <1>3, TaskActDoes
<1>5. /\ DOMAIN callback = Channels /\ DOMAIN callback_data = Channels
      /\ Channels' = Channels
  BY <1>1 DEF TimersInv, ExpiryInv, TimersSteps, Channels
<1>6. ASSUME NEW i \in 1 .. Len(task'), task'[i][1] \in {"callback", "data"}
      PROVE  /\ QuietByNext(i, task'[i][2])
             /\ \A j \in 1 .. i - 1 : task'[j][1] # "on"
  <2> DEFINE c == task'[i][2]
  <2>1. QuietBy(i + 1, c) /\ \A j \in 1 .. i : task[j][1] # "on"
    BY <1>1, <1>2, <1>6 DEF ChangedQuiet
  <2>2. \A j \in 1 .. i - 1 : task'[j][1] # "on"
    BY <1>2, <2>1
  <2>3. on' \subseteq on
    BY <1>4, <2>1
  <2> HIDE DEF c
  <2>4. CASE Quiet(c)
    <3>1. QuietByNext(i, c)
      BY <1>1, <1>4, <2>3, <2>4, NoCallAtRest DEF Quiet, QuietByNext
    <3> QED
      BY <2>2, <3>1 DEF c
  <2>5. CASE ~Quiet(c)
    <3>1. PICK j \in 1 .. i :
            /\ task[j] = Step("clear", c)
            /\ c \notin on \/ \E k \in 1 .. j - 1 : task[k] = Step("off", c)
      BY <2>1, <2>5 DEF QuietBy
    <3>2. CASE j = 1
      <4>1. s[1] = "clear" /\ s[2] = c
        BY <3>1, <3>2, StepsDiffer
      <4>2. c \notin on
        BY <3>1, <3>2
      <4>3. QuietByNext(i, c)
        BY <1>1, <1>4, <2>3, <4>1, <4>2, NoCallAtRest DEF QuietByNext
      <4> QED
        BY <2>2, <4>3 DEF c
    <3>3. CASE j # 1
      <4>1. /\ j - 1 \in 1 .. i - 1 /\ j - 1 \in 1 .. Len(task')
            /\ (j - 1) + 1 = j
            /\ task'[j - 1] = Step("clear", c)
        <5>1. /\ j - 1 \in 1 .. i - 1 /\ j - 1 \in 1 .. Len(task')
              /\ (j - 1) + 1 = j
          BY <3>3
        <5>2. task'[j - 1] = task[(j - 1) + 1]
          BY <1>2, <5>1
        <5> QED
          BY <3>1, <5>1, <5>2
      <4>2. c \notin on' \/ \E k \in 1 .. (j - 1) - 1 : task'[k] = Step("off", c)
        <5>1. CASE c \notin on
          BY <2>3, <5>1
        <5>2. CASE \E k \in 1 .. j - 1 : task[k] = Step("off", c)
          <6>1. PICK k \in 1 .. j - 1 : task[k] = Step("off", c)
            BY <5>2
          <6>2. CASE k = 1
            <7>1. s[1] = "off" /\ s[2] = c
              BY <6>1, <6>2, StepsDiffer
            <7> QED
              BY <1>4, <7>1
          <6>3. CASE k # 1
            <7>1. /\ k - 1 \in 1 .. (j - 1) - 1 /\ k - 1 \in 1 .. Len(task')
                  /\ (k - 1) + 1 = k
              BY <1>2, <6>3
            <7>2. task'[k - 1] = Step("off", c)
              BY <1>2, <6>1, <7>1
            <7> QED
              BY <7>1, <7>2
          <6> QED
            BY <6>2, <6>3
        <5> QED
          BY <3>1, <5>1, <5>2
      <4>3. QuietByNext(i, c)
        BY <4>1, <4>2 DEF QuietByNext
      <4> QED
        BY <2>2, <4>3 DEF c
    <3> QED
      BY <3>2, <3>3
  <2> QED
    BY <2>4, <2>5
<1>7. ChangedQuiet'
  BY <1>6, ChangedQuietNext
<1>8. ASSUME NEW i \in 1 .. Len(task')
      PROVE  /\ task'[i][1] = "callback" =>
                  \/ task'[i][3] = NoCallback
                  \/ /\ i < Len(task')
                     /\ task'[i + 1] = <<"data", task'[i][2], task'[i][3]>>
             /\ task'[i][1] = "data" =>
                  IF i = 1 THEN task'[i][3] = callback'[task'[i][2]]
                  ELSE task'[i - 1] = <<"callback", task'[i][2], task'[i][3]>>
  <2>1. i + 1 \in 1 .. Len(task) /\ task'[i] = task[i + 1] /\ i + 1 # 1 /\ (i + 1) - 1 = i
    BY <1>2
  <2>2. task'[i] \in TaskActs
    BY <1>2
  <2>3. task'[i][2] \in Channels
    BY <2>2 DEF TaskActs
  <2>4. ASSUME task'[i][1] = "callback", task'[i][3] # NoCallback
        PROVE  i < Len(task') /\ task'[i + 1] = <<"data", task'[i][2], task'[i][3]>>
    <3>1. /\ i + 1 < Len(task)
          /\ task[(i + 1) + 1] = <<"data", task'[i][2], task'[i][3]>>
      BY <1>1, <2>1, <2>4 DEF ChangedTogether
    <3>2. i + 1 \in 1 .. Len(task')
      BY <1>2, <3>1
    <3> QED
      BY <1>2, <3>1, <3>2
  <2>5. ASSUME task'[i][1] = "data"
        PROVE  IF i = 1 THEN task'[i][3] = callback'[task'[i][2]]
               ELSE task'[i - 1] = <<"callback", task'[i][2], task'[i][3]>>
    <3>1. task[i] = <<"callback", task'[i][2], task'[i][3]>>
      BY <1>1, <2>1, <2>5 DEF ChangedTogether
    <3>2. CASE i = 1
      <4>1. s[1] = "callback" /\ s[2] = task'[i][2] /\ s[3] = task'[i][3]
        BY <3>1, <3>2
      <4> QED
        BY <1>4, <1>5, <2>3, <3>2, <4>1
    <3>3. CASE i # 1
      <4>1. i - 1 \in 1 .. Len(task') /\ (i - 1) + 1 = i
        BY <1>2, <3>3
      <4> QED
        BY <1>2, <3>1, <3>3, <4>1
    <3> QED
      BY <3>2, <3>3
  <2> QED
    BY <2>4, <2>5
<1>9. ChangedTogether'
  BY <1>8 DEF ChangedTogether
<1>10. DataFollows'
  <2> SUFFICES ASSUME NEW c \in Channels, callback'[c] # NoCallback,
                      callback_data'[c] # callback'[c]
               PROVE  task' # <<>> /\ task'[1] = <<"data", c, callback'[c]>>
    BY <1>5 DEF DataFollows
  <2>1. /\ callback[c] # NoCallback /\ callback_data[c] # callback[c]
             => s[1] = "data" /\ s[2] = c
        /\ s[1] = "callback" /\ s[3] # NoCallback =>
             1 < Len(task) /\ task[1 + 1] = <<"data", s[2], s[3]>>
        /\ s[1] = "data" => s[3] = callback[s[2]]
    BY <1>1, <1>2 DEF DataFollows, ChangedTogether
  <2> HIDE DEF s
  <2>2. CASE s[1] = "callback" /\ s[2] = c
    <3>1. callback'[c] = s[3]
      BY <1>4, <1>5, <2>2
    <3>2. 1 \in 1 .. Len(task')
      BY <1>2, <2>1, <2>2, <3>1
    <3>3. task'[1] = <<"data", c, callback'[c]>>
      BY <1>2, <2>1, <2>2, <3>1, <3>2
    <3>4. task' # <<>>
      BY <3>2
    <3> QED
      BY <3>3, <3>4
  <2>3. CASE ~(s[1] = "callback" /\ s[2] = c)
    <3>1. callback'[c] = callback[c]
      BY <1>4, <1>5, <2>3
    <3>2. CASE s[1] = "data" /\ s[2] = c
      <4>1. callback_data'[c] = s[3]
        BY <1>4, <1>5, <3>2
      <4> QED
        BY <2>1, <3>1, <3>2, <4>1
    <3>3. CASE ~(s[1] = "data" /\ s[2] = c)
      <4>1. callback_data'[c] = callback_data[c]
        BY <1>4, <1>5, <3>3
      <4> QED
        BY <2>1, <3>1, <3>3, <4>1
    <3> QED
      BY <3>2, <3>3
  <2> QED
    BY <2>2, <2>3
<1> QED
  BY <1>7, <1>9, <1>10

\* TimersInv is inductive where only the RTC is configured while it runs.
LEMMA TimersStepInv ==
  ASSUME TimersInv, [TimersNext]_timersVars, LiveReconfig \subseteq {"rtc"}
  PROVE  TimersInv'
<1>1. ExpiryInv'
  BY ExpiryStepInv DEF TimersInv
<1>2. CASE UNCHANGED timersVars
  BY <1>1, <1>2, CallWaits DEF timersVars, TimersInv, Quiet, Step
<1>3. ASSUME NEW c \in Channels, TimersCall(c)
      PROVE  TimersInv'
  BY <1>1, <1>3, CallKeepsCalls DEF TimersInv
<1>4. ASSUME NEW c \in Channels, Isr(c) \/ Expire(c)
      PROVE  TimersInv'
  BY <1>1, <1>4, IsrKeepsCalls, ExpireKeepsCalls DEF TimersInv
<1>5. CASE TaskStep \/ IsrStep
  BY <1>1, <1>5, TaskStepKeepsCalls, IsrStepKeepsCalls DEF TimersInv
<1> QED
  BY <1>2, <1>3, <1>4, <1>5 DEF TimersNext, TimersCall

\* A callback is never called with the data of another: a configuration call writes
\* the two one after the other, but while the channel cannot call back, if only the
\* RTC, which turns itself off first, is configured while it runs.
THEOREM CallbackWithData ==
  ASSUME LiveReconfig \subseteq {"rtc"}
  PROVE  TimersSpec => []CallbackGetsItsData
<1>1. TimersInit => TimersInv
  BY ExpiryInitInv
  DEF TimersInit, TimersInv, ChangedQuiet, ChangedTogether, DataFollows
<1>2. TimersInv /\ [TimersNext]_timersVars => TimersInv'
  BY TimersStepInv
<1>3. ASSUME TimersInv
      PROVE  CallbackGetsItsData
  <2> SUFFICES ASSUME isr # <<>>, Head(isr)[1] = "call",
                      NEW c, c = Head(isr)[2], callback[c] # NoCallback,
                      callback_data[c] # callback[c]
               PROVE  FALSE
    BY DEF CallbackGetsItsData
  <2>1. /\ isr \in Seq(IsrActs) /\ task \in Seq(TaskActs)
        /\ ChangedQuiet /\ DataFollows
    BY <1>3 DEF TimersInv, ExpiryInv, TimersSteps
  <2>2. Head(isr) = isr[1] /\ isr[1] \in IsrActs /\ 1 \in 1 .. Len(isr)
    BY <2>1, HeadTail
  <2>3. c \in Channels /\ isr[1] = Step("call", c)
    BY <2>2 DEF IsrActs, Step
  <2>4. task # <<>> /\ task[1] = <<"data", c, callback[c]>>
    BY <2>1, <2>3 DEF DataFollows
  <2>5. 1 \in 1 .. Len(task) /\ task[1][1] = "data" /\ task[1][2] = c
    BY <2>1, <2>4
  <2>6. QuietBy(1, c)
    BY <2>1, <2>5 DEF ChangedQuiet
  <2>7. Quiet(c)
    BY <2>6 DEF QuietBy
  <2> QED
    BY <2>2, <2>3, <2>7 DEF Quiet, Contains
<1> QED
  BY <1>1, <1>2, <1>3, PTL DEF TimersSpec

-----------------------------------------------------------------------------
(* The slave of the I2C driver.                                            *)

\* SlvInv without the data: what is raised, what was seen, who may fill.
SlvControl ==
  /\ slvOn \in BOOLEAN /\ slvOngoing \in BOOLEAN /\ slvStale \in BOOLEAN
  /\ SlvRaisedOK /\ SlvSnapOK
  /\ slvTxEmpty \/ slvPc \in Filling => SlvMayServe
  /\ ~SlvServing => slvTxFifo = <<>>

\* The part of SlvInv about the bytes the master reads.
SlvReads ==
  /\ slvOut \in Seq(SlvItems) /\ slvTxFifo \in Seq(SlvItems) /\ slvGiven \in Nat
  /\ SlvServing => SlvAnswer
  /\ SlaveAnswers

\* The invariant is its three parts: control, what is read, what is received.
LEMMA SlvParts ==
  /\ SlvInv <=> SlvControl /\ SlvReads /\ SlvReceived
  /\ (SlvInv <=> SlvControl /\ SlvReads /\ SlvReceived)'
BY DEF SlvInv, SlvControl, SlvReads

\* What the bus does leaves what the handler has seen as it was.
LEMMA BusKeepsControl ==
  ASSUME SlvControl, SlvPrompt, SlvBus
  PROVE  SlvControl'
<1> USE DEF SlvControl, SlvRaisedOK, SlvSnapOK, SlvMayServe, SlvServing,
            BeforeStart, Filling, slvCallee, slvFlags, slvIsr, slvFifos,
            Addressed, InTime
<1>1. CASE BusStart
  BY <1>1 DEF SlvBus, BusStart
<1>2. CASE BusWrite
  BY <1>2 DEF SlvBus, BusWrite
<1>3. CASE BusAsk
  BY <1>3 DEF SlvBus, BusAsk
<1>4. CASE BusTake
  BY <1>4 DEF SlvBus, BusTake
<1>5. CASE BusStop
  BY <1>5 DEF SlvBus, BusStop
<1> QED
  BY <1>1, <1>2, <1>3, <1>4, <1>5 DEF SlvBus

\* A step of the handler clears what it has seen, in an order that misses nothing.
LEMMA HandlerKeepsControl ==
  ASSUME SlvControl, SlvPrompt, SlvHandler
  PROVE  SlvControl'
<1> USE DEF SlvControl, SlvRaisedOK, SlvSnapOK, SlvMayServe, SlvServing,
            BeforeStart, Filling, slvLine, slvCallee, slvFlags, slvFifos
<1>1. CASE SlvEnter
  BY <1>1 DEF SlvEnter, IntrStat
<1>2. CASE SlvStopSeen
  BY <1>2 DEF SlvStopSeen, SlvGoto, AtStop
<1>3. CASE SlvStop
  BY <1>3 DEF SlvStop, IntrStat, SlvClose
<1>4. CASE SlvStartSeen
  BY <1>4 DEF SlvStartSeen, SlvGoto
<1>5. CASE SlvStart
  BY <1>5 DEF SlvStart, SlvClose
<1>6. CASE SlvStatus
  BY <1>6 DEF SlvStatus, DoneClears
<1>7. CASE SlvDrain
  BY <1>7 DEF SlvDrain, SlvAskClient, Draining
<1>8. CASE SlvFill
  BY <1>8 DEF SlvFill, SlvAskClient, MayFill
<1>9. CASE SlvLooped /\ UNCHANGED <<slvLine, slvOn, slvFifos, slvRaised, slvCallee,
                                    slvFirst, slvSnap, slvStale>>
  BY <1>9 DEF SlvLooped, Draining
<1> QED
  BY <1>1, <1>2, <1>3, <1>4, <1>5, <1>6, <1>7, <1>8, <1>9 DEF SlvHandler

\* A callee that starts anew starts with nothing raised by a transfer under way.
LEMMA AgainKeepsControl ==
  ASSUME SlvControl, SlvAgain
  PROVE  SlvControl'
BY DEF SlvAgain, SlvControl, SlvRaisedOK, SlvSnapOK, SlvMayServe, SlvServing,
       BeforeStart, Filling, slvLine, slvFifos, slvIsr

\* One more item at the end leaves the others where they were.
LEMMA AppendAt ==
  ASSUME NEW S, NEW s \in Seq(S), NEW t \in Seq(S), NEW e \in S
  PROVE  /\ s \o Append(t, e) \in Seq(S) /\ Append(t, e) \in Seq(S)
         /\ s \o t \in Seq(S)
         /\ Len(s \o Append(t, e)) = Len(s \o t) + 1
         /\ \A i \in 1 .. Len(s \o t) : (s \o Append(t, e))[i] = (s \o t)[i]
         /\ (s \o Append(t, e))[Len(s \o t) + 1] = e
OBVIOUS

\* To move the first item of one sequence to the end of the other moves nothing.
LEMMA TakenAt ==
  ASSUME NEW S, NEW s \in Seq(S), NEW t \in Seq(S), t # <<>>
  PROVE  /\ Append(s, Head(t)) \in Seq(S) /\ Tail(t) \in Seq(S) /\ Head(t) \in S
         /\ Len(s) \in Nat /\ Len(Append(s, Head(t))) = Len(s) + 1
         /\ Append(s, Head(t)) \o Tail(t) = s \o t
         /\ Len(s) + 1 <= Len(s \o t) /\ Len(s \o t) \in Nat
         /\ \A i \in 1 .. Len(s) + 1 : Append(s, Head(t))[i] = (s \o t)[i]
<1>1. /\ Append(s, Head(t)) \in Seq(S) /\ Tail(t) \in Seq(S) /\ Head(t) \in S
      /\ Len(s) \in Nat /\ Len(Append(s, Head(t))) = Len(s) + 1
      /\ Len(s) + 1 <= Len(s \o t) /\ Len(s \o t) \in Nat
      /\ Len(t) >= 1 /\ Len(t) \in Nat
  OBVIOUS
<1>2. ASSUME NEW i \in 1 .. Len(s) + 1
      PROVE  Append(s, Head(t))[i] = (s \o t)[i]
  BY <1>1
<1>3. Append(s, Head(t)) \o Tail(t) = s \o t
  <2>1. Len(Append(s, Head(t)) \o Tail(t)) = Len(s \o t)
    BY <1>1
  <2>2. ASSUME NEW i \in 1 .. Len(s \o t)
        PROVE  (Append(s, Head(t)) \o Tail(t))[i] = (s \o t)[i]
    BY <1>1
  <2>3. Append(s, Head(t)) \o Tail(t) \in Seq(S) /\ s \o t \in Seq(S)
    BY <1>1
  <2> QED
    BY <2>1, <2>2, <2>3, SeqEqual
<1> QED
  BY <1>1, <1>2, <1>3

\* Where the master reads, what it has read is a part of the answer.
LEMMA ReadOfAnswer ==
  ASSUME slvOut \in Seq(SlvItems), slvTxFifo \in Seq(SlvItems), slvGiven \in Nat,
         SlvAnswer,
         NEW s \in Seq(SlvItems), Len(s) <= Len(slvOut \o slvTxFifo),
         \A i \in 1 .. Len(s) : s[i] = (slvOut \o slvTxFifo)[i]
  PROVE  \E k \in 0 .. Len(s) :
           \A i \in DOMAIN s :
             s[i] \in (IF i <= k THEN {Data(i), Old} ELSE {Dummy})
<1>1. /\ Len(s) \in Nat /\ DOMAIN s = 1 .. Len(s)
      /\ Len(slvOut \o slvTxFifo) \in Nat
  OBVIOUS
<1>2. ASSUME NEW i \in 1 .. Len(s)
      PROVE  s[i] \in (IF i <= slvGiven THEN {Data(i), Old} ELSE {Dummy})
  <2>1. i \in 1 .. Len(slvOut \o slvTxFifo) /\ s[i] = (slvOut \o slvTxFifo)[i]
    BY <1>1
  <2> QED
    BY <2>1 DEF SlvAnswer
<1>3. CASE slvGiven <= Len(s)
  BY <1>1, <1>2, <1>3
<1>4. CASE slvGiven > Len(s)
  <2>1. ASSUME NEW i \in 1 .. Len(s)
        PROVE  s[i] \in (IF i <= Len(s) THEN {Data(i), Old} ELSE {Dummy})
    <3>1. i <= Len(s) /\ i <= slvGiven
      BY <1>1, <1>4
    <3> QED
      BY <1>2, <3>1
  <2> QED
    BY <1>1, <2>1
<1> QED
  BY <1>1, <1>3, <1>4

\* A step that touches neither FIFO nor answer, and begins no reading.
LEMMA ReadsFrame ==
  ASSUME SlvReads, SlvServing' => SlvServing,
         slvOut' = slvOut, slvTxFifo' = slvTxFifo, slvGiven' = slvGiven,
         slvOngoing' => slvOngoing
  PROVE  SlvReads'
BY DEF SlvReads, SlvAnswer, SlaveAnswers

\* Without an answer under way, what was read stays as it is.
LEMMA ReadsAtRest ==
  ASSUME SlvReads, ~SlvServing',
         slvOut' \in {slvOut, <<>>}, slvTxFifo' = <<>>, slvGiven' \in Nat
  PROVE  SlvReads'
<1>1. CASE slvOut' = slvOut
  BY <1>1 DEF SlvReads, SlaveAnswers
<1>2. CASE slvOut' = <<>>
  <2>1. SlaveAnswers'
    BY <1>2 DEF SlaveAnswers
  <2> QED
    BY <1>2, <2>1 DEF SlvReads
<1> QED
  BY <1>1, <1>2

\* The master takes the next byte, and the rest of the FIFO goes with the last.
LEMMA TakeKeepsReads ==
  ASSUME SlvControl, SlvReads, SlvPrompt, BusTake,
         slvOn' = slvOn, slvGiven' = slvGiven, slvOngoing' = slvOngoing
  PROVE  SlvReads'
<1>1. /\ SlvServing /\ slvTxFifo # <<>> /\ slvOut' = Append(slvOut, Head(slvTxFifo))
      /\ \/ slvBus' = "last" /\ slvTxFifo' = <<>>
         \/ slvTxFifo' = Tail(slvTxFifo)
  BY DEF BusTake, InTime, SlvServing
<1>2. /\ SlvAnswer /\ slvGiven \in Nat
      /\ slvOut \in Seq(SlvItems) /\ slvTxFifo \in Seq(SlvItems)
  BY <1>1 DEF SlvReads
<1>3. /\ slvOut' \in Seq(SlvItems) /\ Tail(slvTxFifo) \in Seq(SlvItems)
      /\ slvOut' \o Tail(slvTxFifo) = slvOut \o slvTxFifo
      /\ Len(slvOut') = Len(slvOut) + 1
      /\ Len(slvOut') <= Len(slvOut \o slvTxFifo)
      /\ \A i \in 1 .. Len(slvOut') : slvOut'[i] = (slvOut \o slvTxFifo)[i]
  BY <1>1, <1>2, TakenAt
<1>4. SlaveAnswers'
  BY <1>2, <1>3, ReadOfAnswer DEF SlaveAnswers
<1>5. CASE slvBus' = "last" /\ slvTxFifo' = <<>>
  BY <1>2, <1>3, <1>4, <1>5 DEF SlvReads, SlvServing
<1>6. CASE slvTxFifo' = Tail(slvTxFifo)
  BY <1>2, <1>3, <1>4, <1>6 DEF SlvReads, SlvAnswer
<1> QED
  BY <1>1, <1>5, <1>6

\* Of the bus, only a START and a byte taken have to do with the answer.
LEMMA BusKeepsReads ==
  ASSUME SlvControl, SlvReads, SlvPrompt, SlvBus
  PROVE  SlvReads'
<1>1. slvOn' = slvOn /\ slvGiven' = slvGiven /\ slvOngoing' = slvOngoing
  BY DEF SlvBus, slvCallee
<1>2. CASE BusStart
  <2>1. ~SlvServing /\ ~SlvServing' /\ slvOut' = <<>> /\ slvTxFifo' = slvTxFifo
    BY <1>2 DEF BusStart, SlvServing, slvFifos
  <2> QED
    BY <1>1, <2>1, ReadsAtRest DEF SlvControl, SlvReads
<1>3. CASE BusWrite \/ BusAsk \/ BusStop
  BY <1>1, <1>3, ReadsFrame
  DEF BusWrite, BusAsk, BusStop, SlvServing, slvFifos, InTime
<1>4. CASE BusTake
  BY <1>1, <1>4, TakeKeepsReads
<1> QED
  BY <1>2, <1>3, <1>4 DEF SlvBus

\* What the handler adds is the client's next byte, or a dummy after the last.
LEMMA FillKeepsReads ==
  ASSUME SlvControl, SlvReads, SlvFill
  PROVE  SlvReads'
<1>1. /\ SlvServing /\ SlvServing' /\ slvOut' = slvOut
  BY DEF SlvFill, SlvControl, MayFill, SlvMayServe, SlvServing, SlvRaisedOK, slvLine
<1>2. /\ SlvAnswer /\ SlaveAnswers /\ slvGiven \in Nat
      /\ slvOut \in Seq(SlvItems) /\ slvTxFifo \in Seq(SlvItems)
  BY <1>1 DEF SlvReads
<1>3. Len(slvOut \o slvTxFifo) \in Nat
  BY <1>2
<1>4. SlaveAnswers'
  BY <1>1, <1>2 DEF SlaveAnswers
<1>5. CASE slvOngoing
  <2> DEFINE item == IF slvStale THEN Old ELSE Data(slvGiven + 1)
  <2>1. slvTxFifo' = Append(slvTxFifo, item) /\ slvGiven' = slvGiven + 1
    BY <1>1, <1>5 DEF SlvFill
  <2>2. item \in SlvItems /\ item \in {Data(slvGiven + 1), Old}
    BY <1>2 DEF Data, Old, SlvItems
  <2> HIDE DEF item
  <2>3. slvGiven = Len(slvOut \o slvTxFifo)
    BY <1>2, <1>5 DEF SlvAnswer
  <2>4. /\ slvTxFifo' \in Seq(SlvItems)
        /\ Len(slvOut' \o slvTxFifo') = Len(slvOut \o slvTxFifo) + 1
        /\ \A i \in 1 .. Len(slvOut \o slvTxFifo) :
             (slvOut' \o slvTxFifo')[i] = (slvOut \o slvTxFifo)[i]
        /\ (slvOut' \o slvTxFifo')[slvGiven + 1] = item
    BY <1>1, <1>2, <2>1, <2>2, <2>3, AppendAt
  <2>5. ASSUME NEW i \in 1 .. Len(slvOut' \o slvTxFifo')
        PROVE  (slvOut' \o slvTxFifo')[i] \in {Data(i), Old} /\ i <= slvGiven'
    <3>1. CASE i \in 1 .. Len(slvOut \o slvTxFifo)
      <4>1. (slvOut \o slvTxFifo)[i] \in {Data(i), Old}
        BY <1>2, <2>3, <3>1 DEF SlvAnswer
      <4> QED
        BY <1>3, <2>1, <2>3, <2>4, <3>1, <4>1
    <3>2. CASE i = slvGiven + 1
      BY <2>1, <2>2, <2>4, <3>2
    <3> QED
      BY <1>3, <2>3, <2>4, <3>1, <3>2
  <2>6. slvGiven' = Len(slvOut' \o slvTxFifo')
    BY <2>1, <2>3, <2>4
  <2>7. SlvAnswer'
    BY <1>3, <2>1, <2>3, <2>5, <2>6 DEF SlvAnswer
  <2> QED
    BY <1>1, <1>2, <1>4, <2>1, <2>4, <2>7 DEF SlvReads
<1>6. CASE ~slvOngoing
  <2>1. /\ slvTxFifo' = Append(slvTxFifo, Dummy) /\ slvGiven' = slvGiven
        /\ ~slvOngoing'
    BY <1>6 DEF SlvFill, SlvControl
  <2>2. Dummy \in SlvItems
    BY DEF Dummy, SlvItems
  <2>3. /\ slvTxFifo' \in Seq(SlvItems)
        /\ Len(slvOut' \o slvTxFifo') = Len(slvOut \o slvTxFifo) + 1
        /\ \A i \in 1 .. Len(slvOut \o slvTxFifo) :
             (slvOut' \o slvTxFifo')[i] = (slvOut \o slvTxFifo)[i]
        /\ (slvOut' \o slvTxFifo')[Len(slvOut \o slvTxFifo) + 1] = Dummy
    BY <1>1, <1>2, <2>1, <2>2, AppendAt
  <2>4. slvGiven <= Len(slvOut \o slvTxFifo)
    BY <1>2 DEF SlvAnswer
  <2>5. ASSUME NEW i \in 1 .. Len(slvOut' \o slvTxFifo')
        PROVE  (slvOut' \o slvTxFifo')[i] \in
                 (IF i <= slvGiven THEN {Data(i), Old} ELSE {Dummy})
    <3>1. CASE i \in 1 .. Len(slvOut \o slvTxFifo)
      BY <1>2, <2>3, <3>1 DEF SlvAnswer
    <3>2. CASE i = Len(slvOut \o slvTxFifo) + 1
      <4>1. ~(i <= slvGiven)
        BY <1>2, <1>3, <2>4, <3>2
      <4> QED
        BY <2>3, <3>2, <4>1
    <3> QED
      BY <1>3, <2>3, <3>1, <3>2
  <2>6. slvGiven <= Len(slvOut' \o slvTxFifo')
    BY <1>2, <1>3, <2>3, <2>4
  <2>7. SlvAnswer'
    BY <2>1, <2>5, <2>6 DEF SlvAnswer
  <2> QED
    BY <1>1, <1>2, <1>4, <2>1, <2>3, <2>7 DEF SlvReads
<1> QED
  BY <1>5, <1>6

\* The handler forgets an answer only where the master reads no more.
LEMMA HandlerKeepsReads ==
  ASSUME SlvControl, SlvReads, SlvHandler
  PROVE  SlvReads'
<1> USE DEF slvLine, slvFifos, slvCallee, SlvServing
<1>1. CASE SlvEnter \/ SlvStopSeen \/ SlvStartSeen
  BY <1>1, ReadsFrame DEF SlvEnter, SlvStopSeen, SlvStartSeen, SlvGoto
<1>2. CASE SlvStop
  <2>1. ~SlvServing
    BY <1>2 DEF SlvStop, SlvControl, SlvRaisedOK, SlvSnapOK
  <2>2. slvTxFifo = <<>>
    BY <2>1 DEF SlvControl
  <2>3. /\ slvTxFifo' = <<>> /\ slvOut' = slvOut /\ slvGiven' = slvGiven
        /\ ~SlvServing'
    BY <1>2, <2>1, <2>2 DEF SlvStop, SlvClose
  <2> QED
    BY <2>3, ReadsAtRest DEF SlvReads
<1>3. CASE SlvStart
  <2>1. /\ slvOut = <<>> /\ slvTxFifo = <<>>
        /\ slvOut' = <<>> /\ slvTxFifo' = <<>> /\ slvGiven' = 0
    BY <1>3 DEF SlvStart, SlvControl, SlvRaisedOK, SlvSnapOK, BeforeStart
  <2>2. SlaveAnswers' /\ SlvAnswer'
    BY <2>1 DEF SlaveAnswers, SlvAnswer
  <2> QED
    BY <2>1, <2>2 DEF SlvReads
<1>4. CASE SlvStatus
  BY <1>4, ReadsFrame DEF SlvStatus, DoneClears
<1>5. CASE SlvDrain
  BY <1>5, ReadsFrame DEF SlvDrain, SlvAskClient
<1>6. CASE SlvFill
  BY <1>6, FillKeepsReads
<1>7. CASE SlvLooped /\ UNCHANGED <<slvLine, slvOn, slvFifos, slvRaised, slvCallee,
                                    slvFirst, slvSnap, slvStale>>
  BY <1>7, ReadsFrame
<1> QED
  BY <1>1, <1>2, <1>3, <1>4, <1>5, <1>6, <1>7 DEF SlvHandler

\* One more byte, the next, and the bytes of one sequence after another.
LEMMA CountsAppend ==
  ASSUME NEW s \in Seq(Nat), NEW k \in Nat, CountsFrom(k, s),
         NEW r, r = Append(s, k + Len(s) + 1)
  PROVE  CountsFrom(k, r)
<1>1. /\ Len(s) \in Nat /\ Len(r) = Len(s) + 1
      /\ \A i \in 1 .. Len(s) : r[i] = s[i]
      /\ r[Len(s) + 1] = k + Len(s) + 1
  OBVIOUS
<1>2. \A i \in 1 .. Len(s) : s[i] = k + i
  BY DEF CountsFrom
<1>3. ASSUME NEW i \in 1 .. Len(r)
      PROVE  r[i] = k + i
  <2>1. CASE i \in 1 .. Len(s)
    BY <1>1, <1>2, <2>1
  <2>2. CASE i = Len(s) + 1
    BY <1>1, <2>2
  <2> QED
    BY <1>1, <2>1, <2>2
<1> QED
  BY <1>3 DEF CountsFrom

LEMMA HoldsAppend ==
  ASSUME NEW s \in Seq(Nat), NEW k \in Nat, HoldsFrom(k, s),
         NEW e \in {k + Len(s) + 1, Astray}, NEW r, r = Append(s, e)
  PROVE  HoldsFrom(k, r)
<1>1. /\ Len(s) \in Nat /\ Len(r) = Len(s) + 1
      /\ \A i \in 1 .. Len(s) : r[i] = s[i]
      /\ r[Len(s) + 1] = e
  BY DEF Astray
<1>2. \A i \in 1 .. Len(s) : s[i] \in {k + i, Astray}
  BY DEF HoldsFrom
<1>3. ASSUME NEW i \in 1 .. Len(r)
      PROVE  r[i] \in {k + i, Astray}
  <2>1. CASE i \in 1 .. Len(s)
    BY <1>1, <1>2, <2>1
  <2>2. CASE i = Len(s) + 1
    BY <1>1, <2>2
  <2> QED
    BY <1>1, <2>1, <2>2
<1> QED
  BY <1>3 DEF HoldsFrom

LEMMA HoldsConcat ==
  ASSUME NEW s \in Seq(Nat), NEW t \in Seq(Nat), NEW k \in Nat,
         HoldsFrom(k, s), HoldsFrom(k + Len(s), t), NEW r, r = s \o t
  PROVE  HoldsFrom(k, r)
<1>1. /\ Len(s) \in Nat /\ Len(t) \in Nat /\ Len(r) = Len(s) + Len(t)
      /\ \A i \in 1 .. Len(s) : r[i] = s[i]
      /\ \A i \in 1 .. Len(r) : i > Len(s) => r[i] = t[i - Len(s)]
  OBVIOUS
<1>2. \A i \in 1 .. Len(s) : s[i] \in {k + i, Astray}
  BY DEF HoldsFrom
<1>3. \A i \in 1 .. Len(t) : t[i] \in {k + Len(s) + i, Astray}
  BY DEF HoldsFrom
<1>4. ASSUME NEW i \in 1 .. Len(r)
      PROVE  r[i] \in {k + i, Astray}
  <2>1. CASE i \in 1 .. Len(s)
    BY <1>1, <1>2, <2>1
  <2>2. CASE i > Len(s)
    <3>1. i - Len(s) \in 1 .. Len(t) /\ r[i] = t[i - Len(s)]
      BY <1>1, <2>2
    <3>2. t[i - Len(s)] \in {k + Len(s) + (i - Len(s)), Astray}
      BY <1>3, <3>1
    <3>3. k + Len(s) + (i - Len(s)) = k + i
      BY <1>1, <3>1
    <3> QED
      BY <3>1, <3>2, <3>3
  <2> QED
    BY <1>1, <2>1, <2>2
<1> QED
  BY <1>4 DEF HoldsFrom

\* A step that moves no received byte, and begins no writing.
LEMMA ReceivedFrame ==
  ASSUME SlvReceived,
         slvFirst' \/ ~slvOn' \/ slvPc' \in {"stopped", "started"} =>
           slvFirst \/ ~slvOn \/ slvPc \in {"stopped", "started"} \/ slvRxFifo = <<>>,
         slvFirst' => slvFirst, SlvTaking' => SlvTaking, SlvServing' => SlvServing,
         slvSeg' = slvSeg, slvOver' = slvOver, slvRxFifo' = slvRxFifo,
         slvRx' = slvRx, slvMsg' = slvMsg, slvOngoing' = slvOngoing
  PROVE  SlvReceived'
BY DEF SlvReceived, SlvFollow, CountsFrom, HoldsFrom

\* Everything was told: a new transfer begins with nothing received.
LEMMA ReceivedNothing ==
  ASSUME slvSeg' = 0, ~slvOver', slvRxFifo' = <<>>, slvRx' = <<>>,
         slvMsg' = <<>>, slvFirst' => ~SlvTaking'
  PROVE  SlvReceived'
BY DEF SlvReceived, SlvFollow, CountsFrom, HoldsFrom

\* A byte the master writes is the next one, or lost to a full FIFO.
LEMMA BusKeepsReceived ==
  ASSUME SlvControl, SlvReceived, SlvPrompt, SlvBus
  PROVE  SlvReceived'
<1>1. /\ slvOn' = slvOn /\ slvRx' = slvRx /\ slvMsg' = slvMsg
      /\ slvOngoing' = slvOngoing /\ slvFirst' = slvFirst /\ slvPc' = slvPc
  BY DEF SlvBus, slvCallee, slvFlags, slvIsr
<1>2. CASE BusStart \/ BusAsk \/ BusTake \/ BusStop
  <2>1. /\ SlvTaking' => SlvTaking
        /\ SlvServing' => SlvServing
        /\ slvSeg' = slvSeg /\ slvOver' = slvOver /\ slvRxFifo' = slvRxFifo
    BY <1>1, <1>2
    DEF BusStart, BusAsk, BusTake, BusStop, SlvTaking, SlvServing, slvFifos, InTime
  <2> QED
    BY <1>1, <2>1, ReceivedFrame
<1>3. CASE BusWrite
  <2>1. /\ SlvTaking /\ ~SlvServing' /\ slvSeg' = slvSeg + 1
        /\ SlvTaking' => SlvTaking
        /\ slvPc \notin {"stopped", "started"} /\ slvOn
        /\ \/ slvRxFifo' = Append(slvRxFifo, slvSeg + 1) /\ slvOver' = slvOver
           \/ slvRxFifo' = slvRxFifo /\ slvOver'
    BY <1>1, <1>3
    DEF BusWrite, SlvTaking, SlvServing, InTime, SlvControl, SlvSnapOK, BeforeStart
  <2>2. /\ slvSeg' \in Nat /\ slvRx \in Seq(Nat) /\ slvMsg \in Seq(Nat)
        /\ slvRxFifo \in Seq(Nat) /\ slvSeg \in Nat /\ ~slvFirst
        /\ Append(slvRxFifo, slvSeg + 1) \in Seq(Nat)
    BY <2>1 DEF SlvReceived
  <2>3. CASE slvRxFifo' = slvRxFifo /\ slvOver'
    BY <1>1, <2>1, <2>2, <2>3 DEF SlvReceived
  <2>4. CASE slvRxFifo' = Append(slvRxFifo, slvSeg + 1) /\ slvOver' = slvOver
    <3>1. slvOver \/ SlvFollow
      BY DEF SlvReceived
    <3>2. ASSUME SlvFollow, slvOngoing
          PROVE  /\ CountsFrom(Len(slvMsg') + Len(slvRx'), slvRxFifo')
                 /\ slvSeg' = Len(slvMsg') + Len(slvRx') + Len(slvRxFifo')
      <4> DEFINE told == Len(slvMsg) + Len(slvRx)
      <4>1. /\ CountsFrom(told, slvRxFifo) /\ told \in Nat
            /\ slvSeg = told + Len(slvRxFifo)
        BY <2>2, <3>2 DEF SlvFollow
      <4>2. told' = told
        BY <1>1
      <4>3. Len(slvRxFifo') = Len(slvRxFifo) + 1
        BY <2>2, <2>4
      <4>4. slvRxFifo' = Append(slvRxFifo, told + Len(slvRxFifo) + 1)
        BY <2>4, <4>1
      <4> HIDE DEF told
      <4>5. CountsFrom(told, slvRxFifo')
        BY <2>2, <4>1, <4>4, CountsAppend
      <4>6. slvSeg' = told + Len(slvRxFifo')
        <5>1. Len(slvRxFifo) \in Nat
          BY <2>2
        <5> QED
          BY <2>1, <4>1, <4>3, <5>1
      <4> QED
        BY <4>2, <4>5, <4>6 DEF told
    <3>3. SlvFollow => SlvFollow'
      BY <1>1, <3>2 DEF SlvFollow
    <3> QED
      BY <1>1, <2>1, <2>2, <2>4, <3>1, <3>3 DEF SlvReceived
  <2> QED
    BY <2>1, <2>3, <2>4
<1> QED
  BY <1>2, <1>3 DEF SlvBus

\* From the FIFO into the buffer, and with a full buffer on to the client.
LEMMA DrainKeepsReceived ==
  ASSUME SlvControl, SlvReceived, SlvDrain
  PROVE  SlvReceived'
<1>1. /\ slvRxFifo # <<>> /\ slvRxFifo' = Tail(slvRxFifo)
      /\ slvSeg' = slvSeg /\ slvOver' = slvOver /\ slvOn' = slvOn
      /\ slvFirst' = slvFirst /\ slvPc' = slvPc
      /\ slvPc \notin {"stopped", "started"}
      /\ SlvTaking' = SlvTaking /\ SlvServing' = SlvServing
  BY DEF SlvDrain, SlvControl, Draining, slvLine, slvFlags, SlvTaking, SlvServing
<1>2. /\ slvSeg \in Nat /\ slvRxFifo \in Seq(Nat)
      /\ slvRx \in Seq(Nat) /\ slvMsg \in Seq(Nat) /\ ~slvFirst /\ slvOn
      /\ Tail(slvRxFifo) \in Seq(Nat)
  BY <1>1 DEF SlvReceived
<1> DEFINE byte == IF slvStale THEN Astray ELSE Head(slvRxFifo)
<1> DEFINE rx == Append(slvRx, byte)
<1>7. byte \in Nat
  BY <1>1, <1>2 DEF Astray
<1>3. /\ rx \in Seq(Nat) /\ slvMsg \o rx \in Seq(Nat)
      /\ Len(rx) = Len(slvRx) + 1 /\ Len(slvMsg \o rx) = Len(slvMsg) + Len(slvRx) + 1
      /\ Len(slvRxFifo') = Len(slvRxFifo) - 1
      /\ Len(slvMsg) \in Nat /\ Len(slvRx) \in Nat /\ Len(slvRxFifo) \in Nat
  <2> HIDE DEF byte
  <2> QED
    BY <1>1, <1>2, <1>7
<1>4. slvOver \/ SlvFollow
  BY DEF SlvReceived
<1>5. CASE ~slvOngoing
  <2>1. ~slvOngoing' /\ slvRx' = slvRx /\ slvMsg' = slvMsg
    BY <1>5 DEF SlvDrain
  <2>2. SlvFollow => SlvFollow'
    BY <2>1 DEF SlvFollow
  <2> QED
    BY <1>1, <1>2, <1>4, <2>1, <2>2 DEF SlvReceived
<1>6. CASE slvOngoing
  <2>1. \/ slvOngoing' = slvOngoing /\ slvRx' = rx /\ slvMsg' = slvMsg
        \/ slvOngoing' = TRUE /\ slvRx' = <<>> /\ slvMsg' = slvMsg \o rx
        \/ slvOngoing' = FALSE /\ slvRx' = rx /\ slvMsg' = slvMsg \o rx
    BY <1>1, <1>6 DEF SlvDrain, SlvAskClient
  <2>2. ASSUME SlvFollow
        PROVE  /\ HoldsFrom(0, slvMsg) /\ HoldsFrom(Len(slvMsg), rx)
               /\ CountsFrom(Len(slvMsg) + Len(rx), slvRxFifo')
               /\ slvSeg = Len(slvMsg) + Len(rx) + Len(slvRxFifo')
               /\ HoldsFrom(0, slvMsg \o rx)
    <3>1. HoldsFrom(0, slvMsg) /\ HoldsFrom(Len(slvMsg), slvRx)
      BY <1>6, <2>2 DEF SlvFollow
    <3>2. CountsFrom(Len(slvMsg) + Len(slvRx), slvRxFifo)
      BY <1>6, <2>2 DEF SlvFollow
    <3>3. byte \in {Len(slvMsg) + Len(slvRx) + 1, Astray}
      BY <1>1, <1>2, <1>3, <3>2 DEF CountsFrom
    <3>4. HoldsFrom(Len(slvMsg), rx)
      <4>1. rx = Append(slvRx, byte)
        OBVIOUS
      <4> HIDE DEF byte, rx
      <4> QED
        BY <1>2, <1>3, <3>1, <3>3, <4>1, HoldsAppend
    <3>5. CountsFrom(Len(slvMsg) + Len(rx), slvRxFifo')
      <4> HIDE DEF byte, rx
      <4> QED
        BY <1>1, <1>2, <1>3, <3>2 DEF CountsFrom
    <3>6. slvSeg = Len(slvMsg) + Len(rx) + Len(slvRxFifo')
      <4> HIDE DEF byte, rx
      <4> QED
        BY <1>3, <1>6, <2>2 DEF SlvFollow
    <3>7. HoldsFrom(0, slvMsg \o rx)
      <4>1. 0 + Len(slvMsg) = Len(slvMsg)
        BY <1>3
      <4> HIDE DEF rx
      <4> QED
        BY <1>2, <1>3, <3>1, <3>4, <4>1, HoldsConcat
    <3> QED
      BY <3>1, <3>4, <3>5, <3>6, <3>7
  <2> HIDE DEF rx
  <2>3. slvRx' \in Seq(Nat) /\ slvMsg' \in Seq(Nat)
    <3>1. <<>> \in Seq(Nat)
      OBVIOUS
    <3> QED
      BY <1>2, <1>3, <2>1, <3>1
  <2>4. SlvFollow => SlvFollow'
    <3>1. CASE slvOngoing' = slvOngoing /\ slvRx' = rx /\ slvMsg' = slvMsg
      BY <1>1, <2>2, <3>1 DEF SlvFollow
    <3>2. CASE slvOngoing' = TRUE /\ slvRx' = <<>> /\ slvMsg' = slvMsg \o rx
      <4>1. /\ Len(slvRx') = 0 /\ HoldsFrom(Len(slvMsg'), slvRx')
            /\ Len(slvMsg') + Len(slvRx') = Len(slvMsg) + Len(rx)
        BY <1>3, <3>2 DEF HoldsFrom
      <4> QED
        BY <1>1, <2>2, <3>2, <4>1 DEF SlvFollow
    <3>3. CASE slvOngoing' = FALSE /\ slvRx' = rx /\ slvMsg' = slvMsg \o rx
      BY <2>2, <3>3 DEF SlvFollow
    <3> QED
      BY <2>1, <3>1, <3>2, <3>3
  <2>5. SlvServing => slvSeg = 0 /\ ~slvOver
    BY DEF SlvReceived
  <2> QED
    BY <1>1, <1>2, <1>4, <2>3, <2>4, <2>5 DEF SlvReceived
<1> QED
  BY <1>5, <1>6

\* Where the master reads there is nothing received.
LEMMA FillKeepsReceived ==
  ASSUME SlvControl, SlvReceived, SlvFill
  PROVE  SlvReceived'
<1>1. /\ SlvServing /\ slvSeg' = slvSeg /\ slvOver' = slvOver /\ slvOn' = slvOn
      /\ slvFirst' = slvFirst /\ slvPc' = slvPc /\ slvMsg' = slvMsg
      /\ slvRxFifo' = slvRxFifo
      /\ SlvTaking' = SlvTaking /\ SlvServing' = SlvServing
  BY DEF SlvFill, SlvControl, MayFill, SlvMayServe, SlvServing, SlvTaking,
     SlvRaisedOK, slvLine, slvFlags
<1>2. /\ slvSeg = 0 /\ ~slvOver
      /\ slvRxFifo \in Seq(Nat) /\ slvRx \in Seq(Nat) /\ slvMsg \in Seq(Nat)
  BY <1>1 DEF SlvReceived
<1>3. CASE ~slvOngoing
  <2>1. slvOngoing' = slvOngoing /\ slvRx' = slvRx
    BY <1>3 DEF SlvFill
  <2> QED
    BY <1>1, <2>1, ReceivedFrame
<1>4. CASE slvOngoing
  <2>1. slvSeg = Len(slvMsg) + Len(slvRx) + Len(slvRxFifo)
    BY <1>2, <1>4 DEF SlvReceived, SlvFollow
  <2>2. Len(slvMsg) = 0 /\ Len(slvRx) = 0 /\ Len(slvRxFifo) = 0
    <3>1. Len(slvMsg) \in Nat /\ Len(slvRx) \in Nat /\ Len(slvRxFifo) \in Nat
      BY <1>2
    <3> QED
      BY <1>2, <2>1, <3>1
  <2>3. slvRxFifo = <<>>
    BY <1>2, <2>2, EmptySeq
  <2>4. slvMsg = <<>> /\ slvRx = <<>>
    BY <1>2, <2>2, EmptySeq
  <2>5. slvRx' = <<>>
    BY <1>4, <2>4 DEF SlvFill, SlvAskClient
  <2>6. slvFirst' => ~SlvTaking'
    BY <1>1 DEF SlvReceived
  <2> QED
    BY <1>1, <1>2, <2>3, <2>4, <2>5, <2>6, ReceivedNothing
<1> QED
  BY <1>3, <1>4

\* The handler drains the FIFO before it tells the client of a START or STOP.
LEMMA HandlerKeepsReceived ==
  ASSUME SlvControl, SlvReceived, SlvHandler
  PROVE  SlvReceived'
<1> USE DEF slvLine, slvFifos, slvCallee, slvFlags, SlvServing, SlvTaking
<1>1. CASE SlvEnter \/ SlvStopSeen \/ SlvStartSeen
  BY <1>1, ReceivedFrame DEF SlvEnter, SlvStopSeen, SlvStartSeen, SlvGoto, AtStop
<1>2. CASE SlvStop
  <2>1. /\ slvRxFifo = <<>>
        /\ slvBus = "free" \/ "START" \in slvRaised \/ ~slvOn
    BY <1>2 DEF SlvStop, SlvReceived, SlvControl, SlvRaisedOK, SlvSnapOK
  <2>2. /\ slvSeg' = 0 /\ slvOver' = FALSE /\ slvRxFifo' = <<>> /\ slvRx' = <<>>
        /\ slvMsg' = <<>> /\ ~SlvTaking'
    BY <1>2, <2>1 DEF SlvStop, SlvClose
  <2> QED
    BY <2>2, ReceivedNothing
<1>3. CASE SlvStart
  <2>1. /\ slvSeg' = 0 /\ slvOver' = FALSE /\ slvRxFifo' = <<>> /\ slvRx' = <<>>
        /\ slvMsg' = <<>> /\ ~slvFirst'
    BY <1>3 DEF SlvStart, SlvClose, SlvReceived
  <2> QED
    BY <2>1, ReceivedNothing
<1>4. CASE SlvStatus
  BY <1>4, ReceivedFrame DEF SlvStatus, DoneClears
<1>5. CASE SlvDrain
  BY <1>5, DrainKeepsReceived
<1>6. CASE SlvFill
  BY <1>6, FillKeepsReceived
<1>7. CASE SlvLooped /\ UNCHANGED <<slvLine, slvOn, slvFifos, slvRaised, slvCallee,
                                    slvFirst, slvSnap, slvStale>>
  BY <1>7, ReceivedFrame DEF SlvLooped, Draining
<1> QED
  BY <1>1, <1>2, <1>3, <1>4, <1>5, <1>6, <1>7 DEF SlvHandler

\* The inductive step.
LEMMA SlvStepInv ==
  ASSUME SlvInv, [SlvNext]_slvVars, SlvPrompt
  PROVE  SlvInv'
<1>1. SlvControl /\ SlvReads /\ SlvReceived
  BY SlvParts
<1>2. CASE SlvBus
  BY <1>1, <1>2, BusKeepsControl, BusKeepsReads, BusKeepsReceived, SlvParts
<1>3. CASE SlvHandler
  BY <1>1, <1>3, HandlerKeepsControl, HandlerKeepsReads, HandlerKeepsReceived,
     SlvParts
<1>4. CASE SlvAgain
  <2>1. SlvReads'
    BY <1>1, <1>4, ReadsAtRest DEF SlvAgain, SlvServing, SlvControl, slvLine, slvFifos
  <2>2. SlvReceived'
    <3>1. /\ slvSeg \in Nat /\ slvRxFifo = <<>> /\ slvMsg' = <<>> /\ slvRx' = <<>>
          /\ slvRxFifo' = <<>> /\ slvSeg' = slvSeg /\ ~slvOngoing'
          /\ ~SlvTaking' /\ ~SlvServing'
      BY <1>1, <1>4 DEF SlvAgain, SlvReceived, SlvTaking, SlvServing, slvLine, slvFifos
    <3> QED
      BY <3>1 DEF SlvReceived, SlvFollow, CountsFrom, HoldsFrom
  <2> QED
    BY <1>1, <1>4, <2>1, <2>2, AgainKeepsControl, SlvParts
<1>5. CASE UNCHANGED slvVars
  <2> USE DEF slvVars, slvLine, slvFifos, slvCallee, slvFlags, slvIsr
  <2>1. SlvControl'
    BY <1>1, <1>5 DEF SlvControl, SlvRaisedOK, SlvSnapOK, SlvMayServe, SlvServing
  <2>2. SlvReads'
    BY <1>1, <1>5, ReadsFrame DEF SlvServing
  <2>3. SlvReceived'
    BY <1>1, <1>5, ReceivedFrame DEF SlvServing, SlvTaking
  <2> QED
    BY <2>1, <2>2, <2>3, SlvParts
<1> QED
  BY <1>2, <1>3, <1>4, <1>5 DEF SlvNext

\* The driver starts with empty FIFOs.
LEMMA SlvInitInv == SlvInit => SlvInv
<1> SUFFICES ASSUME SlvInit
             PROVE  SlvInv
  OBVIOUS
<1>1. SlvReads
  BY DEF SlvInit, SlvReads, SlvServing, SlaveAnswers
<1>2. SlvControl
  BY DEF SlvInit, SlvControl, SlvRaisedOK, SlvSnapOK, SlvMayServe, SlvServing,
     BeforeStart, Filling
<1>3. SlvReceived
  BY DEF SlvInit, SlvReceived, SlvServing, SlvTaking, SlvFollow, CountsFrom,
     HoldsFrom
<1> QED
  BY <1>1, <1>2, <1>3, SlvParts

\* The slave answers each read with the client's bytes from the first on and then
\* dummies: what a read leaves in the FIFO is gone before the next, because the
\* handler sees RX_DONE no later than its RD_REQ and STOP before START.  For a
\* handler that is in time for the bus.
THEOREM ReadsAnswered ==
  ASSUME SlvPrompt
  PROVE  SlvSpec => []SlaveAnswers
<1>1. SlvInv /\ [SlvNext]_slvVars => SlvInv'
  BY SlvStepInv
<1>2. SlvInv => SlaveAnswers
  BY DEF SlvInv
<1> QED
  BY <1>1, <1>2, SlvInitInv, PTL DEF SlvSpec

\* What the client is told of at a START or STOP is one transfer of the master
\* from its first byte on, because the FIFO is drained before either is handled;
\* for a handler that is in time for the bus.
THEOREM WritesReported ==
  ASSUME SlvPrompt
  PROVE  SlvSpec => SlaveReceives
<1>1. SlvInv /\ [SlvNext]_slvVars => SlvInv'
  BY SlvStepInv
<1>2. ASSUME SlvInv, SlvStop \/ SlvStart, ~slvOver
      PROVE  LET told == slvMsg \o (IF slvOngoing THEN slvRx ELSE <<>>)
             IN  HoldsFrom(0, told) /\ (slvOngoing => Len(told) = slvSeg)
  <2>1. /\ SlvFollow /\ slvRxFifo = <<>> /\ slvSeg \in Nat
        /\ slvRx \in Seq(Nat) /\ slvMsg \in Seq(Nat)
    BY <1>2 DEF SlvInv, SlvReceived, SlvStop, SlvStart
  <2>2. CASE slvOngoing
    <3> DEFINE told == slvMsg \o slvRx
    <3>1. /\ HoldsFrom(0, slvMsg) /\ HoldsFrom(Len(slvMsg), slvRx)
          /\ slvSeg = Len(slvMsg) + Len(slvRx) + 0
      BY <2>1, <2>2 DEF SlvFollow
    <3>2. told \in Seq(Nat) /\ Len(told) = slvSeg
      BY <2>1, <3>1
    <3>3. HoldsFrom(0, told)
      <4>1. 0 + Len(slvMsg) = Len(slvMsg)
        BY <2>1
      <4>2. told = slvMsg \o slvRx
        OBVIOUS
      <4> HIDE DEF told
      <4> QED
        BY <2>1, <3>1, <4>1, <4>2, HoldsConcat
    <3> QED
      BY <2>2, <3>2, <3>3
  <2>3. CASE ~slvOngoing
    <3>1. HoldsFrom(0, slvMsg) /\ slvMsg \o <<>> = slvMsg
      BY <2>1 DEF SlvFollow
    <3> QED
      BY <2>3, <3>1
  <2> QED
    BY <2>2, <2>3
<1>3. SlvInv /\ [SlvNext]_slvVars =>
        [SlvStop \/ SlvStart =>
           LET told == slvMsg \o (IF slvOngoing THEN slvRx ELSE <<>>)
           IN \/ slvOver
              \/ HoldsFrom(0, told) /\ (slvOngoing => Len(told) = slvSeg)]_slvVars
  BY <1>2
<1> QED
  BY <1>1, <1>3, SlvInitInv, PTL DEF SlvSpec, SlaveReceives

-----------------------------------------------------------------------------
(* The clock, the power states and the flash's wait states.                *)

\* No write leads nowhere else.
LEMMA LeadNone ==
  ASSUME NEW A, NEW B, A \subseteq B, B \subseteq Registers
  PROVE  Lead(A, <<>>, B)
<1>1. <<>> \in Seq({}) /\ Len(<<>>) = 0
  OBVIOUS
<1>2. ASSUME NEW r \in A
      PROVE  \E run : Run(run, r, <<>>) /\ run[Len(<<>>)] \in B
  <2> DEFINE f == [k \in 0..0 |-> r]
  <2>1. r \in Registers
    OBVIOUS
  <2>2. f \in [0..0 -> Registers] /\ f[0] = r
    BY <2>1
  <2> HIDE DEF f
  <2>3. Run(f, r, <<>>) /\ f[Len(<<>>)] \in B
    BY <1>1, <2>2 DEF Run
  <2> QED
    BY <2>3
<1> QED
  BY <1>1, <1>2 DEF Lead

\* One write leads to what is after it.
LEMMA LeadOne ==
  ASSUME NEW A, NEW B, NEW w, A \subseteq Registers, B \subseteq Registers,
         \A r \in A : ~r.halted /\ Suits(r) /\ After(r, w) \in B
  PROVE  Lead(A, <<w>>, B)
<1>1. <<w>> \in Seq({w}) /\ Len(<<w>>) = 1 /\ <<w>>[1] = w
  OBVIOUS
<1>2. ASSUME NEW r \in A
      PROVE  \E run : Run(run, r, <<w>>) /\ run[Len(<<w>>)] \in B
  <2> DEFINE f == [k \in 0..1 |-> IF k = 0 THEN r ELSE After(r, w)]
  <2>1. r \in Registers /\ After(r, w) \in Registers /\ After(r, w) \in B
        /\ ~r.halted /\ Suits(r)
    OBVIOUS
  <2>2. f \in [0..1 -> Registers] /\ f[0] = r /\ f[1] = After(r, w)
    BY <2>1
  <2> HIDE DEF f
  <2>3. \A k \in 1..1 : k = 1 /\ k - 1 = 0
    OBVIOUS
  <2>4. Run(f, r, <<w>>) /\ f[Len(<<w>>)] \in B
    BY <1>1, <2>1, <2>2, <2>3 DEF Run
  <2> QED
    BY <2>4
<1> QED
  BY <1>1, <1>2 DEF Lead

\* A run goes on from where another ends.
LEMMA RunOn ==
  ASSUME NEW S, NEW p \in Seq(S), NEW q \in Seq(S), NEW r, NEW f, NEW g,
         Run(f, r, p), Run(g, f[Len(p)], q)
  PROVE  \E h : Run(h, r, p \o q) /\ h[Len(p \o q)] = g[Len(q)]
<1>1. /\ Len(p) \in Nat /\ Len(q) \in Nat /\ Len(p \o q) = Len(p) + Len(q)
      /\ \A k \in 1..Len(p) : (p \o q)[k] = p[k]
      /\ \A k \in 1..Len(q) : (p \o q)[Len(p) + k] = q[k]
  OBVIOUS
<1> DEFINE m == Len(p)
           n == Len(q)
           h == [k \in 0..(m + n) |-> IF k <= m THEN f[k] ELSE g[k - m]]
<1>2. /\ f \in [0..m -> Registers] /\ f[0] = r
      /\ g \in [0..n -> Registers] /\ g[0] = f[m]
      /\ \A k \in 1..m : /\ ~f[k - 1].halted /\ Suits(f[k - 1])
                         /\ f[k] = After(f[k - 1], p[k])
      /\ \A k \in 1..n : /\ ~g[k - 1].halted /\ Suits(g[k - 1])
                         /\ g[k] = After(g[k - 1], q[k])
  BY DEF Run
<1>3. m \in Nat /\ n \in Nat
  BY <1>1
<1> HIDE DEF m, n
<1>4. \A k \in 0..m : h[k] = f[k]
  BY <1>3
<1>5. ASSUME NEW k \in 0..n
      PROVE  h[m + k] = g[k]
  <2>1. CASE k = 0
    BY <1>2, <1>3, <2>1
  <2>2. CASE k > 0
    BY <1>3, <2>2
  <2> QED
    BY <2>1, <2>2
<1>6. h \in [0..(m + n) -> Registers]
  <2>1. ASSUME NEW k \in 0..(m + n)
        PROVE  (IF k <= m THEN f[k] ELSE g[k - m]) \in Registers
    <3>1. CASE k <= m
      BY <1>2, <1>3, <3>1
    <3>2. CASE ~(k <= m)
      <4>1. k - m \in 0..n
        BY <1>3, <3>2
      <4> QED
        BY <1>2, <3>2, <4>1
    <3> QED
      BY <3>1, <3>2
  <2> QED
    BY <2>1
<1> HIDE DEF h
<1>7. ASSUME NEW k \in 1..(m + n)
      PROVE  /\ ~h[k - 1].halted /\ Suits(h[k - 1])
             /\ h[k] = After(h[k - 1], (p \o q)[k])
  <2>1. CASE k <= m
    <3>1. k \in 1..m /\ k \in 0..m /\ k - 1 \in 0..m
      BY <1>3, <2>1
    <3> QED
      BY <1>1, <1>2, <1>4, <3>1 DEF m
  <2>2. CASE k > m
    <3> DEFINE i == k - m
    <3>1. /\ i \in 1..n /\ i \in 0..n /\ i - 1 \in 0..n
          /\ k = m + i /\ k - 1 = m + (i - 1)
      BY <1>3, <2>2
    <3> HIDE DEF i
    <3>2. h[k] = g[i] /\ h[k - 1] = g[i - 1] /\ (p \o q)[k] = q[i]
      BY <1>1, <1>5, <3>1 DEF m, n
    <3> QED
      BY <1>2, <3>1, <3>2
  <2>3. k <= m \/ k > m
    BY <1>3
  <2> QED
    BY <2>1, <2>2, <2>3
<1>8. h[0] = r /\ h[m + n] = g[n]
  BY <1>2, <1>3, <1>4, <1>5
<1>9. Run(h, r, p \o q) /\ h[Len(p \o q)] = g[Len(q)]
  BY <1>1, <1>6, <1>7, <1>8 DEF Run, m, n
<1> QED
  BY <1>9

\* Writes lead on from where others lead.
LEMMA LeadOn ==
  ASSUME NEW A, NEW p, NEW B, NEW q, NEW C, Lead(A, p, B), Lead(B, q, C)
  PROVE  Lead(A, p \o q, C)
<1>1. PICK S : p \in Seq(S)
  BY DEF Lead
<1>2. PICK T : q \in Seq(T)
  BY DEF Lead
<1>3. p \in Seq(S \cup T) /\ q \in Seq(S \cup T)
  BY <1>1, <1>2
<1>4. p \o q \in Seq(S \cup T)
  BY <1>3
<1>5. ASSUME NEW r \in A
      PROVE  \E h : Run(h, r, p \o q) /\ h[Len(p \o q)] \in C
  <2>1. PICK f : Run(f, r, p) /\ f[Len(p)] \in B
    BY DEF Lead
  <2>2. PICK g : Run(g, f[Len(p)], q) /\ g[Len(q)] \in C
    BY <2>1 DEF Lead
  <2> QED
    BY <1>3, <2>1, <2>2, RunOn
<1> QED
  BY <1>4, <1>5 DEF Lead

\* After its first write, the rest still leads where it led.
LEMMA LeadStep ==
  ASSUME NEW r, NEW ws, NEW B, ws # <<>>, Lead({r}, ws, B)
  PROVE  /\ ~r.halted /\ Suits(r) /\ After(r, Head(ws)) \in Registers
         /\ Lead({After(r, Head(ws))}, Tail(ws), B)
<1>1. PICK S : ws \in Seq(S)
  BY DEF Lead
<1>2. /\ Len(ws) \in Nat /\ Len(ws) >= 1 /\ Tail(ws) \in Seq(S)
      /\ Len(Tail(ws)) = Len(ws) - 1 /\ Head(ws) = ws[1]
      /\ \A k \in 1..(Len(ws) - 1) : Tail(ws)[k] = ws[k + 1]
  BY <1>1
<1>3. PICK f : Run(f, r, ws) /\ f[Len(ws)] \in B
  BY DEF Lead
<1>4. /\ f \in [0..Len(ws) -> Registers] /\ f[0] = r
      /\ \A k \in 1..Len(ws) : /\ ~f[k - 1].halted /\ Suits(f[k - 1])
                               /\ f[k] = After(f[k - 1], ws[k])
  BY <1>3 DEF Run
<1>5. ~r.halted /\ Suits(r) /\ f[1] = After(r, Head(ws)) /\ f[1] \in Registers
  <2>1. 1 \in 1..Len(ws) /\ 1 - 1 = 0 /\ 1 \in 0..Len(ws)
    BY <1>2
  <2> QED
    BY <1>2, <1>4, <2>1
<1> DEFINE n == Len(ws) - 1
           g == [k \in 0..n |-> f[k + 1]]
<1>6. n \in Nat /\ \A k \in 0..n : k + 1 \in 0..Len(ws)
  BY <1>2
<1>7. g \in [0..n -> Registers] /\ \A k \in 0..n : g[k] = f[k + 1]
  BY <1>4, <1>6
<1> HIDE DEF g
<1>8. g[0] = After(r, Head(ws)) /\ g[n] = f[Len(ws)]
  BY <1>2, <1>5, <1>6, <1>7
<1>9. ASSUME NEW k \in 1..n
      PROVE  /\ ~g[k - 1].halted /\ Suits(g[k - 1])
             /\ g[k] = After(g[k - 1], Tail(ws)[k])
  <2>1. /\ k + 1 \in 1..Len(ws) /\ (k + 1) - 1 = k /\ (k - 1) + 1 = k
        /\ k \in 0..n /\ k - 1 \in 0..n
    BY <1>2
  <2>2. g[k - 1] = f[k] /\ g[k] = f[k + 1] /\ Tail(ws)[k] = ws[k + 1]
    BY <1>2, <1>7, <2>1
  <2> QED
    BY <1>4, <2>1, <2>2
<1>10. Run(g, After(r, Head(ws)), Tail(ws)) /\ g[Len(Tail(ws))] \in B
  BY <1>2, <1>3, <1>7, <1>8, <1>9 DEF Run
<1> HIDE DEF n
<1> QED
  BY <1>2, <1>5, <1>10 DEF Lead

\* One more write.
LEMMA LeadThen ==
  ASSUME NEW A, NEW p, NEW B, NEW w, NEW C, NEW ws, ws = Append(p, w),
         Lead(A, p, B), B \subseteq Registers, C \subseteq Registers,
         \A r \in B : ~r.halted /\ Suits(r) /\ After(r, w) \in C
  PROVE  Lead(A, ws, C)
<1>1. PICK S : p \in Seq(S)
  BY DEF Lead
<1>2. p \in Seq(S \cup {w}) /\ w \in S \cup {w}
  BY <1>1
<1>3. Append(p, w) = p \o <<w>>
  BY <1>2
<1>4. Lead(B, <<w>>, C)
  BY LeadOne
<1> QED
  BY <1>3, <1>4, LeadOn

\* Tuples, one element at a time.
LEMMA Tuples ==
  /\ \A a, b : <<a, b>> = Append(<<a>>, b)
  /\ \A a, b, c : <<a, b, c>> = Append(<<a, b>>, c)
  /\ \A a, b, c, d : <<a, b, c, d>> = Append(<<a, b, c>>, d)
  /\ \A a, b, c, d, e : <<a, b, c, d, e>> = Append(<<a, b, c, d>>, e)
  /\ \A a, b, c, d, e, f : <<a, b, c, d, e, f>> = Append(<<a, b, c, d, e>>, f)
OBVIOUS

\* What each kind of write does.
LEMMA AfterIs ==
  ASSUME NEW r \in Registers
  PROVE  /\ \A n : After(r, Ccu(n)) =
              [ccu |-> Amend(n, r.ccu), osc0 |-> r.osc0, tmg |-> r.tmg, divs |-> r.divs,
               lowered |-> r.lowered, gps0 |-> r.gps0, halted |-> FALSE,
           rtcWoke |-> r.rtcWoke]
         /\ \A n : After(r, Osc0(n)) =
              [ccu |-> r.ccu, osc0 |-> Amend(n, r.osc0), tmg |-> r.tmg, divs |-> r.divs,
               lowered |-> r.lowered, gps0 |-> r.gps0, halted |-> FALSE,
           rtcWoke |-> r.rtcWoke]
         /\ \A t : After(r, <<"tmg", t>>) =
              [ccu |-> r.ccu, osc0 |-> r.osc0, tmg |-> t, divs |-> r.divs,
               lowered |-> r.lowered, gps0 |-> r.gps0, halted |-> FALSE,
           rtcWoke |-> r.rtcWoke]
         /\ \A t : After(r, <<"ticks", t>>) =
              [ccu |-> r.ccu, osc0 |-> r.osc0, tmg |-> r.tmg, divs |-> r.divs,
               lowered |-> r.lowered, gps0 |-> r.gps0, halted |-> FALSE,
           rtcWoke |-> r.rtcWoke]
         /\ \A g : After(r, <<"gps0", g>>) =
              [ccu |-> r.ccu, osc0 |-> r.osc0, tmg |-> r.tmg, divs |-> r.divs,
               lowered |-> r.lowered, gps0 |-> g, halted |-> FALSE,
           rtcWoke |-> FALSE]
         /\ \A x : After(r, <<"lower", x>>) =
              [ccu |-> r.ccu, osc0 |-> r.osc0, tmg |-> r.tmg, divs |-> r.divs,
               lowered |-> r.lowered \cup {x}, gps0 |-> r.gps0, halted |-> FALSE,
           rtcWoke |-> r.rtcWoke]
         /\ \A x : After(r, <<"giveBack", x>>) =
              [ccu |-> r.ccu, osc0 |-> r.osc0, tmg |-> r.tmg, divs |-> r.divs,
               lowered |-> r.lowered \ {x}, gps0 |-> r.gps0, halted |-> FALSE,
           rtcWoke |-> r.rtcWoke]
         /\ After(r, <<"halt", TRUE>>) =
              [ccu |-> r.ccu, osc0 |-> r.osc0, tmg |-> r.tmg, divs |-> r.divs,
               lowered |-> r.lowered, gps0 |-> r.gps0, halted |-> TRUE,
           rtcWoke |-> r.rtcWoke]
<1>1. \A n : /\ Ccu(n)[1] = "ccu" /\ Ccu(n)[2] = n
             /\ Osc0(n)[1] = "osc0" /\ Osc0(n)[2] = n
  BY DEF Ccu, Osc0
<1>2. \A n : After(r, Ccu(n)) =
              [ccu |-> Amend(n, r.ccu), osc0 |-> r.osc0, tmg |-> r.tmg, divs |-> r.divs,
               lowered |-> r.lowered, gps0 |-> r.gps0, halted |-> FALSE,
           rtcWoke |-> r.rtcWoke]
  BY <1>1 DEF After
<1>3. \A n : After(r, Osc0(n)) =
              [ccu |-> r.ccu, osc0 |-> Amend(n, r.osc0), tmg |-> r.tmg, divs |-> r.divs,
               lowered |-> r.lowered, gps0 |-> r.gps0, halted |-> FALSE,
           rtcWoke |-> r.rtcWoke]
  BY <1>1 DEF After
<1>4. \A t : After(r, <<"tmg", t>>) =
              [ccu |-> r.ccu, osc0 |-> r.osc0, tmg |-> t, divs |-> r.divs,
               lowered |-> r.lowered, gps0 |-> r.gps0, halted |-> FALSE,
           rtcWoke |-> r.rtcWoke]
  BY DEF After
<1>5. \A t : After(r, <<"ticks", t>>) =
              [ccu |-> r.ccu, osc0 |-> r.osc0, tmg |-> r.tmg, divs |-> r.divs,
               lowered |-> r.lowered, gps0 |-> r.gps0, halted |-> FALSE,
           rtcWoke |-> r.rtcWoke]
  BY DEF After
<1>6. \A g : After(r, <<"gps0", g>>) =
              [ccu |-> r.ccu, osc0 |-> r.osc0, tmg |-> r.tmg, divs |-> r.divs,
               lowered |-> r.lowered, gps0 |-> g, halted |-> FALSE,
           rtcWoke |-> FALSE]
  BY DEF After
<1>7. \A x : After(r, <<"lower", x>>) =
              [ccu |-> r.ccu, osc0 |-> r.osc0, tmg |-> r.tmg, divs |-> r.divs,
               lowered |-> r.lowered \cup {x}, gps0 |-> r.gps0, halted |-> FALSE,
           rtcWoke |-> r.rtcWoke]
  BY DEF After
<1>8. \A x : After(r, <<"giveBack", x>>) =
              [ccu |-> r.ccu, osc0 |-> r.osc0, tmg |-> r.tmg, divs |-> r.divs,
               lowered |-> r.lowered \ {x}, gps0 |-> r.gps0, halted |-> FALSE,
           rtcWoke |-> r.rtcWoke]
  BY DEF After
<1>9. After(r, <<"halt", TRUE>>) =
              [ccu |-> r.ccu, osc0 |-> r.osc0, tmg |-> r.tmg, divs |-> r.divs,
               lowered |-> r.lowered, gps0 |-> r.gps0, halted |-> TRUE,
           rtcWoke |-> r.rtcWoke]
  BY DEF After
<1> QED
  BY <1>2, <1>3, <1>4, <1>5, <1>6, <1>7, <1>8, <1>9

\* What becomes of the fields of ccu_sys_clk_ctl.
LEMMA AmendCcu ==
  ASSUME NEW c \in CcuRegs
  PROVE  /\ \A n \in CcuRegs : Amend(n, c) = n
         /\ \A e \in BOOLEAN :
              /\ Amend([divEn |-> e], c) \in CcuRegs
              /\ Amend([divEn |-> e], c).divEn = e
              /\ Amend([divEn |-> e], c).hybrid = c.hybrid
              /\ Amend([divEn |-> e], c).div = c.div
BY DEF CcuRegs, Amend

\* What becomes of the fields of osc0_cfg1.
LEMMA AmendOsc ==
  ASSUME NEW o \in OscRegs
  PROVE  /\ \A n \in OscRegs : Amend(n, o) = n
         /\ \A e \in BOOLEAN :
              /\ Amend([siOn |-> e], o) \in OscRegs
              /\ Amend([siOn |-> e], o).freq = o.freq
              /\ Amend([siOn |-> e], o).xtalUsed = o.xtalUsed
              /\ Amend([siOn |-> e], o).trim = o.trim
              /\ Amend([siOn |-> e], o).pd = o.pd
         /\ \A e \in BOOLEAN :
              /\ Amend([xtalOn |-> e], o) \in OscRegs
              /\ Amend([xtalOn |-> e], o).freq = o.freq
              /\ Amend([xtalOn |-> e], o).xtalUsed = o.xtalUsed
              /\ Amend([xtalOn |-> e], o).trim = o.trim
              /\ Amend([xtalOn |-> e], o).pd = o.pd
         /\ \A e \in BOOLEAN :
              /\ Amend([xtalUsed |-> e], o) \in OscRegs
              /\ Amend([xtalUsed |-> e], o).freq = o.freq
              /\ Amend([xtalUsed |-> e], o).xtalUsed = e
              /\ Amend([xtalUsed |-> e], o).trim = o.trim
              /\ Amend([xtalUsed |-> e], o).pd = o.pd
         /\ \A e \in BOOLEAN :
              /\ Amend([pd |-> e], o) \in OscRegs
              /\ Amend([pd |-> e], o).freq = o.freq
              /\ Amend([pd |-> e], o).xtalUsed = o.xtalUsed
              /\ Amend([pd |-> e], o).trim = o.trim
              /\ Amend([pd |-> e], o).pd = e
         /\ \A m \in SiModes :
              /\ Amend([freq |-> m], o) \in OscRegs
              /\ Amend([freq |-> m], o).freq = m
              /\ Amend([freq |-> m], o).xtalUsed = o.xtalUsed
              /\ Amend([freq |-> m], o).trim = o.trim
              /\ Amend([freq |-> m], o).pd = o.pd
         /\ \A m \in SiModes :
              /\ Amend([trim |-> m], o) \in OscRegs
              /\ Amend([trim |-> m], o).freq = o.freq
              /\ Amend([trim |-> m], o).xtalUsed = o.xtalUsed
              /\ Amend([trim |-> m], o).trim = m
              /\ Amend([trim |-> m], o).pd = o.pd
BY DEF OscRegs, Amend

\* The registers with those of L lowered.
WithLowered(r, L) ==
  [ccu |-> r.ccu, osc0 |-> r.osc0, tmg |-> r.tmg, divs |-> r.divs,
   lowered |-> L, gps0 |-> r.gps0, halted |-> FALSE,
           rtcWoke |-> r.rtcWoke]

Elements(rs) == {rs[j] : j \in 1..Len(rs)}

\* One more register is lowered.
LEMMA AfterLower ==
  ASSUME NEW r, NEW L, NEW x, NEW M, NEW q, NEW w,
         q = WithLowered(r, L), w = <<"lower", x>>, M = L \cup {x}
  PROVE  After(q, w) = WithLowered(r, M)
BY DEF After, WithLowered

\* One more register is given back.
LEMMA AfterGiveBack ==
  ASSUME NEW r, NEW L, NEW x, NEW M, NEW q, NEW w,
         q = WithLowered(r, L), w = <<"giveBack", x>>, M = L \ {x}
  PROVE  After(q, w) = WithLowered(r, M)
BY DEF After, WithLowered

\* The registers of a list are lowered one by one, which leaves the clock alone.
LEMMA LeadLower ==
  ASSUME NEW A, NEW B, NEW rs \in Seq(DeepSleepLowers), A \subseteq Registers,
         \A r \in A : /\ ~r.halted /\ Suits(r)
                      /\ WithLowered(r, r.lowered \cup Elements(rs)) \in B
  PROVE  Lead(A, Each("lower", rs), B)
<1> DEFINE ws == Each("lower", rs)
<1>1. /\ Len(rs) \in Nat /\ DOMAIN rs = 1..Len(rs)
      /\ \A k \in 1..Len(rs) : rs[k] \in DeepSleepLowers
  OBVIOUS
<1>2. /\ ws \in Seq({"lower"} \X DeepSleepLowers) /\ Len(ws) = Len(rs)
      /\ \A k \in 1..Len(rs) : ws[k] = <<"lower", rs[k]>>
  BY <1>1 DEF Each
<1> HIDE DEF ws
<1>3. ASSUME NEW r \in A
      PROVE  \E run : Run(run, r, ws) /\ run[Len(ws)] \in B
  <2> DEFINE n == Len(rs)
             els(k) == {rs[j] : j \in 1..k}
             f == [k \in 0..n |-> WithLowered(r, r.lowered \cup els(k))]
  <2>1. r \in Registers /\ ~r.halted /\ Suits(r)
    OBVIOUS
  <2>2. \A k \in 0..n : WithLowered(r, r.lowered \cup els(k)) \in Registers
    BY <1>1, <2>1 DEF WithLowered, Registers
  <2>3. f \in [0..n -> Registers]
    BY <2>2
  <2>4. \A k \in 0..n : f[k] = WithLowered(r, r.lowered \cup els(k))
    OBVIOUS
  <2> HIDE DEF f
  <2>5. f[0] = r
    <3>1. els(0) = {} /\ 0 \in 0..n
      BY <1>1
    <3>2. r.lowered \cup {} = r.lowered
      BY <2>1 DEF Registers
    <3>3. r = WithLowered(r, r.lowered)
      BY <2>1 DEF WithLowered, Registers
    <3> QED
      BY <2>4, <3>1, <3>2, <3>3
  <2>6. ASSUME NEW k \in 1..n
        PROVE  /\ ~f[k - 1].halted /\ Suits(f[k - 1])
               /\ f[k] = After(f[k - 1], ws[k])
    <3>1. k - 1 \in 0..n /\ k \in 0..n
      BY <1>1
    <3>2. f[k - 1] = WithLowered(r, r.lowered \cup els(k - 1))
      BY <2>4, <3>1
    <3>3. ~f[k - 1].halted /\ Suits(f[k - 1])
      BY <2>1, <3>2 DEF WithLowered, Suits
    <3>4. els(k) = els(k - 1) \cup {rs[k]}
      BY <1>1
    <3>5. After(f[k - 1], ws[k]) = WithLowered(r, r.lowered \cup els(k - 1) \cup {rs[k]})
      <4> DEFINE L == r.lowered \cup els(k - 1)
                 M == L \cup {rs[k]}
      <4>1. ws[k] = <<"lower", rs[k]>>
        BY <1>2
      <4>2. f[k - 1] = WithLowered(r, L)
        BY <3>2
      <4>3. M = L \cup {rs[k]}
        OBVIOUS
      <4> HIDE DEF L, M
      <4>4. After(f[k - 1], ws[k]) = WithLowered(r, M)
        BY <4>1, <4>2, <4>3, AfterLower
      <4> QED
        BY <4>4 DEF L, M
    <3>6. r.lowered \cup els(k) = r.lowered \cup els(k - 1) \cup {rs[k]}
      BY <3>4
    <3> QED
      BY <2>4, <3>1, <3>3, <3>5, <3>6
  <2>7. f[Len(ws)] \in B
    <3>1. n \in 0..n /\ els(n) = Elements(rs)
      BY <1>1 DEF Elements
    <3> QED
      BY <1>2, <2>4, <3>1
  <2>8. Run(f, r, ws)
    BY <1>2, <2>3, <2>5, <2>6 DEF Run
  <2> QED
    BY <2>7, <2>8
<1> QED
  BY <1>2, <1>3 DEF Lead, ws

\* The registers of a list are given back one by one.
LEMMA LeadGiveBack ==
  ASSUME NEW A, NEW B, NEW rs \in Seq(DeepSleepLowers), A \subseteq Registers,
         \A r \in A : /\ ~r.halted /\ Suits(r)
                      /\ WithLowered(r, r.lowered \ Elements(rs)) \in B
  PROVE  Lead(A, Each("giveBack", rs), B)
<1> DEFINE ws == Each("giveBack", rs)
<1>1. /\ Len(rs) \in Nat /\ DOMAIN rs = 1..Len(rs)
      /\ \A k \in 1..Len(rs) : rs[k] \in DeepSleepLowers
  OBVIOUS
<1>2. /\ ws \in Seq({"giveBack"} \X DeepSleepLowers) /\ Len(ws) = Len(rs)
      /\ \A k \in 1..Len(rs) : ws[k] = <<"giveBack", rs[k]>>
  BY <1>1 DEF Each
<1> HIDE DEF ws
<1>3. ASSUME NEW r \in A
      PROVE  \E run : Run(run, r, ws) /\ run[Len(ws)] \in B
  <2> DEFINE n == Len(rs)
             els(k) == {rs[j] : j \in 1..k}
             f == [k \in 0..n |-> WithLowered(r, r.lowered \ els(k))]
  <2>1. r \in Registers /\ ~r.halted /\ Suits(r)
    OBVIOUS
  <2>2. \A k \in 0..n : WithLowered(r, r.lowered \ els(k)) \in Registers
    BY <1>1, <2>1 DEF WithLowered, Registers
  <2>3. f \in [0..n -> Registers]
    BY <2>2
  <2>4. \A k \in 0..n : f[k] = WithLowered(r, r.lowered \ els(k))
    OBVIOUS
  <2> HIDE DEF f
  <2>5. f[0] = r
    <3>1. els(0) = {} /\ 0 \in 0..n
      BY <1>1
    <3>2. r.lowered \ {} = r.lowered
      BY <2>1 DEF Registers
    <3>3. r = WithLowered(r, r.lowered)
      BY <2>1 DEF WithLowered, Registers
    <3> QED
      BY <2>4, <3>1, <3>2, <3>3
  <2>6. ASSUME NEW k \in 1..n
        PROVE  /\ ~f[k - 1].halted /\ Suits(f[k - 1])
               /\ f[k] = After(f[k - 1], ws[k])
    <3>1. k - 1 \in 0..n /\ k \in 0..n
      BY <1>1
    <3>2. f[k - 1] = WithLowered(r, r.lowered \ els(k - 1))
      BY <2>4, <3>1
    <3>3. ~f[k - 1].halted /\ Suits(f[k - 1])
      BY <2>1, <3>2 DEF WithLowered, Suits
    <3>4. els(k) = els(k - 1) \cup {rs[k]}
      BY <1>1
    <3>5. After(f[k - 1], ws[k]) = WithLowered(r, (r.lowered \ els(k - 1)) \ {rs[k]})
      <4> DEFINE L == r.lowered \ els(k - 1)
                 M == L \ {rs[k]}
      <4>1. ws[k] = <<"giveBack", rs[k]>>
        BY <1>2
      <4>2. f[k - 1] = WithLowered(r, L)
        BY <3>2
      <4>3. M = L \ {rs[k]}
        OBVIOUS
      <4> HIDE DEF L, M
      <4>4. After(f[k - 1], ws[k]) = WithLowered(r, M)
        BY <4>1, <4>2, <4>3, AfterGiveBack
      <4> QED
        BY <4>4 DEF L, M
    <3>6. r.lowered \ els(k) = (r.lowered \ els(k - 1)) \ {rs[k]}
      BY <3>4
    <3> QED
      BY <2>4, <3>1, <3>3, <3>5, <3>6
  <2>7. f[Len(ws)] \in B
    <3>1. n \in 0..n /\ els(n) = Elements(rs)
      BY <1>1 DEF Elements
    <3> QED
      BY <1>2, <2>4, <3>1
  <2>8. Run(f, r, ws)
    BY <1>2, <2>3, <2>5, <2>6 DEF Run
  <2> QED
    BY <2>7, <2>8
<1> QED
  BY <1>2, <1>3 DEF Lead, ws

\* A divided frequency, and the ticks computed from it: with wait states for the
\* ticks rounded down, the frequency is still one the flash can be read at.
LEMMA Divided ==
  ASSUME NEW d \in 0..7, NEW T \in {4, 8, 16, 32}
  PROVE  LET D == Divisor(d)
             F == (32 * T) \div D
             t == T \div D
         IN  /\ F \in Nat /\ F <= 32 * T /\ t \in Nat
             /\ t <= 4 => F <= 128
             /\ t <= 16 => F <= 512
<1>1. Divisor(d) \in {1, 2, 4, 8, 16, 32, 64, 128}
  BY DEF Divisor
<1>2. CASE T = 4
  BY <1>1, <1>2
<1>3. CASE T = 8
  BY <1>1, <1>3
<1>4. CASE T = 16
  BY <1>1, <1>4
<1>5. CASE T = 32
  BY <1>1, <1>5
<1> QED
  BY <1>2, <1>3, <1>4, <1>5

\* The system clock is never above 32 MHz, nor above 4 MHz on the slowest oscillator.
LEMMA Frequencies ==
  ASSUME NEW c \in CcuRegs, NEW o \in OscRegs
  PROVE  /\ SysFreq(c, o) \in Nat /\ SysFreq(c, o) <= 1024
         /\ ~o.xtalUsed /\ o.freq = "si4" => SysFreq(c, o) <= 128
<1>1. \E T \in {4, 8, 16, 32} : /\ OscFreq(o) = 32 * T
                                /\ ~o.xtalUsed /\ o.freq = "si4" => T = 4
  BY DEF OscFreq, SiFreq, OscRegs, SiModes
<1>2. PICK T \in {4, 8, 16, 32} : /\ OscFreq(o) = 32 * T
                                  /\ ~o.xtalUsed /\ o.freq = "si4" => T = 4
  BY <1>1
<1>3. c.div \in 0..7
  BY DEF CcuRegs
<1>4. (32 * T) \div Divisor(c.div) \in Nat /\ (32 * T) \div Divisor(c.div) <= 32 * T
  BY <1>3, Divided
<1>5. \/ SysFreq(c, o) = 1
      \/ SysFreq(c, o) = (32 * T) \div Divisor(c.div)
      \/ SysFreq(c, o) = 32 * T
  BY <1>2 DEF SysFreq
<1> QED
  BY <1>2, <1>4, <1>5

\* The oscillator of the mode is the one that runs the system.
Selected(mode, clk, osc) ==
  /\ clk.hybrid <=> mode # "rtc"
  /\ mode # "rtc" => (osc.xtalUsed <=> mode = "xtal")
  /\ mode \in SiModes => osc.freq = mode

\* The wait states set last suit the frequency reached.
LEMMA TimingsFit ==
  ASSUME NEW mode \in SiModes \cup {"rtc", "xtal"}, NEW d \in 0..7,
         NEW c \in CcuRegs, NEW o \in OscRegs,
         c.div = d, c.divEn, Selected(mode, c, o)
  PROVE  \E t \in {"slow", "one", "two"} :
           Timings(TicksOf(mode, d)) = <<"tmg", t>> /\ SysFreq(c, o) <= FlashFreq(t)
<1>1. CASE mode = "rtc"
  <2>1. SysFreq(c, o) = 1
    BY <1>1 DEF SysFreq, Selected
  <2>2. TicksOf(mode, d) = 1
    <3>1. TicksOf("rtc", d) = 1
      BY DEF TicksOf, SiModes
    <3> QED
      BY <1>1, <3>1
  <2>3. Timings(TicksOf(mode, d)) = <<"tmg", "slow">> /\ FlashFreq("slow") = 128
    BY <2>2 DEF Timings, FlashFreq
  <2> QED
    BY <2>1, <2>3
<1>2. CASE mode # "rtc"
  <2>1. \E T \in {4, 8, 16, 32} : /\ SysFreq(c, o) = (32 * T) \div Divisor(d)
                                  /\ TicksOf(mode, d) = T \div Divisor(d)
    <3>1. CASE mode = "xtal"
      <4>1. TicksOf("xtal", d) = 32 \div Divisor(d)
        BY DEF TicksOf, SiModes
      <4>2. SysFreq(c, o) = 1024 \div Divisor(d)
        BY <1>2, <3>1 DEF SysFreq, Selected, OscFreq
      <4>3. 1024 = 32 * 32
        OBVIOUS
      <4> QED
        BY <3>1, <4>1, <4>2, <4>3
    <3>2. CASE mode \in SiModes
      <4>1. /\ SysFreq(c, o) = SiFreq(mode) \div Divisor(d)
            /\ TicksOf(mode, d) = (SiFreq(mode) \div 32) \div Divisor(d)
        BY <1>2, <3>2 DEF SysFreq, Selected, OscFreq, TicksOf, SiModes
      <4>2. \E T \in {4, 8, 16, 32} : SiFreq(mode) = 32 * T /\ SiFreq(mode) \div 32 = T
        BY <3>2 DEF SiFreq, SiModes
      <4> QED
        BY <4>1, <4>2
    <3> QED
      BY <1>2, <3>1, <3>2
  <2>2. PICK T \in {4, 8, 16, 32} : /\ SysFreq(c, o) = (32 * T) \div Divisor(d)
                                    /\ TicksOf(mode, d) = T \div Divisor(d)
    BY <2>1
  <2>3. /\ SysFreq(c, o) \in Nat /\ SysFreq(c, o) <= 1024 /\ TicksOf(mode, d) \in Nat
        /\ TicksOf(mode, d) <= 4 => SysFreq(c, o) <= 128
        /\ TicksOf(mode, d) <= 16 => SysFreq(c, o) <= 512
    BY <2>2, Divided
  <2>4. FlashFreq("slow") = 128 /\ FlashFreq("one") = 512 /\ FlashFreq("two") = 1024
    BY DEF FlashFreq
  <2> DEFINE ticks == TicksOf(mode, d)
  <2> HIDE DEF ticks
  <2>5. Timings(ticks) =
          <<"tmg", IF ticks <= 4 THEN "slow" ELSE IF ticks <= 16 THEN "one" ELSE "two">>
    BY DEF Timings
  <2>6. CASE ticks <= 4
    BY <2>3, <2>4, <2>5, <2>6 DEF ticks
  <2>7. CASE ~(ticks <= 4) /\ ticks <= 16
    BY <2>3, <2>4, <2>5, <2>7 DEF ticks
  <2>8. CASE ~(ticks <= 4) /\ ~(ticks <= 16)
    BY <2>3, <2>4, <2>5, <2>8 DEF ticks
  <2> QED
    BY <2>6, <2>7, <2>8
<1> QED
  BY <1>1, <1>2

\* One more write, after up to five.
LEMMA LeadNext ==
  ASSUME NEW A, NEW B, NEW C, NEW w, B \subseteq Registers, C \subseteq Registers,
         \A r \in B : ~r.halted /\ Suits(r) /\ After(r, w) \in C
  PROVE  /\ \A a : Lead(A, <<a>>, B) => Lead(A, <<a, w>>, C)
         /\ \A a, b : Lead(A, <<a, b>>, B) => Lead(A, <<a, b, w>>, C)
         /\ \A a, b, c : Lead(A, <<a, b, c>>, B) => Lead(A, <<a, b, c, w>>, C)
         /\ \A a, b, c, d :
              Lead(A, <<a, b, c, d>>, B) => Lead(A, <<a, b, c, d, w>>, C)
         /\ \A a, b, c, d, e :
              Lead(A, <<a, b, c, d, e>>, B) => Lead(A, <<a, b, c, d, e, w>>, C)
<1>1. ASSUME NEW p, Lead(A, p, B)
      PROVE  Lead(A, Append(p, w), C)
  <2> DEFINE ws == Append(p, w)
  <2>1. ws = Append(p, w)
    OBVIOUS
  <2> HIDE DEF ws
  <2>2. Lead(A, ws, C)
    BY <1>1, <2>1, LeadThen
  <2> QED
    BY <2>2 DEF ws
<1>2. \A a : Lead(A, <<a>>, B) => Lead(A, <<a, w>>, C)
  <2>1. \A a : <<a, w>> = Append(<<a>>, w)
    BY Tuples
  <2> QED
    BY <1>1, <2>1
<1>3. ASSUME NEW a, NEW b, Lead(A, <<a, b>>, B)
      PROVE  Lead(A, <<a, b, w>>, C)
  <2> DEFINE p == <<a, b>>
  <2>1. <<a, b, w>> = Append(p, w)
    BY Tuples
  <2>2. Lead(A, p, B)
    BY <1>3
  <2> HIDE DEF p
  <2> QED
    BY <1>1, <2>1, <2>2
<1>4. ASSUME NEW a, NEW b, NEW c, Lead(A, <<a, b, c>>, B)
      PROVE  Lead(A, <<a, b, c, w>>, C)
  <2> DEFINE p == <<a, b, c>>
  <2>1. <<a, b, c, w>> = Append(p, w)
    BY Tuples
  <2>2. Lead(A, p, B)
    BY <1>4
  <2> HIDE DEF p
  <2> QED
    BY <1>1, <2>1, <2>2
<1>5. ASSUME NEW a, NEW b, NEW c, NEW d, Lead(A, <<a, b, c, d>>, B)
      PROVE  Lead(A, <<a, b, c, d, w>>, C)
  <2> DEFINE p == <<a, b, c, d>>
  <2>1. <<a, b, c, d, w>> = Append(p, w)
    BY Tuples
  <2>2. Lead(A, p, B)
    BY <1>5
  <2> HIDE DEF p
  <2> QED
    BY <1>1, <2>1, <2>2
<1>6. ASSUME NEW a, NEW b, NEW c, NEW d, NEW e, Lead(A, <<a, b, c, d, e>>, B)
      PROVE  Lead(A, <<a, b, c, d, e, w>>, C)
  <2> DEFINE p == <<a, b, c, d, e>>
  <2>1. <<a, b, c, d, e, w>> = Append(p, w)
    BY Tuples
  <2>2. Lead(A, p, B)
    BY <1>6
  <2> HIDE DEF p
  <2> QED
    BY <1>1, <2>1, <2>2
<1> QED
  BY <1>2, <1>3, <1>4, <1>5, <1>6

\* What a change of the mode of a leaves alone.
Frame(a) ==
  {r \in Registers : /\ r.divs = a.divs /\ r.lowered = a.lowered /\ r.gps0 = a.gps0
                     /\ r.osc0.pd = a.osc0.pd /\ ~r.halted}

\* While it is changing: wait states that suit every frequency.
Changing(a) == {r \in Frame(a) : r.tmg = "two"}

\* Its oscillator is selected.
Switched(a, mode, d) ==
  {r \in Changing(a) : /\ r.ccu.div = d /\ Selected(mode, r.ccu, r.osc0)
                       /\ OwnTrim(a.osc0) => OwnTrim(r.osc0)}

\* Its divider is enabled.
Enabled(a, mode, d) == {r \in Switched(a, mode, d) : r.ccu.divEn}

\* Its wait states are set.
Reached(a, mode, d) ==
  {r \in Frame(a) : /\ r.ccu.divEn /\ Suits(r) /\ Selected(mode, r.ccu, r.osc0)
                    /\ OwnTrim(a.osc0) => OwnTrim(r.osc0)}

\* While the mode is changing, the wait states suit whatever is written.
LEMMA ChangingOn ==
  ASSUME NEW a, NEW r \in Changing(a)
  PROVE  /\ r \in Registers /\ r.ccu \in CcuRegs /\ r.osc0 \in OscRegs
         /\ ~r.halted /\ Suits(r)
         /\ \A n : Amend(n, r.ccu) \in CcuRegs =>
              /\ After(r, Ccu(n)) \in Changing(a) /\ After(r, Ccu(n)).osc0 = r.osc0
              /\ After(r, Ccu(n)).ccu = Amend(n, r.ccu)
         /\ \A n : Amend(n, r.osc0) \in OscRegs /\ Amend(n, r.osc0).pd = r.osc0.pd =>
              /\ After(r, Osc0(n)) \in Changing(a) /\ After(r, Osc0(n)).ccu = r.ccu
              /\ After(r, Osc0(n)).osc0 = Amend(n, r.osc0)
<1>1. /\ r \in Registers /\ r.ccu \in CcuRegs /\ r.osc0 \in OscRegs
      /\ ~r.halted /\ r.tmg = "two"
  BY DEF Changing, Frame, Registers
<1>2. Suits(r)
  <2>1. SysFreq(r.ccu, r.osc0) <= 1024
    BY <1>1, Frequencies
  <2>2. FlashFreq("two") = 1024
    BY DEF FlashFreq
  <2> QED
    BY <1>1, <2>1, <2>2 DEF Suits
<1>3. ASSUME NEW n, Amend(n, r.ccu) \in CcuRegs
      PROVE  /\ After(r, Ccu(n)) \in Changing(a) /\ After(r, Ccu(n)).osc0 = r.osc0
             /\ After(r, Ccu(n)).ccu = Amend(n, r.ccu)
  <2> DEFINE c == Amend(n, r.ccu)
  <2>1. After(r, Ccu(n)) =
              [ccu |-> c, osc0 |-> r.osc0, tmg |-> r.tmg, divs |-> r.divs,
               lowered |-> r.lowered, gps0 |-> r.gps0, halted |-> FALSE,
           rtcWoke |-> r.rtcWoke]
    BY <1>1, AfterIs
  <2>2. c \in CcuRegs
    BY <1>3
  <2> HIDE DEF c
  <2>3. After(r, Ccu(n)) \in Changing(a) /\ After(r, Ccu(n)).osc0 = r.osc0
        /\ After(r, Ccu(n)).ccu = c
    BY <2>1, <2>2 DEF Changing, Frame, Registers
  <2> QED
    BY <2>3 DEF c
<1>4. ASSUME NEW n, Amend(n, r.osc0) \in OscRegs, Amend(n, r.osc0).pd = r.osc0.pd
      PROVE  /\ After(r, Osc0(n)) \in Changing(a) /\ After(r, Osc0(n)).ccu = r.ccu
             /\ After(r, Osc0(n)).osc0 = Amend(n, r.osc0)
  <2> DEFINE o == Amend(n, r.osc0)
  <2>1. After(r, Osc0(n)) =
              [ccu |-> r.ccu, osc0 |-> o, tmg |-> r.tmg, divs |-> r.divs,
               lowered |-> r.lowered, gps0 |-> r.gps0, halted |-> FALSE,
           rtcWoke |-> r.rtcWoke]
    BY <1>1, AfterIs
  <2>2. o \in OscRegs /\ o.pd = r.osc0.pd
    BY <1>4
  <2> HIDE DEF o
  <2>3. After(r, Osc0(n)) \in Changing(a) /\ After(r, Osc0(n)).ccu = r.ccu
        /\ After(r, Osc0(n)).osc0 = o
    BY <2>1, <2>2 DEF Changing, Frame, Registers
  <2> QED
    BY <2>3 DEF o
<1> QED
  BY <1>1, <1>2, <1>3, <1>4

\* The switch to the RTC oscillator.
LEMMA SwitchToRtc ==
  ASSUME NEW a, NEW d \in 0..7
  PROVE  Lead({r \in Changing(a) : r.osc0 = a.osc0}, Switch("rtc", d),
              Switched(a, "rtc", d))
<1> DEFINE c == [hybrid |-> FALSE, div |-> d, divEn |-> FALSE]
           A == {r \in Changing(a) : r.osc0 = a.osc0}
<1>1. Switch("rtc", d) = <<Ccu(c)>>
  BY DEF Switch, SiModes
<1>2. c \in CcuRegs /\ c.div = d /\ ~c.hybrid
  BY DEF CcuRegs
<1> HIDE DEF c
<1>3. ASSUME NEW r \in A
      PROVE  ~r.halted /\ Suits(r) /\ After(r, Ccu(c)) \in Switched(a, "rtc", d)
  <2>1. r \in Changing(a) /\ r.osc0 = a.osc0
    OBVIOUS
  <2>2. Amend(c, r.ccu) = c
    BY <1>2, <2>1, ChangingOn, AmendCcu
  <2>3. /\ ~r.halted /\ Suits(r) /\ After(r, Ccu(c)) \in Changing(a)
        /\ After(r, Ccu(c)).osc0 = r.osc0 /\ After(r, Ccu(c)).ccu = c
    BY <1>2, <2>1, <2>2, ChangingOn
  <2> QED
    BY <1>2, <2>1, <2>3 DEF Switched, Selected, SiModes
<1>4. A \subseteq Registers /\ Switched(a, "rtc", d) \subseteq Registers
  BY DEF Switched, Changing, Frame
<1> HIDE DEF A
<1>5. Lead(A, <<Ccu(c)>>, Switched(a, "rtc", d))
  BY <1>3, <1>4, LeadOne
<1> QED
  BY <1>1, <1>5 DEF A

\* The switch to the crystal.
LEMMA SwitchToCrystal ==
  ASSUME NEW a, NEW d \in 0..7
  PROVE  Lead(Changing(a), Switch("xtal", d), Switched(a, "xtal", d))
<1> DEFINE c == [hybrid |-> TRUE, div |-> d, divEn |-> FALSE]
           w1 == Osc0([xtalOn |-> TRUE])
           w2 == Osc0([xtalUsed |-> TRUE])
           w3 == Ccu(c)
           w4 == Osc0([siOn |-> FALSE])
           B2 == {r \in Changing(a) : r.osc0.xtalUsed}
           B3 == {r \in B2 : r.ccu = c}
<1>1. Switch("xtal", d) = <<w1, w2, w3, w4>>
  BY DEF Switch, SiModes
<1>2. c \in CcuRegs /\ c.div = d /\ c.hybrid
  BY DEF CcuRegs
<1> HIDE DEF c
<1>3. ASSUME NEW r \in Changing(a)
      PROVE  /\ ~r.halted /\ Suits(r) /\ After(r, w1) \in Changing(a)
             /\ After(r, w2) \in B2
  <2>1. r.osc0 \in OscRegs /\ ~r.halted /\ Suits(r)
    BY ChangingOn
  <2>2. Amend([xtalOn |-> TRUE], r.osc0) \in OscRegs
        /\ Amend([xtalOn |-> TRUE], r.osc0).pd = r.osc0.pd
    BY <2>1, AmendOsc
  <2>3. /\ Amend([xtalUsed |-> TRUE], r.osc0) \in OscRegs
        /\ Amend([xtalUsed |-> TRUE], r.osc0).pd = r.osc0.pd
        /\ Amend([xtalUsed |-> TRUE], r.osc0).xtalUsed
    BY <2>1, AmendOsc
  <2>4. After(r, w1) \in Changing(a)
    BY <2>2, ChangingOn
  <2>5. After(r, w2) \in Changing(a) /\ After(r, w2).osc0.xtalUsed
    BY <2>3, ChangingOn
  <2> HIDE DEF w1, w2
  <2> QED
    BY <2>1, <2>4, <2>5
<1>4. ASSUME NEW r \in B2
      PROVE  ~r.halted /\ Suits(r) /\ After(r, w3) \in B3
  BY <1>2, ChangingOn, AmendCcu
<1>5. ASSUME NEW r \in B3
      PROVE  ~r.halted /\ Suits(r) /\ After(r, w4) \in Switched(a, "xtal", d)
  <2>1. r \in Changing(a) /\ r.osc0.xtalUsed /\ r.ccu = c
    OBVIOUS
  <2>2. /\ ~r.halted /\ Suits(r) /\ After(r, w4) \in Changing(a)
        /\ After(r, w4).ccu = c /\ After(r, w4).osc0.xtalUsed
    <3>1. r.osc0 \in OscRegs /\ ~r.halted /\ Suits(r)
      BY <2>1, ChangingOn
    <3>2. /\ Amend([siOn |-> FALSE], r.osc0) \in OscRegs
          /\ Amend([siOn |-> FALSE], r.osc0).pd = r.osc0.pd
          /\ Amend([siOn |-> FALSE], r.osc0).xtalUsed = r.osc0.xtalUsed
      BY <3>1, AmendOsc
    <3> QED
      BY <2>1, <3>1, <3>2, ChangingOn
  <2> HIDE DEF w4
  <2> QED
    BY <1>2, <2>2 DEF Switched, Selected, OwnTrim, SiModes
<1>6. /\ Changing(a) \subseteq Registers /\ B2 \subseteq Registers
      /\ B3 \subseteq Registers /\ Switched(a, "xtal", d) \subseteq Registers
  BY DEF Switched, Changing, Frame
<1> HIDE DEF w1, w2, w3, w4, B2, B3
<1>7. Lead(Changing(a), <<w1>>, Changing(a))
  BY <1>3, <1>6, LeadOne
<1>8. Lead(Changing(a), <<w1, w2>>, B2)
  BY <1>3, <1>6, <1>7, LeadNext
<1>9. Lead(Changing(a), <<w1, w2, w3>>, B3)
  BY <1>4, <1>6, <1>8, LeadNext
<1>10. Lead(Changing(a), <<w1, w2, w3, w4>>, Switched(a, "xtal", d))
  BY <1>5, <1>6, <1>9, LeadNext
<1> QED
  BY <1>1, <1>10

\* The switch to a mode of the silicon oscillator.
LEMMA SwitchToSilicon ==
  ASSUME NEW a, NEW mode \in SiModes, NEW d \in 0..7
  PROVE  Lead(Changing(a), Switch(mode, d), Switched(a, mode, d))
<1> DEFINE c == [hybrid |-> TRUE, div |-> d, divEn |-> FALSE]
           t == Osc0([trim |-> mode])
           ts == IF mode \in TrimPresent THEN <<t>> ELSE <<>>
           w1 == Osc0([freq |-> "si32"])
           w2 == Osc0([freq |-> mode])
           w3 == Osc0([siOn |-> TRUE])
           w4 == Osc0([xtalUsed |-> FALSE])
           w5 == Ccu(c)
           w6 == Osc0([xtalOn |-> FALSE])
           B1 == {r \in Changing(a) : mode \in TrimPresent => r.osc0.trim = mode}
           B2 == {r \in B1 : r.osc0.freq = mode}
           B4 == {r \in B2 : ~r.osc0.xtalUsed}
           B5 == {r \in B4 : r.ccu = c}
<1>1. Switch(mode, d) = ts \o <<w1, w2, w3, w4, w5, w6>>
  BY DEF Switch, SiModes
<1>2. c \in CcuRegs /\ c.div = d /\ c.hybrid
  BY DEF CcuRegs
<1> HIDE DEF c
<1>3. ASSUME NEW r \in Changing(a)
      PROVE  /\ r \in Registers /\ ~r.halted /\ Suits(r) /\ After(r, t) \in B1
  BY ChangingOn, AmendOsc
<1>4. ASSUME NEW r \in B1
      PROVE  /\ ~r.halted /\ Suits(r) /\ After(r, w1) \in B1 /\ After(r, w2) \in B2
  <2>1. "si32" \in SiModes
    BY DEF SiModes
  <2>2. r \in Changing(a) /\ (mode \in TrimPresent => r.osc0.trim = mode)
    OBVIOUS
  <2>3. /\ After(r, w1) \in Changing(a) /\ After(r, w1).osc0.trim = r.osc0.trim
        /\ After(r, w2) \in Changing(a) /\ After(r, w2).osc0.trim = r.osc0.trim
        /\ After(r, w2).osc0.freq = mode /\ ~r.halted /\ Suits(r)
    <3>1. r.osc0 \in OscRegs /\ ~r.halted /\ Suits(r)
      BY <2>2, ChangingOn
    <3>2. /\ Amend([freq |-> "si32"], r.osc0) \in OscRegs
          /\ Amend([freq |-> "si32"], r.osc0).pd = r.osc0.pd
          /\ Amend([freq |-> "si32"], r.osc0).trim = r.osc0.trim
      BY <2>1, <3>1, AmendOsc
    <3>3. /\ Amend([freq |-> mode], r.osc0) \in OscRegs
          /\ Amend([freq |-> mode], r.osc0).pd = r.osc0.pd
          /\ Amend([freq |-> mode], r.osc0).trim = r.osc0.trim
          /\ Amend([freq |-> mode], r.osc0).freq = mode
      BY <3>1, AmendOsc
    <3>4. After(r, w1) \in Changing(a) /\ After(r, w1).osc0.trim = r.osc0.trim
      BY <2>2, <3>2, ChangingOn
    <3>5. /\ After(r, w2) \in Changing(a) /\ After(r, w2).osc0.trim = r.osc0.trim
          /\ After(r, w2).osc0.freq = mode
      BY <2>2, <3>3, ChangingOn
    <3> QED
      BY <3>1, <3>4, <3>5
  <2> HIDE DEF w1, w2
  <2> QED
    BY <2>2, <2>3
<1>5. ASSUME NEW r \in B2
      PROVE  /\ ~r.halted /\ Suits(r) /\ After(r, w3) \in B2 /\ After(r, w4) \in B4
  <2>1. r \in Changing(a) /\ (mode \in TrimPresent => r.osc0.trim = mode)
        /\ r.osc0.freq = mode
    OBVIOUS
  <2>2. /\ After(r, w3) \in Changing(a) /\ After(r, w3).osc0.trim = r.osc0.trim
        /\ After(r, w3).osc0.freq = r.osc0.freq
        /\ After(r, w4) \in Changing(a) /\ After(r, w4).osc0.trim = r.osc0.trim
        /\ After(r, w4).osc0.freq = r.osc0.freq /\ ~After(r, w4).osc0.xtalUsed
        /\ ~r.halted /\ Suits(r)
    <3>1. r.osc0 \in OscRegs /\ ~r.halted /\ Suits(r)
      BY <2>1, ChangingOn
    <3>2. /\ Amend([siOn |-> TRUE], r.osc0) \in OscRegs
          /\ Amend([siOn |-> TRUE], r.osc0).pd = r.osc0.pd
          /\ Amend([siOn |-> TRUE], r.osc0).trim = r.osc0.trim
          /\ Amend([siOn |-> TRUE], r.osc0).freq = r.osc0.freq
      BY <3>1, AmendOsc
    <3>3. /\ Amend([xtalUsed |-> FALSE], r.osc0) \in OscRegs
          /\ Amend([xtalUsed |-> FALSE], r.osc0).pd = r.osc0.pd
          /\ Amend([xtalUsed |-> FALSE], r.osc0).trim = r.osc0.trim
          /\ Amend([xtalUsed |-> FALSE], r.osc0).freq = r.osc0.freq
          /\ Amend([xtalUsed |-> FALSE], r.osc0).xtalUsed = FALSE
      BY <3>1, AmendOsc
    <3>4. /\ After(r, w3) \in Changing(a) /\ After(r, w3).osc0.trim = r.osc0.trim
          /\ After(r, w3).osc0.freq = r.osc0.freq
      BY <2>1, <3>2, ChangingOn
    <3>5. /\ After(r, w4) \in Changing(a) /\ After(r, w4).osc0.trim = r.osc0.trim
          /\ After(r, w4).osc0.freq = r.osc0.freq /\ ~After(r, w4).osc0.xtalUsed
      BY <2>1, <3>3, ChangingOn
    <3> QED
      BY <3>1, <3>4, <3>5
  <2> HIDE DEF w3, w4
  <2> QED
    BY <2>1, <2>2
<1>6. ASSUME NEW r \in B4
      PROVE  ~r.halted /\ Suits(r) /\ After(r, w5) \in B5
  BY <1>2, ChangingOn, AmendCcu
<1>7. ASSUME NEW r \in B5
      PROVE  ~r.halted /\ Suits(r) /\ After(r, w6) \in Switched(a, mode, d)
  <2>1. /\ r \in Changing(a) /\ ~r.osc0.xtalUsed /\ r.ccu = c /\ r.osc0.freq = mode
        /\ mode \in TrimPresent => r.osc0.trim = mode
    OBVIOUS
  <2>2. /\ ~r.halted /\ Suits(r) /\ After(r, w6) \in Changing(a)
        /\ After(r, w6).ccu = c /\ After(r, w6).osc0.xtalUsed = r.osc0.xtalUsed
        /\ After(r, w6).osc0.freq = r.osc0.freq /\ After(r, w6).osc0.trim = r.osc0.trim
    <3>1. r.osc0 \in OscRegs /\ ~r.halted /\ Suits(r)
      BY <2>1, ChangingOn
    <3>2. /\ Amend([xtalOn |-> FALSE], r.osc0) \in OscRegs
          /\ Amend([xtalOn |-> FALSE], r.osc0).pd = r.osc0.pd
          /\ Amend([xtalOn |-> FALSE], r.osc0).trim = r.osc0.trim
          /\ Amend([xtalOn |-> FALSE], r.osc0).freq = r.osc0.freq
          /\ Amend([xtalOn |-> FALSE], r.osc0).xtalUsed = r.osc0.xtalUsed
      BY <3>1, AmendOsc
    <3> QED
      BY <2>1, <3>1, <3>2, ChangingOn
  <2>3. mode # "rtc" /\ mode # "xtal"
    BY DEF SiModes
  <2> HIDE DEF w6
  <2> QED
    BY <1>2, <2>1, <2>2, <2>3 DEF Switched, Selected, OwnTrim
<1>8. /\ Changing(a) \subseteq Registers /\ B1 \subseteq Registers
      /\ B2 \subseteq Registers /\ B4 \subseteq Registers
      /\ B5 \subseteq Registers /\ Switched(a, mode, d) \subseteq Registers
  BY DEF Switched, Changing, Frame
<1>9. Lead(Changing(a), ts, B1)
  <2>1. CASE mode \in TrimPresent
    <3>1. Lead(Changing(a), <<t>>, B1)
      BY <1>3, <1>8, LeadOne
    <3> QED
      BY <2>1, <3>1
  <2>2. CASE mode \notin TrimPresent
    <3>1. Changing(a) \subseteq B1
      BY <2>2
    <3>2. Lead(Changing(a), <<>>, B1)
      BY <1>8, <3>1, LeadNone
    <3> QED
      BY <2>2, <3>2
  <2> QED
    BY <2>1, <2>2
<1> HIDE DEF w1, w2, w3, w4, w5, w6, B1, B2, B4, B5, ts
<1>10. Lead(B1, <<w1>>, B1)
  BY <1>4, <1>8, LeadOne
<1>11. Lead(B1, <<w1, w2>>, B2)
  BY <1>4, <1>8, <1>10, LeadNext
<1>12. Lead(B1, <<w1, w2, w3>>, B2)
  BY <1>5, <1>8, <1>11, LeadNext
<1>13. Lead(B1, <<w1, w2, w3, w4>>, B4)
  BY <1>5, <1>8, <1>12, LeadNext
<1>14. Lead(B1, <<w1, w2, w3, w4, w5>>, B5)
  BY <1>6, <1>8, <1>13, LeadNext
<1>15. Lead(B1, <<w1, w2, w3, w4, w5, w6>>, Switched(a, mode, d))
  BY <1>7, <1>8, <1>14, LeadNext
<1>16. Lead(Changing(a), ts \o <<w1, w2, w3, w4, w5, w6>>, Switched(a, mode, d))
  BY <1>9, <1>15, LeadOn
<1> QED
  BY <1>1, <1>16

\* A lead from fewer, to more.
LEMMA LeadWithin ==
  ASSUME NEW A, NEW p, NEW B, Lead(A, p, B), NEW C, B \subseteq C
  PROVE  /\ Lead(A, p, C)
         /\ \A D : D \subseteq A => Lead(D, p, C)
BY DEF Lead

\* A lead from each is a lead from all.
LEMMA LeadAll ==
  ASSUME NEW A, NEW b \in A, NEW p, NEW B, \A r \in A : Lead({r}, p, B)
  PROVE  Lead(A, p, B)
BY DEF Lead

\* With nothing to write, the registers are where they had to lead.
LEMMA LeadStay ==
  ASSUME NEW r, NEW B, Lead({r}, <<>>, B)
  PROVE  r \in B
<1>1. PICK run : Run(run, r, <<>>) /\ run[Len(<<>>)] \in B
  BY DEF Lead
<1>2. Len(<<>>) = 0
  OBVIOUS
<1> QED
  BY <1>1, <1>2 DEF Run

\* The last three writes of a change of mode.
LEMMA LeadEnable ==
  ASSUME NEW a, NEW mode \in SiModes \cup {"rtc", "xtal"}, NEW d \in 0..7, NEW x
  PROVE  Lead(Switched(a, mode, d),
              <<Ccu([divEn |-> TRUE]), <<"ticks", x>>, Timings(TicksOf(mode, d))>>,
              Reached(a, mode, d))
<1> DEFINE w1 == Ccu([divEn |-> TRUE])
           w2 == <<"ticks", x>>
           w3 == Timings(TicksOf(mode, d))
           B == Switched(a, mode, d)
           E == Enabled(a, mode, d)
           C == Reached(a, mode, d)
<1>1. ASSUME NEW r \in B
      PROVE  ~r.halted /\ Suits(r) /\ After(r, w1) \in E
  <2>1. /\ r \in Changing(a) /\ r.ccu.div = d /\ Selected(mode, r.ccu, r.osc0)
        /\ OwnTrim(a.osc0) => OwnTrim(r.osc0)
    BY DEF Switched
  <2>2. r.ccu \in CcuRegs /\ ~r.halted /\ Suits(r)
    BY <2>1, ChangingOn
  <2>3. /\ Amend([divEn |-> TRUE], r.ccu) \in CcuRegs
        /\ Amend([divEn |-> TRUE], r.ccu).divEn = TRUE
        /\ Amend([divEn |-> TRUE], r.ccu).hybrid = r.ccu.hybrid
        /\ Amend([divEn |-> TRUE], r.ccu).div = r.ccu.div
    BY <2>2, AmendCcu
  <2>4. /\ After(r, w1) \in Changing(a) /\ After(r, w1).osc0 = r.osc0
        /\ After(r, w1).ccu.divEn /\ After(r, w1).ccu.hybrid = r.ccu.hybrid
        /\ After(r, w1).ccu.div = d
    BY <2>1, <2>3, ChangingOn
  <2> HIDE DEF w1
  <2> QED
    BY <2>1, <2>2, <2>4 DEF Enabled, Switched, Selected
<1>2. ASSUME NEW r \in E
      PROVE  /\ r \in Changing(a) /\ r.ccu.divEn /\ r.ccu.div = d
             /\ Selected(mode, r.ccu, r.osc0)
             /\ OwnTrim(a.osc0) => OwnTrim(r.osc0)
             /\ r \in Registers /\ r.ccu \in CcuRegs /\ r.osc0 \in OscRegs
             /\ ~r.halted /\ Suits(r)
  BY ChangingOn DEF Enabled, Switched
<1>3. ASSUME NEW r \in E
      PROVE  ~r.halted /\ Suits(r) /\ After(r, w2) \in E
  <2>1. r \in Registers
    BY <1>2
  <2>2. After(r, w2) =
          [ccu |-> r.ccu, osc0 |-> r.osc0, tmg |-> r.tmg, divs |-> r.divs,
           lowered |-> r.lowered, gps0 |-> r.gps0, halted |-> FALSE,
           rtcWoke |-> r.rtcWoke]
    BY <2>1, AfterIs
  <2>3. After(r, w2) = r
    BY <1>2, <2>2 DEF Registers
  <2> QED
    BY <1>2, <2>3
<1>4. ASSUME NEW r \in E
      PROVE  ~r.halted /\ Suits(r) /\ After(r, w3) \in C
  <2>1. PICK t \in {"slow", "one", "two"} :
          w3 = <<"tmg", t>> /\ SysFreq(r.ccu, r.osc0) <= FlashFreq(t)
    BY <1>2, TimingsFit
  <2> HIDE DEF w3
  <2>2. After(r, w3) =
          [ccu |-> r.ccu, osc0 |-> r.osc0, tmg |-> t, divs |-> r.divs,
           lowered |-> r.lowered, gps0 |-> r.gps0, halted |-> FALSE,
           rtcWoke |-> r.rtcWoke]
    BY <1>2, <2>1, AfterIs
  <2> DEFINE q == After(r, w3)
  <2>3. /\ q \in Registers /\ q.ccu = r.ccu /\ q.osc0 = r.osc0 /\ q.tmg = t
        /\ q.divs = r.divs /\ q.lowered = r.lowered /\ q.gps0 = r.gps0 /\ ~q.halted
    BY <1>2, <2>2 DEF Registers
  <2> HIDE DEF q
  <2>4. q \in Frame(a)
    BY <1>2, <2>3 DEF Changing, Frame
  <2>5. Suits(q)
    BY <2>1, <2>3 DEF Suits
  <2>6. q \in C
    BY <1>2, <2>3, <2>4, <2>5 DEF Reached
  <2> QED
    BY <1>2, <2>6 DEF q
<1>5. B \subseteq Registers /\ E \subseteq Registers /\ C \subseteq Registers
  BY DEF Switched, Enabled, Reached, Changing, Frame
<1> HIDE DEF w1, w2, w3, B, C, E
<1>6. Lead(B, <<w1>>, E)
  BY <1>1, <1>5, LeadOne
<1>7. Lead(B, <<w1, w2>>, E)
  BY <1>3, <1>5, <1>6, LeadNext
<1>8. Lead(B, <<w1, w2, w3>>, C)
  BY <1>4, <1>5, <1>7, LeadNext
<1> QED
  BY <1>8 DEF w1, w2, w3, B, C

\* The flash can be read all through a change of the mode, and after it.
LEMMA SetModeLeads ==
  ASSUME NEW a \in Registers, ~a.halted, Suits(a),
         NEW mode \in SiModes \cup {"rtc", "xtal"}, NEW d \in 0..7
  PROVE  Lead({a}, SetModeWrites(mode, d), Reached(a, mode, d))
<1> DEFINE f == FirstTimings(mode, d)
           A == {r \in Changing(a) : r.osc0 = a.osc0}
           x == IF TicksOf(mode, d) > 0 THEN TicksOf(mode, d) ELSE 1
           last == <<Ccu([divEn |-> TRUE]), <<"ticks", x>>, Timings(TicksOf(mode, d))>>
<1>1. f = <<"tmg", "two">>
  BY DEF FirstTimings, Timings
<1>2. Lead({a}, <<f>>, A)
  <2>1. After(a, f) =
          [ccu |-> a.ccu, osc0 |-> a.osc0, tmg |-> "two", divs |-> a.divs,
           lowered |-> a.lowered, gps0 |-> a.gps0, halted |-> FALSE,
           rtcWoke |-> a.rtcWoke]
    BY <1>1, AfterIs
  <2>2. After(a, f) \in A
    BY <2>1 DEF Changing, Frame, Registers
  <2>3. {a} \subseteq Registers /\ A \subseteq Registers
    BY DEF Changing, Frame
  <2> HIDE DEF f, A
  <2> QED
    BY <2>2, <2>3, LeadOne
<1>3. Lead(A, Switch(mode, d), Switched(a, mode, d))
  <2>1. A \subseteq Changing(a)
    OBVIOUS
  <2>2. CASE mode = "rtc"
    BY <2>2, SwitchToRtc
  <2>3. CASE mode = "xtal"
    <3>1. Lead(Changing(a), Switch("xtal", d), Switched(a, "xtal", d))
      BY SwitchToCrystal
    <3> HIDE DEF A
    <3> QED
      BY <2>1, <2>3, <3>1, LeadWithin
  <2>4. CASE mode \in SiModes
    <3>1. Lead(Changing(a), Switch(mode, d), Switched(a, mode, d))
      BY <2>4, SwitchToSilicon
    <3> HIDE DEF A
    <3> QED
      BY <2>1, <3>1, LeadWithin
  <2> QED
    BY <2>2, <2>3, <2>4
<1>4. Lead(Switched(a, mode, d), last, Reached(a, mode, d))
  BY LeadEnable
<1>5. SetModeWrites(mode, d) = (<<f>> \o Switch(mode, d)) \o last
  BY DEF SetModeWrites
<1> HIDE DEF f, A, last
<1>6. Lead({a}, <<f>> \o Switch(mode, d), Switched(a, mode, d))
  BY <1>2, <1>3, LeadOn
<1>7. Lead({a}, (<<f>> \o Switch(mode, d)) \o last, Reached(a, mode, d))
  BY <1>4, <1>6, LeadOn
<1> QED
  BY <1>5, <1>7

\* Whether the flash can be read depends on the clock and its wait states only.
LEMMA SuitsAlike ==
  ASSUME NEW r, NEW q, Suits(r), q.ccu = r.ccu, q.tmg = r.tmg,
         q.osc0.xtalUsed = r.osc0.xtalUsed, q.osc0.freq = r.osc0.freq,
         q.osc0.pd = r.osc0.pd \/ q.osc0.pd, q.rtcWoke = r.rtcWoke
  PROVE  Suits(q)
BY DEF Suits, SysFreq, OscFreq

\* What is known of registers that may stay.
LEMMA LastingIs ==
  ASSUME NEW r \in Lasting
  PROVE  /\ r \in Registers /\ r.ccu.divEn /\ Suits(r)
         /\ r.ccu \in CcuRegs /\ r.osc0 \in OscRegs
         /\ \A d \in Dividers \ {"periph"} : r.divs[d].inForce = r.divs[d].div
         /\ r.gps0 = "none" =>
              /\ r.lowered \subseteq {"wake_mask"}
              /\ ~r.osc0.pd /\ OwnTrim(r.osc0) /\ ~r.halted
              /\ SysFreq(r.ccu, r.osc0) <= FlashFreq(r.tmg)
         /\ r.gps0 = "sleep" => r.lowered \subseteq SleepLowers
         /\ r.gps0 # "none" => SlowClock(r) \/ RtcSleep(r)
BY DEF Lasting, Registers, Suits

\* A change of mode leads to registers that may stay.
LEMMA SetModeLasts ==
  ASSUME NEW a \in Lasting, a.gps0 = "none",
         NEW mode \in SiModes \cup {"rtc", "xtal"}, NEW d \in 0..7
  PROVE  Lead({a}, SetModeWrites(mode, d), Lasting)
<1>1. /\ a \in Registers /\ ~a.halted /\ Suits(a) /\ a.lowered \subseteq {"wake_mask"}
      /\ ~a.osc0.pd
      /\ OwnTrim(a.osc0)
      /\ \A dv \in Dividers \ {"periph"} : a.divs[dv].inForce = a.divs[dv].div
  BY LastingIs
<1>2. Reached(a, mode, d) \subseteq Lasting
  BY <1>1 DEF Reached, Frame, Lasting
<1>3. Lead({a}, SetModeWrites(mode, d), Reached(a, mode, d))
  BY <1>1, SetModeLeads
<1> QED
  BY <1>2, <1>3, LeadWithin

\* A write of a divider: a 0 -> 1 of its enable bit brings the value into force.
LEMMA AfterDiv ==
  ASSUME NEW r \in Registers, NEW d \in Dividers, NEW v \in 0..1, NEW w,
         w[1] = "div", w[2] = d, w[3].div = v, w[3].en \in BOOLEAN
  PROVE  \E q \in Registers :
           /\ q = After(r, w) /\ q.ccu = r.ccu /\ q.osc0 = r.osc0 /\ q.tmg = r.tmg
           /\ q.lowered = r.lowered /\ q.gps0 = r.gps0 /\ ~q.halted
           /\ q.rtcWoke = r.rtcWoke
           /\ \A x \in Dividers \ {d} : q.divs[x] = r.divs[x]
           /\ q.divs[d].div = v /\ q.divs[d].en = w[3].en
           /\ w[3].en /\ ~r.divs[d].en => q.divs[d].inForce = v
<1> DEFINE u == [div |-> v, en |-> w[3].en,
                 inForce |-> IF w[3].en /\ ~r.divs[d].en THEN v
                             ELSE r.divs[d].inForce]
           new == [r.divs EXCEPT ![d] = u]
           q == [ccu |-> r.ccu, osc0 |-> r.osc0, tmg |-> r.tmg, divs |-> new,
                 lowered |-> r.lowered, gps0 |-> r.gps0, halted |-> FALSE,
           rtcWoke |-> r.rtcWoke]
<1>1. q = After(r, w)
  BY DEF After
<1>2. /\ r.ccu \in CcuRegs /\ r.osc0 \in OscRegs /\ r.tmg \in {"slow", "one", "two"}
      /\ r.lowered \in SUBSET DeepSleepLowers /\ r.gps0 \in {"none", "sleep", "deep"}
      /\ r.divs \in [Dividers -> DivRegs] /\ r.divs[d] \in DivRegs
      /\ r.rtcWoke \in BOOLEAN
  BY DEF Registers
<1>3. /\ u \in DivRegs /\ u.div = v /\ u.en = w[3].en
      /\ (w[3].en /\ ~r.divs[d].en => u.inForce = v)
  BY <1>2 DEF DivRegs
<1> HIDE DEF u
<1>4. /\ new \in [Dividers -> DivRegs] /\ new[d] = u
      /\ \A x \in Dividers \ {d} : new[x] = r.divs[x]
  BY <1>2, <1>3
<1> HIDE DEF new
<1>5. q \in Registers
  BY <1>2, <1>4 DEF Registers
<1>6. /\ q.ccu = r.ccu /\ q.osc0 = r.osc0 /\ q.tmg = r.tmg /\ q.divs = new
      /\ q.lowered = r.lowered /\ q.gps0 = r.gps0 /\ ~q.halted
      /\ q.rtcWoke = r.rtcWoke
  OBVIOUS
<1> HIDE DEF q
<1> QED
  BY <1>1, <1>3, <1>4, <1>5, <1>6

\* A divider whose mask clears its enable bit is in force after the two writes.
LEMMA SetDividerLasts ==
  ASSUME NEW a \in Lasting, a.gps0 = "none", NEW d \in Dividers, NEW v \in 0..1
  PROVE  Lead({a}, SetDividerWrites(d, v), Lasting)
<1> DEFINE e == EnableKeeps(d) /\ divs[d].en
           w1 == <<"div", d, [div |-> v, en |-> e]>>
           w2 == <<"div", d, [div |-> v, en |-> TRUE]>>
<1>1. SetDividerWrites(d, v) = <<w1, w2>>
  BY DEF SetDividerWrites
<1>2. /\ a \in Registers /\ ~a.halted /\ Suits(a) /\ a.lowered \subseteq {"wake_mask"}
      /\ ~a.osc0.pd
      /\ OwnTrim(a.osc0) /\ a.ccu.divEn
      /\ \A dv \in Dividers \ {"periph"} : a.divs[dv].inForce = a.divs[dv].div
  BY LastingIs
<1>3. e \in BOOLEAN /\ (d # "periph" => e = FALSE)
  BY DEF EnableKeeps
<1> HIDE DEF e
<1>4. w1[1] = "div" /\ w1[2] = d /\ w1[3].div = v /\ w1[3].en = e
  OBVIOUS
<1>5. /\ w2[1] = "div" /\ w2[2] = d /\ w2[3].div = v /\ w2[3].en = TRUE
      /\ w2[3].en \in BOOLEAN
  OBVIOUS
<1> HIDE DEF w1, w2
<1>6. PICK q \in Registers :
        /\ q = After(a, w1) /\ q.ccu = a.ccu /\ q.osc0 = a.osc0 /\ q.tmg = a.tmg
        /\ q.lowered = a.lowered /\ q.gps0 = a.gps0 /\ ~q.halted
        /\ q.rtcWoke = a.rtcWoke
        /\ \A x \in Dividers \ {d} : q.divs[x] = a.divs[x]
        /\ q.divs[d].div = v /\ q.divs[d].en = w1[3].en
  BY <1>2, <1>3, <1>4, AfterDiv
<1>7. PICK z \in Registers :
        /\ z = After(q, w2) /\ z.ccu = q.ccu /\ z.osc0 = q.osc0 /\ z.tmg = q.tmg
        /\ z.lowered = q.lowered /\ z.gps0 = q.gps0 /\ ~z.halted
        /\ z.rtcWoke = q.rtcWoke
        /\ \A x \in Dividers \ {d} : z.divs[x] = q.divs[x]
        /\ z.divs[d].div = v
        /\ w2[3].en /\ ~q.divs[d].en => z.divs[d].inForce = v
  BY <1>5, AfterDiv
<1>8. Suits(q)
  BY <1>2, <1>6, SuitsAlike
<1>9. Suits(z)
  BY <1>7, <1>8, SuitsAlike
<1>10. ASSUME NEW x \in Dividers \ {"periph"}
       PROVE  z.divs[x].inForce = z.divs[x].div
  <2>1. CASE x = d
    <3>1. ~q.divs[d].en
      BY <1>3, <1>4, <1>6, <2>1
    <3> QED
      BY <1>5, <1>7, <2>1, <3>1
  <2>2. CASE x # d
    <3>1. z.divs[x] = a.divs[x]
      BY <1>6, <1>7, <2>2
    <3> QED
      BY <1>2, <3>1
  <2> QED
    BY <2>1, <2>2
<1>11. z.gps0 = "none" /\ z.lowered \subseteq {"wake_mask"} /\ ~z.osc0.pd /\ OwnTrim(z.osc0) /\ z.ccu.divEn
  BY <1>2, <1>6, <1>7
<1>12. z \in Lasting
  BY <1>7, <1>9, <1>10, <1>11 DEF Lasting
<1>13. {a} \subseteq Registers /\ {q} \subseteq Registers /\ Lasting \subseteq Registers
  BY <1>2 DEF Lasting
<1>14. Lead({a}, <<w1>>, {q})
  BY <1>2, <1>6, <1>13, LeadOne
<1>15. Lead({a}, <<w1, w2>>, Lasting)
  BY <1>6, <1>7, <1>8, <1>12, <1>13, <1>14, LeadNext
<1> QED
  BY <1>1, <1>15

-----------------------------------------------------------------------------

\* On the way from a into a low power state: with the clock slowed, with the
\* oscillator to be powered down, and the clock switched to that of the RTC, or
\* with none of these yet.
Entered(a, g, L, clock) ==
  {r \in Registers : /\ r.divs = a.divs /\ r.gps0 = g /\ r.lowered \subseteq L
                     /\ ~r.halted /\ Suits(r) /\ r.ccu.divEn
                     /\ clock = "slow" => SlowClock(r)
                     /\ clock \in {"down", "rtc"} => r.osc0.pd
                     /\ clock = "rtc" => ~r.ccu.hybrid}

\* Lowering registers on the way into a low power state.
LEMMA LowerEntered ==
  ASSUME NEW a, NEW g, NEW L, NEW clock, NEW rs \in Seq(DeepSleepLowers),
         Elements(rs) \subseteq L
  PROVE  Lead(Entered(a, g, L, clock), Each("lower", rs), Entered(a, g, L, clock))
<1> DEFINE A == Entered(a, g, L, clock)
<1>1. Elements(rs) \subseteq DeepSleepLowers
  BY DEF Elements
<1>2. ASSUME NEW r \in A
      PROVE  /\ ~r.halted /\ Suits(r)
             /\ WithLowered(r, r.lowered \cup Elements(rs)) \in A
  <2> DEFINE q == WithLowered(r, r.lowered \cup Elements(rs))
  <2>1. /\ r \in Registers /\ r.divs = a.divs /\ r.gps0 = g /\ r.lowered \subseteq L
        /\ ~r.halted /\ Suits(r) /\ r.ccu.divEn /\ (clock = "slow" => SlowClock(r))
        /\ (clock \in {"down", "rtc"} => r.osc0.pd) /\ (clock = "rtc" => ~r.ccu.hybrid)
    BY DEF Entered
  <2>2. /\ q \in Registers /\ q.ccu = r.ccu /\ q.osc0 = r.osc0 /\ q.tmg = r.tmg
        /\ q.divs = r.divs /\ q.gps0 = r.gps0 /\ ~q.halted /\ q.rtcWoke = r.rtcWoke
        /\ q.lowered = r.lowered \cup Elements(rs)
    BY <1>1, <2>1 DEF WithLowered, Registers
  <2> HIDE DEF q
  <2>3. Suits(q) /\ (clock = "slow" => SlowClock(q))
    BY <2>1, <2>2, SuitsAlike DEF SlowClock
  <2>4. q \in A
    BY <2>1, <2>2, <2>3 DEF Entered
  <2> QED
    BY <2>1, <2>4 DEF q
<1>3. A \subseteq Registers
  BY DEF Entered
<1> HIDE DEF A
<1>4. Lead(A, Each("lower", rs), A)
  BY <1>2, <1>3, LeadLower
<1> QED
  BY <1>4 DEF A

\* The first write of a low power state.
LEMMA EnterLeads ==
  ASSUME NEW a \in Lasting, a.gps0 = "none", NEW g \in {"sleep", "deep"}, NEW L,
         "wake_mask" \in L
  PROVE  /\ Lead({a}, <<<<"gps0", g>>>>, Entered(a, g, L, "any"))
         /\ \E b : b \in Entered(a, g, L, "any")
<1> DEFINE w == <<"gps0", g>>
           q == After(a, w)
<1>1. /\ a \in Registers /\ ~a.halted /\ Suits(a) /\ a.ccu.divEn
      /\ a.lowered \subseteq {"wake_mask"}
      /\ SysFreq(a.ccu, a.osc0) <= FlashFreq(a.tmg)
  BY LastingIs
<1>2. q = [ccu |-> a.ccu, osc0 |-> a.osc0, tmg |-> a.tmg, divs |-> a.divs,
           lowered |-> a.lowered, gps0 |-> g, halted |-> FALSE,
           rtcWoke |-> FALSE]
  BY <1>1, AfterIs
<1> HIDE DEF q
<1>3. /\ q \in Registers /\ q.ccu = a.ccu /\ q.osc0 = a.osc0 /\ q.tmg = a.tmg
      /\ q.divs = a.divs /\ q.gps0 = g /\ ~q.halted /\ q.lowered = a.lowered
  <2>1. /\ a.ccu \in CcuRegs /\ a.osc0 \in OscRegs /\ a.tmg \in {"slow", "one", "two"}
        /\ a.divs \in [Dividers -> DivRegs] /\ a.lowered \in SUBSET DeepSleepLowers
        /\ g \in {"none", "sleep", "deep"}
    BY <1>1 DEF Registers
  <2> QED
    BY <1>2, <2>1 DEF Registers
<1>4. Suits(q)
  BY <1>1, <1>3 DEF Suits
<1>5. q \in Entered(a, g, L, "any")
  BY <1>1, <1>3, <1>4 DEF Entered
<1>6. {a} \subseteq Registers /\ Entered(a, g, L, "any") \subseteq Registers
  BY <1>1 DEF Entered
<1> HIDE DEF w
<1>7. Lead({a}, <<w>>, Entered(a, g, L, "any"))
  BY <1>1, <1>5, <1>6, LeadOne DEF q
<1> QED
  BY <1>5, <1>7 DEF w

\* A change of mode on the way into a low power state.
LEMMA SetModeEntered ==
  ASSUME NEW a, NEW g, NEW L, NEW before, NEW b \in Entered(a, g, L, before),
         NEW mode, NEW d \in 0..7, NEW clock,
         \/ mode = "si4" /\ clock = "slow"
         \/ mode = "rtc" /\ clock = "rtc" /\ before = "down"
  PROVE  Lead(Entered(a, g, L, before), SetModeWrites(mode, d), Entered(a, g, L, clock))
<1>1. mode \in SiModes \cup {"rtc", "xtal"}
  BY DEF SiModes
<1>2. ASSUME NEW r \in Entered(a, g, L, before)
      PROVE  Lead({r}, SetModeWrites(mode, d), Entered(a, g, L, clock))
  <2>1. /\ r \in Registers /\ r.divs = a.divs /\ r.gps0 = g /\ r.lowered \subseteq L
        /\ ~r.halted /\ Suits(r) /\ r.ccu.divEn /\ (before = "down" => r.osc0.pd)
    BY DEF Entered
  <2>2. Lead({r}, SetModeWrites(mode, d), Reached(r, mode, d))
    BY <1>1, <2>1, SetModeLeads
  <2>3. Reached(r, mode, d) \subseteq Entered(a, g, L, clock)
    <3>1. ASSUME NEW q \in Reached(r, mode, d)
          PROVE  q \in Entered(a, g, L, clock)
      <4>1. /\ q \in Registers /\ q.divs = a.divs /\ q.gps0 = g
            /\ q.lowered \subseteq L /\ ~q.halted /\ Suits(q) /\ q.ccu.divEn
            /\ Selected(mode, q.ccu, q.osc0) /\ q.osc0.pd = r.osc0.pd
        BY <2>1 DEF Reached, Frame
      <4>2. clock = "slow" => SlowClock(q)
        BY SMT, <4>1 DEF Selected, SlowClock, SiModes
      <4>3. /\ clock \in {"down", "rtc"} => q.osc0.pd
            /\ clock = "rtc" => ~q.ccu.hybrid
        BY <2>1, <4>1 DEF Selected
      <4> QED
        BY <4>1, <4>2, <4>3 DEF Entered
    <3> QED
      BY <3>1
  <2> QED
    BY <2>2, <2>3, LeadWithin
<1> QED
  BY <1>2, LeadAll

\* The change to the slowest oscillator.
LEMMA SlowEntered ==
  ASSUME NEW a, NEW g, NEW L, NEW b \in Entered(a, g, L, "any"), NEW d \in 0..7
  PROVE  Lead(Entered(a, g, L, "any"), SetModeWrites("si4", d), Entered(a, g, L, "slow"))
<1> DEFINE mode == "si4"
           before == "any"
           clock == "slow"
<1>1. mode = "si4" /\ before = "any" /\ clock = "slow"
  OBVIOUS
<1> HIDE DEF mode, before, clock
<1>2. Lead(Entered(a, g, L, before), SetModeWrites(mode, d), Entered(a, g, L, clock))
  BY <1>1, SetModeEntered
<1> QED
  BY <1>2 DEF mode, before, clock

\* The change to the RTC oscillator.
LEMMA RtcEntered ==
  ASSUME NEW a, NEW g, NEW L, NEW b \in Entered(a, g, L, "down"), NEW d \in 0..7
  PROVE  Lead(Entered(a, g, L, "down"), SetModeWrites("rtc", d), Entered(a, g, L, "rtc"))
<1> DEFINE mode == "rtc"
           before == "down"
           clock == "rtc"
<1>1. mode = "rtc" /\ before = "down" /\ clock = "rtc"
  OBVIOUS
<1> HIDE DEF mode, before, clock
<1>2. Lead(Entered(a, g, L, before), SetModeWrites(mode, d), Entered(a, g, L, clock))
  BY <1>1, SetModeEntered
<1> QED
  BY <1>2 DEF mode, before, clock

\* In HLT with the slow clock, which the hardware keeps when it wakes, or with that
\* of the RTC.
LEMMA HaltLasts ==
  ASSUME NEW a \in Lasting, NEW clock \in {"slow", "rtc"},
         NEW g, NEW L,
         \/ g = "sleep" /\ L = SleepLowers
         \/ g = "deep" /\ L = DeepSleepLowers
  PROVE  Lead(Entered(a, g, L, clock), <<<<"halt", TRUE>>>>, Lasting)
<1> DEFINE w == <<"halt", TRUE>>
<1>1. ASSUME NEW r \in Entered(a, g, L, clock)
      PROVE  ~r.halted /\ Suits(r) /\ After(r, w) \in Lasting
  <2> DEFINE q == After(r, w)
  <2>1. /\ r \in Registers /\ r.divs = a.divs /\ r.gps0 = g /\ r.lowered \subseteq L
        /\ ~r.halted /\ Suits(r) /\ r.ccu.divEn /\ (clock = "slow" => SlowClock(r))
        /\ (clock = "rtc" => r.osc0.pd /\ ~r.ccu.hybrid)
    BY DEF Entered
  <2>2. q = [ccu |-> r.ccu, osc0 |-> r.osc0, tmg |-> r.tmg, divs |-> r.divs,
             lowered |-> r.lowered, gps0 |-> r.gps0, halted |-> TRUE,
           rtcWoke |-> r.rtcWoke]
    BY <2>1, AfterIs
  <2> HIDE DEF q
  <2>3. /\ q \in Registers /\ q.ccu = r.ccu /\ q.osc0 = r.osc0 /\ q.tmg = r.tmg
        /\ q.divs = r.divs /\ q.gps0 = r.gps0 /\ q.lowered = r.lowered
        /\ q.rtcWoke = r.rtcWoke /\ q.halted
    BY <2>1, <2>2 DEF Registers
  <2>4. Suits(q) /\ (SlowClock(q) \/ RtcSleep(q))
    BY <2>1, <2>3, SuitsAlike DEF SlowClock, RtcSleep
  <2>5. \A d \in Dividers \ {"periph"} : q.divs[d].inForce = q.divs[d].div
    BY <2>1, <2>3, LastingIs
  <2>6. q \in Lasting
    BY <2>1, <2>3, <2>4, <2>5 DEF Lasting
  <2> QED
    BY <2>1, <2>6 DEF q
<1>2. Entered(a, g, L, clock) \subseteq Registers /\ Lasting \subseteq Registers
  BY DEF Entered, Lasting
<1> HIDE DEF w
<1>3. Lead(Entered(a, g, L, clock), <<w>>, Lasting)
  BY <1>1, <1>2, LeadOne
<1> QED
  BY <1>3 DEF w

\* The power-down bit of the oscillator.
LEMMA OscEntered ==
  ASSUME NEW a, NEW g, NEW L, NEW clock, NEW after,
         \/ clock = "slow" /\ after = "slow"
         \/ clock = "any" /\ after = "down"
  PROVE  Lead(Entered(a, g, L, clock), <<Osc0([pd |-> TRUE])>>, Entered(a, g, L, after))
<1> DEFINE w == Osc0([pd |-> TRUE])
           A == Entered(a, g, L, clock)
           B == Entered(a, g, L, after)
<1>1. ASSUME NEW r \in A
      PROVE  ~r.halted /\ Suits(r) /\ After(r, w) \in B
  <2> DEFINE o == Amend([pd |-> TRUE], r.osc0)
             q == [ccu |-> r.ccu, osc0 |-> o, tmg |-> r.tmg, divs |-> r.divs,
                   lowered |-> r.lowered, gps0 |-> r.gps0, halted |-> FALSE,
           rtcWoke |-> r.rtcWoke]
  <2>1. /\ r \in Registers /\ r.divs = a.divs /\ r.gps0 = g /\ r.lowered \subseteq L
        /\ ~r.halted /\ Suits(r) /\ r.ccu.divEn /\ (clock = "slow" => SlowClock(r))
    BY DEF Entered
  <2>2. /\ r.ccu \in CcuRegs /\ r.osc0 \in OscRegs /\ r.tmg \in {"slow", "one", "two"}
        /\ r.lowered \in SUBSET DeepSleepLowers /\ r.gps0 \in {"none", "sleep", "deep"}
        /\ r.divs \in [Dividers -> DivRegs] /\ r.rtcWoke \in BOOLEAN
    BY <2>1 DEF Registers
  <2>3. o \in OscRegs /\ o.xtalUsed = r.osc0.xtalUsed /\ o.freq = r.osc0.freq /\ o.pd
    BY <2>2, AmendOsc
  <2>4. After(r, w) = q
    BY <2>1, AfterIs
  <2> HIDE DEF o, w
  <2>5. q \in Registers
    BY <2>2, <2>3 DEF Registers
  <2>6. /\ q.ccu = r.ccu /\ q.osc0 = o /\ q.tmg = r.tmg /\ q.divs = r.divs
        /\ q.gps0 = r.gps0 /\ ~q.halted /\ q.lowered = r.lowered
        /\ q.rtcWoke = r.rtcWoke
    OBVIOUS
  <2> HIDE DEF q
  <2>7. Suits(q)
    BY <2>1, <2>3, <2>6, SuitsAlike
  <2>8. after = "slow" => SlowClock(q)
    BY <2>1, <2>3, <2>6 DEF SlowClock
  <2>9. q \in B
    BY <2>1, <2>3, <2>5, <2>6, <2>7, <2>8 DEF Entered
  <2> QED
    BY <2>1, <2>4, <2>9
<1>2. A \subseteq Registers /\ B \subseteq Registers
  BY DEF Entered
<1> HIDE DEF w, A, B
<1>3. Lead(A, <<w>>, B)
  BY <1>1, <1>2, LeadOne
<1> QED
  BY <1>3 DEF w, A, B

\* The elements of short lists.
LEMMA ElementsAre ==
  ASSUME NEW q
  PROVE  /\ Len(q) = 1 => Elements(q) = {q[1]}
         /\ Len(q) = 3 => Elements(q) = {q[1], q[2], q[3]}
         /\ Len(q) = 4 => Elements(q) = {q[1], q[2], q[3], q[4]}
         /\ Len(q) = 5 => Elements(q) = {q[1], q[2], q[3], q[4], q[5]}
         /\ Len(q) = 6 => Elements(q) = {q[1], q[2], q[3], q[4], q[5], q[6]}
         /\ Len(q) = 8 => Elements(q) = {q[1], q[2], q[3], q[4], q[5], q[6], q[7], q[8]}
<1>1. Len(q) = 1 => Elements(q) = {q[1]}
  BY DEF Elements
<1>2. Len(q) = 3 => Elements(q) = {q[1], q[2], q[3]}
  BY DEF Elements
<1>3. Len(q) = 4 => Elements(q) = {q[1], q[2], q[3], q[4]}
  BY DEF Elements
<1>4. Len(q) = 5 => Elements(q) = {q[1], q[2], q[3], q[4], q[5]}
  BY DEF Elements
<1>5. Len(q) = 6 => Elements(q) = {q[1], q[2], q[3], q[4], q[5], q[6]}
  BY DEF Elements
<1>6. Len(q) = 8 => Elements(q) = {q[1], q[2], q[3], q[4], q[5], q[6], q[7], q[8]}
  BY DEF Elements
<1> QED
  BY <1>1, <1>2, <1>3, <1>4, <1>5, <1>6

\* The registers a low power state takes.
LEMMA Lowered ==
  /\ SleepLowers \subseteq DeepSleepLowers
  /\ "wake_mask" \in DeepSleepLowers /\ "adc_op_mode" \in DeepSleepLowers
  /\ "cmp_pwr" \in DeepSleepLowers /\ "periph_gate" \in DeepSleepLowers
  /\ "ext_clock" \in DeepSleepLowers /\ "pmux_slew" \in DeepSleepLowers
  /\ "osc1" \in DeepSleepLowers /\ "lp_clk" \in DeepSleepLowers
  /\ "gpio_db" \in DeepSleepLowers /\ "osc0_1v2" \in DeepSleepLowers
  /\ "flash_lve" \in DeepSleepLowers /\ "aon_vr" \in DeepSleepLowers
  /\ "regulator" \in DeepSleepLowers
BY DEF SleepLowers, DeepSleepLowers

\* qm_power_soc_sleep leads to HLT with the slow clock.
LEMMA SleepLasts ==
  ASSUME NEW a \in Lasting, a.gps0 = "none"
  PROVE  Lead({a}, SleepWrites, Lasting)
<1> DEFINE p1 == <<<<"gps0", "sleep">>>>
           p2 == Each("lower", <<"adc_op_mode", "cmp_pwr", "lp_clk", "wake_mask",
                                 "lp_clk", "periph_gate">>)
           p3 == SetModeWrites("si4", 3)
           p4 == Each("lower", <<"regulator">>)
           p5 == <<<<"halt", TRUE>>>>
           E == Entered(a, "sleep", SleepLowers, "any")
           S == Entered(a, "sleep", SleepLowers, "slow")
<1>1. SleepWrites = (((p1 \o p2) \o p3) \o p4) \o p5
  BY DEF SleepWrites
<1>2. Lead({a}, p1, E) /\ \E b : b \in E
  <2>1. "wake_mask" \in SleepLowers
    BY DEF SleepLowers
  <2> QED
    BY <2>1, EnterLeads
<1>3. Lead(E, p2, E)
  <2> DEFINE rs == <<"adc_op_mode", "cmp_pwr", "lp_clk", "wake_mask", "lp_clk",
                     "periph_gate">>
  <2>1. /\ rs \in Seq(DeepSleepLowers) /\ Len(rs) = 6
        /\ rs[1] = "adc_op_mode" /\ rs[2] = "cmp_pwr" /\ rs[3] = "lp_clk"
        /\ rs[4] = "wake_mask" /\ rs[5] = "lp_clk" /\ rs[6] = "periph_gate"
    BY Lowered
  <2>2. Elements(rs) \subseteq SleepLowers
    BY <2>1, ElementsAre DEF SleepLowers
  <2> HIDE DEF rs
  <2>3. Lead(E, Each("lower", rs), E)
    BY <2>1, <2>2, LowerEntered
  <2> QED
    BY <2>3 DEF rs
<1>4. Lead(E, p3, S)
  <2>1. PICK b : b \in E
    BY <1>2
  <2> QED
    BY <2>1, SlowEntered
<1>5. Lead(S, p4, S)
  <2> DEFINE rs == <<"regulator">>
  <2>1. /\ rs \in Seq(DeepSleepLowers) /\ Len(rs) = 1
        /\ rs[1] = "regulator"
    BY Lowered
  <2>2. Elements(rs) \subseteq SleepLowers
    BY <2>1, ElementsAre DEF SleepLowers
  <2> HIDE DEF rs
  <2>3. Lead(S, Each("lower", rs), S)
    BY <2>1, <2>2, LowerEntered
  <2> QED
    BY <2>3 DEF rs
<1>6. Lead(S, p5, Lasting)
  BY HaltLasts
<1> HIDE DEF p1, p2, p3, p4, p5, E, S
<1>7. Lead({a}, p1 \o p2, E)
  BY <1>2, <1>3, LeadOn
<1>8. Lead({a}, (p1 \o p2) \o p3, S)
  BY <1>4, <1>7, LeadOn
<1>9. Lead({a}, ((p1 \o p2) \o p3) \o p4, S)
  BY <1>5, <1>8, LeadOn
<1>10. Lead({a}, (((p1 \o p2) \o p3) \o p4) \o p5, Lasting)
  BY <1>6, <1>9, LeadOn
<1> QED
  BY <1>1, <1>10

\* qm_power_soc_deep_sleep leads to HLT, with the slow clock where a GPIO wakes it,
\* with that of the RTC where the RTC does.
LEMMA DeepSleepLasts ==
  ASSUME NEW a \in Lasting, a.gps0 = "none", NEW event \in WakeEvents
  PROVE  Lead({a}, DeepSleepWrites(event), Lasting)
<1> DEFINE p1 == <<<<"gps0", "deep">>>>
           p2 == Each("lower", <<"wake_mask", "adc_op_mode", "cmp_pwr", "periph_gate",
                                 "ext_clock", "pmux_slew">>)
           p3 == IF event = "rtc" THEN <<>>
                 ELSE Each("lower", <<"osc1">>) \o SetModeWrites("si4", 7)
           p4 == Each("lower", <<"lp_clk">>)
           p5 == <<Osc0([pd |-> TRUE])>>
           p6 == Each("lower", <<"gpio_db", "osc0_1v2", "flash_lve", "aon_vr",
                                 "regulator">>)
           p7 == IF event = "rtc" THEN SetModeWrites("rtc", 0) ELSE <<>>
           p8 == <<<<"halt", TRUE>>>>
           slowed == IF event = "rtc" THEN "any" ELSE "slow"
           down == IF event = "rtc" THEN "down" ELSE "slow"
           clock == IF event = "rtc" THEN "rtc" ELSE "slow"
           E == Entered(a, "deep", DeepSleepLowers, "any")
           S == Entered(a, "deep", DeepSleepLowers, slowed)
           D == Entered(a, "deep", DeepSleepLowers, down)
           F == Entered(a, "deep", DeepSleepLowers, clock)
<1>1. DeepSleepWrites(event) = ((((((p1 \o p2) \o p3) \o p4) \o p5) \o p6) \o p7) \o p8
  BY DEF DeepSleepWrites
<1>2. Lead({a}, p1, E) /\ \E b : b \in E
  BY Lowered, EnterLeads
<1>3. PICK b : b \in E
  BY <1>2
<1>4. /\ E \subseteq Registers /\ S \subseteq Registers
      /\ D \subseteq Registers /\ F \subseteq Registers
  BY DEF Entered
<1>5. ASSUME NEW rs \in Seq(DeepSleepLowers), Elements(rs) \subseteq DeepSleepLowers
      PROVE  /\ Lead(E, Each("lower", rs), E) /\ Lead(S, Each("lower", rs), S)
             /\ Lead(D, Each("lower", rs), D)
  BY <1>5, LowerEntered
<1>6. clock \in {"slow", "rtc"}
  OBVIOUS
<1>7. Lead(E, p2, E)
  <2> DEFINE rs == <<"wake_mask", "adc_op_mode", "cmp_pwr", "periph_gate", "ext_clock",
                     "pmux_slew">>
  <2>1. /\ rs \in Seq(DeepSleepLowers) /\ Len(rs) = 6
        /\ rs[1] = "wake_mask" /\ rs[2] = "adc_op_mode" /\ rs[3] = "cmp_pwr"
        /\ rs[4] = "periph_gate" /\ rs[5] = "ext_clock"
        /\ rs[6] = "pmux_slew"
    BY Lowered
  <2>2. Elements(rs) \subseteq DeepSleepLowers
    BY <2>1, ElementsAre, Lowered
  <2> HIDE DEF rs, E, S, D, F
  <2>3. Lead(E, Each("lower", rs), E)
    BY <1>5, <2>1, <2>2
  <2> QED
    BY <2>3 DEF rs
<1>8. Lead(E, p3, S)
  <2>1. CASE event = "rtc"
    <3>1. S = E
      BY <2>1 DEF Entered
    <3> HIDE DEF E, S
    <3>2. Lead(E, <<>>, S)
      BY <1>4, <3>1, LeadNone
    <3> QED
      BY <2>1, <3>2
  <2>2. CASE event # "rtc"
    <3> DEFINE rs == <<"osc1">>
    <3>1. /\ rs \in Seq(DeepSleepLowers) /\ Len(rs) = 1
          /\ rs[1] = "osc1"
      BY Lowered
    <3>2. Elements(rs) \subseteq DeepSleepLowers
      BY <3>1, ElementsAre, Lowered
    <3>3. Lead(E, SetModeWrites("si4", 7), S)
      <4>1. Lead(E, SetModeWrites("si4", 7), Entered(a, "deep", DeepSleepLowers, "slow"))
        BY <1>3, SlowEntered
      <4> QED
        BY <2>2, <4>1
    <3> HIDE DEF rs, E, S, D, F
    <3>4. Lead(E, Each("lower", rs), E)
      BY <1>5, <3>1, <3>2
    <3>5. Lead(E, Each("lower", rs) \o SetModeWrites("si4", 7), S)
      BY <3>3, <3>4, LeadOn
    <3> QED
      BY <2>2, <3>5 DEF rs
  <2> QED
    BY <2>1, <2>2
<1>9. Lead(S, p4, S)
  <2> DEFINE rs == <<"lp_clk">>
  <2>1. /\ rs \in Seq(DeepSleepLowers) /\ Len(rs) = 1
        /\ rs[1] = "lp_clk"
    BY Lowered
  <2>2. Elements(rs) \subseteq DeepSleepLowers
    BY <2>1, ElementsAre, Lowered
  <2> HIDE DEF rs, E, S, D, F
  <2>3. Lead(S, Each("lower", rs), S)
    BY <1>5, <2>1, <2>2
  <2> QED
    BY <2>3 DEF rs
<1>10. Lead(S, p5, D)
  <2>1. \/ slowed = "slow" /\ down = "slow"
        \/ slowed = "any" /\ down = "down"
    OBVIOUS
  <2> HIDE DEF slowed, down
  <2> QED
    BY <2>1, OscEntered
<1>11. Lead(D, p6, D)
  <2> DEFINE rs == <<"gpio_db", "osc0_1v2", "flash_lve", "aon_vr", "regulator">>
  <2>1. /\ rs \in Seq(DeepSleepLowers) /\ Len(rs) = 5
        /\ rs[1] = "gpio_db" /\ rs[2] = "osc0_1v2" /\ rs[3] = "flash_lve"
        /\ rs[4] = "aon_vr" /\ rs[5] = "regulator"
    BY Lowered
  <2>2. Elements(rs) \subseteq DeepSleepLowers
    BY <2>1, ElementsAre, Lowered
  <2> HIDE DEF rs, E, S, D, F
  <2>3. Lead(D, Each("lower", rs), D)
    BY <1>5, <2>1, <2>2
  <2> QED
    BY <2>3 DEF rs
<1>12. Lead(D, p7, F)
  <2>1. CASE event = "rtc"
    <3>1. /\ D = Entered(a, "deep", DeepSleepLowers, "down")
          /\ F = Entered(a, "deep", DeepSleepLowers, "rtc")
      BY <2>1
    <3>2. PICK r : r \in D \/ D = {}
      OBVIOUS
    <3>3. CASE r \in D
      <4>1. Lead(Entered(a, "deep", DeepSleepLowers, "down"), SetModeWrites("rtc", 0),
                 Entered(a, "deep", DeepSleepLowers, "rtc"))
        BY <3>1, <3>3, RtcEntered
      <4> HIDE DEF D, F
      <4> QED
        BY <2>1, <3>1, <4>1
    <3>4. CASE D = {}
      <4>1. PICK W : SetModeWrites("rtc", 0) \in Seq(W)
        <5>1. PICK q : q \in E
          BY <1>3
        <5>2. "rtc" \in SiModes \cup {"rtc", "xtal"} /\ 0 \in 0..7
          OBVIOUS
        <5>3. q \in Registers /\ ~q.halted /\ Suits(q)
          BY <5>1 DEF Entered
        <5>4. Lead({q}, SetModeWrites("rtc", 0), Reached(q, "rtc", 0))
          BY <5>2, <5>3, SetModeLeads
        <5> QED
          BY <5>4 DEF Lead
      <4> HIDE DEF D, F
      <4>2. Lead(D, SetModeWrites("rtc", 0), F)
        BY <3>4, <4>1 DEF Lead
      <4> QED
        BY <2>1, <4>2
    <3> QED
      BY <3>2, <3>3, <3>4
  <2>2. CASE event # "rtc"
    <3>1. D = F
      BY <2>2
    <3> HIDE DEF E, S, D, F
    <3>2. Lead(D, <<>>, F)
      BY <1>4, <3>1, LeadNone
    <3> QED
      BY <2>2, <3>2
  <2> QED
    BY <2>1, <2>2
<1>13. Lead(F, p8, Lasting)
  <2> HIDE DEF clock
  <2> QED
    BY <1>6, HaltLasts
<1> HIDE DEF p1, p2, p3, p4, p5, p6, p7, p8, E, S, D, F
<1>14. Lead({a}, p1 \o p2, E)
  BY <1>2, <1>7, LeadOn
<1>15. Lead({a}, (p1 \o p2) \o p3, S)
  BY <1>8, <1>14, LeadOn
<1>16. Lead({a}, ((p1 \o p2) \o p3) \o p4, S)
  BY <1>9, <1>15, LeadOn
<1>17. Lead({a}, (((p1 \o p2) \o p3) \o p4) \o p5, D)
  BY <1>10, <1>16, LeadOn
<1>18. Lead({a}, ((((p1 \o p2) \o p3) \o p4) \o p5) \o p6, D)
  BY <1>11, <1>17, LeadOn
<1>19. Lead({a}, (((((p1 \o p2) \o p3) \o p4) \o p5) \o p6) \o p7, F)
  BY <1>12, <1>18, LeadOn
<1>20. Lead({a}, ((((((p1 \o p2) \o p3) \o p4) \o p5) \o p6) \o p7) \o p8, Lasting)
  BY <1>13, <1>19, LeadOn
<1> QED
  BY <1>1, <1>20

-----------------------------------------------------------------------------
(* The way back from a low power state.                                    *)

\* On the way back from a, with some of L still to give back.
Leaving(a, L) ==
  {r \in Registers : /\ r.divs = a.divs /\ r.gps0 = a.gps0 /\ r.lowered \subseteq L
                     /\ ~r.halted
                     /\ \/ ~r.osc0.xtalUsed /\ r.osc0.freq = "si4"
                        \/ r.rtcWoke /\ r.osc0.pd}

\* The wait states are back.
Timed(a, L, c) == {r \in Leaving(a, L) : r.tmg = c.tmg}

\* The clock and its divider are back.
Clocked(a, L, c) == {r \in Timed(a, L, c) : r.ccu = c.ccu}

\* The oscillator is back.
Restored(a, L, c) ==
  {r \in Registers : /\ r.divs = a.divs /\ r.gps0 = a.gps0 /\ r.lowered \subseteq L
                     /\ ~r.halted /\ r.tmg = c.tmg /\ r.ccu = c.ccu
                     /\ r.osc0 = c.osc0}

\* What is known of a saved context.
LEMMA SavedIs ==
  ASSUME NEW c \in Saved
  PROVE  /\ c.ccu \in CcuRegs /\ c.osc0 \in OscRegs /\ c.tmg \in {"slow", "one", "two"}
         /\ c.ccu.divEn = TRUE /\ SysFreq(c.ccu, c.osc0) <= FlashFreq(c.tmg)
         /\ ~c.osc0.pd /\ OwnTrim(c.osc0)
BY DEF Saved, CcuRegs

\* What the registers are made of.
LEMMA RegistersHave ==
  ASSUME NEW r \in Registers
  PROVE  /\ r.ccu \in CcuRegs /\ r.osc0 \in OscRegs /\ r.tmg \in {"slow", "one", "two"}
         /\ r.divs \in [Dividers -> DivRegs] /\ r.lowered \in SUBSET DeepSleepLowers
         /\ r.gps0 \in {"none", "sleep", "deep"} /\ r.halted \in BOOLEAN
         /\ r.rtcWoke \in BOOLEAN
BY DEF Registers

\* The slow clock suits the flash with whatever wait states, and whatever divider.
LEMMA LeavingSuits ==
  ASSUME NEW a, NEW L, NEW r \in Leaving(a, L)
  PROVE  /\ r \in Registers /\ ~r.halted /\ Suits(r)
         /\ r.ccu \in CcuRegs /\ r.osc0 \in OscRegs
<1>1. /\ r \in Registers /\ ~r.halted
      /\ (~r.osc0.xtalUsed /\ r.osc0.freq = "si4") \/ (r.rtcWoke /\ r.osc0.pd)
  BY DEF Leaving
<1>2. r.ccu \in CcuRegs /\ r.osc0 \in OscRegs /\ r.tmg \in {"slow", "one", "two"}
  BY <1>1, RegistersHave
<1>3. FlashFreq(r.tmg) \in {128, 512, 1024}
  BY <1>2 DEF FlashFreq
<1>4. /\ SysFreq(r.ccu, r.osc0) \in Nat
      /\ SysFreq(r.ccu, r.osc0) <= 128 \/ (r.rtcWoke /\ r.osc0.pd)
  BY <1>1, <1>2, Frequencies
<1>5. Suits(r)
  BY <1>3, <1>4 DEF Suits
<1> QED
  BY <1>1, <1>2, <1>5

\* What was saved together suits together.
LEMMA RestoredSuits ==
  ASSUME NEW a, NEW L, NEW c \in Saved, NEW r \in Restored(a, L, c)
  PROVE  r \in Registers /\ ~r.halted /\ Suits(r)
<1>1. r \in Registers /\ ~r.halted /\ r.tmg = c.tmg /\ r.ccu = c.ccu /\ r.osc0 = c.osc0
  BY DEF Restored
<1>2. SysFreq(c.ccu, c.osc0) <= FlashFreq(c.tmg)
  BY SavedIs
<1>3. Suits(r)
  BY <1>1, <1>2 DEF Suits
<1> QED
  BY <1>1, <1>3

\* Registers with others lowered.
LEMMA WithLoweredIs ==
  ASSUME NEW r \in Registers, NEW M, M \subseteq DeepSleepLowers
  PROVE  LET q == WithLowered(r, M)
         IN  /\ q \in Registers /\ q.ccu = r.ccu /\ q.osc0 = r.osc0 /\ q.tmg = r.tmg
             /\ q.divs = r.divs /\ q.gps0 = r.gps0 /\ ~q.halted /\ q.lowered = M
             /\ q.rtcWoke = r.rtcWoke
BY RegistersHave DEF WithLowered, Registers

\* Registers given back while the clock is still, or again, at rest.
LEMMA GiveBackLeaving ==
  ASSUME NEW a, NEW L, NEW c, NEW rs \in Seq(DeepSleepLowers), NEW K,
         K = L \ Elements(rs)
  PROVE  /\ Lead(Leaving(a, L), Each("giveBack", rs), Leaving(a, K))
         /\ Lead(Timed(a, L, c), Each("giveBack", rs), Timed(a, K, c))
         /\ Lead(Clocked(a, L, c), Each("giveBack", rs), Clocked(a, K, c))
<1>1. ASSUME NEW r \in Leaving(a, L)
      PROVE  LET q == WithLowered(r, r.lowered \ Elements(rs))
             IN  /\ q \in Leaving(a, K) /\ q.tmg = r.tmg /\ q.ccu = r.ccu
                 /\ ~r.halted /\ Suits(r)
  <2> DEFINE M == r.lowered \ Elements(rs)
             q == WithLowered(r, M)
  <2>1. /\ r \in Registers /\ r.divs = a.divs /\ r.gps0 = a.gps0 /\ r.lowered \subseteq L
        /\ (~r.osc0.xtalUsed /\ r.osc0.freq = "si4") \/ (r.rtcWoke /\ r.osc0.pd)
    BY DEF Leaving
  <2>2. r.lowered \in SUBSET DeepSleepLowers
    BY <2>1, RegistersHave
  <2>3. M \subseteq DeepSleepLowers /\ M \subseteq K
    BY <2>1, <2>2
  <2> HIDE DEF M
  <2>4. /\ q \in Registers /\ q.ccu = r.ccu /\ q.osc0 = r.osc0 /\ q.tmg = r.tmg
        /\ q.divs = r.divs /\ q.gps0 = r.gps0 /\ ~q.halted /\ q.lowered = M
        /\ q.rtcWoke = r.rtcWoke
    BY <2>1, <2>3, WithLoweredIs
  <2> HIDE DEF q
  <2>5. q \in Leaving(a, K)
    BY <2>1, <2>3, <2>4 DEF Leaving
  <2>6. ~r.halted /\ Suits(r)
    BY LeavingSuits
  <2>7. q \in Leaving(a, K) /\ q.tmg = r.tmg /\ q.ccu = r.ccu /\ ~r.halted /\ Suits(r)
    BY <2>4, <2>5, <2>6
  <2> QED
    BY <2>7 DEF q, M
<1>2. /\ Leaving(a, L) \subseteq Registers /\ Timed(a, L, c) \subseteq Registers
      /\ Clocked(a, L, c) \subseteq Registers
  BY DEF Leaving, Timed, Clocked
<1>3. Lead(Leaving(a, L), Each("giveBack", rs), Leaving(a, K))
  BY <1>1, <1>2, LeadGiveBack
<1>4. Lead(Timed(a, L, c), Each("giveBack", rs), Timed(a, K, c))
  <2>1. \A r \in Timed(a, L, c) :
          /\ ~r.halted /\ Suits(r)
          /\ WithLowered(r, r.lowered \ Elements(rs)) \in Timed(a, K, c)
    BY <1>1 DEF Timed
  <2> QED
    BY <1>2, <2>1, LeadGiveBack
<1>5. Lead(Clocked(a, L, c), Each("giveBack", rs), Clocked(a, K, c))
  <2>1. \A r \in Clocked(a, L, c) :
          /\ ~r.halted /\ Suits(r)
          /\ WithLowered(r, r.lowered \ Elements(rs)) \in Clocked(a, K, c)
    BY <1>1 DEF Timed, Clocked
  <2> QED
    BY <1>2, <2>1, LeadGiveBack
<1> QED
  BY <1>3, <1>4, <1>5

\* Registers given back once the clock is restored.
LEMMA GiveBackRestored ==
  ASSUME NEW a, NEW L, NEW c \in Saved, NEW rs \in Seq(DeepSleepLowers), NEW K,
         K = L \ Elements(rs)
  PROVE  Lead(Restored(a, L, c), Each("giveBack", rs), Restored(a, K, c))
<1>1. ASSUME NEW r \in Restored(a, L, c)
      PROVE  /\ WithLowered(r, r.lowered \ Elements(rs)) \in Restored(a, K, c)
             /\ ~r.halted /\ Suits(r)
  <2> DEFINE M == r.lowered \ Elements(rs)
             q == WithLowered(r, M)
  <2>1. /\ r \in Registers /\ r.divs = a.divs /\ r.gps0 = a.gps0 /\ r.lowered \subseteq L
        /\ r.tmg = c.tmg /\ r.ccu = c.ccu /\ r.osc0 = c.osc0
    BY DEF Restored
  <2>2. r.lowered \in SUBSET DeepSleepLowers
    BY <2>1, RegistersHave
  <2>3. M \subseteq DeepSleepLowers /\ M \subseteq K
    BY <2>1, <2>2
  <2> HIDE DEF M
  <2>4. /\ q \in Registers /\ q.ccu = r.ccu /\ q.osc0 = r.osc0 /\ q.tmg = r.tmg
        /\ q.divs = r.divs /\ q.gps0 = r.gps0 /\ ~q.halted /\ q.lowered = M
        /\ q.rtcWoke = r.rtcWoke
    BY <2>1, <2>3, WithLoweredIs
  <2> HIDE DEF q
  <2>5. q \in Restored(a, K, c)
    BY <2>1, <2>3, <2>4 DEF Restored
  <2>6. ~r.halted /\ Suits(r)
    BY RestoredSuits
  <2> QED
    BY <2>5, <2>6 DEF q, M
<1>2. Restored(a, L, c) \subseteq Registers
  BY DEF Restored
<1> QED
  BY <1>1, <1>2, LeadGiveBack

\* The wait states come back first, while the slow clock suits any.
LEMMA TimingsBack ==
  ASSUME NEW a, NEW L, NEW c \in Saved
  PROVE  Lead(Leaving(a, L), <<FirstOfRestore(c)>>, Timed(a, L, c))
<1> DEFINE w == FirstOfRestore(c)
<1>1. ASSUME NEW r \in Leaving(a, L)
      PROVE  ~r.halted /\ Suits(r) /\ After(r, w) \in Timed(a, L, c)
  <2> DEFINE q == [ccu |-> r.ccu, osc0 |-> r.osc0, tmg |-> c.tmg, divs |-> r.divs,
                   lowered |-> r.lowered, gps0 |-> r.gps0, halted |-> FALSE,
           rtcWoke |-> r.rtcWoke]
  <2>1. /\ r \in Registers /\ r.divs = a.divs /\ r.gps0 = a.gps0 /\ r.lowered \subseteq L
        /\ (~r.osc0.xtalUsed /\ r.osc0.freq = "si4") \/ (r.rtcWoke /\ r.osc0.pd)
    BY DEF Leaving
  <2>2. After(r, w) = q
    BY <2>1, AfterIs DEF FirstOfRestore
  <2>3. q \in Registers
    BY <2>1, SavedIs, RegistersHave DEF Registers
  <2>4. /\ q.osc0 = r.osc0 /\ q.tmg = c.tmg /\ q.divs = r.divs /\ q.gps0 = r.gps0
        /\ ~q.halted /\ q.lowered = r.lowered /\ q.rtcWoke = r.rtcWoke
    OBVIOUS
  <2> HIDE DEF q
  <2>5. q \in Timed(a, L, c)
    BY <2>1, <2>3, <2>4 DEF Timed, Leaving
  <2> QED
    BY <2>2, <2>5, LeavingSuits
<1>2. Leaving(a, L) \subseteq Registers /\ Timed(a, L, c) \subseteq Registers
  BY DEF Leaving, Timed
<1> HIDE DEF w
<1>3. Lead(Leaving(a, L), <<w>>, Timed(a, L, c))
  BY <1>1, <1>2, LeadOne
<1> QED
  BY <1>3 DEF w

\* The selected clock and its divider come back while the slow oscillator runs.
LEMMA ClockBack ==
  ASSUME NEW a, NEW L, NEW c \in Saved
  PROVE  Lead(Timed(a, L, c), RestoreSysClk(c), Clocked(a, L, c))
<1> DEFINE w1 == Ccu(c.ccu)
           w2 == Ccu([divEn |-> FALSE])
           w3 == Ccu([divEn |-> TRUE])
           A == Timed(a, L, c)
           B == {r \in A : r.ccu.hybrid = c.ccu.hybrid /\ r.ccu.div = c.ccu.div}
           C == Clocked(a, L, c)
<1>1. c.ccu \in CcuRegs /\ c.ccu.divEn = TRUE
  BY SavedIs
<1>2. ASSUME NEW r \in A, NEW n, Amend(n, r.ccu) \in CcuRegs
      PROVE  /\ After(r, Ccu(n)) \in A /\ After(r, Ccu(n)).ccu = Amend(n, r.ccu)
             /\ ~r.halted /\ Suits(r)
  <2> DEFINE d == Amend(n, r.ccu)
             q == [ccu |-> d, osc0 |-> r.osc0, tmg |-> r.tmg, divs |-> r.divs,
                   lowered |-> r.lowered, gps0 |-> r.gps0, halted |-> FALSE,
           rtcWoke |-> r.rtcWoke]
  <2>1. /\ r \in Leaving(a, L) /\ r.tmg = c.tmg
        /\ r \in Registers /\ r.divs = a.divs /\ r.gps0 = a.gps0 /\ r.lowered \subseteq L
        /\ (~r.osc0.xtalUsed /\ r.osc0.freq = "si4") \/ (r.rtcWoke /\ r.osc0.pd)
    BY DEF Timed, Leaving
  <2>2. After(r, Ccu(n)) = q
    BY <2>1, AfterIs
  <2>3. d \in CcuRegs
    BY <1>2
  <2> HIDE DEF d, A
  <2>4. q \in Registers
    <3>1. /\ r.osc0 \in OscRegs /\ r.tmg \in {"slow", "one", "two"}
          /\ r.divs \in [Dividers -> DivRegs] /\ r.lowered \in SUBSET DeepSleepLowers
          /\ r.gps0 \in {"none", "sleep", "deep"} /\ r.rtcWoke \in BOOLEAN
      BY <2>1, RegistersHave
    <3> QED
      BY <2>3, <3>1 DEF Registers
  <2>5. /\ q.osc0 = r.osc0 /\ q.tmg = r.tmg /\ q.divs = r.divs /\ q.gps0 = r.gps0
        /\ ~q.halted /\ q.lowered = r.lowered /\ q.ccu = d
        /\ q.rtcWoke = r.rtcWoke
    OBVIOUS
  <2> HIDE DEF q
  <2>6. q \in Timed(a, L, c)
    BY <2>1, <2>4, <2>5 DEF Timed, Leaving
  <2>7. ~r.halted /\ Suits(r)
    BY <2>1, LeavingSuits
  <2> QED
    BY <2>2, <2>5, <2>6, <2>7 DEF A, d
<1>3. ASSUME NEW r \in A
      PROVE  r.ccu \in CcuRegs
  BY LeavingSuits DEF Timed
<1>4. ASSUME NEW r \in A
      PROVE  ~r.halted /\ Suits(r) /\ After(r, w1) \in B
  <2>1. Amend(c.ccu, r.ccu) = c.ccu
    BY <1>1, <1>3, AmendCcu
  <2> HIDE DEF A
  <2>2. /\ After(r, Ccu(c.ccu)) \in A /\ After(r, Ccu(c.ccu)).ccu = c.ccu
        /\ ~r.halted /\ Suits(r)
    BY <1>1, <1>2, <2>1
  <2> QED
    BY <2>2
<1>5. ASSUME NEW r \in B
      PROVE  ~r.halted /\ Suits(r) /\ After(r, w2) \in B /\ After(r, w3) \in C
  <2>1. r \in A /\ r.ccu.hybrid = c.ccu.hybrid /\ r.ccu.div = c.ccu.div
    OBVIOUS
  <2>2. r.ccu \in CcuRegs
    BY <1>3, <2>1
  <2>3. /\ Amend([divEn |-> FALSE], r.ccu) \in CcuRegs
        /\ Amend([divEn |-> FALSE], r.ccu).hybrid = r.ccu.hybrid
        /\ Amend([divEn |-> FALSE], r.ccu).div = r.ccu.div
    BY <2>2, AmendCcu
  <2>4. Amend([divEn |-> TRUE], r.ccu) = c.ccu
    <3> DEFINE d == Amend([divEn |-> TRUE], r.ccu)
    <3>1. d \in CcuRegs /\ d.divEn = TRUE /\ d.hybrid = r.ccu.hybrid /\ d.div = r.ccu.div
      BY <2>2, AmendCcu
    <3> HIDE DEF d
    <3>2. d = c.ccu
      BY <1>1, <2>1, <3>1 DEF CcuRegs
    <3> QED
      BY <3>2 DEF d
  <2> HIDE DEF A
  <2>5. After(r, w2) \in A /\ After(r, w2).ccu = Amend([divEn |-> FALSE], r.ccu)
        /\ ~r.halted /\ Suits(r)
    BY <1>2, <2>1, <2>3
  <2>6. After(r, w3) \in A /\ After(r, w3).ccu = c.ccu
    BY <1>1, <1>2, <2>1, <2>4
  <2> HIDE DEF w2, w3
  <2>7. After(r, w2) \in B
    BY <2>1, <2>3, <2>5
  <2>8. After(r, w3) \in C
    BY <2>6 DEF Clocked, A
  <2> QED
    BY <2>5, <2>7, <2>8
<1>6. A \subseteq Registers /\ B \subseteq Registers /\ C \subseteq Registers
  BY DEF Timed, Clocked, Leaving
<1>7. RestoreSysClk(c) = <<w1, w2, w3>>
  BY DEF RestoreSysClk
<1> HIDE DEF w1, w2, w3, A, B, C
<1>8. Lead(A, <<w1>>, B)
  BY <1>4, <1>6, LeadOne
<1>9. Lead(A, <<w1, w2>>, B)
  BY <1>5, <1>6, <1>8, LeadNext
<1>10. Lead(A, <<w1, w2, w3>>, C)
  BY <1>5, <1>6, <1>9, LeadNext
<1> QED
  BY <1>7, <1>10 DEF A, C

\* The oscillator comes back last, with the wait states that were saved with it.
LEMMA OscBack ==
  ASSUME NEW a, NEW L, NEW c \in Saved
  PROVE  Lead(Clocked(a, L, c), <<Osc0(c.osc0)>>, Restored(a, L, c))
<1> DEFINE w == Osc0(c.osc0)
<1>1. ASSUME NEW r \in Clocked(a, L, c)
      PROVE  ~r.halted /\ Suits(r) /\ After(r, w) \in Restored(a, L, c)
  <2> DEFINE o == Amend(c.osc0, r.osc0)
             q == [ccu |-> r.ccu, osc0 |-> o, tmg |-> r.tmg, divs |-> r.divs,
                   lowered |-> r.lowered, gps0 |-> r.gps0, halted |-> FALSE,
           rtcWoke |-> r.rtcWoke]
  <2>1. /\ r \in Leaving(a, L) /\ r.tmg = c.tmg /\ r.ccu = c.ccu
        /\ r \in Registers /\ r.divs = a.divs /\ r.gps0 = a.gps0 /\ r.lowered \subseteq L
    BY DEF Clocked, Timed, Leaving
  <2>2. After(r, w) = q
    BY <2>1, AfterIs
  <2>3. o = c.osc0 /\ o \in OscRegs
    <3>1. c.osc0 \in OscRegs /\ r.osc0 \in OscRegs
      BY <2>1, SavedIs, RegistersHave
    <3> QED
      BY <3>1, AmendOsc
  <2> HIDE DEF o
  <2>4. q \in Registers
    <3>1. /\ r.ccu \in CcuRegs /\ r.tmg \in {"slow", "one", "two"}
          /\ r.divs \in [Dividers -> DivRegs] /\ r.lowered \in SUBSET DeepSleepLowers
          /\ r.gps0 \in {"none", "sleep", "deep"} /\ r.rtcWoke \in BOOLEAN
      BY <2>1, RegistersHave
    <3> QED
      BY <2>3, <3>1 DEF Registers
  <2>5. /\ q.osc0 = c.osc0 /\ q.tmg = r.tmg /\ q.divs = r.divs /\ q.gps0 = r.gps0
        /\ ~q.halted /\ q.lowered = r.lowered /\ q.ccu = r.ccu
    BY <2>3
  <2> HIDE DEF q
  <2>6. q \in Restored(a, L, c)
    BY <2>1, <2>4, <2>5 DEF Restored
  <2>7. ~r.halted /\ Suits(r)
    BY <2>1, LeavingSuits
  <2> QED
    BY <2>2, <2>6, <2>7
<1>2. Clocked(a, L, c) \subseteq Registers /\ Restored(a, L, c) \subseteq Registers
  BY DEF Clocked, Timed, Leaving, Restored
<1> HIDE DEF w
<1>3. Lead(Clocked(a, L, c), <<w>>, Restored(a, L, c))
  BY <1>1, <1>2, LeadOne
<1> QED
  BY <1>3 DEF w

\* The last write of a return.
LEMMA LeavingLasts ==
  ASSUME NEW a \in Lasting, NEW c \in Saved
  PROVE  Lead(Restored(a, {"wake_mask"}, c), <<<<"gps0", "none">>>>, Lasting)
<1> DEFINE w == <<"gps0", "none">>
<1>1. ASSUME NEW r \in Restored(a, {"wake_mask"}, c)
      PROVE  ~r.halted /\ Suits(r) /\ After(r, w) \in Lasting
  <2> DEFINE q == [ccu |-> r.ccu, osc0 |-> r.osc0, tmg |-> r.tmg, divs |-> r.divs,
                   lowered |-> r.lowered, gps0 |-> "none", halted |-> FALSE,
           rtcWoke |-> FALSE]
  <2>1. /\ r \in Registers /\ r.divs = a.divs /\ r.lowered \subseteq {"wake_mask"}
        /\ r.tmg = c.tmg /\ r.ccu = c.ccu /\ r.osc0 = c.osc0
    BY DEF Restored
  <2>2. After(r, w) = q
    BY <2>1, AfterIs
  <2>3. q \in Registers
    BY <2>1, RegistersHave DEF Registers
  <2>4. /\ q.osc0 = r.osc0 /\ q.tmg = r.tmg /\ q.divs = r.divs /\ q.gps0 = "none"
        /\ ~q.halted /\ q.lowered = r.lowered /\ q.ccu = r.ccu
    OBVIOUS
  <2> HIDE DEF q
  <2>5. ~r.halted /\ Suits(r)
    BY RestoredSuits
  <2>6. Suits(q)
    BY <2>1, <2>4, SavedIs DEF Suits
  <2>7. q.ccu.divEn /\ ~q.osc0.pd /\ OwnTrim(q.osc0)
    BY <2>1, <2>4, SavedIs
  <2>8. \A d \in Dividers \ {"periph"} : q.divs[d].inForce = q.divs[d].div
    BY <2>1, <2>4, LastingIs
  <2>9. q \in Lasting
    BY <2>1, <2>3, <2>4, <2>6, <2>7, <2>8 DEF Lasting
  <2> QED
    BY <2>2, <2>5, <2>9
<1>2. Restored(a, {"wake_mask"}, c) \subseteq Registers /\ Lasting \subseteq Registers
  BY DEF Restored, Lasting
<1> HIDE DEF w
<1>3. Lead(Restored(a, {"wake_mask"}, c), <<w>>, Lasting)
  BY <1>1, <1>2, LeadOne
<1> QED
  BY <1>3 DEF w

\* Where a return begins.
LEMMA StartBack ==
  ASSUME NEW a \in Lasting, ~a.halted, NEW L,
         \/ a.gps0 = "sleep" /\ L = SleepLowers
         \/ a.gps0 = "deep" /\ L = DeepSleepLowers
  PROVE  {a} \subseteq Leaving(a, L)
<1>1. /\ a \in Registers /\ a.lowered \subseteq L
      /\ SlowClock(a) \/ RtcSleep(a)
  BY LastingIs, RegistersHave
<1> QED
  BY <1>1 DEF Leaving, SlowClock, RtcSleep

\* qm_power_soc_sleep_restore gives back what qm_power_soc_sleep took, but for the
\* wake mask.
LEMMA SleepRestoreLasts ==
  ASSUME NEW a \in Lasting, ~a.halted, a.gps0 = "sleep", NEW c \in Saved
  PROVE  Lead({a}, SleepRestoreWrites(c), Lasting)
<1> DEFINE r1 == <<"regulator">>
           r5 == <<"periph_gate", "cmp_pwr", "adc_op_mode", "lp_clk">>
           p1 == Each("giveBack", r1)
           p2 == <<FirstOfRestore(c)>>
           p3 == RestoreSysClk(c)
           p4 == <<Osc0(c.osc0)>>
           p5 == Each("giveBack", r5)
           p6 == <<<<"gps0", "none">>>>
           L == SleepLowers
           K == L \ {"regulator"}
           M == {"wake_mask"}
<1>1. SleepRestoreWrites(c) = ((((p1 \o p2) \o p3) \o p4) \o p5) \o p6
  BY DEF SleepRestoreWrites
<1>2. r1 \in Seq(DeepSleepLowers) /\ K = L \ Elements(r1)
  <2>1. r1 \in Seq(DeepSleepLowers) /\ Len(r1) = 1 /\ r1[1] = "regulator"
    BY Lowered
  <2> HIDE DEF r1
  <2>2. Elements(r1) = {"regulator"}
    BY <2>1, ElementsAre
  <2> QED
    BY <2>1, <2>2
<1>3. r5 \in Seq(DeepSleepLowers) /\ M = K \ Elements(r5)
  <2>1. /\ r5 \in Seq(DeepSleepLowers) /\ Len(r5) = 4
        /\ r5[1] = "periph_gate" /\ r5[2] = "cmp_pwr" /\ r5[3] = "adc_op_mode"
        /\ r5[4] = "lp_clk"
    BY Lowered
  <2> HIDE DEF r5
  <2>2. Elements(r5) = {"periph_gate", "cmp_pwr", "adc_op_mode", "lp_clk"}
    BY <2>1, ElementsAre
  <2> QED
    BY <2>1, <2>2 DEF SleepLowers
<1> HIDE DEF r1, r5
<1>4. Lead({a}, p1, Leaving(a, K))
  <2>1. {a} \subseteq Leaving(a, L)
    BY StartBack
  <2> HIDE DEF K, L
  <2>2. Lead(Leaving(a, L), p1, Leaving(a, K))
    BY <1>2, GiveBackLeaving
  <2> HIDE DEF p1
  <2> QED
    BY <2>1, <2>2, LeadWithin
<1> HIDE DEF K, L
<1>5. Lead(Leaving(a, K), p2, Timed(a, K, c))
  BY TimingsBack
<1>6. Lead(Timed(a, K, c), p3, Clocked(a, K, c))
  BY ClockBack
<1>7. Lead(Clocked(a, K, c), p4, Restored(a, K, c))
  BY OscBack
<1>8. Lead(Restored(a, K, c), p5, Restored(a, M, c))
  <2> HIDE DEF M
  <2> QED
    BY <1>3, GiveBackRestored
<1>9. Lead(Restored(a, M, c), p6, Lasting)
  BY LeavingLasts
<1> HIDE DEF p1, p2, p3, p4, p5, p6, M
<1>10. Lead({a}, p1 \o p2, Timed(a, K, c))
  BY <1>4, <1>5, LeadOn
<1>11. Lead({a}, (p1 \o p2) \o p3, Clocked(a, K, c))
  BY <1>6, <1>10, LeadOn
<1>12. Lead({a}, ((p1 \o p2) \o p3) \o p4, Restored(a, K, c))
  BY <1>7, <1>11, LeadOn
<1>13. Lead({a}, (((p1 \o p2) \o p3) \o p4) \o p5, Restored(a, M, c))
  BY <1>8, <1>12, LeadOn
<1>14. Lead({a}, ((((p1 \o p2) \o p3) \o p4) \o p5) \o p6, Lasting)
  BY <1>9, <1>13, LeadOn
<1> QED
  BY <1>1, <1>14

\* qm_power_soc_deep_sleep_restore gives back all that qm_power_soc_deep_sleep took.
LEMMA DeepSleepRestoreLasts ==
  ASSUME NEW a \in Lasting, ~a.halted, a.gps0 = "deep", NEW c \in Saved
  PROVE  Lead({a}, DeepSleepRestoreWrites(c), Lasting)
<1> DEFINE r1 == <<"regulator">>
           r3 == <<"aon_vr", "osc0_1v2", "flash_lve">>
           r5 == <<"gpio_db">>
           r7 == <<"periph_gate", "osc1", "cmp_pwr", "adc_op_mode",
                   "pmux_slew", "ext_clock", "lp_clk", "wake_mask">>
           p1 == Each("giveBack", r1)
           p2 == <<FirstOfRestore(c)>>
           p3 == Each("giveBack", r3)
           p4 == RestoreSysClk(c)
           p5 == Each("giveBack", r5)
           p6 == <<Osc0(c.osc0)>>
           p7 == Each("giveBack", r7)
           p8 == <<<<"gps0", "none">>>>
           L == DeepSleepLowers
           K == L \ {"regulator"}
           J == K \ {"aon_vr", "osc0_1v2", "flash_lve"}
           I == J \ {"gpio_db"}
<1>1. DeepSleepRestoreWrites(c) =
        ((((((p1 \o p2) \o p3) \o p4) \o p5) \o p6) \o p7) \o p8
  BY DEF DeepSleepRestoreWrites
<1>2. r1 \in Seq(DeepSleepLowers) /\ K = L \ Elements(r1)
  <2>1. r1 \in Seq(DeepSleepLowers) /\ Len(r1) = 1 /\ r1[1] = "regulator"
    BY Lowered
  <2> HIDE DEF r1
  <2>2. Elements(r1) = {"regulator"}
    BY <2>1, ElementsAre
  <2> QED
    BY <2>1, <2>2
<1>3. r3 \in Seq(DeepSleepLowers) /\ J = K \ Elements(r3)
  <2>1. /\ r3 \in Seq(DeepSleepLowers) /\ Len(r3) = 3
        /\ r3[1] = "aon_vr" /\ r3[2] = "osc0_1v2" /\ r3[3] = "flash_lve"
    BY Lowered
  <2> HIDE DEF r3
  <2>2. Elements(r3) = {"aon_vr", "osc0_1v2", "flash_lve"}
    BY <2>1, ElementsAre
  <2> QED
    BY <2>1, <2>2
<1>4. r5 \in Seq(DeepSleepLowers) /\ I = J \ Elements(r5)
  <2>1. r5 \in Seq(DeepSleepLowers) /\ Len(r5) = 1 /\ r5[1] = "gpio_db"
    BY Lowered
  <2> HIDE DEF r5
  <2>2. Elements(r5) = {"gpio_db"}
    BY <2>1, ElementsAre
  <2> QED
    BY <2>1, <2>2
<1>5. r7 \in Seq(DeepSleepLowers) /\ {} = I \ Elements(r7)
  <2>1. /\ r7 \in Seq(DeepSleepLowers) /\ Len(r7) = 8
        /\ r7[1] = "periph_gate" /\ r7[2] = "osc1" /\ r7[3] = "cmp_pwr"
        /\ r7[4] = "adc_op_mode" /\ r7[5] = "pmux_slew" /\ r7[6] = "ext_clock"
        /\ r7[7] = "lp_clk" /\ r7[8] = "wake_mask"
    BY Lowered
  <2> HIDE DEF r7
  <2>2. Elements(r7) = {"periph_gate", "osc1", "cmp_pwr", "adc_op_mode",
                        "pmux_slew", "ext_clock", "lp_clk", "wake_mask"}
    BY <2>1, ElementsAre
  <2>3. I \subseteq Elements(r7)
    BY <2>2 DEF DeepSleepLowers
  <2> HIDE DEF I
  <2> QED
    BY <2>1, <2>3
<1> HIDE DEF r1, r3, r5, r7
<1>6. Lead({a}, p1, Leaving(a, K))
  <2>1. {a} \subseteq Leaving(a, L)
    BY StartBack
  <2> HIDE DEF K, L
  <2>2. Lead(Leaving(a, L), p1, Leaving(a, K))
    BY <1>2, GiveBackLeaving
  <2> HIDE DEF p1
  <2> QED
    BY <2>1, <2>2, LeadWithin
<1> HIDE DEF K, L, J, I
<1>7. Lead(Leaving(a, K), p2, Timed(a, K, c))
  BY TimingsBack
<1>8. Lead(Timed(a, K, c), p3, Timed(a, J, c))
  BY <1>3, GiveBackLeaving
<1>9. Lead(Timed(a, J, c), p4, Clocked(a, J, c))
  BY ClockBack
<1>10. Lead(Clocked(a, J, c), p5, Clocked(a, I, c))
  BY <1>4, GiveBackLeaving
<1>11. Lead(Clocked(a, I, c), p6, Restored(a, I, c))
  BY OscBack
<1>12. Lead(Restored(a, I, c), p7, Restored(a, {}, c))
  BY <1>5, GiveBackRestored
<1>13. Lead(Restored(a, {}, c), p8, Lasting)
  <2>1. Restored(a, {}, c) \subseteq Restored(a, {"wake_mask"}, c)
    BY DEF Restored
  <2>2. Lead(Restored(a, {"wake_mask"}, c), p8, Lasting)
    BY LeavingLasts
  <2> HIDE DEF p8
  <2> QED
    BY <2>1, <2>2, LeadWithin
<1> HIDE DEF p1, p2, p3, p4, p5, p6, p7, p8
<1>14. Lead({a}, p1 \o p2, Timed(a, K, c))
  BY <1>6, <1>7, LeadOn
<1>15. Lead({a}, (p1 \o p2) \o p3, Timed(a, J, c))
  BY <1>8, <1>14, LeadOn
<1>16. Lead({a}, ((p1 \o p2) \o p3) \o p4, Clocked(a, J, c))
  BY <1>9, <1>15, LeadOn
<1>17. Lead({a}, (((p1 \o p2) \o p3) \o p4) \o p5, Clocked(a, I, c))
  BY <1>10, <1>16, LeadOn
<1>18. Lead({a}, ((((p1 \o p2) \o p3) \o p4) \o p5) \o p6, Restored(a, I, c))
  BY <1>11, <1>17, LeadOn
<1>19. Lead({a}, (((((p1 \o p2) \o p3) \o p4) \o p5) \o p6) \o p7, Restored(a, {}, c))
  BY <1>12, <1>18, LeadOn
<1>20. Lead({a}, ((((((p1 \o p2) \o p3) \o p4) \o p5) \o p6) \o p7) \o p8, Lasting)
  BY <1>13, <1>19, LeadOn
<1> QED
  BY <1>1, <1>20

-----------------------------------------------------------------------------
(* The invariant of the clock.                                             *)

\* The registers now.
LEMMA NowIs ==
  /\ Now.ccu = ccu /\ Now.osc0 = osc0 /\ Now.tmg = tmg /\ Now.divs = divs
  /\ Now.lowered = lowered /\ Now.gps0 = gps0 /\ Now.halted = halted
  /\ Now.rtcWoke = rtcWoke
BY DEF Now

\* With nothing to write, the registers may stay.
LEMMA ClockAtRest ==
  ASSUME ClockInv, writes = <<>>
  PROVE  Now \in Lasting
BY LeadStay DEF ClockInv

\* The flash can be read now.
LEMMA NowSuits ==
  ASSUME ClockInv
  PROVE  Suits(Now)
<1>1. CASE writes = <<>>
  BY <1>1, ClockAtRest, LastingIs
<1>2. CASE writes # <<>>
  BY <1>2, LeadStep DEF ClockInv
<1> QED
  BY <1>1, <1>2

\* The invariant holds when the application starts.
LEMMA ClockInvInit ==
  ASSUME ClockInit
  PROVE  ClockInv
<1>1. ccu \in CcuRegs /\ ccu.divEn /\ osc0 \in OscRegs /\ ~osc0.pd /\ OwnTrim(osc0)
  BY DEF ClockInit, CcuRegs, OscRegs, OwnTrim, SiModes
<1>2. /\ tmg = "two" /\ lowered = {} /\ gps0 = "none" /\ ~halted /\ halted \in BOOLEAN
      /\ rtcWoke \in BOOLEAN /\ context = [ccu |-> ccu, osc0 |-> osc0, tmg |-> tmg] /\ writes = <<>>
  BY DEF ClockInit
<1>3. /\ divs \in [Dividers -> DivRegs]
      /\ \A d \in Dividers : divs[d].inForce = divs[d].div
  BY DEF ClockInit, DivRegs
<1>4. Now \in Registers
  BY <1>1, <1>2, <1>3 DEF Now, Registers
<1>5. SysFreq(ccu, osc0) <= FlashFreq(tmg)
  <2>1. SysFreq(ccu, osc0) <= 1024
    BY <1>1, Frequencies
  <2> QED
    BY <1>2, <2>1 DEF FlashFreq
<1>6. Suits(Now)
  BY <1>5, NowIs DEF Suits
<1>7. Now \in Lasting
  BY <1>1, <1>2, <1>3, <1>4, <1>6, NowIs DEF Lasting
<1>8. SysFreq(context.ccu, context.osc0) <= FlashFreq(context.tmg)
  BY <1>2, <1>5
<1>9. context \in Saved
  BY <1>1, <1>2, <1>8 DEF Saved
<1>10. Lead({Now}, <<>>, Lasting)
  <2>1. {Now} \subseteq Lasting /\ Lasting \subseteq Registers
    BY <1>7 DEF Lasting
  <2> QED
    BY <2>1, LeadNone
<1> QED
  BY <1>2, <1>4, <1>9, <1>10 DEF ClockInv

\* What the application begins leads to where it may stay.
LEMMA BeginKeepsInv ==
  ASSUME ClockInv, NEW ws, Do(ws), context' \in Saved, Lead({Now}, ws, Lasting)
  PROVE  ClockInv'
<1>1. Now' = Now /\ writes' = ws
  BY DEF Do, Now
<1> QED
  BY <1>1 DEF ClockInv

\* clk_sys_set_mode keeps the invariant.
LEMMA SetModeKeepsClock ==
  ASSUME ClockInv, SetMode
  PROVE  ClockInv'
<1>1. PICK mode \in ClkModes, div \in ClkDivs : Do(SetModeWrites(mode, div))
  BY DEF SetMode
<1>2. writes = <<>> /\ gps0 = "none" /\ context' = context
  BY <1>1 DEF SetMode, Do, Running
<1>3. Now \in Lasting /\ Now.gps0 = "none"
  BY <1>2, ClockAtRest, NowIs
<1>4. mode \in SiModes \cup {"rtc", "xtal"} /\ div \in 0..7
  BY ClockAssumption
<1>5. Lead({Now}, SetModeWrites(mode, div), Lasting)
  BY <1>3, <1>4, SetModeLasts
<1>6. context' \in Saved
  BY <1>2 DEF ClockInv
<1> QED
  BY <1>1, <1>5, <1>6, BeginKeepsInv

\* The functions that set a divider keep it.
LEMMA SetDividerKeepsClock ==
  ASSUME ClockInv, SetDivider
  PROVE  ClockInv'
<1>1. PICK d \in Dividers, div \in 0..1 : Do(SetDividerWrites(d, div))
  BY DEF SetDivider
<1>2. writes = <<>> /\ gps0 = "none" /\ context' = context
  BY <1>1 DEF SetDivider, Do, Running
<1>3. Now \in Lasting /\ Now.gps0 = "none"
  BY <1>2, ClockAtRest, NowIs
<1>4. Lead({Now}, SetDividerWrites(d, div), Lasting)
  BY <1>3, SetDividerLasts
<1>5. context' \in Saved
  BY <1>2 DEF ClockInv
<1> QED
  BY <1>1, <1>4, <1>5, BeginKeepsInv

\* Either low power state keeps it.
LEMMA SleepKeepsClock ==
  ASSUME ClockInv, SleepOrDeepSleep
  PROVE  ClockInv'
<1>1. /\ writes = <<>> /\ gps0 = "none"
      /\ context' = [ccu |-> ccu, osc0 |-> osc0, tmg |-> tmg]
  BY DEF SleepOrDeepSleep, Do, Running
<1>2. Now \in Lasting /\ Now.gps0 = "none"
  BY <1>1, ClockAtRest, NowIs
<1>3. context' \in Saved
  <2> DEFINE c == [ccu |-> ccu, osc0 |-> osc0, tmg |-> tmg]
  <2>1. /\ ccu \in CcuRegs /\ osc0 \in OscRegs /\ tmg \in {"slow", "one", "two"}
        /\ ccu.divEn /\ ~osc0.pd /\ OwnTrim(osc0)
        /\ SysFreq(ccu, osc0) <= FlashFreq(tmg)
    BY <1>2, NowIs, LastingIs, RegistersHave
  <2>2. c \in Saved
    BY <2>1 DEF Saved
  <2> QED
    BY <1>1, <2>2
<1>4. CASE Do(SleepWrites)
  BY <1>2, <1>3, <1>4, SleepLasts, BeginKeepsInv
<1>5. CASE \E event \in WakeEvents : Do(DeepSleepWrites(event))
  <2>1. PICK event \in WakeEvents : Do(DeepSleepWrites(event))
    BY <1>5
  <2> QED
    BY <1>2, <1>3, <2>1, DeepSleepLasts, BeginKeepsInv
<1> QED
  BY <1>4, <1>5 DEF SleepOrDeepSleep

\* qm_power_soc_restore keeps it.
LEMMA RestoreKeepsClock ==
  ASSUME ClockInv, RestoreSoc
  PROVE  ClockInv'
<1>1. writes = <<>> /\ ~halted /\ context' = context /\ context \in Saved
  BY DEF RestoreSoc, Do, Running, ClockInv
<1>2. Now \in Lasting /\ ~Now.halted
  BY <1>1, ClockAtRest, NowIs
<1>3. CASE gps0 = "sleep" /\ Do(SleepRestoreWrites(context))
  BY <1>1, <1>2, <1>3, NowIs, SleepRestoreLasts, BeginKeepsInv
<1>4. CASE gps0 = "deep" /\ Do(DeepSleepRestoreWrites(context))
  BY <1>1, <1>2, <1>4, NowIs, DeepSleepRestoreLasts, BeginKeepsInv
<1> QED
  BY <1>3, <1>4 DEF RestoreSoc

\* Every register write keeps it.
LEMMA WriteKeepsClock ==
  ASSUME ClockInv, Write
  PROVE  ClockInv'
<1> DEFINE r == After(Now, Head(writes))
<1>1. /\ writes # <<>> /\ writes' = Tail(writes) /\ context' = context
      /\ ccu' = r.ccu /\ osc0' = r.osc0 /\ tmg' = r.tmg /\ divs' = r.divs
      /\ lowered' = r.lowered /\ gps0' = r.gps0 /\ halted' = r.halted
      /\ rtcWoke' = r.rtcWoke
  BY DEF Write
<1>2. r \in Registers /\ Lead({r}, Tail(writes), Lasting)
  BY <1>1, LeadStep DEF ClockInv
<1> HIDE DEF r
<1>3. Now' = r
  BY <1>1, <1>2 DEF Now, Registers
<1> QED
  BY <1>1, <1>2, <1>3 DEF ClockInv

\* A wake event keeps it.
LEMMA WakeKeepsClock ==
  ASSUME ClockInv, Wake
  PROVE  ClockInv'
<1>1. /\ halted /\ halted' = FALSE /\ ccu' = [ccu EXCEPT !.hybrid = TRUE]
      /\ rtcWoke' = ~ccu.hybrid
      /\ UNCHANGED <<osc0, tmg, divs, lowered, gps0, context, writes>>
  BY DEF Wake
<1>2. writes = <<>>
  BY <1>1, NowIs, LeadStep DEF ClockInv
<1>3. Now \in Lasting
  BY <1>2, ClockAtRest
<1>4. /\ Now \in Registers /\ ccu \in CcuRegs /\ ccu.divEn /\ osc0 \in OscRegs
      /\ tmg \in {"slow", "one", "two"} /\ divs \in [Dividers -> DivRegs]
      /\ lowered \in SUBSET DeepSleepLowers /\ gps0 \in {"none", "sleep", "deep"}
  BY <1>3, NowIs, LastingIs, RegistersHave
<1>5. gps0 # "none"
  BY <1>1, <1>3, NowIs, LastingIs
<1>6. ccu' \in CcuRegs /\ ccu'.divEn /\ ccu'.hybrid
  BY <1>1, <1>4 DEF CcuRegs
<1>7. Now' \in Registers
  <2>1. FALSE \in BOOLEAN /\ rtcWoke' \in BOOLEAN
    BY <1>1
  <2> QED
    BY <1>1, <1>4, <1>6, <2>1 DEF Now, Registers
<1>8. /\ Now'.ccu = ccu' /\ Now'.osc0 = osc0 /\ Now'.tmg = tmg /\ ~Now'.halted
      /\ Now'.rtcWoke = ~ccu.hybrid
  BY <1>1 DEF Now
<1>9. Suits(Now') /\ (SlowClock(Now') \/ RtcSleep(Now'))
  <2>1. CASE SlowClock(Now)
    <3>1. SysFreq(ccu', osc0) <= 128
      BY <1>4, <1>6, <2>1, NowIs, Frequencies DEF SlowClock
    <3>2. FlashFreq(tmg) \in {128, 512, 1024}
      BY <1>4 DEF FlashFreq
    <3>3. SysFreq(ccu', osc0) \in Nat
      BY <1>4, <1>6, Frequencies
    <3>4. SysFreq(ccu', osc0) <= FlashFreq(tmg)
      BY ONLY <3>1, <3>2, <3>3
    <3> QED
      BY <1>6, <1>8, <2>1, <3>4, NowIs DEF SlowClock, Suits
  <2>2. CASE RtcSleep(Now)
    <3>1. osc0.pd /\ ~ccu.hybrid
      BY <1>1, <2>2, NowIs DEF RtcSleep
    <3> QED
      BY <1>8, <3>1 DEF RtcSleep, Suits
  <2> QED
    BY <1>3, <1>5, <2>1, <2>2, NowIs, LastingIs
<1>10. Now' \in Lasting
  <2>1. /\ Now'.ccu = ccu' /\ Now'.divs = divs /\ Now'.gps0 = gps0
        /\ Now'.lowered = lowered
    BY <1>1 DEF Now
  <2>2. /\ \A d \in Dividers \ {"periph"} : divs[d].inForce = divs[d].div
        /\ gps0 = "sleep" => lowered \subseteq SleepLowers
    BY <1>3, NowIs, LastingIs
  <2> QED
    BY <1>5, <1>6, <1>7, <1>9, <2>1, <2>2 DEF Lasting
<1>11. Lead({Now'}, <<>>, Lasting)
  <2>1. {Now'} \subseteq Lasting /\ Lasting \subseteq Registers
    BY <1>10 DEF Lasting
  <2> QED
    BY <2>1, LeadNone
<1> QED
  BY <1>1, <1>2, <1>7, <1>11 DEF ClockInv

\* The inductive invariant of the clock holds.
THEOREM ClockInvHolds == ClockSpec => []ClockInv
<1>1. ClockInit => ClockInv
  BY ClockInvInit
<1>2. ClockInv /\ [ClockNext]_clockVars => ClockInv'
  <2> SUFFICES ASSUME ClockInv, [ClockNext]_clockVars
               PROVE  ClockInv'
    OBVIOUS
  <2>1. CASE ClockNext
    BY <2>1, SetModeKeepsClock, SetDividerKeepsClock, SleepKeepsClock,
       RestoreKeepsClock, WriteKeepsClock, WakeKeepsClock DEF ClockNext
  <2>2. CASE UNCHANGED clockVars
    BY <2>2 DEF clockVars, ClockInv, Now
  <2> QED
    BY <2>1, <2>2
<1> QED
  BY <1>1, <1>2, PTL DEF ClockSpec

\* The flash is never read faster than its wait states allow, at no register write
\* of clk_sys_set_mode, of a low power state or of the return from one, whatever ends
\* it: but for the stretch after a wake-up by the RTC until osc0_cfg1 is given back.
THEOREM FlashNeverOutrun == ClockSpec => []FlashTimingHeld
<1>1. ClockInv => FlashTimingHeld
  BY NowSuits, NowIs DEF Suits, FlashTimingHeld, Exposed
<1> QED
  BY <1>1, ClockInvHolds, PTL

\* Whenever no function of the clock or of a low power state is under way, the
\* dividers that were set are in force (but for that of the peripherals), what a low
\* power state took is given back (but for the wake mask), and the oscillator runs
\* with the trim code of its own frequency.
THEOREM ClockComesBack == ClockSpec => []ClockSettled
<1>1. ClockInv => ClockSettled
  <2> SUFFICES ASSUME ClockInv, Running, gps0 = "none"
               PROVE  /\ \A d \in Dividers \ {"periph"} : divs[d].inForce = divs[d].div
                      /\ lowered \subseteq {"wake_mask"} /\ ~osc0.pd
                      /\ ~osc0.xtalUsed /\ osc0.freq \in TrimPresent =>
                           osc0.trim = osc0.freq
    BY DEF ClockSettled
  <2>1. Now \in Lasting
    BY ClockAtRest DEF Running
  <2> QED
    BY <2>1, NowIs, LastingIs DEF OwnTrim
<1> QED
  BY <1>1, ClockInvHolds, PTL

-----------------------------------------------------------------------------
(* The mailbox implements a slot per channel.  A channel belongs to its    *)
(* writer only while both bits are clear, and to one reader at most while  *)
(* it is full, because the interrupt that calls the handler is gone by the *)
(* time the task reads.                                                    *)

\* The writer has the channel to itself from its check to its control word.
PutSound(c) ==
  /\ mboxPut[c].at # "none" => mboxSts[c] = {} /\ mboxPut[c].msg \in MboxMessages
  /\ mboxPut[c].at = "ctrl" => mboxData[c] = mboxPut[c].msg

\* A full channel holds a whole message.
FullSound(c) ==
  "STS" \in mboxSts[c] => mboxCtrl[c] = mboxData[c] /\ mboxCtrl[c] \in MboxMessages

\* The channel whose callback has run.
Called(c) == mboxIsr.called /\ IsrCurrent(c)

\* An interrupt announces a message, until the callback of its channel has run.
IntSound(c) ==
  /\ "INT" \in mboxSts[c] /\ "STS" \notin mboxSts[c] => Called(c)
  /\ c \in mboxIsr.left => mboxDev[c] = "interrupt" /\ "INT" \in mboxSts[c]

\* The task was woken for a message nobody else reads.
WokenSound(c) ==
  c \in mboxWoken =>
    /\ "STS" \in mboxSts[c] /\ mboxDev[c] = "interrupt"
    /\ "INT" \in mboxSts[c] => Called(c) /\ mboxGet["handler"].at = "none"

IsrSound ==
  /\ ~mboxIsr.run => mboxIsr.left = {} /\ ~mboxIsr.called
  /\ mboxIsr.run => mboxIsr.left # {}

\* What a reader has copied is what the channel holds.
GetSound(r) ==
  LET g == mboxGet[r] IN
  g.at # "none" =>
    /\ g.ch \in MboxChannels /\ g.ch \notin mboxWoken
    /\ "STS" \in mboxSts[g.ch]
    /\ g.at # "ctrl" => g.ctrl = mboxCtrl[g.ch]
    /\ g.at \in {"int", "sts"} => g.data = mboxData[g.ch]

\* The handler reads the channel whose callback runs.
HandlerSound ==
  LET g == mboxGet["handler"] IN
  g.at # "none" => mboxIsr.run /\ Called(g.ch) /\ g.at # "int"

\* The interrupt of the channel the task reads has been served, or will be
\* cleared by the task.
TaskSound ==
  LET g == mboxGet["task"] IN
  g.at # "none" =>
    /\ mboxDev[g.ch] # "unused"
    /\ mboxDev[g.ch] = "interrupt" => "INT" \notin mboxSts[g.ch] /\ g.at # "int"
    /\ g.at = "sts" => "INT" \notin mboxSts[g.ch]

MboxInv ==
  /\ MboxTypeOK
  /\ \A c \in MboxChannels : PutSound(c) /\ FullSound(c) /\ IntSound(c) /\ WokenSound(c)
  /\ IsrSound
  /\ \A r \in MboxReaders : GetSound(r)
  /\ HandlerSound /\ TaskSound

LEMMA WriteCheckKeeps ==
  ASSUME MboxInv, NEW c \in MboxChannels, NEW m \in MboxMessages, WriteCheck(c, m)
  PROVE  MboxInv'
<1>1. MboxTypeOK'
  BY DEF MboxInv, WriteCheck, MboxTypeOK
<1>2. \A x \in MboxChannels :
             PutSound(x)' /\ FullSound(x)' /\ IntSound(x)' /\ WokenSound(x)'
  BY DEF MboxInv, WriteCheck, PutSound, FullSound, IntSound, WokenSound,
     Called, IsrCurrent, Consumed
<1>3. IsrSound' /\ HandlerSound' /\ TaskSound'
  BY DEF MboxInv, WriteCheck, IsrSound, HandlerSound, TaskSound, Called,
     IsrCurrent
<1>4. \A x \in MboxReaders : GetSound(x)'
  BY DEF MboxInv, WriteCheck, GetSound
<1>. QED
  BY <1>1, <1>2, <1>3, <1>4 DEF MboxInv

LEMMA WriteDataKeeps ==
  ASSUME MboxInv, NEW c \in MboxChannels, WriteData(c)
  PROVE  MboxInv'
<1>1. MboxTypeOK'
  BY DEF MboxInv, WriteData, MboxTypeOK
<1>2. \A x \in MboxChannels :
             PutSound(x)' /\ FullSound(x)' /\ IntSound(x)' /\ WokenSound(x)'
  BY DEF MboxInv, WriteData, MboxTypeOK, PutSound, FullSound, IntSound,
     WokenSound, Called, IsrCurrent
<1>3. IsrSound' /\ HandlerSound' /\ TaskSound'
  BY DEF MboxInv, WriteData, IsrSound, HandlerSound, TaskSound, Called,
     IsrCurrent
<1>4. \A x \in MboxReaders : GetSound(x)'
  BY MailboxAssumption DEF MboxInv, WriteData, MboxTypeOK, PutSound,
     FullSound, IntSound, WokenSound, IsrSound, GetSound, HandlerSound,
     TaskSound, Called, IsrCurrent
<1>. QED
  BY <1>1, <1>2, <1>3, <1>4 DEF MboxInv

LEMMA WriteCtrlKeeps ==
  ASSUME MboxInv, NEW c \in MboxChannels, WriteCtrl(c)
  PROVE  MboxInv'
<1>1. MboxTypeOK'
  BY DEF MboxInv, WriteCtrl, MboxTypeOK
<1>2. \A x \in MboxChannels :
             PutSound(x)' /\ FullSound(x)' /\ IntSound(x)' /\ WokenSound(x)'
  BY DEF MboxInv, WriteCtrl, MboxTypeOK, PutSound, FullSound, IntSound,
     WokenSound, Called, IsrCurrent
<1>3. IsrSound' /\ HandlerSound' /\ TaskSound'
  BY DEF MboxInv, WriteCtrl, PutSound, IsrSound, GetSound, HandlerSound,
     TaskSound, Called, IsrCurrent, MboxReaders
<1>4. \A x \in MboxReaders : GetSound(x)'
  BY DEF MboxInv, WriteCtrl, PutSound, GetSound
<1>. QED
  BY <1>1, <1>2, <1>3, <1>4 DEF MboxInv

LEMMA ChSetConfigKeeps ==
  ASSUME MboxInv, NEW c \in MboxChannels, NEW mode \in MboxModes, ChSetConfig(c, mode)
  PROVE  MboxInv'
<1>1. MboxTypeOK'
  BY DEF MboxInv, ChSetConfig, MboxTypeOK
<1>2. \A x \in MboxChannels :
             PutSound(x)' /\ FullSound(x)' /\ IntSound(x)' /\ WokenSound(x)'
  BY DEF MboxInv, ChSetConfig, PutSound, FullSound, IntSound, WokenSound,
     Called, IsrCurrent, Routed
<1>3. IsrSound' /\ HandlerSound' /\ TaskSound'
  BY DEF MboxInv, ChSetConfig, IsrSound, HandlerSound, TaskSound
<1>4. \A x \in MboxReaders : GetSound(x)'
  BY DEF MboxInv, ChSetConfig, GetSound
<1>. QED
  BY <1>1, <1>2, <1>3, <1>4 DEF MboxInv

LEMMA TaskReadKeeps ==
  ASSUME MboxInv, NEW c \in MboxChannels, TaskRead(c)
  PROVE  MboxInv'
<1>1. MboxTypeOK'
  BY DEF Reading, MboxInv, TaskRead, MboxTypeOK
<1>2. \A x \in MboxChannels :
             PutSound(x)' /\ FullSound(x)' /\ IntSound(x)' /\ WokenSound(x)'
  BY DEF MboxInv, TaskRead, PutSound, FullSound, IntSound, WokenSound,
     IsrSound, Called
<1>3. IsrSound' /\ HandlerSound' /\ TaskSound'
  BY DEF Reading, MboxInv, TaskRead, WokenSound, IsrSound, HandlerSound,
     TaskSound, Called
<1>4. \A x \in MboxReaders : GetSound(x)'
  BY DEF Reading, MboxInv, TaskRead, GetSound, Readable
<1>. QED
  BY <1>1, <1>2, <1>3, <1>4 DEF MboxInv

LEMMA CopyCtrlKeeps ==
  ASSUME MboxInv, NEW r \in MboxReaders, CopyCtrl(r)
  PROVE  MboxInv'
<1>1. MboxTypeOK'
  BY MailboxAssumption DEF MboxInv, CopyCtrl, MboxTypeOK, NoMboxMessage,
     TornMessage, HandlerSound, TaskSound, GetSound, MboxRuns, MboxReaders
<1>2. \A x \in MboxChannels :
             PutSound(x)' /\ FullSound(x)' /\ IntSound(x)' /\ WokenSound(x)'
  BY MailboxAssumption DEF MboxInv, CopyCtrl, MboxTypeOK
<1>3. IsrSound' /\ HandlerSound' /\ TaskSound'
  BY SMTT(30), MailboxAssumption DEF MboxInv, CopyCtrl, MboxTypeOK, PutSound, FullSound,
     IntSound, WokenSound, IsrSound, GetSound, HandlerSound, TaskSound,
     Called, IsrCurrent, MboxReaders, MboxRuns
<1>4. \A x \in MboxReaders : GetSound(x)'
  BY MailboxAssumption DEF MboxInv, CopyCtrl, MboxTypeOK, PutSound, FullSound,
     IntSound, WokenSound, IsrSound, GetSound, HandlerSound, TaskSound,
     Called, IsrCurrent, MboxRuns, MboxReaders
<1>. QED
  BY <1>1, <1>2, <1>3, <1>4 DEF MboxInv

LEMMA CopyDataKeeps ==
  ASSUME MboxInv, NEW r \in MboxReaders, CopyData(r)
  PROVE  MboxInv'
<1>1. MboxTypeOK'
  BY MailboxAssumption DEF MboxInv, CopyData, MboxTypeOK, NoMboxMessage,
     TornMessage, HandlerSound, TaskSound, GetSound, MboxRuns, AfterData,
     MboxReaders
<1>2. \A x \in MboxChannels :
             PutSound(x)' /\ FullSound(x)' /\ IntSound(x)' /\ WokenSound(x)'
  BY DEF MboxInv, CopyData, MboxTypeOK, AfterData
<1>3. IsrSound' /\ HandlerSound' /\ TaskSound'
  BY SMTT(30), MailboxAssumption DEF MboxInv, CopyData, MboxTypeOK, PutSound, FullSound,
     IntSound, WokenSound, IsrSound, GetSound, HandlerSound, TaskSound,
     Called, IsrCurrent, MboxReaders, MboxRuns, AfterData
<1>4. \A x \in MboxReaders : GetSound(x)'
  BY MailboxAssumption DEF MboxInv, CopyData, MboxTypeOK, PutSound, FullSound,
     IntSound, WokenSound, IsrSound, GetSound, HandlerSound, TaskSound,
     Called, IsrCurrent, MboxRuns, AfterData, MboxReaders
<1>. QED
  BY <1>1, <1>2, <1>3, <1>4 DEF MboxInv

LEMMA ClearIntKeeps ==
  ASSUME MboxInv, NEW r \in MboxReaders, ClearInt(r)
  PROVE  MboxInv'
<1>1. MboxTypeOK'
  BY SMTT(30), MailboxAssumption DEF MboxInv, ClearInt, MboxTypeOK, NoMboxMessage,
     TornMessage, HandlerSound, TaskSound, GetSound, MboxRuns, MboxReaders
<1>2. \A x \in MboxChannels :
             PutSound(x)' /\ FullSound(x)' /\ IntSound(x)' /\ WokenSound(x)'
  BY DEF MboxInv, ClearInt, PutSound, FullSound, IntSound, WokenSound,
     HandlerSound, TaskSound, Called, IsrCurrent, MboxReaders
<1>3. IsrSound' /\ HandlerSound' /\ TaskSound'
  BY DEF MboxInv, ClearInt, MboxTypeOK, IsrSound, GetSound, HandlerSound,
     TaskSound, MboxRuns
<1>4. \A x \in MboxReaders : GetSound(x)'
  BY DEF MboxInv, ClearInt, GetSound
<1>. QED
  BY <1>1, <1>2, <1>3, <1>4 DEF MboxInv

LEMMA ClearStsKeeps ==
  ASSUME MboxInv, NEW r \in MboxReaders, ClearSts(r)
  PROVE  MboxInv'
<1>1. MboxTypeOK'
  BY DEF MboxInv, ClearSts, MboxTypeOK, NotReading
<1>2. \A x \in MboxChannels :
             PutSound(x)' /\ FullSound(x)' /\ IntSound(x)' /\ WokenSound(x)'
  BY MailboxAssumption DEF MboxInv, ClearSts, MboxTypeOK, PutSound, FullSound,
     IntSound, WokenSound, IsrSound, GetSound, HandlerSound, TaskSound,
     Called, IsrCurrent, MboxRuns, NotReading, MboxReaders
<1>3. IsrSound' /\ HandlerSound' /\ TaskSound'
  BY DEF MboxInv, ClearSts, MboxTypeOK, IsrSound, HandlerSound, TaskSound,
     MboxRuns, NotReading
<1>4. \A x \in MboxReaders : GetSound(x)'
  <2>. SUFFICES ASSUME NEW x \in MboxReaders, mboxGet[x]'.at # "none"
       PROVE  GetSound(x)'
    BY DEF GetSound
  <2>1. x # r /\ mboxGet'[x] = mboxGet[x]
    BY DEF ClearSts, MboxInv, MboxTypeOK, NotReading
  <2>2. mboxGet[x].ch # mboxGet[r].ch
    <3>1. CASE r = "task"
      BY <3>1, <2>1 DEF ClearSts, MboxRuns, MboxInv, HandlerSound, MboxReaders
    <3>2. CASE r = "handler"
      BY <2>1 DEF ClearSts, MboxInv, HandlerSound, TaskSound, IntSound,
         Called, IsrCurrent, MboxReaders, MboxTypeOK
    <3>. QED
      BY <3>1, <3>2 DEF MboxReaders
  <2>. QED
    BY <2>2 DEF ClearSts, MboxInv, GetSound
<1>. QED
  BY <1>1, <1>2, <1>3, <1>4 DEF MboxInv

LEMMA IsrSnapshotKeeps ==
  ASSUME MboxInv, IsrSnapshot
  PROVE  MboxInv'
<1>1. MboxTypeOK'
  BY DEF MboxInv, IsrSnapshot, MboxTypeOK
<1>2. \A x \in MboxChannels :
             PutSound(x)' /\ FullSound(x)' /\ IntSound(x)' /\ WokenSound(x)'
  BY DEF MboxInv, IsrSnapshot, PutSound, FullSound, IntSound, WokenSound,
     IsrSound, Called, Routed
<1>3. IsrSound' /\ HandlerSound' /\ TaskSound'
  BY DEF MboxInv, IsrSnapshot, IsrSound, HandlerSound, TaskSound
<1>4. \A x \in MboxReaders : GetSound(x)'
  BY DEF MboxInv, IsrSnapshot, GetSound
<1>. QED
  BY <1>1, <1>2, <1>3, <1>4 DEF MboxInv

LEMMA IsrCallbackKeeps ==
  ASSUME MboxInv, NEW c \in MboxChannels, IsrCallback(c)
  PROVE  MboxInv'
<1>1. MboxTypeOK'
  <2>1. mboxIsr' \in [run : BOOLEAN, left : SUBSET MboxChannels, called : BOOLEAN]
    BY DEF MboxInv, MboxTypeOK, IsrCallback
  <2>2. mboxWoken' \subseteq MboxChannels
    BY DEF MboxInv, MboxTypeOK, IsrCallback
  <2>3. mboxGet' \in [MboxReaders ->
          [at : {"none", "ctrl", "data", "int", "sts"}, ch : MboxChannels \cup {0},
           ctrl : MboxMessages \cup {NoMboxMessage}, data : MboxMessages \cup {NoMboxMessage}]]
    BY SMTT(30) DEF MboxInv, MboxTypeOK, IsrCallback, Reading
  <2>. QED
    BY <2>3 DEF MboxInv, MboxTypeOK, IsrCallback
<1>2. \A x \in MboxChannels :
             PutSound(x)' /\ FullSound(x)' /\ IntSound(x)' /\ WokenSound(x)'
  BY DEF MboxInv, IsrCallback, PutSound, FullSound, IntSound, WokenSound,
     HandlerSound, Called, IsrCurrent
<1>3. IsrSound' /\ HandlerSound' /\ TaskSound'
  BY DEF Reading, MboxInv, IsrCallback, MboxTypeOK, IsrSound, HandlerSound,
     TaskSound, Called, IsrCurrent, MboxReaders
<1>4. \A x \in MboxReaders : GetSound(x)'
  BY DEF Reading, MboxInv, IsrCallback, MboxTypeOK, IntSound, WokenSound,
     GetSound, HandlerSound, TaskSound, Called, IsrCurrent, MboxReaders
<1>. QED
  BY <1>1, <1>2, <1>3, <1>4 DEF MboxInv

LEMMA IsrClearKeeps ==
  ASSUME MboxInv, NEW c \in MboxChannels, IsrClear(c)
  PROVE  MboxInv'
<1>1. MboxTypeOK'
  BY DEF MboxInv, IsrClear, MboxTypeOK
<1>2. \A x \in MboxChannels :
             PutSound(x)' /\ FullSound(x)' /\ IntSound(x)' /\ WokenSound(x)'
  BY MailboxAssumption DEF MboxInv, IsrClear, MboxTypeOK, PutSound, FullSound,
     IntSound, WokenSound, Called, IsrCurrent
<1>3. IsrSound' /\ HandlerSound' /\ TaskSound'
  <2>1. c \in mboxIsr.left
    BY DEF IsrClear, IsrCurrent
  <2>2. mboxIsr.left = {c} => mboxIsr.left \ {c} = {}
    OBVIOUS
  <2>3. mboxIsr.left # {c} => mboxIsr.left \ {c} # {}
    BY <2>1
  <2>4. mboxIsr' = [run |-> mboxIsr.left # {c}, left |-> mboxIsr.left \ {c}, called |-> FALSE]
    BY DEF IsrClear
  <2>5. IsrSound'
    BY <2>3, <2>4 DEF IsrSound
  <2>6. HandlerSound'
    BY DEF IsrClear, HandlerSound
  <2>7. TaskSound'
    BY DEF IsrClear, MboxInv, TaskSound
  <2>. QED
    BY <2>5, <2>6, <2>7
<1>4. \A x \in MboxReaders : GetSound(x)'
  BY DEF MboxInv, IsrClear, GetSound
<1>. QED
  BY <1>1, <1>2, <1>3, <1>4 DEF MboxInv

LEMMA MailboxStarts == MboxInit => MboxInv
  BY DEF MboxInit, MboxInv, MboxTypeOK, PutSound, FullSound, IntSound,
     WokenSound, IsrSound, GetSound, HandlerSound, TaskSound, NotReading,
     MboxReaders, MboxModes

LEMMA MailboxStutters ==
  ASSUME MboxInv, UNCHANGED mboxVars
  PROVE  MboxInv'
  BY DEF mboxVars, MboxInv, MboxTypeOK, PutSound, FullSound, IntSound,
     WokenSound, IsrSound, GetSound, HandlerSound, TaskSound, Called,
     IsrCurrent

LEMMA MailboxKeeps ==
  ASSUME MboxInv, [MboxNext]_mboxVars
  PROVE  MboxInv'
<1>1. CASE UNCHANGED mboxVars
  BY <1>1, MailboxStutters
<1>2. ASSUME NEW c \in MboxChannels, NEW m \in MboxMessages, WriteCheck(c, m)
      PROVE  MboxInv'
  BY <1>2, WriteCheckKeeps
<1>3. ASSUME NEW c \in MboxChannels, MboxWriter(c)
      PROVE  MboxInv'
  BY <1>3, WriteDataKeeps, WriteCtrlKeeps DEF MboxWriter
<1>4. ASSUME NEW c \in MboxChannels, NEW mode \in MboxModes, ChSetConfig(c, mode)
      PROVE  MboxInv'
  BY <1>4, ChSetConfigKeeps
<1>5. ASSUME NEW c \in MboxChannels, TaskRead(c)
      PROVE  MboxInv'
  BY <1>5, TaskReadKeeps
<1>6. ASSUME NEW r \in MboxReaders, MboxRead(r)
      PROVE  MboxInv'
  BY <1>6, CopyCtrlKeeps, CopyDataKeeps, ClearIntKeeps, ClearStsKeeps
     DEF MboxRead
<1>7. CASE MboxHandler
  <2>1. ASSUME NEW c \in MboxChannels, IsrCallback(c) \/ IsrClear(c)
        PROVE  MboxInv'
    BY <2>1, IsrCallbackKeeps, IsrClearKeeps
  <2>. QED
    BY <1>6, <1>7, <2>1, IsrSnapshotKeeps DEF MboxHandler, MboxReaders
<1>. QED
  BY <1>1, <1>2, <1>3, <1>4, <1>5, <1>6, <1>7 DEF MboxNext, MboxReaders

\* The inductive invariant of the mailbox, for any channels and messages.
THEOREM MailboxInvariance == MboxSpec => []MboxInv
<1>1. MboxInit => MboxInv
  BY MailboxStarts
<1>2. MboxInv /\ [MboxNext]_mboxVars => MboxInv'
  BY MailboxKeeps
<1>. QED
  BY <1>1, <1>2, PTL DEF MboxSpec

\* Every variable of the mailbox keeps its type.
THEOREM MailboxTypeCorrect == MboxSpec => []MboxTypeOK
<1>1. MboxInv => MboxTypeOK
  BY DEF MboxInv
<1>. QED
  BY <1>1, MailboxInvariance, PTL

-----------------------------------------------------------------------------
(* The refinement: WriteCtrl puts a message into the slot, ClearSts takes it *)
(* out, and no other step changes what waits or what was got.                *)

LEMMA WriteCtrlPuts ==
  ASSUME MboxInv, NEW c \in MboxChannels, WriteCtrl(c)
  PROVE  Slots!Put(c, mboxPut[c].msg) /\ mboxPut[c].msg \in MboxMessages
<1>1. mboxPut[c].msg \in MboxMessages /\ mboxSts[c] = {}
  BY DEF MboxInv, PutSound, WriteCtrl
<1>2. mboxSts' = [mboxSts EXCEPT ![c] = {"INT", "STS"}]
      /\ mboxCtrl' = [mboxCtrl EXCEPT ![c] = mboxPut[c].msg] /\ UNCHANGED mboxGot
  BY DEF WriteCtrl
<1>3. Waiting' = [Waiting EXCEPT ![c] = mboxPut[c].msg]
  BY <1>2 DEF Waiting, MboxInv, MboxTypeOK
<1>4. Waiting[c] = NoMboxMessage
  BY <1>1 DEF Waiting
<1>. QED
  BY <1>1, <1>2, <1>3, <1>4 DEF Slots!Put

LEMMA ClearStsTakes ==
  ASSUME MboxInv, NEW r \in MboxReaders, ClearSts(r)
  PROVE  mboxGet[r].ch \in MboxChannels /\ Slots!Take(mboxGet[r].ch)
<1>. DEFINE c == mboxGet[r].ch
<1>1. /\ c \in MboxChannels /\ "STS" \in mboxSts[c]
      /\ mboxGet[r].ctrl = mboxCtrl[c] /\ mboxGet[r].data = mboxData[c]
  BY DEF MboxInv, GetSound, ClearSts
<1>2. mboxCtrl[c] = mboxData[c] /\ mboxCtrl[c] \in MboxMessages
  BY <1>1 DEF MboxInv, FullSound
<1>3. /\ mboxSts' = [mboxSts EXCEPT ![c] = @ \ {"STS"}]
      /\ mboxGot' = [mboxGot EXCEPT ![c] = mboxCtrl[c]] /\ UNCHANGED mboxCtrl
  BY <1>1, <1>2 DEF ClearSts
<1>. HIDE DEF c
<1>4. Waiting' = [Waiting EXCEPT ![c] = NoMboxMessage]
  BY <1>3 DEF Waiting, MboxInv, MboxTypeOK
<1>5. Waiting[c] = mboxCtrl[c] /\ Waiting[c] # NoMboxMessage
  BY <1>1, <1>2, MailboxAssumption DEF Waiting, NoMboxMessage
<1>6. c \in MboxChannels /\ Slots!Take(c)
  BY <1>1, <1>3, <1>4, <1>5 DEF Slots!Take
<1>. QED
  BY <1>6 DEF c

\* No other step touches what the slots stand for.
LEMMA OthersStutter ==
  ASSUME MboxInv, UNCHANGED <<mboxCtrl, mboxGot>>, mboxSts \in [MboxChannels -> SUBSET {"INT", "STS"}],
         NEW c \in MboxChannels,
         mboxSts' = mboxSts \/ mboxSts' = [mboxSts EXCEPT ![c] = @ \ {"INT"}]
  PROVE  UNCHANGED <<Waiting, mboxGot>>
  BY DEF Waiting

LEMMA MailboxStepRefines ==
  ASSUME MboxInv, [MboxNext]_mboxVars
  PROVE  [Slots!Next]_<<Waiting, mboxGot>>
<1>. USE DEF MboxInv, MboxTypeOK
<1>1. CASE UNCHANGED mboxVars
  BY <1>1 DEF mboxVars, Waiting
<1>2. ASSUME NEW c \in MboxChannels, NEW m \in MboxMessages, WriteCheck(c, m)
      PROVE  UNCHANGED <<Waiting, mboxGot>>
  BY <1>2, OthersStutter DEF WriteCheck
<1>3. ASSUME NEW c \in MboxChannels, WriteData(c)
      PROVE  UNCHANGED <<Waiting, mboxGot>>
  BY <1>3, OthersStutter DEF WriteData
<1>4. ASSUME NEW c \in MboxChannels, WriteCtrl(c)
      PROVE  Slots!Next
  BY <1>4, WriteCtrlPuts DEF Slots!Next
<1>5. ASSUME NEW c \in MboxChannels, NEW mode \in MboxModes, ChSetConfig(c, mode)
      PROVE  UNCHANGED <<Waiting, mboxGot>>
  BY <1>5, OthersStutter DEF ChSetConfig
<1>6. ASSUME NEW c \in MboxChannels, TaskRead(c)
      PROVE  UNCHANGED <<Waiting, mboxGot>>
  BY <1>6, OthersStutter DEF TaskRead
<1>7. ASSUME NEW r \in MboxReaders, MboxRead(r)
      PROVE  [Slots!Next]_<<Waiting, mboxGot>>
  <2>1. CASE CopyCtrl(r)
    BY <2>1 DEF CopyCtrl
  <2>2. CASE CopyData(r)
    BY <2>2 DEF CopyData, Waiting
  <2>3. CASE ClearInt(r)
    BY <2>3, OthersStutter DEF ClearInt, GetSound
  <2>4. CASE ClearSts(r)
    BY <2>4, ClearStsTakes DEF Slots!Next
  <2>. QED
    BY <1>7, <2>1, <2>2, <2>3, <2>4 DEF MboxRead
<1>8. CASE IsrSnapshot
  BY <1>8 DEF IsrSnapshot, Waiting
<1>9. ASSUME NEW c \in MboxChannels, IsrCallback(c) \/ IsrClear(c)
      PROVE  UNCHANGED <<Waiting, mboxGot>>
  BY <1>9, OthersStutter DEF IsrCallback, IsrClear
<1>. QED
  BY <1>1, <1>2, <1>3, <1>4, <1>5, <1>6, <1>7, <1>8, <1>9 DEF MboxNext,
     MboxWriter, MboxHandler, MboxReaders

\* Between the two cores no message is overwritten, read twice or read half
\* old and half new: the mailbox implements a slot per channel.
THEOREM MailboxImplementsSlots == MboxSpec => MboxImplements
<1>1. MboxInit => Slots!Init
  BY DEF MboxInit, Slots!Init, Waiting
<1>2. MboxInv /\ [MboxNext]_mboxVars => [Slots!Next]_<<Waiting, mboxGot>>
  BY MailboxStepRefines
<1>. QED
  BY <1>1, <1>2, MailboxInvariance, PTL DEF MboxSpec, MboxImplements,
     Slots!Spec
=============================================================================
