--------------------------------- MODULE Dma ---------------------------------
(***************************************************************************)
(* The channels of the DMA driver, qm_dma.c, in its four transfer types:   *)
(* one block, contiguous blocks whose reloading the handler has to stop in *)
(* time, and chains of buffers of equal size, linear or circular.  Every   *)
(* channel has an interrupt of its own, but the handler first reads one    *)
(* status register that all the channels share.                            *)
(*                                                                         *)
(* Blocks are counted.  A block takes longer than the latency of the       *)
(* handler (the controller itself waits for it in contiguous mode); no     *)
(* buffer is appended to a chain under way; and after an error the client  *)
(* configures the channel anew.                                            *)
(*                                                                         *)
(* Two things the driver is not made for: a contiguous transfer of a       *)
(* single block, whose count passes the last block but one before it is    *)
(* looked at; and a transfer of another channel that ends before a block   *)
(* interrupt is served, which is then taken for the end of this one.  Such *)
(* a channel goes on running, and dmaUpset holds it until it is terminated *)
(* or started anew after it has stopped.                                   *)
(***************************************************************************)
EXTENDS Integers

CONSTANTS
  DmaChannels,
  DmaBlocks,     \* the numbers of blocks of a buffer
  DmaMaxBuffers  \* bound: buffers of a chain

\* The counters of blocks are 16 bits wide.
MaxCount == 65535

ASSUME DmaAssumption ==
  /\ DmaBlocks \subseteq 1 .. MaxCount
  /\ DmaMaxBuffers \in Nat

VARIABLES
  dmaPrv,     \* dma_channel_config: what the driver keeps of a channel
  dmaReg,     \* its registers: chaining, RELOAD, LLP, whether it is enabled
  dmaRaw,     \* the interrupts it has raised
  dmaMask,    \* those that are unmasked
  dmaState,   \* ghost: "off", "configured", "set" or "busy"
  dmaAsked,   \* ghost: blocks of a buffer, and of all that are to be moved
  dmaPos,     \* ghost: blocks moved (of the present turn, if circular)
  dmaOwed,    \* ghost: buffers moved and not reported
  dmaUpset    \* ghost: the channels whose transfer met what the driver is not
              \* made for

dmaVars == <<dmaPrv, dmaReg, dmaRaw, dmaMask, dmaState, dmaAsked, dmaPos, dmaOwed,
             dmaUpset>>

DmaTypes == {"SINGLE", "MULTI_CONT", "MULTI_LL", "MULTI_LL_CIRCULAR"}
DmaInterrupts == {"TFR", "BLOCK", "ERR"}
NoBlocks == [size |-> 0, all |-> 0]

DmaInit ==
  /\ dmaPrv = [c \in DmaChannels |->
                 [perBuffer |-> 0, pending |-> 0, tail |-> FALSE, circular |-> FALSE]]
  /\ dmaReg = [c \in DmaChannels |->
                 [chain |-> FALSE, reload |-> FALSE, llp |-> FALSE, en |-> FALSE]]
  /\ dmaRaw = [c \in DmaChannels |-> {}] /\ dmaMask = [c \in DmaChannels |-> {}]
  /\ dmaState = [c \in DmaChannels |-> "off"]
  /\ dmaAsked = [c \in DmaChannels |-> NoBlocks]
  /\ dmaPos = [c \in DmaChannels |-> 0] /\ dmaOwed = [c \in DmaChannels |-> 0]
  /\ dmaUpset = {}

-----------------------------------------------------------------------------

DmaStatus(c) == dmaRaw[c] \cap dmaMask[c]

\* status_int_low has one bit of each kind for all the channels.
StatusInt == UNION {DmaStatus(c) : c \in DmaChannels}

\* dma_get_transfer_type reads the type back from the registers.
TransferType(c) ==
  IF dmaReg[c].chain
  THEN IF dmaPrv[c].circular THEN "MULTI_LL_CIRCULAR" ELSE "MULTI_LL"
  ELSE IF dmaReg[c].reload THEN "MULTI_CONT" ELSE "SINGLE"

-----------------------------------------------------------------------------
(* The client.                                                             *)

\* qm_dma_channel_set_config leaves num_blocks_int_pending alone.
ChannelSetConfig(c, type) ==
  /\ dmaState[c] # "busy"
  /\ dmaPrv' = [dmaPrv EXCEPT ![c] =
       [perBuffer |-> 1, pending |-> @.pending, tail |-> FALSE,
        circular |-> type = "MULTI_LL_CIRCULAR"]]
  /\ dmaReg' = [dmaReg EXCEPT ![c] =
       [chain |-> type \in {"MULTI_LL", "MULTI_LL_CIRCULAR"},
        reload |-> type = "MULTI_CONT", llp |-> FALSE, en |-> @.en]]
  /\ dmaState' = [dmaState EXCEPT ![c] = "configured"]
  /\ dmaAsked' = [dmaAsked EXCEPT ![c] = NoBlocks]
  /\ UNCHANGED <<dmaRaw, dmaMask, dmaPos, dmaOwed, dmaUpset>>

\* qm_dma_transfer_set_config, of a channel configured for a single block.
TransferSetConfig(c) ==
  /\ dmaState[c] \in {"configured", "set"}
  /\ TransferType(c) = "SINGLE" /\ dmaPrv[c].perBuffer = 1
  /\ dmaState' = [dmaState EXCEPT ![c] = "set"]
  /\ dmaAsked' = [dmaAsked EXCEPT ![c] = [size |-> 1, all |-> 1]]
  /\ UNCHANGED <<dmaPrv, dmaReg, dmaRaw, dmaMask, dmaPos, dmaOwed, dmaUpset>>

\* What the block interrupts of a buffer of n blocks count: none are wanted
\* of a chain of one buffer.
BlocksPending(c, n) ==
  IF TransferType(c) = "MULTI_LL" /\ ~dmaReg[c].llp THEN 0 ELSE n

\* qm_dma_multi_transfer_set_config: it counts first, then refuses a channel
\* without chaining or RELOAD (as a contiguous transfer leaves it) and a buffer
\* of another size than the chain's.
MultiTransferSetConfig(c, n) ==
  LET type == TransferType(c)
      first == ~dmaReg[c].llp
      size == IF first THEN n ELSE dmaPrv[c].perBuffer
      refused == type = "SINGLE" \/ (type # "MULTI_CONT" /\ size # n)
      whole == [size |-> n, all |-> IF first THEN n ELSE dmaAsked[c].all + n]
  IN /\ dmaState[c] \in {"configured", "set"}
     /\ first \/ dmaAsked[c].all < DmaMaxBuffers * dmaAsked[c].size
     /\ dmaPrv' = [dmaPrv EXCEPT
          ![c].perBuffer = size, ![c].pending = BlocksPending(c, n),
          ![c].tail = @ \/ (~refused /\ type # "MULTI_CONT")]
     /\ dmaReg' = [dmaReg EXCEPT ![c].llp = @ \/ (~refused /\ type # "MULTI_CONT")]
     /\ dmaState' = [dmaState EXCEPT ![c] = IF refused THEN "configured" ELSE "set"]
     /\ dmaAsked' = [dmaAsked EXCEPT ![c] = IF refused THEN @ ELSE whole]
     /\ UNCHANGED <<dmaRaw, dmaMask, dmaPos, dmaOwed, dmaUpset>>

\* Block interrupts are unmasked if any is waited for.
UnmaskAtStart(c) ==
  {"TFR", "ERR"} \cup (IF dmaPrv[c].pending > 0 THEN {"BLOCK"} ELSE {})

\* A contiguous transfer of one block, or a channel that still runs.
StartsUpset(c) ==
  dmaReg[c].en \/ (dmaReg[c].reload /\ dmaPrv[c].pending = 1)

\* qm_dma_transfer_start
TransferStart(c) ==
  /\ dmaState[c] = "set"
  /\ dmaRaw' = [dmaRaw EXCEPT ![c] = {}]
  /\ dmaMask' = [dmaMask EXCEPT ![c] = @ \cup UnmaskAtStart(c)]
  /\ dmaReg' = [dmaReg EXCEPT ![c].en = TRUE]
  /\ dmaState' = [dmaState EXCEPT ![c] = "busy"]
  /\ dmaPos' = [dmaPos EXCEPT ![c] = 0] /\ dmaOwed' = [dmaOwed EXCEPT ![c] = 0]
  /\ dmaUpset' = (IF StartsUpset(c) THEN dmaUpset \cup {c} ELSE dmaUpset \ {c})
  /\ UNCHANGED <<dmaPrv, dmaAsked>>

\* qm_dma_transfer_terminate calls back with what was moved, which stands for
\* any buffer that is still owed.
TransferTerminate(c) ==
  /\ dmaState[c] = "busy"
  /\ dmaMask' = [dmaMask EXCEPT ![c] = {}]
  /\ dmaReg' = [dmaReg EXCEPT ![c].llp = FALSE, ![c].en = FALSE]
  /\ dmaState' = [dmaState EXCEPT ![c] = "configured"]
  /\ dmaOwed' = [dmaOwed EXCEPT ![c] = 0]
  /\ dmaPos' = [dmaPos EXCEPT ![c] = 0] /\ dmaAsked' = [dmaAsked EXCEPT ![c] = NoBlocks]
  /\ dmaUpset' = dmaUpset \ {c}
  /\ UNCHANGED <<dmaPrv, dmaRaw>>

-----------------------------------------------------------------------------
(* The interrupt handlers.                                                 *)

\* The end of a transfer, or of that of another channel: everything is masked
\* and the client called back.
IsrTransfer(c) ==
  /\ DmaStatus(c) \cap {"TFR", "BLOCK"} # {} /\ "TFR" \in StatusInt
  /\ dmaRaw' = [dmaRaw EXCEPT ![c] = @ \ {"TFR", "BLOCK"}]
  /\ dmaMask' = [dmaMask EXCEPT ![c] = {}]
  /\ dmaReg' = [dmaReg EXCEPT ![c].llp = FALSE]
  /\ dmaState' = [dmaState EXCEPT ![c] = "configured"]
  /\ dmaOwed' = [dmaOwed EXCEPT ![c] = @ - 1]
  /\ IF "TFR" \in dmaRaw[c]
     THEN /\ dmaPos' = [dmaPos EXCEPT ![c] = 0]
          /\ dmaAsked' = [dmaAsked EXCEPT ![c] = NoBlocks]
          /\ UNCHANGED dmaUpset
     ELSE /\ dmaUpset' = dmaUpset \cup {c}
          /\ UNCHANGED <<dmaPos, dmaAsked>>
  /\ UNCHANGED dmaPrv

\* The counter comes round.
Decrement(n) == (n - 1) % (MaxCount + 1)

\* Mutant: the last one does.
LastReloadLate(left) == left = 0

\* The last block but one stops the reloading.
LastReload(left) == left = 1

\* Mutant: every block of a chain is reported.
BufferDoneAlways(left) == TRUE

\* The callback that ends a buffer of a chain.
BufferDone(left) == left = 0

\* The end of a block of a multi-block transfer.
IsrBlock(c) ==
  LET left == Decrement(dmaPrv[c].pending)
      done == dmaPrv[c].tail /\ BufferDone(left)
  IN /\ "BLOCK" \in DmaStatus(c) /\ "TFR" \notin StatusInt
     /\ dmaRaw' = [dmaRaw EXCEPT ![c] = @ \ {"BLOCK"}]
     /\ dmaPrv' = [dmaPrv EXCEPT ![c].pending =
                     IF done THEN dmaPrv[c].perBuffer ELSE left]
     /\ dmaReg' = [dmaReg EXCEPT ![c].reload =
                     @ /\ ~(~dmaPrv[c].tail /\ LastReload(left))]
     /\ dmaOwed' = [dmaOwed EXCEPT ![c] = IF done THEN @ - 1 ELSE @]
     /\ UNCHANGED <<dmaMask, dmaState, dmaAsked, dmaPos, dmaUpset>>

\* qm_dma_isr_err_handler serves every channel in error.
IsrError ==
  LET bad == {c \in DmaChannels : "ERR" \in DmaStatus(c)}
  IN /\ bad # {}
     /\ dmaRaw' = [c \in DmaChannels |->
                     IF c \in bad THEN dmaRaw[c] \ {"ERR"} ELSE dmaRaw[c]]
     /\ dmaMask' = [c \in DmaChannels |-> IF c \in bad THEN {} ELSE dmaMask[c]]
     /\ dmaState' = [c \in DmaChannels |-> IF c \in bad THEN "off" ELSE dmaState[c]]
     /\ dmaOwed' = [c \in DmaChannels |-> IF c \in bad THEN 0 ELSE dmaOwed[c]]
     /\ dmaPos' = [c \in DmaChannels |-> IF c \in bad THEN 0 ELSE dmaPos[c]]
     /\ dmaAsked' = [c \in DmaChannels |-> IF c \in bad THEN NoBlocks ELSE dmaAsked[c]]
     /\ UNCHANGED <<dmaPrv, dmaReg, dmaUpset>>

-----------------------------------------------------------------------------
(* The controller.                                                         *)

\* Which block is the last: RELOAD goes on, a circular chain has no end.
LastBlock(c) ==
  CASE dmaReg[c].reload -> FALSE
    [] dmaReg[c].chain  -> ~dmaPrv[c].circular /\ dmaPos[c] + 1 = dmaAsked[c].all
    [] OTHER            -> TRUE

\* A block has been moved, and perhaps a buffer with it.
MoveBlock(c) ==
  LET turn == dmaReg[c].chain /\ dmaPrv[c].circular
                /\ dmaPos[c] + 1 = dmaAsked[c].all
      ends == dmaAsked[c].size > 0 /\ (dmaPos[c] + 1) % dmaAsked[c].size = 0
  IN /\ dmaReg[c].en /\ DmaStatus(c) = {}
     /\ dmaPos[c] <= dmaAsked[c].all
     /\ dmaPos' = [dmaPos EXCEPT ![c] = IF turn THEN 0 ELSE @ + 1]
     /\ dmaOwed' = [dmaOwed EXCEPT ![c] = IF ends THEN @ + 1 ELSE @]
     /\ dmaRaw' = [dmaRaw EXCEPT ![c] =
                     @ \cup {"BLOCK"} \cup (IF LastBlock(c) THEN {"TFR"} ELSE {})]
     /\ dmaReg' = [dmaReg EXCEPT ![c].en = ~LastBlock(c)]
     /\ UNCHANGED <<dmaPrv, dmaMask, dmaState, dmaAsked, dmaUpset>>

\* A bus error stops the channel.
BusError(c) ==
  /\ dmaReg[c].en /\ DmaStatus(c) = {}
  /\ dmaRaw' = [dmaRaw EXCEPT ![c] = @ \cup {"ERR"}]
  /\ dmaReg' = [dmaReg EXCEPT ![c].en = FALSE]
  /\ UNCHANGED <<dmaPrv, dmaMask, dmaState, dmaAsked, dmaPos, dmaOwed, dmaUpset>>

DmaStep(c) == IsrTransfer(c) \/ IsrBlock(c) \/ MoveBlock(c)

DmaNext ==
  \/ \E c \in DmaChannels :
       \/ \E type \in DmaTypes : ChannelSetConfig(c, type)
       \/ TransferSetConfig(c)
       \/ \E n \in DmaBlocks : MultiTransferSetConfig(c, n)
       \/ TransferStart(c) \/ TransferTerminate(c)
       \/ IsrTransfer(c) \/ IsrBlock(c)
       \/ MoveBlock(c) \/ BusError(c)
  \/ IsrError

DmaSpec == DmaInit /\ [][DmaNext]_dmaVars

\* Each channel moves its blocks, and its interrupts are served.
DmaFairness ==
  (\A c \in DmaChannels : WF_dmaVars(DmaStep(c))) /\ WF_dmaVars(IsrError)

-----------------------------------------------------------------------------
(* Properties.                                                             *)

DmaConfigs == [perBuffer : 0 .. MaxCount, pending : 0 .. MaxCount,
               tail : BOOLEAN, circular : BOOLEAN]
DmaRegisters == [chain : BOOLEAN, reload : BOOLEAN, llp : BOOLEAN, en : BOOLEAN]
DmaRequests == [size : Nat, all : Nat]
DmaStates == {"off", "configured", "set", "busy"}

DmaTypeOK ==
  /\ dmaPrv \in [DmaChannels -> DmaConfigs]
  /\ dmaReg \in [DmaChannels -> DmaRegisters]
  /\ dmaRaw \in [DmaChannels -> SUBSET DmaInterrupts]
  /\ dmaMask \in [DmaChannels -> SUBSET DmaInterrupts]
  /\ dmaState \in [DmaChannels -> DmaStates]
  /\ dmaAsked \in [DmaChannels -> DmaRequests]
  /\ dmaPos \in [DmaChannels -> Nat] /\ dmaOwed \in [DmaChannels -> Int]
  /\ dmaUpset \subseteq DmaChannels

\* A contiguous or chained transfer moves the blocks it was given and no more,
\* though the handler, block by block, has to tell the controller where to
\* stop (qm_dma.c:114-129).  It has no chance to when there is only one, or
\* when it takes the end of another channel's transfer for that of this one.
NeverPastBuffer ==
  \A c \in DmaChannels \ dmaUpset : dmaPos[c] <= dmaAsked[c].all

\* Each buffer results in one callback (qm_dma.h:222): a buffer is owed only
\* while its interrupt is pending, none is reported before its last block, and
\* a transfer that has ended owes none.  The two cases above are left out again.
OneCallbackPerBuffer ==
  \A c \in DmaChannels \ dmaUpset :
    /\ dmaOwed[c] \in {0, 1}
    /\ dmaOwed[c] = 1 => dmaState[c] = "busy" /\ DmaStatus(c) # {}

\* A transfer that has an end is reported.
DmaCompletes ==
  \A c \in DmaChannels :
    dmaState[c] = "busy" /\ ~dmaPrv[c].circular
      ~> dmaState[c] # "busy" \/ c \in dmaUpset

\* qm_dma.c:65 asserts that a channel whose handler finds the end of a transfer
\* in the status register has itself ended one.
OwnTransferEnded ==
  \A c \in DmaChannels :
    DmaStatus(c) \cap {"TFR", "BLOCK"} # {} /\ "TFR" \in StatusInt
      => "TFR" \in DmaStatus(c)
-----------------------------------------------------------------------------
(* The inductive invariant behind the two.                                 *)

\* A channel that does not run owes nothing.
AtRest(c) == dmaPos[c] = 0 /\ dmaOwed[c] = 0 /\ ~dmaReg[c].en

\* A chain is a whole number of buffers of the size the driver keeps.
Chained(c) ==
  /\ dmaPrv[c].tail /\ dmaAsked[c].size = dmaPrv[c].perBuffer
  /\ dmaAsked[c].size \in DmaBlocks
  /\ dmaAsked[c].all >= dmaAsked[c].size
  /\ dmaAsked[c].all % dmaAsked[c].size = 0

\* Of a channel that was set, the blocks the handler is going to count.
CountsRight(c) ==
  LET a == dmaAsked[c]
      p == dmaPrv[c].pending
  IN  IF dmaReg[c].chain
      THEN p = IF a.all = a.size /\ ~dmaPrv[c].circular THEN 0 ELSE a.size
      ELSE a.size = a.all /\ IF dmaReg[c].reload THEN p = a.all /\ p >= 1 ELSE a.all = 1

\* The last block of a transfer that does not reload, or its only one.
LastRuns(c) ==
  /\ dmaAsked[c].size = dmaAsked[c].all /\ dmaAsked[c].all >= 1
  /\ dmaPos[c] \in {dmaAsked[c].all - 1, dmaAsked[c].all}
  /\ dmaReg[c].en => dmaPos[c] = dmaAsked[c].all - 1
  /\ "BLOCK" \in dmaRaw[c] => "TFR" \in dmaRaw[c]

BlockMoved(c) == IF "BLOCK" \in dmaRaw[c] THEN 1 ELSE 0

\* A contiguous transfer before its last block but one was counted: what is left
\* to count is what is left to move.
Reloads(c) ==
  /\ "TFR" \notin dmaRaw[c] /\ "BLOCK" \in dmaMask[c]
  /\ dmaAsked[c].size = dmaAsked[c].all
  /\ dmaPrv[c].pending \in 2 .. dmaAsked[c].all
  /\ dmaPos[c] + dmaPrv[c].pending = dmaAsked[c].all + BlockMoved(c)

\* A chain under way: the count is that to the end of the present buffer.
ChainRuns(c) ==
  LET size == dmaAsked[c].size
      p == dmaPrv[c].pending
  IN  /\ Chained(c)
      /\ dmaPos[c] <= dmaAsked[c].all
      /\ dmaReg[c].en => dmaPos[c] < dmaAsked[c].all
      /\ p = 0 => /\ "BLOCK" \notin dmaMask[c] /\ ~dmaPrv[c].circular
                  /\ dmaAsked[c].all = size
      /\ p # 0 => /\ "BLOCK" \in dmaMask[c] /\ p \in 1 .. size
                  /\ (dmaPos[c] + p - BlockMoved(c)) % size = 0
                  /\ "TFR" \in dmaRaw[c] => "BLOCK" \in dmaRaw[c]

\* Whether a buffer was moved whose interrupt is pending.
Owes(c) ==
  IF dmaReg[c].chain /\ dmaPrv[c].pending # 0
  THEN "BLOCK" \in dmaRaw[c] /\ dmaPos[c] % dmaAsked[c].size = 0
  ELSE "TFR" \in dmaRaw[c]

Runs(c) ==
  /\ {"TFR", "ERR"} \subseteq dmaMask[c]
  /\ dmaReg[c].en => dmaRaw[c] \cap {"TFR", "ERR"} = {}
  /\ "TFR" \in dmaRaw[c] => dmaPos[c] = dmaAsked[c].all
  /\ dmaOwed[c] = IF Owes(c) THEN 1 ELSE 0
  /\ IF dmaReg[c].chain THEN ChainRuns(c)
     ELSE IF dmaReg[c].reload THEN Reloads(c) ELSE LastRuns(c)

DmaChannelInv(c) ==
  /\ dmaState[c] # "busy" => dmaMask[c] = {} /\ (c \notin dmaUpset => AtRest(c))
  /\ dmaPrv[c].tail \/ dmaReg[c].llp => dmaReg[c].chain
  /\ dmaReg[c].chain => ~dmaReg[c].reload
  /\ dmaReg[c].llp /\ dmaState[c] # "off" => Chained(c)
  /\ dmaState[c] = "set" => CountsRight(c) /\ dmaReg[c].llp = dmaReg[c].chain
  /\ dmaState[c] = "busy" /\ c \notin dmaUpset => Runs(c)

DmaInv == DmaTypeOK /\ \A c \in DmaChannels : DmaChannelInv(c)
=============================================================================
