---------------------------- MODULE XmodemRunProofs ----------------------------
(***************************************************************************)
(* The specification TLC runs is about two instances of Xmodem, of which a *)
(* behaviour follows one.  What XmodemProofs proves holds of each with its *)
(* own constants: of the module's, and of those of Late.                   *)
(***************************************************************************)
EXTENDS MCXmodem, XmodemProofs

\* The theorems about Xmodem, for the constants of Late.
LateProofs == INSTANCE XmodemProofs
                WITH MaxRetransmit <- 3, MaxRxErrors <- 3, Room <- 3, Lengths <- {2, 3},
                     LateSender <- TRUE, MaxFaults <- 2, MaxEarly <- 1

\* They are about the same module as Late.
LEMMA LateInit == Late!Init => LateProofs!Init
  BY DEF Late!Init, LateProofs!Init

LEMMA LateSends == Late!Sender => LateProofs!Sender
  BY DEF Late!sender, LateProofs!sender, Late!receiver, LateProofs!receiver,
     Late!ghosts, LateProofs!ghosts, Late!Ended, LateProofs!Ended,
     Late!Packet, LateProofs!Packet, Late!Eot, LateProofs!Eot,
     Late!BadPacket, LateProofs!BadPacket, Late!Noise, LateProofs!Noise,
     Late!Put, LateProofs!Put, Late!Quiet, LateProofs!Quiet,
     Late!InTime, LateProofs!InTime, Late!TryAgain, LateProofs!TryAgain,
     Late!Acked, LateProofs!Acked, Late!Transmit, LateProofs!Transmit,
     Late!Begin, LateProofs!Begin, Late!StartTransmit,
     LateProofs!StartTransmit, Late!GetAck, LateProofs!GetAck,
     Late!Retry, LateProofs!Retry, Late!GetOther, LateProofs!GetOther,
     Late!SenderTimeout, LateProofs!SenderTimeout, Late!Sender,
     LateProofs!Sender

LEMMA LateReceives == Late!Receiver => LateProofs!Receiver
  BY DEF Late!sender, LateProofs!sender, Late!receiver, LateProofs!receiver,
     Late!ghosts, LateProofs!ghosts, Late!Ended, LateProofs!Ended,
     Late!Packet, LateProofs!Packet, Late!Eot, LateProofs!Eot,
     Late!BadPacket, LateProofs!BadPacket, Late!Noise, LateProofs!Noise,
     Late!Put, LateProofs!Put, Late!Quiet, LateProofs!Quiet,
     Late!InTime, LateProofs!InTime, Late!Reply, LateProofs!Reply,
     Late!Nak, LateProofs!Nak, Late!Invite, LateProofs!Invite,
     Late!Fail, LateProofs!Fail, Late!Reading, LateProofs!Reading,
     Late!HasRoom, LateProofs!HasRoom, Late!IsDuplicate,
     LateProofs!IsDuplicate, Late!ReadPacket, LateProofs!ReadPacket,
     Late!ReadDuplicate, LateProofs!ReadDuplicate, Late!Cancel,
     LateProofs!Cancel, Late!ReadEot, LateProofs!ReadEot,
     Late!ReadBadPacket, LateProofs!ReadBadPacket, Late!ReadNoise,
     LateProofs!ReadNoise, Late!Discard, LateProofs!Discard,
     Late!ReceiverTimeout, LateProofs!ReceiverTimeout, Late!LengthCheck,
     LateProofs!LengthCheck, Late!Qda, LateProofs!Qda, Late!Receiver,
     LateProofs!Receiver

LEMMA LateStep == [Late!Next]_vars => [LateProofs!Next]_(LateProofs!vars)
  BY LateSends, LateReceives DEF Late!Next, LateProofs!Next, Late!Done,
     LateProofs!Done, vars, Late!vars, LateProofs!vars, sender, receiver, ghosts,
     Late!sender, Late!receiver, Late!ghosts, LateProofs!sender,
     LateProofs!receiver, LateProofs!ghosts, Late!Ended, LateProofs!Ended

\* Whichever instance a behaviour follows, its invariant holds.
RunInv == IF late THEN LateProofs!XmInv ELSE XmInv

LEMMA RunInvInit == MCInit => RunInv
  BY InitXm, LateInit, LateProofs!InitXm DEF MCInit, RunInv

LEMMA RunInvStep == RunInv /\ [MCNext]_mcVars => RunInv'
<1>. SUFFICES ASSUME RunInv, [MCNext]_mcVars PROVE RunInv'
  OBVIOUS
<1>1. CASE late
  <2>1. late' = late /\ [Late!Next]_vars
    BY <1>1 DEF MCNext, MCPrompt, MCLate, mcVars
  <2>. QED
    BY <1>1, <2>1, LateStep, LateProofs!StepXm DEF RunInv
<1>2. CASE ~late
  <2>1. late' = late /\ [Next]_vars
    BY <1>2 DEF MCNext, MCPrompt, MCLate, mcVars
  <2>. QED
    BY <1>2, <2>1, StepXm DEF RunInv
<1>. QED
  BY <1>1, <1>2

\* The invariant of XmodemProofs holds of either instance.
THEOREM RunInvariance == MCSpec => []RunInv
  BY RunInvInit, RunInvStep, PTL DEF MCSpec

\* What is received stays within the buffer of xmodem_receive_package, and every
\* retry of either end within its bound, for the constants of the configuration,
\* whatever they are, and for those of Late, with its early timeouts.
THEOREM ReceivedWithinBuffer == MCSpec => []WithinBuffer
<1>1. RunInv => WithinBuffer
  BY DEF RunInv, XmInv, LateProofs!XmInv, WithinBuffer, Late!TypeOK,
     LateProofs!TypeOK, Late!Items, LateProofs!Items, Late!Bytes, LateProofs!Bytes,
     Late!Packet, LateProofs!Packet, Late!Eot, LateProofs!Eot, Late!BadPacket,
     LateProofs!BadPacket, Late!Noise, LateProofs!Noise, Late!Ended, LateProofs!Ended
<1>. QED
  BY <1>1, RunInvariance, PTL

\* QDA processes only whole requests, whichever instance the run follows.
THEOREM RunsProcessWholeRequests == MCSpec => []RequestsWhole
<1>1. RunInv => RequestsWhole
  BY DEF RunInv, XmInv, LateProofs!XmInv, RequestsWhole, LateProofs!RequestsWhole
<1>. QED
  BY <1>1, RunInvariance, PTL

\* The same of the specification that TLC runs: whichever of its two instances
\* a behaviour is about, the one with timeouts in time stays in step.
THEOREM PromptStopAndWait ==
  ASSUME MaxEarly = 0, ~LateSender
  PROVE  MCSpec => []PromptInStep
<1> DEFINE PromptInv == ~late => XmInv /\ StepInv
<1>1. MCInit => PromptInv
  BY InitXm, InitStep DEF MCInit
<1>2. PromptInv /\ [MCNext]_mcVars => PromptInv'
  <2> SUFFICES ASSUME PromptInv, [MCNext]_mcVars, ~late' PROVE (XmInv /\ StepInv)'
    OBVIOUS
  <2>1. ~late /\ [Next]_vars
    BY DEF MCNext, MCPrompt, MCLate, mcVars
  <2> QED
    BY <2>1, StepXm, StepStep
<1>3. PromptInv => PromptInStep
  BY DEF StepInv, PromptInStep
<1> QED
  BY <1>1, <1>2, <1>3, PTL DEF MCSpec
=============================================================================
