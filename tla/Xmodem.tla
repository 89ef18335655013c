--------------------------------- MODULE Xmodem ---------------------------------
(***************************************************************************)
(* One package over XMODEM: xmodem_transmit_package at one end of a serial *)
(* line, xmodem_receive_package at the other, and the QDA layer that takes *)
(* what was received for a request.                                        *)
(*                                                                         *)
(* A packet is its number: its contents are the k-th 128 bytes of the      *)
(* package, and a package is far shorter than 256 packets.  The line loses *)
(* bytes and corrupts them.  A packet whose body was corrupted is a        *)
(* "badPacket", which the CRC shows up; anything that does not begin as it *)
(* should, or lacks bytes, is "noise".  Noise is never taken for a control *)
(* byte, which XMODEM does not protect.                                    *)
(***************************************************************************)
EXTENDS Naturals, Sequences

CONSTANTS
  MaxRetransmit,  \* MAX_RETRANSMIT
  MaxRxErrors,    \* MAX_RX_ERRORS
  Room,           \* packets that fit in the receiver's buffer
  Lengths,        \* the lengths of package considered, in packets
  LateSender,     \* the sender may begin after the receiver
  MaxFaults,      \* bound: what the line loses or corrupts
  MaxEarly        \* bound: timeouts before the other end had its time to answer

ASSUME XmodemAssumption ==
  /\ MaxRetransmit \in Nat \ {0} /\ MaxRxErrors \in Nat \ {0} /\ Room \in Nat
  /\ Lengths \subseteq Nat \ {0} /\ LateSender \in BOOLEAN
  /\ MaxFaults \in Nat /\ MaxEarly \in Nat

VARIABLES
  n,        \* the length of the package
  s,        \* the sender: what it waits for, or how it ended
  pktNo,    \* the packet it is sending
  left,     \* retransmit: the attempts it has left
  r,        \* the receiver: what it is doing, or how it ended
  got,      \* data_cnt, in packets; exp_seq_no is one more
  errCnt,   \* err_cnt
  request,  \* what QDA made of the package
  toR, toS, \* what is on the line
  faults, early,  \* counters for the bounds
  waited,   \* the receiver timed out since the sender began to wait
  invites   \* ghost: the 'C' bytes the receiver has sent

sender == <<s, pktNo, left>>
receiver == <<r, got, errCnt>>
ghosts == <<early, waited, invites>>
vars == <<n, sender, receiver, request, toR, toS, faults, ghosts>>

Ended == {"ok", "failed"}

\* What travels to the receiver, with the number of a packet.
Packet(k) == <<"SOH", k>>
Eot == <<"EOT", 0>>
BadPacket == <<"badPacket", 0>>
Noise == <<"noise", 0>>

Init ==
  /\ n \in Lengths
  /\ s = IF LateSender THEN "idle" ELSE "awaitC"
  /\ pktNo = 0 /\ left = MaxRetransmit - 1
  /\ r = "start" /\ got = 0 /\ errCnt = 0
  /\ request = "none"
  /\ toR = <<>> /\ toS = <<>>
  /\ faults = 0 /\ early = 0 /\ waited = FALSE /\ invites = 0

-----------------------------------------------------------------------------
(* The line and the clock.                                                 *)

\* Putting x on the line q: it gets there, or is lost, or arrives as one of the
\* damaged things.
Put(q, x, damaged, qNew) ==
  \/ qNew = Append(q, x) /\ UNCHANGED faults
  \/ /\ faults < MaxFaults /\ faults' = faults + 1
     /\ qNew \in {q} \cup {Append(q, y) : y \in damaged}

\* A timeout is in time when nothing is on its way to the one who waits, nor to
\* another end that is there to answer; any other one counts as early.
Quiet(mine, theirs, away) == mine = <<>> /\ (theirs = <<>> \/ away)

InTime(condition) ==
  \/ condition /\ UNCHANGED early
  \/ ~condition /\ early < MaxEarly /\ early' = early + 1

-----------------------------------------------------------------------------
(* The sender.                                                             *)

Begin ==
  /\ s = "idle" /\ s' = "awaitC" /\ waited' = FALSE
  /\ UNCHANGED <<n, pktNo, left, receiver, request, toR, toS, faults, early,
                 invites>>

\* Mutant: the attempts are never used up.
TryForEver == left > 0 /\ UNCHANGED left

\* while (retransmit--): there is an attempt left, and it is used.
TryAgain == left > 0 /\ left' = left - 1

\* Mutant: any answer of the receiver is good.
Answered(b) == b \in {"ACK", "NAK"}

Acked(b) == b = "ACK"

\* What the sender has to send now: the packet, or EOT after the last one.
\* A receiver that has returned leaves it to whoever reads the line next.
Transmit(k) ==
  \/ r \in Ended /\ UNCHANGED <<toR, faults>>
  \/ r \notin Ended /\ k <= n /\ Put(toR, Packet(k), {BadPacket, Noise}, toR')
  \/ r \notin Ended /\ k > n /\ Put(toR, Eot, {Noise}, toR')

StartTransmit ==
  /\ s = "awaitC" /\ toS # <<>> /\ Head(toS) = "C"
  /\ s' = "awaitAck" /\ pktNo' = 1 /\ left' = MaxRetransmit - 1
  /\ toS' = Tail(toS) /\ Transmit(1)
  /\ waited' = FALSE
  /\ UNCHANGED <<n, receiver, request, early, invites>>

\* The packet is acknowledged: the next one, or EOT, or success.
GetAck ==
  /\ s = "awaitAck" /\ toS # <<>> /\ Acked(Head(toS))
  /\ toS' = Tail(toS)
  /\ IF pktNo > n
     THEN s' = "ok" /\ UNCHANGED <<pktNo, left, toR, faults>>
     ELSE /\ pktNo' = pktNo + 1 /\ left' = MaxRetransmit - 1
          /\ Transmit(pktNo + 1) /\ UNCHANGED s
  /\ waited' = FALSE
  /\ UNCHANGED <<n, receiver, request, early, invites>>

\* Any other byte, and a timeout, cost an attempt; the last one ends it all.
\* Waiting for 'C', there is nothing to retransmit.
Retry ==
  /\ \/ /\ TryAgain /\ UNCHANGED <<s, pktNo>>
        /\ IF s = "awaitC" THEN UNCHANGED <<toR, faults>> ELSE Transmit(pktNo)
     \/ left = 0 /\ s' = "failed" /\ UNCHANGED <<pktNo, left, toR, faults>>
  /\ waited' = FALSE
  /\ UNCHANGED <<n, receiver, request, invites>>

GetOther ==
  /\ \/ s = "awaitC" /\ toS # <<>> /\ Head(toS) # "C"
     \/ s = "awaitAck" /\ toS # <<>> /\ ~Acked(Head(toS))
  /\ toS' = Tail(toS)
  /\ Retry
  /\ UNCHANGED early

\* The receiver's timeout is the shorter one, as xmodem.c asks for: by the
\* sender's, a receiver that is there has timed out.
SenderTimeout ==
  /\ s \in {"awaitC", "awaitAck"}
  /\ InTime(Quiet(toS, toR, r \in Ended) /\ (waited \/ r \in Ended))
  /\ Retry
  /\ UNCHANGED toS

Sender == Begin \/ StartTransmit \/ GetAck \/ GetOther \/ SenderTimeout

-----------------------------------------------------------------------------
(* The receiver.                                                           *)

Reply(cmd) ==
  /\ Put(toS, cmd, {"noise"}, toS')
  /\ invites' = IF cmd = "C" THEN invites + 1 ELSE invites

\* Until a packet has come, 'C' stands for NAK.
Nak == IF got = 0 THEN "C" ELSE "NAK"

Invite ==
  /\ r = "start" /\ r' = "read"
  /\ Reply("C")
  /\ UNCHANGED <<n, sender, got, errCnt, request, toR, early, waited>>

\* An error is answered in the loop or, the last one, behind it.
Fail ==
  /\ errCnt' = errCnt + 1
  /\ r' = IF errCnt' < MaxRxErrors THEN "read" ELSE "failed"
  /\ Reply(Nak)
  /\ UNCHANGED <<n, sender, got, request>>

\* The receiver looks at x, the next on the line.
Reading(x) == r = "read" /\ toR # <<>> /\ x = Head(toR) /\ toR' = Tail(toR)

\* Mutants: a buffer taken to hold one packet more; duplicates not seen.
HasRoomForMore == got <= Room
IsOlder(k) == k + 1 = got

HasRoom == got < Room
IsDuplicate(k) == k = got

ReadPacket ==
  /\ Reading(Packet(got + 1)) /\ HasRoom
  /\ got' = got + 1 /\ errCnt' = 0
  /\ Reply("ACK")
  /\ UNCHANGED <<n, sender, r, request, early, waited>>

ReadDuplicate ==
  /\ \E k \in 1..n : Reading(Packet(k)) /\ IsDuplicate(k)
  /\ Reply("ACK")
  /\ UNCHANGED <<n, sender, receiver, request, early, waited>>

\* A packet out of sequence, or one that no longer fits.
Cancel ==
  /\ \E k \in 1..n : /\ Reading(Packet(k)) /\ ~IsDuplicate(k)
                     /\ k = got + 1 => ~HasRoom
  /\ r' = "failed"
  /\ Reply("CAN")
  /\ UNCHANGED <<n, sender, got, errCnt, request, early, waited>>

ReadEot ==
  /\ Reading(Eot)
  /\ r' = "ok"
  /\ Reply("ACK")
  /\ UNCHANGED <<n, sender, got, errCnt, request, early, waited>>

ReadBadPacket ==
  /\ Reading(BadPacket)
  /\ Fail
  /\ UNCHANGED <<early, waited>>

\* An unexpected first byte: everything is thrown away until a timeout.
ReadNoise ==
  /\ Reading(Noise)
  /\ r' = "discard"
  /\ UNCHANGED <<n, sender, got, errCnt, request, toS, faults, ghosts>>

Discard ==
  /\ r = "discard" /\ toR # <<>>
  /\ toR' = Tail(toR)
  /\ UNCHANGED <<n, sender, receiver, request, toS, faults, ghosts>>

ReceiverTimeout ==
  /\ r \in {"read", "discard"}
  /\ InTime(Quiet(toR, toS, s \in {"idle"} \cup Ended))
  /\ Fail
  /\ waited' = TRUE
  /\ UNCHANGED toR

\* Mutant: QDA trusts the transport.
NoLengthCheck == TRUE

\* expected_len is what the request's header announces.
LengthCheck == got >= n

\* qda_receive_loop: an empty package ends the session.
Qda ==
  /\ request = "none" /\ r \in Ended
  /\ request' = IF r = "failed" \/ got = 0 THEN "left"
                ELSE IF LengthCheck THEN "processed" ELSE "stalled"
  /\ UNCHANGED <<n, sender, receiver, toR, toS, faults, ghosts>>

Receiver == \/ Invite \/ ReadPacket \/ ReadDuplicate \/ Cancel \/ ReadEot
            \/ ReadBadPacket \/ ReadNoise \/ Discard \/ ReceiverTimeout \/ Qda

\* Both ends have returned.
Done == s \in Ended /\ request # "none" /\ UNCHANGED vars

Next == Sender \/ Receiver \/ Done

Spec == Init /\ [][Next]_vars

\* Each end runs; a sender that comes late does come.
FairSpec == Spec /\ WF_vars(Sender) /\ WF_vars(Receiver)

-----------------------------------------------------------------------------
(* Properties.                                                             *)

Items == {Packet(k) : k \in 1..n} \cup {Eot, BadPacket, Noise}
Bytes == {"C", "NAK", "ACK", "CAN", "noise"}

TypeOK ==
  /\ n \in Lengths
  /\ toR \in Seq(Items) /\ toS \in Seq(Bytes)
  /\ s \in {"idle", "awaitC", "awaitAck"} \cup Ended
  /\ pktNo \in 0..(n + 1) /\ left \in 0..(MaxRetransmit - 1)
  /\ r \in {"start", "read", "discard"} \cup Ended
  /\ got \in 0..Room /\ errCnt \in 0..MaxRxErrors
  /\ request \in {"none", "left", "processed", "stalled"}
  /\ faults \in 0..MaxFaults /\ early \in 0..MaxEarly
  /\ waited \in BOOLEAN /\ invites \in 0..(MaxRxErrors + 1)

\* Stop and wait: with timeouts in time, the two ends are never more than one
\* packet apart, whatever the line loses, and a package that ends well is whole.
InStep ==
  /\ pktNo \in {got, got + 1}
  /\ r = "ok" => got = n
  /\ s = "ok" => r = "ok"

\* Late answers may make XMODEM lose packets; QDA processes whole requests only.
RequestsWhole == request = "processed" => got = n

\* The invariant the proofs use.  After the first packet no 'C' is sent, and
\* until then each one but the first answers an error.
XmInv ==
  /\ TypeOK
  /\ got <= n
  /\ s = "awaitAck" => pktNo > 0
  /\ r \in {"read", "discard"} => errCnt < MaxRxErrors
  /\ r = "start" => got = 0 /\ errCnt = 0 /\ invites = 0
  /\ got = 0 => invites <= errCnt + 1
  /\ request # "none" => r \in Ended
  /\ RequestsWhole

\* What travels when timeouts are in time: one thing, that belongs to the
\* packet the sender is at.  An ACK is that packet's, or EOT's.
InFlight ==
  /\ r \notin Ended => Len(toR) <= 1
  /\ s \notin Ended => Len(toS) <= 1
  /\ r \notin Ended /\ s \notin Ended => toR = <<>> \/ toS = <<>>
  /\ r \notin Ended /\ toR # <<>> =>
       /\ \A k \in 1..n : Head(toR) = Packet(k) => k = pktNo
       /\ Head(toR) = Eot => pktNo = n + 1
  /\ s \notin Ended /\ toS # <<>> /\ Acked(Head(toS)) =>
       got = pktNo \/ (r = "ok" /\ pktNo = n + 1)

\* The invariant behind InStep.  Nothing is sent before the first 'C'.
StepInv ==
  /\ InStep
  /\ InFlight
  /\ s # "idle"
  /\ s = "awaitC" => pktNo = 0
  /\ r = "start" => toR = <<>> /\ toS = <<>> /\ s # "awaitAck"

\* Both ends return, whatever the line does: there are bounds on every retry.
TransferEnds == <>(s \in Ended /\ r \in Ended)

\* Fewer faults than the receiver tolerates in a row cost nothing: a package
\* that fits is received.
Delivered == n <= Room => <>(r = "ok")

\* xmodem.c:229-231 on EOT: "The previous packet we received was the last one."
EotAfterLast == r = "ok" => got = n
=============================================================================
