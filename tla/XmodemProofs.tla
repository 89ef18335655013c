---------------------------- MODULE XmodemProofs ----------------------------
(***************************************************************************)
(* XmInv is inductive for packages, buffers and retry bounds of any size,  *)
(* however much the line loses and however early the timeouts come.        *)
(* StepInv is inductive as well when timeouts are in time and the sender    *)
(* is there first.                                                         *)
(***************************************************************************)
EXTENDS Xmodem, TLAPS

USE XmodemAssumption

\* A reply costs one fault at most, and leaves bytes on the line.
LEMMA ReplyInv ==
  ASSUME XmInv, NEW cmd \in Bytes, Reply(cmd)
  PROVE  toS' \in Seq(Bytes) /\ faults' \in 0..MaxFaults
<1>1. CASE toS' = Append(toS, cmd) /\ UNCHANGED faults
  BY <1>1 DEF XmInv, TypeOK
<1>2. CASE faults < MaxFaults /\ faults' = faults + 1 /\ toS' = toS
  BY <1>2 DEF XmInv, TypeOK
<1>3. CASE faults < MaxFaults /\ faults' = faults + 1
           /\ toS' = Append(toS, "noise")
  BY <1>3 DEF XmInv, TypeOK, Bytes
<1> QED
  BY <1>1, <1>2, <1>3 DEF Reply, Put

\* An error costs the receiver one of its attempts, and one 'C' at most.
LEMMA FailInv ==
  ASSUME XmInv, Fail, r \in {"read", "discard"}
  PROVE  /\ errCnt' \in 0..MaxRxErrors /\ r' \in {"read", "failed"}
         /\ r' = "read" => errCnt' < MaxRxErrors
         /\ faults' \in 0..MaxFaults /\ invites' \in 0..(MaxRxErrors + 1)
         /\ got = 0 => invites' <= errCnt' + 1
         /\ toS' \in Seq(Bytes)
<1>1. toS' \in Seq(Bytes) /\ faults' \in 0..MaxFaults
  BY ReplyInv DEF Fail, Nak, Bytes
<1>2. invites' = IF Nak = "C" THEN invites + 1 ELSE invites
  BY DEF Fail, Reply
<1> QED
  BY <1>1, <1>2 DEF Fail, Nak, XmInv, TypeOK, Ended

\* What is read from the line was on it, and the rest stays.
LEMMA ReadInv ==
  ASSUME XmInv, NEW x, Reading(x)
  PROVE  x \in Items /\ toR' \in Seq(Items) /\ r = "read"
<1>1. toR \in Seq(Items) /\ toR # <<>>
  BY DEF Reading, XmInv, TypeOK
<1>2. Head(toR) \in Items /\ Tail(toR) \in Seq(Items)
  BY <1>1
<1> QED
  BY <1>2 DEF Reading

\* The initial states satisfy the invariant.
LEMMA InitXm == ASSUME Init PROVE XmInv
<1>1. waited \in BOOLEAN
  BY Zenon DEF Init
<1>2. s \in {"idle", "awaitC", "awaitAck"} \cup Ended
  BY DEF Init
<1> QED
  BY <1>1, <1>2 DEF Init, XmInv, TypeOK, RequestsWhole, Ended

\* A transmission costs one fault at most.
LEMMA TransmitInv ==
  ASSUME XmInv, NEW k \in 1..(n + 1), Transmit(k)
  PROVE  faults' \in 0..MaxFaults /\ toR' \in Seq(Items)
<1>1. toR \in Seq(Items) /\ faults \in 0..MaxFaults
  BY DEF XmInv, TypeOK
<1>2. CASE r \in Ended
  BY <1>1, <1>2 DEF Transmit
<1>3. CASE r \notin Ended
  <2>1. PICK x \in Items, damaged \in SUBSET Items : Put(toR, x, damaged, toR')
    <3>1. CASE k <= n
      BY <1>3, <3>1 DEF Transmit, Items, XmInv, TypeOK
    <3>2. CASE ~(k <= n)
      BY <1>3, <3>2 DEF Transmit, Items, XmInv, TypeOK
    <3> QED
      BY <3>1, <3>2
  <2>2. CASE toR' = Append(toR, x) /\ UNCHANGED faults
    BY <1>1, <2>2
  <2>3. CASE faults < MaxFaults /\ faults' = faults + 1 /\ toR' = toR
    BY <1>1, <2>3
  <2>4. ASSUME NEW y \in damaged, faults < MaxFaults, faults' = faults + 1,
               toR' = Append(toR, y)
        PROVE  faults' \in 0..MaxFaults /\ toR' \in Seq(Items)
    BY <1>1, <2>4
  <2> QED
    BY <2>1, <2>2, <2>3, <2>4 DEF Put
<1> QED
  BY <1>2, <1>3

\* What the sender may change, and how: the receiver's part of the invariant
\* is left alone.
LEMMA SenderOnly ==
  ASSUME XmInv, UNCHANGED <<n, receiver, request, invites>>,
         s' \in {"awaitC", "awaitAck"} \cup Ended, pktNo' \in 0..(n + 1),
         left' \in 0..(MaxRetransmit - 1), faults' \in 0..MaxFaults,
         early' \in 0..MaxEarly, waited' \in BOOLEAN,
         s' = "awaitAck" => pktNo' > 0,
         toR' \in Seq(Items), toS' \in Seq(Bytes)
  PROVE  XmInv'
<1>1. Items' = Items /\ Bytes' = Bytes
  BY DEF Items, Bytes, receiver
<1>2. UNCHANGED <<n, r, got, errCnt, request, invites>>
  BY DEF receiver
<1> QED
  BY <1>1, <1>2 DEF XmInv, TypeOK, RequestsWhole, Ended

\* A retry keeps the sender's counters in range.
LEMMA RetryInv ==
  ASSUME XmInv, Retry, s \in {"awaitC", "awaitAck"}, early' \in 0..MaxEarly,
         toS' \in Seq(Bytes)
  PROVE  XmInv'
<1>1. pktNo' \in 0..(n + 1) /\ left' \in 0..(MaxRetransmit - 1)
      /\ s' \in {"awaitC", "awaitAck"} \cup Ended
  BY DEF Retry, TryAgain, XmInv, TypeOK, Ended
<1>2. faults' \in 0..MaxFaults /\ toR' \in Seq(Items)
  <2>1. CASE s = "awaitAck" /\ Transmit(pktNo)
    <3>1. pktNo \in 1..(n + 1)
      BY <2>1 DEF XmInv, TypeOK
    <3> QED
      BY <2>1, <3>1, TransmitInv
  <2>2. CASE UNCHANGED <<toR, faults>>
    BY <2>2 DEF XmInv, TypeOK
  <2> QED
    BY <2>1, <2>2 DEF Retry
<1>3. waited' \in BOOLEAN
  BY Zenon DEF Retry
<1>4. s' = "awaitAck" => pktNo' > 0
  BY DEF Retry, XmInv
<1> QED
  BY <1>1, <1>2, <1>3, <1>4, SenderOnly DEF Retry

\* Taking a byte off the line leaves bytes on it.
LEMMA TakeByte ==
  ASSUME XmInv, toS # <<>>, toS' = Tail(toS) PROVE toS' \in Seq(Bytes)
BY DEF XmInv, TypeOK

\* Every step of the sender.
LEMMA SenderInv == ASSUME XmInv, Sender PROVE XmInv'
<1>1. CASE Begin
  <2>1. waited' \in BOOLEAN
    BY <1>1, Zenon DEF Begin
  <2> QED
    BY <1>1, <2>1, SenderOnly DEF Begin, XmInv, TypeOK
<1>2. CASE StartTransmit
  <2>1. waited' \in BOOLEAN
    BY <1>2, Zenon DEF StartTransmit
  <2>2. 1 \in 1..(n + 1) /\ early \in 0..MaxEarly
    BY DEF XmInv, TypeOK
  <2>3. faults' \in 0..MaxFaults /\ toR' \in Seq(Items)
    BY <1>2, <2>2, TransmitInv DEF StartTransmit
  <2>4. toS' \in Seq(Bytes)
    BY <1>2, TakeByte DEF StartTransmit
  <2>5. pktNo' = 1 /\ left' = MaxRetransmit - 1 /\ s' = "awaitAck"
        /\ early' = early /\ UNCHANGED <<n, receiver, request, invites>>
    BY <1>2 DEF StartTransmit
  <2>6. pktNo' \in 0..(n + 1) /\ left' \in 0..(MaxRetransmit - 1) /\ pktNo' > 0
    BY <2>2, <2>5 DEF XmInv, TypeOK
  <2> QED
    BY <2>1, <2>2, <2>3, <2>4, <2>5, <2>6, SenderOnly
<1>3. CASE GetAck
  <2>1. waited' \in BOOLEAN
    BY <1>3, Zenon DEF GetAck
  <2>2. early' \in 0..MaxEarly
    BY <1>3 DEF GetAck, XmInv, TypeOK
  <2>3. UNCHANGED <<n, receiver, request, invites>>
    BY <1>3 DEF GetAck
  <2>4. toS' \in Seq(Bytes)
    BY <1>3, TakeByte DEF GetAck
  <2>5. CASE pktNo > n
    <3>1. s' = "ok" /\ UNCHANGED <<pktNo, left, toR, faults>>
      BY <1>3, <2>5 DEF GetAck
    <3> QED
      BY <2>1, <2>2, <2>3, <2>4, <3>1, SenderOnly DEF XmInv, TypeOK, Ended
  <2>6. CASE ~(pktNo > n)
    <3>1. Transmit(pktNo + 1) /\ pktNo' = pktNo + 1 /\ s' = "awaitAck"
          /\ left' = MaxRetransmit - 1
      BY <1>3, <2>6 DEF GetAck
    <3>2. pktNo + 1 \in 1..(n + 1) /\ left' \in 0..(MaxRetransmit - 1)
      BY <2>6, <3>1 DEF XmInv, TypeOK
    <3>3. faults' \in 0..MaxFaults /\ toR' \in Seq(Items)
      BY <3>1, <3>2, TransmitInv
    <3> QED
      BY <2>1, <2>2, <2>3, <2>4, <3>1, <3>2, <3>3, SenderOnly
  <2> QED
    BY <2>5, <2>6
<1>4. CASE GetOther
  <2>1. Retry /\ s \in {"awaitC", "awaitAck"} /\ toS # <<>>
        /\ toS' = Tail(toS) /\ early' \in 0..MaxEarly
    BY <1>4 DEF GetOther, XmInv, TypeOK
  <2> QED
    BY <2>1, TakeByte, RetryInv
<1>5. CASE SenderTimeout
  <2>1. Retry /\ s \in {"awaitC", "awaitAck"} /\ UNCHANGED toS
    BY <1>5 DEF SenderTimeout
  <2>2. early' \in 0..MaxEarly
    BY <1>5 DEF SenderTimeout, InTime, XmInv, TypeOK
  <2>3. toS' \in Seq(Bytes)
    BY <2>1 DEF XmInv, TypeOK
  <2> QED
    BY <2>1, <2>2, <2>3, RetryInv
<1> QED
  BY <1>1, <1>2, <1>3, <1>4, <1>5 DEF Sender

\* What the receiver may change, and how, before QDA looks at the package.
LEMMA ReceiverOnly ==
  ASSUME XmInv, UNCHANGED <<n, sender, request>>, r \notin Ended,
         r' \in {"read", "discard"} \cup Ended,
         got' \in 0..Room, got' <= n, errCnt' \in 0..MaxRxErrors,
         r' \in {"read", "discard"} => errCnt' < MaxRxErrors,
         invites' \in 0..(MaxRxErrors + 1), got' = 0 => invites' <= errCnt' + 1,
         faults' \in 0..MaxFaults, early' \in 0..MaxEarly, waited' \in BOOLEAN,
         toR' \in Seq(Items), toS' \in Seq(Bytes)
  PROVE  XmInv'
<1>1. Items' = Items /\ Bytes' = Bytes
  BY DEF Items, Bytes
<1>2. UNCHANGED <<n, s, pktNo, left, request>>
  BY DEF sender
<1>3. request = "none"
  BY DEF XmInv
<1> QED
  BY <1>1, <1>2, <1>3 DEF XmInv, TypeOK, RequestsWhole, Ended

\* The same for an answer to something read from the line.
LEMMA AnswerInv ==
  ASSUME XmInv, NEW x, Reading(x), NEW cmd \in Bytes \ {"C"}, Reply(cmd),
         UNCHANGED <<n, sender, request, early, waited>>,
         r' \in {"read"} \cup Ended, got' \in 0..Room, got' <= n, got' >= got,
         errCnt' = errCnt \/ (errCnt' = 0 /\ got' > 0)
  PROVE  XmInv'
<1>1. toR' \in Seq(Items) /\ r = "read"
  BY ReadInv
<1>2. toS' \in Seq(Bytes) /\ faults' \in 0..MaxFaults
  BY ReplyInv
<1>3. invites' = invites
  BY DEF Reply
<1>4. waited' \in BOOLEAN
  BY DEF XmInv, TypeOK
<1>5. errCnt' \in 0..MaxRxErrors /\ errCnt' < MaxRxErrors
  BY <1>1 DEF XmInv, TypeOK
<1>6. got' = 0 => invites' <= errCnt' + 1
  BY <1>3 DEF XmInv, TypeOK
<1>7. early' \in 0..MaxEarly /\ invites' \in 0..(MaxRxErrors + 1)
  BY <1>3 DEF XmInv, TypeOK
<1>8. r \notin Ended
  BY <1>1 DEF Ended
<1>9. r' \in {"read", "discard"} \cup Ended
  OBVIOUS
<1> QED
  BY <1>1, <1>2, <1>4, <1>5, <1>6, <1>7, <1>8, <1>9, ReceiverOnly

\* The same for an error.
LEMMA ErrorInv ==
  ASSUME XmInv, Fail, r \in {"read", "discard"}, early' \in 0..MaxEarly,
         waited' \in BOOLEAN, toR' \in Seq(Items)
  PROVE  XmInv'
<1>1. r' \in {"read", "discard"} \cup Ended /\ r \notin Ended
      /\ (r' \in {"read", "discard"} => errCnt' < MaxRxErrors)
  BY FailInv DEF Ended
<1>2. got' \in 0..Room /\ got' <= n /\ got' = got
      /\ UNCHANGED <<n, sender, request>>
  BY DEF Fail, XmInv, TypeOK
<1> QED
  BY <1>1, <1>2, FailInv, ReceiverOnly

\* Every step of the receiver.
LEMMA ReceiverInv == ASSUME XmInv, Receiver PROVE XmInv'
<1>1. CASE Invite
  <2>1. toS' \in Seq(Bytes) /\ faults' \in 0..MaxFaults
    BY <1>1, ReplyInv DEF Invite, Bytes
  <2>2. invites' = 1 /\ got = 0 /\ errCnt = 0
    BY <1>1 DEF Invite, Reply, XmInv
  <2>3. waited' \in BOOLEAN
    BY <1>1 DEF Invite, XmInv, TypeOK
  <2>4. UNCHANGED <<n, sender, request, got, errCnt, early>> /\ r \notin Ended
        /\ r' = "read" /\ toR' \in Seq(Items)
    BY <1>1 DEF Invite, Ended, XmInv, TypeOK, Items
  <2>5. got' \in 0..Room /\ got' <= n /\ errCnt' \in 0..MaxRxErrors
        /\ errCnt' < MaxRxErrors /\ early' \in 0..MaxEarly
        /\ invites' \in 0..(MaxRxErrors + 1) /\ invites' <= errCnt' + 1
    BY <2>2, <2>4 DEF XmInv, TypeOK
  <2> QED
    BY <2>1, <2>3, <2>4, <2>5, ReceiverOnly
<1>2. CASE ReadPacket
  <2>1. Reading(Packet(got + 1)) /\ Reply("ACK") /\ got' = got + 1
        /\ errCnt' = 0 /\ UNCHANGED <<n, sender, r, request, early, waited>>
        /\ got < Room
    BY <1>2 DEF ReadPacket, HasRoom
  <2>2. Packet(got + 1) \in Items /\ r = "read"
    BY <2>1, ReadInv
  <2>3. got \in Nat /\ n \in Nat
    BY DEF XmInv, TypeOK
  <2>4. got + 1 \in 1..n
    BY <2>2, <2>3 DEF Items, Packet, Eot, BadPacket, Noise
  <2>5. got' \in 0..Room /\ got' <= n /\ got' >= got /\ got' > 0
    BY <2>1, <2>3, <2>4 DEF XmInv, TypeOK
  <2>6. "ACK" \in Bytes \ {"C"} /\ r' \in {"read"} \cup Ended
    BY <2>1, <2>2 DEF Bytes
  <2> QED
    BY <2>1, <2>5, <2>6, AnswerInv
<1>3. CASE ReadDuplicate
  <2>1. PICK k \in 1..n : Reading(Packet(k))
    BY <1>3 DEF ReadDuplicate
  <2>2. Reply("ACK") /\ UNCHANGED <<n, sender, receiver, request, early, waited>>
    BY <1>3 DEF ReadDuplicate
  <2>3. got' = got /\ r' = r /\ errCnt' = errCnt /\ r = "read"
    BY <2>1, <2>2, ReadInv DEF receiver
  <2>4. got' \in 0..Room /\ got' <= n /\ got' >= got
    BY <2>2, <2>3 DEF XmInv, TypeOK
  <2>5. "ACK" \in Bytes \ {"C"} /\ r' \in {"read"} \cup Ended
    BY <2>3 DEF Bytes
  <2> QED
    BY <2>1, <2>2, <2>3, <2>4, <2>5, AnswerInv
<1>4. CASE Cancel
  <2>1. PICK k \in 1..n : Reading(Packet(k))
    BY <1>4 DEF Cancel
  <2>2. Reply("CAN") /\ r' = "failed"
        /\ UNCHANGED <<n, sender, got, errCnt, request, early, waited>>
    BY <1>4 DEF Cancel
  <2>3. got' \in 0..Room /\ got' <= n /\ got' >= got
    BY <2>2 DEF XmInv, TypeOK
  <2>4. "CAN" \in Bytes \ {"C"} /\ r' \in {"read"} \cup Ended
    BY <2>2 DEF Bytes, Ended
  <2> QED
    BY <2>1, <2>2, <2>3, <2>4, AnswerInv
<1>5. CASE ReadEot
  <2>1. Reading(Eot) /\ Reply("ACK") /\ r' = "ok"
        /\ UNCHANGED <<n, sender, got, errCnt, request, early, waited>>
    BY <1>5 DEF ReadEot
  <2>2. got' \in 0..Room /\ got' <= n /\ got' >= got
    BY <2>1 DEF XmInv, TypeOK
  <2>3. "ACK" \in Bytes \ {"C"} /\ r' \in {"read"} \cup Ended
    BY <2>1 DEF Bytes, Ended
  <2> QED
    BY <2>1, <2>2, <2>3, AnswerInv
<1>6. CASE ReadBadPacket
  <2>1. Reading(BadPacket) /\ Fail /\ UNCHANGED <<early, waited>>
    BY <1>6 DEF ReadBadPacket
  <2>2. waited' \in BOOLEAN
    BY <2>1 DEF XmInv, TypeOK
  <2>3. early' \in 0..MaxEarly
    BY <2>1 DEF XmInv, TypeOK
  <2> QED
    BY <2>1, <2>2, <2>3, ReadInv, ErrorInv
<1>7. CASE ReadNoise
  <2>1. Reading(Noise) /\ r' = "discard"
        /\ UNCHANGED <<n, sender, got, errCnt, request, toS, faults, ghosts>>
    BY <1>7 DEF ReadNoise
  <2>2. waited' \in BOOLEAN
    BY <2>1 DEF XmInv, TypeOK, ghosts
  <2>3. toR' \in Seq(Items) /\ r = "read"
    BY <2>1, ReadInv
  <2>4. got' \in 0..Room /\ got' <= n /\ errCnt' \in 0..MaxRxErrors
        /\ errCnt' < MaxRxErrors /\ early' \in 0..MaxEarly
        /\ faults' \in 0..MaxFaults /\ invites' \in 0..(MaxRxErrors + 1)
        /\ (got' = 0 => invites' <= errCnt' + 1)
    BY <2>1, <2>3 DEF XmInv, TypeOK, ghosts
  <2>5. toS' \in Seq(Bytes)
    BY <2>1 DEF XmInv, TypeOK
  <2>6. r \notin Ended
    BY <2>3 DEF Ended
  <2> QED
    BY <2>1, <2>2, <2>3, <2>4, <2>5, <2>6, ReceiverOnly
<1>8. CASE Discard
  <2>1. r = "discard" /\ toR # <<>> /\ toR' = Tail(toR)
        /\ UNCHANGED <<n, sender, receiver, request, toS, faults, ghosts>>
    BY <1>8 DEF Discard
  <2>2. waited' \in BOOLEAN
    BY <2>1 DEF XmInv, TypeOK, ghosts
  <2>3. toR' \in Seq(Items)
    BY <2>1 DEF XmInv, TypeOK
  <2>4. got' \in 0..Room /\ got' <= n /\ errCnt' \in 0..MaxRxErrors
        /\ errCnt' < MaxRxErrors /\ early' \in 0..MaxEarly
        /\ faults' \in 0..MaxFaults /\ invites' \in 0..(MaxRxErrors + 1)
        /\ (got' = 0 => invites' <= errCnt' + 1) /\ r' = "discard"
    BY <2>1 DEF XmInv, TypeOK, ghosts, receiver
  <2>5. toS' \in Seq(Bytes)
    BY <2>1 DEF XmInv, TypeOK
  <2>6. r \notin Ended
    BY <2>1 DEF Ended
  <2> QED
    BY <2>1, <2>2, <2>3, <2>4, <2>5, <2>6, ReceiverOnly
<1>9. CASE ReceiverTimeout
  <2>1. r \in {"read", "discard"} /\ Fail /\ UNCHANGED toR /\ waited' = TRUE
    BY <1>9 DEF ReceiverTimeout
  <2>2. early' \in 0..MaxEarly
    BY <1>9 DEF ReceiverTimeout, InTime, XmInv, TypeOK
  <2>3. waited' \in BOOLEAN
    BY <2>1, Zenon
  <2>4. toR' \in Seq(Items)
    BY <2>1 DEF XmInv, TypeOK
  <2> QED
    BY <2>1, <2>2, <2>3, <2>4, ErrorInv
<1>10. CASE Qda
  <2>1. UNCHANGED <<n, sender, receiver, toR, toS, faults, ghosts>>
        /\ r \in Ended /\ request' \in {"left", "processed", "stalled"}
        /\ (request' = "processed" => got >= n)
    BY <1>10 DEF Qda, LengthCheck
  <2>2. UNCHANGED <<n, s, pktNo, left, r, got, errCnt, toR, toS, faults, early,
                    waited, invites>>
    BY <2>1 DEF sender, receiver, ghosts
  <2>3. Items' = Items /\ Bytes' = Bytes
    BY <2>2 DEF Items, Bytes
  <2>4. request' = "processed" => got' = n'
    BY <2>1, <2>2 DEF XmInv, TypeOK
  <2>5. TypeOK'
    BY <2>1, <2>2, <2>3 DEF XmInv, TypeOK
  <2> QED
    BY <2>1, <2>2, <2>4, <2>5 DEF XmInv, RequestsWhole
<1> QED
  BY <1>1, <1>2, <1>3, <1>4, <1>5, <1>6, <1>7, <1>8, <1>9, <1>10 DEF Receiver

\* Every step keeps the invariant.
LEMMA StepXm == ASSUME XmInv, [Next]_vars PROVE XmInv'
<1>1. CASE UNCHANGED vars
  <2>1. UNCHANGED <<n, s, pktNo, left, r, got, errCnt, request, toR, toS,
                    faults, early, waited, invites>>
    BY <1>1 DEF vars, sender, receiver, ghosts
  <2>2. Items' = Items /\ Bytes' = Bytes
    BY <2>1 DEF Items, Bytes
  <2> QED
    BY <2>1, <2>2 DEF XmInv, TypeOK, RequestsWhole
<1> QED
  BY <1>1, SenderInv, ReceiverInv DEF Next, Done

\* The invariant holds in every reachable state.
THEOREM XmInvariance == Spec => []XmInv
BY InitXm, StepXm, PTL DEF Spec

\* Counters and buffers keep within their bounds: in particular, the receiver
\* never writes past its buffer, and sends one 'C' more than its retries.
THEOREM XmTypeCorrect == Spec => []TypeOK
<1>1. XmInv => TypeOK
  BY DEF XmInv
<1> QED
  BY <1>1, XmInvariance, PTL

\* QDA never processes a request some packets of which were lost.
THEOREM OnlyWholeRequests == Spec => []RequestsWhole
<1>1. XmInv => RequestsWhole
  BY DEF XmInv
<1> QED
  BY <1>1, XmInvariance, PTL

-----------------------------------------------------------------------------
(* Stop and wait, with timeouts in time.                                   *)

\* What is put on an empty line is alone on it, if it gets there at all.
LEMMA PutOnEmpty ==
  ASSUME NEW x, NEW damaged, NEW qNew, Put(<<>>, x, damaged, qNew)
  PROVE  /\ Len(qNew) <= 1
         /\ qNew # <<>> => Head(qNew) \in {x} \cup damaged
<1>1. PICK y \in {x} \cup damaged : qNew = <<>> \/ qNew = Append(<<>>, y)
  BY DEF Put
<1>2. CASE qNew = <<>>
  BY <1>2
<1>3. CASE qNew = Append(<<>>, y)
  <2>1. qNew = <<y>>
    BY <1>3
  <2> QED
    BY <2>1
<1> QED
  BY <1>1, <1>2, <1>3

\* What was alone on the line leaves it empty.
LEMMA TakeOnly ==
  ASSUME NEW S, NEW q \in Seq(S), q # <<>>, Len(q) <= 1
  PROVE  Tail(q) = <<>>
OBVIOUS

\* No two of the things a sender transmits are the same.
LEMMA ItemsDiffer ==
  ASSUME NEW k, NEW j
  PROVE  /\ Packet(k) = Packet(j) => k = j
         /\ Packet(k) # Eot /\ Packet(k) # BadPacket /\ Packet(k) # Noise
         /\ Eot # BadPacket /\ Eot # Noise
BY DEF Packet, Eot, BadPacket, Noise

\* A transmission on an empty line leaves there what the sender is at.
LEMMA TransmitOnEmpty ==
  ASSUME XmInv, r \notin Ended, toR = <<>>, NEW k \in 1..(n + 1), Transmit(k)
  PROVE  /\ Len(toR') <= 1
         /\ toR' # <<>> => /\ \A j \in 1..n : Head(toR') = Packet(j) => j = k
                           /\ Head(toR') = Eot => k = n + 1
<1>1. n \in Nat
  BY DEF XmInv, TypeOK
<1>2. CASE k <= n /\ Put(<<>>, Packet(k), {BadPacket, Noise}, toR')
  BY <1>1, <1>2, PutOnEmpty, ItemsDiffer
<1>3. CASE k > n /\ Put(<<>>, Eot, {Noise}, toR')
  BY <1>1, <1>3, PutOnEmpty, ItemsDiffer
<1> QED
  BY <1>2, <1>3 DEF Transmit

\* The sender transmits, with nothing on the line.
LEMMA Transmits ==
  ASSUME XmInv, StepInv, UNCHANGED <<n, receiver>>, r # "start",
         r \notin Ended => toR = <<>>, toS' = <<>>, s' = "awaitAck",
         pktNo' \in 1..(n + 1), pktNo' \in {got, got + 1}, Transmit(pktNo')
  PROVE  StepInv'
<1>1. UNCHANGED <<n, r, got>>
  BY DEF receiver
<1>2. r \notin Ended =>
        /\ Len(toR') <= 1
        /\ toR' # <<>> =>
             /\ \A j \in 1..n : Head(toR') = Packet(j) => j = pktNo'
             /\ Head(toR') = Eot => pktNo' = n + 1
  BY TransmitOnEmpty
<1>3. InFlight'
  BY <1>1, <1>2 DEF InFlight
<1>4. InStep'
  BY <1>1 DEF StepInv, InStep
<1> QED
  BY <1>1, <1>3, <1>4 DEF StepInv

\* A retry, with nothing on the line.
LEMMA RetryStep ==
  ASSUME XmInv, StepInv, Retry, s \in {"awaitC", "awaitAck"}, toS' = <<>>,
         r \notin Ended => toR = <<>>
  PROVE  StepInv'
<1>1. UNCHANGED <<n, r, got>> /\ UNCHANGED receiver
  BY DEF Retry, receiver
<1>2. CASE s = "awaitC" \/ s' = "failed"
  <2>1. UNCHANGED <<pktNo, toR>> /\ s' \in {s, "failed"}
    BY <1>2 DEF Retry
  <2>2. InFlight'
    BY <1>1, <2>1 DEF StepInv, InFlight
  <2>3. InStep'
    BY <1>1, <1>2, <2>1 DEF StepInv, InStep
  <2> QED
    BY <1>1, <1>2, <2>1, <2>2, <2>3 DEF StepInv
<1>3. CASE s = "awaitAck" /\ s' # "failed"
  <2>1. s' = "awaitAck" /\ pktNo' = pktNo /\ Transmit(pktNo)
    BY <1>3 DEF Retry
  <2>2. pktNo \in 1..(n + 1) /\ pktNo \in {got, got + 1} /\ r # "start"
    BY <1>3 DEF XmInv, TypeOK, StepInv, InStep
  <2> QED
    BY <1>1, <2>1, <2>2, Transmits
<1> QED
  BY <1>2, <1>3 DEF Ended

\* When the sender takes a byte, that was all that was on the line.
LEMMA SenderTakes ==
  ASSUME XmInv, StepInv, s \notin Ended, toS # <<>>, toS' = Tail(toS)
  PROVE  toS' = <<>> /\ (r \notin Ended => toR = <<>>) /\ r # "start"
<1>1. toS \in Seq(Bytes) /\ Len(toS) <= 1
  BY DEF XmInv, TypeOK, StepInv, InFlight
<1> QED
  BY <1>1, TakeOnly DEF StepInv, InFlight

\* Every step of the sender.
LEMMA SenderStep ==
  ASSUME XmInv, StepInv, Sender, MaxEarly = 0
  PROVE  StepInv'
<1>1. CASE Begin
  BY <1>1 DEF Begin, StepInv
<1>2. CASE StartTransmit
  <2>1. s \notin Ended /\ pktNo = 0 /\ toS # <<>> /\ toS' = Tail(toS)
        /\ s' = "awaitAck" /\ pktNo' = 1 /\ Transmit(1)
        /\ UNCHANGED <<n, receiver>>
    BY <1>2 DEF StartTransmit, Ended, StepInv
  <2>2. got = 0 /\ 1 \in 1..(n + 1)
    BY <2>1 DEF StepInv, InStep, XmInv, TypeOK
  <2> QED
    BY <2>1, <2>2, SenderTakes, Transmits
<1>3. CASE GetAck
  <2>1. s = "awaitAck" /\ s \notin Ended /\ toS # <<>> /\ toS' = Tail(toS)
        /\ Acked(Head(toS)) /\ UNCHANGED <<n, receiver>>
    BY <1>3 DEF GetAck, Ended
  <2>2. toS' = <<>> /\ (r \notin Ended => toR = <<>>) /\ r # "start"
    BY <2>1, SenderTakes
  <2>3. got = pktNo \/ (r = "ok" /\ pktNo = n + 1)
    BY <2>1 DEF StepInv, InFlight
  <2>4. n \in Nat /\ got \in Nat /\ pktNo \in 0..(n + 1) /\ got <= n
    BY DEF XmInv, TypeOK
  <2>5. CASE pktNo > n
    <3>1. r = "ok" /\ s' = "ok" /\ UNCHANGED <<pktNo, toR>>
      BY <1>3, <2>3, <2>4, <2>5 DEF GetAck
    <3>2. UNCHANGED <<n, r, got>>
      BY <2>1 DEF receiver
    <3>3. InFlight'
      BY <2>2, <3>1, <3>2 DEF InFlight, Ended
    <3>4. InStep'
      BY <3>1, <3>2 DEF StepInv, InStep
    <3> QED
      BY <3>1, <3>2, <3>3, <3>4 DEF StepInv
  <2>6. CASE ~(pktNo > n)
    <3>1. s' = "awaitAck" /\ pktNo' = pktNo + 1 /\ Transmit(pktNo + 1)
      BY <1>3, <2>1, <2>6 DEF GetAck
    <3>2. pktNo' \in 1..(n + 1) /\ got = pktNo
      BY <2>3, <2>4, <2>6, <3>1
    <3> QED
      BY <2>1, <2>2, <3>1, <3>2, Transmits
  <2> QED
    BY <2>5, <2>6
<1>4. CASE GetOther
  <2>1. Retry /\ s \in {"awaitC", "awaitAck"} /\ s \notin Ended
        /\ toS # <<>> /\ toS' = Tail(toS)
    BY <1>4 DEF GetOther, Ended
  <2> QED
    BY <2>1, SenderTakes, RetryStep
<1>5. CASE SenderTimeout
  <2>1. Retry /\ s \in {"awaitC", "awaitAck"} /\ toS' = toS
        /\ InTime(Quiet(toS, toR, r \in Ended) /\ (waited \/ r \in Ended))
    BY <1>5 DEF SenderTimeout
  <2>2. Quiet(toS, toR, r \in Ended)
    BY <2>1 DEF InTime, XmInv, TypeOK
  <2> QED
    BY <2>1, <2>2, RetryStep DEF Quiet
<1> QED
  BY <1>1, <1>2, <1>3, <1>4, <1>5 DEF Sender

\* When the receiver takes something, that was all that was on the line.
LEMMA ReceiverTakes ==
  ASSUME XmInv, StepInv, r \notin Ended, toR # <<>>, toR' = Tail(toR)
  PROVE  toR' = <<>> /\ (s \notin Ended => toS = <<>>) /\ r # "start"
<1>1. toR \in Seq(Items) /\ Len(toR) <= 1
  BY DEF XmInv, TypeOK, StepInv, InFlight
<1> QED
  BY <1>1, TakeOnly DEF StepInv, InFlight

\* The receiver answers, with nothing else on the line.
LEMMA Answers ==
  ASSUME XmInv, StepInv, UNCHANGED <<n, sender>>, NEW cmd, Reply(cmd),
         toR' = <<>>, s \notin Ended => toS = <<>>, r' # "start",
         pktNo \in {got', got' + 1}, r' = "ok" => got' = n, s # "ok",
         Acked(cmd) => got' = pktNo \/ (r' = "ok" /\ pktNo = n + 1)
  PROVE  StepInv'
<1>1. UNCHANGED <<n, s, pktNo>>
  BY DEF sender
<1>2. s \notin Ended =>
        Len(toS') <= 1 /\ (toS' # <<>> => Head(toS') \in {cmd, "noise"})
  BY PutOnEmpty DEF Reply
<1>3. InFlight'
  BY <1>1, <1>2 DEF InFlight, Acked
<1>4. InStep'
  BY <1>1 DEF InStep
<1> QED
  BY <1>1, <1>3, <1>4 DEF StepInv

\* An error is never answered with an ACK.
LEMMA FailStep ==
  ASSUME XmInv, StepInv, Fail, r \in {"read", "discard"}, toR' = <<>>,
         s \notin Ended => toS = <<>>
  PROVE  StepInv'
<1>1. r' \in {"read", "failed"} /\ got' = got /\ UNCHANGED <<n, sender>>
      /\ Reply(Nak) /\ ~Acked(Nak)
  BY DEF Fail, Nak, Acked
<1>2. s # "ok" /\ pktNo \in {got, got + 1}
  BY DEF StepInv, InStep
<1> QED
  BY <1>1, <1>2, Answers

\* Every step of the receiver.
LEMMA ReceiverStep ==
  ASSUME XmInv, StepInv, Receiver, MaxEarly = 0
  PROVE  StepInv'
<1>1. got \in Nat /\ n \in Nat /\ got <= n /\ pktNo \in {got, got + 1}
  BY DEF XmInv, TypeOK, StepInv, InStep
<1>2. r \in {"start", "read", "discard"} => s # "ok" /\ r \notin Ended
  BY DEF StepInv, InStep, Ended
<1>3. ASSUME NEW x, Reading(x)
      PROVE  /\ toR' = <<>> /\ (s \notin Ended => toS = <<>>)
             /\ r = "read" /\ x = Head(toR) /\ toR # <<>> /\ r \notin Ended
  BY <1>3, ReceiverTakes DEF Reading, Ended
<1>4. CASE Invite
  <2>1. r = "start" /\ r' = "read" /\ Reply("C") /\ toR' = <<>> /\ toS = <<>>
        /\ got' = got /\ UNCHANGED <<n, sender>>
    BY <1>4 DEF Invite, StepInv
  <2> QED
    BY <1>1, <1>2, <2>1, Answers DEF Acked
<1>5. CASE ReadPacket
  <2>1. Reading(Packet(got + 1)) /\ Reply("ACK") /\ got' = got + 1
        /\ UNCHANGED <<n, sender, r>>
    BY <1>5 DEF ReadPacket
  <2>2. got + 1 \in 1..n
    <3>1. Packet(got + 1) \in Items
      BY <2>1, ReadInv
    <3> QED
      BY <1>1, <3>1, ItemsDiffer DEF Items
  <2>3. pktNo = got'
    BY <1>3, <2>1, <2>2 DEF StepInv, InFlight
  <2> QED
    BY <1>2, <1>3, <2>1, <2>3, Answers
<1>6. CASE ReadDuplicate
  <2>1. PICK k \in 1..n : Reading(Packet(k)) /\ k = got
    BY <1>6 DEF ReadDuplicate, IsDuplicate
  <2>2. Reply("ACK") /\ UNCHANGED <<n, sender, r, got>>
    BY <1>6 DEF ReadDuplicate, receiver
  <2>3. pktNo = got'
    BY <1>3, <2>1, <2>2 DEF StepInv, InFlight
  <2> QED
    BY <1>2, <1>3, <2>1, <2>2, <2>3, Answers
<1>7. CASE Cancel
  <2>1. PICK k \in 1..n : Reading(Packet(k))
    BY <1>7 DEF Cancel
  <2>2. Reply("CAN") /\ r' = "failed" /\ UNCHANGED <<n, sender, got>>
    BY <1>7 DEF Cancel
  <2> QED
    BY <1>1, <1>2, <1>3, <2>1, <2>2, Answers DEF Acked
<1>8. CASE ReadEot
  <2>1. Reading(Eot) /\ Reply("ACK") /\ r' = "ok" /\ UNCHANGED <<n, sender, got>>
    BY <1>8 DEF ReadEot
  <2>2. pktNo = n + 1
    BY <1>3, <2>1 DEF StepInv, InFlight
  <2>3. got = n
    BY <1>1, <2>2
  <2> QED
    BY <1>1, <1>2, <1>3, <2>1, <2>2, <2>3, Answers
<1>9. CASE ReadBadPacket
  <2>1. Reading(BadPacket) /\ Fail
    BY <1>9 DEF ReadBadPacket
  <2> QED
    BY <1>3, <2>1, FailStep
<1>10. CASE ReadNoise
  <2>1. Reading(Noise) /\ r' = "discard" /\ UNCHANGED <<n, sender, got, toS>>
    BY <1>10 DEF ReadNoise
  <2>2. UNCHANGED <<n, s, pktNo, got, toS>>
    BY <2>1 DEF sender
  <2> QED
    BY <1>2, <1>3, <2>1, <2>2 DEF StepInv, InStep, InFlight
<1>11. CASE Discard
  <2>1. r = "discard" /\ toR # <<>> /\ toR' = Tail(toR)
        /\ UNCHANGED <<n, sender, r, got, toS>>
    BY <1>11 DEF Discard, receiver
  <2>2. UNCHANGED <<n, s, pktNo, got, toS>>
    BY <2>1 DEF sender
  <2> QED
    BY <1>2, <2>1, <2>2, ReceiverTakes DEF StepInv, InStep, InFlight
<1>12. CASE ReceiverTimeout
  <2>1. r \in {"read", "discard"} /\ Fail /\ toR' = toR
        /\ InTime(Quiet(toR, toS, s \in {"idle"} \cup Ended))
    BY <1>12 DEF ReceiverTimeout
  <2>2. Quiet(toR, toS, s \in {"idle"} \cup Ended)
    BY <2>1 DEF InTime, XmInv, TypeOK
  <2>3. toR = <<>> /\ (s \notin Ended => toS = <<>>)
    BY <2>2 DEF Quiet, StepInv
  <2> QED
    BY <2>1, <2>3, FailStep
<1>13. CASE Qda
  <2>1. UNCHANGED <<n, s, pktNo, r, got, toR, toS>>
    BY <1>13 DEF Qda, sender, receiver
  <2> QED
    BY <2>1 DEF StepInv, InStep, InFlight
<1> QED
  BY <1>4, <1>5, <1>6, <1>7, <1>8, <1>9, <1>10, <1>11, <1>12, <1>13 DEF Receiver

\* The two ends start in step.
LEMMA InitStep == ASSUME ~LateSender, Init PROVE StepInv
BY DEF Init, StepInv, InStep, InFlight, Ended

\* Without early timeouts, every step keeps them in step.
LEMMA StepStep ==
  ASSUME MaxEarly = 0, ~LateSender, XmInv, StepInv, [Next]_vars
  PROVE  StepInv'
<1>1. CASE UNCHANGED vars
  <2>1. UNCHANGED <<n, s, pktNo, r, got, toR, toS>>
    BY <1>1 DEF vars, sender, receiver
  <2> QED
    BY <2>1 DEF StepInv, InStep, InFlight
<1> QED
  BY <1>1, SenderStep, ReceiverStep DEF Next, Done

\* With timeouts in time and a sender that waits for the first 'C', the two
\* ends of xmodem.c are never more than one packet apart, whatever the line
\* loses: every ACK the sender takes is that of the packet it is at, a package
\* the receiver takes for complete is whole, and the sender reports success
\* only for one the receiver has.
THEOREM StopAndWait ==
  ASSUME MaxEarly = 0, ~LateSender
  PROVE  Spec => []InStep
<1>1. StepInv => InStep
  BY DEF StepInv
<1> QED
  BY <1>1, InitXm, InitStep, StepStep, XmInvariance, PTL DEF Spec
=============================================================================
