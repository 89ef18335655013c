--------------------------------- MODULE Qda ---------------------------------
(***************************************************************************)
(* QDA's dialogue: the host sends a request as one XMODEM package, the     *)
(* device answers with another, and the two change places.  Each end knows *)
(* only what it reads, so that what one transfer leaves on the line, a     *)
(* repeated EOT or a late acknowledgement, is read by the next one.        *)
(*                                                                         *)
(* A package is one packet, whose number is always 1; Xmodem has longer    *)
(* ones.  What is damaged is never taken for another control byte, and     *)
(* neither is a byte within a packet.  Every timeout is in time.           *)
(* The host, dfu-util-qda, is not part of the repository: it is taken to   *)
(* use the same XMODEM and to repeat a request until it is answered.       *)
(***************************************************************************)
EXTENDS Naturals, Sequences

CONSTANTS
  Requests,       \* bound: the host's requests are 1 .. Requests
  MaxRetransmit,  \* MAX_RETRANSMIT
  MaxRxErrors,    \* MAX_RX_ERRORS
  MaxFaults       \* bound: what the line loses or damages

ASSUME QdaAssumption ==
  {Requests, MaxRetransmit, MaxRxErrors} \subseteq Nat \ {0} /\ MaxFaults \in Nat

VARIABLES
  pinLow,   \* the FM pin is held low: QDA starts again when its loop ends
  role,     \* what each end is doing, or how its last transfer ended
  tries,    \* the attempts left to one that transmits, err_cnt of the other
  buf,      \* the packet it sends, or has received
  line,     \* what is on its way to each end
  request,  \* the host's request under way
  waited,   \* the device timed out since the host began to wait
  faults    \* counter for the bound

qdaVars == <<pinLow, role, tries, buf, line, request, waited, faults>>

Ends == {"host", "device"}
Other(e) == IF e = "host" THEN "device" ELSE "host"

\* A packet holds a request, or the answer to it; 0 is no packet.
Nothing == 0
Packet(k) == <<"SOH", k>>
Ctrl(c) == <<c, Nothing>>

\* The last request is QDA_PKT_RESET.
Reset == Requests

Sending == {"awaitC", "awaitAck", "awaitEotAck"}
Listening == Sending \cup {"read", "discard"}
Away(e) == role[e] \in {"reset", "finished"}

-----------------------------------------------------------------------------
(* The line.                                                               *)

\* What e leaves unread, and what it sends: that arrives, or is lost or
\* damaged: a packet may keep its SOH and fail only its CRC.  One that is away
\* hears nothing.
Line(e, rest, sent) ==
  line' = [line EXCEPT ![e] = rest,
                       ![Other(e)] = IF Away(Other(e)) THEN <<>> ELSE @ \o sent]

Send(e, rest, x) ==
  \/ Line(e, rest, <<x>>) /\ UNCHANGED faults
  \/ /\ faults < MaxFaults /\ faults' = faults + 1
     /\ \E sent \in {<<>>, <<Ctrl("noise")>>}
                    \cup (IF Head(x) = "SOH" THEN {<<Ctrl("badCrc")>>} ELSE {}) :
          Line(e, rest, sent)

Keep(e, rest) == Line(e, rest, <<>>) /\ UNCHANGED faults

\* e, doing r, reads x.
Reads(e, r, x) == role[e] = r /\ line[e] # <<>> /\ x = Head(line[e])

\* xmodem_io_getc times out: nothing is on its way to either end, and the host,
\* whose timeout has to be the longer one, lets the device time out first.
\* Where it throws bytes away, the host has the "special small timeout".
TimesOut(e) ==
  /\ line[e] = <<>>
  /\ \/ e = "host" /\ role[e] = "discard"
     \/ /\ line[Other(e)] = <<>>
        /\ role["host"] \in (Listening \ {"discard"}) \cup {"finished"}
        /\ role["device"] \in Listening \cup {"reset"}
        /\ e = "host" => waited \/ Away("device")

\* e waits anew.
Anew(e) == waited' = (e = "device" /\ waited)

\* What a transfer at e leaves alone.
Aside == <<pinLow, request>>

Becomes(e, r, n) ==
  role' = [role EXCEPT ![e] = r] /\ tries' = [tries EXCEPT ![e] = n]

-----------------------------------------------------------------------------
(* xmodem_transmit_package.                                                *)

Transmit(e, k) ==
  /\ Becomes(e, "awaitC", MaxRetransmit - 1)
  /\ buf' = [buf EXCEPT ![e] = k]
  /\ Keep(e, line[e]) /\ Anew(e)

\* What is sent, again and again, by one that waits as r.
Message(e) == IF role[e] = "awaitAck" THEN Packet(buf[e]) ELSE Ctrl("EOT")

GetC(e) ==
  /\ Reads(e, "awaitC", Ctrl("C"))
  /\ Becomes(e, "awaitAck", MaxRetransmit - 1)
  /\ Send(e, Tail(line[e]), Packet(buf[e]))
  /\ Anew(e) /\ UNCHANGED <<Aside, buf>>

GetAck(e) ==
  /\ Reads(e, "awaitAck", Ctrl("ACK"))
  /\ Becomes(e, "awaitEotAck", MaxRetransmit - 1)
  /\ Send(e, Tail(line[e]), Ctrl("EOT"))
  /\ Anew(e) /\ UNCHANGED <<Aside, buf>>

GetEotAck(e) ==
  /\ Reads(e, "awaitEotAck", Ctrl("ACK"))
  /\ Becomes(e, "sent", 0)
  /\ Keep(e, Tail(line[e]))
  /\ Anew(e) /\ UNCHANGED <<Aside, buf>>

Wanted(e) == IF role[e] = "awaitC" THEN "C" ELSE "ACK"

\* A packet is longer than the attempts of one transmission, which leaves its
\* tail to the next one (bound: to that one only).
Long == {Packet(k) : k \in 1 .. Requests} \cup {Ctrl("badCrc"), Ctrl("tail")}

Unread(e) ==
  IF line[e] = <<>> THEN <<>>
  ELSE IF \/ Head(line[e]) \notin Long
          \/ Head(line[e]) = Ctrl("tail") /\ tries[e] = 0
       THEN Tail(line[e])
       ELSE [line[e] EXCEPT ![1] = IF tries[e] = 0 THEN Ctrl("tail") ELSE @]

\* Anything else, and a timeout, cost an attempt.
Retry(e) ==
  /\ role[e] \in Sending
  /\ IF line[e] = <<>> THEN TimesOut(e)
                       ELSE Head(line[e]) # Ctrl(Wanted(e))
  /\ IF tries[e] = 0
     THEN Becomes(e, "unsent", 0) /\ Keep(e, Unread(e))
     ELSE /\ Becomes(e, role[e], tries[e] - 1)
          /\ IF role[e] = "awaitC" THEN Keep(e, Unread(e))
                                   ELSE Send(e, Unread(e), Message(e))
  /\ waited' = (e = "device" /\ (waited \/ line[e] = <<>>))
  /\ UNCHANGED <<Aside, buf>>

-----------------------------------------------------------------------------
(* xmodem_receive_package.                                                 *)

Receive(e) ==
  /\ Becomes(e, "read", 0)
  /\ buf' = [buf EXCEPT ![e] = Nothing]
  /\ Send(e, line[e], Ctrl("C")) /\ Anew(e)

\* The second packet numbered 1 is a duplicate, whatever it holds.
ReadPacket(e) ==
  /\ \E k \in 1 .. Requests :
       /\ Reads(e, "read", Packet(k))
       /\ buf' = [buf EXCEPT ![e] = IF @ = Nothing THEN k ELSE @]
  /\ Becomes(e, "read", IF buf[e] = Nothing THEN 0 ELSE tries[e])
  /\ Send(e, Tail(line[e]), Ctrl("ACK"))
  /\ Anew(e) /\ UNCHANGED Aside

ReadEot(e) ==
  /\ Reads(e, "read", Ctrl("EOT"))
  /\ Becomes(e, "got", 0)
  /\ Send(e, Tail(line[e]), Ctrl("ACK"))
  /\ Anew(e) /\ UNCHANGED <<Aside, buf>>

\* Any other byte: all that follows is thrown away, until a timeout.
Discard(e) ==
  /\ role[e] \in {"read", "discard"} /\ line[e] # <<>>
  /\ role[e] = "read" => Head(line[e])[1] \notin {"SOH", "badCrc", "EOT"}
  /\ Becomes(e, "discard", tries[e])
  /\ Keep(e, Tail(line[e]))
  /\ Anew(e) /\ UNCHANGED <<Aside, buf>>

GoesOn(n) == n < MaxRxErrors

\* A timeout and a bad CRC are errors; until a packet has come, 'C' stands for
\* NAK.
Fail(e) ==
  /\ \/ role[e] \in {"read", "discard"} /\ TimesOut(e)
     \/ Reads(e, "read", Ctrl("badCrc"))
  /\ Becomes(e, IF GoesOn(tries[e] + 1) THEN "read" ELSE "failed",
             tries[e] + 1)
  /\ Send(e, IF line[e] = <<>> THEN <<>> ELSE Tail(line[e]),
          Ctrl(IF buf[e] = Nothing THEN "C" ELSE "NAK"))
  /\ waited' = (e = "device" /\ (waited \/ line[e] = <<>>))
  /\ UNCHANGED <<Aside, buf>>

Xmodem(e) == \/ GetC(e) \/ GetAck(e) \/ GetEotAck(e) \/ Retry(e)
             \/ ReadPacket(e) \/ ReadEot(e) \/ Discard(e) \/ Fail(e)

-----------------------------------------------------------------------------
(* qda_receive_loop, and fm_entry_uart around it.                          *)

\* A package is a request, and the answer to it is sent.
Answer ==
  /\ role["device"] = "got" /\ buf["device"] # Nothing
  /\ Transmit("device", buf["device"])
  /\ UNCHANGED Aside

ColdReset ==
  /\ role' = [role EXCEPT !["device"] = "reset"]
  /\ line' = [line EXCEPT !["device"] = <<>>]
  /\ UNCHANGED <<tries, buf, waited, faults>>

\* Whether or not the answer was sent, the next request; or the reset.
NextRequest ==
  /\ role["device"] \in {"sent", "unsent"}
  /\ IF buf["device"] = Reset THEN ColdReset ELSE Receive("device")
  /\ UNCHANGED Aside

\* Mutant: the pin's level mistaken.
StartsAgainIfHigh == ~pinLow

StartsAgain == pinLow

\* An empty package, or none, ends the loop.
LeaveLoop ==
  /\ \/ role["device"] = "failed"
     \/ role["device"] = "got" /\ buf["device"] = Nothing
  /\ IF StartsAgain THEN Receive("device") ELSE ColdReset
  /\ UNCHANGED Aside

Device == Xmodem("device") \/ Answer \/ NextRequest \/ LeaveLoop

-----------------------------------------------------------------------------
(* The host.                                                               *)

Unanswered ==
  \/ role["host"] \in {"unsent", "failed"}
  \/ role["host"] = "got" /\ buf["host"] = Nothing

Ask ==
  /\ Unanswered /\ request # Reset
  /\ Transmit("host", request)
  /\ UNCHANGED Aside

Await ==
  /\ role["host"] = "sent"
  /\ Receive("host")
  /\ UNCHANGED Aside

Answered ==
  /\ role["host"] = "got" /\ buf["host"] # Nothing /\ request # Reset
  /\ request' = request + 1
  /\ Transmit("host", request + 1)
  /\ UNCHANGED pinLow

\* A reset is not asked for again.
Finish ==
  /\ request = Reset /\ role["host"] \in {"unsent", "failed", "got"}
  /\ role' = [role EXCEPT !["host"] = "finished"]
  /\ line' = [line EXCEPT !["host"] = <<>>]
  /\ UNCHANGED <<Aside, tries, buf, waited, faults>>

Host == Xmodem("host") \/ Ask \/ Await \/ Answered \/ Finish

-----------------------------------------------------------------------------

QdaInit ==
  /\ pinLow \in BOOLEAN
  /\ role = [e \in Ends |-> IF e = "host" THEN "awaitC" ELSE "read"]
  /\ tries = [e \in Ends |-> IF e = "host" THEN MaxRetransmit - 1 ELSE 0]
  /\ buf = [e \in Ends |-> IF e = "host" THEN 1 ELSE Nothing]
  /\ line = [e \in Ends |-> IF e = "host" THEN <<Ctrl("C")>> ELSE <<>>]
  /\ request = 1 /\ waited = FALSE
  /\ faults = 0

Over == role["host"] = "finished" /\ role["device"] = "reset" /\ UNCHANGED qdaVars

QdaNext == Device \/ Host \/ Over

QdaSpec == QdaInit /\ [][QdaNext]_qdaVars

\* Both ends run.
QdaFairSpec == QdaSpec /\ WF_qdaVars(Device) /\ WF_qdaVars(Host)

-----------------------------------------------------------------------------
(* Properties.                                                             *)

Things == {Packet(k) : k \in 1 .. Requests}
          \cup {Ctrl(c) : c \in {"EOT", "C", "ACK", "NAK",
                                 "noise", "badCrc", "tail"}}

\* The type invariant; the counters of attempts stay within their limits.
QdaTypeOK ==
  /\ pinLow \in BOOLEAN
  /\ role \in [Ends -> Listening \cup {"sent", "unsent", "got", "failed",
                                     "reset", "finished"}]
  /\ tries \in [Ends -> Nat]
  /\ \A e \in Ends :
       /\ role[e] \in Sending => tries[e] < MaxRetransmit
       /\ role[e] \in {"read", "discard"} => tries[e] < MaxRxErrors
  /\ buf \in [Ends -> 0 .. Requests]
  /\ line \in [Ends -> Seq(Things)]
  /\ request \in 1 .. Requests /\ waited \in BOOLEAN
  /\ faults \in 0 .. MaxFaults

\* What each end is there for: all is answered, or firmware management is left.
DialogueOver == IF pinLow THEN request = Reset ELSE role["device"] = "reset"

\* However one end's retries meet the other's, the dialogue comes to an end once
\* the line no longer fails: with the pin low, each request is answered; with the
\* pin high, the device does not stay in firmware management for ever.
DialogueEnds == <>DialogueOver

\* qda_receive_loop runs "until the communication becomes idle"; fm_entry_uart:
\* it "returns only when no data is received for 10 seconds".
LeavesOnlyWhenIdle == [][LeaveLoop => role["device"] = "failed"]_qdaVars
=============================================================================
