------------------------------- MODULE MCXmodem -------------------------------
(* Two instances of Xmodem for TLC, one of which each behaviour is about:      *)
(* timeouts in time and a package that may not fit, with the constants of the  *)
(* configuration; and a sender that comes late, with answers after their       *)
(* timeout, with those of Late.                                                *)
EXTENDS Xmodem

VARIABLE late

Late == INSTANCE Xmodem
          WITH MaxRetransmit <- 3, MaxRxErrors <- 3, Room <- 3, Lengths <- {2, 3},
               LateSender <- TRUE, MaxFaults <- 2, MaxEarly <- 1

mcVars == <<late, vars>>

MCInit == \/ late = FALSE /\ Init
          \/ late = TRUE /\ Late!Init

MCPrompt == ~late /\ Next /\ UNCHANGED late
MCLate == late /\ Late!Next /\ UNCHANGED late

MCNext == MCPrompt \/ MCLate

\* The fairness of FairSpec, for either.
MCFairness ==
  /\ WF_mcVars(UNCHANGED late /\ ((~late /\ Sender) \/ (late /\ Late!Sender)))
  /\ WF_mcVars(UNCHANGED late /\ ((~late /\ Receiver) \/ (late /\ Late!Receiver)))

MCSpec == MCInit /\ [][MCNext]_mcVars /\ MCFairness

\* What is received stays within the buffer, and every retry within its bound.
WithinBuffer == IF late THEN Late!TypeOK ELSE TypeOK

\* InStep of Xmodem, where timeouts are in time.
PromptInStep == ~late => InStep

\* Delivered of Xmodem, likewise.
PromptDelivered == ~late => Delivered
=============================================================================
