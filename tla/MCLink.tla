------------------------------- MODULE MCLink -------------------------------
(* Instances of the node's two links for TLC: the radio link of the relay      *)
(* application and the XMODEM link of the firmware's boot-time manager.  They  *)
(* share nothing, so that each behaviour is one of one of them.                *)
EXTENDS MCXmodem, MCRelayNode

VARIABLE link   \* the one that runs

linkVars == <<link, mcVars, relayVars>>

\* What is chosen at the start is chosen by the one that runs only.
LinkInit ==
  \/ link = "radio" /\ RelayInit /\ late = TRUE /\ Late!Init
     /\ n = CHOOSE k \in {2, 3} : TRUE
  \/ link = "xmodem" /\ MCInit /\ RelayInit /\ ~pad /\ ~rxDone /\ msg = "none"

RunRadio(A) == link = "radio" /\ A /\ UNCHANGED <<link, mcVars>>
RunXmodem(A) == link = "xmodem" /\ A /\ UNCHANGED <<link, relayVars>>

LinkNext == RunRadio(RelayNext) \/ RunXmodem(MCNext)

\* RelayFairness and MCFairness; as only one of them ever has a step enabled, one
\* condition serves for both.
LinkFairness ==
  /\ WF_linkVars(
       \/ RunRadio(Task)
       \/ RunXmodem(UNCHANGED late /\ ((~late /\ Sender) \/ (late /\ Late!Sender))))
  /\ WF_linkVars(
       \/ RunRadio(Isr /\ (Dio0 \/ pad) /\ ~masked)
       \/ RunXmodem(UNCHANGED late /\ ((~late /\ Receiver) \/ (late /\ Late!Receiver))))
  /\ WF_linkVars(RunRadio(CadCompletes))
  /\ SF_linkVars(RunRadio(ChannelFree))

LinkSpec == LinkInit /\ [][LinkNext]_linkVars /\ LinkFairness

\* TransferEnds of Xmodem, where a package is transferred.
PackageEnds == <>(link = "xmodem" => s \in Ended /\ r \in Ended)
=============================================================================
