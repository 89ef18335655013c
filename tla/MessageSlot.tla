----------------------------- MODULE MessageSlot -----------------------------
(***************************************************************************)
(* What a channel between two cores promises: it holds one message at      *)
(* most, which is put into an empty channel and taken out of it whole.     *)
(***************************************************************************)
CONSTANTS
  Channels, Messages,
  NoMessage   \* stands for none, and is not one of them

VARIABLES
  slot, \* the message that waits in each channel
  got   \* the message taken last out of each channel

Init ==
  /\ slot = [c \in Channels |-> NoMessage]
  /\ got = [c \in Channels |-> NoMessage]

Put(c, m) ==
  /\ slot[c] = NoMessage
  /\ slot' = [slot EXCEPT ![c] = m]
  /\ UNCHANGED got

Take(c) ==
  /\ slot[c] # NoMessage
  /\ got' = [got EXCEPT ![c] = slot[c]]
  /\ slot' = [slot EXCEPT ![c] = NoMessage]

Next == \E c \in Channels : Take(c) \/ \E m \in Messages : Put(c, m)

Spec == Init /\ [][Next]_<<slot, got>>
=============================================================================
