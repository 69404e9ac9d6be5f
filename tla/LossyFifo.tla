----------------------------- MODULE LossyFifo -----------------------------
(***************************************************************************)
(* What a mailbox of Agent OS promises its users: a channel accepts        *)
(* messages one after the other and gives each consumer some of them, in   *)
(* the order in which they were accepted, none of them twice.  It may skip *)
(* messages, and a message it has skipped never appears again.             *)
(*                                                                         *)
(* MailboxBus implements this specification: see Fifo there.               *)
(***************************************************************************)
EXTENDS Naturals, Sequences

CONSTANT Chan          \* the channels

VARIABLES
  accepted,            \* how many messages a channel has accepted
  delivered            \* positions of the messages its consumer was given, in turn

vars == <<accepted, delivered>>

Init ==
  /\ accepted = [c \in Chan |-> 0]
  /\ delivered = [c \in Chan |-> <<>>]

\* A sender's message becomes the last one of the channel.
Accept(c) ==
  /\ accepted' = [accepted EXCEPT ![c] = @ + 1]
  /\ UNCHANGED delivered

\* The consumer is given a message beyond every one it has been given.
Deliver(c) ==
  \E p \in 1 .. accepted[c] :
    /\ \A i \in DOMAIN delivered[c] : delivered[c][i] < p
    /\ delivered' = [delivered EXCEPT ![c] = Append(@, p)]
    /\ UNCHANGED accepted

Next == \E c \in Chan : Accept(c) \/ Deliver(c)

Spec == Init /\ [][Next]_vars
=============================================================================
