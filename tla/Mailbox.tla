------------------------------- MODULE Mailbox -------------------------------
(***************************************************************************)
(* What the relay promises to those who send through it: a mailbox of      *)
(* envelopes, without connections, tasks, channels or a table.             *)
(*                                                                         *)
(* An accepted envelope waits.  While it waits it may be delivered to its  *)
(* recipient, more than once, or a copy of it may be lost; it stops to     *)
(* wait only when it was delivered or lost, and from then on nobody        *)
(* receives it.                                                            *)
(***************************************************************************)
EXTENDS Naturals, Sequences

CONSTANTS
  Users,
  Envelopes,
  Nobody      \* recipient of an envelope that was not accepted yet

VARIABLES
  recipient,  \* whom an envelope is for
  waiting,    \* envelopes that may still be delivered
  received,   \* what each user got, in order
  lost        \* envelopes of which a copy was lost

mail == <<recipient, waiting, received, lost>>

Delivered == UNION {{received[u][i] : i \in 1 .. Len(received[u])} : u \in Users}

Init ==
  /\ recipient = [e \in Envelopes |-> Nobody]
  /\ waiting = {}
  /\ received = [u \in Users |-> <<>>]
  /\ lost = {}

Accept(e, u) ==
  /\ recipient[e] = Nobody
  /\ recipient' = [recipient EXCEPT ![e] = u]
  /\ waiting' = waiting \cup {e}
  /\ UNCHANGED <<received, lost>>

Deliver(e) ==
  /\ e \in waiting
  /\ received' = [received EXCEPT ![recipient[e]] = Append(@, e)]
  /\ waiting' \in {waiting, waiting \ {e}}
  /\ UNCHANGED <<recipient, lost>>

\* Copies are lost, and envelopes that were delivered or lost are forgotten.
Lose(copies) ==
  /\ lost' = lost \cup copies
  /\ waiting' \in SUBSET waiting
  /\ waiting \ waiting' \subseteq Delivered \cup lost'
  /\ UNCHANGED <<recipient, received>>

Next ==
  \/ \E e \in Envelopes, u \in Users : Accept(e, u)
  \/ \E e \in Envelopes : Deliver(e)
  \/ \E copies \in SUBSET waiting : Lose(copies)

Spec == Init /\ [][Next]_mail

==============================================================================
