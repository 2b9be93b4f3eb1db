---------------------------- MODULE RelayMailbox ----------------------------
(***************************************************************************)
(* The relay implements a mailbox.  An envelope waits as long as a handler *)
(* has it, a row or a snapshot of a row holds it, or an outbound channel   *)
(* or its send task does.                                                  *)
(***************************************************************************)
EXTENDS RelayProperties

Loaded(p) == \E c \in Connections : \E row \in snapshot[c] : row.payload = p
Waiting == {p \in Payloads : Handled(p) \/ Stored(p) \/ Outbound(p) \/ Loaded(p)}

RecipientOf == [p \in Payloads |-> IF p \in Accepted THEN envelopes[p].to ELSE NoName]

Mail == INSTANCE Mailbox
  WITH Users <- ValidNames, Envelopes <- Payloads, Nobody <- NoName,
       recipient <- RecipientOf, waiting <- Waiting

\* Whatever statements fail, links break and processes die, every step of the
\* relay is a step of the mailbox or leaves it alone: a second drain of rows
\* that were already delivered brings back nothing that had left the relay.
ImplementsMailbox == Mail!Spec

=============================================================================
