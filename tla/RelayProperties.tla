--------------------------- MODULE RelayProperties ---------------------------
(***************************************************************************)
(* What the relay promises about the envelopes it accepted and about its   *)
(* registry of connections, and the inductive invariant behind the proofs  *)
(* of RelayProofs.                                                         *)
(***************************************************************************)
EXTENDS Relay

\* A registered connection is one of that user's whose handle_socket has still
\* to pass its own unregistration (main.rs:255-264): no dead entry stays behind.
RegistrySound ==
  \A u \in ValidNames : activeClients[u] # NoConnection =>
    /\ owner[activeClients[u]] = u
    /\ phase[activeClients[u]] \notin {"free", "accepted", "closed"}

\* An envelope only ever sits in, or leaves through, a connection of the user
\* it is addressed to, although handle_encrypted_payload keeps using a sender
\* it cloned before the registry changed (main.rs:290-296).
Addressed ==
  /\ \A c \in Connections :
       \A p \in Elements(channel[c]) \cup ({inHand[c]} \ {NoPayload}) :
         envelopes[p].to = owner[c]
  /\ \A row \in queuedMessages : envelopes[row.payload].to = row.recipient
  /\ \A u \in ValidNames : \A p \in Elements(received[u]) : envelopes[p].to = u

\* Places where an accepted envelope can be.
Handled(p) == \E c \in Connections : handling[c] = p
Stored(p) == \E row \in queuedMessages : row.payload = p
Outbound(p) ==
  \E c \in Connections : p \in Elements(channel[c]) \/ inHand[c] = p
Delivered(p) == \E u \in ValidNames : p \in Elements(received[u])
Somewhere(p) == Handled(p) \/ Stored(p) \/ Outbound(p) \/ Delivered(p) \/ p \in lost

\* Between its acceptance and its delivery an envelope is always in a handler,
\* in the table or in an outbound channel; it disappears only at one of the
\* five places that drop envelopes (the actions that extend lost).
NothingVanishes == \A p \in Accepted : Somewhere(p)

\* An envelope is dropped only by a failure on its own way: the server dies, its
\* INSERT fails, or the link is down of the very connection whose receive task
\* handles it or whose channel it is in.  A displacement, a late disconnect or a
\* failed hand-over to a stale sender costs nothing while that link is up.
Has(c, p) == handling[c] = p \/ inHand[c] = p \/ p \in Elements(channel[c])

LossNeedsFailure ==
  [][\A p \in lost' \ lost :
       \/ restarts' # restarts
       \/ \E c \in Connections : link[c] # "up" /\ Has(c, p)
       \/ "insert" \in FailingStatements
          /\ \E c \in Connections : recvTask[c] = "storing" /\ handling[c] = p]_vars

\* Rows leave the table one way: deliver_queued_messages deletes a row after it
\* has put that row's payload into the channel of a connection of the recipient
\* (main.rs:331-341), even when two connections drain the same rows.
HandOver ==
  [][\A row \in queuedMessages : row \notin queuedMessages' =>
       \E c \in Connections :
         owner[c] = row.recipient /\ row.payload \in Elements(channel'[c])]_vars

\* What waits for one socket, first the payload the send task already took.
Outgoing(c) ==
  (IF inHand[c] = NoPayload THEN <<>> ELSE <<inHand[c]>>) \o channel[c]

\* On the way to one socket, queued envelopes keep the order of their rows and
\* envelopes relayed directly for one sender connection keep its order.
InOrder ==
  \A c \in Connections : \A i, j \in 1 .. Len(Outgoing(c)) : i < j =>
    LET p == Outgoing(c)[i]
        q == Outgoing(c)[j]
    IN /\ storedAs[p] # 0 /\ storedAs[q] # 0 => storedAs[p] < storedAs[q]
       /\ /\ storedAs[p] = 0 /\ storedAs[q] = 0
          /\ envelopes[p].connection = envelopes[q].connection
          => p < q

\* No user is sent the same envelope twice, through link failures, reconnects
\* and restarts between the forwarding and the deletion of a row.  Assumes one
\* live socket per user and no failing DELETE.
AtMostOnce ==
  \A u \in ValidNames : \A i, j \in 1 .. Len(received[u]) :
    i # j => received[u][i] # received[u][j]

\* A registration ends only when its own connection is closing, when a new
\* connection of the same user takes its place, or with the process: a late
\* disconnect never unregisters the user's newer connection.
OnlyOwnUnregistration ==
  [][\A u \in ValidNames :
       activeClients'[u] # activeClients[u] /\ activeClients[u] # NoConnection =>
         \/ phase[activeClients[u]] = "closing"
         \/ \E c \in Connections : activeClients'[u] = c /\ phase[c] = "accepted"
         \/ restarts' # restarts]_vars

\* An accepted envelope does not stay in memory for ever: in the end it is in
\* the table, has reached a socket, or was dropped.
EnvelopesSettle == \A p \in Payloads :
  p \in Accepted ~> Stored(p) \/ Delivered(p) \/ p \in lost

\* A connection whose peer is seen to have gone leaves the registry, whatever
\* its tasks were doing at that moment.
ClosedIsUnregistered == \A c \in Connections :
  link[c] = "closed" ~> \A u \in ValidNames : activeClients[u] # c

\* What a connection loaded from the queue is sent to its peer, unless the
\* link fails first.  Assumes that no statement fails.
LoadedIsDelivered == \A c \in Connections, p \in Payloads :
  (\E row \in snapshot[c] : row.payload = p) ~> (Delivered(p) \/ link[c] # "up")

\* README.md: "If Bob is online, the relay forwards the encrypted envelope
\* through Bob's WebSocket connection."  An envelope the relay accepted is not
\* left behind while its recipient stays connected over the registered socket;
\* envelopes that a broken connection took with it do not count.
Online(user) == \E c \in Connections :
  activeClients[user] = c /\ phase[c] = "serving" /\ link[c] = "up"

OnlineIsForwarded == \A p \in Payloads :
  p \in Accepted ~>
    \/ Delivered(p) \/ p \in lost
    \/ \E q \in Accepted : q = p /\ ~Online(envelopes[q].to)

\* README.md: "SQLite allows encrypted messages to survive temporary
\* disconnections."  A stored envelope is not lost when a connection ends.
StoredSurvives == restarts = 0 => \A p \in Payloads :
  storedAs[p] # 0 => Stored(p) \/ Outbound(p) \/ Delivered(p)

------------------------------------------------------------------------------
(* The inductive invariant: what ties the tasks, the snapshots and the table  *)
(* together.  RelayProofs proves it, and the properties above from it.        *)

\* The send and receive tasks exist from the end of the drain on, and what they
\* hold in their hands matches where they are.
TasksFollowPhase == \A c \in Connections :
  /\ phase[c] \in {"free", "accepted", "loading", "draining", "deleting"} =>
       sendTask[c] = "unspawned" /\ recvTask[c] = "unspawned"
  /\ sendTask[c] = "writing" <=> inHand[c] # NoPayload
  /\ recvTask[c] \in {"lookup", "relaying", "storing"} <=> handling[c] # NoPayload
  /\ handling[c] # NoPayload => handling[c] \in Accepted
  /\ recvTask[c] = "relaying" => target[c] # NoConnection

\* No connection is given up while its link is up: its tasks end, and its main
\* task goes on to unregister it, only after the link has failed.
EndedIsDown == \A c \in Connections :
  sendTask[c] = "done" \/ recvTask[c] = "done" \/ phase[c] \in {"closing", "closed"}
    => link[c] # "up"

\* An id names one row for ever, in the table and in every snapshot of it.
KnownRows == queuedMessages \cup UNION {snapshot[c] : c \in Connections}

RowsIdentified ==
  /\ \A row \in KnownRows : row.id <= sqliteSequence
  /\ \A row, other \in KnownRows : row.id = other.id => row = other

\* Before a row is deleted its payload is in the channel, and stays there: the
\* send task that could take it out is not spawned before the drain ends.
DeletedWasForwarded == \A c \in Connections : phase[c] = "deleting" =>
  /\ snapshot[c] # {}
  /\ FirstRow(snapshot[c]).payload \in Elements(channel[c])

\* Connection ids are drawn in order, and a drawn id belongs to a user.
ConnectionsDrawn == \A c \in Connections :
  /\ phase[c] = "free" <=> owner[c] = NoName
  /\ c >= nextConnectionId => phase[c] = "free"

\* Every payload anywhere was accepted, and what waits for a user, in a
\* snapshot or in the hands of a receive task, is that user's.
AcceptedFor(p, user) == p \in Accepted /\ envelopes[p].to = user

PayloadsAddressed ==
  /\ \A c \in Connections :
       /\ \A p \in Elements(channel[c]) : AcceptedFor(p, owner[c])
       /\ inHand[c] # NoPayload => AcceptedFor(inHand[c], owner[c])
       /\ \A row \in snapshot[c] :
            row.recipient = owner[c] /\ AcceptedFor(row.payload, owner[c])
       /\ recvTask[c] = "relaying" => AcceptedFor(handling[c], owner[target[c]])
  /\ \A row \in queuedMessages : AcceptedFor(row.payload, row.recipient)
  /\ \A u \in ValidNames : \A p \in Elements(received[u]) : AcceptedFor(p, u)

\* What a receive task handles is fresh: its connection accepted it, and until
\* it is relayed or stored it is nowhere else.  Rows tell what was stored.
Coming(c) == Elements(channel[c]) \cup ({inHand[c]} \ {NoPayload})

HandledIsFresh ==
  /\ \A p \in Payloads : p \notin Accepted => storedAs[p] = 0
  /\ \A row \in KnownRows : storedAs[row.payload] = row.id
  /\ \A c \in Connections : handling[c] # NoPayload =>
       /\ envelopes[handling[c]].connection = c
       /\ storedAs[handling[c]] = 0
       /\ \A d \in Connections : handling[c] \notin Coming(d)
       /\ \A u \in ValidNames : handling[c] \notin Elements(received[u])

\* Before the drain a channel holds relayed envelopes only, during the drain no
\* row that is still to be sent is older than what the channel holds, and what
\* a receive task handles is newer than what it has relayed.
DrainInOrder == \A c \in Connections :
  /\ phase[c] \notin {"draining", "deleting"} => snapshot[c] = {}
  /\ \A p \in Coming(c) :
       /\ phase[c] \in {"free", "accepted", "loading"} => storedAs[p] = 0
       /\ phase[c] = "draining" => \A row \in snapshot[c] : storedAs[p] < row.id
       /\ phase[c] = "deleting" => storedAs[p] <= FirstRow(snapshot[c]).id
       /\ \A d \in Connections :
            storedAs[p] = 0 /\ envelopes[p].connection = d /\ handling[d] # NoPayload
              => p < handling[d]

\* While sessions do not overlap, an envelope that a live connection is about to
\* send is stored, or loaded by it, only until its row has been deleted, and an
\* envelope that was received is nowhere on the way any more.
Live(c) == owner[c] # NoName /\ link[c] = "up"

OneLive == \A c, d \in Connections :
  Live(c) /\ Live(d) /\ owner[c] = owner[d] => c = d

LoadedBy(c, p) == \E row \in snapshot[c] : row.payload = p

SentOnce(c) ==
  /\ inHand[c] \notin Elements(channel[c])
  /\ \A i, j \in 1 .. Len(channel[c]) : i # j => channel[c][i] # channel[c][j]
  /\ \A p \in Coming(c) : Stored(p) \/ LoadedBy(c, p) =>
       phase[c] = "deleting" /\ p = FirstRow(snapshot[c]).payload

Gone(p) ==
  /\ ~Stored(p)
  /\ \A c \in Connections : Live(c) => p \notin Coming(c) /\ ~LoadedBy(c, p)

LiveSendOnce == \A c \in Connections : Live(c) => SentOnce(c)
ReceivedIsGone == \A u \in ValidNames : \A p \in Elements(received[u]) : Gone(p)

==============================================================================
