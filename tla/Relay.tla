-------------------------------- MODULE Relay --------------------------------
(***************************************************************************)
(* The message path of the relay server: server/src/main.rs (websocket     *)
(* sessions and the routing of envelopes) over the queued_messages table   *)
(* of server/src/directory.rs.                                             *)
(*                                                                         *)
(* Every websocket connection is served by three tokio tasks: the main     *)
(* task of handle_socket (phase), the send task that empties the           *)
(* connection's outbound channel (sendTask), and the receive task that     *)
(* handles one incoming frame at a time (recvTask).  A step of the model   *)
(* is the code between two points where another task or thread can get in  *)
(* (an await, a lock, a channel operation).  Envelopes are numbered in the *)
(* order in which the relay accepts them; frames the relay rejects, text   *)
(* frames and pings change nothing and are not steps.                      *)
(***************************************************************************)
EXTENDS Naturals, Sequences, FiniteSets

CONSTANTS
  Names,              \* texts a client may use as a username or recipient
  ValidNames,         \* those of them that pass is_valid_username
  NoName,             \* owner of a connection that was never opened
  MaxConnections,     \* bound: connections of one run of the server
  MaxPayloads,        \* bound: envelopes accepted in a behavior
  MaxRestarts,        \* bound: crashes of the server
  MaxFailedLinks,     \* bound: connections whose link fails, between restarts
  FailingStatements,  \* kinds of SQL statement that may return an error
  SessionsOverlap     \* may a user open a second socket while one is up?

ASSUME RelayAssumption ==
  /\ ValidNames \subseteq Names
  /\ NoName \notin Names
  /\ MaxConnections \in Nat
  /\ MaxPayloads \in Nat
  /\ MaxRestarts \in Nat
  /\ MaxFailedLinks \in Nat
  /\ FailingStatements \subseteq {"select", "insert", "delete"}
  /\ SessionsOverlap \in BOOLEAN

Connections == 1 .. MaxConnections
Payloads == 1 .. MaxPayloads
NoConnection == 0
NoPayload == 0

VARIABLES
  activeClients,     \* AppState.active_clients: user -> registered connection
  nextConnectionId,  \* AppState.next_connection_id
  owner,             \* the username in the URL of each connection
  phase,             \* where handle_socket is
  link,              \* the TCP connection: "up", "closed" or "silent"
  snapshot,          \* rows that deliver_queued_messages still has to send
  channel,           \* the unbounded outbound mpsc channel
  sendTask,          \* the spawned send task
  inHand,            \* payload the send task took from the channel
  recvTask,          \* the spawned receive task
  handling,          \* envelope inside handle_encrypted_payload
  target,            \* connection whose sender handle_encrypted_payload cloned
  queuedMessages,    \* table queued_messages
  sqliteSequence,    \* AUTOINCREMENT counter of that table
  envelopes,         \* history: accepted envelopes, in order
  storedAs,          \* history: row id an envelope was stored under, or 0
  received,          \* history: what reached each user's sockets, in order
  lost,              \* history: envelopes of which a copy was dropped
  restarts           \* history: crashes so far

registry == <<activeClients, nextConnectionId>>
mainVars == <<owner, phase, snapshot>>
sendVars == <<sendTask, inHand>>
recvVars == <<recvTask, handling, target>>
database == <<queuedMessages, sqliteSequence>>
history  == <<envelopes, storedAs, received, lost, restarts>>
vars == <<registry, mainVars, link, channel, sendVars, recvVars, database, history>>

Row == [id : Nat \ {0}, recipient : ValidNames, payload : Payloads]
Envelope == [connection : Connections, from : ValidNames, to : ValidNames]

Phases == {"free", "accepted", "loading", "draining", "deleting",
           "serving", "closing", "closed"}

Accepted == 1 .. Len(envelopes)
Elements(s) == {s[i] : i \in 1 .. Len(s)}

\* The receiving half of a channel lives in handle_socket until the send task
\* is spawned and dies with that task; a send fails only after that.
ChannelOpen(c) == sendTask[c] # "done"

\* SELECT ... WHERE recipient = ? ORDER BY id: the rows, and the first of them.
EveryRow(user) == queuedMessages        \* a query without its WHERE
RowsFor(user) == {row \in queuedMessages : row.recipient = user}
LastRow(rows) == CHOOSE row \in rows : \A other \in rows : row.id >= other.id
FirstRow(rows) == CHOOSE row \in rows : \A other \in rows : row.id <= other.id

\* INTEGER PRIMARY KEY AUTOINCREMENT: an id is never given out twice.
ReusedRowId == IF queuedMessages = {} THEN 1        \* without AUTOINCREMENT
               ELSE 1 + CHOOSE id \in {row.id : row \in queuedMessages} :
                          \A row \in queuedMessages : row.id <= id
NewRowId == sqliteSequence + 1

Init ==
  /\ activeClients = [u \in ValidNames |-> NoConnection]
  /\ nextConnectionId = 1
  /\ owner = [c \in Connections |-> NoName]
  /\ phase = [c \in Connections |-> "free"]
  /\ link = [c \in Connections |-> "up"]
  /\ snapshot = [c \in Connections |-> {}]
  /\ channel = [c \in Connections |-> <<>>]
  /\ sendTask = [c \in Connections |-> "unspawned"]
  /\ inHand = [c \in Connections |-> NoPayload]
  /\ recvTask = [c \in Connections |-> "unspawned"]
  /\ handling = [c \in Connections |-> NoPayload]
  /\ target = [c \in Connections |-> NoConnection]
  /\ queuedMessages = {}
  /\ sqliteSequence = 0
  /\ envelopes = <<>>
  /\ storedAs = [p \in Payloads |-> 0]
  /\ received = [u \in ValidNames |-> <<>>]
  /\ lost = {}
  /\ restarts = 0

------------------------------------------------------------------------------
(* The main task of a connection. *)

\* websocket_handler admits a valid username; handle_socket draws the id.
Connect(u) ==
  /\ u \in ValidNames
  /\ nextConnectionId \in Connections
  /\ SessionsOverlap \/ \A c \in Connections : owner[c] = u => link[c] # "up"
  /\ owner' = [owner EXCEPT ![nextConnectionId] = u]
  /\ phase' = [phase EXCEPT ![nextConnectionId] = "accepted"]
  /\ nextConnectionId' = nextConnectionId + 1
  /\ UNCHANGED <<activeClients, snapshot, link, channel, sendVars, recvVars,
                 database, history>>

\* The new connection replaces whatever the user had registered.
Register(c) ==
  /\ phase[c] = "accepted"
  /\ activeClients' = [activeClients EXCEPT ![owner[c]] = c]
  /\ phase' = [phase EXCEPT ![c] = "loading"]
  /\ UNCHANGED <<nextConnectionId, owner, snapshot, link, channel, sendVars,
                 recvVars, database, history>>

LoadQueue(c) ==
  /\ phase[c] = "loading"
  /\ \/ snapshot' = [snapshot EXCEPT ![c] = RowsFor(owner[c])]
     \/ "select" \in FailingStatements /\ UNCHANGED snapshot
  /\ phase' = [phase EXCEPT ![c] = "draining"]
  /\ UNCHANGED <<registry, owner, link, channel, sendVars, recvVars, database,
                 history>>

\* The channel cannot be closed here: handle_socket itself holds the receiver.
ForwardQueued(c) ==
  /\ phase[c] = "draining"
  /\ snapshot[c] # {}
  /\ channel' = [channel EXCEPT ![c] = Append(@, FirstRow(snapshot[c]).payload)]
  /\ phase' = [phase EXCEPT ![c] = "deleting"]
  /\ UNCHANGED <<registry, owner, snapshot, link, sendVars, recvVars, database,
                 history>>

\* DELETE FROM queued_messages WHERE id = ?
RecipientsRows(c) == RowsFor(owner[c])       \* WHERE recipient = ? instead
DeletedRows(c) == {row \in queuedMessages : row.id = FirstRow(snapshot[c]).id}

DeleteQueued(c) ==
  /\ phase[c] = "deleting"
  /\ queuedMessages' = queuedMessages \ DeletedRows(c)
  /\ snapshot' = [snapshot EXCEPT ![c] = @ \ {FirstRow(@)}]
  /\ phase' = [phase EXCEPT ![c] = "draining"]
  /\ UNCHANGED <<registry, owner, link, channel, sendVars, recvVars,
                 sqliteSequence, history>>

\* A failed DELETE ends the loop: the row and all later ones stay queued.
DeleteFails(c) ==
  /\ phase[c] = "deleting"
  /\ "delete" \in FailingStatements
  /\ snapshot' = [snapshot EXCEPT ![c] = {}]
  /\ phase' = [phase EXCEPT ![c] = "draining"]
  /\ UNCHANGED <<registry, owner, link, channel, sendVars, recvVars, database,
                 history>>

\* Only after the drain are the two tasks spawned.
Undrained(c) == phase[c] = "draining"        \* a drain cut short
Drained(c) == phase[c] = "draining" /\ snapshot[c] = {}

SpawnTasks(c) ==
  /\ Drained(c)
  /\ phase' = [phase EXCEPT ![c] = "serving"]
  /\ sendTask' = [sendTask EXCEPT ![c] = "idle"]
  /\ recvTask' = [recvTask EXCEPT ![c] = "idle"]
  /\ UNCHANGED <<registry, owner, snapshot, link, channel, inHand, handling,
                 target, database, history>>

\* tokio::select!: one task has ended, the other one is told to abort.
BothEnded(c) == sendTask[c] = "done" /\ recvTask[c] = "done"   \* join!
DisplacedOrEnded(c) ==                        \* a displaced session is ended too
  activeClients[owner[c]] # c \/ sendTask[c] = "done" \/ recvTask[c] = "done"
TaskEnded(c) == sendTask[c] = "done" \/ recvTask[c] = "done"

Select(c) ==
  /\ phase[c] = "serving"
  /\ TaskEnded(c)
  /\ phase' = [phase EXCEPT ![c] = "closing"]
  /\ UNCHANGED <<registry, owner, snapshot, link, channel, sendVars, recvVars,
                 database, history>>

\* The entry is removed only if it is still this connection's.
AnyEntry(c) == TRUE                           \* the id is not compared
AfterReading(c) == recvTask[c] = "done" /\ activeClients[owner[c]] = c
ShouldRemove(c) == activeClients[owner[c]] = c

Unregister(c) ==
  /\ phase[c] = "closing"
  /\ activeClients' = IF ShouldRemove(c)
                      THEN [activeClients EXCEPT ![owner[c]] = NoConnection]
                      ELSE activeClients
  /\ phase' = [phase EXCEPT ![c] = "closed"]
  /\ UNCHANGED <<nextConnectionId, owner, snapshot, link, channel, sendVars,
                 recvVars, database, history>>

------------------------------------------------------------------------------
(* The send task of a connection. *)

TakePayload(c) ==
  /\ sendTask[c] = "idle"
  /\ channel[c] # <<>>
  /\ inHand' = [inHand EXCEPT ![c] = Head(channel[c])]
  /\ channel' = [channel EXCEPT ![c] = Tail(@)]
  /\ sendTask' = [sendTask EXCEPT ![c] = "writing"]
  /\ UNCHANGED <<registry, mainVars, link, recvVars, database, history>>

\* A write is accepted: it reaches the peer, or a socket nobody reads any more.
WritePayload(c) ==
  /\ sendTask[c] = "writing"
  /\ IF link[c] = "up"
     THEN /\ received' = [received EXCEPT ![owner[c]] = Append(@, inHand[c])]
          /\ UNCHANGED lost
     ELSE /\ lost' = lost \cup {inHand[c]}
          /\ UNCHANGED received
  /\ inHand' = [inHand EXCEPT ![c] = NoPayload]
  /\ sendTask' = [sendTask EXCEPT ![c] = "idle"]
  /\ UNCHANGED <<registry, mainVars, link, channel, recvVars, database,
                 envelopes, storedAs, restarts>>

\* The task ends because a write failed or because it was aborted, and drops
\* the payload in its hand and, with the receiver, everything in the channel.
EndSendTask(c) ==
  /\ \/ sendTask[c] = "writing" /\ link[c] # "up"
     \/ sendTask[c] \in {"idle", "writing"} /\ phase[c] \in {"closing", "closed"}
  /\ lost' = lost \cup Elements(channel[c]) \cup ({inHand[c]} \ {NoPayload})
  /\ channel' = [channel EXCEPT ![c] = <<>>]
  /\ inHand' = [inHand EXCEPT ![c] = NoPayload]
  /\ sendTask' = [sendTask EXCEPT ![c] = "done"]
  /\ UNCHANGED <<registry, mainVars, link, recvVars, database, envelopes,
                 storedAs, received, restarts>>

------------------------------------------------------------------------------
(* The receive task of a connection: handle_encrypted_payload. *)

\* A binary frame parses, claims the connection's own user as its sender and
\* names a valid recipient; any other frame is dropped without effect.
FromOwner(c, from, to) == from = owner[c]     \* the recipient is not checked
Routable(c, from, to) == from = owner[c] /\ to \in ValidNames

AcceptFrame(c, from, to) ==
  /\ recvTask[c] = "idle"
  /\ Routable(c, from, to)
  /\ Len(envelopes) < MaxPayloads
  /\ envelopes' = Append(envelopes, [connection |-> c, from |-> from, to |-> to])
  /\ handling' = [handling EXCEPT ![c] = Len(envelopes) + 1]
  /\ recvTask' = [recvTask EXCEPT ![c] = "lookup"]
  /\ UNCHANGED <<registry, mainVars, link, channel, sendVars, target, database,
                 storedAs, received, lost, restarts>>

Recipient(c) == envelopes[handling[c]].to

\* The registry is read under the lock; the clone is used after its release.
LookupRecipient(c) ==
  /\ recvTask[c] = "lookup"
  /\ target' = [target EXCEPT ![c] = activeClients[Recipient(c)]]
  /\ recvTask' = [recvTask EXCEPT
       ![c] = IF activeClients[Recipient(c)] = NoConnection
              THEN "storing" ELSE "relaying"]
  /\ UNCHANGED <<registry, mainVars, link, channel, sendVars, handling,
                 database, history>>

RelayWithoutReturn(c) ==                      \* falls through to the queue
  /\ recvTask[c] = "relaying"
  /\ ChannelOpen(target[c])
  /\ channel' = [channel EXCEPT ![target[c]] = Append(@, handling[c])]
  /\ recvTask' = [recvTask EXCEPT ![c] = "storing"]
  /\ target' = [target EXCEPT ![c] = NoConnection]
  /\ UNCHANGED <<registry, mainVars, link, sendVars, handling, database, history>>

RelayPayload(c) ==
  /\ recvTask[c] = "relaying"
  /\ ChannelOpen(target[c])
  /\ channel' = [channel EXCEPT ![target[c]] = Append(@, handling[c])]
  /\ recvTask' = [recvTask EXCEPT ![c] = "idle"]
  /\ handling' = [handling EXCEPT ![c] = NoPayload]
  /\ target' = [target EXCEPT ![c] = NoConnection]
  /\ UNCHANGED <<registry, mainVars, link, sendVars, database, history>>

RelayRetries(c) ==                            \* keeps trying the same sender
  recvTask[c] = "relaying" /\ ~ChannelOpen(target[c]) /\ UNCHANGED vars

RelayFails(c) ==
  /\ recvTask[c] = "relaying"
  /\ ~ChannelOpen(target[c])
  /\ recvTask' = [recvTask EXCEPT ![c] = "storing"]
  /\ target' = [target EXCEPT ![c] = NoConnection]
  /\ UNCHANGED <<registry, mainVars, link, channel, sendVars, handling,
                 database, history>>

StorePayload(c) ==
  /\ recvTask[c] = "storing"
  /\ queuedMessages' = queuedMessages \cup
       {[id |-> NewRowId, recipient |-> Recipient(c), payload |-> handling[c]]}
  /\ sqliteSequence' = NewRowId
  /\ storedAs' = [storedAs EXCEPT ![handling[c]] = NewRowId]
  /\ recvTask' = [recvTask EXCEPT ![c] = "idle"]
  /\ handling' = [handling EXCEPT ![c] = NoPayload]
  /\ UNCHANGED <<registry, mainVars, link, channel, sendVars, target,
                 envelopes, received, lost, restarts>>

\* The error of the INSERT is logged and the envelope forgotten.
StoreFails(c) ==
  /\ recvTask[c] = "storing"
  /\ "insert" \in FailingStatements
  /\ lost' = lost \cup {handling[c]}
  /\ recvTask' = [recvTask EXCEPT ![c] = "idle"]
  /\ handling' = [handling EXCEPT ![c] = NoPayload]
  /\ UNCHANGED <<registry, mainVars, link, channel, sendVars, target, database,
                 envelopes, storedAs, received, restarts>>

\* The task ends at a close frame, a read error or the end of the stream, or
\* because it was aborted: then at any await, with the envelope it handles.
EndReceiveTask(c) ==
  /\ \/ recvTask[c] = "idle" /\ link[c] = "closed"
     \/ /\ recvTask[c] \in {"idle", "lookup", "storing"}
        /\ phase[c] \in {"closing", "closed"}
  /\ lost' = lost \cup ({handling[c]} \ {NoPayload})
  /\ handling' = [handling EXCEPT ![c] = NoPayload]
  /\ recvTask' = [recvTask EXCEPT ![c] = "done"]
  /\ UNCHANGED <<registry, mainVars, link, channel, sendVars, target, database,
                 envelopes, storedAs, received, restarts>>

------------------------------------------------------------------------------
(* The environment: the peer, the network, and the server process. *)

\* The peer closes the socket or it breaks: visible at once ("closed"), or
\* only after the kernel gives up on it ("silent", the server sends no pings).
LinkChanges(c) ==
  /\ phase[c] # "free"
  /\ link[c] = "up" => Cardinality({d \in Connections : link[d] # "up"}) < MaxFailedLinks
  /\ \/ link[c] = "up" /\ link' = [link EXCEPT ![c] = "silent"]
     \/ link[c] # "closed" /\ link' = [link EXCEPT ![c] = "closed"]
  /\ UNCHANGED <<registry, mainVars, channel, sendVars, recvVars, database,
                 history>>

InMemory == UNION {(Elements(channel[c]) \cup {inHand[c], handling[c]}) \ {NoPayload} :
                     c \in Connections}

\* The process dies and is started again (Restart=always): the database stays.
Restart ==
  /\ restarts < MaxRestarts
  /\ restarts' = restarts + 1
  /\ lost' = lost \cup InMemory
  /\ activeClients' = [u \in ValidNames |-> NoConnection]
  /\ nextConnectionId' = 1
  /\ owner' = [c \in Connections |-> NoName]
  /\ phase' = [c \in Connections |-> "free"]
  /\ link' = [c \in Connections |-> "up"]
  /\ snapshot' = [c \in Connections |-> {}]
  /\ channel' = [c \in Connections |-> <<>>]
  /\ sendTask' = [c \in Connections |-> "unspawned"]
  /\ inHand' = [c \in Connections |-> NoPayload]
  /\ recvTask' = [c \in Connections |-> "unspawned"]
  /\ handling' = [c \in Connections |-> NoPayload]
  /\ target' = [c \in Connections |-> NoConnection]
  /\ UNCHANGED <<database, envelopes, storedAs, received>>

------------------------------------------------------------------------------
MainTask(c) ==
  \/ Register(c) \/ LoadQueue(c) \/ ForwardQueued(c) \/ DeleteQueued(c)
  \/ DeleteFails(c) \/ SpawnTasks(c) \/ Select(c) \/ Unregister(c)

SendTask(c) == TakePayload(c) \/ WritePayload(c) \/ EndSendTask(c)

ReceiveTask(c) ==
  \/ LookupRecipient(c) \/ RelayPayload(c) \/ RelayFails(c)
  \/ StorePayload(c) \/ StoreFails(c) \/ EndReceiveTask(c)

Environment ==
  \/ \E u \in Names : Connect(u)
  \/ \E c \in Connections, from \in Names, to \in Names : AcceptFrame(c, from, to)
  \/ \E c \in Connections : LinkChanges(c)
  \/ Restart

Next ==
  \/ \E c \in Connections : MainTask(c) \/ SendTask(c) \/ ReceiveTask(c)
  \/ Environment

Spec == Init /\ [][Next]_vars

\* tokio polls every runnable task and SQLite answers every statement; peers,
\* the network and the operator promise nothing.
Fairness == \A c \in Connections :
  /\ WF_vars(MainTask(c))
  /\ WF_vars(SendTask(c))
  /\ WF_vars(ReceiveTask(c))

FairSpec == Spec /\ Fairness

------------------------------------------------------------------------------
\* Every variable has its type.
TypeOK ==
  /\ activeClients \in [ValidNames -> Connections \cup {NoConnection}]
  /\ nextConnectionId \in 1 .. MaxConnections + 1
  /\ owner \in [Connections -> ValidNames \cup {NoName}]
  /\ phase \in [Connections -> Phases]
  /\ link \in [Connections -> {"up", "closed", "silent"}]
  /\ snapshot \in [Connections -> SUBSET Row]
  /\ channel \in [Connections -> Seq(Payloads)]
  /\ sendTask \in [Connections -> {"unspawned", "idle", "writing", "done"}]
  /\ inHand \in [Connections -> Payloads \cup {NoPayload}]
  /\ recvTask \in [Connections -> {"unspawned", "idle", "lookup", "relaying",
                                   "storing", "done"}]
  /\ handling \in [Connections -> Payloads \cup {NoPayload}]
  /\ target \in [Connections -> Connections \cup {NoConnection}]
  /\ queuedMessages \in SUBSET Row
  /\ sqliteSequence \in Nat
  /\ envelopes \in Seq(Envelope)
  /\ storedAs \in [Payloads -> Nat]
  /\ received \in [ValidNames -> Seq(Payloads)]
  /\ lost \in SUBSET Payloads
  /\ restarts \in 0 .. MaxRestarts

==============================================================================
