# Phantasma: TLA+ models, checks and proofs

Phantasma is a small end-to-end encrypted messenger in Rust: a relay server
(`server/`), a command-line client (`client/`), shared wire types (`shared/`)
and a browser client (`docs/app.js`).  The modules in this directory model the
parts of it that are concurrent, that fail, or that keep state across runs.  TLC
checks them on small instances and TLAPS proves the main safety properties for
every value of the constants.  Paths below are relative to the repository.

## Inventory

| Part | State | Operations | Hard because | What makes it correct |
|---|---|---|---|---|
| Relay sessions and routing (`server/src/main.rs`) | `active_clients`, `next_connection_id`, one unbounded channel and three tasks per websocket | `websocket_handler`, `handle_socket`, `handle_encrypted_payload`, `deliver_queued_messages` | tasks of many connections interleave at every await; a cloned sender outlives its registration; tasks are aborted anywhere | envelopes reach only their recipient and are never forgotten silently; the registry holds only live connections |
| Store-and-forward queue (`server/src/directory.rs:126-178`) | table `queued_messages`, AUTOINCREMENT counter | INSERT, SELECT by recipient, DELETE by id | read, forward and delete are three steps; two connections may drain the same rows; statements fail; the process restarts | a row is deleted only after it was handed over; order by row id; no duplicates while sessions do not overlap |
| Public-key directory (`server/src/main.rs:109-165`, `directory.rs:72-124`) | table `public_keys` | upsert, lookup | requests arrive after their client has ended; answers are old when they are used | published keys are keys somebody holds; a user's signing identity does not change |
| Database preparation (`directory.rs:10-70`) | the schema | create tables, add missing columns | rows from before encryption keys get an empty key | old rows only affect their own users |
| Client loop (`client/src/main.rs`) | socket, contact book, identity | `/add`, `/lookup`, `/send`, `/to`, reception, reconnection | a command awaits the server and the disk while keys change elsewhere | no message is refused unless keys changed; saved keys change only on request |
| Arguments (`client/src/main.rs:338-386`) | none | `read_args` | options and plain arguments fill the same fields in any order | an option counts wherever it stands, and no plain argument is ignored |
| HTTP client (`client/src/server_api.rs`) | none | register, lookup, URLs | failures end some commands and the whole client for others; addresses are written in many ways | every way of writing an address leads to the same endpoints |
| Contact book (`client/src/contacts.rs`) | map in memory, JSON file | load or create, add | the file is truncated before it is written | file and map agree between saves |
| Identity file (`client/src/identity.rs`) | JSON file with two key pairs | load, create, upgrade an old file | several clients of one user may start at once; crashes | one identity per user; what is published is saved |
| Cryptography (`client/src/crypto.rs`) | none | encrypt, decrypt | pure | decrypts exactly what was encrypted for the key pair |
| Wire formats, validation (`shared/src/lib.rs`) | none | JSON, `is_valid_*` | pure | every accepted name can be used in a request |
| Browser client (`docs/app.js`) | page state, `localStorage`, socket, timer | start, add, send, receive, reconnect | handlers interleave at every `await`; timers outlive sockets | one socket at a time; contacts belong to the signed-in user |
| Deployment (`deploy/`) | none | `Restart=always` | the relay is killed and started again | only the database survives |

A client registers its public keys over HTTP, then opens a websocket.  It looks
up a peer's key over HTTP, encrypts, and sends an envelope over its websocket.
The relay forwards the envelope into the channel of the recipient's registered
connection or stores it; a new connection first drains what was stored.  The
receiving client decrypts and compares the sender's key with its contact book.

The hazards of the code are listed, each at its line and with the properties
that cover it, in `PROJECT.json`.

## Modules

| Module | Models | Built on |
|---|---|---|
| `Relay` | server sessions, routing and the queue | |
| `RelayProperties` | what the relay promises, and the parts of its inductive invariant | `Relay` |
| `Mailbox` | the abstract service: envelopes wait, are delivered, are lost | |
| `RelayMailbox` | the refinement mapping from the relay to the mailbox | `RelayProperties`, `Mailbox` |
| `MCRelay` | the instances checked by TLC | `RelayMailbox` |
| `RelayProofs` | theorems about the relay | `RelayProperties` |
| `RelayMailboxProofs` | the relay implements the mailbox | `RelayProofs`, `RelayMailbox` |
| `RelayDeliveryProofs` | order and uniqueness of deliveries | `RelayProofs` |
| `Identity` | the identity file and the registration of its keys | |
| `SharedIdentity` | the abstract promise: one identity for all runs of a client | |
| `IdentityAgreement` | the mapping from the identity file to the shared identity | `Identity`, `SharedIdentity` |
| `Startup` | arguments, server URLs and user names, as functions | |
| `ClientStart` | what the user types before a client runs | `Identity`, `Startup` |
| `MCIdentity` | the instances of both | `ClientStart`, `IdentityAgreement` |
| `IdentityProofs` | theorems about the identity file, and its refinement | `IdentityAgreement` |
| `StartupProofs` | theorems about what is read | `ClientStart` |
| `Chat` | client loops, contact books and the directory, over an abstract network | |
| `TrustedContacts` | the abstract promise: trust on first use | |
| `ChatTrust` | the mapping from clients, files and lookups to trusted contacts | `Chat`, `TrustedContacts` |
| `MCChat` | the instances checked by TLC | `ChatTrust` |
| `ChatProofs` | theorems about clients, their books and their files | `ChatTrust` |
| `ChatTrustProofs` | the clients implement trust on first use | `ChatProofs` |
| `BrowserSession`, `MCBrowser`, `BrowserProofs` | one page of the browser client | |

### Relay

A step is the code between two points where another task can get in: an await,
the `active_clients` lock, a channel operation.  For a connection `c`:

| Code | Model |
|---|---|
| `state.active_clients`, `next_connection_id` | `activeClients`, `nextConnectionId` |
| place of `handle_socket` | `phase[c]`: accepted, loading, draining, deleting, serving, closing, closed |
| rows returned by `queued_messages_for` and not yet forwarded | `snapshot[c]` |
| `outbound_sender` / `outbound_receiver` | `channel[c]` |
| `send_task`, the payload it has received | `sendTask[c]`, `inHand[c]` |
| `receive_task`, the envelope and the sender it cloned | `recvTask[c]`, `handling[c]`, `target[c]` |
| the TCP connection | `link[c]`: up, closed (seen by the server), silent (not seen) |
| table `queued_messages`, its sequence | `queuedMessages`, `sqliteSequence` |

`handle_socket` is `Connect`, `Register`, `LoadQueue`, then `ForwardQueued` and
`DeleteQueued` (or `DeleteFails`) for every row, `SpawnTasks`, `Select`,
`Unregister`.  The send task is `TakePayload`, `WritePayload`, `EndSendTask`; the
receive task is `AcceptFrame`, `LookupRecipient`, then `RelayPayload`, or
`RelayFails` and `StorePayload` (or `StoreFails`), and `EndReceiveTask`.  An
abort takes effect at any await: both `End` actions are enabled from the moment
`Select` has run, and are not forced to come next.  A statement that is running
when its task is aborted may still be carried out; this is the order
`StorePayload`, `EndReceiveTask`.  `LinkChanges` and `Restart` are the
environment.  Frames that the relay drops (text frames, frames that do not
parse, a sender that is not the connection's user, an invalid recipient) change
nothing and are not steps.

`envelopes`, `storedAs`, `received`, `lost` and `restarts` are history: no guard
of the code's actions reads them, apart from the identity of the envelope a
handler works on.

### Mailbox

What a sender may rely on, without connections, tasks, channels and the table:
an accepted envelope waits, may be delivered to its recipient while it waits,
more than once, and stops to wait only when it was delivered or when the relay
dropped it; after that nobody receives it.  `RelayMailbox` maps the relay to it:
an envelope waits while a handler, a row, the snapshot of a row, an outbound
channel or a send task has it.  The mailbox is as weak as the code is: it may
lose and repeat envelopes, since the relay does when links and statements fail.
What it excludes is that an envelope comes back after the last copy has left the
relay, reaches somebody else, or disappears without a cause.

### Identity

One user's identity file and the registration of its keys.  Any number of
clients (runs of the program) go through `load_or_create_in`: `Launch` is the
test whether the file exists, `ReadFile` the parse of what it finds, `OpenFile`
and `WriteFile` the two halves of `fs::write` or of `create_new` and
`write_all`, `Register` the request of `main`, `Upsert` its arrival at the
server, which may be later than the client's `Exit`.  A key pair is the number
of its generation.  A file is absent, of the old format (signing key only),
complete, or partial: truncated and not written again, which never parses.
`found` is history: the file as it was before the first client.

`SharedIdentity` says what all this is for, without files and formats: an
identity is there or is chosen once, every run that comes to an identity comes to
this one, and only this one is asked for and published.  `IdentityAgreement` maps
the file to it.  The identity is the signing key; a file that is complete has
decided on it, and an old file decided before the first client ran.  `found` is
needed for the second case: while old files are upgraded the file may be
truncated, and nothing else in the state says which identity it held.

### Startup and ClientStart

`Startup` holds the pure functions: `ReadArg` and `ReadArgs` (one round of the loop
of `read_args`, and what it returns), `FromOptionalArg`
(`ServerEndpoints::from_optional_arg`), `MakeRelayConfig` (the same in
`docs/app.js:400-422`), `IsValidUsername`, and the paths of requests with the routes
that match them.  Long and short options are one token; a URL is a sequence of a
scheme, slashes and names, so that suffixes and slashes are stripped as the code
strips them; a user name is a sequence of characters, with one for every class of
characters that matters.

`ClientStart` composes them with `Identity` the way `main` does: the user types
options with their values and plain arguments one by one (`Type`), gives an address
or chooses a name, and the client reads it (`Enter`) before the identity file is
touched.  `reading` are the locals of `read_args` after what was typed so far, and
`given` is the history of what was typed, by what it is for.  The properties compare
the functions with what the user meant; `ArgumentsRead` does so for every command
line that could end here, and for those that end in an option without its value.

### Chat

Clients that look keys up, save them, send and receive.  A client is idle in
`tokio::select!` or awaits one thing: an answer of the server (`lookup`,
`answered`) or its disk (`saving`); the job it does this for is `job[u]`.  A key
is its owner and its generation.  A message carries the key of its sender and is
encrypted for one key of its recipient.  `Rekey` is the replacement of a deleted
identity file.  The file is `torn` between the truncation and the write of
`fs::write`; `Start` refuses a torn file, as `load_or_create` does.

The relay appears only in what it may do to messages: a message in `sent` may be
received at any time, in any order, repeatedly, or never.  This allows everything
the relay of module `Relay` does to the messages of a client, whose loss, repetition
and reordering of envelopes are what `relay_overlap`, `relay_once` and
`relay_survive` are about.

`TrustedContacts` is what the users of such clients may rely on, with no lookups,
files, directory or relay.  A client trusts the first key it learns for a contact
and changes it only while its user asks for another one; it encrypts for the key it
trusts; a message that it opens is shown if it was encrypted for the present key of
its recipient by the key that is trusted, and is refused otherwise; the next run
trusts what this one trusted at some moment.  In `ChatTrust` a client trusts what
its book in memory says, what is kept is what the file last said in full, and the
user asks for another key with `/add` and `/lookup`.  The mapping is not trivial
because the code does in several steps what is one here: it decrypts a message
before it awaits the directory and the disk and compares keys afterwards, and it
looks a key up long before the key enters the book.

### BrowserSession

One page of `docs/app.js`.  JavaScript runs one handler at a time, up to an
`await`; a step is the code from one such point to the next.

| Code | Model |
|---|---|
| `state.username`, and with it `state.identity` and `state.relay` | `username` |
| `state.contacts`; the contacts in `localStorage` | `contacts`; `stored` |
| the recipient list | `options` |
| `state.socket`, every socket's `readyState` and the name in its URL | `socket`, `readyState`, `user` |
| `state.reconnectTimer`, pending timeouts | `reconnectTimer`, `timers` |
| handlers that await a promise, with the values they hold | `task` |

`start` is `Start`, then `SignedIn` or `StartFails`; `addContactFromInput` is
`AddContactFromInput`, `LookupPublicKey` (the relay reads the row),
then `AddContact` or `LookupEnds`; `sendCurrentMessage` is `SendCurrentMessage`,
`FoundRecipient` if it had to look the recipient up, and `Encrypted`;
`receiveEncryptedBytes` is `ReceiveEncryptedBytes`, `Decrypted` and, for an
unknown sender, a lookup and `FoundSender`.  `connectWebSocket` is part of
`SignedIn` and of `TimerFires`; its close handler is `SocketCloses`, which runs for
replaced sockets too.  The user may press start at any time, under any name of
this browser, and may load the page again (`Reload`).  The key pair of a name is
created by `loadOrCreateIdentity` in one step and kept, so it is the name itself.
`sent`, `inbox`, `shown`, `refused` and the counters are history; a message is
recorded in `sent` if no start was pressed, awaited or failed since its
encryption began.

## Runs

`browser_session`, `chat_rekey` and `relay_faults` take about two minutes on two
cores, every other run at most one.

| Run | Instance | Checks | Shows |
|---|---|---|---|
| `relay_overlap` | 3 connections of 2 users, overlapping, 2 envelopes, 1 failing link, DELETE may fail | `Addressed`, `InOrder`, `HandOver`, `LossNeedsFailure`, `OnlyOwnUnregistration` | nothing goes astray when two connections of one user drain the same rows and senders are cloned before a displacement; only a connection whose own link is down loses anything |
| `relay_faults` | 2 connections, 2 envelopes, 1 restart, 1 failing link, all statements may fail | `TypeOK`, `RegistrySound`, `NothingVanishes`, `ImplementsMailbox` | failures, aborts and a crash lose envelopes only where the code drops them, and the relay stays a mailbox |
| `relay_once` | as above without failing DELETE, one live socket per user, 2 failing links | `AtMostOnce` | reconnects and a restart in the middle of a drain repeat nothing |
| `relay_liveness` | 2 connections, 2 envelopes, fair tasks | `EnvelopesSettle`, `ClosedIsUnregistered`, `LoadedIsDelivered` | handlers end, closed connections unregister, drained rows are sent |
| `relay_online` | 2 connections, 1 envelope, fair tasks, no failures | `OnlineIsForwarded` | violated, see below |
| `relay_survive` | 2 connections, 1 envelope | `StoredSurvives` | violated, see below |
| `identity_overlap` | 3 clients at once, no file or an old one, unix; before them a command line of 4 items, an address or a name | `TypeOK`, `KeysAgree`, `PublishedIsSaved`, `OneIdentity`, `ImplementsSharedIdentity`, `ArgumentsRead`, `HintConnects`, `ClientsAgree`, `NamesRouted` | one creator wins, and only its keys are used and published; concurrent upgrades keep the signing identity; all runs share one identity; the last value of an option counts and no plain argument is ignored, and every address and name leads to the right request |
| `chat_rekey` | 2 users, one with an old row, 2 keys each, 2 messages, lookups and saves may fail | `TypeOK`, `RefusedOnlyAfterRekey`, `FileFollowsBook`, `PinsKept`, `ImplementsTrust` | what is refused, when a saved key changes, that the file never keeps a replaced key, and that every step is one of trust on first use |
| `chat_opens` | 2 users who also write to themselves, stable keys, 2 messages, fair answers, no failures | `BookIsSaved`, `OpenedIsShown` | a message that a client has begun to open is shown, and the file is the book |
| `chat_load` | 2 users, 1 message | `ContactsLoad` | violated, see below |
| `browser_session` | 2 users of one browser, 1 peer with 2 keys, 2 starts, 4 sockets, 2 handlers, 1 message, 1 failure | `TypeOK`, `OneSocket`, `ReconnectsCounted`, `SocketFollowsUser`, `SentByOneUser`, `ContactsOfUser`, `RefusedOnlyAfterRekey` | overlapping starts and reconnections leave one live socket, that of the user who is signed in; books stay those of their users; messages sent with no start in between are of one user; nothing is refused unless keys changed |
| `browser_settles` | 1 start, 3 handlers, 2 messages, 1 failure, fair promises | `StaysConnected`, `ReceivedIsShown` | after a failed connection the page is connected again and stays so; concurrent receptions are all shown |

Why these bounds are enough for the interesting cases.  In the relay two
connections of one user are needed to displace, drain twice and disconnect late,
and a third one for a sender; two envelopes are needed to reorder, to overtake
and to reuse a row id; one restart and one or two failing links reach every
place where a task can be cut off.  In `Identity` three clients let two of them
race and a third one read the result; `MaxGenerations` bounds how often keys are
generated in a behaviour.  In `Chat` two keys per user make a saved key old, and
two messages make a client meet a sender once unknown and once known.  In
`BrowserSession` two starts under two names overlap each other and everything
else; four sockets leave one to be connected, one to be closed and a timer for
each start; two handlers let a lookup race a start, a send or a reception, and
three in `browser_settles` let receptions race a lookup of the same sender.  In
`ClientStart` four items (options with their values, or plain arguments) are every
way to give both values twice or as plain arguments, and one text looks like an
option; addresses have paths of up to two parts, one of them `ws`, and up to two
slashes; names have every combination of up to three characters and the two lengths
around the limit.  Users are
symmetric in the safety runs of the relay and of the browser; no liveness run uses
symmetry.

The bounds are constants in guards: `MaxConnections`, `MaxPayloads`,
`MaxRestarts`, `MaxFailedLinks` (only counts links that fail between two
restarts), `MaxGenerations`, `MaxKeys`, `MaxMessages` (in `Chat` through
`MayStillSend`), `Talks`, `MaxItems`, `MaxSlashes`, `MaxStarts`, `MaxTasks` and `MaxFailures`;
`MaxSockets` is large enough never to be reached.  `SessionsOverlap`, `ClientsOverlap`, `FailingStatements`, `Faults`,
`Unix` and `InitialFiles` choose the circumstances.  Deadlock is not checked:
the relay and the clients do stop in the model when the bounds are used up, when
all connections are closed, when a torn file keeps a client from starting, or
when a page waits for a user who presses nothing.

### Fairness

`Relay!FairSpec` has weak fairness of each of the three tasks of a connection:
tokio polls every task that can run, SQLite answers every statement and the
socket accepts writes or reports an error.  Peers, the network and the operator
are not fair.  `Chat!FairSpec` has weak fairness of what a client does once it
has started something: the server answers and the disk writes.  Users, the
network, exits and restarts are not fair.  `BrowserSession!FairSpec` has weak
fairness of promises (a fetch and WebCrypto settle), of timers, and of sockets
that connect or close (the browser reports the one or the other); users, peers
and connections that break are not fair.

### Disagreements with the documentation

Three runs check a sentence of the README of the repository and find a behaviour
of the code that contradicts it.

* `relay_online`: "If Bob is online, the relay forwards the encrypted envelope
  through Bob's WebSocket connection."  The lookup misses, Bob connects, registers
  and drains an empty queue, and only then is the envelope inserted.  It stays in
  the table while Bob is online, until he reconnects.  Envelopes that a broken
  connection took with it are excepted, no link and no statement fails in this run,
  and being online means that the registered connection is served.
* `relay_survive`: "SQLite allows encrypted messages to survive temporary
  disconnections."  Rows are deleted when they enter a channel in memory; a
  disconnection then loses them.
* `chat_load`: "The existing identities and contacts load automatically."  A
  client that ends while it saves leaves a contacts file that stops it for good.
  The identity file has the same hazard, once: the upgrade of an old file
  truncates the only copy of the signing key before it writes
  (`identity.rs:181`).  No property covers that loss.

### Observations that contradict no document

* The names `.` and `..` are valid everywhere (`shared/src/lib.rs:107-113`), but
  URL parsers resolve them as path segments: their user can register and, from
  the command line, connect, but is never found by a lookup, and the browser
  client never connects.  `NamesRouted` states this as the only exception.
* A page on which start was pressed twice reconnects for ever: each close handler
  of a replaced socket schedules a reconnection, which replaces the other one's
  socket.  `ReconnectsCounted` shows that there are never more of them than
  sign-ins; `StaysConnected` holds, and is stated, for one.
* A contact that is looked up while another user signs in on the same page
  enters the book of that user (`app.js:182-192`).  A message that is typed by one
  user and encrypted while another one signs in may mix the two;
  `SentByOneUser` is about messages with no start in between.
* A sender whose directory row is older than encryption keys is saved with the empty
  key, and its messages are refused until the user runs `/add` again;
  `RefusedOnlyAfterRekey` excepts such senders.
* A client whose save fails in `/add` ends, and its file may keep the key that the
  book had replaced; `FileFollowsBook` is about clients that run.
* A message is dropped, and not counted as refused, when the lookup or the save of
  its unknown sender fails; `OpenedIsShown` assumes that neither does.
* On systems other than unix, clients that create an identity at the same time may
  go on with different keys (`identity.rs:218`).

## Proofs

Every invariant, action property and refinement that the passing runs check is
also a theorem.  The theorems hold for every number of users, connections, clients,
envelopes, keys, sockets, handlers, messages, restarts and failures, and for command
lines, addresses and names of any length.  They assume what the constants'
assumptions say (`RelayAssumption`, `IdentityAssumption`, `ClientStartAssumption`,
`ChatAssumption`, `BrowserAssumption`) and, where stated, a choice of circumstances.

**Relay.**  `TypeCorrect`, `RegistryCorrect`, `UnregistrationCorrect`,
`NothingVanishesCorrect`, `LossNeedsFailureCorrect`, `AddressedCorrect` and
`HandOverCorrect` are proved in layers, each inductive relative to the one before:

1. `Bookkeeping`: types; the tasks of a connection exist exactly from the end of
   its drain on, and their hands are full exactly when they say so
   (`TasksFollowPhase`); connection ids are drawn in order (`ConnectionsDrawn`).
   Types alone are not inductive: `StorePayload` needs the envelope's recipient
   to be a valid name, which `handle_encrypted_payload` checked two steps before.
2. `RegistrySound`, inductive over the first layer: `Unregister` compares ids, and
   an id is never drawn twice between restarts.
3. `RowsIdentified` and `DeletedWasForwarded`.  The first says that an id names one
   row, in the table and in every list somebody still works through; it is why a
   DELETE by id never hits a newer row.  The second says that the payload of the
   row about to be deleted is still in the channel: no send task exists yet that
   could have taken it.  `HandOver` follows from both.
4. `PayloadsAddressed`: every payload in a channel, a hand, a snapshot or the
   table was accepted and is addressed to the user it waits for, and the target
   a handler cloned is a connection of the envelope's recipient, displaced or
   not.  `Addressed` follows.
5. `NothingVanishes` is inductive over layers 1 and 3: only a deletion could make
   an envelope vanish, and the deleted row was forwarded.  It counts what was
   dropped as accounted for; when something may be dropped is `LossNeedsFailure`.
6. `EndedIsDown`, inductive over the first layer: a task ends, and its connection is
   closed, only after the link of this connection has failed.  Each of the actions
   that drop envelopes then has its cause, and `LossNeedsFailure` follows: a
   displacement, the end of another connection or a stale sender loses nothing.

**Delivery** (`RelayDeliveryProofs`).  Two more layers give `InOrderCorrect`.
`HandledIsFresh`: what a handler works on is in no channel, no row and nobody's
hands yet, and `storedAs` is the id of its row wherever the row is known.
`DrainInOrder`: before the drain a channel holds live envelopes only, during the
drain nothing left to send is older than what the channel holds, and a handler's
envelope is newer than all it has relayed.  An envelope appended to a channel then
has the highest id, or the highest number of its sender, so every outgoing
sequence stays ordered.  `AtMostOnceCorrect` assumes that the sockets of a user
do not overlap and that no DELETE fails; both are needed, since a second drain or
a row that stays repeats the delivery.  Its layers are `OneLive` (one live
connection of a user), `LiveSendOnce` (what a live connection is about to send is in
no row but the one about to be deleted, and only once on the way), and
`ReceivedIsGone` (what was received is nowhere on the way any more, to a live
connection).

**Mailbox** (`RelayMailboxProofs`).  `RelayIsAMailbox` is the refinement: `MailInit`
maps the initial states, `MailStep` maps every action of the relay to `Accept`
(`AcceptFrame`), `Deliver` (`WritePayload`), `Lose` (what fails, aborts, breaks or
deletes) or to a step that leaves the mailbox unchanged.  It needs layers 1
and 4 and `NothingVanishes`: an envelope that stops to wait was received or lost.

**Identity.**  Three inductive invariants, one for each way in which the file
decides.  `OneCreator` (unix, no file at the start): at most one client ever
writes, a complete file never changes, and everything used or published is in
it.  `Upgraded` (an old file at the start): all keys anywhere have the signing key
of the file and an encryption key generated later.  `OneAtATime` (clients do not
overlap, any system, any file): the file is written before anything is
published, and never again.  `KeysAgreeCorrect` and `PublishedIsSavedCorrect`
assume unix or clients that do not overlap, and combine the three;
`OneIdentityCorrect` assumes unix and combines the first two.  Builds that are not
for unix are covered by these proofs only.

`IdentityIsShared` is the refinement: on unix, or with one client at a time,
`Identity` implements `SharedIdentity`.  It rests on what the three invariants have
in common (`Decided`): an old file has decided from the start, and otherwise a file
is complete once and never opened again.  Then `WriteFile` is the choice of the
identity if the file was absent and the adoption of the old one if it was not,
`ReadFile` is an adoption, `Register` and `Upsert` ask for and publish it, and
truncating the file changes nothing.  The condition is needed: elsewhere two
overlapping creators choose two identities.

**Startup.**  What `read_args` returns is proved for command lines of any length
(`ArgumentsReadCorrect`).  The invariant `ReadsGiven` relates the locals of the loop
to the command line: each value is the last one given for its option, the plain
arguments are kept in order, and after an option that ends the program nothing
changes.  `Returned` then computes the result.  `HintConnectsCorrect` and
`ClientsAgreeCorrect` hold for any host, any path that does not end in a slash and
any number of slashes; they need that what `trim_end_matches` keeps is the only
prefix without a slash at its end and with nothing but slashes after it
(`TrimmedSlashes`), and that `/ws` is a suffix of what was written exactly if it was
appended (`WsIsSuffix`).  `NamesRoutedCorrect` holds for names of any length: no
character of a valid name is a slash, so a path matches the one route it was written
for and gives back the name, and the two names that URL parsers resolve reach no
handler.

**Chat.**  The invariant `IInv` bounds what can be known of a user's key
(`KeysOf`): a generation up to the present one, or the empty key if the user has
an old row.  Books, files, the directory, answers and messages only hold keys of
this set under that user's name, a client past its registration has a row, and so
has the sender of every message.  With one generation and no old row the set has
one member, so nothing can fail to match: `RefusedOnlyAfterRekeyCorrect`.
`PinsKeptCorrect` adds that a client that looks up a key in order to send or to
open a message still does not know it when the answer comes (`Asking`).
`FileFollowsBookCorrect` adds that a file lacks at most the contact that is being
looked up (`Follows`); the property itself says nothing of a client that is
saving, where `fs::write` has truncated the file and, for `/add`, the book is ahead
of it.  `BookIsSavedCorrect` assumes that no save fails.

**Trust on first use** (`ChatTrustProofs`).  `TrustOnFirstUse` is the refinement of
`TrustedContacts`.  Besides `IInv` and `Asking` it needs `Opening`: a message that a
client has begun to open is for its user and still decrypts.  This is inductive
because a key changes only between two runs (`KeyStays`), and a client that ends
forgets the message.  `MappedStep` says once what a step of one client does to the
variables of the abstract state; each action then is the beginning or the end of a
run (`Start`, `Exit`, an error of `/add`), the user's request (`AddContact`), the key
that is learnt (`InsertContact`, and a save that fails after the insertion), a
message sent, shown or refused (`SendMessage`, `ReceiveMessage` and `Save`, which may
keep the book at the same time), a new key (`Rekey`), or a stutter (registration,
lookups, connections).  That a lookup for a message is never answered with "not
found" comes from `IInv`: the sender of every message has a row.

**Browser.**  Three layers.  `Bookkeeping`: types, and the shape of every handler
(`TasksShaped`: which stage belongs to which handler, whose reception it is;
`SocketsNamed`: sockets and timers exist only on a page with a user).  The lemma
`TaskEffects` says what an action may do to the handlers, so that the invariants
of handlers are proved once and not for every action.  `OneSocketCorrect`,
`SocketFollowsUserCorrect` and `ContactsOfUserCorrect` follow from it.
`KeysRegistered`: no key in a book, an answer or a message is newer than its
owner's registration; if a peer has one key, all of them are equal, hence
`RefusedOnlyAfterRekeyCorrect`.  `SendersCurrent`: a handler that began to encrypt
since the last start holds the secret of the present user; with
`SocketFollowsUser` this gives `SentByOneUserCorrect`.  `ReconnectsCountedCorrect`
counts sockets and timers with the theorems on finite sets: a timer that fires is
replaced by its socket, a socket that closes by its timer, and only a sign-in adds
one.

Only model-checked: the liveness properties (`EnvelopesSettle`,
`ClosedIsUnregistered`, `LoadedIsDelivered`, `OpenedIsShown`, `StaysConnected`,
`ReceivedIsShown`), since fairness and ENABLED are beyond the prover.  The three
properties that the runs find violated have counterexamples and no proofs.

## Not modelled

* The JSON encodings and the checks of key texts
  (`is_valid_ed25519_public_key_text`, `is_valid_x25519_public_key_text`): every key
  that a client of this repository makes passes them, and every message it writes
  parses.
* The DDL statements of `prepare_database`, which run before anything else and
  may be repeated.
* Two tabs of one user in a browser, which share `localStorage` only: the last
  one to write its contacts wins.  Status texts, forms and layout of the page.
* Cryptographic primitives, encodings and nonces: taken to be correct.  A key
  that decodes is a key; only the empty key of an old row does not.
* Memory and queue limits: the outbound channels are unbounded in the code.
* Pools and locks of SQLite: a statement is atomic, and fails or succeeds.
* Logging, printing and the layout of messages.
* Registrations by strangers under a name that is in use: names are not owned in
  this version (`SECURITY.md`), and each user's row is only written by that
  user's clients here.

## Plan

Done, in this order because the relay is where most of the concurrency is:
`Relay`, `Identity`, `Chat`; then the browser client, the start of the command line
client, and the abstract mailbox with its refinement; proofs of the safety
properties of all of them, of the order and the uniqueness of deliveries, and of
what is read from command lines, addresses and names; the abstract shared identity
and trust on first use, each with the proof that the detailed modules implement it.

Left, in the order of their worth:

1. The messages of `Chat` as envelopes of `Mailbox`, so that the clients are checked
   over what the relay is proved to promise, and not over less.
2. Two pages of one browser over one `localStorage`.
3. The wire formats and key texts of `shared`, over small alphabets, as a part of
   `Startup`.
