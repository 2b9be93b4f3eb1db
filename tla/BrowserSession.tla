--------------------------- MODULE BrowserSession ---------------------------
(***************************************************************************)
(* One page of the browser client, docs/app.js.                            *)
(*                                                                         *)
(* JavaScript runs one event handler at a time, up to an await; handlers   *)
(* that await something (a registration, a lookup, WebCrypto) resume in    *)
(* any order, and read the page's state as it is then.  A step of the      *)
(* model is the code between two such points.  The user may press start    *)
(* again at any time, also under another name; sockets and timers that     *)
(* were replaced live on until they close or fire.  The key of a peer is   *)
(* the number of its generation, 0 is no key; the key pair of a name is in *)
(* localStorage and never changes.                                         *)
(***************************************************************************)
EXTENDS Naturals, Sequences, FiniteSets

CONSTANTS
  Names,        \* the users of this browser
  NoName,       \* state.username before the first start
  Peers,        \* the people they write to
  NoPeer,       \* nobody
  MaxKeys,      \* bound: key pairs of one peer
  MaxStarts,    \* bound: presses of the start button
  MaxSockets,   \* sockets and timers at a time, enough for MaxStarts
  MaxTasks,     \* bound: handlers that await something at a time
  MaxMessages,  \* bound: messages that reach the page
  MaxFailures   \* bound: failed requests and connections

ASSUME BrowserAssumption ==
  /\ NoName \notin Names
  /\ NoPeer \notin Peers
  /\ MaxKeys \in Nat
  /\ MaxStarts \in Nat
  /\ MaxTasks \in Nat
  /\ MaxMessages \in Nat
  /\ MaxFailures \in Nat
  /\ MaxSockets \in Nat /\ MaxSockets >= MaxStarts + 2   \* never in the way

Sockets == 1 .. MaxSockets
Tasks == 1 .. MaxTasks
NoSocket == 0
NoKey == 0

VARIABLES
  username,        \* state.username, and whose state.identity and state.relay are
  contacts,        \* state.contacts: key of every known peer
  stored,          \* localStorage: the contacts of every name
  options,         \* the names in the recipient list
  socket,          \* state.socket
  readyState,      \* readyState of every socket
  user,            \* the name in the URL of a socket
  timers,          \* pending timeouts, each named by the socket that set it
  reconnectTimer,  \* state.reconnectTimer
  task,            \* the handlers that await something
  directory,       \* the relay's directory: the key every peer has registered
  inbox,           \* history: messages that reached the page, in order
  sent,            \* history: messages that left in calm (see Calm), by their users
  shown,           \* history: messages shown, with the user who was signed in
  refused,         \* history: messages that did not open or match (and none
                   \* that was dropped because its sender was not found)
  starts,          \* history: presses of the start button
  signIns,         \* history: starts that got through, on this page
  startFailed,     \* history: did a start of this page fail?
  failures         \* history: failed requests and connections

session == <<username, contacts, stored, options>>
connection == <<socket, readyState, user, timers, reconnectTimer>>
mail == <<sent, inbox, shown, refused>>
counts == <<starts, signIns, startFailed, failures>>
vars == <<session, connection, task, directory, mail, counts>>

Book == [Peers -> 0 .. MaxKeys]
NoContacts == [p \in Peers |-> NoKey]
Known(book) == {p \in Peers : book[p] # NoKey}

Task == [op : {"none", "start", "add", "send", "receive"},
         stage : {"", "registering", "lookup", "answered", "encrypting", "decrypting"},
         user : Names \cup {NoName}, peer : Peers \cup {NoPeer},
         key : 0 .. MaxKeys, number : Nat]
Call(op, stage, u, p, key, number) ==
  [op |-> op, stage |-> stage, user |-> u, peer |-> p, key |-> key, number |-> number]
NoTask == Call("none", "", NoName, NoPeer, NoKey, 0)

Message == [from : Peers, to : Names, key : 1 .. MaxKeys, session : Names]
Frame == [sealed : Names, from : Names, over : Names]

Lowest(S) == CHOOSE n \in S : \A m \in S : n <= m
Free == {t \in Tasks : task[t] = NoTask}
Begin(call) == Free # {} /\ task' = [task EXCEPT ![Lowest(Free)] = call]
End(t) == task' = [task EXCEPT ![t] = NoTask]
Fails == failures < MaxFailures /\ failures' = failures + 1

StartPending == \E t \in Tasks : task[t].op = "start"

Init ==
  /\ username = NoName
  /\ contacts = NoContacts
  /\ stored = [u \in Names |-> NoContacts]
  /\ options = {}
  /\ socket = NoSocket
  /\ readyState = [s \in Sockets |-> "closed"]
  /\ user = [s \in Sockets |-> NoName]
  /\ timers = {}
  /\ reconnectTimer = NoSocket
  /\ task = [t \in Tasks |-> NoTask]
  /\ directory = NoContacts
  /\ sent = {}
  /\ inbox = <<>>
  /\ shown = {}
  /\ refused = {}
  /\ starts = 0
  /\ signIns = 0
  /\ startFailed = FALSE
  /\ failures = 0

------------------------------------------------------------------------------
(* The socket and its reconnection. *)

Live(s) == readyState[s] \in {"connecting", "open"}
Unused == {s \in Sockets : readyState[s] = "closed" /\ s # socket /\ s \notin timers}

\* connectWebSocket clears the last timer, closes the present socket and opens
\* a new one for the present user.
LeftOpen(s) == readyState[s]                       \* without socket.close()
ClosedByPage(s) == IF s = socket /\ Live(s) THEN "closing" ELSE readyState[s]

UrlOfOldSocket == IF socket = NoSocket THEN username ELSE user[socket]
UrlName == username                                \* state.relay.webSocketUrl

ConnectWebSocket(pending) ==
  /\ Unused # {}
  /\ LET new == Lowest(Unused) IN
     /\ readyState' = [s \in Sockets |-> IF s = new THEN "connecting" ELSE ClosedByPage(s)]
     /\ user' = [s \in Sockets |-> IF s = new THEN UrlName
                                   ELSE IF readyState[s] = "closed" THEN NoName ELSE user[s]]
     /\ socket' = new
  /\ timers' = pending \ {reconnectTimer}
  /\ UNCHANGED reconnectTimer

SocketOpens(s) ==
  /\ readyState[s] = "connecting"
  /\ readyState' = [readyState EXCEPT ![s] = "open"]
  /\ UNCHANGED <<session, socket, user, timers, reconnectTimer, task, directory, mail, counts>>

\* The relay or the network ends an open connection; the page hears of it later.
PeerCloses(s) ==
  /\ readyState[s] = "open"
  /\ Fails
  /\ readyState' = [readyState EXCEPT ![s] = "closing"]
  /\ UNCHANGED <<session, socket, user, timers, reconnectTimer, task, directory, mail,
                 starts, signIns, startFailed>>

\* The close handler of any socket, replaced or not, schedules a reconnection.
AfterOpen(s) == readyState[s] = "open"             \* not after a failed connect
Schedules(s) == TRUE

SocketCloses(s) ==
  /\ readyState[s] # "closed"
  /\ readyState' = [readyState EXCEPT ![s] = "closed"]
  /\ IF Live(s) THEN Fails ELSE UNCHANGED failures
  /\ IF Schedules(s)
     THEN timers' = timers \cup {s} /\ reconnectTimer' = s
     ELSE UNCHANGED <<timers, reconnectTimer>>
  /\ UNCHANGED <<session, socket, user, task, directory, mail, starts, signIns, startFailed>>

TimerFires(s) ==
  /\ s \in timers
  /\ ConnectWebSocket(timers \ {s})
  /\ UNCHANGED <<session, task, directory, mail, counts>>

------------------------------------------------------------------------------
(* Start. *)

\* Everything of the old user is replaced before the registration is awaited.
KeptContacts(u) == contacts                        \* not loaded again
LoadContacts(u) == stored[u]

Start(u) ==
  /\ starts < MaxStarts
  /\ starts' = starts + 1
  /\ username' = u
  /\ contacts' = LoadContacts(u)
  /\ Begin(Call("start", "registering", u, NoPeer, NoKey, 0))
  /\ UNCHANGED <<stored, options, connection, directory, mail, signIns, startFailed, failures>>

SignedIn(t) ==
  /\ task[t].stage = "registering"
  /\ options' = Known(contacts)
  /\ ConnectWebSocket(timers)
  /\ signIns' = signIns + 1
  /\ End(t)
  /\ UNCHANGED <<username, contacts, stored, directory, mail, starts, startFailed, failures>>

StartFails(t) ==
  /\ task[t].stage = "registering"
  /\ Fails
  /\ startFailed' = TRUE
  /\ End(t)
  /\ UNCHANGED <<session, connection, directory, mail, starts, signIns>>

\* The page is closed or loaded again: only localStorage remains.
Reload ==
  /\ username # NoName
  /\ username' = NoName
  /\ contacts' = NoContacts
  /\ options' = {}
  /\ socket' = NoSocket
  /\ readyState' = [s \in Sockets |-> "closed"]
  /\ user' = [s \in Sockets |-> NoName]
  /\ timers' = {}
  /\ reconnectTimer' = NoSocket
  /\ task' = [t \in Tasks |-> NoTask]
  /\ signIns' = 0
  /\ startFailed' = FALSE
  /\ UNCHANGED <<stored, directory, mail, starts, failures>>

------------------------------------------------------------------------------
(* Contacts. *)

\* The controls are enabled by the first start that gets through.
AddContactFromInput(p) ==
  /\ signIns > 0
  /\ Begin(Call("add", "lookup", NoName, p, NoKey, 0))
  /\ UNCHANGED <<session, connection, directory, mail, counts>>

\* The relay reads the row now; the answer reaches the page later.
LookupPublicKey(t) ==
  /\ task[t].stage = "lookup"
  /\ task' = [task EXCEPT ![t] =
                Call(@.op, "answered", @.user, @.peer, directory[@.peer], @.number)]
  /\ UNCHANGED <<session, connection, directory, mail, counts>>

\* The request fails, or the answer is that there is no key.
LookupEnds(t) ==
  /\ \/ task[t].stage = "lookup" /\ Fails
     \/ task[t].stage = "answered" /\ task[t].key = NoKey /\ UNCHANGED failures
  /\ End(t)
  /\ UNCHANGED <<session, connection, directory, mail, starts, signIns, startFailed>>

\* state.contacts.set, saveContacts and refreshContacts, for the present user.
AddEntry(t) ==
  /\ task[t].stage = "answered"
  /\ task[t].key # NoKey
  /\ contacts' = [contacts EXCEPT ![task[t].peer] = task[t].key]
  /\ stored' = [stored EXCEPT ![username] = contacts']
  /\ options' = Known(contacts')
  /\ UNCHANGED username

AddContact(t) ==
  /\ task[t].op = "add"
  /\ AddEntry(t)
  /\ End(t)
  /\ UNCHANGED <<connection, directory, mail, counts>>

------------------------------------------------------------------------------
(* Sending. *)

\* The selected recipient may be left from the contacts of another user.
SendCurrentMessage(p) ==
  /\ signIns > 0
  /\ p \in options
  /\ IF contacts[p] # NoKey
     THEN Begin(Call("send", "encrypting", username, p, contacts[p], starts))
     ELSE Begin(Call("send", "lookup", NoName, p, NoKey, 0))
  /\ UNCHANGED <<session, connection, directory, mail, counts>>

FoundRecipient(t) ==
  /\ task[t].op = "send"
  /\ AddEntry(t)
  /\ task' = [task EXCEPT ![t] = Call("send", "encrypting", username, @.peer, @.key, starts)]
  /\ UNCHANGED <<connection, directory, mail, counts>>

\* The shared secret is taken before the key is derived, the name and the public
\* key of the sender after it, and the socket is that of the moment.
SealedAsRecipient(t) == task[t].peer               \* from and to exchanged
SealedAs(t) == task[t].user
SentFrame(t) == [sealed |-> SealedAs(t), from |-> username, over |-> user[socket]]
Calm(t) == task[t].number = starts /\ ~StartPending /\ ~startFailed

Encrypted(t) ==
  /\ task[t].stage = "encrypting"
  /\ \/ /\ socket # NoSocket
        /\ readyState[socket] = "open"
        /\ sent' = IF Calm(t) THEN sent \cup {SentFrame(t)} ELSE sent
     \/ /\ socket = NoSocket \/ readyState[socket] # "open"
        /\ UNCHANGED sent
  /\ End(t)
  /\ UNCHANGED <<session, connection, directory, inbox, shown, refused, counts>>

------------------------------------------------------------------------------
(* Receiving. *)

\* A peer's message, under any key it ever registered, reaches an open socket.
\* decryptMessage takes the present identity before it awaits the derivation.
ReceiveEncryptedBytes(s, p, key) ==
  /\ readyState[s] = "open"
  /\ key \in 1 .. directory[p]
  /\ Len(inbox) < MaxMessages
  /\ inbox' = Append(inbox, [from |-> p, to |-> user[s], key |-> key, session |-> username])
  /\ Begin(Call("receive", "decrypting", username, p, NoKey, Len(inbox) + 1))
  /\ UNCHANGED <<session, connection, directory, sent, shown, refused, counts>>

Refuse(m) == refused' = refused \cup {m} /\ UNCHANGED shown

\* Compares with the contacts of before the lookup.
OpenIfKnown(m, key) ==
  IF inbox[m].key = contacts[inbox[m].from]
  THEN shown' = shown \cup {<<m, username>>} /\ UNCHANGED refused
  ELSE Refuse(m)

\* The sender's key must be the one that is saved for its name.
Open(m, key) ==
  IF inbox[m].key = key
  THEN shown' = shown \cup {<<m, username>>} /\ UNCHANGED refused
  ELSE Refuse(m)

IdentityNow(t) == username                         \* read after the derivation
IdentityThen(t) == task[t].user

Decrypted(t) ==
  LET m == task[t].number
      p == task[t].peer
      opens == IdentityThen(t) = inbox[m].to
  IN
  /\ task[t].stage = "decrypting"
  /\ \/ ~opens /\ Refuse(m) /\ End(t)
     \/ /\ opens
        /\ inbox[m].to # username                  \* somebody else signed in
        /\ End(t)
        /\ UNCHANGED <<shown, refused>>
     \/ /\ opens
        /\ inbox[m].to = username
        /\ contacts[p] # NoKey
        /\ Open(m, contacts[p])
        /\ End(t)
     \/ /\ opens
        /\ inbox[m].to = username
        /\ contacts[p] = NoKey
        /\ task' = [task EXCEPT ![t].stage = "lookup"]
        /\ UNCHANGED <<shown, refused>>
  /\ UNCHANGED <<session, connection, directory, sent, inbox, counts>>

\* findOrAddContact compares with the key it has just looked up and saved.
FoundSender(t) ==
  /\ task[t].op = "receive"
  /\ AddEntry(t)
  /\ Open(task[t].number, task[t].key)
  /\ End(t)
  /\ UNCHANGED <<connection, directory, sent, inbox, counts>>

------------------------------------------------------------------------------
\* A peer registers its first key pair, or another one.
PeerRegisters(p) ==
  /\ directory[p] < MaxKeys
  /\ directory' = [directory EXCEPT ![p] = @ + 1]
  /\ UNCHANGED <<session, connection, task, mail, counts>>

\* What a handler does once its promise is settled.
Resume(t) ==
  \/ SignedIn(t) \/ StartFails(t) \/ LookupPublicKey(t) \/ LookupEnds(t)
  \/ AddContact(t) \/ FoundRecipient(t) \/ Encrypted(t)
  \/ Decrypted(t) \/ FoundSender(t)

Settle(s) == SocketOpens(s) \/ (~(readyState[s] = "open") /\ SocketCloses(s))

Next ==
  \/ \E u \in Names : Start(u)
  \/ \E p \in Peers : AddContactFromInput(p) \/ SendCurrentMessage(p) \/ PeerRegisters(p)
  \/ \E s \in Sockets :
       \/ SocketOpens(s) \/ PeerCloses(s) \/ SocketCloses(s) \/ TimerFires(s)
       \/ \E p \in Peers, key \in 1 .. MaxKeys : ReceiveEncryptedBytes(s, p, key)
  \/ \E t \in Tasks : Resume(t)
  \/ Reload

Spec == Init /\ [][Next]_vars

\* Promises are settled, timers fire, and a socket that connects or closes gets
\* there; users, peers and the network promise nothing.
FairSpec ==
  /\ Spec
  /\ \A t \in Tasks : WF_vars(Resume(t))
  /\ \A s \in Sockets : WF_vars(Settle(s)) /\ WF_vars(TimerFires(s))

------------------------------------------------------------------------------
\* Every variable has its type.
TypeOK ==
  /\ username \in Names \cup {NoName}
  /\ contacts \in Book
  /\ stored \in [Names -> Book]
  /\ options \subseteq Peers
  /\ socket \in Sockets \cup {NoSocket}
  /\ readyState \in [Sockets -> {"connecting", "open", "closing", "closed"}]
  /\ user \in [Sockets -> Names \cup {NoName}]
  /\ timers \subseteq Sockets
  /\ reconnectTimer \in Sockets \cup {NoSocket}
  /\ task \in [Tasks -> Task]
  /\ directory \in Book
  /\ sent \subseteq Frame
  /\ inbox \in Seq(Message)
  /\ shown \subseteq (1 .. Len(inbox)) \X Names
  /\ refused \subseteq 1 .. Len(inbox)
  /\ starts \in 0 .. MaxStarts
  /\ signIns \in Nat
  /\ startFailed \in BOOLEAN
  /\ failures \in 0 .. MaxFailures

\* However often start is pressed and reconnections overlap, only the newest
\* socket connects or is open: no message arrives twice, over two sockets of one
\* page (app.js:272-278).
OneSocket == \A s \in Sockets : Live(s) => s = socket

\* A page that signed in never stops reconnecting, and it runs at most one
\* reconnection for every time it signed in: each is a socket that will still
\* report its end, or the timeout that this report has set.
Reconnections == {s \in Sockets : readyState[s] # "closed"} \cup timers

ReconnectsCounted ==
  /\ signIns > 0 => Reconnections # {}
  /\ Cardinality(Reconnections) <= signIns
  /\ \A s \in timers : readyState[s] = "closed"

\* Once every start has got through, the page is connected as the user who is
\* signed in, also if the starts overlapped or a reconnection came in between.
SocketFollowsUser ==
  username # NoName /\ ~StartPending /\ ~startFailed =>
    socket # NoSocket /\ user[socket] = username

\* A message that was encrypted and sent with no start in between, awaited or
\* failed, is sealed by the user whose name and key it carries and leaves over
\* that user's connection: the relay and the recipient accept it.
SentByOneUser == \A f \in sent : f.sealed = f.from /\ f.over = f.from

\* The contacts on the page are those saved for its user: start never leaves a
\* moment in which the contacts of one user could be saved for another one.
ContactsOfUser == username # NoName => contacts = stored[username]

\* A message that reached its user's session is refused only if its sender has
\* changed keys, although its sender may be looked up several times at once and
\* another user may sign in while it is decrypted.
RefusedOnlyAfterRekey == \A m \in refused :
  directory[inbox[m].from] > 1 \/ inbox[m].session # inbox[m].to

\* A page that signed in once is connected in the end and stays connected, when
\* the network fails no more: its timers and close handlers settle.
StaysConnected ==
  <>[](signIns = 1 /\ ~StartPending => readyState[socket] = "open")

\* A message whose user stays signed in is shown, however many receptions and
\* lookups are awaited at once.  Assumes that nothing fails and that its sender
\* keeps its keys.
ReceivedIsShown == \A m \in 1 .. MaxMessages :
  (m \in 1 .. Len(inbox)) ~>
    \/ \E u \in Names : <<m, u>> \in shown
    \/ failures > 0 \/ starts > 1 \/ username = NoName
    \/ \E p \in Peers : directory[p] > 1

=============================================================================
