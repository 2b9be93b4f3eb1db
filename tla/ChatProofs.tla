----------------------------- MODULE ChatProofs -----------------------------
(***************************************************************************)
(* Proofs about Chat for every set of users, however many keys they use up *)
(* and messages they send, and whatever requests and saves fail.           *)
(***************************************************************************)
EXTENDS ChatTrust, TLAPS

Places == {"off", "registering", "connecting", "idle", "lookup", "answered", "saving"}

\* TypeOK without the owners of keys, which follow from what is known of them.
Typed ==
  /\ at \in [Users -> Places]
  /\ job \in [Users -> Job]
  /\ answer \in [Users -> PublicKeys \cup {NoKey}]
  /\ contacts \in [Users -> Contacts]
  /\ file \in [Users -> File]
  /\ key \in [Users -> 1 .. MaxKeys]
  /\ directory \in Contacts
  /\ sent \in Seq(Message)
  /\ shown \subseteq 1 .. Len(sent)
  /\ rejected \subseteq 1 .. Len(sent)

\* A book of keys that may be known.
KnownKeys(book) == \A u \in Users : book[u] # NoKey => book[u] \in KeysOf(u)

\* A client that got past its registration has a row in the directory.  It
\* waits for an answer only while it handles a command or a message, an answer
\* is a key of the peer, and there is one for the sender of every message.
ClientFits(u) ==
  /\ KnownKeys(contacts[u]) /\ KnownKeys(file[u].contacts)
  /\ \/ at[u] \in {"connecting", "idle", "lookup", "answered"}
     \/ at[u] = "saving" /\ job[u].task # "start"
     => directory[u] # NoKey
  /\ at[u] \in {"lookup", "answered"} => job[u].task \in {"add", "send", "receive"}
  /\ at[u] \in {"off", "registering", "connecting", "idle"} => job[u].task = "none"
  /\ job[u].task \in {"add", "send", "receive"} => job[u].peer \in Users
  /\ job[u].task = "receive" =>
       job[u].message \in 1 .. Len(sent) /\ sent[job[u].message].from = job[u].peer
  /\ at[u] = "answered" /\ answer[u] # NoKey => answer[u] \in KeysOf(job[u].peer)
  /\ at[u] = "answered" /\ job[u].task = "receive" => answer[u] # NoKey
  /\ at[u] = "saving" /\ job[u].task \in {"send", "receive"} =>
       contacts[u][job[u].peer] # NoKey

\* A message carries keys of its sender and its recipient, and a sender is
\* registered.
MessageFits(m) ==
  /\ m.senderKey \in KeysOf(m.from) /\ m.senderKey.number # 0
  /\ m.recipientKey \in KeysOf(m.to) /\ m.recipientKey.number # 0
  /\ directory[m.from] # NoKey

IInv ==
  /\ Typed
  /\ KnownKeys(directory)
  /\ \A u \in Users : ClientFits(u)
  /\ \A m \in 1 .. Len(sent) : MessageFits(sent[m])

\* Keys that are known of their owners are filed under their owners.
LEMMA InvariantTypes == IInv => TypeOK
<1>1. \A book : KnownKeys(book) => Filed(book)
  BY DEF KnownKeys, KeysOf, Filed
<1>. QED BY <1>1 DEF IInv, Typed, TypeOK, Places, ClientFits

\* At the start the directory holds at most old rows, and nobody has contacts.
LEMMA InitFits == Init => IInv /\ RefusedOnlyAfterRekey
<1>. SUFFICES ASSUME Init PROVE IInv /\ RefusedOnlyAfterRekey
  OBVIOUS
<1>. USE ChatAssumption DEF Init
<1>1. \A u \in OldRows : [owner |-> u, number |-> 0] \in PublicKeys
  BY SMT DEF PublicKeys
<1>2. NoContacts \in Contacts /\ KnownKeys(NoContacts)
  BY DEF NoContacts, Contacts, KnownKeys
<1>3. directory \in Contacts
  BY <1>1 DEF Contacts
<1>4. KnownKeys(directory)
  <2>. SUFFICES ASSUME NEW u \in OldRows
                PROVE  [owner |-> u, number |-> 0] \in KeysOf(u)
    BY <1>3 DEF KnownKeys
  <2>. QED BY <1>1, SMT DEF KeysOf
<1>5. NoJob \in Job /\ NoJob.task = "none"
  BY SMT DEF NoJob, Job, Task
<1>6. 1 \in 1 .. MaxKeys
  BY SMT
<1>7. Typed
  BY <1>2, <1>3, <1>5, <1>6 DEF Typed, File, Absent, Places
<1>8. \A u \in Users : ClientFits(u)
  BY <1>2, <1>5 DEF ClientFits, Absent
<1>. QED BY <1>4, <1>7, <1>8 DEF IInv, RefusedOnlyAfterRekey

\* The keys that may be known of a user only become more.
LEMMA KeysGrow ==
  ASSUME Typed, [Next]_vars, NEW u \in Users
  PROVE  /\ KeysOf(u) \subseteq KeysOf(u)'
         /\ key'[u] \in 1 .. MaxKeys /\ key[u] <= key'[u]
<1>1. key' \in [Users -> 1 .. MaxKeys] /\ key[u] <= key'[u]
  <2>1. CASE key' = key
    BY <2>1, ChatAssumption, SMT DEF Typed
  <2>2. ASSUME NEW w \in Users, Rekey(w)
        PROVE  key' \in [Users -> 1 .. MaxKeys] /\ key[u] <= key'[u]
    BY <2>2, ChatAssumption, SMT DEF Rekey, Typed
  <2>3. key' = key \/ \E w \in Users : Rekey(w)
    BY DEF Next, vars, Start, Register, Connect, Disconnect, Exit, Proceed, LookupFails,
           SaveFails, AddContact, SendMessage, ReceiveMessage, Fail,
           LookupPublicKey, NotFound, InsertContact, Save
  <2>. QED BY <2>1, <2>2, <2>3
<1>2. ASSUME NEW k \in KeysOf(u) PROVE k \in KeysOf(u)'
  BY <1>1, <1>2, ChatAssumption, SMT DEF KeysOf, PublicKeys, Typed
<1>. QED BY <1>1, <1>2

\* A row of the directory is replaced, never removed.
LEMMA RowsStay ==
  ASSUME Typed, [Next]_vars, NEW u \in Users, directory[u] # NoKey
  PROVE  directory'[u] # NoKey
<1>1. ASSUME NEW w \in Users, Register(w) PROVE directory'[u] # NoKey
  <2>1. OwnKey(w) \in PublicKeys
    BY ChatAssumption, SMT DEF OwnKey, PublicKeys, Typed
  <2>. QED BY <1>1, <2>1, ChatAssumption DEF Register, Typed, Contacts
<1>2. directory' = directory \/ \E w \in Users : Register(w)
  BY DEF Next, vars, client, Start, Rekey, Connect, Disconnect, Exit, Proceed, LookupFails,
         SaveFails, AddContact, SendMessage, ReceiveMessage, Fail,
         LookupPublicKey, NotFound, InsertContact, Save
<1>. QED BY <1>1, <1>2

------------------------------------------------------------------------------
(* What a step of one client leaves alone. *)

\* The book of a client that does not change stays one of known keys.
LEMMA BookStays ==
  ASSUME Typed, [Next]_vars, NEW book, KnownKeys(book), NEW u \in Users, book[u] # NoKey
  PROVE  book[u] \in KeysOf(u)'
BY KeysGrow DEF KnownKeys

\* Messages do not change once they are sent.
Keeps(u) == /\ at'[u] = at[u] /\ job'[u] = job[u] /\ answer'[u] = answer[u]
            /\ contacts'[u] = contacts[u] /\ file'[u] = file[u]

SentGrows == \A m \in 1 .. Len(sent) : m \in 1 .. Len(sent') /\ sent'[m] = sent[m]

\* A client that takes no part in a step still fits.
LEMMA OthersFit ==
  ASSUME Typed, [Next]_vars, SentGrows, NEW u \in Users, ClientFits(u), Keeps(u)
  PROVE  ClientFits(u)'
<1>. USE DEF ClientFits, Keeps
<1>1. KnownKeys(contacts[u])'
  BY BookStays DEF KnownKeys
<1>2. KnownKeys(file[u].contacts)'
  BY BookStays DEF KnownKeys
<1>3. directory[u] # NoKey => directory'[u] # NoKey
  BY RowsStay
<1>4. at[u] = "answered" /\ answer[u] # NoKey => (answer[u] \in KeysOf(job[u].peer))'
  <2>. SUFFICES ASSUME at[u] = "answered", answer[u] # NoKey
                PROVE  (answer[u] \in KeysOf(job[u].peer))'
    OBVIOUS
  <2>1. PICK peer \in Users : peer = job[u].peer /\ answer[u] \in KeysOf(peer)
    OBVIOUS
  <2>2. answer'[u] \in KeysOf(peer)'
    BY <2>1, KeysGrow
  <2>. QED BY <2>1, <2>2 DEF KeysOf
<1>5. job[u].task = "receive" =>
        job[u].message \in 1 .. Len(sent') /\ sent'[job[u].message].from = job[u].peer
  BY DEF SentGrows
<1>. QED BY <1>1, <1>2, <1>3, <1>4, <1>5

\* A message that was sent still fits.
LEMMA SentFits ==
  ASSUME Typed, [Next]_vars, NEW m \in Message, MessageFits(m)
  PROVE  MessageFits(m)'
<1>1. m.from \in Users /\ m.to \in Users
  BY DEF Message
<1>. QED BY <1>1, KeysGrow, RowsStay DEF MessageFits

\* No step takes a message back or changes it.
LEMMA SentOnlyGrows ==
  ASSUME Typed, [Next]_vars
  PROVE  SentGrows
<1>. DEFINE Same == sent' = sent
<1>1. Same => SentGrows
  BY DEF SentGrows
<1>2. ASSUME NEW m, sent' = Append(sent, m) PROVE SentGrows
  BY <1>2 DEF SentGrows, Typed
<1>3. ASSUME NEW u \in Users, NEW peer, NEW public, Transmit(u, peer, public)
      PROVE  SentGrows
  BY <1>1, <1>2, <1>3 DEF Transmit
<1>4. ASSUME NEW u \in Users, NEW peer \in Users, SendMessage(u, peer) PROVE SentGrows
  BY <1>1, <1>3, <1>4 DEF SendMessage, messages
<1>5. ASSUME NEW u \in Users, Save(u) PROVE SentGrows
  BY <1>1, <1>3, <1>5 DEF Save, messages, Open
<1>6. CASE Same
  BY <1>1, <1>6
<1>7. \/ Same
      \/ \E u \in Users : Save(u) \/ \E peer \in Users : SendMessage(u, peer)
  BY DEF Next, vars, messages, client, Start, Register, Connect, Disconnect, Exit, Rekey,
         Proceed, LookupPublicKey, NotFound, InsertContact, LookupFails, SaveFails, Fail,
         AddContact, ReceiveMessage, Open
<1>. QED BY <1>4, <1>5, <1>6, <1>7

\* The directory only ever holds keys of the users under whose names they are.
LEMMA DirectoryFits ==
  ASSUME IInv, [Next]_vars
  PROVE  KnownKeys(directory)'
<1>1. CASE directory' = directory
  BY <1>1, BookStays DEF IInv, KnownKeys
<1>2. ASSUME NEW u \in Users, Register(u) PROVE KnownKeys(directory)'
  <2>1. OwnKey(u) \in KeysOf(u)
    BY ChatAssumption, SMT DEF OwnKey, KeysOf, PublicKeys, IInv, Typed
  <2>2. OwnKey(u) \in KeysOf(u)'
    BY <2>1, KeysGrow DEF IInv
  <2>3. \A w \in Users : directory'[w] = IF w = u THEN OwnKey(u) ELSE directory[w]
    BY <1>2 DEF Register, IInv, Typed, Contacts
  <2>. QED BY <2>2, <2>3, BookStays DEF IInv, KnownKeys
<1>3. directory' = directory \/ \E u \in Users : Register(u)
  BY DEF Next, vars, client, Start, Rekey, Connect, Disconnect, Exit, Proceed, LookupFails,
         SaveFails, AddContact, SendMessage, ReceiveMessage, Fail,
         LookupPublicKey, NotFound, InsertContact, Save
<1>. QED BY <1>1, <1>2, <1>3

------------------------------------------------------------------------------
(* Types. *)

\* What a client is told to do next is a job.
LEMMA JobsAreJobs ==
  /\ NoJob \in Job /\ NoJob.task = "none"
  /\ Task("start", NoUser, 0) \in Job /\ Task("start", NoUser, 0).task = "start"
  /\ \A peer \in Users : \A task \in {"add", "send"} : Task(task, peer, 0) \in Job
  /\ \A peer \in Users, m \in Nat : Task("receive", peer, m) \in Job
BY SMT DEF NoJob, Task, Job

\* A transmission appends a message, or nothing when the key is empty.
LEMMA TransmitTypes ==
  ASSUME Typed, NEW u \in Users, NEW to \in Users, NEW public \in PublicKeys,
         Transmit(u, to, public)
  PROVE  /\ sent' \in Seq(Message)
         /\ shown' \subseteq 1 .. Len(sent') /\ rejected' \subseteq 1 .. Len(sent')
<1>1. OwnKey(u) \in PublicKeys
  BY ChatAssumption, SMT DEF OwnKey, PublicKeys, Typed
<1>. DEFINE m == [from |-> u, to |-> to, senderKey |-> OwnKey(u), recipientKey |-> public]
<1>2. m \in Message
  BY <1>1 DEF Message
<1>. HIDE DEF m
<1>3. CASE sent' = Append(sent, m)
  <2>1. sent' \in Seq(Message) /\ Len(sent') = Len(sent) + 1 /\ Len(sent) \in Nat
    BY <1>2, <1>3 DEF Typed
  <2>2. \A n \in 1 .. Len(sent) : n \in 1 .. Len(sent')
    BY <2>1, SMT
  <2>3. Len(sent) + 1 \in 1 .. Len(sent')
    BY <2>1, SMT
  <2>. QED BY <1>3, <2>1, <2>2, <2>3 DEF Typed, Transmit
<1>4. CASE UNCHANGED sent
  BY <1>4 DEF Typed, Transmit
<1>. QED BY <1>3, <1>4 DEF Transmit, m

\* No step breaks a type.
LEMMA TypedStep ==
  ASSUME IInv, [Next]_vars
  PROVE  Typed'
<1>. USE DEF Typed
<1>0. Typed /\ NoContacts \in Contacts /\ \A u \in Users : ClientFits(u)
  BY DEF IInv, NoContacts, Contacts
<1>1. ASSUME NEW u \in Users, Start(u) PROVE Typed'
  <2>1. Torn(file[u].contacts) \in File /\ file[u].contacts \in Contacts
    BY <1>0 DEF Torn, File
  <2>2. at' \in [Users -> Places] /\ job' \in [Users -> Job]
    BY <1>0, <1>1, JobsAreJobs DEF Start, Move, Places
  <2>3. contacts' \in [Users -> Contacts] /\ file' \in [Users -> File]
    BY <1>0, <1>1, <2>1 DEF Start
  <2>. QED BY <1>0, <1>1, <2>2, <2>3 DEF Start, messages
<1>2. ASSUME NEW u \in Users, Register(u) PROVE Typed'
  <2>1. OwnKey(u) \in PublicKeys
    BY <1>0, ChatAssumption, SMT DEF OwnKey, PublicKeys
  <2>. QED BY <1>0, <1>2, <2>1, JobsAreJobs DEF Register, Move, messages, Contacts, Places
<1>3. ASSUME NEW u \in Users, Connect(u) \/ Disconnect(u) PROVE Typed'
  BY <1>0, <1>3, JobsAreJobs DEF Connect, Disconnect, Move, messages, Places
<1>4. ASSUME NEW u \in Users, Exit(u) PROVE Typed'
  BY <1>0, <1>4, JobsAreJobs DEF Exit, Move, messages, Places
<1>5. ASSUME NEW u \in Users, Rekey(u) PROVE Typed'
  <2>1. key' \in [Users -> 1 .. MaxKeys]
    BY <1>0, <1>5, ChatAssumption, SMT DEF Rekey
  <2>. QED BY <1>0, <1>5, <2>1 DEF Rekey, client, messages
<1>6. ASSUME NEW u \in Users, NEW peer \in Users, AddContact(u, peer) PROVE Typed'
  BY <1>0, <1>6, JobsAreJobs DEF AddContact, Move, messages, Places
<1>7. ASSUME NEW u \in Users, NEW peer \in Users, SendMessage(u, peer) PROVE Typed'
  <2>1. CASE contacts[u][peer] # NoKey /\ Transmit(u, peer, contacts[u][peer])
             /\ UNCHANGED <<at, job>>
    <3>1. contacts[u][peer] \in PublicKeys
      BY <1>0, <2>1 DEF Contacts
    <3>. QED BY <1>0, <1>7, <2>1, <3>1, TransmitTypes DEF SendMessage
  <2>2. CASE Move(u, "lookup", Task("send", peer, 0)) /\ UNCHANGED messages
    BY <1>0, <1>7, <2>2, JobsAreJobs DEF SendMessage, Move, messages, Places
  <2>. QED BY <1>7, <2>1, <2>2 DEF SendMessage
<1>8. ASSUME NEW u \in Users, NEW m \in 1 .. Len(sent), ReceiveMessage(u, m) PROVE Typed'
  <2>1. m \in 1 .. Len(sent) /\ m \in Nat
    BY <1>0
  <2>2. sent[m] \in Message
    BY <1>0, <2>1
  <2>3. Task("receive", sent[m].from, m) \in Job
    BY <2>1, <2>2, JobsAreJobs DEF Message
  <2>4. at' \in [Users -> Places] /\ job' \in [Users -> Job]
    <3>1. \/ at' = at /\ job' = job
          \/ Move(u, "lookup", Task("receive", sent[m].from, m))
      BY <1>8 DEF ReceiveMessage
    <3>. QED BY <1>0, <2>3, <3>1 DEF Move, Places
  <2>5. /\ sent' = sent
        /\ shown' \subseteq shown \cup {m} /\ rejected' \subseteq rejected \cup {m}
    BY <1>8 DEF ReceiveMessage, Open, messages
  <2>. QED BY <1>0, <1>8, <2>1, <2>4, <2>5 DEF ReceiveMessage
<1>9. ASSUME NEW u \in Users, LookupPublicKey(u) PROVE Typed'
  <2>1. job[u].peer \in Users /\ job[u] \in Job
    BY <1>0, <1>9 DEF LookupPublicKey, ClientFits
  <2>2. directory[job[u].peer] \in PublicKeys \cup {NoKey}
    BY <1>0, <2>1 DEF Contacts
  <2>. QED BY <1>0, <1>9, <2>1, <2>2 DEF LookupPublicKey, Move, messages, Places
<1>10. ASSUME NEW u \in Users, NotFound(u) PROVE Typed'
  <2>1. job[u].task = "receive" => job[u].message \in 1 .. Len(sent)
    BY <1>0 DEF ClientFits
  <2>. QED BY <1>0, <1>10, <2>1, JobsAreJobs DEF NotFound, Move, Places
<1>11. ASSUME NEW u \in Users, InsertContact(u) PROVE Typed'
  <2>1. WithAnswer(u) \in Contacts
    BY <1>0, <1>11 DEF InsertContact, WithAnswer, Contacts
  <2>2. Torn(file[u].contacts) \in File
    BY <1>0 DEF Torn, File
  <2>3. job[u] \in Job
    BY <1>0
  <2>. QED BY <1>0, <1>11, <2>1, <2>2, <2>3 DEF InsertContact, Move, messages, Places
<1>12. ASSUME NEW u \in Users, Save(u) PROVE Typed'
  <2>1. Complete(Book(u)) \in File
    BY <1>0 DEF Complete, Book, File
  <2>2. file' \in [Users -> File] /\ at' \in [Users -> Places] /\ job' \in [Users -> Job]
    BY <1>0, <1>12, <2>1, JobsAreJobs DEF Save, Move, Places
  <2>3. CASE UNCHANGED messages
    BY <1>0, <1>12, <2>2, <2>3 DEF Save, messages
  <2>4. CASE job[u].task = "send" /\ Transmit(u, job[u].peer, contacts[u][job[u].peer])
    <3>1. job[u].peer \in Users /\ contacts[u][job[u].peer] # NoKey
      BY <1>0, <1>12, <2>4 DEF ClientFits, Save
    <3>2. contacts[u][job[u].peer] \in PublicKeys
      BY <1>0, <3>1 DEF Contacts
    <3>. QED BY <1>0, <1>12, <2>2, <2>4, <3>1, <3>2, TransmitTypes DEF Save
  <2>5. CASE job[u].task = "receive" /\ Open(job[u].message, contacts[u][job[u].peer])
    <3>1. job[u].message \in 1 .. Len(sent)
      BY <1>0, <2>5 DEF ClientFits
    <3>. QED BY <1>0, <1>12, <2>2, <2>5, <3>1 DEF Save, Open
  <2>. QED BY <1>12, <2>3, <2>4, <2>5 DEF Save
<1>13. ASSUME NEW u \in Users, NEW book \in Contacts, Fail(u, book), UNCHANGED file
       PROVE  Typed'
  BY <1>0, <1>13, JobsAreJobs DEF Fail, Move, messages, Places
<1>14. ASSUME NEW u \in Users, LookupFails(u) \/ SaveFails(u) PROVE Typed'
  <2>1. contacts[u] \in Contacts
    BY <1>0
  <2>2. WithAnswer(u) \in Contacts
    BY <1>0 DEF WithAnswer, Contacts
  <2>. QED BY <1>13, <1>14, <2>1, <2>2 DEF LookupFails, SaveFails
<1>15. CASE UNCHANGED vars
  BY <1>0, <1>15 DEF vars, client, messages
<1>. QED BY <1>1, <1>2, <1>3, <1>4, <1>5, <1>6, <1>7, <1>8, <1>9, <1>10, <1>11,
            <1>12, <1>14, <1>15 DEF Next, Proceed

------------------------------------------------------------------------------
(* The clients and their messages. *)

\* Every message sent so far is in the hands of two registered users.
LEMMA MessagesStay ==
  ASSUME IInv, [Next]_vars, NEW m \in 1 .. Len(sent)
  PROVE  (m \in 1 .. Len(sent) => MessageFits(sent[m]))'
<1>1. Typed /\ sent[m] \in Message /\ MessageFits(sent[m])
  BY DEF IInv, Typed
<1>2. sent'[m] = sent[m]
  BY <1>1, SentOnlyGrows DEF SentGrows
<1>3. PICK x \in Message : x = sent[m] /\ MessageFits(x)
  BY <1>1
<1>4. MessageFits(x)'
  BY <1>1, <1>3, SentFits
<1>. QED BY <1>2, <1>3, <1>4 DEF MessageFits, KeysOf

\* A transmission with a known key is a message that fits, from a client that
\* is registered.
LEMMA TransmitFits ==
  ASSUME IInv, [Next]_vars, NEW u \in Users, NEW to \in Users, NEW public \in KeysOf(to),
         directory[u] # NoKey, Transmit(u, to, public)
  PROVE  \A m \in 1 .. Len(sent') : (MessageFits(sent[m]))'
<1>1. Typed
  BY DEF IInv
<1>. DEFINE x == [from |-> u, to |-> to, senderKey |-> OwnKey(u), recipientKey |-> public]
<1>2. OwnKey(u) \in KeysOf(u) /\ OwnKey(u).number # 0 /\ OwnKey(u) \in PublicKeys
  BY <1>1, ChatAssumption, SMT DEF OwnKey, KeysOf, PublicKeys, Typed
<1>3. SUFFICES ASSUME NEW m \in 1 .. Len(sent'), m \notin 1 .. Len(sent)
               PROVE  (MessageFits(sent[m]))'
  BY MessagesStay
<1>4. Encrypts(public) /\ sent' = Append(sent, x)
  BY <1>3 DEF Transmit
<1>5. x \in Message /\ MessageFits(x)
  BY <1>2, <1>4 DEF Message, MessageFits, Encrypts, KeysOf
<1>6. PICK y \in Message : y = x /\ MessageFits(y)
  BY <1>5
<1>7. MessageFits(y)'
  BY <1>1, <1>6, SentFits
<1>8. sent'[m] = x
  <2>1. m = Len(sent) + 1
    BY <1>1, <1>3, <1>4, <1>5 DEF Typed
  <2>. QED BY <1>1, <1>4, <1>5, <2>1 DEF Typed
<1>. QED BY <1>6, <1>7, <1>8 DEF MessageFits, KeysOf

\* All messages fit after every step.
LEMMA MessagesFit ==
  ASSUME IInv, [Next]_vars
  PROVE  (\A m \in 1 .. Len(sent) : MessageFits(sent[m]))'
<1>1. CASE sent' = sent
  BY <1>1, MessagesStay
<1>2. ASSUME NEW u \in Users, NEW peer \in Users, SendMessage(u, peer), sent' # sent
      PROVE  \A m \in 1 .. Len(sent') : (MessageFits(sent[m]))'
  <2>1. contacts[u][peer] # NoKey /\ Transmit(u, peer, contacts[u][peer])
    BY <1>2 DEF SendMessage, messages
  <2>2. contacts[u][peer] \in KeysOf(peer) /\ directory[u] # NoKey
    BY <1>2, <2>1 DEF IInv, ClientFits, KnownKeys, SendMessage
  <2>. QED BY <2>1, <2>2, TransmitFits
<1>3. ASSUME NEW u \in Users, Save(u), sent' # sent
      PROVE  \A m \in 1 .. Len(sent') : (MessageFits(sent[m]))'
  <2>1. at[u] = "saving" /\ job[u].task = "send"
        /\ Transmit(u, job[u].peer, contacts[u][job[u].peer])
    BY <1>3 DEF Save, messages, Open
  <2>2. job[u].peer \in Users /\ contacts[u][job[u].peer] # NoKey /\ directory[u] # NoKey
    BY <2>1 DEF IInv, ClientFits
  <2>3. contacts[u][job[u].peer] \in KeysOf(job[u].peer)
    BY <2>2 DEF IInv, ClientFits, KnownKeys
  <2>. QED BY <2>1, <2>2, <2>3, TransmitFits
<1>4. \/ sent' = sent
      \/ \E u \in Users : Save(u) \/ \E peer \in Users : SendMessage(u, peer)
  BY DEF Next, vars, messages, client, Start, Register, Connect, Disconnect, Exit, Rekey,
         Proceed, LookupPublicKey, NotFound, InsertContact, LookupFails, SaveFails, Fail,
         AddContact, ReceiveMessage, Open
<1>. QED BY <1>1, <1>2, <1>3, <1>4

\* The books of a client whose contacts and file stay are books of known keys.
LEMMA BooksStay ==
  ASSUME IInv, [Next]_vars, NEW u \in Users
  PROVE  /\ contacts'[u] = contacts[u] => KnownKeys(contacts[u])'
         /\ file'[u].contacts = file[u].contacts => KnownKeys(file[u].contacts)'
<1>1. Typed /\ KnownKeys(contacts[u]) /\ KnownKeys(file[u].contacts)
  BY DEF IInv, ClientFits
<1>. QED BY <1>1, BookStays DEF KnownKeys

\* Nothing is known to an empty book.
LEMMA NothingKnown ==
  ASSUME NEW u \in Users
  PROVE  contacts'[u] = NoContacts => KnownKeys(contacts[u])'
BY DEF KnownKeys, NoContacts

\* The answer is filed under the peer it was asked for.
LEMMA AnswerIsKnown ==
  ASSUME IInv, [Next]_vars, NEW u \in Users, at[u] = "answered", answer[u] # NoKey,
         contacts'[u] = WithAnswer(u)
  PROVE  /\ KnownKeys(contacts[u])'
         /\ job[u].peer \in Users /\ contacts'[u][job[u].peer] # NoKey
<1>1. Typed /\ KnownKeys(contacts[u])
  BY DEF IInv, ClientFits
<1>2. job[u].peer \in Users /\ answer[u] \in KeysOf(job[u].peer)
  BY DEF IInv, ClientFits
<1>3. PICK peer \in Users : peer = job[u].peer /\ answer[u] \in KeysOf(peer)
  BY <1>2
<1>4. answer[u] \in KeysOf(peer)'
  BY <1>1, <1>3, KeysGrow
<1>5. \A w \in Users : contacts'[u][w] = IF w = peer THEN answer[u] ELSE contacts[u][w]
  BY <1>1, <1>3 DEF WithAnswer, Typed, Contacts
<1>. QED BY <1>1, <1>3, <1>4, <1>5, BookStays DEF KnownKeys

\* Every client fits after every step: the ones that take no part in it, and
\* the one whose step it is.
LEMMA ClientsFit ==
  ASSUME IInv, [Next]_vars
  PROVE  \A w \in Users : ClientFits(w)'
<1>0. Typed /\ SentGrows /\ (\A u \in Users : ClientFits(u))
  BY SentOnlyGrows DEF IInv
<1>1. ASSUME NEW u \in Users, ClientFits(u)', \A w \in Users \ {u} : Keeps(w)
      PROVE  \A w \in Users : ClientFits(w)'
  BY <1>0, <1>1, OthersFit
<1>2. ASSUME \A w \in Users : Keeps(w) PROVE \A w \in Users : ClientFits(w)'
  BY <1>0, <1>2, OthersFit
<1>3. ASSUME NEW u \in Users, Start(u) PROVE \A w \in Users : ClientFits(w)'
  <2>1. \A w \in Users \ {u} : Keeps(w)
    BY <1>0, <1>3 DEF Start, Move, Keeps, Typed
  <2>2. KnownKeys(contacts[u])'
    <3>1. CASE contacts'[u] = contacts[u]
      BY <3>1, BooksStay
    <3>2. CASE contacts'[u] = file[u].contacts /\ file' = file
      BY <3>2, BooksStay DEF KnownKeys
    <3>. QED BY <1>0, <1>3, <3>1, <3>2 DEF Start, Typed
  <2>3. file'[u].contacts = file[u].contacts
    BY <1>0, <1>3 DEF Start, Torn, Typed
  <2>4. \/ at'[u] = "registering" /\ job'[u] = NoJob
        \/ at'[u] = "saving" /\ job'[u] = Task("start", NoUser, 0)
    BY <1>0, <1>3 DEF Start, Move, Typed
  <2>5. ClientFits(u)'
    BY <2>2, <2>3, <2>4, BooksStay, JobsAreJobs DEF ClientFits
  <2>. QED BY <1>1, <2>1, <2>5
<1>4. ASSUME NEW u \in Users, Register(u) PROVE \A w \in Users : ClientFits(w)'
  <2>1. \A w \in Users \ {u} : Keeps(w)
    BY <1>0, <1>4 DEF Register, Move, Keeps, Typed
  <2>2. directory'[u] # NoKey
    <3>1. OwnKey(u) \in PublicKeys
      BY <1>0, ChatAssumption, SMT DEF OwnKey, PublicKeys, Typed
    <3>. QED BY <1>0, <1>4, <3>1, ChatAssumption DEF Register, Typed, Contacts
  <2>3. at'[u] = "connecting" /\ job'[u] = NoJob /\ contacts' = contacts /\ file' = file
    BY <1>0, <1>4 DEF Register, Move, Typed
  <2>4. ClientFits(u)'
    BY <2>2, <2>3, BooksStay, JobsAreJobs DEF ClientFits
  <2>. QED BY <1>1, <2>1, <2>4
<1>5. ASSUME NEW u \in Users, Connect(u) \/ Disconnect(u)
      PROVE  \A w \in Users : ClientFits(w)'
  <2>1. \A w \in Users \ {u} : Keeps(w)
    BY <1>0, <1>5 DEF Connect, Disconnect, Move, Keeps, Typed
  <2>2. /\ at'[u] \in {"connecting", "idle"} /\ job'[u] = NoJob /\ contacts' = contacts
        /\ file' = file
    BY <1>0, <1>5 DEF Connect, Disconnect, Move, Typed
  <2>3. directory'[u] # NoKey
    BY <1>0, <1>5, RowsStay DEF Connect, Disconnect, ClientFits
  <2>4. ClientFits(u)'
    BY <2>2, <2>3, BooksStay, JobsAreJobs DEF ClientFits
  <2>. QED BY <1>1, <2>1, <2>4
<1>6. ASSUME NEW u \in Users, Exit(u) PROVE \A w \in Users : ClientFits(w)'
  <2>1. \A w \in Users \ {u} : Keeps(w)
    BY <1>0, <1>6 DEF Exit, Move, Keeps, Typed
  <2>2. at'[u] = "off" /\ job'[u] = NoJob /\ contacts'[u] = NoContacts /\ file' = file
    BY <1>0, <1>6 DEF Exit, Move, Typed
  <2>3. ClientFits(u)'
    BY <2>2, BooksStay, NothingKnown, JobsAreJobs DEF ClientFits
  <2>. QED BY <1>1, <2>1, <2>3
<1>7. ASSUME NEW u \in Users, Rekey(u) PROVE \A w \in Users : ClientFits(w)'
  BY <1>2, <1>7 DEF Rekey, client, Keeps
<1>8. ASSUME NEW u \in Users, NEW peer \in Users, AddContact(u, peer)
      PROVE  \A w \in Users : ClientFits(w)'
  <2>1. \A w \in Users \ {u} : Keeps(w)
    BY <1>0, <1>8 DEF AddContact, Move, Keeps, Typed
  <2>2. /\ at'[u] = "lookup" /\ job'[u] = Task("add", peer, 0) /\ contacts' = contacts
        /\ file' = file /\ directory'[u] # NoKey
    BY <1>0, <1>8 DEF AddContact, Move, Typed, ClientFits
  <2>3. ClientFits(u)'
    BY <2>2, BooksStay DEF ClientFits, Task
  <2>. QED BY <1>1, <2>1, <2>3
<1>9. ASSUME NEW u \in Users, NEW peer \in Users, SendMessage(u, peer)
      PROVE  \A w \in Users : ClientFits(w)'
  <2>1. CASE UNCHANGED <<at, job>>
    BY <1>2, <1>9, <2>1 DEF SendMessage, Keeps
  <2>2. CASE Move(u, "lookup", Task("send", peer, 0))
    <3>1. \A w \in Users \ {u} : Keeps(w)
      BY <1>0, <1>9, <2>2 DEF SendMessage, Move, Keeps, Typed
    <3>2. /\ at'[u] = "lookup" /\ job'[u] = Task("send", peer, 0) /\ contacts' = contacts
          /\ file' = file /\ directory'[u] # NoKey
      BY <1>0, <1>9, <2>2 DEF SendMessage, Move, Typed, ClientFits
    <3>3. ClientFits(u)'
      BY <3>2, BooksStay DEF ClientFits, Task
    <3>. QED BY <1>1, <3>1, <3>3
  <2>. QED BY <1>9, <2>1, <2>2 DEF SendMessage
<1>10. ASSUME NEW u \in Users, NEW m \in 1 .. Len(sent), ReceiveMessage(u, m)
       PROVE  \A w \in Users : ClientFits(w)'
  <2>1. CASE UNCHANGED <<at, job>>
    BY <1>2, <1>10, <2>1 DEF ReceiveMessage, Keeps
  <2>2. CASE Move(u, "lookup", Task("receive", sent[m].from, m)) /\ UNCHANGED messages
    <3>1. \A w \in Users \ {u} : Keeps(w)
      BY <1>0, <1>10, <2>2 DEF ReceiveMessage, Move, Keeps, Typed
    <3>2. m \in 1 .. Len(sent) /\ m \in 1 .. Len(sent') /\ sent'[m].from \in Users
      <4>1. m \in 1 .. Len(sent) /\ sent' = sent
        BY <1>0, <2>2 DEF Typed, messages
      <4>2. sent[m] \in Message
        BY <1>0, <4>1 DEF Typed
      <4>. QED BY <4>1, <4>2 DEF Message
    <3>3. /\ at'[u] = "lookup" /\ job'[u] = Task("receive", sent'[m].from, m)
          /\ contacts' = contacts /\ file' = file /\ directory'[u] # NoKey
      BY <1>0, <1>10, <2>2 DEF ReceiveMessage, Move, Typed, ClientFits, messages
    <3>4. ClientFits(u)'
      BY <3>2, <3>3, BooksStay DEF ClientFits, Task
    <3>. QED BY <1>1, <3>1, <3>4
  <2>. QED BY <1>10, <2>1, <2>2 DEF ReceiveMessage
<1>11. ASSUME NEW u \in Users, LookupPublicKey(u) PROVE \A w \in Users : ClientFits(w)'
  <2>1. \A w \in Users \ {u} : Keeps(w)
    BY <1>0, <1>11 DEF LookupPublicKey, Move, Keeps, Typed
  <2>2. PICK peer \in Users : peer = job[u].peer
    BY <1>0, <1>11 DEF LookupPublicKey, ClientFits
  <2>3. /\ at'[u] = "answered" /\ job'[u] = job[u] /\ answer'[u] = directory[peer]
        /\ contacts' = contacts /\ file' = file /\ sent' = sent /\ UNCHANGED directory
    BY <1>0, <1>11, <2>2 DEF LookupPublicKey, Move, Typed, messages
  <2>4. (answer[u] # NoKey => answer[u] \in KeysOf(job[u].peer))'
    <3>1. directory[peer] # NoKey => directory[peer] \in KeysOf(peer)'
      BY <1>0, KeysGrow DEF IInv, KnownKeys
    <3>. QED BY <2>2, <2>3, <3>1 DEF KeysOf
  <2>5. job[u].task = "receive" => directory[peer] # NoKey
    BY <1>0, <2>2 DEF ClientFits, IInv, MessageFits
  <2>6. ClientFits(u)'
    BY <1>0, <1>11, <2>2, <2>3, <2>4, <2>5, BooksStay DEF ClientFits, LookupPublicKey
  <2>. QED BY <1>1, <2>1, <2>6
<1>12. ASSUME NEW u \in Users, NotFound(u) PROVE \A w \in Users : ClientFits(w)'
  <2>1. \A w \in Users \ {u} : Keeps(w)
    BY <1>0, <1>12 DEF NotFound, Move, Keeps, Typed
  <2>2. /\ at'[u] = "idle" /\ job'[u] = NoJob /\ contacts' = contacts /\ file' = file
        /\ directory'[u] # NoKey
    BY <1>0, <1>12 DEF NotFound, Move, Typed, ClientFits
  <2>3. ClientFits(u)'
    BY <2>2, BooksStay, JobsAreJobs DEF ClientFits
  <2>. QED BY <1>1, <2>1, <2>3
<1>13. ASSUME NEW u \in Users, InsertContact(u) PROVE \A w \in Users : ClientFits(w)'
  <2>1. \A w \in Users \ {u} : Keeps(w)
    BY <1>0, <1>13 DEF InsertContact, Move, Keeps, Typed
  <2>2. /\ at'[u] = "saving" /\ job'[u] = job[u] /\ sent' = sent /\ directory' = directory
        /\ contacts'[u] = WithAnswer(u) /\ file'[u].contacts = file[u].contacts
    BY <1>0, <1>13 DEF InsertContact, Move, Typed, Torn, messages
  <2>3. /\ KnownKeys(contacts[u])' /\ contacts'[u][job[u].peer] # NoKey
    BY <1>13, <2>2, AnswerIsKnown DEF InsertContact
  <2>4. ClientFits(u)'
    BY <1>0, <1>13, <2>2, <2>3, BooksStay DEF ClientFits, InsertContact
  <2>. QED BY <1>1, <2>1, <2>4
<1>14. ASSUME NEW u \in Users, Save(u) PROVE \A w \in Users : ClientFits(w)'
  <2>1. \A w \in Users \ {u} : Keeps(w)
    BY <1>0, <1>14 DEF Save, Move, Keeps, Typed
  <2>2. /\ contacts' = contacts /\ file'[u].contacts = contacts[u] /\ job'[u] = NoJob
        /\ directory' = directory
        /\ \/ at'[u] = "registering"
           \/ at'[u] = "idle" /\ job[u].task # "start"
    BY <1>0, <1>14 DEF Save, Move, Typed, Complete, Book
  <2>3. KnownKeys(contacts[u])'
    BY <2>2, BooksStay
  <2>4. KnownKeys(file[u].contacts)'
    BY <2>2, <2>3 DEF KnownKeys
  <2>5. at'[u] = "idle" => directory'[u] # NoKey
    BY <1>0, <1>14, <2>2 DEF Save, ClientFits
  <2>6. ClientFits(u)'
    BY <2>2, <2>3, <2>4, <2>5, JobsAreJobs DEF ClientFits
  <2>. QED BY <1>1, <2>1, <2>6
<1>15. ASSUME NEW u \in Users, LookupFails(u) \/ SaveFails(u)
       PROVE  \A w \in Users : ClientFits(w)'
  <2>1. PICK book : /\ Fail(u, book) /\ file' = file
                    /\ \/ book = contacts[u]
                       \/ at[u] = "answered" /\ answer[u] # NoKey /\ book = WithAnswer(u)
    BY <1>15 DEF LookupFails, SaveFails
  <2>2. at[u] \in {"lookup", "answered", "saving"}
    BY <1>15 DEF LookupFails, SaveFails
  <2>3. \A w \in Users \ {u} : Keeps(w)
    BY <1>0, <2>1 DEF Fail, Move, Keeps, Typed
  <2>4. /\ job'[u] = NoJob /\ directory' = directory
        /\ \/ at'[u] = "off" /\ contacts'[u] = NoContacts
           \/ at'[u] = "idle" /\ job[u].task \notin {"start", "add"} /\ contacts'[u] = book
    BY <1>0, <2>1 DEF Fail, Move, Typed
  <2>5. KnownKeys(contacts[u])'
    BY <2>1, <2>4, BooksStay, NothingKnown, AnswerIsKnown
  <2>6. at'[u] = "idle" => directory'[u] # NoKey
    BY <1>0, <2>2, <2>4 DEF ClientFits
  <2>7. ClientFits(u)'
    BY <2>1, <2>4, <2>5, <2>6, BooksStay, JobsAreJobs DEF ClientFits
  <2>. QED BY <1>1, <2>3, <2>7
<1>16. CASE UNCHANGED vars
  BY <1>2, <1>16 DEF vars, client, Keeps
<1>. QED BY <1>3, <1>4, <1>5, <1>6, <1>7, <1>8, <1>9, <1>10, <1>11, <1>12, <1>13,
            <1>14, <1>15, <1>16 DEF Next, Proceed

\* The invariant behind the theorems below.
LEMMA InvariantCorrect == Spec => []IInv
<1>1. Init => IInv
  BY InitFits
<1>2. IInv /\ [Next]_vars => IInv'
  <2>. SUFFICES ASSUME IInv, [Next]_vars PROVE IInv'
    OBVIOUS
  <2>1. Typed' /\ KnownKeys(directory)'
    BY TypedStep, DirectoryFits
  <2>2. (\A u \in Users : ClientFits(u))'
    BY ClientsFit
  <2>3. (\A m \in 1 .. Len(sent) : MessageFits(sent[m]))'
    BY MessagesFit
  <2>. QED BY <2>1, <2>2, <2>3 DEF IInv
<1>. QED BY <1>1, <1>2, PTL DEF Spec

\* Every variable keeps its type and every key stays under its owner's name.
THEOREM ChatTypeCorrect == Spec => []TypeOK
BY InvariantCorrect, InvariantTypes, PTL

------------------------------------------------------------------------------
(* Refusals. *)

\* With keys that never changed there is nothing to refuse.
LEMMA SenderMatches ==
  ASSUME IInv, NEW m \in 1 .. Len(sent), NEW public \in KeysOf(sent[m].from),
         key[sent[m].from] = 1, sent[m].from \notin OldRows
  PROVE  KeyMatches(m, public)
<1>1. MessageFits(sent[m]) /\ sent[m] \in Message
  BY DEF IInv, Typed
<1>2. sent[m].senderKey \in KeysOf(sent[m].from)
  BY <1>1 DEF MessageFits
<1>3. \A k \in KeysOf(sent[m].from) :
        k \in PublicKeys /\ k.owner = sent[m].from /\ k.number = 1
  <2>. SUFFICES ASSUME NEW k \in KeysOf(sent[m].from)
                PROVE  k \in PublicKeys /\ k.owner = sent[m].from /\ k.number = 1
    OBVIOUS
  <2>1. k \in PublicKeys /\ k.owner = sent[m].from /\ k.number <= 1 /\ k.number # 0
    BY DEF KeysOf
  <2>2. k.number \in Nat
    BY <2>1, ChatAssumption, SMT DEF PublicKeys
  <2>. QED BY <2>1, <2>2, SMT
<1>4. sent[m].senderKey = public
  BY <1>2, <1>3 DEF PublicKeys
<1>. QED BY <1>4 DEF KeyMatches

\* The only key of a user decrypts all messages to that user.
LEMMA RecipientDecrypts ==
  ASSUME IInv, NEW m \in 1 .. Len(sent), key[sent[m].to] = 1
  PROVE  Decrypts(sent[m].to, m)
<1>1. MessageFits(sent[m]) /\ sent[m] \in Message
  BY DEF IInv, Typed
<1>2. /\ sent[m].recipientKey \in PublicKeys /\ sent[m].recipientKey.owner = sent[m].to
      /\ sent[m].recipientKey.number <= 1 /\ sent[m].recipientKey.number # 0
  BY <1>1 DEF MessageFits, KeysOf
<1>3. sent[m].recipientKey.number \in Nat
  BY <1>2, ChatAssumption, SMT DEF PublicKeys
<1>4. sent[m].recipientKey.number = 1
  BY <1>2, <1>3, SMT
<1>. QED BY <1>2, <1>4 DEF Decrypts, OwnKey, PublicKeys

\* A step refuses a message only if one of its two users changed keys.
LEMMA RefusalStep ==
  ASSUME IInv, IInv', RefusedOnlyAfterRekey, [Next]_vars
  PROVE  RefusedOnlyAfterRekey'
<1>. DEFINE Excused(m) == \/ key[sent[m].from] > 1 \/ key[sent[m].to] > 1
                          \/ sent[m].from \in OldRows
<1>0. Typed /\ Typed' /\ SentGrows /\ (\A u \in Users : ClientFits(u))
  BY SentOnlyGrows DEF IInv
<1>1. ASSUME NEW m \in 1 .. Len(sent), Excused(m) PROVE Excused(m)'
  <2>1. sent'[m] = sent[m] /\ sent[m] \in Message
    BY <1>0 DEF SentGrows, Typed
  <2>2. sent[m].from \in Users /\ sent[m].to \in Users
    BY <2>1 DEF Message
  <2>3. /\ key[sent[m].from] <= key'[sent[m].from] /\ key[sent[m].to] <= key'[sent[m].to]
        /\ key[sent[m].from] \in Nat /\ key'[sent[m].from] \in Nat
        /\ key[sent[m].to] \in Nat /\ key'[sent[m].to] \in Nat
    BY <1>0, <2>2, KeysGrow, ChatAssumption DEF Typed
  <2>. QED BY <1>1, <2>1, <2>3
<1>2. ASSUME NEW m \in 1 .. Len(sent), ~Excused(m)
      PROVE  /\ key[sent[m].from] = 1 /\ key[sent[m].to] = 1
             /\ sent[m].from \in Users \ OldRows
  <2>1. sent[m] \in Message
    BY <1>0 DEF Typed
  <2>2. sent[m].from \in Users /\ sent[m].to \in Users
    BY <2>1 DEF Message
  <2>3. key[sent[m].from] \in 1 .. MaxKeys /\ key[sent[m].to] \in 1 .. MaxKeys
    BY <1>0, <2>2 DEF Typed
  <2>. QED BY <1>2, <2>2, <2>3, ChatAssumption, SMT
<1>3. ASSUME NEW m \in 1 .. Len(sent), NEW u \in Users, contacts[u][sent[m].from] # NoKey,
             ~KeyMatches(m, contacts[u][sent[m].from])
      PROVE  Excused(m)
  <2>. SUFFICES ASSUME ~Excused(m) PROVE FALSE
    OBVIOUS
  <2>1. contacts[u][sent[m].from] \in KeysOf(sent[m].from)
    BY <1>0, <1>2, <1>3 DEF ClientFits, KnownKeys
  <2>. QED BY <1>2, <1>3, <2>1, SenderMatches
<1>4. ASSUME NEW u \in Users, NEW m \in 1 .. Len(sent), ReceiveMessage(u, m)
      PROVE  rejected' \subseteq rejected \cup {m} /\ (m \in rejected' \ rejected => Excused(m))
  <2>1. m \in 1 .. Len(sent)
    BY <1>0 DEF Typed
  <2>2. CASE ~Decrypts(u, m) /\ rejected' = rejected \cup {m}
    BY <1>2, <1>4, <2>1, <2>2, RecipientDecrypts DEF ReceiveMessage
  <2>3. CASE ~AsksFor(u, sent[m].from) /\ Open(m, contacts[u][sent[m].from])
    BY <1>3, <2>1, <2>3 DEF AsksFor, Open
  <2>4. CASE UNCHANGED messages
    BY <2>4 DEF messages
  <2>. QED BY <1>4, <2>2, <2>3, <2>4 DEF ReceiveMessage
<1>5. ASSUME NEW u \in Users, Save(u)
      PROVE  \A m \in rejected' \ rejected : m \in 1 .. Len(sent) /\ Excused(m)
  <2>1. CASE job[u].task = "receive" /\ Open(job[u].message, contacts[u][job[u].peer])
    <3>1. /\ job[u].message \in 1 .. Len(sent) /\ sent[job[u].message].from = job[u].peer
          /\ contacts[u][job[u].peer] # NoKey
      BY <1>0, <1>5, <2>1 DEF ClientFits, Save
    <3>. QED BY <1>3, <2>1, <3>1 DEF Open
  <2>2. CASE rejected' = rejected
    BY <2>2
  <2>. QED BY <1>5, <2>1, <2>2 DEF Save, Transmit, messages
<1>6. ASSUME NEW u \in Users, NotFound(u) PROVE rejected' = rejected
  BY <1>0, <1>6 DEF NotFound, ClientFits
<1>7. \/ rejected' = rejected
      \/ \E u \in Users : NotFound(u) \/ Save(u) \/ \E m \in 1 .. Len(sent) : ReceiveMessage(u, m)
  BY DEF Next, vars, messages, client, Start, Register, Connect, Disconnect, Exit, Rekey,
         Proceed, LookupPublicKey, InsertContact, LookupFails, SaveFails, Fail,
         AddContact, SendMessage, Transmit
<1>8. \A m \in rejected' \ rejected : m \in 1 .. Len(sent) /\ Excused(m)
  <2>1. ASSUME NEW u \in Users, NEW m \in 1 .. Len(sent), ReceiveMessage(u, m)
        PROVE  \A n \in rejected' \ rejected : n \in 1 .. Len(sent) /\ Excused(n)
    <3>1. m \in 1 .. Len(sent)
      BY <1>0 DEF Typed
    <3>2. \A n \in rejected' \ rejected : n = m /\ Excused(m)
      BY <1>4, <2>1
    <3>. QED BY <3>1, <3>2
  <2>. QED BY <1>5, <1>6, <1>7, <2>1
<1>9. \A m \in rejected : m \in 1 .. Len(sent) /\ Excused(m)
  BY <1>0 DEF Typed, RefusedOnlyAfterRekey
<1>. QED BY <1>1, <1>8, <1>9 DEF RefusedOnlyAfterRekey

\* However lookups, saves, exits and restarts of the clients interleave, and
\* whatever the relay reorders or repeats, a client refuses a message only after
\* its sender or its recipient got new keys.
THEOREM RefusedOnlyAfterRekeyCorrect == Spec => []RefusedOnlyAfterRekey
BY InitFits, RefusalStep, InvariantCorrect, PTL DEF Spec

------------------------------------------------------------------------------
(* Saved contacts. *)

\* A client that is off has no book, and one that looks a key up in order to
\* send or to open a message does not know that key.
Asking(u) ==
  /\ at[u] = "off" => contacts[u] = NoContacts
  /\ at[u] \in {"lookup", "answered"} /\ job[u].task \in {"send", "receive"} =>
       contacts[u][job[u].peer] = NoKey

\* Asking and Follows are kept by all steps of all clients, one at a time.
Client(u) == <<at[u], job[u], contacts[u], file[u]>>

LEMMA OneAtATime ==
  ASSUME Typed, [Next]_vars, NEW u \in Users
  PROVE  \/ UNCHANGED Client(u)
         \/ Start(u) \/ Register(u) \/ Connect(u) \/ Disconnect(u) \/ Exit(u)
         \/ Proceed(u) \/ LookupFails(u) \/ SaveFails(u)
         \/ \E peer \in Users : AddContact(u, peer) \/ SendMessage(u, peer)
         \/ \E m \in 1 .. Len(sent) : ReceiveMessage(u, m)
<1>. USE DEF Client
<1>1. ASSUME NEW w \in Users, w # u,
             \/ Start(w) \/ Register(w) \/ Connect(w) \/ Disconnect(w) \/ Exit(w)
             \/ Proceed(w) \/ LookupFails(w) \/ SaveFails(w)
      PROVE  UNCHANGED Client(u)
  BY <1>1 DEF Typed, Move, Start, Register, Connect, Disconnect, Exit, Proceed, LookupFails,
              SaveFails, Fail, LookupPublicKey, NotFound, InsertContact, Save
<1>2. ASSUME NEW w \in Users, w # u,
             \/ \E peer \in Users : AddContact(w, peer) \/ SendMessage(w, peer)
             \/ \E m \in 1 .. Len(sent) : ReceiveMessage(w, m)
      PROVE  UNCHANGED Client(u)
  BY <1>2 DEF Typed, Move, AddContact, SendMessage, ReceiveMessage
<1>3. ASSUME NEW w \in Users, Rekey(w) PROVE UNCHANGED Client(u)
  BY <1>3 DEF Rekey, client
<1>4. CASE UNCHANGED vars
  BY <1>4 DEF vars, client
<1>. QED BY <1>1, <1>2, <1>3, <1>4 DEF Next

\* A client that waits for an answer does not learn the key in the meantime.
LEMMA AskingStep ==
  ASSUME Typed, [Next]_vars, NEW u \in Users, Asking(u)
  PROVE  Asking(u)'
<1>. USE DEF Asking
<1>1. CASE UNCHANGED Client(u)
  BY <1>1 DEF Client
<1>2. CASE Start(u) \/ Register(u) \/ Connect(u) \/ Disconnect(u) \/ Exit(u)
  BY <1>2 DEF Typed, Move, Start, Register, Connect, Disconnect, Exit
<1>3. CASE Proceed(u)
  BY <1>3 DEF Typed, Move, Proceed, LookupPublicKey, NotFound, InsertContact, Save
<1>4. CASE LookupFails(u) \/ SaveFails(u)
  BY <1>4 DEF Typed, Move, LookupFails, SaveFails, Fail
<1>5. ASSUME NEW peer \in Users, AddContact(u, peer) \/ SendMessage(u, peer)
      PROVE  Asking(u)'
  BY <1>5 DEF Typed, Move, AddContact, SendMessage, Task
<1>6. ASSUME NEW m \in 1 .. Len(sent), ReceiveMessage(u, m) PROVE Asking(u)'
  BY <1>6 DEF Typed, Move, ReceiveMessage, AsksFor, Task
<1>. QED BY <1>1, <1>2, <1>3, <1>4, <1>5, <1>6, OneAtATime

\* Whatever is looked up, saved, lost and loaded, the key saved for a contact
\* is replaced only by the command that adds the contact.
THEOREM PinsKeptCorrect == Spec => PinsKept
<1>. DEFINE Pinned == \A u, peer \in Users :
       contacts[u][peer] # NoKey /\ contacts'[u][peer] # contacts[u][peer] =>
         at'[u] = "off" \/ (job[u].task = "add" /\ job[u].peer = peer)
<1>. DEFINE AllAsking == \A u \in Users : Asking(u)
<1>1. Init => AllAsking
  BY DEF Init, Asking
<1>2. IInv /\ AllAsking /\ [Next]_vars => AllAsking'
  BY AskingStep DEF IInv
<1>3. IInv /\ AllAsking /\ [Next]_vars => [Pinned]_vars
  <2>. SUFFICES ASSUME IInv, AllAsking, [Next]_vars, NEW u \in Users, NEW peer \in Users,
                       contacts[u][peer] # NoKey, contacts'[u][peer] # contacts[u][peer],
                       at'[u] # "off"
                PROVE  job[u].task = "add" /\ job[u].peer = peer
    OBVIOUS
  <2>. USE DEF Typed, Move, Asking
  <2>0. Typed /\ Asking(u) /\ ClientFits(u)
    BY DEF IInv
  <2>1. \/ Start(u) \/ Exit(u) \/ InsertContact(u)
        \/ Fail(u, contacts[u])
        \/ at[u] = "answered" /\ answer[u] # NoKey /\ Fail(u, WithAnswer(u))
    BY <2>0, OneAtATime DEF Client, Register, Connect, Disconnect, Proceed, LookupPublicKey,
       NotFound, Save, LookupFails, SaveFails, AddContact, SendMessage, ReceiveMessage
  <2>2. CASE Start(u)
    BY <2>0, <2>2 DEF Start, NoContacts
  <2>3. CASE Exit(u)
    BY <2>0, <2>3 DEF Exit
  <2>4. CASE InsertContact(u)
    BY <2>0, <2>4 DEF InsertContact, WithAnswer, ClientFits, Contacts
  <2>5. CASE Fail(u, contacts[u])
    BY <2>0, <2>5 DEF Fail
  <2>6. CASE at[u] = "answered" /\ answer[u] # NoKey /\ Fail(u, WithAnswer(u))
    BY <2>0, <2>6 DEF Fail, WithAnswer, ClientFits, Contacts
  <2>. QED BY <2>1, <2>2, <2>3, <2>4, <2>5, <2>6
<1>. QED BY <1>1, <1>2, <1>3, InvariantCorrect, PTL DEF Spec, PinsKept

\* While a contact is looked up and saved for a message, the file can only lack
\* it; while it is added, the file may still have the key that is replaced.
Follows(u) ==
  at[u] # "off" /\ ~(at[u] = "saving" /\ job[u].task \in {"start", "add"}) =>
    \A peer \in Users : file[u].contacts[peer] \in {contacts[u][peer], NoKey}

\* No step of a client leaves its file behind with a key it has replaced.
LEMMA FollowsStep ==
  ASSUME IInv, [Next]_vars, NEW u \in Users, Asking(u), Follows(u)
  PROVE  Follows(u)'
<1>. USE DEF Typed, Move, Follows
<1>0. Typed /\ Asking(u) /\ Follows(u) /\ ClientFits(u)
  BY DEF IInv
<1>1. CASE UNCHANGED Client(u)
  BY <1>0, <1>1 DEF Client
<1>2. CASE Start(u)
  BY <1>0, <1>2 DEF Start, Task
<1>3. CASE Register(u) \/ Connect(u) \/ Disconnect(u) \/ Exit(u)
  BY <1>0, <1>3 DEF Register, Connect, Disconnect, Exit
<1>4. CASE LookupPublicKey(u) \/ NotFound(u)
  BY <1>0, <1>4 DEF LookupPublicKey, NotFound
<1>5. ASSUME job[u].task # "add", at[u] = "answered", contacts'[u] = WithAnswer(u),
             file'[u].contacts = file[u].contacts
      PROVE  Follows(u)'
  <2>1. job[u].peer \in Users /\ contacts[u][job[u].peer] = NoKey
    BY <1>0, <1>5 DEF Asking, ClientFits
  <2>2. \A w \in Users : w # job[u].peer => contacts'[u][w] = contacts[u][w]
    BY <1>0, <1>5 DEF WithAnswer, Contacts
  <2>. QED BY <1>0, <1>5, <2>1, <2>2
<1>6. CASE InsertContact(u)
  BY <1>0, <1>5, <1>6 DEF InsertContact, Torn
<1>7. CASE Save(u)
  BY <1>0, <1>7 DEF Save, Complete, Book
<1>8. CASE at[u] # "off" /\ Fail(u, contacts[u]) /\ UNCHANGED file
  BY <1>0, <1>8 DEF Fail
<1>9. CASE at[u] = "answered" /\ Fail(u, WithAnswer(u)) /\ UNCHANGED file
  BY <1>0, <1>5, <1>9 DEF Fail
<1>10. ASSUME NEW peer \in Users, AddContact(u, peer) \/ SendMessage(u, peer)
       PROVE  Follows(u)'
  BY <1>0, <1>10 DEF AddContact, SendMessage
<1>11. ASSUME NEW m \in 1 .. Len(sent), ReceiveMessage(u, m) PROVE Follows(u)'
  BY <1>0, <1>11 DEF ReceiveMessage
<1>12. CASE Proceed(u)
  BY <1>4, <1>6, <1>7, <1>12 DEF Proceed
<1>13. CASE LookupFails(u) \/ SaveFails(u)
  BY <1>8, <1>9, <1>13 DEF LookupFails, SaveFails
<1>. QED BY <1>0, <1>1, <1>2, <1>3, <1>10, <1>11, <1>12, <1>13, OneAtATime

\* Whatever saves fail and wherever the client ends, the next run of a client
\* never goes back to a key that an earlier run has replaced in its book.
THEOREM FileFollowsBookCorrect == Spec => []FileFollowsBook
<1>. DEFINE AllFollow == \A u \in Users : Asking(u) /\ Follows(u)
<1>1. Init => AllFollow
  BY DEF Init, Asking, Follows
<1>2. IInv /\ AllFollow /\ [Next]_vars => AllFollow'
  BY AskingStep, FollowsStep DEF IInv
<1>3. AllFollow => FileFollowsBook
  BY DEF Follows, FileFollowsBook
<1>. QED BY <1>1, <1>2, <1>3, InvariantCorrect, PTL DEF Spec

\* As long as no save fails, a client that waits for commands can be stopped
\* at any moment: its file is its book.
THEOREM BookIsSavedCorrect ==
  ASSUME "save" \notin Faults
  PROVE  Spec => []BookIsSaved
<1>. DEFINE Saved(u) == at[u] \notin {"off", "saving"} => file[u] = Complete(contacts[u])
<1>1. Init => BookIsSaved
  BY DEF Init, BookIsSaved
<1>2. IInv /\ BookIsSaved /\ [Next]_vars => BookIsSaved'
  <2>. SUFFICES ASSUME IInv, BookIsSaved, [Next]_vars, NEW u \in Users PROVE Saved(u)'
    BY DEF BookIsSaved
  <2>. USE DEF Typed, Move, Complete
  <2>0. Typed /\ Saved(u)
    BY DEF IInv, BookIsSaved
  <2>1. CASE UNCHANGED Client(u)
    BY <2>0, <2>1 DEF Client
  <2>2. CASE Start(u)
    BY <2>0, <2>2 DEF Start, File
  <2>3. CASE Register(u) \/ Connect(u) \/ Disconnect(u) \/ Exit(u)
    BY <2>0, <2>3 DEF Register, Connect, Disconnect, Exit
  <2>4. CASE Proceed(u)
    BY <2>0, <2>4 DEF Proceed, LookupPublicKey, NotFound, InsertContact, Save, Book
  <2>5. CASE LookupFails(u) \/ SaveFails(u)
    BY <2>0, <2>5 DEF LookupFails, SaveFails, Fail
  <2>6. ASSUME NEW peer \in Users, AddContact(u, peer) \/ SendMessage(u, peer)
        PROVE  Saved(u)'
    BY <2>0, <2>6 DEF AddContact, SendMessage
  <2>7. ASSUME NEW m \in 1 .. Len(sent), ReceiveMessage(u, m) PROVE Saved(u)'
    BY <2>0, <2>7 DEF ReceiveMessage
  <2>. QED BY <2>0, <2>1, <2>2, <2>3, <2>4, <2>5, <2>6, <2>7, OneAtATime
<1>. QED BY <1>1, <1>2, InvariantCorrect, PTL DEF Spec

=============================================================================
