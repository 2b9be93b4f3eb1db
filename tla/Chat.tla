-------------------------------- MODULE Chat --------------------------------
(***************************************************************************)
(* Command-line clients that talk through the relay: the loop of           *)
(* client/src/main.rs with server_api.rs, contacts.rs and crypto.rs, and   *)
(* the key directory behind it (server/src/main.rs, directory.rs).         *)
(*                                                                         *)
(* A client does one thing at a time: while it handles a command or a      *)
(* message it awaits the server and writes its contacts file, and other    *)
(* clients move on.  A step is the code between two of these waits.  An    *)
(* encryption key is its owner and the number of its generation; number 0  *)
(* is the empty text in a directory row older than encryption keys.  The   *)
(* relay (module Relay) is a network that reorders, loses and repeats: a   *)
(* message that was sent may be received at any time, again, or never.     *)
(***************************************************************************)
EXTENDS Naturals, Sequences, FiniteSets

CONSTANTS
  Users,
  NoUser,       \* nobody
  NoKey,        \* answer 404, or a contact that is not in the book
  OldRows,      \* users whose directory row has an empty encryption key
  MaxKeys,      \* bound: key pairs of one user
  MaxMessages,  \* bound: messages sent
  Talks,        \* bound: pairs <<u, peer>>, u names the peer in commands
  Faults        \* which of "lookup" and "save" may fail

PublicKeys == [owner : Users, number : 0 .. MaxKeys]

ASSUME ChatAssumption ==
  /\ NoUser \notin Users
  /\ NoKey \notin PublicKeys
  /\ OldRows \subseteq Users
  /\ MaxKeys \in Nat \ {0}
  /\ MaxMessages \in Nat
  /\ Talks \subseteq Users \X Users
  /\ Faults \subseteq {"lookup", "save"}

VARIABLES
  at,         \* where main of each user's client is
  job,        \* the command or message the client is handling
  answer,     \* the answer to its lookup
  contacts,   \* ContactBook.contacts, in memory
  file,       \* the contacts file
  key,        \* number of the key pair in the user's identity file
  directory,  \* table public_keys
  sent,       \* history: the messages sent, in order
  shown,      \* history: messages that were decrypted and printed
  rejected    \* history: messages that did not open, or whose sender's key did
              \* not match or was unknown (and none that an error dropped)

client == <<at, job, answer, contacts, file>>
messages == <<sent, shown, rejected>>
vars == <<client, key, directory, messages>>

Contacts == [Users -> PublicKeys \cup {NoKey}]
NoContacts == [u \in Users |-> NoKey]

\* A file that was truncated and not written again is torn; it does not parse.
\* Its contacts are those it had before (history).
File == [state : {"absent", "torn", "complete"}, contacts : Contacts]
Absent == [state |-> "absent", contacts |-> NoContacts]
Torn(book) == [state |-> "torn", contacts |-> book]
Complete(book) == [state |-> "complete", contacts |-> book]

Job == [task : {"none", "start", "add", "send", "receive"},
        peer : Users \cup {NoUser}, message : Nat]
Task(task, peer, message) == [task |-> task, peer |-> peer, message |-> message]
NoJob == Task("none", NoUser, 0)

OwnKey(u) == [owner |-> u, number |-> key[u]]

Message == [from : Users, to : Users, senderKey : PublicKeys, recipientKey : PublicKeys]

Init ==
  /\ at = [u \in Users |-> "off"]
  /\ job = [u \in Users |-> NoJob]
  /\ answer = [u \in Users |-> NoKey]
  /\ contacts = [u \in Users |-> NoContacts]
  /\ file = [u \in Users |-> Absent]
  /\ key = [u \in Users |-> 1]
  /\ directory = [u \in Users |->
       IF u \in OldRows THEN [owner |-> u, number |-> 0] ELSE NoKey]
  /\ sent = <<>>
  /\ shown = {}
  /\ rejected = {}

------------------------------------------------------------------------------
(* Messages. *)

\* encrypt_message decodes the recipient's key first, which fails if it is empty.
Encrypts(public) == public.number # 0

Transmit(u, to, public) ==
  /\ IF Encrypts(public)
     THEN sent' = Append(sent, [from |-> u, to |-> to, senderKey |-> OwnKey(u),
                                recipientKey |-> public])
     ELSE UNCHANGED sent
  /\ UNCHANGED <<shown, rejected>>

\* Sender and recipient derive the same message key only from each other's keys.
Decrypts(u, m) == sent[m].recipientKey = OwnKey(u)

\* The message must come with the key that is saved for its sender.
OwnKeyMatches(m, public) == sent[m].recipientKey = public    \* the wrong key
OwnerMatches(m, public) == sent[m].senderKey.owner = public.owner    \* only the name
KeyMatches(m, public) == sent[m].senderKey = public

Open(m, public) ==
  /\ IF KeyMatches(m, public)
     THEN shown' = shown \cup {m} /\ UNCHANGED rejected
     ELSE rejected' = rejected \cup {m} /\ UNCHANGED shown
  /\ UNCHANGED sent

------------------------------------------------------------------------------
(* A client session. *)

Move(u, place, task) ==
  /\ at' = [at EXCEPT ![u] = place]
  /\ job' = [job EXCEPT ![u] = task]

\* ContactBook::load_or_create; a file that does not parse ends the program.
Start(u) ==
  /\ at[u] = "off"
  /\ \/ /\ file[u].state = "complete"
        /\ contacts' = [contacts EXCEPT ![u] = file[u].contacts]
        /\ Move(u, "registering", NoJob)
        /\ UNCHANGED file
     \/ /\ file[u].state = "absent"
        /\ file' = [file EXCEPT ![u] = Torn(@.contacts)]
        /\ Move(u, "saving", Task("start", NoUser, 0))
        /\ UNCHANGED contacts
  /\ UNCHANGED <<answer, key, directory, messages>>

\* The server answers 201 after an upsert of the row.
Register(u) ==
  /\ at[u] = "registering"
  /\ directory' = [directory EXCEPT ![u] = OwnKey(u)]
  /\ Move(u, "connecting", NoJob)
  /\ UNCHANGED <<answer, contacts, file, key, messages>>

\* connect_with_retry goes on until the websocket is up.
Connect(u) ==
  /\ at[u] = "connecting"
  /\ Move(u, "idle", NoJob)
  /\ UNCHANGED <<answer, contacts, file, key, directory, messages>>

Disconnect(u) ==
  /\ at[u] = "idle"
  /\ Move(u, "connecting", NoJob)
  /\ UNCHANGED <<answer, contacts, file, key, directory, messages>>

\* /quit, Ctrl+C, a crash, or a registration that failed.
Exit(u) ==
  /\ at[u] # "off"
  /\ Move(u, "off", NoJob)
  /\ contacts' = [contacts EXCEPT ![u] = NoContacts]
  /\ answer' = [answer EXCEPT ![u] = NoKey]
  /\ UNCHANGED <<file, key, directory, messages>>

\* The user's identity file was deleted; the next client creates another one.
Rekey(u) ==
  /\ at[u] = "off"
  /\ key[u] < MaxKeys
  /\ key' = [key EXCEPT ![u] = @ + 1]
  /\ UNCHANGED <<client, directory, messages>>

------------------------------------------------------------------------------
(* Commands and messages. *)

\* /add and /lookup ask the server even when the contact is known.
AddContact(u, peer) ==
  /\ at[u] = "idle"
  /\ <<u, peer>> \in Talks
  /\ Move(u, "lookup", Task("add", peer, 0))
  /\ UNCHANGED <<answer, contacts, file, key, directory, messages>>

MayStillSend == Len(sent) + Cardinality({u \in Users : job[u].task = "send"}) < MaxMessages

SendMessage(u, peer) ==
  /\ at[u] = "idle"
  /\ <<u, peer>> \in Talks
  /\ MayStillSend
  /\ \/ /\ contacts[u][peer] # NoKey
        /\ Transmit(u, peer, contacts[u][peer])
        /\ UNCHANGED <<at, job>>
     \/ /\ contacts[u][peer] = NoKey
        /\ Move(u, "lookup", Task("send", peer, 0))
        /\ UNCHANGED messages
  /\ UNCHANGED <<answer, contacts, file, key, directory>>

\* find_or_add_sender asks the server only about a sender it does not know.
AlwaysAsks(u, from) == TRUE                   \* refreshes the saved key
AsksFor(u, from) == contacts[u][from] = NoKey

\* Reception of a message, which the relay may deliver late and repeatedly.
ReceiveMessage(u, m) ==
  /\ at[u] = "idle"
  /\ sent[m].to = u
  /\ \/ /\ ~Decrypts(u, m)
        /\ rejected' = rejected \cup {m}
        /\ UNCHANGED <<at, job, sent, shown>>
     \/ /\ Decrypts(u, m)
        /\ ~AsksFor(u, sent[m].from)
        /\ Open(m, contacts[u][sent[m].from])
        /\ UNCHANGED <<at, job>>
     \/ /\ Decrypts(u, m)
        /\ AsksFor(u, sent[m].from)
        /\ Move(u, "lookup", Task("receive", sent[m].from, m))
        /\ UNCHANGED messages
  /\ UNCHANGED <<answer, contacts, file, key, directory>>

\* The server reads the row now; its answer reaches the client later.
LookupPublicKey(u) ==
  /\ at[u] = "lookup"
  /\ answer' = [answer EXCEPT ![u] = directory[job[u].peer]]
  /\ Move(u, "answered", job[u])
  /\ UNCHANGED <<contacts, file, key, directory, messages>>

\* 404: the command does nothing, and a message cannot be opened.
NotFound(u) ==
  /\ at[u] = "answered"
  /\ answer[u] = NoKey
  /\ rejected' = rejected \cup (IF job[u].task = "receive" THEN {job[u].message} ELSE {})
  /\ Move(u, "idle", NoJob)
  /\ UNCHANGED <<answer, contacts, file, key, directory, sent, shown>>

\* ContactBook::add inserts the entry; save opens and truncates the file.
UnderOwnName(u) == [contacts[u] EXCEPT ![u] = answer[u]]
WithAnswer(u) == [contacts[u] EXCEPT ![job[u].peer] = answer[u]]

InsertContact(u) ==
  /\ at[u] = "answered"
  /\ answer[u] # NoKey
  /\ contacts' = [contacts EXCEPT ![u] = WithAnswer(u)]
  /\ answer' = [answer EXCEPT ![u] = NoKey]
  /\ file' = [file EXCEPT ![u] = Torn(@.contacts)]
  /\ Move(u, "saving", job[u])
  /\ UNCHANGED <<key, directory, messages>>

\* The file is written, and the client goes on with what it was doing.
OldBook(u) == file[u].contacts                \* saved before the insertion
OldEntries(u) == [peer \in Users |->            \* entries are never replaced
  IF file[u].contacts[peer] # NoKey THEN file[u].contacts[peer] ELSE contacts[u][peer]]
Book(u) == contacts[u]

Save(u) ==
  /\ at[u] = "saving"
  /\ file' = [file EXCEPT ![u] = Complete(Book(u))]
  /\ \/ /\ job[u].task = "start"
        /\ Move(u, "registering", NoJob)
        /\ UNCHANGED messages
     \/ /\ job[u].task = "add"
        /\ Move(u, "idle", NoJob)
        /\ UNCHANGED messages
     \/ /\ job[u].task = "send"
        /\ Transmit(u, job[u].peer, contacts[u][job[u].peer])
        /\ Move(u, "idle", NoJob)
     \/ /\ job[u].task = "receive"
        /\ Open(job[u].message, contacts[u][job[u].peer])
        /\ Move(u, "idle", NoJob)
  /\ UNCHANGED <<answer, contacts, key, directory>>

\* An error leaves main when it starts or adds a contact; otherwise main prints
\* it and goes on, without the message it was sending or receiving.
Fail(u, book) ==
  LET ends == job[u].task \in {"start", "add"} IN
  /\ Move(u, IF ends THEN "off" ELSE "idle", NoJob)
  /\ contacts' = [contacts EXCEPT ![u] = IF ends THEN NoContacts ELSE book]
  /\ answer' = [answer EXCEPT ![u] = NoKey]
  /\ UNCHANGED <<key, directory, messages>>

LookupFails(u) ==
  /\ "lookup" \in Faults
  /\ at[u] = "lookup"
  /\ Fail(u, contacts[u])
  /\ UNCHANGED file

\* The file cannot be opened, or not be written after it was truncated.
SaveFails(u) ==
  /\ "save" \in Faults
  /\ \/ at[u] = "answered" /\ answer[u] # NoKey /\ Fail(u, WithAnswer(u))
     \/ at[u] = "saving" /\ Fail(u, contacts[u])
  /\ UNCHANGED file

------------------------------------------------------------------------------
\* What a client does by itself once it has something to do.
Proceed(u) ==
  \/ LookupPublicKey(u) \/ NotFound(u) \/ InsertContact(u) \/ Save(u)

Next ==
  \E u \in Users :
    \/ Start(u) \/ Register(u) \/ Connect(u) \/ Disconnect(u) \/ Exit(u) \/ Rekey(u)
    \/ Proceed(u) \/ LookupFails(u) \/ SaveFails(u)
    \/ \E peer \in Users : AddContact(u, peer) \/ SendMessage(u, peer)
    \/ \E m \in 1 .. Len(sent) : ReceiveMessage(u, m)

Spec == Init /\ [][Next]_vars

\* The server answers and the disk writes; users and the network promise nothing.
FairSpec == Spec /\ \A u \in Users : WF_vars(Proceed(u))

------------------------------------------------------------------------------
\* In a book or a directory every key is under the name of its owner.
Filed(book) == \A u \in Users : book[u] # NoKey => book[u].owner = u

\* Every variable has its type, and every key is filed under its owner's name.
TypeOK ==
  /\ at \in [Users -> {"off", "registering", "connecting", "idle", "lookup",
                       "answered", "saving"}]
  /\ job \in [Users -> Job]
  /\ answer \in [Users -> PublicKeys \cup {NoKey}]
  /\ contacts \in [Users -> Contacts]
  /\ file \in [Users -> File]
  /\ key \in [Users -> 1 .. MaxKeys]
  /\ directory \in Contacts /\ Filed(directory)
  /\ \A u \in Users : Filed(contacts[u]) /\ Filed(file[u].contacts)
  /\ sent \in Seq(Message)
  /\ shown \subseteq 1 .. Len(sent)
  /\ rejected \subseteq 1 .. Len(sent)

\* A client refuses a message only if its sender or its recipient has changed
\* keys: with stable keys the keys that clients look up at different times,
\* keep in memory and reload from their files always match, and the sender of
\* a message is in the directory (main.rs:285-290).  A message that is dropped
\* because a lookup or a save failed is not refused.
RefusedOnlyAfterRekey == \A m \in rejected :
  \/ key[sent[m].from] > 1 \/ key[sent[m].to] > 1
  \/ sent[m].from \in OldRows

\* The key saved for a contact changes only when its owner adds it again.
PinsKept ==
  [][\A u, peer \in Users :
       contacts[u][peer] # NoKey /\ contacts'[u][peer] # contacts[u][peer] =>
         at'[u] = "off" \/ (job[u].task = "add" /\ job[u].peer = peer)]_vars

\* Between two saves the contacts file is the contact book in memory, so that
\* the next run of the client starts with the same contacts.  Assumes that no
\* save fails.
BookIsSaved == \A u \in Users :
  at[u] \notin {"off", "saving"} => file[u] = Complete(contacts[u])

\* What the file says of a contact is what the book in memory says, also after
\* saves that failed: the file of a running client may miss a contact, but it
\* never has a key that this run has replaced.  A client whose save fails in
\* /add ends, and may leave the old key behind.
FileFollowsBook == \A u, peer \in Users : at[u] \notin {"off", "saving"} =>
  file[u].contacts[peer] \in {contacts[u][peer], NoKey}

\* A message that a client has begun to open is shown, unless the client ends:
\* opening it never waits for its sender, and what it looks up in the meantime
\* is what the message was encrypted with.  Assumes that keys do not change and
\* that no lookup and no save fails.
OpenedIsShown == \A u \in Users, m \in 1 .. MaxMessages :
  (job[u].task = "receive" /\ job[u].message = m)
    ~> (m \in shown \/ at[u] = "off")

\* README.md: "The existing identities and contacts load automatically."  The
\* file that a client leaves behind can be loaded if it ever held a contact.
ContactsLoad == \A u \in Users :
  at[u] = "off" /\ file[u].contacts # NoContacts => file[u].state # "torn"

=============================================================================
