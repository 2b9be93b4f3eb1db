--------------------------- MODULE BrowserProofs ---------------------------
(***************************************************************************)
(* The safety of a page of the browser client, for every number of users,  *)
(* peers, keys, sockets, tasks, messages and failures.                     *)
(***************************************************************************)
EXTENDS BrowserSession, FiniteSetTheorems, WellFoundedInduction, TLAPS

USE BrowserAssumption DEF Sockets, Tasks, NoSocket, NoKey

(* The inductive invariant, in parts. *)

SessionTyped ==
  /\ username \in Names \cup {NoName}
  /\ contacts \in Book
  /\ stored \in [Names -> Book]
  /\ options \subseteq Peers

ConnectionTyped ==
  /\ socket \in Sockets \cup {NoSocket}
  /\ readyState \in [Sockets -> {"connecting", "open", "closing", "closed"}]
  /\ user \in [Sockets -> Names \cup {NoName}]
  /\ timers \subseteq Sockets
  /\ reconnectTimer \in Sockets \cup {NoSocket}

MailTyped ==
  /\ sent \subseteq Frame
  /\ inbox \in Seq(Message)
  /\ shown \subseteq (1 .. Len(inbox)) \X Names
  /\ refused \subseteq 1 .. Len(inbox)

CountsTyped ==
  /\ starts \in 0 .. MaxStarts
  /\ signIns \in Nat
  /\ startFailed \in BOOLEAN
  /\ failures \in 0 .. MaxFailures

\* A handler is in a stage of the code it runs.
Shaped(call) ==
  /\ call \in Task
  /\ call.op = "none" => call.stage = ""
  /\ call.stage = "registering" <=> call.op = "start"
  /\ call.stage = "encrypting" => call.op = "send" /\ call.user \in Names
  /\ call.stage = "decrypting" => call.op = "receive"
  /\ call.op \in {"add", "send", "receive"} => call.peer \in Peers

\* A reception is that of a message that arrived, by the identity of the moment.
Reception(call) == call.op = "receive" =>
  /\ call.number \in 1 .. Len(inbox)
  /\ call.peer = inbox[call.number].from
  /\ call.user = inbox[call.number].session

\* Handlers await something only on a page with a user.
TasksShaped == \A t \in Tasks :
  /\ Shaped(task[t])
  /\ Reception(task[t])
  /\ task[t].stage # "" => username \in Names

\* Sockets, timers and enabled controls exist only on a page with a user.
SocketsNamed ==
  /\ \A s \in Sockets : readyState[s] # "closed" => user[s] \in Names /\ username \in Names
  /\ socket # NoSocket \/ timers # {} \/ signIns > 0 => username \in Names

Bookkeeping == TypeOK /\ TasksShaped /\ SocketsNamed

\* A message that is encrypted since the last start is encrypted by the user who
\* pressed it.
SendersCurrent == \A t \in Tasks : task[t].op = "send" =>
  /\ task[t].number <= starts
  /\ task[t].stage = "encrypting" /\ task[t].number = starts => task[t].user = username

\* No key is saved, answered or received that its owner has not registered.
SavedKeys ==
  /\ \A p \in Peers : contacts[p] <= directory[p]
  /\ \A u \in Names, p \in Peers : stored[u][p] <= directory[p]

AnsweredKeys == \A t \in Tasks :
  task[t].stage = "answered" => task[t].key <= directory[task[t].peer]

ReceivedKeys == \A m \in 1 .. Len(inbox) : inbox[m].key <= directory[inbox[m].from]

KeysRegistered == SavedKeys /\ AnsweredKeys /\ ReceivedKeys

------------------------------------------------------------------------------
(* What the building blocks of the actions do. *)

\* A set of naturals has a lowest member.
LEMMA LowestIn ==
  ASSUME NEW S \in SUBSET Nat, S # {}
  PROVE  Lowest(S) \in S
<1>1. IsWellFoundedOn({ss \in Nat \X Nat : ss[1] < ss[2]}, Nat)
  BY NatLessThanWellFounded DEF OpToRel
<1>2. PICK R : /\ R = {ss \in Nat \X Nat : ss[1] < ss[2]}
               /\ IsWellFoundedOn(R, Nat)
  BY <1>1
<1>3. PICK n \in S : \A m \in S : ~(<<m, n>> \in R)
  BY <1>2, WFMin
<1>4. ASSUME NEW m \in S
      PROVE  n <= m
  <2>1. n \in Nat /\ m \in Nat
    OBVIOUS
  <2>2. m < n => <<m, n>> \in R
    BY <2>1, <1>2
  <2>3. ~(m < n)
    BY <2>2, <1>3
  <2>4. QED
    BY <2>1, <2>3
<1>5. QED
  BY <1>4 DEF Lowest

\* connectWebSocket closes the present socket, and one that was not in use is the
\* present one afterwards.
LEMMA Connecting ==
  ASSUME TypeOK, NEW pending \in SUBSET timers, ConnectWebSocket(pending)
  PROVE  \E new \in Unused :
           /\ socket' = new
           /\ readyState' =
                [s \in Sockets |-> IF s = new THEN "connecting" ELSE ClosedByPage(s)]
           /\ user' = [s \in Sockets |-> IF s = new THEN username
                         ELSE IF readyState[s] = "closed" THEN NoName ELSE user[s]]
           /\ timers' = pending \ {reconnectTimer}
           /\ reconnectTimer' = reconnectTimer
<1>1. Lowest(Unused) \in Unused
  BY LowestIn DEF Unused, ConnectWebSocket
<1>2. QED
  BY <1>1 DEF ConnectWebSocket, UrlName

\* A call takes the place of no other one.
LEMMA Beginning ==
  ASSUME TypeOK, NEW call, Begin(call)
  PROVE  \E t \in Tasks : task[t] = NoTask /\ task' = [task EXCEPT ![t] = call]
<1>1. Lowest(Free) \in Free
  BY LowestIn DEF Free, Begin
<1>2. QED
  BY <1>1 DEF Begin, Free

------------------------------------------------------------------------------
(* Types and bookkeeping. *)

\* Every step leaves the awaited calls alone, ends them all, or replaces one by a
\* call that has its shape.
TaskEffect ==
  \/ UNCHANGED <<task, username>>
  \/ task' = [t \in Tasks |-> NoTask]
  \/ \E t \in Tasks, call \in Task :
       /\ task' = [task EXCEPT ![t] = call]
       /\ Shaped(call)
       /\ Reception(call)'
       /\ username' \in Names

LEMMA Shapes ==
  ASSUME Bookkeeping, NEW t \in Tasks
  PROVE  /\ Shaped(task[t])
         /\ Reception(task[t])
         /\ task[t] \in Task
         /\ task[t].stage # "" => username \in Names
         /\ task[t] = [op |-> task[t].op, stage |-> task[t].stage, user |-> task[t].user,
                       peer |-> task[t].peer, key |-> task[t].key, number |-> task[t].number]
BY DEF Bookkeeping, TypeOK, TasksShaped, Task

LEMMA StageSet ==
  ASSUME NEW c \in Task, NEW stage
  PROVE  [c EXCEPT !.stage = stage] = Call(c.op, stage, c.user, c.peer, c.key, c.number)
<1>1. PICK op, st, u, p, key, number :
        c = [op |-> op, stage |-> st, user |-> u, peer |-> p, key |-> key, number |-> number]
  BY DEF Task
<1>2. QED
  BY <1>1 DEF Call

LEMMA NothingAwaited == Shaped(NoTask) /\ NoTask \in Task /\ Reception(NoTask)'
BY DEF Shaped, Reception, NoTask, Call, Task

LEMMA Ending ==
  ASSUME Bookkeeping, NEW t \in Tasks, End(t), task[t].stage # "",
         username' = username
  PROVE  TaskEffect
<1>1. username' \in Names
  BY Shapes
<1>2. QED
  BY <1>1, NothingAwaited DEF TaskEffect, End

LEMMA Begins ==
  ASSUME Bookkeeping, NEW call \in Task, Begin(call), Shaped(call), Reception(call)',
         username' \in Names
  PROVE  TaskEffect
BY Beginning DEF TaskEffect, Bookkeeping

\* An awaited call that only gets on to a next stage.
LEMMA Proceeding ==
  ASSUME Bookkeeping, NEW t \in Tasks, task[t].stage # "", NEW call \in Task,
         task' = [task EXCEPT ![t] = call],
         Shaped(call),
         call.op = "receive" => /\ task[t].op = "receive"
                                /\ call.peer = task[t].peer
                                /\ call.user = task[t].user
                                /\ call.number = task[t].number,
         UNCHANGED <<inbox, username>>
  PROVE  TaskEffect
<1>1. username' \in Names
  BY Shapes
<1>2. Reception(call)'
  BY Shapes DEF Reception
<1>3. QED
  BY <1>1, <1>2 DEF TaskEffect

LEMMA TaskEffects ==
  ASSUME Bookkeeping, Next
  PROVE  TaskEffect
<1> USE DEF session, connection, mail, counts
<1>1. ASSUME NEW u \in Names, Start(u)
      PROVE  TaskEffect
  <2> DEFINE call == Call("start", "registering", u, NoPeer, NoKey, 0)
  <2>1. call \in Task /\ Shaped(call) /\ Reception(call)'
    BY DEF Call, Task, Shaped, Reception
  <2>2. Begin(call) /\ username' \in Names
    BY <1>1 DEF Start
  <2> HIDE DEF call
  <2>3. QED
    BY <2>1, <2>2, Begins
<1>2. ASSUME NEW p \in Peers, AddContactFromInput(p)
      PROVE  TaskEffect
  <2> DEFINE call == Call("add", "lookup", NoName, p, NoKey, 0)
  <2>1. call \in Task /\ Shaped(call) /\ Reception(call)'
    BY DEF Call, Task, Shaped, Reception
  <2>2. Begin(call) /\ username' \in Names
    BY <1>2 DEF AddContactFromInput, Bookkeeping, SocketsNamed
  <2> HIDE DEF call
  <2>3. QED
    BY <2>1, <2>2, Begins
<1>3. ASSUME NEW p \in Peers, SendCurrentMessage(p)
      PROVE  TaskEffect
  <2>1. username \in Names /\ username' = username
    BY <1>3 DEF SendCurrentMessage, Bookkeeping, SocketsNamed
  <2>2. contacts[p] \in 0 .. MaxKeys /\ starts \in Nat
    BY DEF Bookkeeping, TypeOK, Book
  <2>3. PICK call \in Task : Begin(call) /\ Shaped(call) /\ call.op = "send"
    <3>1. CASE contacts[p] # NoKey
      <4> DEFINE call == Call("send", "encrypting", username, p, contacts[p], starts)
      <4>1. call \in Task /\ Shaped(call) /\ call.op = "send"
        BY <2>1, <2>2 DEF Call, Task, Shaped
      <4>2. Begin(call)
        BY <1>3, <3>1 DEF SendCurrentMessage
      <4> QED BY <4>1, <4>2
    <3>2. CASE contacts[p] = NoKey
      <4> DEFINE call == Call("send", "lookup", NoName, p, NoKey, 0)
      <4>1. call \in Task /\ Shaped(call) /\ call.op = "send"
        BY DEF Call, Task, Shaped
      <4>2. Begin(call)
        BY <1>3, <3>2 DEF SendCurrentMessage
      <4> QED BY <4>1, <4>2
    <3>3. QED
      BY <3>1, <3>2
  <2>4. Reception(call)'
    BY <2>3 DEF Reception
  <2>5. QED
    BY <2>1, <2>3, <2>4, Begins
<1>4. ASSUME NEW s \in Sockets, NEW p \in Peers, NEW key \in 1 .. MaxKeys,
             ReceiveEncryptedBytes(s, p, key)
      PROVE  TaskEffect
  <2>1. user[s] \in Names /\ username \in Names /\ username' = username
    BY <1>4 DEF ReceiveEncryptedBytes, Bookkeeping, SocketsNamed
  <2>2. inbox \in Seq(Message)
    BY DEF Bookkeeping, TypeOK
  <2>3. PICK n \in Nat : n = Len(inbox) + 1
    BY <2>2
  <2>4. PICK call : call = Call("receive", "decrypting", username, p, NoKey, n)
    OBVIOUS
  <2>5. call \in Task /\ Shaped(call)
    BY <2>1, <2>4 DEF Call, Task, Shaped
  <2>6. Reception(call)'
    BY <1>4, <2>2, <2>3, <2>4 DEF ReceiveEncryptedBytes, Reception, Call
  <2>7. Begin(call)
    BY <1>4, <2>3, <2>4 DEF ReceiveEncryptedBytes
  <2>8. QED
    BY <2>1, <2>5, <2>6, <2>7, Begins
<1>5. ASSUME NEW t \in Tasks, SignedIn(t) \/ StartFails(t) \/ LookupEnds(t)
      PROVE  TaskEffect
  BY <1>5, Ending DEF SignedIn, StartFails, LookupEnds
<1>6. ASSUME NEW t \in Tasks, AddContact(t) \/ Encrypted(t) \/ FoundSender(t)
      PROVE  TaskEffect
  BY <1>6, Ending DEF AddContact, AddEntry, Encrypted, FoundSender
<1>7. ASSUME NEW t \in Tasks, LookupPublicKey(t)
      PROVE  TaskEffect
  <2>1. directory[task[t].peer] \in 0 .. MaxKeys
    <3>1. directory \in [Peers -> 0 .. MaxKeys]
      BY DEF Bookkeeping, TypeOK, Book
    <3>2. task[t].peer \in Peers
      BY <1>7, Shapes DEF LookupPublicKey, Shaped, Task
    <3>3. QED
      BY <3>1, <3>2
  <2>2. PICK call \in Task : call = Call(task[t].op, "answered", task[t].user,
                   task[t].peer, directory[task[t].peer], task[t].number)
    BY <2>1, Shapes DEF Call, Task
  <2>3. task' = [task EXCEPT ![t] = call]
    BY <1>7, <2>2, Shapes DEF LookupPublicKey
  <2>4. Shaped(call)
    BY <1>7, <2>2, Shapes DEF LookupPublicKey, Call, Shaped
  <2>5. QED
    BY <1>7, <2>2, <2>3, <2>4, Proceeding DEF LookupPublicKey, Call
<1>8. ASSUME NEW t \in Tasks, FoundRecipient(t)
      PROVE  TaskEffect
  <2>1. username \in Names /\ starts \in Nat
    <3>1. username \in Names
      BY <1>8, Shapes DEF FoundRecipient, AddEntry
    <3>2. starts \in Nat
      BY DEF Bookkeeping, TypeOK
    <3>3. QED
      BY <3>1, <3>2
  <2>2. PICK call \in Task : call = Call("send", "encrypting", username,
                   task[t].peer, task[t].key, starts)
    BY <2>1, Shapes DEF Call, Task
  <2>3. task' = [task EXCEPT ![t] = call]
    BY <1>8, <2>2, Shapes DEF FoundRecipient
  <2>4. Shaped(call)
    BY <1>8, <2>1, <2>2, Shapes DEF FoundRecipient, Call, Shaped
  <2>5. QED
    BY <1>8, <2>2, <2>3, <2>4, Proceeding DEF FoundRecipient, AddEntry, Call
<1>9. ASSUME NEW t \in Tasks, Decrypted(t)
      PROVE  TaskEffect
  <2>1. CASE End(t)
    BY <1>9, <2>1, Ending DEF Decrypted
  <2>2. CASE task' = [task EXCEPT ![t].stage = "lookup"]
    <3>1. PICK call \in Task : call = Call(task[t].op, "lookup", task[t].user,
                     task[t].peer, task[t].key, task[t].number)
      BY Shapes DEF Call, Task
    <3>2. task' = [task EXCEPT ![t] = call]
      BY <2>2, <3>1, Shapes, StageSet
    <3>3. Shaped(call)
      BY <1>9, <3>1, Shapes DEF Decrypted, Call, Shaped
    <3>4. QED
      BY <1>9, <3>1, <3>2, <3>3, Proceeding DEF Decrypted, Call
  <2>3. QED
    BY <1>9, <2>1, <2>2 DEF Decrypted
<1>10. ASSUME NEW s \in Sockets,
              SocketOpens(s) \/ PeerCloses(s) \/ SocketCloses(s) \/ TimerFires(s)
       PROVE  TaskEffect
  BY <1>10 DEF SocketOpens, PeerCloses, SocketCloses, TimerFires, TaskEffect
<1>11. ASSUME NEW p \in Peers, PeerRegisters(p)
       PROVE  TaskEffect
  BY <1>11 DEF PeerRegisters, TaskEffect
<1>12. CASE Reload
  BY <1>12 DEF Reload, TaskEffect
<1>13. QED
  BY <1>1, <1>2, <1>3, <1>4, <1>5, <1>6, <1>7, <1>8, <1>9, <1>10, <1>11, <1>12
     DEF Next, Resume

\* Messages only arrive.
LEMMA InboxGrows ==
  ASSUME Bookkeeping, Next
  PROVE  \/ inbox' = inbox
         \/ \E m \in Message : inbox' = Append(inbox, m)
<1> USE DEF session, connection, mail, counts
<1>1. ASSUME NEW s \in Sockets, NEW p \in Peers, NEW key \in 1 .. MaxKeys,
             ReceiveEncryptedBytes(s, p, key)
      PROVE  \E m \in Message : inbox' = Append(inbox, m)
  <2>1. user[s] \in Names /\ username \in Names
    BY <1>1 DEF ReceiveEncryptedBytes, Bookkeeping, SocketsNamed
  <2>2. QED
    BY <1>1, <2>1 DEF ReceiveEncryptedBytes, Message
<1>2. \/ inbox' = inbox
      \/ \E s \in Sockets, p \in Peers, key \in 1 .. MaxKeys : ReceiveEncryptedBytes(s, p, key)
  BY DEF Next, Resume, Start, AddContactFromInput, SendCurrentMessage, PeerRegisters,
         SocketOpens, PeerCloses, SocketCloses, TimerFires, Reload, SignedIn, StartFails,
         LookupPublicKey, LookupEnds, AddContact, FoundRecipient, Encrypted, Decrypted,
         FoundSender
<1>3. QED
  BY <1>1, <1>2

LEMMA TasksPreserved ==
  ASSUME Bookkeeping, Next
  PROVE  task' \in [Tasks -> Task] /\ TasksShaped'
<1> SUFFICES /\ task' \in [Tasks -> Task]
             /\ \A t \in Tasks : /\ Shaped(task'[t])
                                 /\ Reception(task[t])'
                                 /\ task'[t].stage # "" => username' \in Names
  BY DEF TasksShaped, Shaped
<1>1. task \in [Tasks -> Task]
  BY DEF Bookkeeping, TypeOK
<1>2. ASSUME NEW t \in Tasks, NEW call, call = task[t]
      PROVE  Reception(call)'
  <2>1. inbox \in Seq(Message) /\ Reception(task[t])
    BY Shapes DEF Bookkeeping, TypeOK
  <2>2. CASE inbox' = inbox
    BY <1>2, <2>1, <2>2 DEF Reception
  <2>3. ASSUME NEW m \in Message, inbox' = Append(inbox, m)
        PROVE  Reception(call)'
    BY <1>2, <2>1, <2>3 DEF Reception
  <2>4. QED
    BY <2>2, <2>3, InboxGrows
<1>3. CASE UNCHANGED <<task, username>>
  BY <1>1, <1>2, <1>3, Shapes
<1>4. CASE task' = [t \in Tasks |-> NoTask]
  <2>1. \A t \in Tasks : task'[t] = NoTask
    BY <1>4
  <2>2. NoTask.op = "none" /\ NoTask.stage = ""
    BY DEF NoTask, Call
  <2>3. ASSUME NEW t \in Tasks
        PROVE  Reception(task[t])'
    <3>1. task'[t].op = "none"
      BY <2>1, <2>2
    <3>2. QED
      BY <3>1 DEF Reception
  <2>4. QED
    BY <1>4, <2>1, <2>2, <2>3, NothingAwaited
<1>5. ASSUME NEW t \in Tasks, NEW call \in Task, task' = [task EXCEPT ![t] = call],
             Shaped(call), Reception(call)', username' \in Names
      PROVE  /\ task' \in [Tasks -> Task]
             /\ \A n \in Tasks : /\ Shaped(task'[n])
                                 /\ Reception(task[n])'
                                 /\ task'[n].stage # "" => username' \in Names
  <2>1. task' \in [Tasks -> Task]
    BY <1>1, <1>5
  <2>2. ASSUME NEW n \in Tasks
        PROVE  Shaped(task'[n]) /\ Reception(task[n])'
    <3>1. CASE n = t
      BY <1>1, <1>5, <3>1 DEF Reception
    <3>2. CASE n # t
      <4>1. task'[n] = task[n]
        BY <1>1, <1>5, <3>2
      <4>2. PICK c : c = task[n]
        OBVIOUS
      <4>3. Reception(c)'
        BY <1>2, <4>2
      <4>4. QED
        BY <4>1, <4>2, <4>3, Shapes DEF Reception
    <3>3. QED
      BY <3>1, <3>2
  <2>3. QED
    BY <1>5, <2>1, <2>2
<1>6. QED
  BY <1>3, <1>4, <1>5, TaskEffects DEF TaskEffect

\* An entry is added to the contacts of a user who is there.
LEMMA EntryAdded ==
  ASSUME Bookkeeping, NEW t \in Tasks, AddEntry(t), task[t].op # "none"
  PROVE  /\ username \in Names /\ username' = username
         /\ task[t].peer \in Peers /\ task[t].key \in 1 .. MaxKeys
         /\ contacts' = [contacts EXCEPT ![task[t].peer] = task[t].key]
         /\ contacts' \in Book
         /\ stored' = [stored EXCEPT ![username] = contacts']
         /\ options' = Known(contacts')
<1>1. username \in Names /\ username' = username
  BY Shapes DEF AddEntry
<1>2. task[t].peer \in Peers
  BY Shapes DEF AddEntry, Shaped, Task
<1>3. task[t].key \in 1 .. MaxKeys
  <2>1. task[t].key \in 0 .. MaxKeys
    BY Shapes DEF Task
  <2>2. QED
    BY <2>1 DEF AddEntry
<1>4. contacts \in [Peers -> 0 .. MaxKeys]
  BY DEF Bookkeeping, TypeOK, Book
<1>5. QED
  BY <1>1, <1>2, <1>3, <1>4 DEF AddEntry, Book

LEMMA SessionPreserved ==
  ASSUME Bookkeeping, Next
  PROVE  SessionTyped'
<1> USE DEF session, connection, mail, counts
<1>1. SessionTyped
  BY DEF Bookkeeping, TypeOK, SessionTyped
<1>2. ASSUME NEW u \in Names, Start(u)
      PROVE  SessionTyped'
  BY <1>1, <1>2 DEF Start, LoadContacts, SessionTyped
<1>3. ASSUME NEW t \in Tasks, SignedIn(t)
      PROVE  SessionTyped'
  BY <1>1, <1>3 DEF SignedIn, Known, SessionTyped
<1>4. ASSUME NEW t \in Tasks, AddEntry(t), task[t].op # "none"
      PROVE  SessionTyped'
  <2>1. /\ username \in Names /\ username' = username
        /\ contacts' \in Book
        /\ stored' = [stored EXCEPT ![username] = contacts']
        /\ options' = Known(contacts')
    BY EntryAdded, <1>4
  <2>2. stored' \in [Names -> Book]
    BY <1>1, <2>1 DEF SessionTyped
  <2>3. QED
    BY <1>1, <2>1, <2>2 DEF Known, SessionTyped
<1>5. CASE Reload
  BY <1>1, <1>5 DEF Reload, NoContacts, Book, SessionTyped
<1>6. ASSUME NEW t \in Tasks, AddContact(t) \/ FoundRecipient(t) \/ FoundSender(t)
      PROVE  SessionTyped'
  BY <1>4, <1>6 DEF AddContact, FoundRecipient, FoundSender
<1>7. CASE UNCHANGED session
  BY <1>1, <1>7 DEF SessionTyped
<1>8. \/ UNCHANGED session
      \/ \E u \in Names : Start(u)
      \/ \E t \in Tasks : SignedIn(t) \/ AddContact(t) \/ FoundRecipient(t) \/ FoundSender(t)
      \/ Reload
  BY DEF Next, Resume, AddContactFromInput, SendCurrentMessage, PeerRegisters,
         SocketOpens, PeerCloses, SocketCloses, TimerFires, StartFails, LookupPublicKey,
         LookupEnds, Encrypted, Decrypted, ReceiveEncryptedBytes
<1>9. QED
  BY <1>2, <1>3, <1>5, <1>6, <1>7, <1>8

\* The steps that change the sockets.
LEMMA ConnectionSteps ==
  ASSUME Next
  PROVE  \/ /\ UNCHANGED <<connection, signIns>>
            /\ username' = username \/ username' \in Names
         \/ \E s \in Sockets :
              SocketOpens(s) \/ PeerCloses(s) \/ SocketCloses(s) \/ TimerFires(s)
         \/ \E t \in Tasks : SignedIn(t)
         \/ Reload
BY DEF Next, Resume, Start, AddContactFromInput, SendCurrentMessage, PeerRegisters,
       StartFails, LookupPublicKey, LookupEnds, AddContact, FoundRecipient, FoundSender,
       AddEntry, Encrypted, Decrypted, ReceiveEncryptedBytes, session, connection, counts

LEMMA ConnectionPreserved ==
  ASSUME Bookkeeping, Next
  PROVE  ConnectionTyped' /\ SocketsNamed'
<1> USE DEF session, connection, mail, counts
<1>1. ConnectionTyped /\ SocketsNamed /\ signIns \in Nat
  BY DEF Bookkeeping, TypeOK, ConnectionTyped
<1>2. ASSUME NEW s \in Sockets, SocketOpens(s) \/ PeerCloses(s)
      PROVE  ConnectionTyped' /\ SocketsNamed'
  BY <1>1, <1>2 DEF SocketOpens, PeerCloses, ConnectionTyped, SocketsNamed
<1>3. ASSUME NEW s \in Sockets, SocketCloses(s)
      PROVE  ConnectionTyped' /\ SocketsNamed'
  BY <1>1, <1>3 DEF SocketCloses, Schedules, ConnectionTyped, SocketsNamed
<1>4. ASSUME NEW pending \in SUBSET timers, ConnectWebSocket(pending), username \in Names,
             username' = username
      PROVE  ConnectionTyped' /\ SocketsNamed'
  <2>1. PICK new \in Unused :
           /\ socket' = new
           /\ readyState' =
                [s \in Sockets |-> IF s = new THEN "connecting" ELSE ClosedByPage(s)]
           /\ user' = [s \in Sockets |-> IF s = new THEN username
                         ELSE IF readyState[s] = "closed" THEN NoName ELSE user[s]]
           /\ timers' = pending \ {reconnectTimer}
           /\ reconnectTimer' = reconnectTimer
    BY <1>4, Connecting DEF Bookkeeping
  <2>2. new \in Sockets
    BY DEF Unused
  <2>3. ConnectionTyped'
    BY <1>1, <1>4, <2>1, <2>2 DEF ConnectionTyped, ClosedByPage
  <2>4. SocketsNamed'
    BY <1>1, <1>4, <2>1, <2>2 DEF ConnectionTyped, SocketsNamed, ClosedByPage, Live
  <2>5. QED
    BY <2>3, <2>4
<1>5. ASSUME NEW s \in Sockets, TimerFires(s)
      PROVE  ConnectionTyped' /\ SocketsNamed'
  BY <1>1, <1>4, <1>5 DEF TimerFires, SocketsNamed
<1>6. ASSUME NEW t \in Tasks, SignedIn(t)
      PROVE  ConnectionTyped' /\ SocketsNamed'
  BY <1>4, <1>6, Shapes DEF SignedIn
<1>7. CASE Reload
  BY <1>7 DEF Reload, ConnectionTyped, SocketsNamed
<1>8. CASE UNCHANGED <<connection, signIns>> /\ (username' = username \/ username' \in Names)
  BY <1>1, <1>8 DEF ConnectionTyped, SocketsNamed
<1>9. QED
  BY <1>2, <1>3, <1>5, <1>6, <1>7, <1>8, ConnectionSteps

LEMMA MailPreserved ==
  ASSUME Bookkeeping, Next
  PROVE  MailTyped'
<1> USE DEF session, connection, mail, counts
<1>1. MailTyped
  BY DEF Bookkeeping, TypeOK, MailTyped
<1>2. ASSUME NEW m \in Message, inbox' = Append(inbox, m), UNCHANGED <<sent, shown, refused>>
      PROVE  MailTyped'
  BY <1>1, <1>2 DEF MailTyped
<1>3. ASSUME NEW t \in Tasks, Encrypted(t)
      PROVE  MailTyped'
  <2>1. username \in Names /\ task[t].user \in Names
    BY <1>3, Shapes DEF Encrypted, Shaped
  <2>2. ASSUME socket # NoSocket, readyState[socket] = "open"
        PROVE  SentFrame(t) \in Frame
    <3>1. user[socket] \in Names
      BY <2>2 DEF Bookkeeping, TypeOK, SocketsNamed
    <3>2. QED
      BY <2>1, <3>1 DEF SentFrame, SealedAs, Frame
  <2>3. QED
    BY <1>1, <1>3, <2>2 DEF Encrypted, MailTyped
<1>4. ASSUME NEW m \in 1 .. Len(inbox), NEW key,
             \/ Refuse(m) \/ (Open(m, key) /\ username \in Names)
             \/ UNCHANGED <<shown, refused>>,
             UNCHANGED <<sent, inbox>>
      PROVE  MailTyped'
  <2>1. CASE Refuse(m)
    BY <1>1, <1>4, <2>1 DEF MailTyped, Refuse
  <2>2. CASE shown' = shown \cup {<<m, username>>} /\ refused' = refused /\ username \in Names
    BY <1>1, <1>4, <2>2 DEF MailTyped
  <2>3. CASE UNCHANGED <<shown, refused>>
    BY <1>1, <1>4, <2>3 DEF MailTyped
  <2>4. QED
    BY <1>4, <2>1, <2>2, <2>3 DEF Open
<1>5. ASSUME NEW t \in Tasks, Decrypted(t)
      PROVE  MailTyped'
  <2>1. PICK m \in 1 .. Len(inbox) : m = task[t].number
    BY <1>5, Shapes DEF Decrypted, Shaped, Reception
  <2>2. username \in Names
    BY <1>5, Shapes DEF Decrypted
  <2>3. \/ Refuse(m) \/ Open(m, contacts[task[t].peer])
        \/ UNCHANGED <<shown, refused>>
    BY <1>5, <2>1 DEF Decrypted
  <2>4. UNCHANGED <<sent, inbox>>
    BY <1>5 DEF Decrypted
  <2>5. QED
    BY <1>4, <2>2, <2>3, <2>4
<1>6. ASSUME NEW t \in Tasks, FoundSender(t)
      PROVE  MailTyped'
  <2>1. PICK m \in 1 .. Len(inbox) : m = task[t].number
    BY <1>6, Shapes DEF FoundSender, Reception
  <2>2. username \in Names
    BY <1>6, Shapes DEF FoundSender, AddEntry
  <2>3. QED
    BY <1>4, <1>6, <2>1, <2>2 DEF FoundSender
<1>7. CASE UNCHANGED mail
  BY <1>1, <1>7 DEF MailTyped
<1>8. \/ UNCHANGED mail
      \/ UNCHANGED <<sent, shown, refused>> /\ inbox' # inbox
      \/ \E t \in Tasks : Encrypted(t) \/ Decrypted(t) \/ FoundSender(t)
  BY DEF Next, Resume, Start, AddContactFromInput, SendCurrentMessage, PeerRegisters,
         SocketOpens, PeerCloses, SocketCloses, TimerFires, Reload, SignedIn, StartFails,
         LookupPublicKey, LookupEnds, AddContact, FoundRecipient, ReceiveEncryptedBytes
<1>9. QED
  BY <1>2, <1>3, <1>5, <1>6, <1>7, <1>8, InboxGrows

LEMMA CountsPreserved ==
  ASSUME Bookkeeping, Next
  PROVE  CountsTyped' /\ directory' \in Book
<1> USE DEF session, connection, mail, counts
<1>1. CountsTyped /\ directory \in Book
  BY DEF Bookkeeping, TypeOK, CountsTyped
<1>2. ASSUME NEW p \in Peers, PeerRegisters(p)
      PROVE  CountsTyped' /\ directory' \in Book
  BY <1>1, <1>2 DEF PeerRegisters, CountsTyped, Book
<1>3. ASSUME NEW u \in Names, Start(u)
      PROVE  CountsTyped' /\ directory' \in Book
  BY <1>1, <1>3 DEF Start, CountsTyped
<1>4. ASSUME NEW t \in Tasks, SignedIn(t) \/ StartFails(t) \/ LookupEnds(t)
      PROVE  CountsTyped' /\ directory' \in Book
  <2>1. CASE SignedIn(t)
    BY <1>1, <2>1 DEF SignedIn, CountsTyped
  <2>2. CASE StartFails(t)
    BY <1>1, <2>2 DEF StartFails, Fails, CountsTyped
  <2>3. CASE LookupEnds(t)
    BY <1>1, <2>3 DEF LookupEnds, Fails, CountsTyped
  <2>4. QED
    BY <1>4, <2>1, <2>2, <2>3
<1>5. ASSUME NEW s \in Sockets, PeerCloses(s) \/ SocketCloses(s)
      PROVE  CountsTyped' /\ directory' \in Book
  BY <1>1, <1>5 DEF PeerCloses, SocketCloses, Fails, CountsTyped
<1>6. CASE Reload
  BY <1>1, <1>6 DEF Reload, CountsTyped
<1>7. CASE UNCHANGED <<directory, counts>>
  BY <1>1, <1>7 DEF CountsTyped
<1>8. \/ UNCHANGED <<directory, counts>>
      \/ \E p \in Peers : PeerRegisters(p)
      \/ \E u \in Names : Start(u)
      \/ \E t \in Tasks : SignedIn(t) \/ StartFails(t) \/ LookupEnds(t)
      \/ \E s \in Sockets : PeerCloses(s) \/ SocketCloses(s)
      \/ Reload
  BY DEF Next, Resume, AddContactFromInput, SendCurrentMessage, SocketOpens, TimerFires,
         LookupPublicKey, AddContact, FoundRecipient, Encrypted, Decrypted, FoundSender,
         ReceiveEncryptedBytes
<1>9. QED
  BY <1>2, <1>3, <1>4, <1>5, <1>6, <1>7, <1>8

LEMMA BookkeepingInvariant == Spec => []Bookkeeping
<1>1. Init => Bookkeeping
  <2> SUFFICES ASSUME Init
               PROVE  Bookkeeping
    OBVIOUS
  <2>1. NoTask \in Task /\ NoContacts \in Book
    BY NothingAwaited DEF NoContacts, Book
  <2>2. TypeOK
    <3>1. SessionTyped
      BY <2>1 DEF Init, SessionTyped
    <3>2. ConnectionTyped
      BY DEF Init, ConnectionTyped
    <3>3. MailTyped
      BY DEF Init, MailTyped
    <3>4. CountsTyped
      <4>1. startFailed \in BOOLEAN
        BY Zenon DEF Init
      <4>2. QED
        BY <4>1 DEF Init, CountsTyped
    <3>5. task \in [Tasks -> Task] /\ directory \in Book
      BY <2>1 DEF Init
    <3>6. QED
      BY <3>1, <3>2, <3>3, <3>4, <3>5
         DEF TypeOK, SessionTyped, ConnectionTyped, MailTyped, CountsTyped
  <2>3. TasksShaped
    <3>1. Shaped(NoTask) /\ NoTask.op = "none" /\ NoTask.stage = ""
      BY NothingAwaited DEF NoTask, Call
    <3>2. QED
      BY <3>1 DEF Init, TasksShaped, Reception
  <2>4. SocketsNamed
    BY DEF Init, SocketsNamed
  <2>5. QED
    BY <2>2, <2>3, <2>4 DEF Bookkeeping
<1>2. ASSUME Bookkeeping, Next
      PROVE  Bookkeeping'
  <2>1. TypeOK'
    BY <1>2, TasksPreserved, SessionPreserved, ConnectionPreserved, MailPreserved,
       CountsPreserved
       DEF TypeOK, SessionTyped, ConnectionTyped, MailTyped, CountsTyped
  <2>2. QED
    BY <1>2, <2>1, TasksPreserved, ConnectionPreserved DEF Bookkeeping
<1>3. ASSUME Bookkeeping, UNCHANGED vars
      PROVE  Bookkeeping'
  BY <1>3 DEF vars, session, connection, mail, counts, Bookkeeping, TypeOK, TasksShaped,
              Reception, SocketsNamed
<1>4. QED
  BY <1>1, <1>2, <1>3, PTL DEF Spec

\* Every variable has its type: in particular what is sent, received and shown
\* always has a user of this browser, although handlers read the page's state
\* after their awaits.
THEOREM TypeCorrect == Spec => []TypeOK
BY BookkeepingInvariant, PTL DEF Bookkeeping

------------------------------------------------------------------------------
(* The sockets. *)

\* However often start is pressed and reconnections overlap, only the newest
\* socket connects or is open: connectWebSocket closes the one before.
THEOREM OneSocketCorrect == Spec => []OneSocket
<1> USE DEF session, connection, mail, counts
<1>1. Init => OneSocket
  BY DEF Init, OneSocket, Live
<1>2. ASSUME Bookkeeping, OneSocket, Next
      PROVE  OneSocket'
  <2>1. TypeOK
    BY <1>2 DEF Bookkeeping
  <2>2. ASSUME NEW pending \in SUBSET timers, ConnectWebSocket(pending)
        PROVE  OneSocket'
    BY <1>2, <2>1, <2>2, Connecting DEF OneSocket, Live, ClosedByPage
  <2>3. ASSUME NEW s \in Sockets,
               SocketOpens(s) \/ PeerCloses(s) \/ SocketCloses(s) \/ TimerFires(s)
        PROVE  OneSocket'
    BY <1>2, <2>1, <2>2, <2>3
       DEF SocketOpens, PeerCloses, SocketCloses, TimerFires, OneSocket, Live, TypeOK
  <2>4. ASSUME NEW t \in Tasks, SignedIn(t)
        PROVE  OneSocket'
    BY <2>2, <2>4 DEF SignedIn
  <2>5. CASE Reload
    BY <2>5 DEF Reload, OneSocket, Live
  <2>6. CASE UNCHANGED connection
    BY <1>2, <2>6 DEF OneSocket, Live
  <2>7. QED
    BY <1>2, <2>3, <2>4, <2>5, <2>6, ConnectionSteps
<1>3. ASSUME OneSocket, UNCHANGED vars
      PROVE  OneSocket'
  BY <1>3 DEF vars, OneSocket, Live
<1>4. QED
  BY <1>1, <1>2, <1>3, BookkeepingInvariant, PTL DEF Spec

\* Whoever signed in last, while no start is awaited or has failed, is the user of
\* the socket: every path to a socket uses the URL that start has set.
THEOREM SocketFollowsUserCorrect == Spec => []SocketFollowsUser
<1> USE DEF session, connection, mail, counts
<1>1. Init => SocketFollowsUser
  BY DEF Init, SocketFollowsUser
<1>2. ASSUME Bookkeeping, SocketFollowsUser, Next
      PROVE  SocketFollowsUser'
  <2>1. TypeOK
    BY <1>2 DEF Bookkeeping
  <2>2. ASSUME NEW pending \in SUBSET timers, ConnectWebSocket(pending), username' = username
        PROVE  SocketFollowsUser'
    <3>1. PICK new \in Unused :
             /\ socket' = new
             /\ user' = [s \in Sockets |-> IF s = new THEN username
                           ELSE IF readyState[s] = "closed" THEN NoName ELSE user[s]]
      BY <2>1, <2>2, Connecting
    <3>2. new \in Sockets
      BY DEF Unused
    <3>3. QED
      BY <2>2, <3>1, <3>2 DEF SocketFollowsUser
  <2>3. ASSUME NEW s \in Sockets, TimerFires(s)
        PROVE  SocketFollowsUser'
    BY <2>2, <2>3 DEF TimerFires
  <2>4. ASSUME NEW t \in Tasks, SignedIn(t)
        PROVE  SocketFollowsUser'
    BY <2>2, <2>4 DEF SignedIn
  <2>5. ASSUME NEW u \in Names, Start(u)
        PROVE  StartPending'
    <3>1. PICK t \in Tasks :
            task' = [task EXCEPT ![t] = Call("start", "registering", u, NoPeer, NoKey, 0)]
      BY <2>1, <2>5, Beginning DEF Start
    <3>2. task'[t].op = "start"
      BY <2>1, <3>1 DEF TypeOK, Call
    <3>3. QED
      BY <3>2 DEF StartPending
  <2>6. CASE Reload \/ (\E t \in Tasks : StartFails(t))
    BY <2>6 DEF Reload, StartFails, SocketFollowsUser
  <2>7. ASSUME UNCHANGED <<socket, user, username, startFailed>>, StartPending => StartPending'
        PROVE  SocketFollowsUser'
    BY <1>2, <2>7 DEF SocketFollowsUser
  <2>8. ASSUME UNCHANGED task
        PROVE  StartPending => StartPending'
    BY <2>8 DEF StartPending
  <2>9. ASSUME NEW t \in Tasks, task[t].op # "start",
               \E call : task' = [task EXCEPT ![t] = call]
        PROVE  StartPending => StartPending'
    BY <2>1, <2>9 DEF StartPending, TypeOK
  <2>10. ASSUME NEW t \in Tasks,
                \/ LookupPublicKey(t) \/ LookupEnds(t) \/ AddContact(t) \/ FoundRecipient(t)
                \/ Encrypted(t) \/ Decrypted(t) \/ FoundSender(t)
         PROVE  SocketFollowsUser'
    <3>1. task[t].op # "start"
      BY <1>2, <2>10, Shapes
         DEF LookupPublicKey, LookupEnds, AddContact, FoundRecipient, Encrypted, Decrypted,
             FoundSender, AddEntry, Shaped
    <3>2. \E call : task' = [task EXCEPT ![t] = call]
      BY <2>10 DEF LookupPublicKey, LookupEnds, AddContact, FoundRecipient, Encrypted, Decrypted,
                   FoundSender, End
    <3>3. UNCHANGED <<socket, user, username, startFailed>>
      BY <2>10 DEF LookupPublicKey, LookupEnds, AddContact, FoundRecipient, Encrypted, Decrypted,
                   FoundSender, AddEntry
    <3>4. QED
      BY <2>7, <2>9, <3>1, <3>2, <3>3
  <2>11. ASSUME NEW call, Begin(call)
         PROVE  StartPending => StartPending'
    <3>1. PICK t \in Tasks : task[t] = NoTask /\ task' = [task EXCEPT ![t] = call]
      BY <2>1, <2>11, Beginning
    <3>2. task[t].op # "start"
      <4>1. NoTask.op = "none"
        BY DEF NoTask, Call
      <4>2. QED
        BY <3>1, <4>1
    <3>3. QED
      BY <2>9, <3>1, <3>2
  <2>12. ASSUME NEW p \in Peers, AddContactFromInput(p) \/ SendCurrentMessage(p)
         PROVE  SocketFollowsUser'
    BY <2>7, <2>11, <2>12 DEF AddContactFromInput, SendCurrentMessage
  <2>13. ASSUME NEW s \in Sockets, NEW p \in Peers, NEW key \in 1 .. MaxKeys,
                ReceiveEncryptedBytes(s, p, key)
         PROVE  SocketFollowsUser'
    BY <2>7, <2>11, <2>13 DEF ReceiveEncryptedBytes
  <2>14. ASSUME NEW s \in Sockets, SocketOpens(s) \/ PeerCloses(s) \/ SocketCloses(s)
         PROVE  SocketFollowsUser'
    BY <2>7, <2>8, <2>14 DEF SocketOpens, PeerCloses, SocketCloses
  <2>15. ASSUME NEW p \in Peers, PeerRegisters(p)
         PROVE  SocketFollowsUser'
    BY <2>7, <2>8, <2>15 DEF PeerRegisters
  <2>16. StartPending' => SocketFollowsUser'
    BY DEF SocketFollowsUser
  <2>17. QED
    BY <1>2, <2>3, <2>4, <2>5, <2>6, <2>10, <2>12, <2>13, <2>14, <2>15, <2>16
       DEF Next, Resume
<1>3. ASSUME SocketFollowsUser, UNCHANGED vars
      PROVE  SocketFollowsUser'
  BY <1>3 DEF vars, SocketFollowsUser, StartPending
<1>4. QED
  BY <1>1, <1>2, <1>3, BookkeepingInvariant, PTL DEF Spec

------------------------------------------------------------------------------
(* Contacts and messages. *)

\* The contacts on the page are those saved for its user, also when an answer is
\* saved after another user has signed in.
THEOREM ContactsOfUserCorrect == Spec => []ContactsOfUser
<1> USE DEF session, connection, mail, counts
<1>1. Init => ContactsOfUser
  BY DEF Init, ContactsOfUser
<1>2. ASSUME Bookkeeping, ContactsOfUser, Next
      PROVE  ContactsOfUser'
  <2>1. stored \in [Names -> Book]
    BY <1>2 DEF Bookkeeping, TypeOK
  <2>2. ASSUME NEW t \in Tasks, AddEntry(t), task[t].op # "none"
        PROVE  ContactsOfUser'
    <3>1. /\ username \in Names /\ username' = username
          /\ stored' = [stored EXCEPT ![username] = contacts']
      BY <1>2, <2>2, EntryAdded
    <3>2. QED
      BY <2>1, <3>1 DEF ContactsOfUser
  <2>3. ASSUME NEW t \in Tasks, AddContact(t) \/ FoundRecipient(t) \/ FoundSender(t)
        PROVE  ContactsOfUser'
    BY <2>2, <2>3 DEF AddContact, FoundRecipient, FoundSender
  <2>4. ASSUME NEW u \in Names, Start(u)
        PROVE  ContactsOfUser'
    BY <2>4 DEF Start, LoadContacts, ContactsOfUser
  <2>5. CASE Reload
    BY <2>5 DEF Reload, ContactsOfUser
  <2>6. CASE UNCHANGED <<username, contacts, stored>>
    BY <1>2, <2>6 DEF ContactsOfUser
  <2>7. \/ UNCHANGED <<username, contacts, stored>>
        \/ \E u \in Names : Start(u)
        \/ \E t \in Tasks : AddContact(t) \/ FoundRecipient(t) \/ FoundSender(t)
        \/ Reload
    BY <1>2 DEF Next, Resume, AddContactFromInput, SendCurrentMessage, PeerRegisters,
           SocketOpens, PeerCloses, SocketCloses, TimerFires, SignedIn, StartFails,
           LookupPublicKey, LookupEnds, Encrypted, Decrypted, ReceiveEncryptedBytes
  <2>8. QED
    BY <2>3, <2>4, <2>5, <2>6, <2>7
<1>3. ASSUME ContactsOfUser, UNCHANGED vars
      PROVE  ContactsOfUser'
  BY <1>3 DEF vars, ContactsOfUser
<1>4. QED
  BY <1>1, <1>2, <1>3, BookkeepingInvariant, PTL DEF Spec

\* The directory only gets newer keys.
LEMMA DirectoryGrows ==
  ASSUME Bookkeeping, Next
  PROVE  /\ directory \in [Peers -> 0 .. MaxKeys] /\ directory' \in [Peers -> 0 .. MaxKeys]
         /\ \A p \in Peers : directory[p] <= directory'[p]
<1>1. directory \in [Peers -> 0 .. MaxKeys] /\ directory' \in [Peers -> 0 .. MaxKeys]
  BY CountsPreserved DEF Bookkeeping, TypeOK, Book
<1>2. directory' = directory \/ \E p \in Peers : PeerRegisters(p)
  BY DEF Next, Resume, Start, AddContactFromInput, SendCurrentMessage, SocketOpens,
         PeerCloses, SocketCloses, TimerFires, Reload, SignedIn, StartFails, LookupPublicKey,
         LookupEnds, AddContact, FoundRecipient, Encrypted, Decrypted, FoundSender,
         ReceiveEncryptedBytes
<1>3. ASSUME NEW p \in Peers, PeerRegisters(p)
      PROVE  \A q \in Peers : directory[q] <= directory'[q]
  BY <1>1, <1>3 DEF PeerRegisters
<1>4. QED
  BY <1>1, <1>2, <1>3

LEMMA SavedKeysPreserved ==
  ASSUME Bookkeeping, SavedKeys, AnsweredKeys, Next
  PROVE  SavedKeys'
<1> USE DEF session, connection, mail, counts
<1>1. /\ contacts \in [Peers -> 0 .. MaxKeys]
      /\ stored \in [Names -> [Peers -> 0 .. MaxKeys]]
  BY DEF Bookkeeping, TypeOK, Book
<1>2. ASSUME NEW t \in Tasks, AddEntry(t), task[t].op # "none", directory' = directory
      PROVE  SavedKeys'
  <2>1. /\ username \in Names /\ task[t].peer \in Peers /\ task[t].key \in 1 .. MaxKeys
        /\ contacts' = [contacts EXCEPT ![task[t].peer] = task[t].key]
        /\ stored' = [stored EXCEPT ![username] = contacts']
    BY <1>2, EntryAdded
  <2>2. task[t].key <= directory[task[t].peer]
    BY <1>2 DEF AddEntry, AnsweredKeys
  <2>3. ASSUME NEW p \in Peers
        PROVE  contacts'[p] <= directory'[p]
    BY <1>1, <1>2, <2>1, <2>2 DEF SavedKeys
  <2>4. ASSUME NEW u \in Names, NEW p \in Peers
        PROVE  stored'[u][p] <= directory'[p]
    <3>1. stored'[u] = contacts' \/ stored'[u] = stored[u]
      BY <1>1, <2>1
    <3>2. QED
      BY <1>2, <2>3, <3>1 DEF SavedKeys
  <2>5. QED
    BY <2>3, <2>4 DEF SavedKeys
<1>3. ASSUME NEW t \in Tasks, AddContact(t) \/ FoundRecipient(t) \/ FoundSender(t)
      PROVE  SavedKeys'
  BY <1>2, <1>3 DEF AddContact, FoundRecipient, FoundSender
<1>4. ASSUME NEW u \in Names, Start(u)
      PROVE  SavedKeys'
  BY <1>4 DEF Start, LoadContacts, SavedKeys
<1>5. CASE Reload
  <2>1. \A p \in Peers : contacts'[p] = 0 /\ directory'[p] \in 0 .. MaxKeys
    BY <1>5, DirectoryGrows DEF Reload, NoContacts
  <2>2. QED
    BY <1>5, <2>1 DEF Reload, SavedKeys
<1>6. CASE UNCHANGED <<contacts, stored>>
  <2>1. ASSUME NEW p \in Peers
        PROVE  contacts'[p] <= directory'[p]
    BY <1>1, <1>6, DirectoryGrows DEF SavedKeys
  <2>2. ASSUME NEW u \in Names, NEW p \in Peers
        PROVE  stored'[u][p] <= directory'[p]
    <3>1. stored[u][p] \in 0 .. MaxKeys /\ stored'[u][p] = stored[u][p]
      BY <1>1, <1>6
    <3>2. QED
      BY <3>1, DirectoryGrows DEF SavedKeys
  <2>3. QED
    BY <2>1, <2>2 DEF SavedKeys
<1>7. \/ UNCHANGED <<contacts, stored>>
      \/ \E u \in Names : Start(u)
      \/ \E t \in Tasks : AddContact(t) \/ FoundRecipient(t) \/ FoundSender(t)
      \/ Reload
  BY DEF Next, Resume, AddContactFromInput, SendCurrentMessage, PeerRegisters,
         SocketOpens, PeerCloses, SocketCloses, TimerFires, SignedIn, StartFails,
         LookupPublicKey, LookupEnds, Encrypted, Decrypted, ReceiveEncryptedBytes
<1>8. QED
  BY <1>3, <1>4, <1>5, <1>6, <1>7

\* How the steps change the awaited calls.
LEMMA Calls ==
  ASSUME Bookkeeping, Next
  PROVE  \/ UNCHANGED task
         \/ task' = [t \in Tasks |-> NoTask]
         \/ \E t \in Tasks : LookupPublicKey(t)
         \/ \E t \in Tasks : \E call :
              /\ task' = [task EXCEPT ![t] = call]
              /\ call.stage # "answered"
<1> USE DEF session, connection, mail, counts
<1> DEFINE Replaced == \E t \in Tasks : \E call :
              /\ task' = [task EXCEPT ![t] = call]
              /\ call.stage # "answered"
<1>1. ASSUME NEW call, Begin(call), call.stage # "answered"
      PROVE  Replaced
  BY <1>1, Beginning DEF Bookkeeping
<1>2. ASSUME NEW t \in Tasks, End(t)
      PROVE  Replaced
  <2>1. NoTask.stage = ""
    BY DEF NoTask, Call
  <2>2. QED
    BY <1>2, <2>1 DEF End
<1>3. ASSUME NEW t \in Tasks, FoundRecipient(t)
      PROVE  Replaced
  <2>1. PICK call : /\ call = Call("send", "encrypting", username, task[t].peer, task[t].key, starts)
                    /\ task' = [task EXCEPT ![t] = call]
    BY <1>3 DEF FoundRecipient
  <2>2. call.stage = "encrypting"
    BY <2>1 DEF Call
  <2>3. QED
    BY <2>1, <2>2
<1>4. ASSUME NEW t \in Tasks, Decrypted(t)
      PROVE  Replaced
  <2>1. CASE task' = [task EXCEPT ![t].stage = "lookup"]
    <3>1. PICK call : call = Call(task[t].op, "lookup", task[t].user,
                     task[t].peer, task[t].key, task[t].number)
      OBVIOUS
    <3>2. task' = [task EXCEPT ![t] = call]
      BY <2>1, <3>1, Shapes, StageSet
    <3>3. call.stage = "lookup"
      BY <3>1 DEF Call
    <3>4. QED
      BY <3>2, <3>3
  <2>2. QED
    BY <1>2, <1>4, <2>1 DEF Decrypted
<1>5. ASSUME NEW u \in Names, Start(u)
      PROVE  Replaced
  <2>1. Call("start", "registering", u, NoPeer, NoKey, 0).stage = "registering"
    BY DEF Call
  <2>2. QED
    BY <1>1, <1>5, <2>1 DEF Start
<1>6. ASSUME NEW p \in Peers, AddContactFromInput(p) \/ SendCurrentMessage(p)
      PROVE  Replaced
  <2>1. PICK call : Begin(call) /\ call.stage \in {"lookup", "encrypting"}
    <3>1. Call("send", "encrypting", username, p, contacts[p], starts).stage = "encrypting"
      BY DEF Call
    <3>2. Call("add", "lookup", NoName, p, NoKey, 0).stage = "lookup"
      BY DEF Call
    <3>3. Call("send", "lookup", NoName, p, NoKey, 0).stage = "lookup"
      BY DEF Call
    <3>4. QED
      BY <1>6, <3>1, <3>2, <3>3 DEF AddContactFromInput, SendCurrentMessage
  <2>2. QED
    BY <1>1, <2>1
<1>7. ASSUME NEW s \in Sockets, NEW p \in Peers, NEW key \in 1 .. MaxKeys,
             ReceiveEncryptedBytes(s, p, key)
      PROVE  Replaced
  <2>1. Call("receive", "decrypting", username, p, NoKey, Len(inbox) + 1).stage = "decrypting"
    BY DEF Call
  <2>2. QED
    BY <1>1, <1>7, <2>1 DEF ReceiveEncryptedBytes
<1> HIDE DEF Replaced
<1>8. ASSUME NEW t \in Tasks,
             \/ SignedIn(t) \/ StartFails(t) \/ LookupEnds(t) \/ AddContact(t)
             \/ Encrypted(t) \/ FoundSender(t)
      PROVE  Replaced
  BY <1>2, <1>8 DEF SignedIn, StartFails, LookupEnds, AddContact, Encrypted, FoundSender
<1>9. \/ UNCHANGED task
      \/ task' = [t \in Tasks |-> NoTask]
      \/ \E t \in Tasks : LookupPublicKey(t)
      \/ Replaced
  BY <1>3, <1>4, <1>5, <1>6, <1>7, <1>8
     DEF Next, Resume, SocketOpens, PeerCloses, SocketCloses, TimerFires, PeerRegisters, Reload
<1>10. QED
  BY <1>9 DEF Replaced

LEMMA AnsweredKeysPreserved ==
  ASSUME Bookkeeping, AnsweredKeys, Next
  PROVE  AnsweredKeys'
<1>1. task \in [Tasks -> Task] /\ task' \in [Tasks -> Task] /\ TasksShaped'
  BY TasksPreserved DEF Bookkeeping, TypeOK
<1>2. ASSUME NEW t \in Tasks, task'[t] = task[t], task[t].stage = "answered"
      PROVE  task'[t].key <= directory'[task'[t].peer]
  <2>1. task[t].key \in 0 .. MaxKeys
    BY <1>1 DEF Task
  <2>2. task[t].peer \in Peers
    BY <1>2, Shapes DEF Shaped, Task
  <2>3. QED
    BY <1>2, <2>1, <2>2, DirectoryGrows DEF AnsweredKeys
<1>3. CASE UNCHANGED task
  BY <1>2, <1>3 DEF AnsweredKeys
<1>4. CASE task' = [t \in Tasks |-> NoTask]
  <2>1. NoTask.stage = ""
    BY DEF NoTask, Call
  <2>2. QED
    BY <1>4, <2>1 DEF AnsweredKeys
<1>5. ASSUME NEW t \in Tasks, NEW call, task' = [task EXCEPT ![t] = call],
             call.stage # "answered"
      PROVE  AnsweredKeys'
  <2>1. ASSUME NEW n \in Tasks, task'[n].stage = "answered"
        PROVE  task'[n].key <= directory'[task'[n].peer]
    <3>1. n # t /\ task'[n] = task[n]
      BY <1>1, <1>5, <2>1
    <3>2. QED
      BY <1>2, <2>1, <3>1
  <2>2. QED
    BY <2>1 DEF AnsweredKeys
<1>6. ASSUME NEW t \in Tasks, LookupPublicKey(t)
      PROVE  AnsweredKeys'
  <2>1. PICK call : /\ call = Call(task[t].op, "answered", task[t].user,
                              task[t].peer, directory[task[t].peer], task[t].number)
                    /\ task' = [task EXCEPT ![t] = call]
    BY <1>6 DEF LookupPublicKey
  <2>2. call.key = directory[call.peer] /\ call.peer = task[t].peer
    BY <2>1 DEF Call
  <2>3. task[t].peer \in Peers
    BY <1>6, Shapes DEF LookupPublicKey, Shaped, Task
  <2>4. directory' = directory /\ directory[task[t].peer] \in 0 .. MaxKeys
    BY <1>6, <2>3, DirectoryGrows DEF LookupPublicKey
  <2>5. ASSUME NEW n \in Tasks, task'[n].stage = "answered"
        PROVE  task'[n].key <= directory'[task'[n].peer]
    <3>1. CASE n = t
      BY <1>1, <2>1, <2>2, <2>4, <3>1
    <3>2. CASE n # t
      <4>1. task'[n] = task[n]
        BY <1>1, <2>1, <3>2
      <4>2. QED
        BY <1>2, <2>5, <4>1
    <3>3. QED
      BY <3>1, <3>2
  <2>6. QED
    BY <2>5 DEF AnsweredKeys
<1>7. QED
  BY <1>3, <1>4, <1>5, <1>6, Calls

LEMMA Arrived ==
  ASSUME Bookkeeping, NEW m \in 1 .. Len(inbox)
  PROVE  inbox[m].key \in 1 .. MaxKeys /\ inbox[m].from \in Peers
<1>1. inbox \in Seq(Message)
  BY DEF Bookkeeping, TypeOK
<1>2. inbox[m] \in Message
  BY <1>1
<1>3. QED
  BY <1>2 DEF Message

LEMMA ReceivedKeysPreserved ==
  ASSUME Bookkeeping, ReceivedKeys, Next
  PROVE  /\ ReceivedKeys'
         /\ \A m \in 1 .. Len(inbox) : m \in 1 .. Len(inbox') /\ inbox'[m] = inbox[m]
<1>1. inbox \in Seq(Message)
  BY DEF Bookkeeping, TypeOK
<1>2. ASSUME NEW m \in 1 .. Len(inbox)
      PROVE  inbox[m].key <= directory'[inbox[m].from]
  <2>1. /\ inbox[m].key \in 1 .. MaxKeys /\ inbox[m].from \in Peers
        /\ inbox[m].key <= directory[inbox[m].from]
    BY Arrived DEF ReceivedKeys
  <2>2. QED
    BY <2>1, DirectoryGrows
<1>3. CASE inbox' = inbox
  BY <1>2, <1>3 DEF ReceivedKeys
<1>4. ASSUME NEW s \in Sockets, NEW p \in Peers, NEW key \in 1 .. MaxKeys,
             ReceiveEncryptedBytes(s, p, key)
      PROVE  /\ ReceivedKeys'
             /\ \A m \in 1 .. Len(inbox) : m \in 1 .. Len(inbox') /\ inbox'[m] = inbox[m]
  <2>1. PICK message : /\ message = [from |-> p, to |-> user[s], key |-> key,
                                     session |-> username]
                       /\ inbox' = Append(inbox, message)
    BY <1>4 DEF ReceiveEncryptedBytes
  <2>2. message \in Message
    <3>1. user[s] \in Names /\ username \in Names
      BY <1>4 DEF ReceiveEncryptedBytes, Bookkeeping, SocketsNamed
    <3>2. QED
      BY <2>1, <3>1 DEF Message
  <2>3. message.key <= directory'[message.from]
    <3>1. directory' = directory /\ directory[p] \in 0 .. MaxKeys /\ key \in 1 .. directory[p]
      BY <1>4, DirectoryGrows DEF ReceiveEncryptedBytes
    <3>2. QED
      BY <2>1, <3>1
  <2>4. \A m \in 1 .. Len(inbox) : m \in 1 .. Len(inbox') /\ inbox'[m] = inbox[m]
    BY <1>1, <2>1, <2>2
  <2>5. \A m \in 1 .. Len(inbox') : m \in 1 .. Len(inbox) \/ inbox'[m] = message
    BY <1>1, <2>1, <2>2
  <2>6. QED
    BY <1>2, <2>3, <2>4, <2>5 DEF ReceivedKeys
<1>5. \/ inbox' = inbox
      \/ \E s \in Sockets, p \in Peers, key \in 1 .. MaxKeys : ReceiveEncryptedBytes(s, p, key)
  BY DEF Next, Resume, Start, AddContactFromInput, SendCurrentMessage, PeerRegisters,
         SocketOpens, PeerCloses, SocketCloses, TimerFires, Reload, SignedIn, StartFails,
         LookupPublicKey, LookupEnds, AddContact, FoundRecipient, Encrypted, Decrypted,
         FoundSender, mail
<1>6. QED
  BY <1>3, <1>4, <1>5

\* A key that the page knows for a peer, and a key under which a message of that
\* peer came, are the same as long as the peer has registered one key.
LEMMA OneKey ==
  ASSUME Bookkeeping, ReceivedKeys, NEW m \in 1 .. Len(inbox),
         NEW key \in 1 .. MaxKeys, key <= directory[inbox[m].from],
         ~(directory[inbox[m].from] > 1)
  PROVE  inbox[m].key = key
<1>1. inbox[m].key \in 1 .. MaxKeys /\ inbox[m].from \in Peers
  BY Arrived
<1>2. directory[inbox[m].from] \in 0 .. MaxKeys
  BY <1>1 DEF Bookkeeping, TypeOK, Book
<1>3. inbox[m].key <= directory[inbox[m].from]
  BY DEF ReceivedKeys
<1>4. QED
  BY <1>1, <1>2, <1>3

LEMMA RefusedPreserved ==
  ASSUME Bookkeeping, KeysRegistered, RefusedOnlyAfterRekey, Next
  PROVE  RefusedOnlyAfterRekey'
<1>1. ASSUME NEW m \in 1 .. Len(inbox),
             directory[inbox[m].from] > 1 \/ inbox[m].session # inbox[m].to
      PROVE  directory'[inbox'[m].from] > 1 \/ inbox'[m].session # inbox'[m].to
  <2>1. inbox'[m] = inbox[m]
    BY ReceivedKeysPreserved DEF KeysRegistered
  <2>2. inbox[m].from \in Peers
    BY Arrived
  <2>3. QED
    BY <1>1, <2>1, <2>2, DirectoryGrows
<1>2. CASE refused' = refused
  BY <1>1, <1>2 DEF RefusedOnlyAfterRekey, Bookkeeping, TypeOK
<1>3. ASSUME NEW m \in 1 .. Len(inbox), Refuse(m),
             directory[inbox[m].from] > 1 \/ inbox[m].session # inbox[m].to
      PROVE  RefusedOnlyAfterRekey'
  BY <1>1, <1>3 DEF Refuse, RefusedOnlyAfterRekey, Bookkeeping, TypeOK
<1>4. ASSUME NEW m \in 1 .. Len(inbox), NEW key \in 1 .. MaxKeys,
             key <= directory[inbox[m].from], Open(m, key)
      PROVE  RefusedOnlyAfterRekey'
  <2>1. CASE inbox[m].key = key
    BY <1>2, <1>4, <2>1 DEF Open
  <2>2. CASE inbox[m].key # key
    <3>1. directory[inbox[m].from] > 1
      BY <1>4, <2>2, OneKey DEF KeysRegistered
    <3>2. Refuse(m)
      BY <1>4, <2>2 DEF Open
    <3>3. QED
      BY <1>3, <3>1, <3>2
  <2>3. QED
    BY <2>1, <2>2
<1>5. ASSUME NEW t \in Tasks, Decrypted(t)
      PROVE  RefusedOnlyAfterRekey'
  <2>1. PICK m \in 1 .. Len(inbox) : /\ m = task[t].number
                                     /\ task[t].peer = inbox[m].from
                                     /\ task[t].user = inbox[m].session
    BY <1>5, Shapes DEF Decrypted, Shaped, Reception
  <2>2. CASE IdentityThen(t) # inbox[m].to /\ Refuse(m)
    BY <1>3, <2>1, <2>2 DEF IdentityThen
  <2>3. CASE contacts[task[t].peer] # NoKey /\ Open(m, contacts[task[t].peer])
    <3>1. inbox[m].from \in Peers
      BY Arrived
    <3>2. /\ contacts[inbox[m].from] \in 1 .. MaxKeys
          /\ contacts[inbox[m].from] <= directory[inbox[m].from]
      BY <2>1, <2>3, <3>1 DEF Bookkeeping, TypeOK, Book, KeysRegistered, SavedKeys
    <3>3. QED
      BY <1>4, <2>1, <2>3, <3>2
  <2>4. QED
    BY <1>2, <1>5, <2>1, <2>2, <2>3 DEF Decrypted
<1>6. ASSUME NEW t \in Tasks, FoundSender(t)
      PROVE  RefusedOnlyAfterRekey'
  <2>1. PICK m \in 1 .. Len(inbox) : m = task[t].number /\ task[t].peer = inbox[m].from
    BY <1>6, Shapes DEF FoundSender, Reception
  <2>2. task[t].key \in 1 .. MaxKeys
    BY <1>6, EntryAdded DEF FoundSender
  <2>3. task[t].key <= directory[inbox[m].from]
    BY <1>6, <2>1 DEF FoundSender, AddEntry, KeysRegistered, AnsweredKeys
  <2>4. QED
    BY <1>4, <1>6, <2>1, <2>2, <2>3 DEF FoundSender
<1>7. refused' = refused \/ \E t \in Tasks : Decrypted(t) \/ FoundSender(t)
  BY DEF Next, Resume, Start, AddContactFromInput, SendCurrentMessage, PeerRegisters,
         SocketOpens, PeerCloses, SocketCloses, TimerFires, Reload, SignedIn, StartFails,
         LookupPublicKey, LookupEnds, AddContact, FoundRecipient, Encrypted,
         ReceiveEncryptedBytes, mail
<1>8. QED
  BY <1>2, <1>5, <1>6, <1>7

\* A message that reached its user's session is refused only after its sender got
\* another key, however many receptions look the sender up at the same time and
\* whoever signs in meanwhile.
THEOREM RefusedOnlyAfterRekeyCorrect == Spec => []RefusedOnlyAfterRekey
<1>1. Init => KeysRegistered /\ RefusedOnlyAfterRekey
  <2>1. NoTask.stage = ""
    BY DEF NoTask, Call
  <2>2. Init => SavedKeys /\ RefusedOnlyAfterRekey
    BY DEF Init, SavedKeys, NoContacts, RefusedOnlyAfterRekey
  <2>3. Init => AnsweredKeys
    BY <2>1 DEF Init, AnsweredKeys
  <2>4. Init => ReceivedKeys
    BY DEF Init, ReceivedKeys
  <2>5. QED
    BY <2>2, <2>3, <2>4 DEF KeysRegistered
<1>2. ASSUME Bookkeeping, KeysRegistered, RefusedOnlyAfterRekey, Next
      PROVE  KeysRegistered' /\ RefusedOnlyAfterRekey'
  BY <1>2, SavedKeysPreserved, AnsweredKeysPreserved, ReceivedKeysPreserved, RefusedPreserved
     DEF KeysRegistered
<1>3. ASSUME KeysRegistered, RefusedOnlyAfterRekey, UNCHANGED vars
      PROVE  KeysRegistered' /\ RefusedOnlyAfterRekey'
  BY <1>3 DEF vars, session, mail, KeysRegistered, SavedKeys, AnsweredKeys, ReceivedKeys,
              RefusedOnlyAfterRekey
<1>4. QED
  BY <1>1, <1>2, <1>3, BookkeepingInvariant, PTL DEF Spec

------------------------------------------------------------------------------
(* Sending. *)

LEMMA SendersPreserved ==
  ASSUME Bookkeeping, SendersCurrent, Next
  PROVE  SendersCurrent'
<1> USE DEF session, connection, mail, counts
<1> DEFINE Current(call) == call.op = "send" =>
             /\ call.number <= starts
             /\ call.stage = "encrypting" /\ call.number = starts => call.user = username
<1>1. TypeOK /\ task \in [Tasks -> Task] /\ starts \in Nat
  <2>1. TypeOK
    BY Zenon DEF Bookkeeping
  <2>2. task \in [Tasks -> Task] /\ starts \in 0 .. MaxStarts
    BY <2>1, Zenon DEF TypeOK
  <2>. HIDE DEF Current
  <2>. QED BY <2>1, <2>2
<1>2. \A t \in Tasks : Current(task[t])
  BY DEF SendersCurrent
<1>3. ASSUME NEW t \in Tasks, NEW call, task' = [task EXCEPT ![t] = call], Current(call),
             UNCHANGED <<starts, username>>
      PROVE  SendersCurrent'
  <2>1. ASSUME NEW n \in Tasks
        PROVE  Current(task'[n])
    BY <1>1, <1>2, <1>3
  <2>2. QED
    BY <1>3, <2>1 DEF SendersCurrent
<1>4. CASE UNCHANGED <<task, starts, username>>
  BY <1>4 DEF SendersCurrent
<1>5. ASSUME NEW call, Begin(call), Current(call), UNCHANGED <<starts, username>>
      PROVE  SendersCurrent'
  BY <1>1, <1>3, <1>5, Beginning
<1>6. ASSUME NEW t \in Tasks, End(t), UNCHANGED <<starts, username>>
      PROVE  SendersCurrent'
  <2>1. NoTask.op = "none"
    BY DEF NoTask, Call
  <2>2. QED
    BY <1>3, <1>6, <2>1 DEF End
<1>7. ASSUME NEW t \in Tasks, NEW stage \in {"lookup", "answered"}, NEW key, NEW call,
             call = Call(task[t].op, stage, task[t].user, task[t].peer, key, task[t].number)
      PROVE  Current(call)
  BY <1>2, <1>7 DEF Call
<1>8. ASSUME NEW u \in Names, Start(u)
      PROVE  SendersCurrent'
  <2>1. PICK call : call = Call("start", "registering", u, NoPeer, NoKey, 0)
    OBVIOUS
  <2>2. PICK t \in Tasks : task' = [task EXCEPT ![t] = call]
    BY <1>1, <1>8, <2>1, Beginning DEF Start
  <2>3. call.op = "start"
    BY <2>1 DEF Call
  <2>4. ASSUME NEW n \in Tasks, task'[n].op = "send"
        PROVE  task'[n].number <= starts' /\ task'[n].number # starts'
    <3>1. task'[n] = task[n]
      BY <1>1, <2>2, <2>3, <2>4
    <3>2. task[n].number \in Nat
      BY <1>1 DEF Task
    <3>3. task[n].number <= starts
      BY <1>2, <2>4, <3>1
    <3>4. QED
      BY <1>1, <1>8, <3>1, <3>2, <3>3 DEF Start
  <2>5. QED
    BY <2>4 DEF SendersCurrent
<1>9. CASE Reload
  <2>1. NoTask.op = "none"
    BY DEF NoTask, Call
  <2>2. QED
    BY <1>9, <2>1 DEF Reload, SendersCurrent
<1>10. ASSUME NEW p \in Peers, AddContactFromInput(p)
       PROVE  SendersCurrent'
  <2>1. PICK call : call = Call("add", "lookup", NoName, p, NoKey, 0)
    OBVIOUS
  <2>2. Current(call)
    BY <2>1 DEF Call
  <2>3. QED
    BY <1>5, <1>10, <2>1, <2>2 DEF AddContactFromInput
<1>11. ASSUME NEW p \in Peers, SendCurrentMessage(p)
       PROVE  SendersCurrent'
  <2>1. PICK call : /\ Begin(call)
                    /\ \/ call = Call("send", "encrypting", username, p, contacts[p], starts)
                       \/ call = Call("send", "lookup", NoName, p, NoKey, 0)
    BY <1>11 DEF SendCurrentMessage
  <2>2. Current(call)
    BY <1>1, <2>1 DEF Call
  <2>3. QED
    BY <1>5, <1>11, <2>1, <2>2 DEF SendCurrentMessage
<1>12. ASSUME NEW s \in Sockets, NEW p \in Peers, NEW key \in 1 .. MaxKeys,
              ReceiveEncryptedBytes(s, p, key)
       PROVE  SendersCurrent'
  <2>1. PICK call : call = Call("receive", "decrypting", username, p, NoKey, Len(inbox) + 1)
    OBVIOUS
  <2>2. Current(call)
    BY <2>1 DEF Call
  <2>3. QED
    BY <1>5, <1>12, <2>1, <2>2 DEF ReceiveEncryptedBytes
<1>13. ASSUME NEW t \in Tasks, LookupPublicKey(t)
       PROVE  SendersCurrent'
  <2>1. PICK call : call = Call(task[t].op, "answered", task[t].user, task[t].peer,
                                directory[task[t].peer], task[t].number)
    OBVIOUS
  <2>2. task' = [task EXCEPT ![t] = call]
    BY <1>13, <2>1 DEF LookupPublicKey
  <2>3. UNCHANGED <<starts, username>>
    BY <1>13 DEF LookupPublicKey
  <2>4. QED
    BY <1>3, <1>7, <2>1, <2>2, <2>3
<1>14. ASSUME NEW t \in Tasks, FoundRecipient(t)
       PROVE  SendersCurrent'
  <2>1. PICK call : call = Call("send", "encrypting", username, task[t].peer, task[t].key, starts)
    OBVIOUS
  <2>2. task' = [task EXCEPT ![t] = call]
    BY <1>14, <2>1 DEF FoundRecipient
  <2>3. UNCHANGED <<starts, username>>
    BY <1>14 DEF FoundRecipient, AddEntry
  <2>4. Current(call)
    BY <1>1, <2>1 DEF Call
  <2>5. QED
    BY <1>3, <2>2, <2>3, <2>4
<1>15. ASSUME NEW t \in Tasks, Decrypted(t)
       PROVE  SendersCurrent'
  <2>1. UNCHANGED <<starts, username>>
    BY <1>15 DEF Decrypted
  <2>2. CASE task' = [task EXCEPT ![t].stage = "lookup"]
    <3>1. PICK call : call = Call(task[t].op, "lookup", task[t].user,
                     task[t].peer, task[t].key, task[t].number)
      OBVIOUS
    <3>2. task' = [task EXCEPT ![t] = call]
      BY <2>2, <3>1, Shapes, StageSet
    <3>3. QED
      BY <1>3, <1>7, <2>1, <3>1, <3>2
  <2>3. QED
    BY <1>6, <1>15, <2>1, <2>2 DEF Decrypted
<1>16. ASSUME NEW t \in Tasks,
              \/ SignedIn(t) \/ StartFails(t) \/ LookupEnds(t) \/ AddContact(t)
              \/ Encrypted(t) \/ FoundSender(t)
       PROVE  SendersCurrent'
  <2>1. End(t) /\ UNCHANGED <<starts, username>>
    BY <1>16 DEF SignedIn, StartFails, LookupEnds, AddContact, AddEntry, Encrypted, FoundSender
  <2>2. QED
    BY <1>6, <2>1
<1>17. \/ \E s \in Sockets :
            SocketOpens(s) \/ PeerCloses(s) \/ SocketCloses(s) \/ TimerFires(s)
       \/ \E p \in Peers : PeerRegisters(p)
       => UNCHANGED <<task, starts, username>>
  BY DEF SocketOpens, PeerCloses, SocketCloses, TimerFires, PeerRegisters
<1>18. QED
  BY <1>4, <1>8, <1>9, <1>10, <1>11, <1>12, <1>13, <1>14, <1>15, <1>16, <1>17
     DEF Next, Resume

\* A message that leaves with no start in between is sealed by the user whose name
\* it carries and leaves over that user's connection: the names that are read
\* before and after the await are the same, and the socket follows them.
THEOREM SentByOneUserCorrect == Spec => []SentByOneUser
<1>1. Init => SendersCurrent /\ SentByOneUser
  <2>1. NoTask.op = "none"
    BY DEF NoTask, Call
  <2>2. QED
    BY <2>1 DEF Init, SendersCurrent, SentByOneUser
<1>2. ASSUME Bookkeeping, SocketFollowsUser, SendersCurrent, SentByOneUser, Next
      PROVE  SentByOneUser'
  <2>1. ASSUME NEW t \in Tasks, Encrypted(t)
        PROVE  SentByOneUser'
    <3>1. CASE sent' = sent
      BY <1>2, <3>1 DEF SentByOneUser
    <3>2. CASE sent' = sent \cup {SentFrame(t)} /\ Calm(t)
      <4>1. task[t].user = username
        BY <1>2, <2>1, <3>2, Shapes DEF Encrypted, Calm, SendersCurrent, Shaped
      <4>2. username # NoName
        BY <1>2, <2>1, Shapes DEF Encrypted
      <4>3. user[socket] = username
        BY <1>2, <3>2, <4>2 DEF SocketFollowsUser, Calm
      <4>4. SentFrame(t).sealed = username /\ SentFrame(t).from = username
            /\ SentFrame(t).over = username
        BY <4>1, <4>3 DEF SentFrame, SealedAs
      <4>5. QED
        BY <1>2, <3>2, <4>4 DEF SentByOneUser
    <3>3. QED
      BY <2>1, <3>1, <3>2 DEF Encrypted
  <2>2. sent' = sent \/ \E t \in Tasks : Encrypted(t)
    BY <1>2 DEF Next, Resume, Start, AddContactFromInput, SendCurrentMessage, PeerRegisters,
           SocketOpens, PeerCloses, SocketCloses, TimerFires, Reload, SignedIn, StartFails,
           LookupPublicKey, LookupEnds, AddContact, FoundRecipient, Decrypted, FoundSender,
           ReceiveEncryptedBytes, mail
  <2>3. QED
    BY <1>2, <2>1, <2>2 DEF SentByOneUser
<1>3. ASSUME SendersCurrent, SentByOneUser, UNCHANGED vars
      PROVE  SendersCurrent' /\ SentByOneUser'
  BY <1>3 DEF vars, session, mail, counts, SendersCurrent, SentByOneUser
<1>4. ASSUME Bookkeeping, SocketFollowsUser, SendersCurrent, SentByOneUser, Next
      PROVE  SendersCurrent' /\ SentByOneUser'
  BY <1>2, <1>4, SendersPreserved
<1>5. QED
  BY <1>1, <1>3, <1>4, BookkeepingInvariant, SocketFollowsUserCorrect, PTL DEF Spec

------------------------------------------------------------------------------
(* Reconnections. *)

\* connectWebSocket turns at most one new socket into a reconnection; the timer
\* that called it is no longer one.
LEMMA ReconnectionAdded ==
  ASSUME TypeOK, \A s \in timers : readyState[s] = "closed",
         NEW pending \in SUBSET timers, ConnectWebSocket(pending)
  PROVE  \E new \in Sockets :
           /\ new \notin Reconnections
           /\ new \in Reconnections'
           /\ Reconnections' \subseteq
                ({s \in Sockets : readyState[s] # "closed"} \cup pending) \cup {new}
           /\ \A s \in timers' : readyState'[s] = "closed"
<1>1. PICK new \in Unused :
         /\ readyState' =
              [s \in Sockets |-> IF s = new THEN "connecting" ELSE ClosedByPage(s)]
         /\ timers' = pending \ {reconnectTimer}
  BY Connecting
<1>2. new \in Sockets /\ new \notin Reconnections
  BY DEF Unused, Reconnections
<1>3. \A s \in Sockets : readyState[s] = "closed" /\ s # new => readyState'[s] = "closed"
  BY <1>1 DEF ClosedByPage, Live
<1>4. new \in Reconnections'
  BY <1>1, <1>2 DEF Reconnections
<1>5. Reconnections' \subseteq
        ({s \in Sockets : readyState[s] # "closed"} \cup pending) \cup {new}
  BY <1>1, <1>3 DEF Reconnections
<1>6. \A s \in timers' : readyState'[s] = "closed"
  BY <1>1, <1>3 DEF TypeOK, Unused
<1>7. QED
  BY <1>2, <1>4, <1>5, <1>6

\* A page that signed in keeps a reconnection, and has one at most for every
\* sign-in: only a sign-in adds one, and a close handler or a timer passes one on.
THEOREM ReconnectsCountedCorrect == Spec => []ReconnectsCounted
<1> USE DEF session, connection, mail, counts
<1>1. Init => ReconnectsCounted
  <2> SUFFICES ASSUME Init
               PROVE  ReconnectsCounted
    OBVIOUS
  <2>1. Reconnections = {} /\ signIns = 0 /\ timers = {}
    BY DEF Init, Reconnections
  <2>2. Cardinality(Reconnections) = 0
    BY <2>1, FS_EmptySet
  <2>3. QED
    BY <2>1, <2>2 DEF ReconnectsCounted
<1>2. ASSUME Bookkeeping, ReconnectsCounted, Next
      PROVE  ReconnectsCounted'
  <2>1. /\ TypeOK /\ signIns \in Nat
        /\ \A s \in timers : readyState[s] = "closed"
        /\ Cardinality(Reconnections) <= signIns
    BY <1>2 DEF Bookkeeping, TypeOK, ReconnectsCounted
  <2>2. IsFiniteSet(Reconnections) /\ Cardinality(Reconnections) \in Nat
    <3>1. Reconnections \in SUBSET Sockets
      BY <2>1 DEF TypeOK, Reconnections
    <3>2. IsFiniteSet(Sockets)
      BY FS_Interval
    <3>3. QED
      BY <3>1, <3>2, FS_Subset, FS_CardinalityType
  <2>3. ASSUME NEW t \in Tasks, SignedIn(t)
        PROVE  ReconnectsCounted'
    <3>1. PICK new \in Sockets :
             /\ new \in Reconnections'
             /\ Reconnections' \subseteq Reconnections \cup {new}
             /\ \A s \in timers' : readyState'[s] = "closed"
      BY <2>1, <2>3, ReconnectionAdded DEF SignedIn, Reconnections
    <3>2. PICK R : R = Reconnections'
      OBVIOUS
    <3>3. Cardinality(R) <= Cardinality(Reconnections) + 1 /\ Cardinality(R) \in Nat
      <4>1. /\ IsFiniteSet(Reconnections \cup {new})
            /\ Cardinality(Reconnections \cup {new}) \in
                 {Cardinality(Reconnections), Cardinality(Reconnections) + 1}
        BY <2>2, FS_AddElement
      <4>2. R \in SUBSET (Reconnections \cup {new})
        BY <3>1, <3>2
      <4>3. IsFiniteSet(R) /\ Cardinality(R) <= Cardinality(Reconnections \cup {new})
        BY <4>1, <4>2, FS_Subset
      <4>4. Cardinality(R) \in Nat
        BY <4>3, FS_CardinalityType
      <4>5. QED
        BY <2>2, <4>1, <4>3, <4>4
    <3>4. signIns' = signIns + 1
      BY <2>3 DEF SignedIn
    <3>5. Cardinality(Reconnections') <= signIns'
      BY <2>1, <2>2, <3>2, <3>3, <3>4
    <3>6. QED
      BY <3>1, <3>5 DEF ReconnectsCounted
  <2>4. ASSUME NEW s \in Sockets, TimerFires(s)
        PROVE  ReconnectsCounted'
    <3>1. PICK new \in Sockets :
             /\ new \notin Reconnections
             /\ new \in Reconnections'
             /\ Reconnections' \subseteq (Reconnections \ {s}) \cup {new}
             /\ \A u \in timers' : readyState'[u] = "closed"
      BY <2>1, <2>4, ReconnectionAdded DEF TimerFires, Reconnections
    <3>2. PICK R : R = Reconnections'
      OBVIOUS
    <3>3. Cardinality(R) <= Cardinality(Reconnections) /\ Cardinality(R) \in Nat
      <4>1. s \in Reconnections
        BY <2>4 DEF TimerFires, Reconnections
      <4>2. /\ IsFiniteSet(Reconnections \ {s})
            /\ Cardinality(Reconnections \ {s}) = Cardinality(Reconnections) - 1
        BY <2>2, <4>1, FS_RemoveElement
      <4>3. /\ IsFiniteSet((Reconnections \ {s}) \cup {new})
            /\ Cardinality((Reconnections \ {s}) \cup {new}) = Cardinality(Reconnections)
        <5>1. PICK S : S = Reconnections \ {s}
          OBVIOUS
        <5>2. IsFiniteSet(S) /\ new \notin S
          BY <3>1, <4>2, <5>1
        <5>3. IsFiniteSet(S \cup {new}) /\ Cardinality(S \cup {new}) = Cardinality(S) + 1
          BY <5>2, FS_AddElement
        <5>4. QED
          BY <2>2, <4>2, <5>1, <5>3
      <4>4. R \in SUBSET ((Reconnections \ {s}) \cup {new})
        BY <3>1, <3>2
      <4>5. IsFiniteSet(R) /\ Cardinality(R) <= Cardinality(Reconnections)
        BY <4>3, <4>4, FS_Subset
      <4>6. QED
        BY <4>5, FS_CardinalityType
    <3>4. signIns' = signIns
      BY <2>4 DEF TimerFires
    <3>5. Cardinality(Reconnections') <= signIns'
      BY <2>1, <2>2, <3>2, <3>3, <3>4
    <3>6. QED
      BY <3>1, <3>5 DEF ReconnectsCounted
  <2>5. ASSUME Reconnections' = Reconnections, signIns' = signIns,
               \A s \in timers' : readyState'[s] = "closed"
        PROVE  ReconnectsCounted'
    BY <1>2, <2>5 DEF ReconnectsCounted
  <2>6. ASSUME NEW s \in Sockets, SocketOpens(s) \/ PeerCloses(s) \/ SocketCloses(s)
        PROVE  ReconnectsCounted'
    <3>1. readyState[s] # "closed"
      BY <2>6 DEF SocketOpens, PeerCloses, SocketCloses
    <3>2. CASE SocketOpens(s) \/ PeerCloses(s)
      <4>1. /\ \A u \in Sockets : readyState'[u] = "closed" <=> readyState[u] = "closed"
            /\ timers' = timers /\ signIns' = signIns
        BY <2>1, <3>1, <3>2 DEF SocketOpens, PeerCloses, TypeOK
      <4>2. Reconnections' = Reconnections
        BY <4>1 DEF Reconnections
      <4>3. QED
        BY <2>1, <2>5, <4>1, <4>2 DEF TypeOK
    <3>3. CASE SocketCloses(s)
      <4>1. /\ readyState' = [readyState EXCEPT ![s] = "closed"]
            /\ timers' = timers \cup {s} /\ signIns' = signIns
        BY <3>3 DEF SocketCloses, Schedules
      <4>2. Reconnections' = Reconnections
        BY <2>1, <3>1, <4>1 DEF Reconnections, TypeOK
      <4>3. QED
        BY <2>1, <2>5, <4>1, <4>2 DEF TypeOK
    <3>4. QED
      BY <2>6, <3>2, <3>3
  <2>7. CASE Reload
    <3>1. Reconnections' = {} /\ signIns' = 0 /\ timers' = {}
      BY <2>7 DEF Reload, Reconnections
    <3>2. Cardinality({}) = 0
      BY FS_EmptySet
    <3>3. QED
      BY <3>1, <3>2 DEF ReconnectsCounted
  <2>8. CASE UNCHANGED <<connection, signIns>>
    <3>1. Reconnections' = Reconnections
      BY <2>8 DEF Reconnections
    <3>2. QED
      BY <2>1, <2>5, <2>8, <3>1
  <2>9. QED
    BY <1>2, <2>3, <2>4, <2>6, <2>7, <2>8, ConnectionSteps
<1>3. ASSUME ReconnectsCounted, UNCHANGED vars
      PROVE  ReconnectsCounted'
  BY <1>3 DEF vars, ReconnectsCounted, Reconnections
<1>4. QED
  BY <1>1, <1>2, <1>3, BookkeepingInvariant, PTL DEF Spec

=============================================================================
