-------------------------- MODULE ChatTrustProofs --------------------------
(***************************************************************************)
(* The clients of Chat implement trust on first use, for every set of      *)
(* users, however many keys they use up, and whatever fails.               *)
(***************************************************************************)
EXTENDS ChatProofs

\* A file that was never written has no contacts.  A message that a client has
\* begun to open is for its user, and encrypted for the key the user still has.
Opening(u) ==
  /\ file[u].state = "absent" => file[u].contacts = NoContacts
  /\ job[u].task = "receive" =>
       sent[job[u].message].to = u /\ Decrypts(u, job[u].message)

\* What holds of every client between two steps.
Steady == \A u \in Users : Asking(u) /\ Opening(u)

------------------------------------------------------------------------------
(* The invariant. *)

\* A user's key stays while the client runs.
LEMMA KeyStays ==
  ASSUME Typed, [Next]_vars, NEW u \in Users
  PROVE  \/ OwnKey(u)' = OwnKey(u)
         \/ Rekey(u) /\ UNCHANGED <<client, directory, messages>>
<1>1. CASE key' = key
  BY <1>1 DEF OwnKey
<1>2. ASSUME NEW w \in Users, Rekey(w)
      PROVE  OwnKey(u)' = OwnKey(u) \/ (Rekey(u) /\ UNCHANGED <<client, directory, messages>>)
  BY <1>2 DEF Rekey, OwnKey, Typed
<1>3. key' = key \/ \E w \in Users : Rekey(w)
  BY DEF Next, vars, Start, Register, Connect, Disconnect, Exit, Proceed, LookupFails,
         SaveFails, AddContact, SendMessage, ReceiveMessage, Fail,
         LookupPublicKey, NotFound, InsertContact, Save
<1>. QED BY <1>1, <1>2, <1>3

\* The message that a client opens stays what it was when it was received.
LEMMA OpeningStep ==
  ASSUME IInv, [Next]_vars, NEW u \in Users, Opening(u)
  PROVE  Opening(u)'
<1>. USE DEF Typed, Move, Task
<1>0. Typed /\ ClientFits(u) /\ Opening(u)
  BY DEF IInv
<1>1. file'[u].state = "absent" => file'[u].contacts = NoContacts
  <2>1. file' = file \/ (Start(u) \/ InsertContact(u) \/ Save(u)) \/ UNCHANGED Client(u)
    BY <1>0, OneAtATime DEF Register, Connect, Disconnect, Exit, Proceed, LookupPublicKey,
       NotFound, LookupFails, SaveFails, AddContact, SendMessage, ReceiveMessage
  <2>2. ASSUME Start(u) \/ InsertContact(u) \/ Save(u), file' # file
        PROVE  file'[u].state # "absent"
    BY <1>0, <2>2 DEF Start, InsertContact, Save, Torn, Complete
  <2>. QED BY <1>0, <2>1, <2>2 DEF Opening, Client
<1>2. ASSUME job'[u].task = "receive", job'[u] = job[u]
      PROVE  sent'[job'[u].message].to = u /\ Decrypts(u, job[u].message)'
  <2>. DEFINE m == job[u].message
  <2>1. m \in 1 .. Len(sent) /\ sent[m].to = u /\ Decrypts(u, m)
    BY <1>0, <1>2 DEF ClientFits, Opening
  <2>2. sent'[m] = sent[m]
    BY <1>0, <2>1, SentOnlyGrows DEF SentGrows
  <2>3. OwnKey(u)' = OwnKey(u)
    BY <1>0, <1>2, KeyStays DEF Rekey, ClientFits
  <2>. QED BY <1>2, <2>1, <2>2, <2>3 DEF Decrypts
<1>3. ASSUME job'[u].task = "receive", job'[u] # job[u]
      PROVE  sent'[job'[u].message].to = u /\ Decrypts(u, job[u].message)'
  <2>1. PICK m \in 1 .. Len(sent) : ReceiveMessage(u, m)
    <3>1. CASE Start(u) \/ Register(u) \/ Connect(u) \/ Disconnect(u) \/ Exit(u)
      BY <1>0, <1>3, <3>1, JobsAreJobs DEF Start, Register, Connect, Disconnect, Exit
    <3>2. CASE Proceed(u)
      BY <1>0, <1>3, <3>2, JobsAreJobs
         DEF Proceed, LookupPublicKey, NotFound, InsertContact, Save
    <3>3. CASE LookupFails(u) \/ SaveFails(u)
      BY <1>0, <1>3, <3>3, JobsAreJobs DEF LookupFails, SaveFails, Fail
    <3>4. ASSUME NEW peer \in Users, AddContact(u, peer) \/ SendMessage(u, peer)
          PROVE  FALSE
      BY <1>0, <1>3, <3>4 DEF AddContact, SendMessage
    <3>. QED BY <1>0, <1>3, <3>1, <3>2, <3>3, <3>4, OneAtATime DEF Client
  <2>2. job'[u].message = m /\ sent[m].to = u /\ Decrypts(u, m) /\ sent' = sent /\ key' = key
    BY <1>0, <1>3, <2>1 DEF ReceiveMessage, messages
  <2>. QED BY <2>2 DEF Decrypts, OwnKey
<1>. QED BY <1>1, <1>2, <1>3 DEF Opening

\* Nobody has contacts or opens a message at the start.
LEMMA SteadyInit == Init => Steady
BY JobsAreJobs DEF Init, Steady, Asking, Opening, Absent

\* Steady is kept by all steps of all clients.
LEMMA SteadyStep ==
  ASSUME IInv, Steady, [Next]_vars
  PROVE  Steady'
BY AskingStep, OpeningStep DEF IInv, Steady

------------------------------------------------------------------------------
(* What a step of one client does to the variables of TrustedContacts. *)

OnlyClient(u) == key' = key /\ \A w \in Users \ {u} : Keeps(w)

\* The abstract state of the other users stays.
LEMMA MappedStep ==
  ASSUME Typed, Typed', NEW u \in Users, OnlyClient(u)
  PROVE  /\ Owned' = Owned /\ Current' = Current
         /\ Active' = IF at'[u] = "off" THEN Active \ {u} ELSE Active \cup {u}
         /\ contacts' = [contacts EXCEPT ![u] = contacts'[u]]
         /\ Kept' = [Kept EXCEPT ![u] = file'[u].contacts]
         /\ Replacing' = [Replacing EXCEPT
                            ![u] = IF job'[u].task = "add" THEN job'[u].peer ELSE NoUser]
<1>. USE DEF OnlyClient, Keeps
<1>1. Owned' = Owned /\ Current' = Current
  BY DEF Owned, Current, KeysOf, OwnKey
<1>2. Active' = IF at'[u] = "off" THEN Active \ {u} ELSE Active \cup {u}
  BY DEF Active
<1>3. contacts' = [contacts EXCEPT ![u] = contacts'[u]]
  BY DEF Typed
<1>4. Kept' = [Kept EXCEPT ![u] = file'[u].contacts]
  BY DEF Kept
<1>5. Replacing' = [Replacing EXCEPT
                      ![u] = IF job'[u].task = "add" THEN job'[u].peer ELSE NoUser]
  BY DEF Replacing
<1>. QED BY <1>1, <1>2, <1>3, <1>4, <1>5

------------------------------------------------------------------------------
(* The refinement. *)

\* Nothing is known, and the keys of different users are different.
LEMMA TrustInit == Init => Trust!Init
<1>. SUFFICES ASSUME Init PROVE Trust!Init
  OBVIOUS
<1>1. Typed
  BY InitFits DEF IInv
<1>2. Owned \in [Users -> SUBSET PublicKeys]
  BY DEF Owned, KeysOf
<1>3. \A u, w \in Users : u # w => Owned[u] \cap Owned[w] = {}
  BY DEF Owned, KeysOf
<1>4. Current \in [Users -> PublicKeys] /\ \A u \in Users : Current[u] \in Owned[u]
  <2>. SUFFICES ASSUME NEW u \in Users PROVE OwnKey(u) \in PublicKeys /\ OwnKey(u) \in KeysOf(u)
    BY DEF Current, Owned
  <2>. QED BY <1>1, ChatAssumption, SMT DEF OwnKey, KeysOf, PublicKeys, Typed
<1>5. Active = {} /\ Replacing = [u \in Users |-> NoUser]
  BY JobsAreJobs DEF Init, Active, Replacing
<1>6. contacts = [u \in Users |-> Trust!Nothing] /\ Kept = [u \in Users |-> Trust!Nothing]
  BY DEF Init, Kept, Absent, NoContacts, Trust!Nothing
<1>. QED BY <1>2, <1>3, <1>4, <1>5, <1>6 DEF Init, Trust!Init

\* What a client transmits is sent to the key it trusts, unless this is empty.
LEMMA TrustSend ==
  ASSUME NEW u \in Users, NEW peer \in Users, contacts[u][peer] # NoKey,
         Transmit(u, peer, contacts[u][peer]), sent' # sent, Trust!Keep(u),
         UNCHANGED <<Owned, Current, Active, contacts, Replacing>>
  PROVE  Trust!Send(u, peer)
BY DEF Transmit, Current, Trust!Send

\* A message that decrypts is shown or refused for the key its client trusts.
LEMMA TrustOpen ==
  ASSUME NEW u \in Users, NEW m \in 1 .. Len(sent), sent[m].to = u, Decrypts(u, m),
         Open(m, contacts[u][sent[m].from]), Trust!Keep(u),
         UNCHANGED <<Owned, Current, Active, contacts, Replacing>>
  PROVE  Trust!Show(u, m) \/ Trust!Refuse(u, m)
<1>1. Trust!Genuine(u, m) <=> KeyMatches(m, contacts[u][sent[m].from])
  BY DEF Trust!Genuine, Decrypts, KeyMatches, Current
<1>. QED BY <1>1 DEF Open, Trust!Show, Trust!Refuse

\* A new key of a user is nobody else's, and no earlier one of this user.
LEMMA TrustRekey ==
  ASSUME Typed, NEW u \in Users, Rekey(u)
  PROVE  \E k \in PublicKeys : Trust!Rekey(u, k)
<1>. DEFINE n == key[u] + 1
            k == [owner |-> u, number |-> n]
<1>1. n \in 1 .. MaxKeys /\ key' = [key EXCEPT ![u] = n] /\ key[u] \in Nat /\ n \in Nat
  BY ChatAssumption, SMT DEF Rekey, Typed
<1>2. k \in PublicKeys /\ \A w \in Users : OwnKey(w)' = IF w = u THEN k ELSE OwnKey(w)
  BY <1>1, ChatAssumption, SMT DEF PublicKeys, OwnKey, Typed
<1>3. Current' = [Current EXCEPT ![u] = k]
  BY <1>2 DEF Current
<1>4. \A w \in Users : k \notin KeysOf(w)
  BY <1>1, SMT DEF KeysOf
<1>5. \A w \in Users : KeysOf(w)' = IF w = u THEN KeysOf(w) \cup {k} ELSE KeysOf(w)
  <2>1. ASSUME NEW w \in Users, w # u PROVE KeysOf(w)' = KeysOf(w)
    BY <1>1, <2>1 DEF KeysOf, Typed
  <2>2. ASSUME NEW x \in PublicKeys PROVE x \in KeysOf(u)' <=> x \in KeysOf(u) \/ x = k
    <3>1. key'[u] = n /\ x.number \in Nat
      BY <1>1, ChatAssumption, SMT DEF PublicKeys, Typed
    <3>2. x.owner = u => (x = k <=> x.number = n)
      BY SMT DEF PublicKeys
    <3>3. x.number <= n <=> x.number <= key[u] \/ x.number = n
      BY <1>1, <3>1, SMT
    <3>. QED BY <1>1, <3>1, <3>2, <3>3, SMT DEF KeysOf
  <2>3. KeysOf(u) \subseteq PublicKeys /\ KeysOf(u)' \subseteq PublicKeys
    BY DEF KeysOf
  <2>4. KeysOf(u)' = KeysOf(u) \cup {k}
    BY <1>2, <2>2, <2>3
  <2>. QED BY <2>1, <2>4
<1>6. Owned' = [Owned EXCEPT ![u] = @ \cup {k}] /\ \A w \in Users : k \notin Owned[w]
  BY <1>4, <1>5 DEF Owned
<1>7. UNCHANGED <<Trust!books, sent, shown, rejected>>
  BY DEF Rekey, client, messages, Trust!books, Active, Kept, Replacing
<1>. QED BY <1>2, <1>3, <1>6, <1>7 DEF Trust!Rekey

\* The steps of a client that is running, by what they mean to its user.
LEMMA TrustNext ==
  ASSUME NEW u \in Users, at[u] # "off",
         \/ Trust!End(u) \/ Trust!Settle(u)
         \/ \E peer \in Users :
              \/ Trust!Ask(u, peer) \/ Trust!Send(u, peer)
              \/ \E k \in Owned[peer] : Trust!Learn(u, peer, k)
         \/ \E m \in 1 .. Len(sent) :
              sent[m].to = u /\ (Trust!Show(u, m) \/ Trust!Refuse(u, m)),
         sent \in Seq(Message)
  PROVE  Trust!Next
<1>1. u \in Active /\ DOMAIN sent = 1 .. Len(sent)
  BY DEF Active
<1>. QED BY <1>1 DEF Trust!Next

\* Every step is one of trust on first use, or leaves it alone.
LEMMA TrustStep ==
  ASSUME IInv, IInv', Steady, [Next]_vars
  PROVE  [Trust!Next]_Trust!trust
<1>. DEFINE Goal == [Trust!Next]_Trust!trust
<1>0. Typed /\ Typed' /\ \A u \in Users : ClientFits(u) /\ Asking(u) /\ Opening(u)
  BY DEF IInv, Steady
<1>. SUFFICES Goal
  OBVIOUS
<1>. HIDE DEF Goal
<1>1. ASSUME UNCHANGED <<Owned, Current, Active, contacts, Kept, Replacing, messages>>
      PROVE  Goal
  BY <1>1 DEF Goal, messages, Trust!trust, Trust!books
<1>2. ASSUME NEW u \in Users, Start(u) PROVE Goal
  <2>1. OnlyClient(u)
    BY <1>0, <1>2 DEF Start, Move, OnlyClient, Keeps, Typed
  <2>2. at[u] = "off" /\ contacts[u] = NoContacts /\ job[u].task = "none"
    BY <1>0, <1>2 DEF Start, Asking, ClientFits
  <2>3. /\ at'[u] # "off" /\ job'[u].task # "add"
        /\ contacts'[u] = file[u].contacts /\ file'[u].contacts = file[u].contacts
    BY <1>0, <1>2, <2>2, JobsAreJobs DEF Start, Move, Typed, Opening, Torn
  <2>4. /\ Active' = Active \cup {u} /\ contacts' = [contacts EXCEPT ![u] = Kept[u]]
        /\ Kept' = Kept /\ Replacing' = Replacing /\ Owned' = Owned /\ Current' = Current
    BY <1>0, <2>1, <2>2, <2>3, MappedStep DEF Kept, Replacing
  <2>5. Trust!Begin(u)
    BY <1>2, <2>4 DEF Start, messages, Trust!Begin
  <2>6. u \in Users \ Active
    BY <2>2 DEF Active
  <2>. QED BY <2>5, <2>6 DEF Goal, Trust!Next
<1>3. ASSUME NEW u \in Users, OnlyClient(u), UNCHANGED messages, at[u] # "off",
             at'[u] # "off", contacts'[u] = contacts[u], file'[u].contacts = file[u].contacts,
             job'[u].task = "add" <=> job[u].task = "add",
             job[u].task = "add" => job'[u].peer = job[u].peer
      PROVE  Goal
  <2>1. UNCHANGED <<Owned, Current, Active, contacts, Kept, Replacing>>
    <3>1. Owned' = Owned /\ Current' = Current
      BY <1>0, <1>3, MappedStep
    <3>2. \A w \in Users : /\ at'[w] = "off" <=> at[w] = "off"
                           /\ contacts'[w] = contacts[w] /\ file'[w].contacts = file[w].contacts
                           /\ job'[w].task = "add" <=> job[w].task = "add"
                           /\ job[w].task = "add" => job'[w].peer = job[w].peer
      BY <1>3 DEF OnlyClient, Keeps
    <3>3. contacts' = contacts
      BY <1>0, <3>2 DEF Typed
    <3>4. Active' = Active /\ Kept' = Kept /\ Replacing' = Replacing
      BY <3>2 DEF Active, Kept, Replacing
    <3>. QED BY <3>1, <3>3, <3>4
  <2>. QED BY <1>1, <1>3, <2>1
<1>4. ASSUME NEW u \in Users, Register(u) \/ Connect(u) \/ Disconnect(u) PROVE Goal
  <2>1. OnlyClient(u) /\ UNCHANGED <<messages, contacts, file>>
    BY <1>0, <1>4 DEF Register, Connect, Disconnect, Move, OnlyClient, Keeps, Typed
  <2>2. at[u] # "off" /\ at'[u] # "off" /\ job[u].task = "none" /\ job'[u].task = "none"
    BY <1>0, <1>4, JobsAreJobs
       DEF Register, Connect, Disconnect, Move, ClientFits, Typed
  <2>. QED BY <1>3, <2>1, <2>2
<1>5. ASSUME NEW u \in Users, at[u] # "off", OnlyClient(u), UNCHANGED <<messages, file>>,
             at'[u] = "off", job'[u] = NoJob, contacts'[u] = NoContacts
      PROVE  Goal
  <2>1. /\ Active' = Active \ {u} /\ contacts' = [contacts EXCEPT ![u] = Trust!Nothing]
        /\ Replacing' = [Replacing EXCEPT ![u] = NoUser]
        /\ UNCHANGED <<Owned, Current, Kept>>
    BY <1>0, <1>5, JobsAreJobs, MappedStep DEF Kept, NoContacts, Trust!Nothing
  <2>2. Trust!End(u)
    BY <1>5, <2>1 DEF messages, Trust!End
  <2>. QED BY <1>0, <1>5, <2>2, TrustNext DEF Typed, Goal
<1>6. ASSUME NEW u \in Users, Exit(u) PROVE Goal
  <2>1. OnlyClient(u)
    BY <1>0, <1>6 DEF Exit, Move, OnlyClient, Keeps, Typed
  <2>. QED BY <1>0, <1>5, <1>6, <2>1 DEF Exit, Move, Typed
<1>7. ASSUME NEW u \in Users, Rekey(u) PROVE Goal
  <2>1. u \in Users \ Active
    BY <1>7 DEF Rekey, Active
  <2>. QED BY <1>0, <1>7, <2>1, TrustRekey DEF Goal, Trust!Next
<1>8. ASSUME NEW u \in Users, NEW peer \in Users, AddContact(u, peer) PROVE Goal
  <2>1. OnlyClient(u)
    BY <1>0, <1>8 DEF AddContact, Move, OnlyClient, Keeps, Typed
  <2>2. at[u] = "idle" /\ at'[u] = "lookup" /\ job'[u].task = "add" /\ job'[u].peer = peer
    BY <1>0, <1>8 DEF AddContact, Move, Typed, Task
  <2>3. /\ Replacing' = [Replacing EXCEPT ![u] = peer]
        /\ UNCHANGED <<Owned, Current, Active, contacts, Kept>>
    BY <1>0, <1>8, <2>1, <2>2, MappedStep DEF AddContact, Active, Kept
  <2>4. Trust!Ask(u, peer)
    BY <1>8, <2>3 DEF AddContact, messages, Trust!Ask
  <2>. QED BY <1>0, <2>2, <2>4, TrustNext DEF Typed, Goal
<1>9. ASSUME NEW u \in Users, NEW peer \in Users, SendMessage(u, peer) PROVE Goal
  <2>1. OnlyClient(u) /\ UNCHANGED <<contacts, file>> /\ at[u] = "idle"
    BY <1>0, <1>9 DEF SendMessage, Move, OnlyClient, Keeps, Typed
  <2>2. CASE contacts[u][peer] # NoKey /\ Transmit(u, peer, contacts[u][peer])
             /\ UNCHANGED <<at, job>>
    <3>1. UNCHANGED <<Owned, Current, Active, contacts, Kept, Replacing>>
      BY <1>0, <2>1, <2>2, MappedStep DEF Active, Kept, Replacing
    <3>2. CASE sent' = sent
      BY <1>1, <2>2, <3>1, <3>2 DEF Transmit, messages
    <3>3. CASE sent' # sent
      <4>1. Trust!Send(u, peer)
        BY <2>2, <3>1, <3>3, TrustSend DEF Trust!Keep
      <4>. QED BY <1>0, <2>1, <4>1, TrustNext DEF Typed, Goal
    <3>. QED BY <3>2, <3>3
  <2>3. CASE Move(u, "lookup", Task("send", peer, 0)) /\ UNCHANGED messages
    <3>1. at'[u] = "lookup" /\ job'[u].task = "send" /\ job[u].task = "none"
      BY <1>0, <2>1, <2>3 DEF Move, Task, Typed, ClientFits
    <3>. QED BY <1>3, <2>1, <2>3, <3>1
  <2>. QED BY <1>9, <2>2, <2>3 DEF SendMessage
<1>10. ASSUME NEW u \in Users, NEW m \in 1 .. Len(sent), ReceiveMessage(u, m) PROVE Goal
  <2>1. OnlyClient(u) /\ UNCHANGED <<contacts, file>> /\ at[u] = "idle" /\ sent[m].to = u
    BY <1>0, <1>10 DEF ReceiveMessage, Move, OnlyClient, Keeps, Typed
  <2>2. ASSUME UNCHANGED <<at, job>>, Trust!Show(u, m) \/ Trust!Refuse(u, m) PROVE Goal
    BY <1>0, <2>1, <2>2, TrustNext DEF Typed, Goal
  <2>3. ASSUME UNCHANGED <<at, job>>
        PROVE  UNCHANGED <<Owned, Current, Active, contacts, Kept, Replacing>>
    BY <1>0, <2>1, <2>3, MappedStep DEF Active, Kept, Replacing
  <2>4. CASE ~Decrypts(u, m) /\ rejected' = rejected \cup {m} /\ UNCHANGED <<at, job, sent, shown>>
    <3>1. Trust!Refuse(u, m)
      BY <2>3, <2>4 DEF Trust!Refuse, Trust!Genuine, Trust!Keep, Decrypts, Current
    <3>. QED BY <2>2, <2>4, <3>1
  <2>5. CASE Decrypts(u, m) /\ Open(m, contacts[u][sent[m].from]) /\ UNCHANGED <<at, job>>
    <3>1. Trust!Show(u, m) \/ Trust!Refuse(u, m)
      BY <2>1, <2>3, <2>5, TrustOpen DEF Trust!Keep
    <3>. QED BY <2>2, <2>5, <3>1
  <2>6. CASE Move(u, "lookup", Task("receive", sent[m].from, m)) /\ UNCHANGED messages
    <3>1. at'[u] = "lookup" /\ job'[u].task = "receive" /\ job[u].task = "none"
      BY <1>0, <2>1, <2>6 DEF Move, Task, Typed, ClientFits
    <3>. QED BY <1>3, <2>1, <2>6, <3>1
  <2>. QED BY <1>10, <2>4, <2>5, <2>6 DEF ReceiveMessage
<1>11. ASSUME NEW u \in Users, LookupPublicKey(u) PROVE Goal
  <2>1. OnlyClient(u) /\ UNCHANGED <<contacts, file, messages>>
    BY <1>0, <1>11 DEF LookupPublicKey, Move, OnlyClient, Keeps, Typed
  <2>2. at[u] # "off" /\ at'[u] # "off" /\ job'[u] = job[u]
    BY <1>0, <1>11 DEF LookupPublicKey, Move, Typed
  <2>. QED BY <1>3, <2>1, <2>2
\* The user's request ends, whatever came of it.
<1>12. ASSUME NEW u \in Users, at[u] # "off", at'[u] # "off", OnlyClient(u), UNCHANGED messages,
              contacts'[u] = contacts[u], job'[u] = NoJob,
              file'[u].contacts \in {file[u].contacts, contacts[u]}
       PROVE  Goal
  <2>1. contacts' = contacts /\ Active' = Active
    BY <1>0, <1>12 DEF OnlyClient, Keeps, Typed, Active
  <2>2. /\ Replacing' = [Replacing EXCEPT ![u] = NoUser]
        /\ Kept' = [Kept EXCEPT ![u] = file'[u].contacts]
        /\ UNCHANGED <<Owned, Current>>
    BY <1>0, <1>12, JobsAreJobs, MappedStep
  <2>3. Trust!Keep(u)
    BY <1>12, <2>2 DEF Kept, Trust!Keep
  <2>4. Trust!Settle(u)
    BY <1>12, <2>1, <2>2, <2>3 DEF messages, Trust!Settle
  <2>. QED BY <1>0, <1>12, <2>4, TrustNext DEF Typed, Goal
<1>13. ASSUME NEW u \in Users, NotFound(u) PROVE Goal
  <2>1. OnlyClient(u) /\ UNCHANGED <<contacts, file>> /\ job'[u] = NoJob
    BY <1>0, <1>13 DEF NotFound, Move, OnlyClient, Keeps, Typed
  <2>2. at[u] = "answered" /\ at'[u] = "idle" /\ UNCHANGED messages
    BY <1>0, <1>13 DEF NotFound, Move, Typed, ClientFits, messages
  <2>. QED BY <1>12, <2>1, <2>2
\* The answer enters the book: the contact is new, or the user asked for it.
<1>14. ASSUME NEW u \in Users, at[u] = "answered", answer[u] # NoKey, at'[u] # "off",
              OnlyClient(u), UNCHANGED messages, contacts' = [contacts EXCEPT ![u] = WithAnswer(u)],
              file'[u].contacts = file[u].contacts,
              job'[u] = job[u] \/ (job[u].task # "add" /\ job'[u].task # "add")
       PROVE  Goal
  <2>. DEFINE peer == job[u].peer
  <2>1. /\ peer \in Users /\ answer[u] \in KeysOf(peer)
        /\ contacts[u][peer] = NoKey \/ job[u].task = "add"
    BY <1>0, <1>14 DEF ClientFits, Asking
  <2>2. contacts' = [contacts EXCEPT ![u][peer] = answer[u]]
    BY <1>14 DEF WithAnswer
  <2>3. /\ Active' = Active /\ Kept' = Kept /\ Replacing' = Replacing
        /\ UNCHANGED <<Owned, Current>>
    <3>1. Active' = Active /\ UNCHANGED <<Owned, Current>>
      BY <1>0, <1>14, MappedStep DEF Active
    <3>2. Kept' = Kept
      BY <1>0, <1>14, MappedStep DEF Kept
    <3>3. Replacing' = Replacing
      BY <1>14 DEF Replacing, OnlyClient, Keeps
    <3>. QED BY <3>1, <3>2, <3>3
  <2>4. answer[u] \in Owned[peer] /\ (contacts[u][peer] = NoKey \/ Replacing[u] = peer)
    BY <2>1 DEF Owned, Replacing
  <2>5. Trust!Learn(u, peer, answer[u])
    BY <1>14, <2>2, <2>3, <2>4 DEF messages, Trust!Learn
  <2>. QED BY <1>0, <1>14, <2>1, <2>4, <2>5, TrustNext DEF Typed, Goal
<1>15. ASSUME NEW u \in Users, InsertContact(u) PROVE Goal
  <2>1. OnlyClient(u)
    BY <1>0, <1>15 DEF InsertContact, Move, OnlyClient, Keeps, Typed
  <2>2. at'[u] # "off" /\ job'[u] = job[u] /\ file'[u].contacts = file[u].contacts
    BY <1>0, <1>15 DEF InsertContact, Move, Typed, Torn
  <2>3. /\ at[u] = "answered" /\ answer[u] # NoKey /\ messages' = messages
        /\ contacts' = [contacts EXCEPT ![u] = WithAnswer(u)]
    BY <1>15 DEF InsertContact
  <2>. QED BY <1>14, <2>1, <2>2, <2>3
<1>16. ASSUME NEW u \in Users, Save(u) PROVE Goal
  <2>1. OnlyClient(u) /\ at[u] = "saving" /\ contacts' = contacts
    BY <1>0, <1>16 DEF Save, Move, OnlyClient, Keeps, Typed
  <2>2. at'[u] \in {"idle", "registering"} /\ job'[u] = NoJob /\ file'[u].contacts = contacts[u]
    BY <1>0, <1>16 DEF Save, Move, Typed, Complete, Book
  <2>3. CASE UNCHANGED messages
    BY <1>12, <2>1, <2>2, <2>3
  <2>. DEFINE peer == job[u].peer
              m == job[u].message
  <2>4. ASSUME job[u].task \in {"send", "receive"}
        PROVE  UNCHANGED <<Owned, Current, Active, contacts, Replacing>> /\ Trust!Keep(u)
    <3>1. Active' = Active /\ Owned' = Owned /\ Current' = Current
      BY <1>0, <2>1, <2>2, MappedStep DEF Active
    <3>2. Replacing' = Replacing
      BY <1>0, <2>1, <2>2, <2>4, JobsAreJobs, MappedStep DEF Replacing
    <3>3. Kept' = [Kept EXCEPT ![u] = contacts[u]]
      BY <1>0, <2>1, <2>2, MappedStep
    <3>. QED BY <2>1, <3>1, <3>2, <3>3 DEF Trust!Keep
  <2>5. CASE job[u].task = "send" /\ Transmit(u, peer, contacts[u][peer])
    <3>1. peer \in Users /\ contacts[u][peer] # NoKey
      BY <1>0, <2>1, <2>5 DEF ClientFits
    <3>2. CASE sent' # sent
      <4>1. Trust!Send(u, peer)
        BY <2>4, <2>5, <3>1, <3>2, TrustSend
      <4>. QED BY <1>0, <2>1, <3>1, <4>1, TrustNext DEF Typed, Goal
    <3>3. CASE sent' = sent
      BY <2>3, <2>5, <3>3 DEF Transmit, messages
    <3>. QED BY <3>2, <3>3
  <2>6. CASE job[u].task = "receive" /\ Open(m, contacts[u][peer])
    <3>1. /\ m \in 1 .. Len(sent) /\ sent[m].from = peer /\ sent[m].to = u /\ Decrypts(u, m)
      BY <1>0, <2>6 DEF ClientFits, Opening
    <3>2. Trust!Show(u, m) \/ Trust!Refuse(u, m)
      BY <2>4, <2>6, <3>1, TrustOpen
    <3>. QED BY <1>0, <2>1, <3>1, <3>2, TrustNext DEF Typed, Goal
  <2>. QED BY <1>16, <2>3, <2>5, <2>6 DEF Save
<1>17. ASSUME NEW u \in Users, NEW book, at[u] # "off", Fail(u, book), UNCHANGED file,
              \/ book = contacts[u]
              \/ at[u] = "answered" /\ answer[u] # NoKey /\ book = WithAnswer(u)
       PROVE  Goal
  <2>1. OnlyClient(u) /\ job'[u] = NoJob /\ UNCHANGED messages
    BY <1>0, <1>17 DEF Fail, Move, OnlyClient, Keeps, Typed
  <2>2. CASE job[u].task \in {"start", "add"}
    <3>1. at'[u] = "off" /\ contacts'[u] = NoContacts
      BY <1>0, <1>17, <2>2 DEF Fail, Move, Typed
    <3>. QED BY <1>5, <1>17, <2>1, <3>1
  <2>3. CASE job[u].task \notin {"start", "add"}
    <3>1. at'[u] = "idle" /\ contacts' = [contacts EXCEPT ![u] = book] /\ job'[u].task # "add"
      BY <1>0, <1>17, <2>1, <2>3, JobsAreJobs DEF Fail, Move, Typed
    <3>2. CASE book = contacts[u]
      BY <1>0, <1>12, <1>17, <2>1, <3>1, <3>2 DEF Typed
    <3>3. CASE at[u] = "answered" /\ answer[u] # NoKey /\ book = WithAnswer(u)
      BY <1>14, <1>17, <2>1, <2>3, <3>1, <3>3
    <3>. QED BY <1>17, <3>2, <3>3
  <2>. QED BY <2>2, <2>3
<1>18. ASSUME NEW u \in Users, LookupFails(u) \/ SaveFails(u) PROVE Goal
  BY <1>17, <1>18 DEF LookupFails, SaveFails
<1>19. CASE UNCHANGED vars
  <2>1. messages' = messages /\ contacts' = contacts
    BY <1>19 DEF vars, client
  <2>2. Owned' = Owned /\ Current' = Current
    BY <1>19 DEF vars, Owned, Current, KeysOf, OwnKey
  <2>3. Active' = Active /\ Kept' = Kept /\ Replacing' = Replacing
    BY <1>19 DEF vars, client, Active, Kept, Replacing
  <2>. QED BY <1>1, <2>1, <2>2, <2>3
<1>. QED BY <1>2, <1>4, <1>6, <1>7, <1>8, <1>9, <1>10, <1>11, <1>13, <1>15, <1>16, <1>18,
            <1>19 DEF Next, Proceed

\* Whatever clients look up, save, lose, exit and restart, and whatever the relay
\* reorders and repeats, they keep to trust on first use: they encrypt for the
\* keys they trust, show exactly the messages that come with them, and go on to
\* trust them until the user asks otherwise.
THEOREM TrustOnFirstUse == Spec => ImplementsTrust
<1>1. Spec => [](IInv /\ Steady)
  BY InvariantCorrect, SteadyInit, SteadyStep, PTL DEF Spec
<1>2. IInv /\ IInv' /\ Steady /\ [Next]_vars => [Trust!Next]_Trust!trust
  BY TrustStep
<1>. QED BY <1>1, <1>2, TrustInit, PTL DEF Spec, ImplementsTrust, Trust!Spec

==============================================================================
