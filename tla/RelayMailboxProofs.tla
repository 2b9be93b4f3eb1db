------------------------- MODULE RelayMailboxProofs -------------------------
(***************************************************************************)
(* The relay implements a mailbox, for every number of users, connections, *)
(* envelopes and restarts, whatever SQL statements fail.                   *)
(***************************************************************************)
EXTENDS RelayProofs, RelayMailbox

Waits(p) == Handled(p) \/ Stored(p) \/ Outbound(p) \/ Loaded(p)

\* The relay only holds envelopes it has accepted.
LEMMA WaitingIsAccepted ==
  ASSUME Bookkeeping, PayloadsAddressed
  PROVE  Waiting \subseteq Accepted
<1>1. ASSUME NEW p \in Payloads, Handled(p) \/ Stored(p) \/ Outbound(p) \/ Loaded(p)
      PROVE  p \in Accepted
  BY <1>1 DEF Bookkeeping, TasksFollowPhase, PayloadsAddressed, AcceptedFor, Handled, Stored,
              Outbound, Loaded, NoPayload, Payloads
<1>. QED BY <1>1 DEF Waiting

\* A step that puts no envelope in a new place, and reports the copies it drops,
\* is one of the mailbox: what it takes from its last place has been delivered
\* or lost, because nothing vanishes.
LEMMA LoseStep ==
  ASSUME Bookkeeping, PayloadsAddressed, NothingVanishes',
         UNCHANGED <<envelopes, received>>,
         NEW copies \in SUBSET Waiting, lost' = lost \cup copies,
         \A p \in Payloads : Waits(p)' => Waits(p)
  PROVE  Mail!Next
<1>1. Waiting' \subseteq Waiting
  BY DEF Waiting, Waits, Payloads
<1>2. ASSUME NEW p \in Waiting, p \notin Waiting'
      PROVE  p \in Mail!Delivered \cup lost'
  <2>1. p \in Accepted' /\ p \in Payloads
    BY WaitingIsAccepted DEF Accepted, Waiting
  <2>2. Somewhere(p)'
    BY <2>1 DEF NothingVanishes
  <2>3. ~(Handled(p)') /\ ~(Stored(p)') /\ ~(Outbound(p)')
    BY <1>2, <2>1 DEF Waiting
  <2>4. Delivered(p)' \/ p \in lost'
    BY <2>2, <2>3 DEF Somewhere
  <2>. QED BY <2>4 DEF Delivered, Elements, Mail!Delivered
<1>3. UNCHANGED RecipientOf
  BY DEF RecipientOf, Accepted
<1>4. Mail!Lose(copies)
  BY <1>1, <1>2, <1>3 DEF Mail!Lose
<1>. QED BY <1>4 DEF Mail!Next

\* A step that neither moves nor settles an envelope leaves the mailbox alone.
LEMMA MailUntouched ==
  ASSUME UNCHANGED <<channel, inHand, handling, snapshot, queuedMessages, envelopes,
                     received, lost>>
  PROVE  UNCHANGED Mail!mail
<1>1. \A p \in Payloads : Waits(p)' <=> Waits(p)
  BY DEF Waits, Handled, Stored, Outbound, Loaded
<1>. QED BY <1>1 DEF Mail!mail, RecipientOf, Accepted, Waiting, Waits, Payloads

\* A relay that has just started is an empty mailbox.
LEMMA MailInit == Init => Mail!Init
<1>. SUFFICES ASSUME Init PROVE Mail!Init
  OBVIOUS
<1>1. Accepted = {}
  BY DEF Init, Accepted
<1>2. Waiting = {}
  BY EmptyElements DEF Init, Waiting, Handled, Stored, Outbound, Loaded, NoPayload, Payloads
<1>. QED BY <1>1, <1>2 DEF Init, Mail!Init, RecipientOf

\* Every step of the relay is a step of the mailbox, or leaves it alone.
LEMMA MailStep ==
  Bookkeeping /\ PayloadsAddressed /\ NothingVanishes' /\ [Next]_vars
    => [Mail!Next]_(Mail!mail)
<1>. SUFFICES ASSUME Bookkeeping, PayloadsAddressed, NothingVanishes', [Next]_vars
              PROVE  Mail!Next \/ UNCHANGED Mail!mail
  OBVIOUS
<1>. USE DEF registry, mainVars, sendVars, recvVars, database, history, NoConnection, NoPayload
<1>0. /\ channel \in [Connections -> Seq(Payloads)]
      /\ inHand \in [Connections -> Payloads \cup {0}]
      /\ handling \in [Connections -> Payloads \cup {0}]
      /\ snapshot \in [Connections -> SUBSET Row]
      /\ received \in [ValidNames -> Seq(Payloads)]
      /\ envelopes \in Seq(Envelope)
      /\ lost \in SUBSET Payloads
      /\ 0 \notin Payloads
  BY DEF Bookkeeping, TypeOK, Payloads
<1>. HIDE DEF Payloads
<1>1. ASSUME UNCHANGED <<envelopes, received, lost>>, \A p \in Payloads : Waits(p)' => Waits(p)
      PROVE  Mail!Next
  <2>1. {} \in SUBSET Waiting /\ lost' = lost \cup {} /\ UNCHANGED <<envelopes, received>>
    BY <1>1
  <2>. QED BY <1>1, <2>1, LoseStep
<1>2. ASSUME NEW c \in Connections, LoadQueue(c) PROVE Mail!Next
  <2>1. \A d \in Connections : snapshot'[d] \subseteq snapshot[d] \cup queuedMessages
    BY <1>0, <1>2 DEF LoadQueue, RowsFor
  <2>. QED BY <1>1, <1>2, <2>1 DEF LoadQueue, Waits, Handled, Stored, Outbound, Loaded
<1>3. ASSUME NEW c \in Connections, ForwardQueued(c) PROVE Mail!Next
  <2>. DEFINE q == FirstRow(snapshot[c]).payload
  <2>1. q \in Payloads /\ Loaded(q)
    <3>1. FirstRow(snapshot[c]) \in snapshot[c]
      BY <1>0, <1>3, FirstRowIsARow DEF ForwardQueued
    <3>. QED BY <1>0, <3>1 DEF Row, Loaded
  <2>2. channel' = [channel EXCEPT ![c] = Append(@, q)]
        /\ UNCHANGED <<inHand, handling, snapshot, queuedMessages, envelopes, received, lost>>
    BY <1>3 DEF ForwardQueued
  <2>. HIDE DEF q
  <2>3. Elements(Append(channel[c], q)) = Elements(channel[c]) \cup {q}
    BY <1>0, <2>1, AppendElements
  <2>4. \A d \in Connections : Elements(channel'[d]) \subseteq Elements(channel[d]) \cup {q}
    BY <1>0, <2>2, <2>3
  <2>5. \A p : Outbound(p)' => Outbound(p) \/ p = q
    BY <2>2, <2>4 DEF Outbound
  <2>6. \A p : Handled(p)' = Handled(p) /\ Stored(p)' = Stored(p) /\ Loaded(p)' = Loaded(p)
    BY <2>2 DEF Handled, Stored, Loaded
  <2>. QED BY <1>1, <2>1, <2>2, <2>5, <2>6 DEF Waits
<1>4. ASSUME NEW c \in Connections, DeleteQueued(c) \/ DeleteFails(c) PROVE Mail!Next
  <2>1. /\ \A d \in Connections : snapshot'[d] \subseteq snapshot[d]
        /\ queuedMessages' \subseteq queuedMessages
        /\ UNCHANGED <<channel, inHand, handling, envelopes, received, lost>>
    BY <1>0, <1>4 DEF DeleteQueued, DeleteFails
  <2>. QED BY <1>1, <2>1 DEF Waits, Handled, Stored, Outbound, Loaded
<1>5. ASSUME NEW c \in Connections, TakePayload(c) PROVE Mail!Next
  <2>1. Elements(channel[c]) = {Head(channel[c])} \cup Elements(Tail(channel[c]))
    BY <1>0, <1>5, HeadElements DEF TakePayload
  <2>2. \A d \in Connections : /\ Elements(channel'[d]) \subseteq Elements(channel[d])
                               /\ inHand'[d] = inHand[d] \/ inHand'[d] \in Elements(channel[d])
    BY <1>0, <1>5, <2>1 DEF TakePayload
  <2>3. UNCHANGED <<handling, snapshot, queuedMessages, envelopes, received, lost>>
    BY <1>5 DEF TakePayload
  <2>. QED BY <1>1, <2>2, <2>3 DEF Waits, Handled, Stored, Outbound, Loaded
<1>6. ASSUME NEW c \in Connections, WritePayload(c) PROVE Mail!Next
  <2>1. /\ inHand[c] \in Payloads
        /\ inHand' = [inHand EXCEPT ![c] = 0]
        /\ UNCHANGED <<channel, handling, snapshot, queuedMessages, envelopes>>
        /\ AcceptedFor(inHand[c], owner[c])
    BY <1>0, <1>6 DEF WritePayload, Bookkeeping, TasksFollowPhase, PayloadsAddressed
  <2>2. inHand[c] \in Waiting
    BY <2>1 DEF Waiting, Outbound
  <2>3. \A p \in Payloads : Waits(p)' => Waits(p)
    BY <1>0, <2>1 DEF Waits, Handled, Stored, Outbound, Loaded
  <2>4. \A p \in Payloads \ {inHand[c]} : Waits(p) => Waits(p)'
    BY <1>0, <2>1 DEF Waits, Handled, Stored, Outbound, Loaded
  <2>5. CASE link[c] = "up"
    <3>1. Waiting' \in {Waiting, Waiting \ {inHand[c]}}
      <4>1. Waiting' = {p \in Payloads : Waits(p)'} /\ Waiting = {p \in Payloads : Waits(p)}
        BY DEF Waiting, Waits, Payloads
      <4>2. Waiting' \subseteq Waiting /\ Waiting \ {inHand[c]} \subseteq Waiting'
        BY <2>3, <2>4, <4>1
      <4>. QED BY <4>2
    <3>2. RecipientOf[inHand[c]] = owner[c] /\ UNCHANGED RecipientOf
      BY <2>1 DEF RecipientOf, AcceptedFor, Accepted
    <3>3. received' = [received EXCEPT ![owner[c]] = Append(@, inHand[c])] /\ UNCHANGED lost
      BY <1>6, <2>5 DEF WritePayload
    <3>4. Mail!Deliver(inHand[c])
      BY <2>2, <3>1, <3>2, <3>3 DEF Mail!Deliver
    <3>. QED BY <2>1, <3>4 DEF Mail!Next
  <2>6. CASE link[c] # "up"
    <3>1. lost' = lost \cup {inHand[c]} /\ UNCHANGED received
      BY <1>6, <2>6 DEF WritePayload
    <3>. QED BY <2>1, <2>2, <2>3, <3>1, LoseStep
  <2>. QED BY <2>5, <2>6
<1>7. ASSUME NEW c \in Connections, EndSendTask(c) PROVE Mail!Next
  <2>. DEFINE copies == Elements(channel[c]) \cup ({inHand[c]} \ {0})
  <2>1. copies \in SUBSET Waiting
    <3>1. Elements(channel[c]) \in SUBSET Payloads
      BY <1>0, ElementsType
    <3>. QED BY <1>0, <3>1 DEF Waiting, Outbound
  <2>2. /\ lost' = lost \cup copies
        /\ channel' = [channel EXCEPT ![c] = <<>>]
        /\ inHand' = [inHand EXCEPT ![c] = 0]
        /\ UNCHANGED <<handling, snapshot, queuedMessages, envelopes, received>>
    BY <1>7 DEF EndSendTask
  <2>3. \A d \in Connections : Elements(channel'[d]) \subseteq Elements(channel[d])
          /\ (inHand'[d] = inHand[d] \/ inHand'[d] = 0)
    BY <1>0, <2>2, EmptyElements
  <2>4. \A p \in Payloads : Waits(p)' => Waits(p)
    BY <1>0, <2>2, <2>3 DEF Waits, Handled, Stored, Outbound, Loaded
  <2>. QED BY <2>1, <2>2, <2>4, LoseStep
<1>8. ASSUME NEW c \in Connections, NEW from \in Names, NEW to \in Names,
             AcceptFrame(c, from, to)
      PROVE  Mail!Next
  <2>. DEFINE n == Len(envelopes) + 1
  <2>1. /\ n \in Payloads /\ n \notin Accepted /\ Accepted' = Accepted \cup {n} /\ to \in ValidNames
        /\ \A p \in Accepted : envelopes'[p] = envelopes[p]
        /\ envelopes'[n].to = to
    <3>1. /\ Len(envelopes) \in Nat /\ Len(envelopes) < MaxPayloads /\ to \in ValidNames
          /\ envelopes' = Append(envelopes, [connection |-> c, from |-> from, to |-> to])
      BY <1>0, <1>8 DEF AcceptFrame, Routable
    <3>2. Len(envelopes') = n /\ envelopes'[n] = [connection |-> c, from |-> from, to |-> to]
          /\ \A p \in 1 .. Len(envelopes) : envelopes'[p] = envelopes[p]
      BY <1>0, <3>1
    <3>. QED BY <3>1, <3>2, RelayAssumption DEF Accepted, Payloads
  <2>2. /\ handling[c] = 0 /\ handling' = [handling EXCEPT ![c] = n]
        /\ UNCHANGED <<channel, inHand, snapshot, queuedMessages, received, lost>>
    BY <1>8 DEF AcceptFrame, Bookkeeping, TasksFollowPhase
  <2>. HIDE DEF n
  <2>3. RecipientOf[n] = NoName /\ RecipientOf' = [RecipientOf EXCEPT ![n] = to]
    BY <2>1 DEF RecipientOf
  <2>4. \A p \in Payloads : Waits(p)' <=> Waits(p) \/ p = n
    BY <1>0, <2>1, <2>2 DEF Waits, Handled, Stored, Outbound, Loaded
  <2>5. Waiting' = Waiting \cup {n}
    BY <2>1, <2>4 DEF Waiting, Waits, Payloads
  <2>6. Mail!Accept(n, to)
    BY <2>2, <2>3, <2>5 DEF Mail!Accept
  <2>. QED BY <2>1, <2>6 DEF Mail!Next
<1>9. ASSUME NEW c \in Connections, RelayPayload(c) PROVE Mail!Next
  <2>1. /\ handling[c] \in Payloads /\ target[c] \in Connections
        /\ channel' = [channel EXCEPT ![target[c]] = Append(@, handling[c])]
        /\ handling' = [handling EXCEPT ![c] = 0]
        /\ UNCHANGED <<inHand, snapshot, queuedMessages, envelopes, received, lost>>
    BY <1>0, <1>9 DEF RelayPayload, Bookkeeping, TypeOK, TasksFollowPhase
  <2>2. \A d \in Connections : Elements(channel'[d]) \subseteq Elements(channel[d]) \cup {handling[c]}
    <3>1. ASSUME NEW d \in Connections
          PROVE  Elements(Append(channel[d], handling[c])) = Elements(channel[d]) \cup {handling[c]}
      BY <1>0, <2>1, AppendElements
    <3>. QED BY <1>0, <2>1, <3>1
  <2>. QED BY <1>0, <1>1, <2>1, <2>2 DEF Waits, Handled, Stored, Outbound, Loaded
<1>10. ASSUME NEW c \in Connections, StorePayload(c) PROVE Mail!Next
  <2>. DEFINE new == [id |-> NewRowId, recipient |-> Recipient(c), payload |-> handling[c]]
  <2>1. /\ queuedMessages' = queuedMessages \cup {new} /\ new.payload = handling[c]
        /\ handling' = [handling EXCEPT ![c] = 0]
        /\ UNCHANGED <<channel, inHand, snapshot, envelopes, received, lost>>
    BY <1>10 DEF StorePayload
  <2>. HIDE DEF new
  <2>2. \A p \in Payloads : Waits(p)' => Waits(p)
    BY <1>0, <2>1 DEF Waits, Handled, Stored, Outbound, Loaded
  <2>. QED BY <1>1, <2>1, <2>2
<1>11. ASSUME NEW c \in Connections, StoreFails(c) \/ EndReceiveTask(c) PROVE Mail!Next
  <2>. DEFINE copies == {handling[c]} \ {0}
  <2>1. /\ lost' = lost \cup copies
        /\ handling' = [handling EXCEPT ![c] = 0]
        /\ UNCHANGED <<channel, inHand, snapshot, queuedMessages, envelopes, received>>
    BY <1>0, <1>11 DEF StoreFails, EndReceiveTask, Bookkeeping, TasksFollowPhase
  <2>2. copies \in SUBSET Waiting
    BY <1>0 DEF Waiting, Handled
  <2>3. \A p \in Payloads : Waits(p)' => Waits(p)
    BY <1>0, <2>1 DEF Waits, Handled, Stored, Outbound, Loaded
  <2>. QED BY <2>1, <2>2, <2>3, LoseStep
<1>12. CASE Restart
  <2>1. /\ lost' = lost \cup InMemory
        /\ handling' = [c \in Connections |-> 0]
        /\ inHand' = [c \in Connections |-> 0]
        /\ channel' = [c \in Connections |-> <<>>]
        /\ snapshot' = [c \in Connections |-> {}]
        /\ UNCHANGED <<queuedMessages, envelopes, received>>
    BY <1>12 DEF Restart
  <2>2. InMemory \in SUBSET Waiting
    <3>1. ASSUME NEW p \in InMemory
          PROVE  p # 0 /\ \E d \in Connections :
                   p \in Elements(channel[d]) \/ p = inHand[d] \/ p = handling[d]
      BY <3>1 DEF InMemory
    <3>2. \A d \in Connections : Elements(channel[d]) \in SUBSET Payloads
      BY <1>0, ElementsType
    <3>. QED BY <1>0, <3>1, <3>2 DEF Waiting, Handled, Outbound
  <2>3. \A p \in Payloads : Waits(p)' => Waits(p)
    BY <1>0, <2>1, EmptyElements DEF Waits, Handled, Stored, Outbound, Loaded
  <2>. QED BY <2>1, <2>2, <2>3, LoseStep
<1>13. CASE UNCHANGED vars
  BY <1>13, MailUntouched DEF vars
<1>14. ASSUME NEW c \in Connections, MainTask(c) PROVE Mail!Next \/ UNCHANGED Mail!mail
  BY <1>2, <1>3, <1>4, <1>14, MailUntouched
  DEF MainTask, Register, SpawnTasks, Select, Unregister
<1>15. ASSUME NEW c \in Connections, SendTask(c) PROVE Mail!Next
  BY <1>5, <1>6, <1>7, <1>15 DEF SendTask
<1>16. ASSUME NEW c \in Connections, ReceiveTask(c) PROVE Mail!Next \/ UNCHANGED Mail!mail
  BY <1>9, <1>10, <1>11, <1>16, MailUntouched DEF ReceiveTask, LookupRecipient, RelayFails
<1>17. CASE Environment
  BY <1>8, <1>12, <1>17, MailUntouched DEF Environment, Connect, LinkChanges
<1>. QED BY <1>13, <1>14, <1>15, <1>16, <1>17 DEF Next

\* The relay implements the mailbox: whatever it does with connections, tasks,
\* channels and rows, an envelope is only delivered to its recipient and while
\* it waits, and it leaves the relay only when it was delivered or lost.
THEOREM RelayIsAMailbox == Spec => ImplementsMailbox
<1>. USE DEF ImplementsMailbox, Mail!Spec
<1>1. Spec => [](Bookkeeping /\ PayloadsAddressed /\ NothingVanishes)
  BY BookkeepingCorrect, DeliveryCorrect, NothingVanishesCorrect, PTL
<1>. QED BY <1>1, MailInit, MailStep, PTL DEF Spec

=============================================================================
