----------------------------- MODULE RelayProofs -----------------------------
(***************************************************************************)
(* Proofs about Relay for every set of users and every number of           *)
(* connections, envelopes and restarts, whatever SQL statements fail and   *)
(* however sessions overlap.                                               *)
(***************************************************************************)
EXTENDS RelayProperties, FiniteSetTheorems, WellFoundedInduction, TLAPS

(* Lemmas about the operators of the model. *)

\* A nonempty set of naturals has a least element.
LEMMA LeastExists ==
  ASSUME NEW T \in SUBSET Nat, T # {}
  PROVE  \E x \in T : \A y \in T : x <= y
<1>. DEFINE Below == {0 .. n - 1 : n \in T}
<1>1. Below \in SUBSET FiniteSubsetsOf(Nat)
  <2>. SUFFICES ASSUME NEW n \in T PROVE 0 .. n-1 \in FiniteSubsetsOf(Nat)
    OBVIOUS
  <2>1. IsFiniteSet(0 .. n-1)
    BY FS_Interval
  <2>. QED BY <2>1 DEF FiniteSubsetsOf
<1>2. Below # {}
  OBVIOUS
<1>3. PICK b \in Below : \A a \in Below : <<a, b>> \notin StrictSubsetOrdering(Nat)
  <2>1. IsWellFoundedOn(StrictSubsetOrdering(Nat), FiniteSubsetsOf(Nat))
    BY FS_StrictSubsetOrderingWellFounded
  <2>. HIDE DEF Below
  <2>. QED BY <1>1, <1>2, <2>1, WFMin
<1>4. PICK x \in T : b = 0 .. x-1
  OBVIOUS
<1>5. ASSUME NEW y \in T, y < x PROVE FALSE
  <2>1. 0 .. y-1 \subseteq 0 .. x-1 /\ y \in 0 .. x-1 /\ y \notin 0 .. y-1
    BY <1>5
  <2>2. 0 .. y-1 \in Below
    OBVIOUS
  <2>3. ASSUME NEW A \in SUBSET Nat, NEW B \in SUBSET Nat, A \subseteq B, A # B
        PROVE  <<A, B>> \in StrictSubsetOrdering(Nat)
    BY <2>3 DEF StrictSubsetOrdering
  <2>4. 0 .. y-1 \in SUBSET Nat /\ 0 .. x-1 \in SUBSET Nat
    OBVIOUS
  <2>. QED BY <1>3, <1>4, <2>1, <2>2, <2>3, <2>4
<1>. QED BY <1>5

\* ORDER BY id: the first row of a nonempty result is one of its rows.
LEMMA FirstRowIsARow ==
  ASSUME NEW rows \in SUBSET Row, rows # {}
  PROVE  FirstRow(rows) \in rows
<1>1. {row.id : row \in rows} \in SUBSET Nat /\ {row.id : row \in rows} # {}
  BY DEF Row
<1>2. PICK id \in {row.id : row \in rows} : \A other \in {row.id : row \in rows} : id <= other
  BY <1>1, LeastExists
<1>3. \E row \in rows : \A other \in rows : row.id <= other.id
  BY <1>2
<1>. QED BY <1>3 DEF FirstRow

\* What a send to a channel and a receive from it do to its contents.
LEMMA AppendElements ==
  ASSUME NEW S, NEW s \in Seq(S), NEW e \in S
  PROVE  Elements(Append(s, e)) = Elements(s) \cup {e}
<1>1. Len(Append(s, e)) = Len(s) + 1 /\ Len(s) \in Nat
  OBVIOUS
<1>2. \A i \in 1 .. Len(s) : Append(s, e)[i] = s[i]
  OBVIOUS
<1>3. Append(s, e)[Len(s) + 1] = e
  OBVIOUS
<1>4. \A i \in 1 .. Len(s) + 1 : i \in 1 .. Len(s) \/ i = Len(s) + 1
  BY <1>1
<1>. QED BY <1>1, <1>2, <1>3, <1>4 DEF Elements

\* A receive from a channel takes out its first payload and leaves the others.
LEMMA HeadElements ==
  ASSUME NEW S, NEW s \in Seq(S), s # <<>>
  PROVE  /\ Head(s) \in S
         /\ Tail(s) \in Seq(S)
         /\ Elements(s) = {Head(s)} \cup Elements(Tail(s))
<1>1. /\ Head(s) = s[1] /\ Head(s) \in S /\ Tail(s) \in Seq(S)
      /\ Len(s) \in Nat \ {0} /\ Len(Tail(s)) = Len(s) - 1
  OBVIOUS
<1>2. \A i \in 1 .. Len(s) - 1 : Tail(s)[i] = s[i + 1]
  OBVIOUS
<1>3. \A i \in 1 .. Len(s) : i = 1 \/ i - 1 \in 1 .. Len(s) - 1
  BY <1>1
<1>4. \A i \in 1 .. Len(s) : s[i] \in {Head(s)} \cup Elements(Tail(s))
  BY <1>1, <1>2, <1>3 DEF Elements
<1>5. \A i \in 1 .. Len(s) - 1 : Tail(s)[i] \in Elements(s)
  BY <1>1, <1>2 DEF Elements
<1>6. Head(s) \in Elements(s)
  BY <1>1 DEF Elements
<1>. QED BY <1>1, <1>4, <1>5, <1>6 DEF Elements

\* What a channel holds are payloads.
LEMMA ElementsType ==
  ASSUME NEW S, NEW s \in Seq(S)
  PROVE  Elements(s) \in SUBSET S
BY DEF Elements

\* The channel of a new connection holds nothing.
LEMMA EmptyElements == Elements(<<>>) = {}
BY DEF Elements

------------------------------------------------------------------------------
(* Types and the control state of the tasks. *)

Bookkeeping == TypeOK /\ TasksFollowPhase /\ ConnectionsDrawn

\* The envelope in the hands of a receive task has a valid recipient, because
\* handle_encrypted_payload checks it before it looks the recipient up.
LEMMA RecipientIsValid ==
  ASSUME TypeOK, NEW c \in Connections, handling[c] \in Accepted
  PROVE  Recipient(c) \in ValidNames
<1>1. envelopes[handling[c]] \in Envelope
  <2>1. envelopes \in Seq(Envelope) /\ handling[c] \in 1 .. Len(envelopes)
    BY DEF TypeOK, Accepted
  <2>. QED BY <2>1
<1>. QED BY <1>1 DEF Envelope, Recipient

\* A server that has just started satisfies the bookkeeping invariant.
LEMMA BookkeepingInit == Init => Bookkeeping
<1>. SUFFICES ASSUME Init PROVE Bookkeeping
  OBVIOUS
<1>. USE RelayAssumption DEF Init, NoConnection, NoPayload
<1>1. nextConnectionId \in 1 .. MaxConnections + 1 /\ restarts \in 0 .. MaxRestarts
  OBVIOUS
<1>2. channel \in [Connections -> Seq(Payloads)] /\ received \in [ValidNames -> Seq(Payloads)]
      /\ envelopes \in Seq(Envelope)
  OBVIOUS
<1>3. TypeOK
  BY <1>1, <1>2 DEF TypeOK, Phases
<1>4. TasksFollowPhase
  BY DEF TasksFollowPhase
<1>5. ConnectionsDrawn
  BY DEF ConnectionsDrawn
<1>. QED BY <1>3, <1>4, <1>5 DEF Bookkeeping

\* No step of a task, a peer or the operator breaks the bookkeeping invariant.
LEMMA BookkeepingStep == Bookkeeping /\ [Next]_vars => Bookkeeping'
<1>. SUFFICES ASSUME Bookkeeping, [Next]_vars PROVE Bookkeeping'
  OBVIOUS
<1>. USE DEF Bookkeeping, NoConnection, NoPayload, registry, mainVars, sendVars,
       recvVars, database, history
<1>1. ASSUME NEW u \in Names, Connect(u) PROVE Bookkeeping'
  <2>1. TypeOK'
    BY <1>1, RelayAssumption DEF TypeOK, Phases, Connect, Connections
  <2>2. TasksFollowPhase'
    BY <1>1 DEF TypeOK, TasksFollowPhase, ConnectionsDrawn, Accepted, Connect, Connections
  <2>3. ConnectionsDrawn'
    BY <1>1, RelayAssumption DEF TypeOK, ConnectionsDrawn, Connect, Connections
  <2>. QED BY <2>1, <2>2, <2>3
<1>2. ASSUME NEW c \in Connections, Register(c) PROVE Bookkeeping'
  BY <1>2 DEF TypeOK, TasksFollowPhase, ConnectionsDrawn, Accepted, Phases, Register
<1>3. ASSUME NEW c \in Connections, LoadQueue(c) PROVE Bookkeeping'
  <2>1. RowsFor(owner[c]) \in SUBSET Row
    BY DEF TypeOK, TasksFollowPhase, RowsFor
  <2>2. TypeOK'
    BY <1>3, <2>1 DEF TypeOK, Phases, LoadQueue
  <2>3. TasksFollowPhase'
    BY <1>3 DEF TypeOK, TasksFollowPhase, Accepted, LoadQueue
  <2>4. ConnectionsDrawn'
    BY <1>3 DEF TypeOK, ConnectionsDrawn, LoadQueue
  <2>. QED BY <2>2, <2>3, <2>4
<1>4. ASSUME NEW c \in Connections, ForwardQueued(c) PROVE Bookkeeping'
  <2>1. FirstRow(snapshot[c]).payload \in Payloads
    <3>1. snapshot[c] \in SUBSET Row /\ snapshot[c] # {}
      BY <1>4 DEF TypeOK, TasksFollowPhase, ForwardQueued
    <3>2. FirstRow(snapshot[c]) \in Row
      BY <3>1, FirstRowIsARow DEF TypeOK, TasksFollowPhase
    <3>. QED BY <3>2 DEF Row
  <2>2. TypeOK'
    BY <1>4, <2>1 DEF TypeOK, Phases, ForwardQueued
  <2>3. TasksFollowPhase'
    BY <1>4 DEF TypeOK, TasksFollowPhase, Accepted, ForwardQueued
  <2>4. ConnectionsDrawn'
    BY <1>4 DEF TypeOK, ConnectionsDrawn, ForwardQueued
  <2>. QED BY <2>2, <2>3, <2>4
<1>5. ASSUME NEW c \in Connections, DeleteQueued(c) PROVE Bookkeeping'
  BY <1>5 DEF TypeOK, TasksFollowPhase, ConnectionsDrawn, Accepted, Phases, DeleteQueued
<1>6. ASSUME NEW c \in Connections, DeleteFails(c) PROVE Bookkeeping'
  BY <1>6 DEF TypeOK, TasksFollowPhase, ConnectionsDrawn, Accepted, Phases, DeleteFails
<1>7. ASSUME NEW c \in Connections, SpawnTasks(c) PROVE Bookkeeping'
  <2>1. TypeOK'
    BY <1>7 DEF TypeOK, Phases, SpawnTasks
  <2>2. TasksFollowPhase'
    <3>1. /\ phase[c] = "draining" /\ inHand[c] = NoPayload /\ handling[c] = NoPayload
          /\ phase' = [phase EXCEPT ![c] = "serving"]
          /\ sendTask' = [sendTask EXCEPT ![c] = "idle"]
          /\ recvTask' = [recvTask EXCEPT ![c] = "idle"]
          /\ UNCHANGED <<inHand, handling, target, envelopes>>
      BY <1>7 DEF TypeOK, TasksFollowPhase, SpawnTasks, Drained
    <3>. QED BY <3>1 DEF TypeOK, TasksFollowPhase, Accepted
  <2>3. ConnectionsDrawn'
    BY <1>7 DEF TypeOK, ConnectionsDrawn, SpawnTasks, Drained
  <2>. QED BY <2>1, <2>2, <2>3
<1>8. ASSUME NEW c \in Connections, Select(c) PROVE Bookkeeping'
  BY <1>8 DEF TypeOK, TasksFollowPhase, ConnectionsDrawn, Accepted, Phases, Select
<1>9. ASSUME NEW c \in Connections, Unregister(c) PROVE Bookkeeping'
  BY <1>9 DEF TypeOK, TasksFollowPhase, ConnectionsDrawn, Accepted, Phases, Unregister
<1>10. ASSUME NEW c \in Connections, TakePayload(c) PROVE Bookkeeping'
  <2>1. Head(channel[c]) \in Payloads /\ Tail(channel[c]) \in Seq(Payloads)
    BY <1>10, HeadElements DEF TypeOK, TasksFollowPhase, TakePayload
  <2>2. TypeOK'
    BY <1>10, <2>1 DEF TypeOK, Phases, TakePayload
  <2>3. TasksFollowPhase'
    BY <1>10, <2>1 DEF TypeOK, TasksFollowPhase, Accepted, TakePayload, Payloads
  <2>4. ConnectionsDrawn'
    BY <1>10 DEF TypeOK, ConnectionsDrawn, TakePayload
  <2>. QED BY <2>2, <2>3, <2>4
<1>11. ASSUME NEW c \in Connections, WritePayload(c) PROVE Bookkeeping'
  <2>1. inHand[c] \in Payloads
    BY <1>11 DEF TypeOK, TasksFollowPhase, WritePayload
  <2>2. received' \in [ValidNames -> Seq(Payloads)]
    <3>1. ASSUME NEW u \in ValidNames
          PROVE  Append(received[u], inHand[c]) \in Seq(Payloads)
      <4>1. received[u] \in Seq(Payloads)
        BY DEF TypeOK
      <4>. QED BY <2>1, <4>1
    <3>2. received \in [ValidNames -> Seq(Payloads)]
      BY DEF TypeOK
    <3>3. CASE link[c] = "up"
      <4>1. received' = [received EXCEPT ![owner[c]] = Append(@, inHand[c])]
        BY <1>11, <3>3 DEF WritePayload
      <4>. HIDE DEF Payloads
      <4>. QED BY <3>1, <3>2, <4>1
    <3>4. CASE link[c] # "up"
      BY <1>11, <3>2, <3>4 DEF WritePayload
    <3>. QED BY <3>3, <3>4
  <2>. lost' \in SUBSET Payloads
    BY <1>11, <2>1 DEF TypeOK, TasksFollowPhase, WritePayload
  <2>3. TypeOK'
    BY <1>11, <2>2 DEF TypeOK, Phases, WritePayload
  <2>4. TasksFollowPhase'
    BY <1>11 DEF TypeOK, TasksFollowPhase, Accepted, WritePayload
  <2>5. ConnectionsDrawn'
    BY <1>11 DEF TypeOK, ConnectionsDrawn, WritePayload
  <2>. QED BY <2>3, <2>4, <2>5
<1>12. ASSUME NEW c \in Connections, EndSendTask(c) PROVE Bookkeeping'
  <2>1. lost' \in SUBSET Payloads
    BY <1>12, ElementsType DEF TypeOK, TasksFollowPhase, EndSendTask
  <2>2. TypeOK'
    BY <1>12, <2>1 DEF TypeOK, Phases, EndSendTask
  <2>3. TasksFollowPhase'
    BY <1>12 DEF TypeOK, TasksFollowPhase, Accepted, EndSendTask
  <2>4. ConnectionsDrawn'
    BY <1>12 DEF TypeOK, ConnectionsDrawn, EndSendTask
  <2>. QED BY <2>2, <2>3, <2>4
<1>13. ASSUME NEW c \in Connections, NEW from \in Names, NEW to \in Names, AcceptFrame(c, from, to) PROVE Bookkeeping'
  <2>1. /\ Len(envelopes) \in Nat /\ Len(envelopes) + 1 \in Payloads
        /\ [connection |-> c, from |-> from, to |-> to] \in Envelope
    BY <1>13, RelayAssumption DEF TypeOK, AcceptFrame, Routable, Payloads, Envelope
  <2>2. envelopes' \in Seq(Envelope) /\ Len(envelopes') = Len(envelopes) + 1
    BY <1>13, <2>1 DEF TypeOK, TasksFollowPhase, AcceptFrame
  <2>3. TypeOK'
    BY <1>13, <2>1, <2>2 DEF TypeOK, Phases, AcceptFrame
  <2>4. TasksFollowPhase'
    BY <1>13, <2>1, <2>2 DEF TypeOK, TasksFollowPhase, Accepted, AcceptFrame
  <2>5. ConnectionsDrawn'
    BY <1>13 DEF TypeOK, ConnectionsDrawn, AcceptFrame
  <2>. QED BY <2>3, <2>4, <2>5
<1>14. ASSUME NEW c \in Connections, LookupRecipient(c) PROVE Bookkeeping'
  <2>1. activeClients[Recipient(c)] \in Connections \cup {NoConnection}
    BY <1>14, RecipientIsValid DEF TypeOK, TasksFollowPhase, LookupRecipient
  <2>2. TypeOK'
    BY <1>14, <2>1 DEF TypeOK, Phases, LookupRecipient
  <2>3. TasksFollowPhase'
    BY <1>14, <2>1 DEF TypeOK, TasksFollowPhase, Accepted, LookupRecipient
  <2>4. ConnectionsDrawn'
    BY <1>14 DEF TypeOK, ConnectionsDrawn, LookupRecipient
  <2>. QED BY <2>2, <2>3, <2>4
<1>15. ASSUME NEW c \in Connections, RelayPayload(c) PROVE Bookkeeping'
  BY <1>15 DEF TypeOK, TasksFollowPhase, ConnectionsDrawn, Accepted, Phases, RelayPayload
<1>16. ASSUME NEW c \in Connections, RelayFails(c) PROVE Bookkeeping'
  BY <1>16 DEF TypeOK, TasksFollowPhase, ConnectionsDrawn, Accepted, Phases, RelayFails
<1>17. ASSUME NEW c \in Connections, StorePayload(c) PROVE Bookkeeping'
  <2>1. NewRowId \in Nat \ {0} /\ handling[c] \in Payloads /\ Recipient(c) \in ValidNames
    BY <1>17, RecipientIsValid DEF TypeOK, TasksFollowPhase, StorePayload, NewRowId
  <2>2. [id |-> NewRowId, recipient |-> Recipient(c), payload |-> handling[c]] \in Row
    BY <2>1 DEF TypeOK, TasksFollowPhase, Row
  <2>3. TypeOK'
    BY <1>17, <2>1, <2>2 DEF TypeOK, Phases, StorePayload
  <2>4. TasksFollowPhase'
    BY <1>17 DEF TypeOK, TasksFollowPhase, Accepted, StorePayload
  <2>5. ConnectionsDrawn'
    BY <1>17 DEF TypeOK, ConnectionsDrawn, StorePayload
  <2>. QED BY <2>3, <2>4, <2>5
<1>18. ASSUME NEW c \in Connections, StoreFails(c) PROVE Bookkeeping'
  BY <1>18 DEF TypeOK, TasksFollowPhase, ConnectionsDrawn, Accepted, Phases, StoreFails
<1>19. ASSUME NEW c \in Connections, EndReceiveTask(c) PROVE Bookkeeping'
  BY <1>19 DEF TypeOK, TasksFollowPhase, ConnectionsDrawn, Accepted, Phases, EndReceiveTask
<1>20. ASSUME NEW c \in Connections, LinkChanges(c) PROVE Bookkeeping'
  BY <1>20 DEF TypeOK, TasksFollowPhase, ConnectionsDrawn, Accepted, Phases, LinkChanges
<1>21. ASSUME Restart PROVE Bookkeeping'
  <2>1. InMemory \in SUBSET Payloads
    <3>1. ASSUME NEW d \in Connections
          PROVE  /\ Elements(channel[d]) \in SUBSET Payloads
                 /\ inHand[d] \in Payloads \cup {NoPayload}
                 /\ handling[d] \in Payloads \cup {NoPayload}
      BY ElementsType DEF TypeOK, TasksFollowPhase
    <3>2. ASSUME NEW p \in InMemory
          PROVE  p # NoPayload /\ \E d \in Connections :
                   p \in Elements(channel[d]) \/ p = inHand[d] \/ p = handling[d]
      BY <3>2 DEF InMemory
    <3>. QED BY <3>1, <3>2
  <2>2. nextConnectionId' \in 1 .. MaxConnections + 1 /\ restarts' \in 0 .. MaxRestarts
    BY <1>21, RelayAssumption DEF TypeOK, Restart
  <2>3. channel' \in [Connections -> Seq(Payloads)]
    BY <1>21 DEF TypeOK, Restart
  <2>4. TypeOK'
    BY <1>21, <2>1, <2>2, <2>3 DEF TypeOK, Phases, Restart
  <2>5. TasksFollowPhase'
    BY <1>21 DEF TypeOK, TasksFollowPhase, Accepted, Restart
  <2>6. ConnectionsDrawn'
    BY <1>21, RelayAssumption DEF TypeOK, ConnectionsDrawn, Restart
  <2>. QED BY <2>4, <2>5, <2>6
<1>22. ASSUME UNCHANGED vars PROVE Bookkeeping'
  BY <1>22 DEF TypeOK, TasksFollowPhase, ConnectionsDrawn, Accepted, Phases, vars
<1>. QED
  BY <1>1, <1>2, <1>3, <1>4, <1>5, <1>6, <1>7, <1>8, <1>9, <1>10, <1>11, <1>12, <1>13, <1>14, <1>15, <1>16, <1>17, <1>18, <1>19, <1>20, <1>21, <1>22 DEF Next, MainTask, SendTask, ReceiveTask, Environment

\* Every behavior of the relay keeps its variables in their types, and its tasks
\* in step with the phase of their connection.
LEMMA BookkeepingCorrect == Spec => []Bookkeeping
BY BookkeepingInit, BookkeepingStep, PTL DEF Spec

\* Every variable keeps its type in every behavior of the relay.
THEOREM TypeCorrect == Spec => []TypeOK
<1>1. Bookkeeping => TypeOK
  BY DEF Bookkeeping
<1>. QED BY <1>1, BookkeepingCorrect, PTL

------------------------------------------------------------------------------
(* The registry. *)

\* The registry starts empty.
LEMMA RegistryInit == Init => RegistrySound
BY DEF Init, RegistrySound

\* No step leaves a finished or foreign connection in the registry: Register and
\* Unregister are the only ones that touch an entry.
LEMMA RegistryStep == Bookkeeping /\ RegistrySound /\ [Next]_vars => RegistrySound'
<1>. SUFFICES ASSUME Bookkeeping, RegistrySound, [Next]_vars PROVE RegistrySound'
  OBVIOUS
<1>. USE DEF NoConnection, NoPayload, registry, mainVars, sendVars,
       recvVars, database, history
<1>1. ASSUME NEW u \in Names, Connect(u) PROVE RegistrySound'
  BY <1>1, RelayAssumption
  DEF Connect, Connections, Bookkeeping, TypeOK, ConnectionsDrawn, RegistrySound
<1>2. ASSUME NEW c \in Connections, Register(c) PROVE RegistrySound'
  BY <1>2 DEF Register, Bookkeeping, TypeOK, RegistrySound
<1>3. ASSUME NEW c \in Connections, LoadQueue(c) PROVE RegistrySound'
  BY <1>3 DEF LoadQueue, Bookkeeping, TypeOK, RegistrySound
<1>4. ASSUME NEW c \in Connections, ForwardQueued(c) PROVE RegistrySound'
  BY <1>4 DEF ForwardQueued, Bookkeeping, TypeOK, RegistrySound
<1>5. ASSUME NEW c \in Connections, DeleteQueued(c) PROVE RegistrySound'
  BY <1>5 DEF DeleteQueued, Bookkeeping, TypeOK, RegistrySound
<1>6. ASSUME NEW c \in Connections, DeleteFails(c) PROVE RegistrySound'
  BY <1>6 DEF DeleteFails, Bookkeeping, TypeOK, RegistrySound
<1>7. ASSUME NEW c \in Connections, SpawnTasks(c) PROVE RegistrySound'
  BY <1>7 DEF SpawnTasks, Bookkeeping, TypeOK, RegistrySound
<1>8. ASSUME NEW c \in Connections, Select(c) PROVE RegistrySound'
  BY <1>8 DEF Select, Bookkeeping, TypeOK, RegistrySound
<1>9. ASSUME NEW c \in Connections, Unregister(c) PROVE RegistrySound'
  BY <1>9 DEF Unregister, ShouldRemove, Bookkeeping, TypeOK, RegistrySound
<1>10. ASSUME NEW c \in Connections, TakePayload(c) PROVE RegistrySound'
  BY <1>10 DEF TakePayload, Bookkeeping, TypeOK, RegistrySound
<1>11. ASSUME NEW c \in Connections, WritePayload(c) PROVE RegistrySound'
  BY <1>11 DEF WritePayload, Bookkeeping, TypeOK, RegistrySound
<1>12. ASSUME NEW c \in Connections, EndSendTask(c) PROVE RegistrySound'
  BY <1>12 DEF EndSendTask, Bookkeeping, TypeOK, RegistrySound
<1>13. ASSUME NEW c \in Connections, NEW from \in Names, NEW to \in Names, AcceptFrame(c, from, to) PROVE RegistrySound'
  BY <1>13 DEF AcceptFrame, Bookkeeping, TypeOK, RegistrySound
<1>14. ASSUME NEW c \in Connections, LookupRecipient(c) PROVE RegistrySound'
  BY <1>14 DEF LookupRecipient, Bookkeeping, TypeOK, RegistrySound
<1>15. ASSUME NEW c \in Connections, RelayPayload(c) PROVE RegistrySound'
  BY <1>15 DEF RelayPayload, Bookkeeping, TypeOK, RegistrySound
<1>16. ASSUME NEW c \in Connections, RelayFails(c) PROVE RegistrySound'
  BY <1>16 DEF RelayFails, Bookkeeping, TypeOK, RegistrySound
<1>17. ASSUME NEW c \in Connections, StorePayload(c) PROVE RegistrySound'
  BY <1>17 DEF StorePayload, Bookkeeping, TypeOK, RegistrySound
<1>18. ASSUME NEW c \in Connections, StoreFails(c) PROVE RegistrySound'
  BY <1>18 DEF StoreFails, Bookkeeping, TypeOK, RegistrySound
<1>19. ASSUME NEW c \in Connections, EndReceiveTask(c) PROVE RegistrySound'
  BY <1>19 DEF EndReceiveTask, Bookkeeping, TypeOK, RegistrySound
<1>20. ASSUME NEW c \in Connections, LinkChanges(c) PROVE RegistrySound'
  BY <1>20 DEF LinkChanges, Bookkeeping, TypeOK, RegistrySound
<1>21. ASSUME Restart PROVE RegistrySound'
  BY <1>21 DEF Restart, Bookkeeping, TypeOK, RegistrySound
<1>22. ASSUME UNCHANGED vars PROVE RegistrySound'
  BY <1>22 DEF vars, Bookkeeping, TypeOK, RegistrySound
<1>. QED
  BY <1>1, <1>2, <1>3, <1>4, <1>5, <1>6, <1>7, <1>8, <1>9, <1>10, <1>11,
     <1>12, <1>13, <1>14, <1>15, <1>16, <1>17, <1>18, <1>19, <1>20, <1>21, <1>22
     DEF Next, MainTask, SendTask, ReceiveTask, Environment

\* The registry never holds an entry of a connection that has finished, or of
\* another user.
THEOREM RegistryCorrect == Spec => []RegistrySound
BY BookkeepingCorrect, RegistryInit, RegistryStep, PTL DEF Spec

\* A registration ends only through its own connection, its successor or a crash.
THEOREM UnregistrationCorrect == Spec => OnlyOwnUnregistration
<1>. DEFINE Ended(u) == activeClients'[u] # activeClients[u] /\ activeClients[u] # NoConnection
            Rightly(u) == \/ phase[activeClients[u]] = "closing"
                          \/ \E c \in Connections : activeClients'[u] = c /\ phase[c] = "accepted"
                          \/ restarts' # restarts
<1>1. Bookkeeping /\ [Next]_vars => [\A u \in ValidNames : Ended(u) => Rightly(u)]_vars
  <2>. SUFFICES ASSUME Bookkeeping, Next, NEW u \in ValidNames, Ended(u) PROVE Rightly(u)
    OBVIOUS
  <2>. USE DEF registry, mainVars, sendVars, recvVars, database, history
  <2>1. ASSUME NEW c \in Connections, MainTask(c) PROVE Rightly(u)
    <3>1. CASE Register(c)
      BY <3>1 DEF Register, Bookkeeping, TypeOK
    <3>2. CASE Unregister(c)
      BY <3>2 DEF Unregister, ShouldRemove, Bookkeeping, TypeOK
    <3>. QED BY <2>1, <3>1, <3>2
          DEF MainTask, LoadQueue, ForwardQueued, DeleteQueued, DeleteFails,
              SpawnTasks, Select
  <2>2. ASSUME NEW c \in Connections, SendTask(c) PROVE Rightly(u)
    BY <2>2 DEF SendTask, TakePayload, WritePayload, EndSendTask
  <2>3. ASSUME NEW c \in Connections, ReceiveTask(c) PROVE Rightly(u)
    BY <2>3 DEF ReceiveTask, LookupRecipient, RelayPayload, RelayFails, StorePayload,
                StoreFails, EndReceiveTask
  <2>4. CASE Environment
    <3>1. CASE Restart
      BY <3>1 DEF Restart, Bookkeeping, TypeOK
    <3>. QED BY <2>4, <3>1 DEF Environment, Connect, AcceptFrame, LinkChanges
  <2>. QED BY <2>1, <2>2, <2>3, <2>4 DEF Next
<1>. QED BY <1>1, BookkeepingCorrect, PTL DEF Spec, OnlyOwnUnregistration

------------------------------------------------------------------------------
(* Losses. *)

\* Only a write to a broken link, a read from one, or the abort that follows
\* ends a task; a link that has failed does not come up again.
LEMMA EndedInit == Init => EndedIsDown
BY DEF Init, EndedIsDown

LEMMA EndedStep == Bookkeeping /\ EndedIsDown /\ [Next]_vars => EndedIsDown'
<1>. SUFFICES ASSUME Bookkeeping, EndedIsDown, [Next]_vars PROVE EndedIsDown'
  OBVIOUS
<1>. USE DEF registry, mainVars, sendVars, recvVars, database, history
<1>1. ASSUME NEW c \in Connections, MainTask(c) PROVE EndedIsDown'
  <2>1. CASE SpawnTasks(c)
    BY <2>1 DEF SpawnTasks, Drained, EndedIsDown, Bookkeeping, TypeOK
  <2>2. CASE Select(c)
    BY <2>2 DEF Select, TaskEnded, EndedIsDown, Bookkeeping, TypeOK
  <2>3. CASE Unregister(c)
    BY <2>3 DEF Unregister, EndedIsDown, Bookkeeping, TypeOK
  <2>. QED BY <1>1, <2>1, <2>2, <2>3
        DEF MainTask, Register, LoadQueue, ForwardQueued, DeleteQueued, DeleteFails,
            EndedIsDown, Bookkeeping, TypeOK
<1>2. ASSUME NEW c \in Connections, SendTask(c) PROVE EndedIsDown'
  BY <1>2 DEF SendTask, TakePayload, WritePayload, EndSendTask, EndedIsDown,
              Bookkeeping, TypeOK
<1>3. ASSUME NEW c \in Connections, ReceiveTask(c) PROVE EndedIsDown'
  <2>1. CASE EndReceiveTask(c)
    BY <2>1 DEF EndReceiveTask, EndedIsDown, Bookkeeping, TypeOK
  <2>. QED BY <1>3, <2>1
        DEF ReceiveTask, LookupRecipient, RelayPayload, RelayFails, StorePayload,
            StoreFails, EndedIsDown, Bookkeeping, TypeOK
<1>4. CASE Environment
  <2>1. CASE \E u \in Names : Connect(u)
    BY <2>1 DEF Connect, EndedIsDown, Bookkeeping, TypeOK
  <2>2. CASE \E c \in Connections, from \in Names, to \in Names : AcceptFrame(c, from, to)
    BY <2>2 DEF AcceptFrame, EndedIsDown, Bookkeeping, TypeOK
  <2>3. CASE \E c \in Connections : LinkChanges(c)
    BY <2>3 DEF LinkChanges, EndedIsDown, Bookkeeping, TypeOK
  <2>4. CASE Restart
    BY <2>4 DEF Restart, EndedIsDown
  <2>. QED BY <1>4, <2>1, <2>2, <2>3, <2>4 DEF Environment
<1>5. CASE UNCHANGED vars
  BY <1>5 DEF vars, EndedIsDown
<1>. QED BY <1>1, <1>2, <1>3, <1>4, <1>5 DEF Next

\* An envelope is dropped only with the process, by a failed INSERT, or with a
\* connection that has it and whose link is down.
THEOREM LossNeedsFailureCorrect == Spec => LossNeedsFailure
<1>. DEFINE Excused(p) ==
              \/ restarts' # restarts
              \/ \E c \in Connections : link[c] # "up" /\ Has(c, p)
              \/ "insert" \in FailingStatements
                 /\ \E c \in Connections : recvTask[c] = "storing" /\ handling[c] = p
<1>1. Bookkeeping /\ EndedIsDown /\ [Next]_vars =>
        [\A p \in lost' \ lost : Excused(p)]_vars
  <2>. SUFFICES ASSUME Bookkeeping, EndedIsDown, Next, NEW p \in lost' \ lost
                PROVE  Excused(p)
    OBVIOUS
  <2>. USE DEF registry, mainVars, sendVars, recvVars, database, history
  <2>1. ASSUME NEW c \in Connections, MainTask(c) PROVE Excused(p)
    BY <2>1 DEF MainTask, Register, LoadQueue, ForwardQueued, DeleteQueued, DeleteFails,
                SpawnTasks, Select, Unregister
  <2>2. ASSUME NEW c \in Connections, SendTask(c) PROVE Excused(p)
    <3>1. CASE WritePayload(c)
      BY <3>1 DEF WritePayload, Has
    <3>2. CASE EndSendTask(c)
      BY <3>2 DEF EndSendTask, EndedIsDown, Has
    <3>. QED BY <2>2, <3>1, <3>2 DEF SendTask, TakePayload
  <2>3. ASSUME NEW c \in Connections, ReceiveTask(c) PROVE Excused(p)
    <3>1. CASE StoreFails(c)
      BY <3>1 DEF StoreFails
    <3>2. CASE EndReceiveTask(c)
      BY <3>2 DEF EndReceiveTask, EndedIsDown, Has
    <3>. QED BY <2>3, <3>1, <3>2
          DEF ReceiveTask, LookupRecipient, RelayPayload, RelayFails, StorePayload
  <2>4. CASE Environment
    <3>1. CASE Restart
      BY <3>1 DEF Restart, Bookkeeping, TypeOK
    <3>. QED BY <2>4, <3>1 DEF Environment, Connect, AcceptFrame, LinkChanges
  <2>. QED BY <2>1, <2>2, <2>3, <2>4 DEF Next
<1>. QED BY <1>1, BookkeepingCorrect, EndedInit, EndedStep, PTL DEF Spec, LossNeedsFailure

------------------------------------------------------------------------------
(* The table, its snapshots, and the drain. *)

\* The table starts empty and nothing is being drained.
LEMMA RowsInit == Init => RowsIdentified /\ DeletedWasForwarded
BY DEF Init, KnownRows, RowsIdentified, DeletedWasForwarded

\* Rows keep their identity as long as known rows are copied or forgotten.
LEMMA RowsForgotten ==
  ASSUME RowsIdentified, KnownRows' \subseteq KnownRows, UNCHANGED sqliteSequence
  PROVE  RowsIdentified'
BY DEF RowsIdentified

\* No step lets an id name two rows: only queue_message makes an id, a new one.
LEMMA RowsStep == Bookkeeping /\ RowsIdentified /\ [Next]_vars => RowsIdentified'
<1>. SUFFICES ASSUME Bookkeeping, RowsIdentified, [Next]_vars PROVE RowsIdentified'
  OBVIOUS
<1>. USE DEF registry, mainVars, sendVars, recvVars, database, history
<1>0. snapshot \in [Connections -> SUBSET Row] /\ queuedMessages \in SUBSET Row
      /\ sqliteSequence \in Nat
  BY DEF Bookkeeping, TypeOK
<1>1. ASSUME NEW c \in Connections, LoadQueue(c) PROVE RowsIdentified'
  <2>1. \A d \in Connections : snapshot'[d] \subseteq snapshot[d] \cup queuedMessages
    BY <1>0, <1>1 DEF LoadQueue, RowsFor
  <2>2. KnownRows' \subseteq KnownRows
    BY <1>1, <2>1 DEF LoadQueue, KnownRows
  <2>. QED BY <1>1, <2>2, RowsForgotten DEF LoadQueue
<1>2. ASSUME NEW c \in Connections, DeleteQueued(c) \/ DeleteFails(c) PROVE RowsIdentified'
  <2>1. \A d \in Connections : snapshot'[d] \subseteq snapshot[d]
    BY <1>0, <1>2 DEF DeleteQueued, DeleteFails
  <2>2. queuedMessages' \subseteq queuedMessages /\ UNCHANGED sqliteSequence
    BY <1>2 DEF DeleteQueued, DeleteFails
  <2>3. KnownRows' \subseteq KnownRows
    BY <2>1, <2>2 DEF KnownRows
  <2>. QED BY <2>2, <2>3, RowsForgotten
<1>3. ASSUME NEW c \in Connections, StorePayload(c) PROVE RowsIdentified'
  <2>. DEFINE new == [id |-> NewRowId, recipient |-> Recipient(c), payload |-> handling[c]]
  <2>1. KnownRows' = KnownRows \cup {new} /\ sqliteSequence' = sqliteSequence + 1
        /\ new.id = sqliteSequence + 1
    BY <1>3 DEF StorePayload, KnownRows, NewRowId
  <2>2. \A row \in KnownRows : row.id \in Nat /\ row.id <= sqliteSequence
    BY <1>0 DEF RowsIdentified, KnownRows, Row
  <2>. HIDE DEF new
  <2>. QED BY <1>0, <2>1, <2>2 DEF RowsIdentified
<1>4. CASE Restart
  <2>1. KnownRows' \subseteq KnownRows
    BY <1>4 DEF Restart, KnownRows
  <2>. QED BY <1>4, <2>1, RowsForgotten DEF Restart
<1>5. ASSUME UNCHANGED <<queuedMessages, sqliteSequence, snapshot>> PROVE RowsIdentified'
  BY <1>5 DEF RowsIdentified, KnownRows
<1>6. CASE UNCHANGED vars
  BY <1>5, <1>6 DEF vars
<1>7. ASSUME NEW c \in Connections, MainTask(c) PROVE RowsIdentified'
  BY <1>1, <1>2, <1>5, <1>7
  DEF MainTask, Register, ForwardQueued, SpawnTasks, Select, Unregister
<1>8. ASSUME NEW c \in Connections, SendTask(c) PROVE RowsIdentified'
  BY <1>5, <1>8 DEF SendTask, TakePayload, WritePayload, EndSendTask
<1>9. ASSUME NEW c \in Connections, ReceiveTask(c) PROVE RowsIdentified'
  BY <1>3, <1>5, <1>9
  DEF ReceiveTask, LookupRecipient, RelayPayload, RelayFails, StoreFails, EndReceiveTask
<1>10. CASE Environment
  BY <1>4, <1>5, <1>10 DEF Environment, Connect, AcceptFrame, LinkChanges
<1>. QED BY <1>6, <1>7, <1>8, <1>9, <1>10 DEF Next

\* Between the send of a row's payload to the channel and the DELETE of the row,
\* no step takes the payload out of the channel.
LEMMA DrainStep == Bookkeeping /\ DeletedWasForwarded /\ [Next]_vars => DeletedWasForwarded'
<1>. SUFFICES ASSUME Bookkeeping, DeletedWasForwarded, [Next]_vars PROVE DeletedWasForwarded'
  OBVIOUS
<1>. USE DEF NoConnection, NoPayload, registry, mainVars, sendVars,
       recvVars, database, history
<1>1. ASSUME NEW u \in Names, Connect(u) PROVE DeletedWasForwarded'
  BY <1>1 DEF Connect, Bookkeeping, TypeOK, TasksFollowPhase, DeletedWasForwarded
<1>2. ASSUME NEW c \in Connections, Register(c) PROVE DeletedWasForwarded'
  BY <1>2 DEF Register, Bookkeeping, TypeOK, TasksFollowPhase, DeletedWasForwarded
<1>3. ASSUME NEW c \in Connections, LoadQueue(c) PROVE DeletedWasForwarded'
  BY <1>3 DEF LoadQueue, Bookkeeping, TypeOK, TasksFollowPhase, DeletedWasForwarded
<1>4. ASSUME NEW c \in Connections, ForwardQueued(c) PROVE DeletedWasForwarded'
  <2>. DEFINE p == FirstRow(snapshot[c]).payload
  <2>1. p \in Payloads /\ channel[c] \in Seq(Payloads) /\ snapshot[c] # {}
    <3>1. snapshot[c] \in SUBSET Row /\ channel[c] \in Seq(Payloads) /\ snapshot[c] # {}
      BY <1>4 DEF ForwardQueued, Bookkeeping, TypeOK
    <3>. QED BY <3>1, FirstRowIsARow DEF Row
  <2>2. p \in Elements(Append(channel[c], p))
    BY <2>1, AppendElements
  <2>3. channel' = [channel EXCEPT ![c] = Append(@, p)] /\ UNCHANGED snapshot
        /\ phase' = [phase EXCEPT ![c] = "deleting"]
    BY <1>4 DEF ForwardQueued
  <2>4. phase \in [Connections -> Phases] /\ channel \in [Connections -> Seq(Payloads)]
    BY DEF Bookkeeping, TypeOK
  <2>. HIDE DEF p
  <2>5. ASSUME NEW d \in Connections, phase'[d] = "deleting"
        PROVE  snapshot[d] # {} /\ FirstRow(snapshot[d]).payload \in Elements(channel'[d])
    <3>1. CASE d = c
      BY <2>1, <2>2, <2>3, <2>4, <3>1 DEF p
    <3>2. CASE d # c
      BY <2>3, <2>4, <2>5, <3>2 DEF DeletedWasForwarded
    <3>. QED BY <3>1, <3>2
  <2>. QED BY <2>3, <2>5 DEF DeletedWasForwarded
<1>5. ASSUME NEW c \in Connections, DeleteQueued(c) PROVE DeletedWasForwarded'
  BY <1>5 DEF DeleteQueued, Bookkeeping, TypeOK, TasksFollowPhase, DeletedWasForwarded
<1>6. ASSUME NEW c \in Connections, DeleteFails(c) PROVE DeletedWasForwarded'
  BY <1>6 DEF DeleteFails, Bookkeeping, TypeOK, TasksFollowPhase, DeletedWasForwarded
<1>7. ASSUME NEW c \in Connections, SpawnTasks(c) PROVE DeletedWasForwarded'
  BY <1>7 DEF SpawnTasks, Bookkeeping, TypeOK, TasksFollowPhase, DeletedWasForwarded
<1>8. ASSUME NEW c \in Connections, Select(c) PROVE DeletedWasForwarded'
  BY <1>8 DEF Select, Bookkeeping, TypeOK, TasksFollowPhase, DeletedWasForwarded
<1>9. ASSUME NEW c \in Connections, Unregister(c) PROVE DeletedWasForwarded'
  BY <1>9 DEF Unregister, Bookkeeping, TypeOK, TasksFollowPhase, DeletedWasForwarded
<1>10. ASSUME NEW c \in Connections, TakePayload(c) PROVE DeletedWasForwarded'
  BY <1>10 DEF TakePayload, Bookkeeping, TypeOK, TasksFollowPhase, DeletedWasForwarded
<1>11. ASSUME NEW c \in Connections, WritePayload(c) PROVE DeletedWasForwarded'
  BY <1>11 DEF WritePayload, Bookkeeping, TypeOK, TasksFollowPhase, DeletedWasForwarded
<1>12. ASSUME NEW c \in Connections, EndSendTask(c) PROVE DeletedWasForwarded'
  BY <1>12 DEF EndSendTask, Bookkeeping, TypeOK, TasksFollowPhase, DeletedWasForwarded
<1>13. ASSUME NEW c \in Connections, NEW from \in Names, NEW to \in Names, AcceptFrame(c, from, to) PROVE DeletedWasForwarded'
  BY <1>13 DEF AcceptFrame, Bookkeeping, TypeOK, TasksFollowPhase, DeletedWasForwarded
<1>14. ASSUME NEW c \in Connections, LookupRecipient(c) PROVE DeletedWasForwarded'
  BY <1>14 DEF LookupRecipient, Bookkeeping, TypeOK, TasksFollowPhase, DeletedWasForwarded
<1>15. ASSUME NEW c \in Connections, RelayPayload(c) PROVE DeletedWasForwarded'
  <2>1. ASSUME NEW d \in Connections
        PROVE  Elements(channel[d]) \subseteq Elements(channel'[d])
    <3>1. handling[c] \in Payloads /\ channel[d] \in Seq(Payloads)
          /\ channel'[d] \in {channel[d], Append(channel[d], handling[c])}
      BY <1>15 DEF RelayPayload, Bookkeeping, TypeOK, TasksFollowPhase
    <3>2. Elements(Append(channel[d], handling[c])) = Elements(channel[d]) \cup {handling[c]}
      BY <3>1, AppendElements
    <3>. QED BY <3>1, <3>2
  <2>. QED BY <1>15, <2>1 DEF RelayPayload, DeletedWasForwarded
<1>16. ASSUME NEW c \in Connections, RelayFails(c) PROVE DeletedWasForwarded'
  BY <1>16 DEF RelayFails, Bookkeeping, TypeOK, TasksFollowPhase, DeletedWasForwarded
<1>17. ASSUME NEW c \in Connections, StorePayload(c) PROVE DeletedWasForwarded'
  BY <1>17 DEF StorePayload, Bookkeeping, TypeOK, TasksFollowPhase, DeletedWasForwarded
<1>18. ASSUME NEW c \in Connections, StoreFails(c) PROVE DeletedWasForwarded'
  BY <1>18 DEF StoreFails, Bookkeeping, TypeOK, TasksFollowPhase, DeletedWasForwarded
<1>19. ASSUME NEW c \in Connections, EndReceiveTask(c) PROVE DeletedWasForwarded'
  BY <1>19 DEF EndReceiveTask, Bookkeeping, TypeOK, TasksFollowPhase, DeletedWasForwarded
<1>20. ASSUME NEW c \in Connections, LinkChanges(c) PROVE DeletedWasForwarded'
  BY <1>20 DEF LinkChanges, Bookkeeping, TypeOK, TasksFollowPhase, DeletedWasForwarded
<1>21. ASSUME Restart PROVE DeletedWasForwarded'
  BY <1>21 DEF Restart, Bookkeeping, TypeOK, TasksFollowPhase, DeletedWasForwarded
<1>22. ASSUME UNCHANGED vars PROVE DeletedWasForwarded'
  BY <1>22 DEF vars, Bookkeeping, TypeOK, TasksFollowPhase, DeletedWasForwarded
<1>. QED
  BY <1>1, <1>2, <1>3, <1>4, <1>5, <1>6, <1>7, <1>8, <1>9, <1>10, <1>11,
     <1>12, <1>13, <1>14, <1>15, <1>16, <1>17, <1>18, <1>19, <1>20, <1>21, <1>22
     DEF Next, MainTask, SendTask, ReceiveTask, Environment

------------------------------------------------------------------------------
(* No envelope vanishes. *)

\* A channel that grows by one payload keeps the others.
LEMMA ChannelGrows ==
  ASSUME NEW c \in Connections, NEW p \in Payloads, channel \in [Connections -> Seq(Payloads)],
         channel' = [channel EXCEPT ![c] = Append(@, p)]
  PROVE  /\ \A d \in Connections : Elements(channel[d]) \subseteq Elements(channel'[d])
         /\ p \in Elements(channel'[c])
<1>. HIDE DEF Payloads
<1>1. ASSUME NEW d \in Connections
      PROVE  Elements(channel'[d]) = Elements(channel[d]) \cup (IF d = c THEN {p} ELSE {})
  <2>1. channel[d] \in Seq(Payloads)
    OBVIOUS
  <2>2. Elements(Append(channel[d], p)) = Elements(channel[d]) \cup {p}
    BY <2>1, AppendElements
  <2>. QED BY <2>2
<1>. QED BY <1>1

\* Before the first envelope is accepted, none has vanished.
LEMMA VanishInit == Init => NothingVanishes
BY DEF Init, NothingVanishes, Accepted

\* No step makes an envelope vanish: each one puts it in its next place, or in
\* lost, when it takes it from the last one.
LEMMA VanishStep ==
  Bookkeeping /\ RowsIdentified /\ DeletedWasForwarded /\ NothingVanishes /\ [Next]_vars
    => NothingVanishes'
<1>. SUFFICES ASSUME Bookkeeping, RowsIdentified, DeletedWasForwarded, NothingVanishes,
                     [Next]_vars
              PROVE  NothingVanishes'
  OBVIOUS
<1>. USE DEF registry, mainVars, sendVars, recvVars, database, history,
             NoConnection, NoPayload
<1>0. /\ channel \in [Connections -> Seq(Payloads)]
      /\ inHand \in [Connections -> Payloads \cup {0}]
      /\ handling \in [Connections -> Payloads \cup {0}]
      /\ received \in [ValidNames -> Seq(Payloads)]
      /\ envelopes \in Seq(Envelope)
      /\ \A c \in Connections : snapshot[c] \in SUBSET Row
  BY DEF Bookkeeping, TypeOK
<1>. USE DEF Handled, Stored, Outbound, Delivered
<1>1. ASSUME NEW c \in Connections, ForwardQueued(c) PROVE NothingVanishes'
  <2>1. FirstRow(snapshot[c]).payload \in Payloads
    <3>1. FirstRow(snapshot[c]) \in Row
      BY <1>0, <1>1, FirstRowIsARow DEF ForwardQueued
    <3>. QED BY <3>1 DEF Row
  <2>2. \A d \in Connections : Elements(channel[d]) \subseteq Elements(channel'[d])
    BY <1>0, <1>1, <2>1, ChannelGrows DEF ForwardQueued
  <2>. QED BY <1>1, <2>2 DEF ForwardQueued, NothingVanishes, Somewhere, Accepted
<1>2. ASSUME NEW c \in Connections, DeleteQueued(c) PROVE NothingVanishes'
  <2>1. \A row \in DeletedRows(c) : row = FirstRow(snapshot[c])
    <3>1. phase[c] = "deleting" /\ snapshot[c] # {}
      BY <1>2 DEF DeleteQueued, DeletedWasForwarded
    <3>2. FirstRow(snapshot[c]) \in snapshot[c]
      BY <1>0, <3>1, FirstRowIsARow
    <3>. QED BY <3>2 DEF RowsIdentified, KnownRows, DeletedRows
  <2>2. \A row \in DeletedRows(c) : row.payload \in Elements(channel[c])
    BY <1>2, <2>1 DEF DeleteQueued, DeletedWasForwarded
  <2>. QED BY <1>2, <2>2 DEF DeleteQueued, NothingVanishes, Somewhere, Accepted
<1>3. ASSUME NEW c \in Connections, TakePayload(c) PROVE NothingVanishes'
  <2>1. Elements(channel[c]) = {Head(channel[c])} \cup Elements(Tail(channel[c]))
    BY <1>0, <1>3, HeadElements DEF TakePayload
  <2>2. inHand[c] = 0 /\ inHand'[c] = Head(channel[c]) /\ channel'[c] = Tail(channel[c])
        /\ \A d \in Connections \ {c} : inHand'[d] = inHand[d] /\ channel'[d] = channel[d]
    BY <1>0, <1>3 DEF TakePayload, Bookkeeping, TasksFollowPhase
  <2>3. \A p \in Accepted : Outbound(p) => Outbound(p)'
    BY <2>1, <2>2 DEF Accepted
  <2>. QED BY <1>3, <2>3 DEF TakePayload, NothingVanishes, Somewhere, Accepted
<1>4. ASSUME NEW c \in Connections, WritePayload(c) PROVE NothingVanishes'
  <2>1. inHand[c] \in Payloads /\ owner[c] \in ValidNames
    BY <1>4 DEF WritePayload, Bookkeeping, TypeOK, TasksFollowPhase, ConnectionsDrawn
  <2>2. inHand' = [inHand EXCEPT ![c] = 0] /\ UNCHANGED <<channel, handling, queuedMessages, envelopes>>
    BY <1>4 DEF WritePayload
  <2>3. \A p \in Accepted : p = inHand[c] => p \in lost' \/ Delivered(p)'
    <3>1. CASE link[c] = "up"
      <4>1. Elements(Append(received[owner[c]], inHand[c]))
              = Elements(received[owner[c]]) \cup {inHand[c]}
        BY <1>0, <2>1, AppendElements
      <4>2. received'[owner[c]] = Append(received[owner[c]], inHand[c])
        BY <1>0, <1>4, <2>1, <3>1 DEF WritePayload
      <4>. QED BY <2>1, <4>1, <4>2
    <3>2. CASE link[c] # "up"
      BY <1>4, <3>2 DEF WritePayload
    <3>. QED BY <3>1, <3>2
  <2>4. lost \subseteq lost' /\ \A p \in Accepted : Delivered(p) => Delivered(p)'
    <3>1. ASSUME NEW u \in ValidNames
          PROVE  Elements(received[u]) \subseteq Elements(received'[u])
      <4>1. Elements(Append(received[u], inHand[c])) = Elements(received[u]) \cup {inHand[c]}
        BY <1>0, <2>1, AppendElements
      <4>. QED BY <1>0, <1>4, <4>1 DEF WritePayload
    <3>. QED BY <1>4, <3>1 DEF WritePayload
  <2>5. \A p \in Accepted : Outbound(p) => Outbound(p)' \/ p = inHand[c]
    BY <1>0, <2>2
  <2>. QED BY <2>2, <2>3, <2>4, <2>5 DEF NothingVanishes, Somewhere, Accepted
<1>5. ASSUME NEW c \in Connections, EndSendTask(c) PROVE NothingVanishes'
  <2>1. \A p \in Accepted : Outbound(p) => Outbound(p)' \/ p \in lost'
    BY <1>0, <1>5, EmptyElements DEF EndSendTask, Accepted
  <2>. QED BY <1>5, <2>1 DEF EndSendTask, NothingVanishes, Somewhere, Accepted
<1>6. ASSUME NEW c \in Connections, NEW from \in Names, NEW to \in Names,
             AcceptFrame(c, from, to)
      PROVE  NothingVanishes'
  <2>1. Len(envelopes') = Len(envelopes) + 1 /\ Len(envelopes) \in Nat
    BY <1>0, <1>6 DEF AcceptFrame
  <2>2. \A p \in Accepted' : p \in Accepted \/ p = Len(envelopes) + 1
    BY <2>1 DEF Accepted
  <2>3. handling[c] = 0 /\ handling' = [handling EXCEPT ![c] = Len(envelopes) + 1]
    BY <1>6 DEF AcceptFrame, Bookkeeping, TasksFollowPhase
  <2>4. \A p \in Accepted' : Handled(p) \/ p = Len(envelopes) + 1 => Handled(p)'
    BY <1>0, <2>1, <2>3 DEF Accepted
  <2>. QED BY <1>6, <2>2, <2>4 DEF AcceptFrame, NothingVanishes, Somewhere
<1>7. ASSUME NEW c \in Connections, RelayPayload(c) PROVE NothingVanishes'
  <2>1. handling[c] \in Payloads /\ target[c] \in Connections
    BY <1>7 DEF RelayPayload, Bookkeeping, TypeOK, TasksFollowPhase
  <2>2. /\ \A d \in Connections : Elements(channel[d]) \subseteq Elements(channel'[d])
        /\ handling[c] \in Elements(channel'[target[c]])
    BY <1>0, <1>7, <2>1, ChannelGrows DEF RelayPayload
  <2>3. \A p \in Accepted : Handled(p) => Handled(p)' \/ p = handling[c]
    BY <1>0, <1>7 DEF RelayPayload
  <2>4. \A p \in Accepted : Outbound(p) \/ p = handling[c] => Outbound(p)'
    BY <1>7, <2>1, <2>2 DEF RelayPayload
  <2>5. UNCHANGED <<queuedMessages, received, lost, envelopes>>
    BY <1>7 DEF RelayPayload
  <2>. QED BY <2>3, <2>4, <2>5 DEF NothingVanishes, Somewhere, Accepted
<1>8. ASSUME NEW c \in Connections, StorePayload(c) PROVE NothingVanishes'
  <2>1. \A p \in Accepted : Stored(p) \/ p = handling[c] => Stored(p)'
    <3>. DEFINE new == [id |-> NewRowId, recipient |-> Recipient(c), payload |-> handling[c]]
    <3>1. queuedMessages' = queuedMessages \cup {new} /\ new.payload = handling[c]
      BY <1>8 DEF StorePayload
    <3>. HIDE DEF new
    <3>. QED BY <3>1
  <2>2. \A p \in Accepted : Handled(p) => Handled(p)' \/ p = handling[c]
    BY <1>0, <1>8 DEF StorePayload
  <2>. QED BY <1>8, <2>1, <2>2 DEF StorePayload, NothingVanishes, Somewhere, Accepted
<1>9. ASSUME NEW c \in Connections, StoreFails(c) \/ EndReceiveTask(c)
      PROVE  NothingVanishes'
  <2>1. \A p \in Accepted : Handled(p) => Handled(p)' \/ p \in lost'
    BY <1>0, <1>9 DEF StoreFails, EndReceiveTask, Accepted
  <2>. QED BY <1>9, <2>1 DEF StoreFails, EndReceiveTask, NothingVanishes, Somewhere, Accepted
<1>10. CASE Restart
  <2>1. \A p \in Accepted : Handled(p) \/ Outbound(p) => p \in lost'
    BY <1>10 DEF Restart, InMemory, Accepted
  <2>. QED BY <1>10, <2>1 DEF Restart, NothingVanishes, Somewhere, Accepted
<1>11. ASSUME UNCHANGED <<channel, inHand, handling, queuedMessages, received, lost, envelopes>>
       PROVE  NothingVanishes'
  BY <1>11 DEF NothingVanishes, Somewhere, Accepted
<1>12. CASE UNCHANGED vars
  BY <1>11, <1>12 DEF vars
<1>13. ASSUME NEW c \in Connections, MainTask(c) PROVE NothingVanishes'
  BY <1>1, <1>2, <1>11, <1>13
  DEF MainTask, Register, LoadQueue, DeleteFails, SpawnTasks, Select, Unregister
<1>14. ASSUME NEW c \in Connections, SendTask(c) PROVE NothingVanishes'
  BY <1>3, <1>4, <1>5, <1>14 DEF SendTask
<1>15. ASSUME NEW c \in Connections, ReceiveTask(c) PROVE NothingVanishes'
  BY <1>7, <1>8, <1>9, <1>11, <1>15 DEF ReceiveTask, LookupRecipient, RelayFails
<1>16. CASE Environment
  BY <1>6, <1>10, <1>11, <1>16 DEF Environment, Connect, LinkChanges
<1>. QED BY <1>12, <1>13, <1>14, <1>15, <1>16 DEF Next

\* An accepted envelope is in a handler, in the table, in an outbound channel or
\* with its recipient, or it was dropped by one of the actions that say so.
THEOREM NothingVanishesCorrect == Spec => []NothingVanishes
<1>1. Spec => [](RowsIdentified /\ DeletedWasForwarded)
  BY BookkeepingCorrect, RowsInit, RowsStep, DrainStep, PTL DEF Spec
<1>. QED BY <1>1, BookkeepingCorrect, VanishInit, VanishStep, PTL DEF Spec

------------------------------------------------------------------------------
(* Every envelope goes to its recipient, and rows leave through a channel. *)

\* At the start no payload waits for anybody.
LEMMA AddressedInit == Init => PayloadsAddressed
BY EmptyElements DEF Init, PayloadsAddressed, NoPayload, NoConnection

\* No step moves a payload to a place that belongs to another user.
LEMMA AddressedStep ==
  Bookkeeping /\ RegistrySound /\ DeletedWasForwarded /\ PayloadsAddressed /\ [Next]_vars
    => PayloadsAddressed'
<1>. SUFFICES ASSUME Bookkeeping, RegistrySound, DeletedWasForwarded, PayloadsAddressed,
                     [Next]_vars
              PROVE  PayloadsAddressed'
  OBVIOUS
<1>. USE DEF registry, mainVars, sendVars, recvVars, database, history,
             NoConnection, NoPayload
<1>0. /\ channel \in [Connections -> Seq(Payloads)]
      /\ inHand \in [Connections -> Payloads \cup {0}]
      /\ handling \in [Connections -> Payloads \cup {0}]
      /\ recvTask \in [Connections -> {"unspawned", "idle", "lookup", "relaying",
                                       "storing", "done"}]
      /\ target \in [Connections -> Connections \cup {0}]
      /\ owner \in [Connections -> ValidNames \cup {NoName}]
      /\ received \in [ValidNames -> Seq(Payloads)]
      /\ snapshot \in [Connections -> SUBSET Row]
      /\ envelopes \in Seq(Envelope)
  BY DEF Bookkeeping, TypeOK
<1>. DEFINE SameEnvelopes == \A p, user : AcceptedFor(p, user) => AcceptedFor(p, user)'
<1>1. UNCHANGED envelopes => SameEnvelopes
  BY DEF AcceptedFor, Accepted
<1>. HIDE DEF SameEnvelopes
<1>2. ASSUME NEW u \in Names, Connect(u) PROVE PayloadsAddressed'
  <2>1. nextConnectionId \in Connections /\ owner[nextConnectionId] = NoName
        /\ owner' = [owner EXCEPT ![nextConnectionId] = u]
    BY <1>2 DEF Connect, Bookkeeping, ConnectionsDrawn, Connections
  <2>2. \A p : ~AcceptedFor(p, NoName)
    <3>1. \A p \in Accepted : envelopes[p] \in Envelope
      BY <1>0 DEF Accepted
    <3>. QED BY <3>1, RelayAssumption DEF AcceptedFor, Envelope
  <2>3. \A p, c : c \in Connections /\ AcceptedFor(p, owner[c]) => AcceptedFor(p, owner[c])'
    <3>1. \A c \in Connections : owner[c] # NoName => owner'[c] = owner[c]
      BY <1>0, <2>1
    <3>2. UNCHANGED envelopes
      BY <1>2 DEF Connect
    <3>. QED BY <2>2, <3>1, <3>2 DEF AcceptedFor, Accepted
  <2>4. \A c \in Connections : recvTask[c] = "relaying" => target[c] \in Connections
    BY <1>0 DEF Bookkeeping, TasksFollowPhase
  <2>5. \A c \in Connections : \A row \in snapshot[c] : owner[c] # NoName
    BY <2>2 DEF PayloadsAddressed
  <2>6. UNCHANGED <<channel, inHand, snapshot, recvTask, handling, target, queuedMessages,
                    received, envelopes>>
    BY <1>2 DEF Connect
  <2>7. \A c \in Connections : owner[c] # NoName => owner'[c] = owner[c]
    BY <1>0, <2>1
  <2>. QED BY <1>1, <2>3, <2>4, <2>5, <2>6, <2>7 DEF PayloadsAddressed, SameEnvelopes
<1>3. ASSUME NEW c \in Connections, LoadQueue(c) PROVE PayloadsAddressed'
  <2>1. ASSUME NEW d \in Connections, NEW row \in snapshot'[d]
        PROVE  row \in snapshot[d] \/ (row \in queuedMessages /\ row.recipient = owner[d])
    <3>1. snapshot'[d] = snapshot[d] \/ (d = c /\ snapshot'[d] = RowsFor(owner[c]))
      BY <1>0, <1>3 DEF LoadQueue
    <3>. QED BY <2>1, <3>1 DEF RowsFor
  <2>. QED BY <1>1, <1>3, <2>1 DEF LoadQueue, PayloadsAddressed, SameEnvelopes
<1>4. ASSUME NEW c \in Connections, ForwardQueued(c) PROVE PayloadsAddressed'
  <2>. DEFINE p == FirstRow(snapshot[c]).payload
  <2>1. p \in Payloads /\ AcceptedFor(p, owner[c])
    <3>1. FirstRow(snapshot[c]) \in snapshot[c]
      BY <1>0, <1>4, FirstRowIsARow DEF ForwardQueued
    <3>2. p \in Payloads
      BY <1>0, <3>1 DEF Row
    <3>. QED BY <3>1, <3>2 DEF PayloadsAddressed
  <2>2. Elements(Append(channel[c], p)) = Elements(channel[c]) \cup {p}
    BY <1>0, <2>1, AppendElements
  <2>3. channel' = [channel EXCEPT ![c] = Append(@, p)]
    BY <1>4 DEF ForwardQueued
  <2>. HIDE DEF p
  <2>4. \A d \in Connections : \A q \in Elements(channel'[d]) : AcceptedFor(q, owner[d])
    BY <1>0, <2>1, <2>2, <2>3 DEF PayloadsAddressed
  <2>. QED BY <1>1, <1>4, <2>4 DEF ForwardQueued, PayloadsAddressed, SameEnvelopes
<1>5. ASSUME NEW c \in Connections, DeleteQueued(c) \/ DeleteFails(c) PROVE PayloadsAddressed'
  <2>1. \A d \in Connections : snapshot'[d] \subseteq snapshot[d]
    BY <1>0, <1>5 DEF DeleteQueued, DeleteFails
  <2>. QED BY <1>1, <1>5, <2>1 DEF DeleteQueued, DeleteFails, PayloadsAddressed, SameEnvelopes
<1>6. ASSUME NEW c \in Connections, SpawnTasks(c) PROVE PayloadsAddressed'
  BY <1>0, <1>1, <1>6 DEF SpawnTasks, PayloadsAddressed, SameEnvelopes
<1>7. ASSUME NEW c \in Connections, TakePayload(c) PROVE PayloadsAddressed'
  <2>1. Elements(channel[c]) = {Head(channel[c])} \cup Elements(Tail(channel[c]))
    BY <1>0, <1>7, HeadElements DEF TakePayload
  <2>2. \A d \in Connections : /\ Elements(channel'[d]) \subseteq Elements(channel[d])
                               /\ inHand'[d] = inHand[d] \/ inHand'[d] \in Elements(channel[d])
    BY <1>0, <1>7, <2>1 DEF TakePayload
  <2>. QED BY <1>1, <1>7, <2>2 DEF TakePayload, PayloadsAddressed, SameEnvelopes
<1>8. ASSUME NEW c \in Connections, WritePayload(c) PROVE PayloadsAddressed'
  <2>1. inHand[c] \in Payloads /\ AcceptedFor(inHand[c], owner[c])
    BY <1>0, <1>8 DEF WritePayload, Bookkeeping, TasksFollowPhase, PayloadsAddressed
  <2>2. ASSUME NEW u \in ValidNames, NEW p \in Elements(received'[u])
        PROVE  AcceptedFor(p, u)
    <3>1. Elements(Append(received[u], inHand[c])) = Elements(received[u]) \cup {inHand[c]}
      BY <1>0, <2>1, AppendElements
    <3>2. received'[u] = received[u]
          \/ (u = owner[c] /\ received'[u] = Append(received[u], inHand[c]))
      BY <1>0, <1>8 DEF WritePayload
    <3>. QED BY <2>1, <2>2, <3>1, <3>2 DEF PayloadsAddressed
  <2>3. \A d \in Connections : inHand'[d] = inHand[d] \/ inHand'[d] = 0
    BY <1>0, <1>8 DEF WritePayload
  <2>. QED BY <1>1, <1>8, <2>2, <2>3 DEF WritePayload, PayloadsAddressed, SameEnvelopes
<1>9. ASSUME NEW c \in Connections, EndSendTask(c) PROVE PayloadsAddressed'
  <2>1. \A d \in Connections : Elements(channel'[d]) \subseteq Elements(channel[d])
          /\ (inHand'[d] = inHand[d] \/ inHand'[d] = 0)
    BY <1>0, <1>9, EmptyElements DEF EndSendTask
  <2>. QED BY <1>1, <1>9, <2>1 DEF EndSendTask, PayloadsAddressed, SameEnvelopes
<1>10. ASSUME NEW c \in Connections, NEW from \in Names, NEW to \in Names,
              AcceptFrame(c, from, to)
       PROVE  PayloadsAddressed'
  <2>1. SameEnvelopes
    <3>1. \A p \in Accepted : p \in Accepted' /\ envelopes'[p] = envelopes[p]
      BY <1>0, <1>10 DEF AcceptFrame, Accepted
    <3>. QED BY <3>1 DEF AcceptedFor, SameEnvelopes
  <2>2. \A d \in Connections : recvTask'[d] = "relaying" =>
          recvTask[d] = "relaying" /\ handling'[d] = handling[d]
    BY <1>0, <1>10 DEF AcceptFrame
  <2>. QED BY <1>10, <2>1, <2>2 DEF AcceptFrame, PayloadsAddressed, SameEnvelopes
<1>11. ASSUME NEW c \in Connections, LookupRecipient(c) PROVE PayloadsAddressed'
  <2>1. handling[c] \in Accepted /\ Recipient(c) \in ValidNames
    BY <1>11, RecipientIsValid DEF LookupRecipient, Bookkeeping, TasksFollowPhase
  <2>2. recvTask'[c] = "relaying" => AcceptedFor(handling[c], owner[target'[c]])
    BY <1>0, <1>11, <2>1 DEF LookupRecipient, RegistrySound, AcceptedFor, Recipient
  <2>3. \A d \in Connections \ {c} : recvTask'[d] = recvTask[d] /\ target'[d] = target[d]
    BY <1>0, <1>11 DEF LookupRecipient
  <2>. QED BY <1>1, <1>11, <2>2, <2>3 DEF LookupRecipient, PayloadsAddressed, SameEnvelopes
<1>12. ASSUME NEW c \in Connections, RelayPayload(c) PROVE PayloadsAddressed'
  <2>1. handling[c] \in Payloads /\ target[c] \in Connections
        /\ AcceptedFor(handling[c], owner[target[c]])
    BY <1>0, <1>12 DEF RelayPayload, Bookkeeping, TasksFollowPhase, PayloadsAddressed
  <2>2. ASSUME NEW d \in Connections, NEW p \in Elements(channel'[d])
        PROVE  AcceptedFor(p, owner[d])
    <3>1. Elements(Append(channel[d], handling[c])) = Elements(channel[d]) \cup {handling[c]}
      BY <1>0, <2>1, AppendElements
    <3>2. channel'[d] = channel[d]
          \/ (d = target[c] /\ channel'[d] = Append(channel[d], handling[c]))
      BY <1>0, <1>12 DEF RelayPayload
    <3>. QED BY <2>1, <2>2, <3>1, <3>2 DEF PayloadsAddressed
  <2>3. \A d \in Connections : recvTask'[d] = "relaying" =>
          recvTask[d] = "relaying" /\ handling'[d] = handling[d] /\ target'[d] = target[d]
    BY <1>0, <1>12 DEF RelayPayload
  <2>. QED BY <1>1, <1>12, <2>2, <2>3 DEF RelayPayload, PayloadsAddressed, SameEnvelopes
<1>13. ASSUME NEW c \in Connections, StorePayload(c) PROVE PayloadsAddressed'
  <2>. DEFINE new == [id |-> NewRowId, recipient |-> Recipient(c), payload |-> handling[c]]
  <2>1. AcceptedFor(new.payload, new.recipient)
    BY <1>13 DEF StorePayload, Bookkeeping, TasksFollowPhase, AcceptedFor, Recipient
  <2>2. queuedMessages' = queuedMessages \cup {new}
    BY <1>13 DEF StorePayload
  <2>3. \A d \in Connections : recvTask'[d] = "relaying" =>
          recvTask[d] = "relaying" /\ handling'[d] = handling[d]
    BY <1>0, <1>13 DEF StorePayload
  <2>. HIDE DEF new
  <2>. QED BY <1>1, <1>13, <2>1, <2>2, <2>3 DEF StorePayload, PayloadsAddressed, SameEnvelopes
<1>14. ASSUME NEW c \in Connections, RelayFails(c) \/ StoreFails(c) \/ EndReceiveTask(c)
       PROVE  PayloadsAddressed'
  <2>1. \A d \in Connections : recvTask'[d] = "relaying" =>
          recvTask[d] = "relaying" /\ handling'[d] = handling[d] /\ target'[d] = target[d]
    BY <1>0, <1>14 DEF RelayFails, StoreFails, EndReceiveTask
  <2>. QED BY <1>1, <1>14, <2>1
    DEF RelayFails, StoreFails, EndReceiveTask, PayloadsAddressed, SameEnvelopes
<1>15. CASE Restart
  BY <1>1, <1>15, EmptyElements DEF Restart, PayloadsAddressed, SameEnvelopes
<1>16. ASSUME UNCHANGED <<owner, channel, inHand, snapshot, recvTask, handling, target,
                          queuedMessages, received, envelopes>>
       PROVE  PayloadsAddressed'
  BY <1>1, <1>16 DEF PayloadsAddressed, SameEnvelopes
<1>17. CASE UNCHANGED vars
  BY <1>16, <1>17 DEF vars
<1>18. ASSUME NEW c \in Connections, MainTask(c) PROVE PayloadsAddressed'
  BY <1>3, <1>4, <1>5, <1>6, <1>16, <1>18 DEF MainTask, Register, Select, Unregister
<1>19. ASSUME NEW c \in Connections, SendTask(c) PROVE PayloadsAddressed'
  BY <1>7, <1>8, <1>9, <1>19 DEF SendTask
<1>20. ASSUME NEW c \in Connections, ReceiveTask(c) PROVE PayloadsAddressed'
  BY <1>11, <1>12, <1>13, <1>14, <1>20 DEF ReceiveTask
<1>21. CASE Environment
  BY <1>2, <1>10, <1>15, <1>16, <1>21 DEF Environment, LinkChanges
<1>. QED BY <1>17, <1>18, <1>19, <1>20, <1>21 DEF Next

\* The invariants that the two theorems below rest on.
LEMMA DeliveryCorrect ==
  Spec => [](RowsIdentified /\ DeletedWasForwarded /\ PayloadsAddressed)
<1>1. Spec => [](RowsIdentified /\ DeletedWasForwarded)
  BY BookkeepingCorrect, RowsInit, RowsStep, DrainStep, PTL DEF Spec
<1>. QED BY <1>1, BookkeepingCorrect, RegistryCorrect, AddressedInit, AddressedStep, PTL DEF Spec

\* Every envelope in a channel, in the table or received is its recipient's.
THEOREM AddressedCorrect == Spec => []Addressed
<1>1. PayloadsAddressed => Addressed
  BY DEF PayloadsAddressed, AcceptedFor, Addressed
<1>. QED BY <1>1, DeliveryCorrect, PTL

\* A row leaves the table only with its payload in a channel of its recipient.
THEOREM HandOverCorrect == Spec => HandOver
<1>. DEFINE Left(row) == row \notin queuedMessages'
            Forwarded(row) == \E c \in Connections :
              owner[c] = row.recipient /\ row.payload \in Elements(channel'[c])
<1>1. Bookkeeping /\ RowsIdentified /\ DeletedWasForwarded /\ PayloadsAddressed /\ [Next]_vars
        => [\A row \in queuedMessages : Left(row) => Forwarded(row)]_vars
  <2>. SUFFICES ASSUME Bookkeeping, RowsIdentified, DeletedWasForwarded, PayloadsAddressed, Next,
                       NEW row \in queuedMessages, Left(row)
                PROVE  Forwarded(row)
    OBVIOUS
  <2>1. PICK c \in Connections : DeleteQueued(c)
    BY DEF Next, MainTask, SendTask, ReceiveTask, Environment, Connect, Register, LoadQueue,
       ForwardQueued, DeleteFails, SpawnTasks, Select, Unregister, TakePayload, WritePayload,
       EndSendTask, AcceptFrame, LookupRecipient, RelayPayload, RelayFails, StorePayload,
       StoreFails, EndReceiveTask, LinkChanges, Restart, database
  <2>2. snapshot[c] \in SUBSET Row /\ snapshot[c] # {}
        /\ FirstRow(snapshot[c]).payload \in Elements(channel[c])
    BY <2>1 DEF DeleteQueued, DeletedWasForwarded, Bookkeeping, TypeOK
  <2>3. FirstRow(snapshot[c]) \in snapshot[c]
    BY <2>2, FirstRowIsARow
  <2>4. row = FirstRow(snapshot[c])
    BY <2>1, <2>3 DEF DeleteQueued, DeletedRows, RowsIdentified, KnownRows
  <2>5. row.recipient = owner[c]
    BY <2>3, <2>4 DEF PayloadsAddressed
  <2>. QED BY <2>1, <2>2, <2>4, <2>5 DEF DeleteQueued
<1>. QED BY <1>1, BookkeepingCorrect, DeliveryCorrect, PTL DEF Spec, HandOver

==============================================================================
