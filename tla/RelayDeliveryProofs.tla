------------------------ MODULE RelayDeliveryProofs ------------------------
(***************************************************************************)
(* The order of envelopes on their way to one socket, in every run of the  *)
(* relay; and that nobody receives an envelope twice, as long as sessions  *)
(* of one user do not overlap and no DELETE fails.                         *)
(***************************************************************************)
EXTENDS RelayProofs

(* What a connection is about to send. *)

\* A send to a channel adds its payload to what is coming, and nothing else.
LEMMA ComingGrows ==
  ASSUME NEW c \in Connections, NEW p \in Payloads, channel \in [Connections -> Seq(Payloads)],
         channel' = [channel EXCEPT ![c] = Append(@, p)], UNCHANGED inHand
  PROVE  /\ Coming(c)' = Coming(c) \cup {p}
         /\ \A d \in Connections : d # c => Coming(d)' = Coming(d)
<1>. HIDE DEF Payloads
<1>1. channel'[c] = Append(channel[c], p)
      /\ \A d \in Connections : d # c => channel'[d] = channel[d]
  OBVIOUS
<1>2. Elements(Append(channel[c], p)) = Elements(channel[c]) \cup {p}
  BY AppendElements
<1>. QED BY <1>1, <1>2 DEF Coming

\* A send task that takes a payload moves it from the channel to its hand.
LEMMA ComingTaken ==
  ASSUME Bookkeeping, NEW c \in Connections, TakePayload(c)
  PROVE  \A d \in Connections : Coming(d)' = Coming(d)
<1>1. /\ channel \in [Connections -> Seq(Payloads)] /\ inHand \in [Connections -> Payloads \cup {0}]
      /\ inHand[c] = 0 /\ channel[c] # <<>>
      /\ 0 \notin Payloads
      /\ inHand' = [inHand EXCEPT ![c] = Head(channel[c])]
      /\ channel' = [channel EXCEPT ![c] = Tail(@)]
  BY DEF TakePayload, Bookkeeping, TypeOK, TasksFollowPhase, Payloads, NoPayload
<1>. HIDE DEF Payloads
<1>2. Elements(channel[c]) = {Head(channel[c])} \cup Elements(Tail(channel[c]))
      /\ Head(channel[c]) \in Payloads
  BY <1>1, HeadElements
<1>. QED BY <1>1, <1>2 DEF Coming, NoPayload

\* A send task that writes or ends adds nothing to what is coming.
LEMMA ComingShrinks ==
  ASSUME Bookkeeping, NEW c \in Connections, WritePayload(c) \/ EndSendTask(c)
  PROVE  \A d \in Connections : Coming(d)' \subseteq Coming(d)
<1>1. \A d \in Connections : /\ inHand'[d] \in {inHand[d], 0}
                             /\ channel'[d] \in {channel[d], <<>>}
  BY DEF WritePayload, EndSendTask, Bookkeeping, TypeOK, NoPayload
<1>. QED BY <1>1, EmptyElements DEF Coming, NoPayload

------------------------------------------------------------------------------
(* What a receive task handles is nowhere else. *)

\* At the start nothing is handled.
LEMMA FreshInit == Init => HandledIsFresh
BY DEF Init, HandledIsFresh, KnownRows, NoPayload

\* Handled envelopes stay fresh as long as payloads only disappear, or those
\* that were not handled move.
LEMMA FreshKept ==
  ASSUME HandledIsFresh, UNCHANGED <<envelopes, storedAs>>, KnownRows' \subseteq KnownRows,
         \A c \in Connections : handling'[c] # NoPayload =>
           /\ handling'[c] = handling[c]
           /\ \A d \in Connections : handling[c] \notin Coming(d)'
           /\ \A u \in ValidNames : handling[c] \notin Elements(received'[u])
  PROVE  HandledIsFresh'
BY DEF HandledIsFresh, Accepted

\* An envelope that is handled was never sent or stored, after any step.
LEMMA FreshStep ==
  Bookkeeping /\ PayloadsAddressed /\ HandledIsFresh /\ [Next]_vars => HandledIsFresh'
<1>. SUFFICES ASSUME Bookkeeping, PayloadsAddressed, HandledIsFresh, [Next]_vars
              PROVE  HandledIsFresh'
  OBVIOUS
<1>. USE DEF registry, mainVars, sendVars, recvVars, database, history, NoConnection, NoPayload
<1>0. /\ channel \in [Connections -> Seq(Payloads)]
      /\ handling \in [Connections -> Payloads \cup {0}]
      /\ storedAs \in [Payloads -> Nat]
      /\ received \in [ValidNames -> Seq(Payloads)]
      /\ envelopes \in Seq(Envelope)
      /\ snapshot \in [Connections -> SUBSET Row]
      /\ queuedMessages \in SUBSET Row
      /\ 0 \notin Payloads
  BY DEF Bookkeeping, TypeOK, Payloads
<1>. HIDE DEF Payloads
<1>a. channel \in [Connections -> Seq(Payloads)]
  BY <1>0
<1>b. snapshot \in [Connections -> SUBSET Row] /\ queuedMessages \in SUBSET Row
  BY <1>0
<1>c. handling \in [Connections -> Payloads \cup {0}] /\ 0 \notin Payloads
  BY <1>0
<1>1. ASSUME UNCHANGED <<channel, inHand, handling, storedAs, envelopes, received>>,
             KnownRows' \subseteq KnownRows
      PROVE  HandledIsFresh'
  BY <1>1, FreshKept DEF HandledIsFresh, Coming
<1>2. ASSUME UNCHANGED <<storedAs, envelopes, received>>, KnownRows' \subseteq KnownRows,
             \A d \in Connections : Coming(d)' \subseteq Coming(d),
             \A d \in Connections : handling'[d] \in {handling[d], 0}
      PROVE  HandledIsFresh'
  BY <1>2, FreshKept DEF HandledIsFresh
<1>3. ASSUME NEW c \in Connections, LoadQueue(c) PROVE HandledIsFresh'
  <2>1. \A d \in Connections : snapshot'[d] \subseteq snapshot[d] \cup queuedMessages
    BY <1>b, <1>3 DEF LoadQueue, RowsFor
  <2>. QED BY <1>1, <1>3, <2>1 DEF LoadQueue, KnownRows
<1>4. ASSUME NEW c \in Connections, ForwardQueued(c) PROVE HandledIsFresh'
  <2>. DEFINE q == FirstRow(snapshot[c]).payload
  <2>1. q \in Payloads /\ storedAs[q] # 0
    <3>1. FirstRow(snapshot[c]) \in snapshot[c]
      BY <1>0, <1>4, FirstRowIsARow DEF ForwardQueued
    <3>. QED BY <1>b, <3>1 DEF Row, HandledIsFresh, KnownRows
  <2>2. channel' = [channel EXCEPT ![c] = Append(@, q)]
        /\ UNCHANGED <<inHand, handling, storedAs, envelopes, received, snapshot, queuedMessages>>
    BY <1>4 DEF ForwardQueued
  <2>. HIDE DEF q
  <2>3. \A d \in Connections : Coming(d)' \subseteq Coming(d) \cup {q}
    <3>1. q \in Payloads /\ channel' = [channel EXCEPT ![c] = Append(@, q)] /\ inHand' = inHand
      BY <2>1, <2>2
    <3>. QED BY <1>a, <3>1, ComingGrows
  <2>. QED BY <2>1, <2>2, <2>3, FreshKept DEF HandledIsFresh, KnownRows
<1>5. ASSUME NEW c \in Connections, DeleteQueued(c) \/ DeleteFails(c) PROVE HandledIsFresh'
  <2>1. /\ \A d \in Connections : snapshot'[d] \subseteq snapshot[d]
        /\ queuedMessages' \subseteq queuedMessages
    BY <1>0, <1>5 DEF DeleteQueued, DeleteFails
  <2>. QED BY <1>1, <1>5, <2>1 DEF DeleteQueued, DeleteFails, KnownRows
<1>6. ASSUME NEW c \in Connections, TakePayload(c) PROVE HandledIsFresh'
  BY <1>2, <1>6, ComingTaken DEF TakePayload, KnownRows
<1>7. ASSUME NEW c \in Connections, WritePayload(c) PROVE HandledIsFresh'
  <2>1. owner[c] \in ValidNames /\ inHand[c] \in Payloads /\ inHand[c] \in Coming(c)
    BY <1>0, <1>7 DEF WritePayload, Bookkeeping, TypeOK, TasksFollowPhase, ConnectionsDrawn, Coming
  <2>2. \A u \in ValidNames : Elements(received'[u]) \subseteq Elements(received[u]) \cup {inHand[c]}
    <3>1. Elements(Append(received[owner[c]], inHand[c])) = Elements(received[owner[c]]) \cup {inHand[c]}
      BY <1>0, <2>1, AppendElements
    <3>. QED BY <1>0, <1>7, <3>1 DEF WritePayload
  <2>3. UNCHANGED <<handling, storedAs, envelopes, snapshot, queuedMessages>>
        /\ \A d \in Connections : Coming(d)' \subseteq Coming(d)
    BY <1>7, ComingShrinks DEF WritePayload
  <2>. QED BY <2>1, <2>2, <2>3, FreshKept DEF HandledIsFresh, KnownRows
<1>8. ASSUME NEW c \in Connections, EndSendTask(c) PROVE HandledIsFresh'
  BY <1>2, <1>8, ComingShrinks DEF EndSendTask, KnownRows
<1>9. ASSUME NEW c \in Connections, NEW from \in Names, NEW to \in Names,
             AcceptFrame(c, from, to)
      PROVE  HandledIsFresh'
  <2>. DEFINE n == Len(envelopes) + 1
  <2>1. /\ n \in Payloads /\ n \notin Accepted /\ Accepted' = Accepted \cup {n}
        /\ \A p \in Accepted : envelopes'[p] = envelopes[p]
        /\ envelopes'[n].connection = c
    <3>1. /\ Len(envelopes) \in Nat /\ Len(envelopes) < MaxPayloads
          /\ envelopes' = Append(envelopes, [connection |-> c, from |-> from, to |-> to])
      BY <1>0, <1>9 DEF AcceptFrame
    <3>2. Len(envelopes') = n /\ envelopes'[n] = [connection |-> c, from |-> from, to |-> to]
          /\ \A p \in 1 .. Len(envelopes) : envelopes'[p] = envelopes[p]
      BY <1>0, <3>1
    <3>. QED BY <3>1, <3>2, RelayAssumption DEF Accepted, Payloads
  <2>2. /\ handling' = [handling EXCEPT ![c] = n]
        /\ UNCHANGED <<channel, inHand, snapshot, queuedMessages, received, storedAs>>
    BY <1>9 DEF AcceptFrame
  <2>. HIDE DEF n
  <2>3. \A d \in Connections : n \notin Coming(d) /\ Coming(d)' = Coming(d)
    BY <2>1, <2>2 DEF PayloadsAddressed, AcceptedFor, Coming
  <2>4. \A u \in ValidNames : n \notin Elements(received[u])
    BY <2>1 DEF PayloadsAddressed, AcceptedFor
  <2>5. \A d \in Connections : handling[d] # 0 => handling[d] \in Accepted
    BY DEF Bookkeeping, TasksFollowPhase
  <2>6. storedAs[n] = 0 /\ KnownRows' = KnownRows
    BY <2>1, <2>2 DEF HandledIsFresh, KnownRows
  <2>7. ASSUME NEW d \in Connections, handling'[d] # 0
        PROVE  /\ envelopes'[handling'[d]].connection = d
               /\ storedAs'[handling'[d]] = 0
               /\ \A e \in Connections : handling'[d] \notin Coming(e)'
               /\ \A u \in ValidNames : handling'[d] \notin Elements(received'[u])
    <3>1. CASE d = c
      BY <1>c, <2>1, <2>2, <2>3, <2>4, <2>6, <3>1
    <3>2. CASE d # c
      <4>1. handling'[d] = handling[d] /\ handling[d] # 0
        BY <1>c, <2>2, <2>7, <3>2
      <4>. QED BY <2>1, <2>2, <2>3, <2>5, <4>1 DEF HandledIsFresh
    <3>. QED BY <3>1, <3>2
  <2>. QED BY <2>1, <2>2, <2>6, <2>7 DEF HandledIsFresh
<1>10. ASSUME NEW c \in Connections, RelayPayload(c) PROVE HandledIsFresh'
  <2>1. /\ handling[c] \in Payloads /\ target[c] \in Connections
        /\ channel' = [channel EXCEPT ![target[c]] = Append(@, handling[c])]
        /\ handling' = [handling EXCEPT ![c] = 0]
        /\ UNCHANGED <<inHand, snapshot, queuedMessages, envelopes, received, storedAs>>
    BY <1>0, <1>10 DEF RelayPayload, Bookkeeping, TypeOK, TasksFollowPhase
  <2>2. \A d \in Connections : Coming(d)' \subseteq Coming(d) \cup {handling[c]}
    <3>1. /\ handling[c] \in Payloads /\ target[c] \in Connections /\ inHand' = inHand
          /\ channel' = [channel EXCEPT ![target[c]] = Append(@, handling[c])]
      BY <2>1
    <3>. QED BY <1>a, <3>1, ComingGrows
  <2>3. \A d \in Connections : handling'[d] # 0 => handling'[d] = handling[d] /\ handling[d] # handling[c]
    BY <1>c, <2>1 DEF HandledIsFresh
  <2>. QED BY <2>1, <2>2, <2>3, FreshKept DEF HandledIsFresh, KnownRows
<1>11. ASSUME NEW c \in Connections, StorePayload(c) PROVE HandledIsFresh'
  <2>. DEFINE new == [id |-> NewRowId, recipient |-> Recipient(c), payload |-> handling[c]]
  <2>1. /\ handling[c] \in Payloads /\ handling[c] \in Accepted
        /\ handling' = [handling EXCEPT ![c] = 0]
        /\ storedAs' = [storedAs EXCEPT ![handling[c]] = NewRowId]
        /\ UNCHANGED <<channel, inHand, snapshot, envelopes, received>>
    BY <1>0, <1>11 DEF StorePayload, Bookkeeping, TasksFollowPhase
  <2>2. KnownRows' = KnownRows \cup {new} /\ new.payload = handling[c] /\ new.id = NewRowId
    BY <1>11 DEF StorePayload, KnownRows
  <2>3. \A row \in KnownRows : row.payload \in Payloads /\ row.id # 0
    BY <1>0 DEF KnownRows, Row
  <2>. HIDE DEF new
  <2>4. \A row \in KnownRows : row.payload # handling[c]
    <3>1. storedAs[handling[c]] = 0 /\ \A row \in KnownRows : storedAs[row.payload] = row.id
      BY <1>c, <2>1 DEF HandledIsFresh
    <3>. QED BY <2>3, <3>1
  <2>5. \A d \in Connections : handling'[d] # 0 => handling'[d] = handling[d] /\ handling[d] # handling[c]
    BY <1>c, <2>1 DEF HandledIsFresh
  <2>. QED BY <1>0, <2>1, <2>2, <2>3, <2>4, <2>5 DEF HandledIsFresh, Coming, Accepted
<1>12. ASSUME NEW c \in Connections, StoreFails(c) \/ EndReceiveTask(c) PROVE HandledIsFresh'
  <2>1. /\ \A d \in Connections : handling'[d] \in {handling[d], 0}
        /\ UNCHANGED <<channel, inHand, snapshot, queuedMessages, envelopes, received, storedAs>>
    BY <1>0, <1>12 DEF StoreFails, EndReceiveTask
  <2>. QED BY <1>2, <2>1 DEF KnownRows, Coming
<1>13. CASE Restart
  <2>1. KnownRows' \subseteq KnownRows /\ \A d \in Connections : Coming(d)' = {}
    BY <1>13, EmptyElements DEF Restart, KnownRows, Coming
  <2>. QED BY <1>2, <1>13, <2>1 DEF Restart
<1>14. CASE UNCHANGED vars
  BY <1>1, <1>14 DEF vars, KnownRows
<1>15. ASSUME NEW c \in Connections, MainTask(c) PROVE HandledIsFresh'
  BY <1>1, <1>3, <1>4, <1>5, <1>15
  DEF MainTask, Register, SpawnTasks, Select, Unregister, KnownRows
<1>16. ASSUME NEW c \in Connections, SendTask(c) PROVE HandledIsFresh'
  BY <1>6, <1>7, <1>8, <1>16 DEF SendTask
<1>17. ASSUME NEW c \in Connections, ReceiveTask(c) PROVE HandledIsFresh'
  BY <1>1, <1>10, <1>11, <1>12, <1>17 DEF ReceiveTask, LookupRecipient, RelayFails, KnownRows
<1>18. CASE Environment
  BY <1>1, <1>9, <1>13, <1>18 DEF Environment, Connect, LinkChanges, KnownRows
<1>. QED BY <1>14, <1>15, <1>16, <1>17, <1>18 DEF Next

\* The layers of the invariant so far hold together.
LEMMA FreshCorrect ==
  Spec => [](Bookkeeping /\ RowsIdentified /\ DeletedWasForwarded /\ PayloadsAddressed /\ HandledIsFresh)
BY BookkeepingCorrect, DeliveryCorrect, FreshInit, FreshStep, PTL DEF Spec

------------------------------------------------------------------------------
(* The order on the way to one socket. *)

\* ORDER BY id: the first row of a nonempty result has the least id.
LEMMA FirstRowIsLeast ==
  ASSUME NEW rows \in SUBSET Row, rows # {}
  PROVE  FirstRow(rows) \in rows /\ \A row \in rows : FirstRow(rows).id <= row.id
<1>1. {row.id : row \in rows} \in SUBSET Nat /\ {row.id : row \in rows} # {}
  BY DEF Row
<1>2. PICK id \in {row.id : row \in rows} : \A other \in {row.id : row \in rows} : id <= other
  BY <1>1, LeastExists
<1>3. \E row \in rows : \A other \in rows : row.id <= other.id
  BY <1>2
<1>. QED BY <1>3 DEF FirstRow

\* At the start nothing is to be drained.
LEMMA DrainOrderInit == Init => DrainInOrder
BY EmptyElements DEF Init, DrainInOrder, Coming, NoPayload

\* The order of a drain is kept as long as payloads only disappear.
LEMMA DrainKept ==
  ASSUME DrainInOrder, UNCHANGED <<phase, snapshot, storedAs, envelopes>>,
         \A d \in Connections : Coming(d)' \subseteq Coming(d) /\ handling'[d] \in {handling[d], 0}
  PROVE  DrainInOrder'
BY DEF DrainInOrder, NoPayload

\* After any step, what a channel holds is older than what will be put into it.
LEMMA DrainOrderStep ==
  Bookkeeping /\ RowsIdentified /\ DeletedWasForwarded /\ PayloadsAddressed /\ HandledIsFresh
    /\ DrainInOrder /\ [Next]_vars => DrainInOrder'
<1>. SUFFICES ASSUME Bookkeeping, RowsIdentified, DeletedWasForwarded, PayloadsAddressed,
                     HandledIsFresh, DrainInOrder, [Next]_vars
              PROVE  DrainInOrder'
  OBVIOUS
<1>. USE DEF registry, mainVars, sendVars, recvVars, database, history, NoConnection, NoPayload
<1>a. channel \in [Connections -> Seq(Payloads)]
  BY DEF Bookkeeping, TypeOK
<1>b. snapshot \in [Connections -> SUBSET Row] /\ phase \in [Connections -> Phases]
      /\ queuedMessages \in SUBSET Row
  BY DEF Bookkeeping, TypeOK
<1>c. handling \in [Connections -> Payloads \cup {0}] /\ 0 \notin Payloads
  BY DEF Bookkeeping, TypeOK, Payloads
<1>d. storedAs \in [Payloads -> Nat] /\ \A c \in Connections : Coming(c) \in SUBSET Payloads
  BY ElementsType DEF Bookkeeping, TypeOK, Coming
<1>e. envelopes \in Seq(Envelope)
  BY DEF Bookkeeping, TypeOK
<1>. HIDE DEF Payloads
<1>1. ASSUME UNCHANGED <<phase, snapshot, storedAs, envelopes>>,
             \A d \in Connections : Coming(d)' \subseteq Coming(d) /\ handling'[d] \in {handling[d], 0}
      PROVE  DrainInOrder'
  BY <1>1, DrainKept
<1>2. ASSUME UNCHANGED <<channel, inHand, handling, phase, snapshot, storedAs, envelopes>>
      PROVE  DrainInOrder'
  BY <1>2 DEF DrainInOrder, Coming
<1>3. ASSUME UNCHANGED <<channel, inHand, handling, snapshot, storedAs, envelopes>>,
             NEW c \in Connections, phase' = [phase EXCEPT ![c] = phase'[c]],
             \/ phase[c] \in {"free", "accepted"} /\ phase'[c] \in {"accepted", "loading"}
             \/ snapshot[c] = {} /\ phase'[c] \in {"serving", "closing", "closed"}
      PROVE  DrainInOrder'
  BY <1>b, <1>3 DEF DrainInOrder, Coming
<1>4. ASSUME NEW u \in Names, Connect(u) PROVE DrainInOrder'
  <2>1. nextConnectionId \in Connections /\ phase[nextConnectionId] = "free"
    BY <1>4 DEF Connect, Bookkeeping, ConnectionsDrawn, TypeOK
  <2>. QED BY <1>3, <1>4, <1>b, <2>1 DEF Connect
<1>5. ASSUME NEW c \in Connections, Register(c) PROVE DrainInOrder'
  BY <1>3, <1>5, <1>b DEF Register
<1>6. ASSUME NEW c \in Connections, SpawnTasks(c) \/ Select(c) \/ Unregister(c)
      PROVE  DrainInOrder'
  <2>1. snapshot[c] = {}
    BY <1>6 DEF SpawnTasks, Drained, Select, Unregister, DrainInOrder
  <2>. QED BY <1>3, <1>6, <1>b, <2>1 DEF SpawnTasks, Select, Unregister
<1>7. ASSUME NEW c \in Connections, LoadQueue(c) PROVE DrainInOrder'
  <2>1. snapshot'[c] \in SUBSET Row /\ \A d \in Connections : d # c => snapshot'[d] = snapshot[d]
    BY <1>b, <1>7 DEF LoadQueue, RowsFor
  <2>2. \A p \in Coming(c) : storedAs[p] = 0
    BY <1>7 DEF LoadQueue, DrainInOrder
  <2>3. \A row \in snapshot'[c] : 0 < row.id
    BY <2>1 DEF Row
  <2>4. phase' = [phase EXCEPT ![c] = "draining"]
        /\ UNCHANGED <<channel, inHand, handling, storedAs, envelopes>>
    BY <1>7 DEF LoadQueue
  <2>. QED BY <1>b, <2>1, <2>2, <2>3, <2>4 DEF DrainInOrder, Coming
<1>8. ASSUME NEW c \in Connections, ForwardQueued(c) PROVE DrainInOrder'
  <2>. DEFINE first == FirstRow(snapshot[c])
              q == first.payload
  <2>1. first \in snapshot[c] /\ first \in Row
    BY <1>b, <1>8, FirstRowIsLeast DEF ForwardQueued
  <2>2. q \in Payloads /\ storedAs[q] = first.id /\ first.id \in Nat \ {0}
    BY <2>1 DEF Row, HandledIsFresh, KnownRows
  <2>3. \A p \in Coming(c) : storedAs[p] < first.id
    BY <1>8, <2>1 DEF ForwardQueued, DrainInOrder
  <2>4. /\ channel' = [channel EXCEPT ![c] = Append(@, q)] /\ inHand' = inHand
        /\ phase' = [phase EXCEPT ![c] = "deleting"]
        /\ UNCHANGED <<handling, storedAs, envelopes, snapshot>>
    BY <1>8 DEF ForwardQueued
  <2>5. FirstRow(snapshot'[c]) = first
    BY <2>4
  <2>. HIDE DEF first, q
  <2>6. Coming(c)' = Coming(c) \cup {q} /\ \A d \in Connections : d # c => Coming(d)' = Coming(d)
    BY <1>a, <2>2, <2>4, ComingGrows
  <2>7. ASSUME NEW d \in Connections, d # c, NEW p \in Coming(d)'
        PROVE  p \in Coming(d) /\ phase'[d] = phase[d]
    BY <1>b, <2>4, <2>6, <2>7
  <2>8. ASSUME NEW p \in Coming(c)'
        PROVE  /\ storedAs[p] <= first.id
               /\ \A d \in Connections :
                    storedAs[p] = 0 /\ envelopes[p].connection = d /\ handling[d] # 0
                      => p < handling[d]
    BY <1>d, <2>2, <2>3, <2>6 DEF DrainInOrder
  <2>9. phase'[c] = "deleting" /\ phase[c] = "draining"
    BY <1>8, <1>b DEF ForwardQueued
  <2>10. \A d \in Connections : phase'[d] \notin {"draining", "deleting"} => snapshot[d] = {}
    BY <1>b, <2>4, <2>9 DEF DrainInOrder
  <2>. QED BY <2>4, <2>5, <2>7, <2>8, <2>9, <2>10 DEF DrainInOrder
<1>9. ASSUME NEW c \in Connections, DeleteQueued(c) \/ DeleteFails(c) PROVE DrainInOrder'
  <2>. DEFINE first == FirstRow(snapshot[c])
  <2>1. /\ snapshot'[c] \subseteq snapshot[c] \ {first}
        /\ \A d \in Connections : d # c => snapshot'[d] = snapshot[d]
        /\ phase[c] = "deleting" /\ phase' = [phase EXCEPT ![c] = "draining"]
        /\ UNCHANGED <<channel, inHand, handling, storedAs, envelopes>>
    BY <1>b, <1>9 DEF DeleteQueued, DeleteFails
  <2>2. first \in snapshot[c] /\ \A row \in snapshot[c] : first.id <= row.id
    <3>1. snapshot[c] \in SUBSET Row /\ snapshot[c] # {}
      BY <1>b, <2>1 DEF DeletedWasForwarded
    <3>. QED BY <3>1, FirstRowIsLeast
  <2>3. \A row \in snapshot'[c] : row \in Row /\ first.id <= row.id /\ first.id # row.id
    BY <1>b, <2>1, <2>2 DEF RowsIdentified, KnownRows
  <2>4. first.id \in Nat /\ \A p \in Coming(c) : storedAs[p] \in Nat /\ storedAs[p] <= first.id
    BY <1>b, <1>d, <2>1, <2>2 DEF DrainInOrder, Row
  <2>5. \A p \in Coming(c) : \A row \in snapshot'[c] : storedAs[p] < row.id
    BY <2>3, <2>4 DEF Row
  <2>6. \A d \in Connections : phase'[d] = (IF d = c THEN "draining" ELSE phase[d])
    BY <1>b, <2>1
  <2>. HIDE DEF first
  <2>. QED BY <2>1, <2>5, <2>6 DEF DrainInOrder, Coming
<1>10. ASSUME NEW c \in Connections, NEW from \in Names, NEW to \in Names,
              AcceptFrame(c, from, to)
       PROVE  DrainInOrder'
  <2>. DEFINE n == Len(envelopes) + 1
  <2>1. /\ \A p \in Accepted : p < n /\ envelopes'[p] = envelopes[p]
        /\ handling' = [handling EXCEPT ![c] = n]
        /\ UNCHANGED <<channel, inHand, snapshot, phase, storedAs>>
    BY <1>e, <1>10 DEF AcceptFrame, Accepted
  <2>2. \A d \in Connections : Coming(d) \subseteq Accepted
    BY DEF PayloadsAddressed, AcceptedFor, Coming
  <2>. HIDE DEF n
  <2>. QED BY <1>c, <2>1, <2>2 DEF DrainInOrder, Coming
<1>11. ASSUME NEW c \in Connections, RelayPayload(c) PROVE DrainInOrder'
  <2>0. PICK q \in Payloads, t \in Connections : q = handling[c] /\ t = target[c]
    BY <1>c, <1>11 DEF RelayPayload, Bookkeeping, TypeOK, TasksFollowPhase
  <2>1. /\ inHand' = inHand
        /\ channel' = [channel EXCEPT ![t] = Append(@, q)]
        /\ handling' = [handling EXCEPT ![c] = 0]
        /\ UNCHANGED <<phase, snapshot, storedAs, envelopes>>
    BY <2>0, <1>11 DEF RelayPayload
  <2>2. storedAs[q] = 0 /\ envelopes[q].connection = c
    BY <1>c, <2>0 DEF HandledIsFresh
  <2>3. Coming(t)' = Coming(t) \cup {q} /\ \A d \in Connections : d # t => Coming(d)' = Coming(d)
    BY <1>a, <2>1, ComingGrows
  <2>4. /\ phase[t] = "draining" => \A row \in snapshot[t] : 0 < row.id
        /\ phase[t] = "deleting" => 0 <= FirstRow(snapshot[t]).id
    <3>1. phase[t] = "deleting" => FirstRow(snapshot[t]) \in snapshot[t]
      BY <1>b, <2>1, FirstRowIsLeast DEF DeletedWasForwarded
    <3>. QED BY <1>b, <2>1, <3>1 DEF Row
  <2>5. \A d \in Connections : handling'[d] # 0 => d # c /\ handling'[d] = handling[d]
    BY <1>c, <2>1
  <2>6. ASSUME NEW d \in Connections, NEW p \in Coming(d)', p \notin Coming(d)
        PROVE  p = q /\ d = t
    BY <2>3, <2>6
  <2>7. ASSUME NEW d \in Connections, NEW p \in Coming(d)'
        PROVE  /\ phase[d] \in {"free", "accepted", "loading"} => storedAs[p] = 0
               /\ phase[d] = "draining" => \A row \in snapshot[d] : storedAs[p] < row.id
               /\ phase[d] = "deleting" => storedAs[p] <= FirstRow(snapshot[d]).id
               /\ \A e \in Connections :
                    storedAs[p] = 0 /\ envelopes[p].connection = e /\ handling'[e] # 0
                      => p < handling'[e]
    <3>1. CASE p \in Coming(d)
      BY <2>5, <3>1 DEF DrainInOrder
    <3>2. CASE p \notin Coming(d)
      BY <2>0, <2>2, <2>4, <2>5, <2>6, <3>2
    <3>. QED BY <3>1, <3>2
  <2>. QED BY <2>1, <2>7 DEF DrainInOrder
<1>12. ASSUME NEW c \in Connections, StorePayload(c) PROVE DrainInOrder'
  <2>1. /\ handling[c] \in Payloads
        /\ handling' = [handling EXCEPT ![c] = 0]
        /\ storedAs' = [storedAs EXCEPT ![handling[c]] = NewRowId]
        /\ UNCHANGED <<channel, inHand, snapshot, phase, envelopes>>
    BY <1>c, <1>12 DEF StorePayload, Bookkeeping, TasksFollowPhase
  <2>2. \A d \in Connections : handling[c] \notin Coming(d)
    BY <1>c, <2>1 DEF HandledIsFresh
  <2>3. \A d \in Connections : \A p \in Coming(d) : storedAs'[p] = storedAs[p]
    BY <1>d, <2>1, <2>2
  <2>4. \A d \in Connections : handling'[d] \in {handling[d], 0}
    BY <1>c, <2>1
  <2>. QED BY <2>1, <2>3, <2>4 DEF DrainInOrder, Coming
<1>13. ASSUME NEW c \in Connections, StoreFails(c) \/ EndReceiveTask(c) PROVE DrainInOrder'
  <2>1. /\ \A d \in Connections : handling'[d] \in {handling[d], 0}
        /\ UNCHANGED <<channel, inHand, snapshot, phase, envelopes, storedAs>>
    BY <1>c, <1>13 DEF StoreFails, EndReceiveTask
  <2>. QED BY <1>1, <2>1 DEF Coming
<1>14. CASE Restart
  <2>1. \A d \in Connections : Coming(d)' = {} /\ snapshot'[d] = {}
    BY <1>14, EmptyElements DEF Restart, Coming
  <2>. QED BY <2>1 DEF DrainInOrder
<1>15. CASE UNCHANGED vars
  BY <1>2, <1>15 DEF vars
<1>16. ASSUME NEW c \in Connections, MainTask(c) PROVE DrainInOrder'
  BY <1>5, <1>6, <1>7, <1>8, <1>9, <1>16 DEF MainTask
<1>17. ASSUME NEW c \in Connections, SendTask(c) PROVE DrainInOrder'
  BY <1>1, <1>17, ComingTaken, ComingShrinks DEF SendTask, TakePayload, WritePayload, EndSendTask
<1>18. ASSUME NEW c \in Connections, ReceiveTask(c) PROVE DrainInOrder'
  BY <1>2, <1>11, <1>12, <1>13, <1>18 DEF ReceiveTask, LookupRecipient, RelayFails
<1>19. CASE Environment
  BY <1>2, <1>4, <1>10, <1>14, <1>19 DEF Environment, LinkChanges
<1>. QED BY <1>15, <1>16, <1>17, <1>18, <1>19 DEF Next

\* The order that two payloads must have in one connection's way out.
Precedes(p, q) ==
  /\ storedAs[p] # 0 /\ storedAs[q] # 0 => storedAs[p] < storedAs[q]
  /\ storedAs[p] = 0 /\ storedAs[q] = 0 /\ envelopes[p].connection = envelopes[q].connection
     => p < q

Ordered(c) ==
  /\ \A i, j \in 1 .. Len(channel[c]) : i < j => Precedes(channel[c][i], channel[c][j])
  /\ inHand[c] # NoPayload => \A p \in Elements(channel[c]) : Precedes(inHand[c], p)

AllOrdered == \A c \in Connections : Ordered(c)

\* InOrder speaks of the hand and the channel as one sequence.
LEMMA OrderedIsInOrder ==
  ASSUME TypeOK, AllOrdered
  PROVE  InOrder
<1>. SUFFICES ASSUME NEW c \in Connections,
                     NEW i \in 1 .. Len(Outgoing(c)), NEW j \in 1 .. Len(Outgoing(c)), i < j
              PROVE  Precedes(Outgoing(c)[i], Outgoing(c)[j])
  BY DEF InOrder, Precedes
<1>1. channel[c] \in Seq(Payloads) /\ inHand[c] \in Payloads \cup {0}
  BY DEF TypeOK, NoPayload
<1>. HIDE DEF Payloads
<1>2. CASE inHand[c] = NoPayload
  <2>1. Outgoing(c) = channel[c]
    BY <1>1, <1>2 DEF Outgoing
  <2>. QED BY <2>1 DEF AllOrdered, Ordered
<1>3. CASE inHand[c] # NoPayload
  <2>1. Outgoing(c) = <<inHand[c]>> \o channel[c]
    BY <1>3 DEF Outgoing
  <2>2. /\ Len(Outgoing(c)) = Len(channel[c]) + 1 /\ Len(channel[c]) \in Nat
        /\ Outgoing(c)[1] = inHand[c]
        /\ \A k \in 2 .. Len(channel[c]) + 1 : Outgoing(c)[k] = channel[c][k - 1]
    BY <1>1, <2>1
  <2>3. j - 1 \in 1 .. Len(channel[c]) /\ Outgoing(c)[j] = channel[c][j - 1]
    BY <2>2
  <2>4. CASE i = 1
    <3>1. Outgoing(c)[j] \in Elements(channel[c])
      BY <2>3 DEF Elements
    <3>. QED BY <1>3, <2>2, <2>4, <3>1 DEF AllOrdered, Ordered
  <2>5. CASE i # 1
    <3>1. i - 1 \in 1 .. Len(channel[c]) /\ Outgoing(c)[i] = channel[c][i - 1] /\ i - 1 < j - 1
      BY <2>2, <2>5
    <3>. QED BY <2>3, <3>1 DEF AllOrdered, Ordered
  <2>. QED BY <2>4, <2>5
<1>. QED BY <1>2, <1>3

\* A channel stays in order when a payload is added that all others precede.
LEMMA OrderedAppend ==
  ASSUME NEW c \in Connections, channel \in [Connections -> Seq(Payloads)],
         NEW q \in Payloads, channel' = [channel EXCEPT ![c] = Append(@, q)],
         UNCHANGED <<inHand, storedAs, envelopes>>,
         AllOrdered, \A p \in Coming(c) : Precedes(p, q)
  PROVE  AllOrdered'
<1>. HIDE DEF Payloads
<1>1. \A p, r : Precedes(p, r)' <=> Precedes(p, r)
  BY DEF Precedes
<1>2. channel'[c] = Append(channel[c], q)
      /\ \A d \in Connections : d # c => channel'[d] = channel[d]
  OBVIOUS
<1>3. /\ Len(channel'[c]) = Len(channel[c]) + 1 /\ Len(channel[c]) \in Nat
      /\ \A i \in 1 .. Len(channel[c]) : channel'[c][i] = channel[c][i]
      /\ channel'[c][Len(channel[c]) + 1] = q
  BY <1>2
<1>4. \A i \in 1 .. Len(channel[c]) : channel[c][i] \in Coming(c)
  BY DEF Coming, Elements
<1>5. ASSUME NEW i \in 1 .. Len(channel'[c]), NEW j \in 1 .. Len(channel'[c]), i < j
      PROVE  Precedes(channel'[c][i], channel'[c][j])
  <2>1. i \in 1 .. Len(channel[c])
    BY <1>3, <1>5
  <2>2. j \in 1 .. Len(channel[c]) \/ j = Len(channel[c]) + 1
    BY <1>3
  <2>. QED BY <1>3, <1>4, <1>5, <2>1, <2>2 DEF AllOrdered, Ordered
<1>6. ASSUME inHand[c] # NoPayload, NEW p \in Elements(channel'[c])
      PROVE  Precedes(inHand[c], p)
  <2>1. inHand[c] \in Coming(c)
    BY <1>6 DEF Coming
  <2>2. p \in Elements(channel[c]) \/ p = q
    BY <1>2, <1>6, AppendElements
  <2>. QED BY <1>6, <2>1, <2>2 DEF AllOrdered, Ordered
<1>. QED BY <1>1, <1>2, <1>5, <1>6 DEF AllOrdered, Ordered

\* What is on its way stays in order while nothing is added to it, and the
\* envelopes on the way and their rows are those they were.
LEMMA OrderedKept ==
  ASSUME AllOrdered,
         \A c \in Connections :
           /\ \A p \in Coming(c) : storedAs'[p] = storedAs[p] /\ envelopes'[p] = envelopes[p]
           /\ channel'[c] \in {channel[c], <<>>}
           /\ inHand'[c] \in {inHand[c], NoPayload}
  PROVE  AllOrdered'
<1>. SUFFICES ASSUME NEW c \in Connections PROVE Ordered(c)'
  BY DEF AllOrdered
<1>1. \A p, q \in Coming(c) : Precedes(p, q) => Precedes(p, q)'
  BY DEF Precedes
<1>2. \A i \in 1 .. Len(channel[c]) : channel[c][i] \in Coming(c)
  BY DEF Coming, Elements
<1>3. Elements(channel[c]) \subseteq Coming(c) /\ (inHand[c] # NoPayload => inHand[c] \in Coming(c))
  BY DEF Coming
<1>4. Len(<<>>) = 0
  OBVIOUS
<1>. QED BY <1>1, <1>2, <1>3, <1>4, EmptyElements DEF AllOrdered, Ordered

\* A send task takes the first payload of its channel.
LEMMA OrderedTaken ==
  ASSUME Bookkeeping, AllOrdered, NEW c \in Connections, TakePayload(c)
  PROVE  AllOrdered'
<1>1. /\ channel \in [Connections -> Seq(Payloads)] /\ inHand \in [Connections -> Payloads \cup {0}]
      /\ inHand[c] = 0 /\ channel[c] # <<>>
      /\ inHand' = [inHand EXCEPT ![c] = Head(channel[c])]
      /\ channel' = [channel EXCEPT ![c] = Tail(@)]
      /\ UNCHANGED <<storedAs, envelopes>>
  BY DEF TakePayload, Bookkeeping, TypeOK, TasksFollowPhase, NoPayload, recvVars, history
<1>. HIDE DEF Payloads
<1>2. \A p, r : Precedes(p, r)' <=> Precedes(p, r)
  BY <1>1 DEF Precedes
<1>3. /\ Len(channel[c]) \in Nat \ {0} /\ Head(channel[c]) = channel[c][1]
      /\ channel'[c] = Tail(channel[c]) /\ inHand'[c] = channel[c][1]
      /\ \A d \in Connections : d # c => channel'[d] = channel[d] /\ inHand'[d] = inHand[d]
  BY <1>1
<1>4. /\ Len(channel'[c]) = Len(channel[c]) - 1
      /\ \A i \in 1 .. Len(channel[c]) - 1 : channel'[c][i] = channel[c][i + 1]
  BY <1>1, <1>3
<1>5. ASSUME NEW i \in 1 .. Len(channel'[c]), NEW j \in 1 .. Len(channel'[c]), i < j
      PROVE  Precedes(channel'[c][i], channel'[c][j])
  <2>0. /\ Len(channel[c]) \in Nat /\ i < j
        /\ i \in 1 .. Len(channel[c]) - 1 /\ j \in 1 .. Len(channel[c]) - 1
    BY <1>3, <1>4, <1>5
  <2>1. i + 1 \in 1 .. Len(channel[c]) /\ j + 1 \in 1 .. Len(channel[c]) /\ i + 1 < j + 1
    BY <2>0
  <2>2. channel'[c][i] = channel[c][i + 1] /\ channel'[c][j] = channel[c][j + 1]
    BY <1>4, <2>0
  <2>. QED BY <2>1, <2>2 DEF AllOrdered, Ordered
<1>6. ASSUME NEW i \in 1 .. Len(channel'[c]) PROVE Precedes(inHand'[c], channel'[c][i])
  <2>1. i + 1 \in 1 .. Len(channel[c]) /\ 1 \in 1 .. Len(channel[c]) /\ 1 < i + 1
    BY <1>3, <1>4
  <2>. QED BY <1>3, <1>4, <2>1 DEF AllOrdered, Ordered
<1>7. Ordered(c)'
  <2>1. \A p \in Elements(channel'[c]) : Precedes(inHand'[c], p)
    BY <1>6 DEF Elements
  <2>. QED BY <1>2, <1>5, <2>1 DEF Ordered
<1>8. ASSUME NEW d \in Connections, d # c PROVE Ordered(d)'
  BY <1>2, <1>3, <1>8 DEF AllOrdered, Ordered
<1>. QED BY <1>7, <1>8 DEF AllOrdered

\* Nothing is on its way at the start.
LEMMA OrderedInit == Init => AllOrdered
<1>. SUFFICES ASSUME Init PROVE AllOrdered
  OBVIOUS
<1>1. \A c \in Connections : channel[c] = <<>> /\ inHand[c] = NoPayload /\ Len(<<>>) = 0
  BY DEF Init
<1>. QED BY <1>1 DEF AllOrdered, Ordered

\* No step puts an envelope into a channel that one already there should follow.
LEMMA OrderedStep ==
  Bookkeeping /\ DeletedWasForwarded /\ PayloadsAddressed /\ HandledIsFresh /\ DrainInOrder
    /\ AllOrdered /\ [Next]_vars => AllOrdered'
<1>. SUFFICES ASSUME Bookkeeping, DeletedWasForwarded, PayloadsAddressed, HandledIsFresh,
                     DrainInOrder, AllOrdered, [Next]_vars
              PROVE  AllOrdered'
  OBVIOUS
<1>. USE DEF registry, mainVars, sendVars, recvVars, database, history, NoConnection, NoPayload
<1>a. channel \in [Connections -> Seq(Payloads)] /\ inHand \in [Connections -> Payloads \cup {0}]
  BY DEF Bookkeeping, TypeOK
<1>b. snapshot \in [Connections -> SUBSET Row] /\ envelopes \in Seq(Envelope)
  BY DEF Bookkeeping, TypeOK
<1>c. handling \in [Connections -> Payloads \cup {0}] /\ 0 \notin Payloads
  BY DEF Bookkeeping, TypeOK, Payloads
<1>d. storedAs \in [Payloads -> Nat] /\ \A c \in Connections : Coming(c) \in SUBSET Payloads
  BY ElementsType DEF Bookkeeping, TypeOK, Coming
<1>. HIDE DEF Payloads
<1>1. ASSUME UNCHANGED <<storedAs, envelopes>>,
             \A c \in Connections : channel'[c] \in {channel[c], <<>>} /\ inHand'[c] \in {inHand[c], 0}
      PROVE  AllOrdered'
  BY <1>1, OrderedKept
<1>2. ASSUME NEW c \in Connections, ForwardQueued(c) PROVE AllOrdered'
  <2>1. PICK first \in snapshot[c] : first = FirstRow(snapshot[c])
    BY <1>b, <1>2, FirstRowIsLeast DEF ForwardQueued
  <2>2. PICK q \in Payloads : q = first.payload
    BY <1>b DEF Row
  <2>3. storedAs[q] = first.id /\ first.id # 0
    BY <1>b, <2>2 DEF HandledIsFresh, KnownRows, Row
  <2>4. \A p \in Coming(c) : storedAs[p] < first.id
    BY <1>2 DEF ForwardQueued, DrainInOrder
  <2>5. \A p \in Coming(c) : Precedes(p, q)
    BY <2>3, <2>4 DEF Precedes
  <2>6. channel' = [channel EXCEPT ![c] = Append(@, q)] /\ UNCHANGED <<inHand, storedAs, envelopes>>
    BY <1>2, <2>1, <2>2 DEF ForwardQueued
  <2>. QED BY <1>a, <2>5, <2>6, OrderedAppend
<1>3. ASSUME NEW c \in Connections, WritePayload(c) \/ EndSendTask(c) PROVE AllOrdered'
  <2>1. \A d \in Connections : channel'[d] \in {channel[d], <<>>} /\ inHand'[d] \in {inHand[d], 0}
    BY <1>a, <1>3 DEF WritePayload, EndSendTask
  <2>. QED BY <1>1, <1>3, <2>1 DEF WritePayload, EndSendTask
<1>4. ASSUME NEW c \in Connections, NEW from \in Names, NEW to \in Names,
             AcceptFrame(c, from, to)
      PROVE  AllOrdered'
  <2>1. \A p \in Accepted : envelopes'[p] = envelopes[p]
    BY <1>b, <1>4 DEF AcceptFrame, Accepted
  <2>2. \A d \in Connections : Coming(d) \subseteq Accepted
    BY DEF PayloadsAddressed, AcceptedFor, Coming
  <2>. QED BY <1>4, <2>1, <2>2, OrderedKept DEF AcceptFrame
<1>5. ASSUME NEW c \in Connections, RelayPayload(c) PROVE AllOrdered'
  <2>1. PICK q \in Payloads, t \in Connections : q = handling[c] /\ t = target[c]
    BY <1>c, <1>5 DEF RelayPayload, Bookkeeping, TypeOK, TasksFollowPhase
  <2>2. storedAs[q] = 0 /\ envelopes[q].connection = c
    BY <1>c, <2>1 DEF HandledIsFresh
  <2>3. ASSUME NEW p \in Coming(t) PROVE Precedes(p, q)
    <3>1. storedAs[p] = 0 /\ envelopes[p].connection = c => p < q
      BY <1>c, <2>1 DEF DrainInOrder
    <3>. QED BY <2>2, <3>1 DEF Precedes
  <2>4. channel' = [channel EXCEPT ![t] = Append(@, q)] /\ UNCHANGED <<inHand, storedAs, envelopes>>
    BY <1>5, <2>1 DEF RelayPayload
  <2>. QED BY <1>a, <2>3, <2>4, OrderedAppend
<1>6. ASSUME NEW c \in Connections, StorePayload(c) PROVE AllOrdered'
  <2>1. /\ handling[c] \in Payloads
        /\ storedAs' = [storedAs EXCEPT ![handling[c]] = NewRowId]
        /\ UNCHANGED <<channel, inHand, envelopes>>
    BY <1>c, <1>6 DEF StorePayload, Bookkeeping, TasksFollowPhase
  <2>2. \A d \in Connections : handling[c] \notin Coming(d)
    BY <1>c, <2>1 DEF HandledIsFresh
  <2>3. \A d \in Connections : \A p \in Coming(d) : storedAs'[p] = storedAs[p]
    BY <1>d, <2>1, <2>2
  <2>. QED BY <2>1, <2>3, OrderedKept
<1>7. CASE Restart
  BY <1>1, <1>7 DEF Restart
<1>8. CASE UNCHANGED vars
  BY <1>1, <1>8 DEF vars
<1>9. ASSUME NEW c \in Connections, MainTask(c) PROVE AllOrdered'
  BY <1>1, <1>2, <1>9
  DEF MainTask, Register, LoadQueue, DeleteQueued, DeleteFails, SpawnTasks, Select, Unregister
<1>10. ASSUME NEW c \in Connections, SendTask(c) PROVE AllOrdered'
  BY <1>3, <1>10, OrderedTaken DEF SendTask
<1>11. ASSUME NEW c \in Connections, ReceiveTask(c) PROVE AllOrdered'
  BY <1>1, <1>5, <1>6, <1>11 DEF ReceiveTask, LookupRecipient, RelayFails, StoreFails, EndReceiveTask
<1>12. CASE Environment
  BY <1>1, <1>4, <1>7, <1>12 DEF Environment, Connect, LinkChanges
<1>. QED BY <1>8, <1>9, <1>10, <1>11, <1>12 DEF Next

\* However sessions overlap and statements fail, queued envelopes are sent in
\* the order of their rows and relayed ones in the order of their sender.
THEOREM InOrderCorrect == Spec => []InOrder
<1>1. Bookkeeping /\ AllOrdered => InOrder
  BY OrderedIsInOrder DEF Bookkeeping
<1>2. Spec => []AllOrdered
  BY FreshCorrect, DrainOrderInit, DrainOrderStep, OrderedInit, OrderedStep, PTL DEF Spec
<1>. QED BY <1>1, <1>2, BookkeepingCorrect, PTL

------------------------------------------------------------------------------
(* Nobody receives an envelope twice, while sessions of a user do not overlap *)
(* and no DELETE fails.                                                       *)

\* No connection is open at the start.
LEMMA OneLiveInit == Init => OneLive
BY DEF Init, OneLive, Live

\* A socket that is down stays down, and a new one needs the others to be down.
LEMMA OneLiveStep ==
  ASSUME ~SessionsOverlap
  PROVE  Bookkeeping /\ OneLive /\ [Next]_vars => OneLive'
<1>. SUFFICES ASSUME Bookkeeping, OneLive, [Next]_vars PROVE OneLive'
  OBVIOUS
<1>. USE DEF registry, mainVars, sendVars, recvVars, database, history
<1>0. owner \in [Connections -> ValidNames \cup {NoName}]
  BY DEF Bookkeeping, TypeOK
<1>1. ASSUME NEW u \in Names, Connect(u) PROVE OneLive'
  BY <1>0, <1>1 DEF Connect, OneLive, Live
<1>2. ASSUME NEW c \in Connections, LinkChanges(c) PROVE OneLive'
  <2>1. \A d \in Connections : link'[d] = "up" => link[d] = "up"
    BY <1>2 DEF LinkChanges, Bookkeeping, TypeOK
  <2>. QED BY <1>2, <2>1 DEF LinkChanges, OneLive, Live
<1>3. CASE Restart
  BY <1>3 DEF Restart, OneLive, Live
<1>4. ASSUME UNCHANGED <<owner, link>> PROVE OneLive'
  BY <1>4 DEF OneLive, Live
<1>5. CASE UNCHANGED vars
  BY <1>4, <1>5 DEF vars
<1>6. ASSUME NEW c \in Connections, MainTask(c) PROVE OneLive'
  BY <1>4, <1>6 DEF MainTask, Register, LoadQueue, ForwardQueued, DeleteQueued, DeleteFails,
                    SpawnTasks, Select, Unregister
<1>7. ASSUME NEW c \in Connections, SendTask(c) PROVE OneLive'
  BY <1>4, <1>7 DEF SendTask, TakePayload, WritePayload, EndSendTask
<1>8. ASSUME NEW c \in Connections, ReceiveTask(c) PROVE OneLive'
  BY <1>4, <1>8 DEF ReceiveTask, LookupRecipient, RelayPayload, RelayFails, StorePayload,
                    StoreFails, EndReceiveTask
<1>9. CASE Environment
  BY <1>1, <1>2, <1>3, <1>4, <1>9 DEF Environment, AcceptFrame
<1>. QED BY <1>5, <1>6, <1>7, <1>8, <1>9 DEF Next

\* A connection id that was not drawn has nothing to send.
LEMMA FreeIsEmpty ==
  ASSUME Bookkeeping, PayloadsAddressed, DrainInOrder, NEW c \in Connections, phase[c] = "free"
  PROVE  Coming(c) = {} /\ snapshot[c] = {}
<1>1. owner[c] = NoName /\ NoName \notin ValidNames
  BY RelayAssumption DEF Bookkeeping, ConnectionsDrawn
<1>2. ASSUME NEW p, AcceptedFor(p, NoName) PROVE FALSE
  <2>1. envelopes[p] \in Envelope
    BY <1>2 DEF Bookkeeping, TypeOK, AcceptedFor, Accepted
  <2>. QED BY <1>1, <1>2, <2>1 DEF AcceptedFor, Envelope
<1>3. \A p \in Coming(c) : AcceptedFor(p, NoName)
  BY <1>1 DEF PayloadsAddressed, Coming
<1>4. snapshot[c] = {}
  BY DEF DrainInOrder
<1>. QED BY <1>2, <1>3, <1>4

\* What was never stored is neither in the table nor in a snapshot.
LEMMA NeverStored ==
  ASSUME Bookkeeping, HandledIsFresh, NEW p, storedAs[p] = 0
  PROVE  ~Stored(p) /\ \A c \in Connections : ~LoadedBy(c, p)
<1>1. \A row \in KnownRows : row.id # 0 /\ storedAs[row.payload] = row.id
  BY DEF Bookkeeping, TypeOK, HandledIsFresh, KnownRows, Row
<1>. QED BY <1>1 DEF Stored, LoadedBy, KnownRows

\* A connection keeps to sending once while its channel is left alone and rows
\* only disappear, but for the end of a deletion.
LEMMA SentOnceKept ==
  ASSUME NEW c \in Connections, SentOnce(c),
         channel'[c] = channel[c], inHand'[c] = inHand[c], snapshot'[c] = snapshot[c],
         phase[c] = "deleting" => phase'[c] = "deleting",
         \A p \in Coming(c) : Stored(p)' => Stored(p)
  PROVE  SentOnce(c)'
<1>1. Coming(c)' = Coming(c)
  BY DEF Coming
<1>2. \A p : LoadedBy(c, p)' <=> LoadedBy(c, p)
  BY DEF LoadedBy
<1>3. FirstRow(snapshot[c])' = FirstRow(snapshot[c])
  BY DEF FirstRow
<1>. QED BY <1>1, <1>2, <1>3 DEF SentOnce

\* A live connection never comes to send an envelope twice: it has each one in
\* its way out once, and does not load it again.
LEMMA SendOnceStep ==
  ASSUME "delete" \notin FailingStatements
  PROVE  Bookkeeping /\ RowsIdentified /\ DeletedWasForwarded /\ PayloadsAddressed
           /\ HandledIsFresh /\ DrainInOrder /\ LiveSendOnce /\ [Next]_vars => LiveSendOnce'
<1>. SUFFICES ASSUME Bookkeeping, RowsIdentified, DeletedWasForwarded, PayloadsAddressed,
                     HandledIsFresh, DrainInOrder, LiveSendOnce, [Next]_vars
              PROVE  LiveSendOnce'
  OBVIOUS
<1>. USE DEF registry, mainVars, sendVars, recvVars, database, history, NoConnection, NoPayload
<1>a. channel \in [Connections -> Seq(Payloads)] /\ inHand \in [Connections -> Payloads \cup {0}]
  BY DEF Bookkeeping, TypeOK
<1>b. snapshot \in [Connections -> SUBSET Row] /\ queuedMessages \in SUBSET Row
      /\ phase \in [Connections -> Phases]
  BY DEF Bookkeeping, TypeOK
<1>c. handling \in [Connections -> Payloads \cup {0}] /\ 0 \notin Payloads
  BY DEF Bookkeeping, TypeOK, Payloads
<1>d. owner \in [Connections -> ValidNames \cup {NoName}]
      /\ link \in [Connections -> {"up", "closed", "silent"}]
  BY DEF Bookkeeping, TypeOK
<1>. HIDE DEF Payloads
<1>1. ASSUME UNCHANGED <<channel, inHand, snapshot, queuedMessages>>,
             \A d \in Connections : /\ Live(d)' => Live(d)
                                    /\ phase[d] = "deleting" => phase'[d] = "deleting"
      PROVE  LiveSendOnce'
  <2>1. \A p : Stored(p)' <=> Stored(p)
    BY <1>1 DEF Stored
  <2>. QED BY <1>1, <2>1, SentOnceKept DEF LiveSendOnce
<1>2. ASSUME NEW u \in Names, Connect(u) PROVE LiveSendOnce'
  <2>1. PICK n \in Connections : n = nextConnectionId /\ phase[n] = "free"
    BY <1>2 DEF Connect, Bookkeeping, ConnectionsDrawn, TypeOK
  <2>2. Coming(n) = {}
    BY <2>1, FreeIsEmpty
  <2>3. /\ UNCHANGED <<channel, inHand, snapshot, queuedMessages, link>>
        /\ \A d \in Connections : d # n => owner'[d] = owner[d] /\ phase'[d] = phase[d]
    BY <1>2, <1>b, <1>d, <2>1 DEF Connect
  <2>4. SentOnce(n)'
    <3>1. Coming(n)' = {} /\ channel'[n] = channel[n] /\ inHand'[n] = inHand[n]
      BY <2>2, <2>3 DEF Coming
    <3>2. Elements(channel[n]) = {}
      BY <2>2 DEF Coming
    <3>3. \A i \in 1 .. Len(channel[n]) : FALSE
      BY <3>2 DEF Elements
    <3>. QED BY <3>1, <3>2, <3>3 DEF SentOnce
  <2>5. ASSUME NEW d \in Connections, d # n, Live(d)' PROVE SentOnce(d)'
    <3>1. SentOnce(d)
      BY <2>3, <2>5 DEF LiveSendOnce, Live
    <3>2. \A p : Stored(p)' <=> Stored(p)
      BY <2>3 DEF Stored
    <3>. QED BY <2>3, <2>5, <3>1, <3>2, SentOnceKept
  <2>. QED BY <2>4, <2>5 DEF LiveSendOnce
<1>3. ASSUME NEW c \in Connections, LoadQueue(c) PROVE LiveSendOnce'
  <2>1. /\ snapshot'[c] \subseteq KnownRows
        /\ \A d \in Connections : d # c => snapshot'[d] = snapshot[d] /\ phase'[d] = phase[d]
        /\ UNCHANGED <<channel, inHand, queuedMessages, owner, link, storedAs>>
    BY <1>b, <1>3 DEF LoadQueue, RowsFor, KnownRows
  <2>2. \A p : Stored(p)' <=> Stored(p)
    BY <2>1 DEF Stored
  <2>3. ASSUME SentOnce(c) PROVE SentOnce(c)'
    <3>1. Coming(c)' = Coming(c) /\ channel'[c] = channel[c] /\ inHand'[c] = inHand[c]
      BY <2>1 DEF Coming
    <3>2. \A p \in Coming(c) : storedAs[p] = 0
      BY <1>3 DEF LoadQueue, DrainInOrder
    <3>3. \A row \in snapshot'[c] : row.id # 0 /\ storedAs[row.payload] = row.id
      BY <1>b, <2>1 DEF HandledIsFresh, KnownRows, Row
    <3>4. \A p \in Coming(c) : ~Stored(p)' /\ ~LoadedBy(c, p)'
      BY <2>2, <3>2, <3>3, NeverStored DEF LoadedBy
    <3>. QED BY <2>3, <3>1, <3>4 DEF SentOnce
  <2>4. ASSUME NEW d \in Connections, d # c, SentOnce(d) PROVE SentOnce(d)'
    BY <2>1, <2>2, <2>4, SentOnceKept
  <2>. QED BY <2>1, <2>3, <2>4 DEF LiveSendOnce, Live
<1>4. ASSUME NEW c \in Connections, ForwardQueued(c) PROVE LiveSendOnce'
  <2>1. PICK q \in Payloads : q = FirstRow(snapshot[c]).payload /\ LoadedBy(c, q)
    BY <1>b, <1>4, FirstRowIsARow DEF ForwardQueued, LoadedBy, Row
  <2>2. /\ channel' = [channel EXCEPT ![c] = Append(@, q)] /\ inHand' = inHand
        /\ phase' = [phase EXCEPT ![c] = "deleting"] /\ phase[c] = "draining"
        /\ UNCHANGED <<snapshot, queuedMessages, owner, link>>
    BY <1>4, <2>1 DEF ForwardQueued
  <2>3. \A p : Stored(p)' <=> Stored(p)
    BY <2>2 DEF Stored
  <2>4. ASSUME SentOnce(c) PROVE SentOnce(c)'
    <3>1. \A p \in Coming(c) : ~Stored(p) /\ ~LoadedBy(c, p)
      BY <2>2, <2>4 DEF SentOnce
    <3>2. q \notin Coming(c)
      BY <2>1, <3>1
    <3>3. Coming(c)' = Coming(c) \cup {q}
      BY <1>a, <2>2, ComingGrows
    <3>4. inHand'[c] \notin Elements(channel'[c])
      <4>1. Elements(Append(channel[c], q)) = Elements(channel[c]) \cup {q}
        BY <1>a, AppendElements
      <4>2. inHand[c] # q
        BY <1>c, <3>2 DEF Coming
      <4>. QED BY <1>a, <2>2, <2>4, <4>1, <4>2 DEF SentOnce
    <3>5. \A i, j \in 1 .. Len(channel'[c]) : i # j => channel'[c][i] # channel'[c][j]
      <4>1. channel'[c] = Append(channel[c], q)
            /\ \A i \in 1 .. Len(channel[c]) : channel[c][i] # q
        BY <1>a, <2>2, <3>2 DEF Coming, Elements
      <4>. QED BY <1>a, <2>4, <4>1 DEF SentOnce
    <3>6. \A p : LoadedBy(c, p)' <=> LoadedBy(c, p)
      BY <2>2 DEF LoadedBy
    <3>7. phase'[c] = "deleting" /\ snapshot'[c] = snapshot[c]
      BY <1>b, <2>2
    <3>. QED BY <2>1, <2>3, <3>1, <3>3, <3>4, <3>5, <3>6, <3>7 DEF SentOnce
  <2>5. ASSUME NEW d \in Connections, d # c, SentOnce(d) PROVE SentOnce(d)'
    <3>1. channel'[d] = channel[d] /\ inHand'[d] = inHand[d] /\ snapshot'[d] = snapshot[d]
          /\ phase'[d] = phase[d]
      BY <1>a, <1>b, <2>2, <2>5
    <3>. QED BY <2>3, <2>5, <3>1, SentOnceKept
  <2>. QED BY <2>2, <2>4, <2>5 DEF LiveSendOnce, Live
<1>5. ASSUME NEW c \in Connections, DeleteQueued(c) PROVE LiveSendOnce'
  <2>1. PICK first \in snapshot[c] : first = FirstRow(snapshot[c])
    BY <1>b, <1>5, FirstRowIsARow DEF DeleteQueued, DeletedWasForwarded
  <2>2. /\ \A row \in queuedMessages' : row \in queuedMessages /\ row.id # first.id
        /\ snapshot'[c] = snapshot[c] \ {first}
        /\ \A d \in Connections : d # c => snapshot'[d] = snapshot[d] /\ phase'[d] = phase[d]
        /\ UNCHANGED <<channel, inHand, owner, link>>
        /\ phase[c] = "deleting"
    BY <1>b, <1>5, <2>1 DEF DeleteQueued, DeletedRows
  <2>3. \A p : Stored(p)' => Stored(p)
    BY <2>2 DEF Stored
  <2>4. ASSUME SentOnce(c) PROVE SentOnce(c)'
    <3>1. Coming(c)' = Coming(c) /\ channel'[c] = channel[c] /\ inHand'[c] = inHand[c]
      BY <2>2 DEF Coming
    <3>2. \A row \in KnownRows : row.payload = first.payload => row = first
      <4>1. \A row \in KnownRows : storedAs[row.payload] = row.id /\ first \in KnownRows
        BY <2>1 DEF HandledIsFresh, KnownRows
      <4>. QED BY <4>1 DEF RowsIdentified
    <3>3. ~Stored(first.payload)' /\ ~LoadedBy(c, first.payload)'
      <4>1. \A row \in queuedMessages' \cup snapshot'[c] : row \in KnownRows /\ row # first
        BY <2>2 DEF KnownRows
      <4>. QED BY <3>2, <4>1 DEF Stored, LoadedBy
    <3>4. \A p : LoadedBy(c, p)' => LoadedBy(c, p)
      BY <2>2 DEF LoadedBy
    <3>5. \A p \in Coming(c) : ~Stored(p)' /\ ~LoadedBy(c, p)'
      BY <2>1, <2>3, <2>4, <3>3, <3>4 DEF SentOnce
    <3>. QED BY <2>4, <3>1, <3>5 DEF SentOnce
  <2>5. ASSUME NEW d \in Connections, d # c, SentOnce(d) PROVE SentOnce(d)'
    BY <2>2, <2>3, <2>5, SentOnceKept
  <2>. QED BY <2>2, <2>4, <2>5 DEF LiveSendOnce, Live
<1>6. ASSUME NEW c \in Connections, TakePayload(c) PROVE LiveSendOnce'
  <2>1. /\ inHand[c] = 0 /\ channel[c] # <<>>
        /\ channel'[c] = Tail(channel[c]) /\ inHand'[c] = Head(channel[c])
        /\ \A d \in Connections : d # c => channel'[d] = channel[d] /\ inHand'[d] = inHand[d]
        /\ UNCHANGED <<snapshot, queuedMessages, owner, link, phase>>
    BY <1>a, <1>6 DEF TakePayload, Bookkeeping, TasksFollowPhase
  <2>2. \A p : Stored(p)' <=> Stored(p)
    BY <2>1 DEF Stored
  <2>3. ASSUME SentOnce(c) PROVE SentOnce(c)'
    <3>1. /\ Len(channel[c]) \in Nat \ {0} /\ Len(channel'[c]) = Len(channel[c]) - 1
          /\ inHand'[c] = channel[c][1]
          /\ \A i \in 1 .. Len(channel[c]) - 1 : channel'[c][i] = channel[c][i + 1]
      BY <1>a, <2>1
    <3>2. \A i \in 1 .. Len(channel'[c]) : i + 1 \in 1 .. Len(channel[c]) /\ i + 1 # 1
            /\ 1 \in 1 .. Len(channel[c])
      BY <3>1
    <3>3. \A i \in 1 .. Len(channel'[c]) : channel'[c][i] # inHand'[c]
      BY <2>3, <3>1, <3>2 DEF SentOnce
    <3>4. \A i, j \in 1 .. Len(channel'[c]) : i # j => channel'[c][i] # channel'[c][j]
      BY <2>3, <3>1, <3>2 DEF SentOnce
    <3>5. Coming(c)' = Coming(c)
      BY <1>6, ComingTaken
    <3>6. \A p : LoadedBy(c, p)' <=> LoadedBy(c, p)
      BY <2>1 DEF LoadedBy
    <3>. QED BY <2>1, <2>2, <2>3, <3>3, <3>4, <3>5, <3>6 DEF SentOnce, Elements
  <2>4. ASSUME NEW d \in Connections, d # c, SentOnce(d) PROVE SentOnce(d)'
    BY <2>1, <2>2, <2>4, SentOnceKept
  <2>. QED BY <2>1, <2>3, <2>4 DEF LiveSendOnce, Live
<1>7. ASSUME NEW c \in Connections, WritePayload(c) \/ EndSendTask(c) PROVE LiveSendOnce'
  <2>1. /\ \A d \in Connections : channel'[d] \in {channel[d], <<>>} /\ inHand'[d] \in {inHand[d], 0}
        /\ UNCHANGED <<snapshot, queuedMessages, owner, link, phase>>
    BY <1>a, <1>7 DEF WritePayload, EndSendTask
  <2>2. ASSUME NEW d \in Connections, SentOnce(d) PROVE SentOnce(d)'
    <3>1. Elements(channel[d]) \subseteq Payloads /\ Elements(<<>>) = {} /\ Len(<<>>) = 0
      BY <1>a, ElementsType, EmptyElements
    <3>2. \A p \in Coming(d)' : p \in Coming(d)
      BY <1>7, ComingShrinks
    <3>3. \A p : (Stored(p)' <=> Stored(p)) /\ (LoadedBy(d, p)' <=> LoadedBy(d, p))
      BY <2>1 DEF Stored, LoadedBy
    <3>4. inHand'[d] \notin Elements(channel'[d])
      BY <1>c, <2>1, <2>2, <3>1 DEF SentOnce
    <3>5. \A i, j \in 1 .. Len(channel'[d]) : i # j => channel'[d][i] # channel'[d][j]
      BY <2>1, <2>2, <3>1 DEF SentOnce
    <3>. QED BY <2>1, <2>2, <3>2, <3>3, <3>4, <3>5 DEF SentOnce
  <2>. QED BY <2>1, <2>2 DEF LiveSendOnce, Live
<1>8. ASSUME NEW c \in Connections, RelayPayload(c) PROVE LiveSendOnce'
  <2>1. PICK q \in Payloads, t \in Connections : q = handling[c] /\ t = target[c]
    BY <1>c, <1>8 DEF RelayPayload, Bookkeeping, TypeOK, TasksFollowPhase
  <2>2. storedAs[q] = 0 /\ q \notin Coming(t)
    BY <1>c, <2>1 DEF HandledIsFresh
  <2>3. ~Stored(q) /\ ~LoadedBy(t, q)
    BY <2>2, NeverStored
  <2>4. /\ channel' = [channel EXCEPT ![t] = Append(@, q)] /\ inHand' = inHand
        /\ UNCHANGED <<snapshot, queuedMessages, owner, link, phase>>
    BY <1>8, <2>1 DEF RelayPayload
  <2>5. \A p : (Stored(p)' <=> Stored(p)) /\ (LoadedBy(t, p)' <=> LoadedBy(t, p))
    BY <2>4 DEF Stored, LoadedBy
  <2>6. ASSUME SentOnce(t) PROVE SentOnce(t)'
    <3>1. Coming(t)' = Coming(t) \cup {q}
      BY <1>a, <2>4, ComingGrows
    <3>2. inHand'[t] \notin Elements(channel'[t])
      <4>1. Elements(Append(channel[t], q)) = Elements(channel[t]) \cup {q}
        BY <1>a, AppendElements
      <4>2. inHand[t] # q
        BY <1>c, <2>2 DEF Coming
      <4>. QED BY <1>a, <2>4, <2>6, <4>1, <4>2 DEF SentOnce
    <3>3. \A i, j \in 1 .. Len(channel'[t]) : i # j => channel'[t][i] # channel'[t][j]
      <4>1. channel'[t] = Append(channel[t], q)
            /\ \A i \in 1 .. Len(channel[t]) : channel[t][i] # q
        BY <1>a, <2>2, <2>4 DEF Coming, Elements
      <4>. QED BY <1>a, <2>6, <4>1 DEF SentOnce
    <3>. QED BY <2>3, <2>4, <2>5, <2>6, <3>1, <3>2, <3>3 DEF SentOnce
  <2>7. ASSUME NEW d \in Connections, d # t, SentOnce(d) PROVE SentOnce(d)'
    <3>1. channel'[d] = channel[d] /\ inHand'[d] = inHand[d] /\ snapshot'[d] = snapshot[d]
          /\ phase'[d] = phase[d]
      BY <1>a, <2>4, <2>7
    <3>. QED BY <2>5, <2>7, <3>1, SentOnceKept
  <2>. QED BY <2>4, <2>6, <2>7 DEF LiveSendOnce, Live
<1>9. ASSUME NEW c \in Connections, StorePayload(c) PROVE LiveSendOnce'
  <2>1. /\ \A p : Stored(p)' => Stored(p) \/ p = handling[c]
        /\ UNCHANGED <<channel, inHand, snapshot, owner, link, phase>>
    BY <1>9 DEF StorePayload, Stored
  <2>2. \A d \in Connections : handling[c] \notin Coming(d)
    BY <1>c, <1>9 DEF StorePayload, Bookkeeping, TasksFollowPhase, HandledIsFresh
  <2>3. ASSUME NEW d \in Connections, SentOnce(d) PROVE SentOnce(d)'
    BY <2>1, <2>2, <2>3, SentOnceKept
  <2>. QED BY <2>1, <2>3 DEF LiveSendOnce, Live
<1>10. ASSUME NEW c \in Connections, LinkChanges(c) PROVE LiveSendOnce'
  <2>1. \A d \in Connections : link'[d] = "up" => link[d] = "up"
    BY <1>d, <1>10 DEF LinkChanges
  <2>. QED BY <1>1, <1>10, <2>1 DEF LinkChanges, Live
<1>11. CASE Restart
  BY <1>11 DEF Restart, LiveSendOnce, Live
<1>12. CASE UNCHANGED vars
  BY <1>1, <1>12 DEF vars, Live
<1>13. ASSUME NEW c \in Connections, Register(c) \/ SpawnTasks(c) \/ Select(c) \/ Unregister(c)
       PROVE  LiveSendOnce'
  BY <1>1, <1>b, <1>13 DEF Register, SpawnTasks, Drained, Select, Unregister, Live
<1>14. ASSUME NEW c \in Connections, MainTask(c) PROVE LiveSendOnce'
  BY <1>3, <1>4, <1>5, <1>13, <1>14 DEF MainTask, DeleteFails
<1>15. ASSUME NEW c \in Connections, SendTask(c) PROVE LiveSendOnce'
  BY <1>6, <1>7, <1>15 DEF SendTask
<1>16. ASSUME NEW c \in Connections, ReceiveTask(c) PROVE LiveSendOnce'
  BY <1>1, <1>8, <1>9, <1>16
  DEF ReceiveTask, LookupRecipient, RelayFails, StoreFails, EndReceiveTask, Live
<1>17. CASE Environment
  BY <1>1, <1>2, <1>10, <1>11, <1>17 DEF Environment, AcceptFrame, Live
<1>. QED BY <1>12, <1>14, <1>15, <1>16, <1>17 DEF Next

\* At the start nothing is on its way, and nothing was received.
LEMMA OnceInit == Init => LiveSendOnce /\ ReceivedIsGone /\ AtMostOnce
<1>. SUFFICES ASSUME Init PROVE LiveSendOnce /\ ReceivedIsGone /\ AtMostOnce
  OBVIOUS
<1>1. \A c \in Connections : ~Live(c)
  BY DEF Init, Live
<1>2. \A u \in ValidNames : received[u] = <<>> /\ Elements(<<>>) = {} /\ Len(<<>>) = 0
  BY EmptyElements DEF Init
<1>. QED BY <1>1, <1>2 DEF LiveSendOnce, ReceivedIsGone, AtMostOnce

\* What was received stays gone while no received envelope is stored, loaded or
\* sent by a live connection that was not before.
LEMMA GoneKept ==
  ASSUME ReceivedIsGone, UNCHANGED received,
         \A u \in ValidNames : \A p \in Elements(received[u]) :
           /\ Stored(p)' => Stored(p)
           /\ \A c \in Connections : Live(c)' =>
                /\ p \in Coming(c)' => Live(c) /\ p \in Coming(c)
                /\ LoadedBy(c, p)' => Stored(p) \/ (Live(c) /\ LoadedBy(c, p))
  PROVE  ReceivedIsGone'
BY DEF ReceivedIsGone, Gone

\* A live connection that writes has the only copy that can still be delivered.
LEMMA WrittenIsGone ==
  ASSUME Bookkeeping, PayloadsAddressed, OneLive, LiveSendOnce,
         NEW c \in Connections, WritePayload(c), link[c] = "up",
         NEW p \in Payloads, p = inHand[c]
  PROVE  Gone(p)'
<1>. USE DEF registry, mainVars, sendVars, recvVars, database, history, NoConnection, NoPayload
<1>1. /\ p # 0 /\ inHand' = [inHand EXCEPT ![c] = 0]
      /\ inHand \in [Connections -> Payloads \cup {0}]
      /\ UNCHANGED <<channel, snapshot, queuedMessages, owner, link>>
      /\ phase[c] # "deleting" /\ owner[c] # NoName /\ SentOnce(c)
  BY DEF WritePayload, Bookkeeping, TypeOK, TasksFollowPhase, ConnectionsDrawn, LiveSendOnce, Live
<1>2. p \in Coming(c) /\ AcceptedFor(p, owner[c])
  BY <1>1 DEF Coming, PayloadsAddressed
<1>3. ~Stored(p) /\ ~LoadedBy(c, p) /\ p \notin Elements(channel[c])
  BY <1>1, <1>2 DEF SentOnce
<1>4. ASSUME NEW d \in Connections, Live(d), d # c PROVE p \notin Coming(d) /\ ~LoadedBy(d, p)
  <2>1. owner[d] # owner[c]
    BY <1>1, <1>4 DEF OneLive, Live
  <2>2. ~AcceptedFor(p, owner[d])
    BY <1>2, <2>1 DEF AcceptedFor
  <2>. QED BY <2>2 DEF PayloadsAddressed, Coming, LoadedBy
<1>5. p \notin Coming(c)' /\ ~LoadedBy(c, p)'
  BY <1>1, <1>3 DEF Coming, LoadedBy
<1>6. ASSUME NEW d \in Connections, Live(d)', d # c PROVE p \notin Coming(d)' /\ ~LoadedBy(d, p)'
  BY <1>1, <1>4, <1>6 DEF Live, Coming, LoadedBy
<1>7. ~Stored(p)'
  BY <1>1, <1>3 DEF Stored
<1>. QED BY <1>5, <1>6, <1>7 DEF Gone

\* What a user has received is on no way to the user any more, after any step.
LEMMA GoneStep ==
  Bookkeeping /\ DeletedWasForwarded /\ PayloadsAddressed /\ HandledIsFresh /\ DrainInOrder
    /\ OneLive /\ LiveSendOnce /\ ReceivedIsGone /\ [Next]_vars => ReceivedIsGone'
<1>. SUFFICES ASSUME Bookkeeping, DeletedWasForwarded, PayloadsAddressed, HandledIsFresh,
                     DrainInOrder, OneLive, LiveSendOnce, ReceivedIsGone, [Next]_vars
              PROVE  ReceivedIsGone'
  OBVIOUS
<1>. USE DEF registry, mainVars, sendVars, recvVars, database, history, NoConnection, NoPayload
<1>a. channel \in [Connections -> Seq(Payloads)] /\ inHand \in [Connections -> Payloads \cup {0}]
      /\ received \in [ValidNames -> Seq(Payloads)]
  BY DEF Bookkeeping, TypeOK
<1>b. snapshot \in [Connections -> SUBSET Row] /\ queuedMessages \in SUBSET Row
  BY DEF Bookkeeping, TypeOK
<1>c. handling \in [Connections -> Payloads \cup {0}] /\ 0 \notin Payloads
  BY DEF Bookkeeping, TypeOK, Payloads
<1>d. owner \in [Connections -> ValidNames \cup {NoName}]
      /\ link \in [Connections -> {"up", "closed", "silent"}]
  BY DEF Bookkeeping, TypeOK
<1>. HIDE DEF Payloads
<1>1. ASSUME UNCHANGED <<channel, inHand, received>>,
             queuedMessages' \subseteq queuedMessages,
             \A d \in Connections : /\ Live(d)' => Live(d)
                                    /\ snapshot'[d] \subseteq snapshot[d] \cup queuedMessages
      PROVE  ReceivedIsGone'
  <2>1. \A d \in Connections : Coming(d)' = Coming(d)
    BY <1>1 DEF Coming
  <2>2. \A p : Stored(p)' => Stored(p)
    BY <1>1 DEF Stored
  <2>3. \A d \in Connections : \A p : LoadedBy(d, p)' => LoadedBy(d, p) \/ Stored(p)
    BY <1>1 DEF LoadedBy, Stored
  <2>. QED BY <1>1, <2>1, <2>2, <2>3 DEF ReceivedIsGone, Gone
<1>2. ASSUME NEW u \in Names, Connect(u) PROVE ReceivedIsGone'
  <2>1. PICK n \in Connections : n = nextConnectionId /\ phase[n] = "free"
    BY <1>2 DEF Connect, Bookkeeping, ConnectionsDrawn, TypeOK
  <2>2. Coming(n) = {} /\ snapshot[n] = {}
    BY <2>1, FreeIsEmpty
  <2>3. /\ UNCHANGED <<channel, inHand, snapshot, queuedMessages, link, received>>
        /\ \A d \in Connections : d # n => owner'[d] = owner[d]
    BY <1>2, <1>d, <2>1 DEF Connect
  <2>4. \A d \in Connections : d # n /\ Live(d)' => Live(d)
    BY <2>3 DEF Live
  <2>5. \A d \in Connections : Coming(d)' = Coming(d) /\ \A p : LoadedBy(d, p)' <=> LoadedBy(d, p)
    BY <2>3 DEF Coming, LoadedBy
  <2>6. \A p : ~LoadedBy(n, p)
    BY <2>2 DEF LoadedBy
  <2>. QED BY <2>2, <2>3, <2>4, <2>5, <2>6, GoneKept DEF Stored
<1>3. ASSUME NEW c \in Connections, LoadQueue(c) PROVE ReceivedIsGone'
  <2>1. \A d \in Connections : snapshot'[d] \subseteq snapshot[d] \cup queuedMessages
    BY <1>b, <1>3 DEF LoadQueue, RowsFor
  <2>. QED BY <1>1, <1>3, <2>1 DEF LoadQueue, Live
<1>4. ASSUME NEW c \in Connections, ForwardQueued(c) PROVE ReceivedIsGone'
  <2>1. PICK q \in Payloads : q = FirstRow(snapshot[c]).payload /\ LoadedBy(c, q)
    BY <1>b, <1>4, FirstRowIsARow DEF ForwardQueued, LoadedBy, Row
  <2>2. /\ channel' = [channel EXCEPT ![c] = Append(@, q)] /\ inHand' = inHand
        /\ UNCHANGED <<snapshot, queuedMessages, owner, link, received>>
    BY <1>4, <2>1 DEF ForwardQueued
  <2>3. Live(c) => \A u \in ValidNames : q \notin Elements(received[u])
    BY <2>1 DEF ReceivedIsGone, Gone
  <2>4. Coming(c)' = Coming(c) \cup {q} /\ \A d \in Connections : d # c => Coming(d)' = Coming(d)
    BY <1>a, <2>2, ComingGrows
  <2>5. \A p : /\ Stored(p)' <=> Stored(p)
               /\ \A d \in Connections : LoadedBy(d, p)' <=> LoadedBy(d, p)
    BY <2>2 DEF Stored, LoadedBy
  <2>. QED BY <2>2, <2>3, <2>4, <2>5, GoneKept DEF Live
<1>5. ASSUME NEW c \in Connections, DeleteQueued(c) \/ DeleteFails(c) PROVE ReceivedIsGone'
  <2>1. /\ \A d \in Connections : snapshot'[d] \subseteq snapshot[d] \cup queuedMessages
        /\ queuedMessages' \subseteq queuedMessages
    BY <1>b, <1>5 DEF DeleteQueued, DeleteFails
  <2>. QED BY <1>1, <1>5, <2>1 DEF DeleteQueued, DeleteFails, Live
<1>6. ASSUME UNCHANGED <<received, queuedMessages, snapshot, owner, link>>,
             \A d \in Connections : Coming(d)' \subseteq Coming(d)
      PROVE  ReceivedIsGone'
  BY <1>6, GoneKept DEF Live, LoadedBy, Stored
<1>7. ASSUME NEW c \in Connections, WritePayload(c) PROVE ReceivedIsGone'
  <2>1. /\ UNCHANGED <<queuedMessages, snapshot, owner, link>>
        /\ \A d \in Connections : Coming(d)' \subseteq Coming(d)
    BY <1>7, ComingShrinks DEF WritePayload
  <2>2. CASE link[c] # "up"
    BY <1>6, <1>7, <2>1, <2>2 DEF WritePayload
  <2>3. CASE link[c] = "up"
    <3>1. PICK p \in Payloads, u \in ValidNames : p = inHand[c] /\ u = owner[c]
      BY <1>a, <1>d, <1>7 DEF WritePayload, Bookkeeping, TasksFollowPhase, ConnectionsDrawn
    <3>2. Gone(p)'
      BY <1>7, <2>3, <3>1, WrittenIsGone
    <3>3. \A q : Gone(q) => Gone(q)'
      BY <2>1 DEF Gone, Live, Stored, LoadedBy
    <3>4. \A v \in ValidNames : \A q \in Elements(received'[v]) : q \in Elements(received[v]) \/ q = p
      <4>1. Elements(Append(received[u], p)) = Elements(received[u]) \cup {p}
        BY <1>a, AppendElements
      <4>2. received' = [received EXCEPT ![u] = Append(@, p)]
        BY <1>7, <2>3, <3>1 DEF WritePayload
      <4>. QED BY <1>a, <4>1, <4>2
    <3>. QED BY <3>2, <3>3, <3>4 DEF ReceivedIsGone
  <2>. QED BY <2>2, <2>3
<1>8. ASSUME NEW c \in Connections, RelayPayload(c) PROVE ReceivedIsGone'
  <2>1. PICK q \in Payloads, t \in Connections : q = handling[c] /\ t = target[c]
    BY <1>c, <1>8 DEF RelayPayload, Bookkeeping, TypeOK, TasksFollowPhase
  <2>2. \A u \in ValidNames : q \notin Elements(received[u])
    BY <1>c, <2>1 DEF HandledIsFresh
  <2>3. /\ channel' = [channel EXCEPT ![t] = Append(@, q)] /\ inHand' = inHand
        /\ UNCHANGED <<snapshot, queuedMessages, owner, link, received>>
    BY <1>8, <2>1 DEF RelayPayload
  <2>4. Coming(t)' = Coming(t) \cup {q} /\ \A d \in Connections : d # t => Coming(d)' = Coming(d)
    BY <1>a, <2>3, ComingGrows
  <2>5. \A p : /\ Stored(p)' <=> Stored(p)
               /\ \A d \in Connections : LoadedBy(d, p)' <=> LoadedBy(d, p)
    BY <2>3 DEF Stored, LoadedBy
  <2>. QED BY <2>2, <2>3, <2>4, <2>5, GoneKept DEF Live
<1>9. ASSUME NEW c \in Connections, StorePayload(c) PROVE ReceivedIsGone'
  <2>1. /\ \A p : Stored(p)' => Stored(p) \/ p = handling[c]
        /\ UNCHANGED <<channel, inHand, snapshot, owner, link, received>>
    BY <1>9 DEF StorePayload, Stored
  <2>2. \A u \in ValidNames : handling[c] \notin Elements(received[u])
    BY <1>9 DEF StorePayload, Bookkeeping, TasksFollowPhase, HandledIsFresh
  <2>3. \A d \in Connections : /\ Coming(d)' = Coming(d)
                               /\ \A p : LoadedBy(d, p)' <=> LoadedBy(d, p)
    BY <2>1 DEF Coming, LoadedBy
  <2>. QED BY <2>1, <2>2, <2>3, GoneKept DEF Live
<1>10. ASSUME NEW c \in Connections, LinkChanges(c) PROVE ReceivedIsGone'
  <2>1. \A d \in Connections : link'[d] = "up" => link[d] = "up"
    BY <1>d, <1>10 DEF LinkChanges
  <2>. QED BY <1>1, <1>10, <2>1 DEF LinkChanges, Live
<1>11. CASE Restart
  <2>1. UNCHANGED <<received, queuedMessages>> /\ \A d \in Connections : ~(Live(d)')
    BY <1>11 DEF Restart, Live
  <2>. QED BY <2>1, GoneKept DEF Stored
<1>12. CASE UNCHANGED vars
  BY <1>1, <1>12 DEF vars, Live
<1>13. ASSUME NEW c \in Connections, MainTask(c) PROVE ReceivedIsGone'
  BY <1>1, <1>3, <1>4, <1>5, <1>13 DEF MainTask, Register, SpawnTasks, Select, Unregister, Live
<1>14. ASSUME NEW c \in Connections, SendTask(c) PROVE ReceivedIsGone'
  BY <1>6, <1>7, <1>14, ComingTaken, ComingShrinks DEF SendTask, TakePayload, EndSendTask
<1>15. ASSUME NEW c \in Connections, ReceiveTask(c) PROVE ReceivedIsGone'
  BY <1>1, <1>8, <1>9, <1>15
  DEF ReceiveTask, LookupRecipient, RelayFails, StoreFails, EndReceiveTask, Live
<1>16. CASE Environment
  BY <1>1, <1>2, <1>10, <1>11, <1>16 DEF Environment, AcceptFrame, Live
<1>. QED BY <1>12, <1>13, <1>14, <1>15, <1>16 DEF Next

\* Only a write delivers, and what it delivers was not received before.
LEMMA OnceStep ==
  Bookkeeping /\ ReceivedIsGone /\ AtMostOnce /\ [Next]_vars => AtMostOnce'
<1>. SUFFICES ASSUME Bookkeeping, ReceivedIsGone, AtMostOnce, [Next]_vars PROVE AtMostOnce'
  OBVIOUS
<1>. USE DEF registry, mainVars, sendVars, recvVars, database, history, NoConnection, NoPayload
<1>1. ASSUME UNCHANGED received PROVE AtMostOnce'
  BY <1>1 DEF AtMostOnce
<1>2. ASSUME NEW c \in Connections, WritePayload(c) PROVE AtMostOnce'
  <2>1. CASE link[c] # "up"
    BY <1>1, <1>2, <2>1 DEF WritePayload
  <2>2. CASE link[c] = "up"
    <3>1. PICK p \in Payloads, u \in ValidNames : p = inHand[c] /\ u = owner[c] /\ p # 0
      BY <1>2 DEF WritePayload, Bookkeeping, TypeOK, TasksFollowPhase, ConnectionsDrawn, Payloads
    <3>2. p \in Coming(c) /\ Live(c)
      BY <2>2, <3>1, RelayAssumption DEF Coming, Live
    <3>3. p \notin Elements(received[u])
      BY <3>2 DEF ReceivedIsGone, Gone
    <3>4. received \in [ValidNames -> Seq(Payloads)]
          /\ received' = [received EXCEPT ![u] = Append(@, p)]
      BY <1>2, <2>2, <3>1 DEF WritePayload, Bookkeeping, TypeOK
    <3>. HIDE DEF Payloads
    <3>5. received'[u] = Append(received[u], p)
          /\ \A v \in ValidNames : v # u => received'[v] = received[v]
      BY <3>4
    <3>6. \A i \in 1 .. Len(received[u]) : received[u][i] # p
      BY <3>3 DEF Elements
    <3>7. \A i, j \in 1 .. Len(received'[u]) : i # j => received'[u][i] # received'[u][j]
      <4>1. /\ Len(received'[u]) = Len(received[u]) + 1 /\ Len(received[u]) \in Nat
            /\ received'[u][Len(received[u]) + 1] = p
            /\ \A i \in 1 .. Len(received[u]) : received'[u][i] = received[u][i]
        BY <3>4, <3>5
      <4>2. \A i \in 1 .. Len(received'[u]) :
              i \in 1 .. Len(received[u]) \/ i = Len(received[u]) + 1
        BY <4>1
      <4>3. \A i, j \in 1 .. Len(received[u]) : i # j => received[u][i] # received[u][j]
        BY DEF AtMostOnce
      <4>4. ASSUME NEW i \in 1 .. Len(received'[u]), NEW j \in 1 .. Len(received'[u]), i # j
            PROVE  received'[u][i] # received'[u][j]
        BY <3>6, <4>1, <4>2, <4>3, <4>4
      <4>. QED BY <4>4
    <3>8. ASSUME NEW v \in ValidNames, v # u
          PROVE  \A i, j \in 1 .. Len(received'[v]) : i # j => received'[v][i] # received'[v][j]
      <4>1. received'[v] = received[v]
        BY <3>5, <3>8
      <4>. QED BY <4>1 DEF AtMostOnce
    <3>. QED BY <3>7, <3>8 DEF AtMostOnce
  <2>. QED BY <2>1, <2>2
<1>3. CASE Restart
  BY <1>1, <1>3 DEF Restart
<1>4. CASE UNCHANGED vars
  BY <1>1, <1>4 DEF vars
<1>5. ASSUME NEW c \in Connections, MainTask(c) PROVE AtMostOnce'
  BY <1>1, <1>5 DEF MainTask, Register, LoadQueue, ForwardQueued, DeleteQueued, DeleteFails,
                    SpawnTasks, Select, Unregister
<1>6. ASSUME NEW c \in Connections, SendTask(c) PROVE AtMostOnce'
  BY <1>1, <1>2, <1>6 DEF SendTask, TakePayload, EndSendTask
<1>7. ASSUME NEW c \in Connections, ReceiveTask(c) PROVE AtMostOnce'
  BY <1>1, <1>7 DEF ReceiveTask, LookupRecipient, RelayPayload, RelayFails, StorePayload,
                    StoreFails, EndReceiveTask
<1>8. CASE Environment
  BY <1>1, <1>3, <1>8 DEF Environment, Connect, AcceptFrame, LinkChanges
<1>. QED BY <1>4, <1>5, <1>6, <1>7, <1>8 DEF Next

\* Reconnects and restarts in the middle of a drain repeat no delivery, for any
\* number of them, while a user has one live socket and no DELETE fails.
THEOREM AtMostOnceCorrect ==
  ASSUME ~SessionsOverlap, "delete" \notin FailingStatements
  PROVE  Spec => []AtMostOnce
<1>1. Spec => [](Bookkeeping /\ RowsIdentified /\ DeletedWasForwarded /\ PayloadsAddressed
                   /\ HandledIsFresh /\ DrainInOrder)
  BY FreshCorrect, DrainOrderInit, DrainOrderStep, PTL DEF Spec
<1>2. Spec => []OneLive
  BY <1>1, OneLiveInit, OneLiveStep, PTL DEF Spec
<1>3. Spec => []LiveSendOnce
  BY <1>1, OnceInit, SendOnceStep, PTL DEF Spec
<1>4. Spec => []ReceivedIsGone
  BY <1>1, <1>2, <1>3, OnceInit, GoneStep, PTL DEF Spec
<1>. QED BY <1>1, <1>4, OnceInit, OnceStep, PTL DEF Spec

==============================================================================
