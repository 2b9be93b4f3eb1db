--------------------------- MODULE TrustedContacts ---------------------------
(***************************************************************************)
(* What the contact books of the clients promise: trust on first use,      *)
(* without a directory, lookups, a network or files that tear.             *)
(*                                                                         *)
(* A client trusts the first key it learns for a contact, and goes on to   *)
(* trust it until its user asks for another one.  It encrypts for this key *)
(* only, and shows messages that come with this key only.  What the next   *)
(* run of the client trusts is what this one trusted at some moment.       *)
(***************************************************************************)
EXTENDS Naturals, Sequences

CONSTANTS
  Users,
  Keys,
  NoKey,   \* no key is trusted
  Nobody   \* no contact

VARIABLES
  owned,      \* the keys that each user has had, and may be taken for
  current,    \* the key that each user has
  active,     \* users whose client runs
  trusted,    \* the key that a running client trusts for each contact
  kept,       \* the keys that its next run trusts
  replacing,  \* the contact for which the user asked for another key
  sent,       \* the messages sent, in order
  shown,      \* messages that were shown to their recipients
  refused     \* messages that were refused at least once

books == <<active, trusted, kept, replacing>>
trust == <<owned, current, books, sent, shown, refused>>

Nothing == [u \in Users |-> NoKey]

Init ==
  /\ owned \in [Users -> SUBSET Keys]
  /\ \A u, w \in Users : u # w => owned[u] \cap owned[w] = {}
  /\ current \in [Users -> Keys]
  /\ \A u \in Users : current[u] \in owned[u]
  /\ active = {}
  /\ trusted = [u \in Users |-> Nothing]
  /\ kept = [u \in Users |-> Nothing]
  /\ replacing = [u \in Users |-> Nobody]
  /\ sent = <<>>
  /\ shown = {}
  /\ refused = {}

\* A user gets a new key only between two runs of the client.
Rekey(u, k) ==
  /\ current' = [current EXCEPT ![u] = k]
  /\ \A w \in Users : k \notin owned[w]
  /\ owned' = [owned EXCEPT ![u] = @ \cup {k}]
  /\ UNCHANGED <<books, sent, shown, refused>>

Begin(u) ==
  /\ active' = active \cup {u}
  /\ trusted' = [trusted EXCEPT ![u] = kept[u]]
  /\ UNCHANGED <<owned, current, kept, replacing, sent, shown, refused>>

End(u) ==
  /\ active' = active \ {u}
  /\ trusted' = [trusted EXCEPT ![u] = Nothing]
  /\ replacing' = [replacing EXCEPT ![u] = Nobody]
  /\ UNCHANGED <<owned, current, kept, sent, shown, refused>>

Ask(u, peer) ==
  /\ replacing' = [replacing EXCEPT ![u] = peer]
  /\ UNCHANGED <<owned, current, active, trusted, kept, sent, shown, refused>>

Learn(u, peer, k) ==
  /\ trusted' = [trusted EXCEPT ![u][peer] = k]
  /\ trusted[u][peer] = NoKey \/ replacing[u] = peer
  /\ UNCHANGED <<owned, current, active, kept, replacing, sent, shown, refused>>

\* What a client trusts may be saved together with what it does next.
Keep(u) == kept' \in {kept, [kept EXCEPT ![u] = trusted[u]]}

Settle(u) ==
  /\ replacing' = [replacing EXCEPT ![u] = Nobody]
  /\ Keep(u)
  /\ UNCHANGED <<owned, current, active, trusted, sent, shown, refused>>

Send(u, peer) ==
  /\ sent' = Append(sent, [from |-> u, to |-> peer, senderKey |-> current[u],
                           recipientKey |-> trusted[u][peer]])
  /\ trusted[u][peer] # NoKey
  /\ Keep(u)
  /\ UNCHANGED <<owned, current, active, trusted, replacing, shown, refused>>

\* A message is encrypted for its recipient's key and comes with the sender's.
Genuine(u, m) ==
  /\ sent[m].recipientKey = current[u]
  /\ sent[m].senderKey = trusted[u][sent[m].from]

Show(u, m) ==
  /\ shown' = shown \cup {m}
  /\ Genuine(u, m)
  /\ Keep(u)
  /\ UNCHANGED <<owned, current, active, trusted, replacing, sent, refused>>

Refuse(u, m) ==
  /\ refused' = refused \cup {m}
  /\ ~Genuine(u, m)
  /\ Keep(u)
  /\ UNCHANGED <<owned, current, active, trusted, replacing, sent, shown>>

Next ==
  \/ \E u \in Users \ active :
       \/ Begin(u)
       \/ \E k \in Keys : Rekey(u, k)
  \/ \E u \in active :
       \/ End(u)
       \/ Settle(u)
       \/ \E peer \in Users :
            \/ Ask(u, peer)
            \/ Send(u, peer)
            \/ \E k \in owned[peer] : Learn(u, peer, k)
       \/ \E m \in {n \in DOMAIN sent : sent[n].to = u} : Show(u, m) \/ Refuse(u, m)

Spec == Init /\ [][Next]_trust

==============================================================================
