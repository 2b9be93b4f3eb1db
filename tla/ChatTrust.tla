------------------------------ MODULE ChatTrust ------------------------------
(***************************************************************************)
(* The clients of Chat implement trust on first use.  A client is active   *)
(* from its start on, trusts what its book in memory says, and keeps what  *)
(* its file last said in full; its user asks for another key of a contact  *)
(* with /add and /lookup.                                                  *)
(***************************************************************************)
EXTENDS Chat

\* What may be known of the key of a user: a key pair that the user has or had,
\* or the empty key of an old row.
KeysOf(u) == {k \in PublicKeys : /\ k.owner = u /\ k.number <= key[u]
                                 /\ k.number = 0 => u \in OldRows}

Owned == [u \in Users |-> KeysOf(u)]
Current == [u \in Users |-> OwnKey(u)]
Active == {u \in Users : at[u] # "off"}
Kept == [u \in Users |-> file[u].contacts]
Replacing == [u \in Users |-> IF job[u].task = "add" THEN job[u].peer ELSE NoUser]

Trust == INSTANCE TrustedContacts
  WITH Keys <- PublicKeys, Nobody <- NoUser,
       owned <- Owned, current <- Current, active <- Active, trusted <- contacts,
       kept <- Kept, replacing <- Replacing, refused <- rejected

\* Whatever is looked up late, saved halfway, lost, repeated and restarted, each
\* client trusts the first key it learns of a contact until its user replaces
\* it.  A message that it opens is shown if it was encrypted for the present key
\* of its recipient by the key that is trusted now, and refused otherwise: what
\* was decrypted before the client awaited an answer and the disk is compared
\* with what it knows afterwards (contacts.rs:27-80, main.rs:187-315,
\* crypto.rs:61-99).
ImplementsTrust == Trust!Spec

==============================================================================
