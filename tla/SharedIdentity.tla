--------------------------- MODULE SharedIdentity ---------------------------
(***************************************************************************)
(* What load_or_create promises to the runs of one user's client: one      *)
(* identity, without files, formats, key pairs or a directory.             *)
(*                                                                         *)
(* There may be an identity from the start; if there is none, one run      *)
(* chooses it.  From then on it never changes, not even when no run is     *)
(* left: every run that comes to an identity comes to this one, and only   *)
(* this one is ever asked for and published.                               *)
(***************************************************************************)
CONSTANTS
  Runs,
  Identities,
  Unchosen    \* no identity

VARIABLES
  identity,   \* the user's identity
  using,      \* the identity that each run uses
  requested,  \* identities that runs asked the server to publish
  published   \* the identity that the others see

shared == <<identity, using, requested, published>>

Init ==
  /\ identity \in Identities \cup {Unchosen}
  /\ using = [r \in Runs |-> Unchosen]
  /\ requested = {}
  /\ published = Unchosen

Choose(r, i) ==
  /\ identity = Unchosen
  /\ identity' = i
  /\ using' = [using EXCEPT ![r] = i]
  /\ UNCHANGED <<requested, published>>

Adopt(r) ==
  /\ identity # Unchosen
  /\ using[r] = Unchosen
  /\ using' = [using EXCEPT ![r] = identity]
  /\ UNCHANGED <<identity, requested, published>>

Request(r) ==
  /\ using[r] # Unchosen
  /\ requested' = requested \cup {using[r]}
  /\ UNCHANGED <<identity, using, published>>

\* A run that has left may have asked for it, and others may still ask.
Publish(i) ==
  /\ i \in requested
  /\ published' = i
  /\ requested' \in {requested, requested \ {i}}
  /\ UNCHANGED <<identity, using>>

Leave(r) ==
  /\ using[r] # Unchosen
  /\ using' = [using EXCEPT ![r] = Unchosen]
  /\ UNCHANGED <<identity, requested, published>>

Next ==
  \/ \E r \in Runs, i \in Identities : Choose(r, i)
  \/ \E r \in Runs : Adopt(r) \/ Request(r) \/ Leave(r)
  \/ \E i \in Identities : Publish(i)

Spec == Init /\ [][Next]_shared

==============================================================================
