-------------------------- MODULE IdentityAgreement --------------------------
(***************************************************************************)
(* The identity file and the registration of its keys implement one        *)
(* identity that all runs of a client share.  The identity of a user is    *)
(* the signing key; it is chosen when the file is first complete, or was   *)
(* there in a file of the old format, which keeps its signing key while    *)
(* clients truncate and rewrite it.                                        *)
(***************************************************************************)
EXTENDS Identity

ChosenIdentity ==
  CASE found.state = "legacy" -> found.keys.identity
    [] found.state # "legacy" /\ file.state = "saved" -> file.keys.identity
    [] OTHER -> NoKeys.identity

UsesIdentity(c) == at[c] \in {"loaded", "running"}
Using == [c \in Clients |-> IF UsesIdentity(c) THEN held[c].identity ELSE NoKeys.identity]

Shared == INSTANCE SharedIdentity
  WITH Runs <- Clients, Identities <- 1 .. MaxGenerations, Unchosen <- NoKeys.identity,
       identity <- ChosenIdentity, using <- Using,
       requested <- {keys.identity : keys \in requests}, published <- directory.identity

\* Whatever clients create, load, upgrade and rewrite the file at the same time,
\* and wherever they end, all of them use and publish one signing key, which is
\* the one of the old file if there was one (identity.rs:33-79, 200-214).
ImplementsSharedIdentity == Shared!Spec

==============================================================================
