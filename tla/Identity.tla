------------------------------ MODULE Identity ------------------------------
(***************************************************************************)
(* The identity file of one user (client/src/identity.rs) and the          *)
(* registration of its public keys (client/src/main.rs, the directory of   *)
(* server/src/directory.rs).                                               *)
(*                                                                         *)
(* A client is one run of the command-line program for that user; it may   *)
(* end between any two of its steps.  A step is the code between two calls *)
(* of the file system or of the server.  A key pair is the number of its   *)
(* generation: encoding, decoding and validation of the keys of a complete *)
(* file always succeed, and a file that was truncated and not written      *)
(* again ("partial") never parses.                                         *)
(***************************************************************************)
EXTENDS Naturals

CONSTANTS
  Clients,         \* runs of the program, each of which may be repeated
  Unix,            \* built for unix: write_secret_file uses create_new
  InitialFiles,    \* what may be there at the start: no file, one of the old format
  ClientsOverlap,  \* may the user start a client while another one runs?
  MaxGenerations   \* bound: times that keys are generated

ASSUME IdentityAssumption ==
  /\ Unix \in BOOLEAN
  /\ InitialFiles \subseteq {"absent", "legacy"}
  /\ ClientsOverlap \in BOOLEAN
  /\ MaxGenerations \in Nat \ {0}

VARIABLES
  at,           \* where main and load_or_create_in of each client are
  held,         \* the keys each client has in memory
  file,         \* the identity file
  generations,  \* key generations so far
  requests,     \* registrations on their way to the server
  directory,    \* the user's row of table public_keys
  found         \* history: the file that was there at the start

vars == <<at, held, file, generations, requests, directory, found>>

Keys == [identity : 0 .. MaxGenerations, encryption : 0 .. MaxGenerations]
NoKeys == [identity |-> 0, encryption |-> 0]

Absent == [state |-> "absent", keys |-> NoKeys]
Partial == [state |-> "partial", keys |-> NoKeys]
Saved(keys) == [state |-> "saved", keys |-> keys]

\* LegacyStoredIdentity: a signing key pair without an encryption key pair.
Legacy == [state |-> "legacy", keys |-> [identity |-> 1, encryption |-> 0]]

Init ==
  /\ at = [c \in Clients |-> "off"]
  /\ held = [c \in Clients |-> NoKeys]
  /\ file \in {Absent, Legacy}
  /\ file.state \in InitialFiles
  /\ generations = file.keys.identity
  /\ requests = {}
  /\ directory = NoKeys
  /\ found = file

Generate ==
  /\ generations < MaxGenerations
  /\ generations' = generations + 1

NewKeys == [identity |-> generations + 1, encryption |-> generations + 1]

\* The upgrade keeps the signing keys and adds encryption keys.
OldKeys == file.keys                               \* nothing is added
UpgradedKeys == [identity |-> file.keys.identity, encryption |-> generations + 1]

------------------------------------------------------------------------------
\* load_or_create_in looks whether the file exists and decides what to do.
Launch(c) ==
  /\ at[c] = "off"
  /\ ClientsOverlap \/ \A d \in Clients : at[d] = "off"
  /\ \/ /\ file.state # "absent"
        /\ at' = [at EXCEPT ![c] = "reading"]
        /\ UNCHANGED <<held, generations>>
     \/ /\ file.state = "absent"
        /\ Generate
        /\ held' = [held EXCEPT ![c] = NewKeys]
        /\ at' = [at EXCEPT ![c] = "creating"]
  /\ UNCHANGED <<file, requests, directory>>

\* load_identity_file; a file that cannot be parsed ends the program.
ReadFile(c) ==
  /\ at[c] = "reading"
  /\ \/ /\ file.state = "saved"
        /\ held' = [held EXCEPT ![c] = file.keys]
        /\ at' = [at EXCEPT ![c] = "loaded"]
        /\ UNCHANGED generations
     \/ /\ file.state = "legacy"
        /\ Generate
        /\ held' = [held EXCEPT ![c] = UpgradedKeys]
        /\ at' = [at EXCEPT ![c] = "upgrading"]
     \/ /\ file.state = "partial"
        /\ at' = [at EXCEPT ![c] = "off"]
        /\ UNCHANGED <<held, generations>>
  /\ UNCHANGED <<file, requests, directory>>

\* create_new refuses an existing file; fs::write truncates it.
TruncatesToCreate(c) == TRUE                  \* create(true).truncate(true)
MayOpen(c) == at[c] = "creating" /\ Unix => file.state = "absent"

OpenFile(c) ==
  /\ at[c] \in {"creating", "upgrading"}
  /\ \/ /\ MayOpen(c)
        /\ file' = Partial
        /\ at' = [at EXCEPT ![c] = "writing"]
        /\ UNCHANGED held
     \/ /\ ~MayOpen(c)
        /\ at' = [at EXCEPT ![c] = "off"]
        /\ held' = [held EXCEPT ![c] = NoKeys]
        /\ UNCHANGED file
  /\ UNCHANGED <<generations, requests, directory>>

WriteFile(c) ==
  /\ at[c] = "writing"
  /\ file' = Saved(held[c])
  /\ at' = [at EXCEPT ![c] = "loaded"]
  /\ UNCHANGED <<held, generations, requests, directory>>

\* main registers the public keys once load_or_create has returned.
HasKeys(c) == at[c] \in {"creating", "upgrading", "loaded"}  \* not yet saved
HasIdentity(c) == at[c] = "loaded"

Register(c) ==
  /\ HasIdentity(c)
  /\ requests' = requests \cup {held[c]}
  /\ at' = [at EXCEPT ![c] = "running"]
  /\ UNCHANGED <<held, file, generations, directory>>

\* The upsert of the directory; the client may have ended in the meantime.
Upsert(keys) ==
  /\ keys \in requests
  /\ directory' = keys
  /\ requests' = requests \ {keys}
  /\ UNCHANGED <<at, held, file, generations>>

\* /quit, Ctrl+C, a crash, or an error of a write or of a request.
Exit(c) ==
  /\ at[c] # "off"
  /\ at' = [at EXCEPT ![c] = "off"]
  /\ held' = [held EXCEPT ![c] = NoKeys]
  /\ UNCHANGED <<file, generations, requests, directory>>

Client(c) ==
  \/ Launch(c) \/ ReadFile(c) \/ OpenFile(c) \/ WriteFile(c) \/ Register(c) \/ Exit(c)

Next ==
  /\ \/ \E c \in Clients : Client(c)
     \/ \E keys \in requests : Upsert(keys)
  /\ UNCHANGED found

Spec == Init /\ [][Next]_vars

------------------------------------------------------------------------------
\* Every variable has its type, a complete file holds both key pairs, and the
\* file of the older format only a signing key pair.
TypeOK ==
  /\ at \in [Clients -> {"off", "reading", "creating", "upgrading", "writing",
                         "loaded", "running"}]
  /\ held \in [Clients -> Keys]
  /\ file \in [state : {"absent", "partial", "legacy", "saved"}, keys : Keys]
  /\ file.state = "saved" => file.keys.identity # 0 /\ file.keys.encryption # 0
  /\ file.state = "legacy" => file = Legacy
  /\ generations \in 0 .. MaxGenerations
  /\ requests \subseteq Keys
  /\ directory \in Keys
  /\ found \in {Absent, Legacy}

\* Keys that were generated together, by a client that found no file.
Created(keys) == keys.identity = keys.encryption

\* Whatever clients the user started at the same time, those that got through
\* load_or_create use the keys that are in the file: write_secret_file lets one
\* of several creators win (identity.rs:200-214).  Of several clients that
\* upgrade an old file at the same time, each keeps its own encryption key.
KeysAgree == \A c \in Clients :
  at[c] \in {"loaded", "running"} /\ (ClientsOverlap => Created(held[c])) =>
    file = Saved(held[c])

\* The server only ever learns keys whose secret halves are in the file, also
\* from a registration that arrives after its client has ended: what others
\* encrypt for the published key can be decrypted after a restart.  The same
\* exception holds for concurrent upgrades.
PublishedIsSaved == \A keys \in requests \cup ({directory} \ {NoKeys}) :
  (ClientsOverlap => Created(keys)) => file = Saved(keys)

\* The identity key in the directory never changes once it is there, not even
\* when several clients upgrade an old file at the same time.
OneIdentity ==
  [][directory # NoKeys => directory'.identity = directory.identity]_vars

=============================================================================
