--------------------------- MODULE IdentityProofs ---------------------------
(***************************************************************************)
(* Proofs about Identity for every set of clients.                         *)
(***************************************************************************)
EXTENDS IdentityAgreement, TLAPS

\* Past the choice between loading and creating, a client holds both key pairs.
HasBothKeys == \A c \in Clients :
  at[c] \in {"creating", "upgrading", "writing", "loaded", "running"} =>
    held[c].identity # 0 /\ held[c].encryption # 0

Typed == TypeOK /\ HasBothKeys

\* At the start there is no file or one of the old format, and no client.
LEMMA TypedInit == Init => Typed
<1>. SUFFICES ASSUME Init PROVE Typed
  OBVIOUS
<1>1. NoKeys \in Keys /\ Legacy.keys \in Keys
  BY IdentityAssumption, SMT DEF NoKeys, Legacy, Keys
<1>2. file = Absent => generations = 0
  BY SMT DEF Init, Absent, NoKeys
<1>3. file = Legacy => generations = 1
  BY SMT DEF Init, Legacy
<1>4. generations \in 0 .. MaxGenerations
  BY <1>2, <1>3, IdentityAssumption, SMT DEF Init
<1>5. TypeOK
  BY <1>1, <1>4 DEF Init, TypeOK, Absent, Legacy
<1>. QED BY <1>5 DEF Init, Typed, HasBothKeys

\* Freshly generated and upgraded keys are keys, and neither pair is missing.
LEMMA FreshKeys ==
  ASSUME TypeOK, Generate
  PROVE  /\ NewKeys \in Keys /\ NewKeys.identity # 0 /\ NewKeys.encryption # 0
         /\ file.state = "legacy" =>
              /\ UpgradedKeys \in Keys
              /\ UpgradedKeys.identity = 1 /\ UpgradedKeys.encryption # 0
         /\ generations' \in 0 .. MaxGenerations
<1>1. generations + 1 \in 0 .. MaxGenerations /\ generations + 1 # 0
  BY IdentityAssumption, SMT DEF TypeOK, Generate
<1>2. 1 \in 0 .. MaxGenerations
  BY IdentityAssumption, SMT
<1>. QED BY <1>1, <1>2, SMT
     DEF TypeOK, Generate, NewKeys, UpgradedKeys, Keys, Legacy

\* No step of a client or of the server breaks a type or loses a key pair.
LEMMA TypedStep == Typed /\ [Next]_vars => Typed'
<1>. SUFFICES ASSUME Typed, [Next]_vars PROVE Typed'
  OBVIOUS
<1>. USE DEF Typed, TypeOK, HasBothKeys
<1>0. NoKeys \in Keys /\ found' = found
  BY IdentityAssumption, SMT DEF NoKeys, Keys, Next, vars
<1>1. ASSUME NEW c \in Clients, Launch(c) PROVE Typed'
  <2>1. CASE file.state # "absent"
    BY <1>0, <1>1, <2>1 DEF Launch
  <2>2. CASE file.state = "absent"
    BY <1>0, <1>1, <2>2, FreshKeys DEF Launch
  <2>. QED BY <2>1, <2>2
<1>2. ASSUME NEW c \in Clients, ReadFile(c) PROVE Typed'
  <2>1. CASE file.state = "saved"
    BY <1>0, <1>2, <2>1 DEF ReadFile
  <2>2. CASE file.state = "legacy"
    BY <1>0, <1>2, <2>2, FreshKeys DEF ReadFile
  <2>3. CASE file.state = "partial"
    BY <1>0, <1>2, <2>3 DEF ReadFile
  <2>. QED BY <1>2, <2>1, <2>2, <2>3 DEF ReadFile
<1>3. ASSUME NEW c \in Clients, OpenFile(c) PROVE Typed'
  BY <1>0, <1>3 DEF OpenFile, Partial
<1>4. ASSUME NEW c \in Clients, WriteFile(c) PROVE Typed'
  BY <1>0, <1>4 DEF WriteFile, Saved
<1>5. ASSUME NEW c \in Clients, Register(c) PROVE Typed'
  BY <1>0, <1>5 DEF Register, HasIdentity
<1>6. ASSUME NEW c \in Clients, Exit(c) PROVE Typed'
  BY <1>0, <1>6 DEF Exit
<1>7. ASSUME NEW keys \in requests, Upsert(keys) PROVE Typed'
  BY <1>0, <1>7 DEF Upsert
<1>8. CASE UNCHANGED vars
  BY <1>0, <1>8 DEF vars
<1>. QED BY <1>1, <1>2, <1>3, <1>4, <1>5, <1>6, <1>7, <1>8 DEF Next, Client

\* In every behavior variables keep their types and clients their keys.
LEMMA TypedCorrect == Spec => []Typed
BY TypedInit, TypedStep, PTL DEF Spec

\* Every variable keeps its type, and a complete file always has both key pairs.
THEOREM IdentityTypeCorrect == Spec => []TypeOK
<1>1. Typed => TypeOK
  BY DEF Typed
<1>. QED BY <1>1, TypedCorrect, PTL

------------------------------------------------------------------------------
(* Several clients and no file at the start, on unix: create_new decides      *)
(* which of the creators writes the file, once and for all.                   *)

FileIsUsed == \A c \in Clients : at[c] \in {"loaded", "running"} => file = Saved(held[c])

FileIsPublished == \A keys \in requests \cup ({directory} \ {NoKeys}) : file = Saved(keys)

OneCreator ==
  /\ file.state # "legacy"
  /\ \A c \in Clients : at[c] # "upgrading"
  /\ \A c \in Clients : at[c] = "writing" =>
       file = Partial /\ \A d \in Clients : at[d] = "writing" => d = c
  /\ FileIsUsed
  /\ FileIsPublished

\* What the file is not while it is absent or partial.
LEMMA SavedIsNeither ==
  ASSUME NEW keys PROVE /\ Saved(keys) # Absent /\ Saved(keys) # Partial
                        /\ Saved(keys).state = "saved" /\ Saved(keys).keys = keys
                        /\ Partial.state = "partial"
BY DEF Saved, Absent, Partial

\* Without a file nobody has keys and nothing is published.
LEMMA OneCreatorInit == Init /\ file = Absent => OneCreator
BY SMT DEF Init, OneCreator, FileIsUsed, FileIsPublished, Absent, NoKeys

\* No step lets a second client write, changes a saved file or publishes other
\* keys than the saved ones.
LEMMA OneCreatorStep ==
  ASSUME Unix, Typed, OneCreator, [Next]_vars
  PROVE  OneCreator'
<1>. USE DEF OneCreator, FileIsUsed, FileIsPublished
<1>1. ASSUME NEW c \in Clients, Launch(c) PROVE OneCreator'
  BY <1>1 DEF Launch, Typed, TypeOK
<1>2. ASSUME NEW c \in Clients, ReadFile(c) PROVE OneCreator'
  <2>1. CASE file.state = "saved"
    <3>1. file = Saved(file.keys)
      BY <2>1 DEF Typed, TypeOK, Saved
    <3>. QED BY <1>2, <2>1, <3>1 DEF ReadFile, Typed, TypeOK
  <2>2. CASE file.state = "partial"
    BY <1>2, <2>2 DEF ReadFile, Typed, TypeOK
  <2>. QED BY <1>2, <2>1, <2>2 DEF ReadFile
<1>3. ASSUME NEW c \in Clients, OpenFile(c) PROVE OneCreator'
  <2>1. CASE file.state = "absent"
    <3>1. \A keys : file # Saved(keys)
      BY <2>1 DEF Saved
    <3>2. file # Partial
      BY <2>1 DEF Partial
    <3>3. \A d \in Clients : at[d] \notin {"writing", "loaded", "running"}
      BY <3>1, <3>2
    <3>4. requests = {} /\ directory = NoKeys
      BY <3>1
    <3>5. at' = [at EXCEPT ![c] = "writing"] /\ file' = Partial
      BY <1>3, <2>1 DEF OpenFile, MayOpen
    <3>. QED BY <1>3, <3>3, <3>4, <3>5, SavedIsNeither DEF OpenFile, Typed, TypeOK
  <2>2. CASE file.state # "absent"
    <3>1. ~MayOpen(c)
      BY <1>3, <2>2 DEF OpenFile, MayOpen
    <3>. QED BY <1>3, <3>1 DEF OpenFile, Typed, TypeOK
  <2>. QED BY <2>1, <2>2
<1>4. ASSUME NEW c \in Clients, WriteFile(c) PROVE OneCreator'
  <2>1. file = Partial
    BY <1>4 DEF WriteFile
  <2>2. \A keys : file # Saved(keys)
    BY <2>1, SavedIsNeither
  <2>3. \A d \in Clients : at[d] \notin {"loaded", "running"}
    BY <2>2
  <2>4. requests = {} /\ directory = NoKeys
    BY <2>2
  <2>5. \A d \in Clients : at[d] = "writing" => d = c
    BY <1>4 DEF WriteFile
  <2>. QED BY <1>4, <2>3, <2>4, <2>5, SavedIsNeither DEF WriteFile, Typed, TypeOK
<1>5. ASSUME NEW c \in Clients, Register(c) PROVE OneCreator'
  BY <1>5 DEF Register, HasIdentity, Typed, TypeOK
<1>6. ASSUME NEW c \in Clients, Exit(c) PROVE OneCreator'
  BY <1>6 DEF Exit, Typed, TypeOK
<1>7. ASSUME NEW keys \in requests, Upsert(keys) PROVE OneCreator'
  BY <1>7 DEF Upsert
<1>8. CASE UNCHANGED vars
  BY <1>8 DEF vars
<1>. QED BY <1>1, <1>2, <1>3, <1>4, <1>5, <1>6, <1>7, <1>8 DEF Next, Client

------------------------------------------------------------------------------
(* A file of the old format at the start: whoever upgrades it, and however    *)
(* often, the identity key of the file is the one that everybody has.         *)

\* The signing key of the file, with an encryption key generated after it.
Later(keys) == keys.identity = 1 /\ keys.encryption # 1

Upgraded ==
  /\ file.state \in {"partial", "legacy", "saved"}
  /\ generations # 0
  /\ file.state = "saved" => Later(file.keys)
  /\ \A c \in Clients :
       /\ at[c] # "creating"
       /\ at[c] \in {"upgrading", "writing", "loaded", "running"} => Later(held[c])
  /\ \A keys \in requests \cup ({directory} \ {NoKeys}) : Later(keys)

\* The old file is there and nobody else has keys.
LEMMA UpgradedInit == Init /\ file = Legacy => Upgraded
BY SMT DEF Init, Upgraded, Later, Legacy, NoKeys

\* No step brings in another identity key.
LEMMA UpgradedStep ==
  ASSUME Typed, Upgraded, [Next]_vars
  PROVE  Upgraded'
<1>. USE DEF Upgraded, Later
<1>1. ASSUME NEW c \in Clients, Launch(c) PROVE Upgraded'
  BY <1>1 DEF Launch, Typed, TypeOK
<1>2. ASSUME NEW c \in Clients, ReadFile(c) PROVE Upgraded'
  <2>1. CASE file.state = "saved"
    BY <1>2, <2>1 DEF ReadFile, Typed, TypeOK
  <2>2. CASE file.state = "legacy"
    <3>1. Later(UpgradedKeys) /\ generations' # 0
      BY <1>2, <2>2, IdentityAssumption, SMT
         DEF ReadFile, Generate, UpgradedKeys, Legacy, Typed, TypeOK
    <3>. QED BY <1>2, <2>2, <3>1 DEF ReadFile, Typed, TypeOK
  <2>3. CASE file.state = "partial"
    BY <1>2, <2>3 DEF ReadFile, Typed, TypeOK
  <2>. QED BY <2>1, <2>2, <2>3
<1>3. ASSUME NEW c \in Clients, OpenFile(c) PROVE Upgraded'
  BY <1>3 DEF OpenFile, Partial, Typed, TypeOK
<1>4. ASSUME NEW c \in Clients, WriteFile(c) PROVE Upgraded'
  BY <1>4 DEF WriteFile, Saved, Typed, TypeOK
<1>5. ASSUME NEW c \in Clients, Register(c) PROVE Upgraded'
  BY <1>5 DEF Register, HasIdentity, Typed, TypeOK
<1>6. ASSUME NEW c \in Clients, Exit(c) PROVE Upgraded'
  BY <1>6 DEF Exit, Typed, TypeOK
<1>7. ASSUME NEW keys \in requests, Upsert(keys) PROVE Upgraded'
  BY <1>7 DEF Upsert
<1>8. CASE UNCHANGED vars
  BY <1>8 DEF vars
<1>. QED BY <1>1, <1>2, <1>3, <1>4, <1>5, <1>6, <1>7, <1>8 DEF Next, Client

\* On unix the published identity key never changes, with or without an old
\* file, although concurrent upgrades may publish different encryption keys.
THEOREM OneIdentityCorrect ==
  ASSUME Unix
  PROVE  Spec => OneIdentity
<1>. DEFINE Inv == Typed /\ (OneCreator \/ Upgraded)
<1>1. Init => OneCreator \/ Upgraded
  BY OneCreatorInit, UpgradedInit DEF Init
<1>2. Typed /\ (OneCreator \/ Upgraded) /\ [Next]_vars => (OneCreator \/ Upgraded)'
  BY OneCreatorStep, UpgradedStep
<1>3. Inv /\ [Next]_vars =>
        [directory # NoKeys => directory'.identity = directory.identity]_vars
  <2>. SUFFICES ASSUME Inv, Next, directory # NoKeys
                PROVE  directory'.identity = directory.identity
    OBVIOUS
  <2>1. ASSUME NEW keys \in requests, Upsert(keys)
        PROVE  directory'.identity = directory.identity
    <3>1. CASE OneCreator
      <4>1. file = Saved(keys) /\ file = Saved(directory)
        BY <3>1 DEF OneCreator, FileIsPublished
      <4>. QED BY <2>1, <4>1 DEF Upsert, Saved
    <3>2. CASE Upgraded
      BY <2>1, <3>2 DEF Upsert, Upgraded, Later
    <3>. QED BY <3>1, <3>2
  <2>2. ASSUME NEW c \in Clients, Client(c) PROVE directory' = directory
    BY <2>2 DEF Client, Launch, ReadFile, OpenFile, WriteFile, Register, Exit
  <2>. QED BY <2>1, <2>2 DEF Next
<1>. QED BY <1>1, <1>2, <1>3, TypedCorrect, PTL DEF Spec, OneIdentity

------------------------------------------------------------------------------
(* One client at a time, on any platform and with either file at the start:   *)
(* the file is written before anything is published, and never again.         *)

OneAtATime ==
  /\ \A c, d \in Clients : at[c] # "off" /\ at[d] # "off" => c = d
  /\ \A c \in Clients :
       /\ at[c] = "creating" => file = Absent
       /\ at[c] = "upgrading" => file.state = "legacy"
       /\ at[c] = "writing" => file = Partial
  /\ file.state = "absent" => file = Absent
  /\ FileIsUsed
  /\ FileIsPublished

\* The first client starts with nothing published.
LEMMA OneAtATimeInit == Init => OneAtATime
BY SMT DEF Init, OneAtATime, FileIsUsed, FileIsPublished, Absent, Legacy, NoKeys

\* A client that creates or upgrades the file is the only one that ever will.
LEMMA OneAtATimeStep ==
  ASSUME ~ClientsOverlap, Typed, OneAtATime, [Next]_vars
  PROVE  OneAtATime'
<1>. USE DEF OneAtATime, FileIsUsed, FileIsPublished
<1>1. ASSUME NEW c \in Clients, Launch(c) PROVE OneAtATime'
  <2>1. \A d \in Clients : at[d] = "off"
    BY <1>1 DEF Launch
  <2>. QED BY <1>1, <2>1 DEF Launch, Typed, TypeOK
<1>2. ASSUME NEW c \in Clients, ReadFile(c) PROVE OneAtATime'
  <2>1. CASE file.state = "saved"
    <3>1. file = Saved(file.keys)
      BY <2>1 DEF Typed, TypeOK, Saved
    <3>. QED BY <1>2, <2>1, <3>1 DEF ReadFile, Typed, TypeOK
  <2>2. CASE file.state = "legacy"
    BY <1>2, <2>2 DEF ReadFile, Typed, TypeOK
  <2>3. CASE file.state = "partial"
    BY <1>2, <2>3 DEF ReadFile, Typed, TypeOK
  <2>. QED BY <1>2, <2>1, <2>2, <2>3 DEF ReadFile
<1>3. ASSUME NEW c \in Clients, OpenFile(c) PROVE OneAtATime'
  <2>1. file.state # "saved"
    BY <1>3 DEF OpenFile, Absent
  <2>2. \A keys : file # Saved(keys)
    BY <2>1 DEF Saved
  <2>3. requests = {} /\ directory = NoKeys
    BY <2>2
  <2>4. \A d \in Clients \ {c} : at[d] = "off"
    BY <1>3 DEF OpenFile
  <2>5. CASE MayOpen(c)
    BY <1>3, <2>3, <2>4, <2>5, SavedIsNeither DEF OpenFile, Typed, TypeOK, Partial
  <2>6. CASE ~MayOpen(c)
    BY <1>3, <2>3, <2>4, <2>6 DEF OpenFile, Typed, TypeOK
  <2>. QED BY <2>5, <2>6
<1>4. ASSUME NEW c \in Clients, WriteFile(c) PROVE OneAtATime'
  <2>1. \A keys : file # Saved(keys)
    BY <1>4, SavedIsNeither DEF WriteFile
  <2>2. requests = {} /\ directory = NoKeys
    BY <2>1
  <2>3. \A d \in Clients \ {c} : at[d] = "off"
    BY <1>4 DEF WriteFile
  <2>. QED BY <1>4, <2>2, <2>3, SavedIsNeither DEF WriteFile, Typed, TypeOK
<1>5. ASSUME NEW c \in Clients, Register(c) PROVE OneAtATime'
  BY <1>5 DEF Register, HasIdentity, Typed, TypeOK
<1>6. ASSUME NEW c \in Clients, Exit(c) PROVE OneAtATime'
  BY <1>6 DEF Exit, Typed, TypeOK
<1>7. ASSUME NEW keys \in requests, Upsert(keys) PROVE OneAtATime'
  BY <1>7 DEF Upsert
<1>8. CASE UNCHANGED vars
  BY <1>8 DEF vars
<1>. QED BY <1>1, <1>2, <1>3, <1>4, <1>5, <1>6, <1>7, <1>8 DEF Next, Client

------------------------------------------------------------------------------
(* On unix, or with one client at a time.                                     *)

\* What the three invariants have in common.
LEMMA FileDecides ==
  /\ OneCreator => KeysAgree /\ PublishedIsSaved
  /\ ClientsOverlap /\ Upgraded => KeysAgree /\ PublishedIsSaved
  /\ OneAtATime => KeysAgree /\ PublishedIsSaved
<1>1. FileIsUsed /\ FileIsPublished => KeysAgree /\ PublishedIsSaved
  BY DEF FileIsUsed, FileIsPublished, KeysAgree, PublishedIsSaved
<1>2. ClientsOverlap /\ Upgraded => KeysAgree /\ PublishedIsSaved
  BY DEF Upgraded, Later, KeysAgree, PublishedIsSaved, Created
<1>. QED BY <1>1, <1>2 DEF OneCreator, OneAtATime

\* In every behavior one of the three invariants holds throughout.
LEMMA FileCorrect ==
  ASSUME Unix \/ ~ClientsOverlap
  PROVE  Spec => [](KeysAgree /\ PublishedIsSaved)
<1>1. CASE Unix /\ ClientsOverlap
  <2>1. Init => OneCreator \/ Upgraded
    BY OneCreatorInit, UpgradedInit DEF Init
  <2>2. Typed /\ (OneCreator \/ Upgraded) /\ [Next]_vars => (OneCreator \/ Upgraded)'
    BY <1>1, OneCreatorStep, UpgradedStep
  <2>3. OneCreator \/ Upgraded => KeysAgree /\ PublishedIsSaved
    BY <1>1, FileDecides
  <2>. QED BY <2>1, <2>2, <2>3, TypedCorrect, PTL DEF Spec
<1>2. CASE ~ClientsOverlap
  <2>1. Typed /\ OneAtATime /\ [Next]_vars => OneAtATime'
    BY <1>2, OneAtATimeStep
  <2>2. OneAtATime => KeysAgree /\ PublishedIsSaved
    BY FileDecides
  <2>. QED BY <2>1, <2>2, OneAtATimeInit, TypedCorrect, PTL DEF Spec
<1>. QED BY <1>1, <1>2

\* On unix, and everywhere for a user who runs one client at a time, clients
\* use the keys of the file, wherever they end; concurrent upgrades excepted.
THEOREM KeysAgreeCorrect ==
  ASSUME Unix \/ ~ClientsOverlap
  PROVE  Spec => []KeysAgree
BY FileCorrect, PTL

\* Under the same conditions only keys of the file are published, also when a
\* registration arrives after its client has ended.
THEOREM PublishedIsSavedCorrect ==
  ASSUME Unix \/ ~ClientsOverlap
  PROVE  Spec => []PublishedIsSaved
BY FileCorrect, PTL

------------------------------------------------------------------------------
(* One identity for all runs of a client.                                     *)

\* How the file decides on the identity.  An old file has decided; otherwise the
\* first complete file does, and it is not opened again.
Decided ==
  \/ found.state = "legacy" /\ Upgraded
  \/ /\ found.state # "legacy"
     /\ FileIsUsed
     /\ FileIsPublished
     /\ \A c \in Clients :
          /\ at[c] = "writing" => file = Partial
          /\ at[c] \in {"creating", "upgrading"} /\ MayOpen(c) => file.state # "saved"

\* What the two kinds of Identity's invariants say of the file.
LEMMA FileHasDecided ==
  ASSUME Unix \/ ~ClientsOverlap
  PROVE  Spec => []Decided
<1>. DEFINE Inv == IF found.state = "legacy" THEN Upgraded
                   ELSE IF Unix THEN OneCreator ELSE OneAtATime
<1>1. Init => Inv
  BY OneCreatorInit, UpgradedInit, OneAtATimeInit DEF Init, Absent, Legacy
<1>2. Typed /\ Inv /\ [Next]_vars => Inv'
  <2>1. [Next]_vars => found' = found
    BY DEF Next, vars
  <2>. QED BY <2>1, OneCreatorStep, UpgradedStep, OneAtATimeStep
<1>3. Inv => Decided
  BY DEF Decided, OneCreator, OneAtATime, MayOpen, Absent
<1>. QED BY <1>1, <1>2, <1>3, TypedCorrect, PTL DEF Spec

\* The identity of the user at the start.
LEMMA SharedInit == Init => Shared!Init
<1>. SUFFICES ASSUME Init PROVE Shared!Init
  OBVIOUS
<1>1. ChosenIdentity \in (1 .. MaxGenerations) \cup {NoKeys.identity}
  BY IdentityAssumption, SMT DEF Init, ChosenIdentity, Absent, Legacy, NoKeys
<1>. QED BY <1>1 DEF Init, Shared!Init, Using, UsesIdentity

\* Every step of a client or of the server is one of the shared identity, or
\* leaves it alone.
LEMMA SharedStep ==
  ASSUME Typed, Decided, [Next]_vars
  PROVE  [Shared!Next]_Shared!shared
<1>. DEFINE identity == ChosenIdentity
            using == Using
            requested == {keys.identity : keys \in requests}
            published == directory.identity
            none == NoKeys.identity
<1>0. none = 0
  BY DEF NoKeys
<1>1. found' = found
  BY DEF Next, vars
<1>2. file' = file \/ found.state = "legacy" => identity' = identity
  BY <1>1 DEF ChosenIdentity
<1>3. \A c \in Clients : UsesIdentity(c) => held[c].identity \in 1 .. MaxGenerations
  BY IdentityAssumption, SMT DEF Typed, TypeOK, HasBothKeys, UsesIdentity, Keys
<1>4. ASSUME at' = at, held' = held PROVE using' = using
  BY <1>4 DEF Using, UsesIdentity
<1>5. ASSUME NEW c \in Clients, Launch(c) PROVE [Shared!Next]_Shared!shared
  <2>1. using' = using
    BY <1>5 DEF Launch, Using, UsesIdentity, Typed, TypeOK
  <2>. QED BY <1>2, <1>5, <2>1 DEF Launch, Shared!shared
<1>6. ASSUME NEW c \in Clients, ReadFile(c) PROVE [Shared!Next]_Shared!shared
  <2>1. CASE file.state = "saved"
    <3>1. identity = file.keys.identity
      BY <2>1 DEF Decided, Upgraded, Later, ChosenIdentity, Typed, TypeOK, Legacy, Absent
    <3>2. using' = [using EXCEPT ![c] = identity]
      BY <1>6, <2>1, <3>1 DEF ReadFile, Using, UsesIdentity, Typed, TypeOK
    <3>3. identity # none /\ using[c] = none
      BY <1>0, <1>6, <2>1, <3>1 DEF ReadFile, Using, UsesIdentity, Typed, TypeOK
    <3>4. Shared!Adopt(c)
      BY <1>2, <1>6, <2>1, <3>2, <3>3 DEF ReadFile, Shared!Adopt
    <3>. QED BY <3>4 DEF Shared!Next
  <2>2. CASE file.state # "saved"
    <3>1. using' = using
      BY <1>6, <2>2 DEF ReadFile, Using, UsesIdentity, Typed, TypeOK
    <3>. QED BY <1>2, <1>6, <3>1 DEF ReadFile, Shared!shared
  <2>. QED BY <2>1, <2>2
<1>7. ASSUME NEW c \in Clients, OpenFile(c) PROVE [Shared!Next]_Shared!shared
  <2>1. using' = using
    BY <1>7 DEF OpenFile, Using, UsesIdentity, Typed, TypeOK
  <2>2. identity' = identity
    <3>1. CASE found.state # "legacy" /\ MayOpen(c)
      BY <1>1, <1>7, <3>1 DEF OpenFile, ChosenIdentity, Decided, Partial
    <3>2. CASE ~MayOpen(c)
      BY <1>2, <1>7, <3>2 DEF OpenFile
    <3>. QED BY <1>2, <3>1, <3>2
  <2>. QED BY <1>7, <2>1, <2>2 DEF OpenFile, Shared!shared
<1>8. ASSUME NEW c \in Clients, WriteFile(c) PROVE [Shared!Next]_Shared!shared
  <2>. DEFINE i == held[c].identity
  <2>1. i \in 1 .. MaxGenerations
    BY <1>8, IdentityAssumption, SMT DEF WriteFile, Typed, TypeOK, HasBothKeys, Keys
  <2>2. using' = [using EXCEPT ![c] = i] /\ using[c] = none
    BY <1>8 DEF WriteFile, Using, UsesIdentity, Typed, TypeOK
  <2>3. CASE found.state = "legacy"
    <3>1. identity = i /\ identity # none /\ identity' = identity
      BY <1>0, <1>2, <1>8, <2>3
         DEF WriteFile, Decided, Upgraded, Later, ChosenIdentity, Typed, TypeOK, Legacy, Absent
    <3>2. Shared!Adopt(c)
      BY <1>8, <2>2, <3>1 DEF WriteFile, Shared!Adopt
    <3>. QED BY <3>2 DEF Shared!Next
  <2>4. CASE found.state # "legacy"
    <3>1. identity = none
      BY <1>8, <2>4 DEF WriteFile, Decided, ChosenIdentity, Partial
    <3>2. identity' = i
      BY <1>1, <1>8, <2>4 DEF WriteFile, ChosenIdentity, Saved
    <3>3. Shared!Choose(c, i)
      BY <1>8, <2>2, <3>1, <3>2 DEF WriteFile, Shared!Choose
    <3>. QED BY <2>1, <3>3 DEF Shared!Next
  <2>. QED BY <2>3, <2>4
<1>9. ASSUME NEW c \in Clients, Register(c) PROVE [Shared!Next]_Shared!shared
  <2>1. using' = using /\ using[c] = held[c].identity
    BY <1>9 DEF Register, HasIdentity, Using, UsesIdentity, Typed, TypeOK
  <2>2. using[c] # none
    BY <1>0, <1>3, <1>9, <2>1 DEF Register, HasIdentity, UsesIdentity
  <2>3. requested' = requested \cup {using[c]}
    BY <1>9, <2>1 DEF Register
  <2>4. Shared!Request(c)
    BY <1>2, <1>9, <2>1, <2>2, <2>3 DEF Register, Shared!Request
  <2>. QED BY <2>4 DEF Shared!Next
<1>10. ASSUME NEW c \in Clients, Exit(c) PROVE [Shared!Next]_Shared!shared
  <2>1. CASE UsesIdentity(c)
    <3>1. using' = [using EXCEPT ![c] = none]
      BY <1>10 DEF Exit, Using, UsesIdentity, Typed, TypeOK
    <3>2. using[c] # none
      BY <1>0, <1>3, <2>1 DEF Using
    <3>3. Shared!Leave(c)
      BY <1>2, <1>10, <3>1, <3>2 DEF Exit, Shared!Leave
    <3>. QED BY <3>3 DEF Shared!Next
  <2>2. CASE ~UsesIdentity(c)
    <3>1. using' = using
      BY <1>10, <2>2 DEF Exit, Using, UsesIdentity, Typed, TypeOK
    <3>. QED BY <1>2, <1>10, <3>1 DEF Exit, Shared!shared
  <2>. QED BY <2>1, <2>2
<1>11. ASSUME NEW keys \in requests, Upsert(keys) PROVE [Shared!Next]_Shared!shared
  <2>. DEFINE i == keys.identity
  <2>1. i \in requested /\ published' = i
    BY <1>11 DEF Upsert
  <2>2. requested' \in {requested, requested \ {i}}
    BY <1>11 DEF Upsert
  <2>3. i \in 1 .. MaxGenerations
    <3>1. keys \in Keys /\ i # 0
      BY DEF Decided, Upgraded, Later, FileIsPublished, Saved, Typed, TypeOK
    <3>. QED BY <3>1, IdentityAssumption, SMT DEF Keys
  <2>4. using' = using /\ identity' = identity
    BY <1>2, <1>4, <1>11 DEF Upsert
  <2>5. Shared!Publish(i)
    BY <2>1, <2>2, <2>4 DEF Shared!Publish
  <2>. QED BY <2>3, <2>5 DEF Shared!Next
<1>12. CASE UNCHANGED vars
  BY <1>2, <1>4, <1>12 DEF vars, Shared!shared
<1>. QED BY <1>5, <1>6, <1>7, <1>8, <1>9, <1>10, <1>11, <1>12 DEF Next, Client

\* On unix, and everywhere for a user who runs one client at a time, all runs of
\* a user's client share one identity that never changes and is the only one
\* that is ever published, with or without an old file.
THEOREM IdentityIsShared ==
  ASSUME Unix \/ ~ClientsOverlap
  PROVE  Spec => ImplementsSharedIdentity
BY FileHasDecided, SharedInit, SharedStep, TypedCorrect, PTL
   DEF Spec, ImplementsSharedIdentity, Shared!Spec

==============================================================================
