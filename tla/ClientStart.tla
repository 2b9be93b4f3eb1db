----------------------------- MODULE ClientStart -----------------------------
(***************************************************************************)
(* What the user types before a client runs: the command line, argument by *)
(* argument, and the address of the server.  main reads both (Startup)     *)
(* before it turns to the identity file (Identity).                        *)
(***************************************************************************)
EXTENDS Identity, Startup

CONSTANTS
  Texts,       \* what the user may write for a name or a server
  MaxItems,    \* bound: options with their values, and plain arguments
  Hosts,       \* hosts of relays
  LocalHosts,  \* those that are this machine
  Paths,       \* paths of relays, behind a proxy
  MaxSlashes,  \* bound: slashes after an address
  UserNames    \* names the user may choose, valid or not

ASSUME ClientStartAssumption ==
  /\ None \notin Texts
  /\ MaxItems \in Nat
  /\ Hosts \subseteq STRING \ {"/"}
  /\ LocalHosts \subseteq Hosts
  /\ \A path \in Paths :
       /\ path \in Seq(STRING)
       /\ path # <<>> => Last(path) # "/"
  /\ MaxSlashes \in Nat
  /\ UserNames \subseteq Seq(AnyChar)

VARIABLES
  given,    \* history: the command line, its texts by what they are for
  reading,  \* the locals of read_args
  address,  \* the address the user gives a client
  name      \* the user name, of the user or of a contact

startVars == <<given, reading, address, name>>

NothingGiven == [name |-> <<>>, server |-> <<>>, plain |-> <<>>, stop |-> <<>>]
Given == Len(given.name) + Len(given.server) + Len(given.plain) + Len(given.stop)

\* A value may look like an option; a plain argument may not.
Written(kind) ==
  CASE kind = "plain" -> Texts \ Options
    [] kind = "stop" -> {"-h", "-x"}
    [] OTHER -> Texts

Addresses == [scheme : DOMAIN HttpScheme, host : Hosts, path : Paths,
              slashes : 0 .. MaxSlashes, securePage : BOOLEAN]
NoAddress == [scheme |-> None]

NoUserName == <<>>

StartInit ==
  /\ Init
  /\ given = NothingGiven
  /\ reading = Unread
  /\ address = NoAddress
  /\ name = NoUserName

Idle == given = NothingGiven /\ address = NoAddress /\ name = NoUserName
NothingRan == generations = file.keys.identity /\ \A c \in Clients : at[c] = "off"

\* The loop of read_args takes an option with its value, or one argument.
Flag == [kind \in {"name", "server"} |-> IF kind = "name" THEN "-u" ELSE "-s"]

Type(kind, text) ==
  /\ NothingRan
  /\ address = NoAddress
  /\ name = NoUserName
  /\ Given < MaxItems
  /\ given' = [given EXCEPT ![kind] = Append(@, text)]
  /\ \/ /\ kind \in DOMAIN Flag
        /\ reading' = ReadArg(ReadArg(reading, Flag[kind]), text)
     \/ /\ kind \notin DOMAIN Flag
        /\ reading' = ReadArg(reading, text)
  /\ UNCHANGED <<vars, address, name>>

Give(a) ==
  /\ NothingRan
  /\ Idle
  /\ address' = a
  /\ UNCHANGED <<vars, given, reading, name>>

NameUser(n) ==
  /\ NothingRan
  /\ Idle
  /\ name' = n
  /\ UNCHANGED <<vars, given, reading, address>>

\* The client has read what was typed, and goes on or ends.
Enter ==
  /\ ~Idle
  /\ given' = NothingGiven
  /\ reading' = Unread
  /\ address' = NoAddress
  /\ name' = NoUserName
  /\ UNCHANGED vars

Run == Idle /\ Next /\ UNCHANGED startVars

StartNext ==
  \/ \E kind \in DOMAIN NothingGiven : \E text \in Written(kind) : Type(kind, text)
  \/ \E a \in Addresses : Give(a)
  \/ \E n \in UserNames : NameUser(n)
  \/ Enter
  \/ Run

StartSpec == StartInit /\ [][StartNext]_<<vars, startVars>>

------------------------------------------------------------------------------
\* However options and plain arguments are mixed, the last value of an option
\* counts, the plain arguments are the name and the server as far as no option
\* gives them, and no plain argument is ignored, except after -h; an
\* option that is unknown or lacks its value ends the client (main.rs:338-386).
ArgumentsRead ==
  LET named == given.name # <<>>
      served == given.server # <<>>
      skip == IF named THEN 0 ELSE 1
      used == skip + (IF served THEN 0 ELSE 1)
      meant == [name |-> IF named THEN Last(given.name) ELSE given.plain[1],
                server |-> IF served THEN Last(given.server)
                           ELSE IF Len(given.plain) > skip THEN given.plain[skip + 1]
                           ELSE None]
  IN
  IF given.stop # <<>>
  THEN ReadArgs(reading) =
         Result(IF Head(given.stop) = "-h" THEN "help" ELSE "error", None, None)
  ELSE
  /\ ReadArgs(reading) =
       IF (~named /\ given.plain = <<>>) \/ Len(given.plain) > used
       THEN Result("error", None, None)
       ELSE Result("run", meant.name, meant.server)
  /\ \A flag \in {"-u", "-s"} :
       ReadArgs(ReadArg(reading, flag)) = Result("error", None, None)

\* The address that the server prints when it starts, ws://address/ws
\* (server/src/main.rs:84), leads the client to the same endpoints as the http
\* URL of the address, also with slashes after it or a path before it, and so
\* does the http endpoint itself when it is given as the server.
Slashes(n) == [i \in 1 .. n |-> "/"]
Place(a) == <<a.host>> \o a.path
Hint(a) == Url(a.scheme, Place(a) \o <<"/", "ws">> \o Slashes(a.slashes))

HintConnects ==
  address # NoAddress /\ address.scheme \in {"ws:", "wss:"} =>
    LET http == Url(HttpScheme[address.scheme], Place(address))
        websocket == Url(address.scheme, Place(address))
        endpoints == [http |-> http, websocket |-> websocket]
    IN FromOptionalArg(Hint(address)) = endpoints /\ FromOptionalArg(http) = endpoints

\* The browser and the command line reach the same endpoints from one http or
\* https URL that ends in one slash at most, unless the page may not use it.
ClientsAgree ==
  address # NoAddress /\ address.scheme \in {"http:", "https:"} /\ address.slashes < 2 =>
    LET path == address.path \o Slashes(address.slashes)
        blocked == Blocked(address.scheme, address.host \in LocalHosts, address.securePage)
    IN MakeRelayConfig(address.scheme, address.host, path, blocked) =
         IF blocked THEN NoEndpoints
         ELSE FromOptionalArg(Url(address.scheme, <<address.host>> \o path))

\* Every request about a valid name reaches the relay's handler of that name, from
\* both clients, except for the names . and .., which a URL parser resolves: a
\* user of that name can register and connect from the command line, but nobody
\* finds the key, and the page never connects (lib.rs:107, main.rs:71-72).
NamesRouted == IsValidUsername(name) =>
  /\ Routed(Path(WebSocketPath, name)) = {name}
  /\ \A request \in {WebSocketPath, PublicKeyPath} :
       Routed(Resolved(request, name)) = IF name \in Dots THEN {} ELSE {name}

==============================================================================
