------------------------------- MODULE Startup -------------------------------
(***************************************************************************)
(* How the clients read what the user tells them: the command line         *)
(* (read_args of client/src/main.rs), the server URL of the command-line   *)
(* client (client/src/server_api.rs) and that of the browser client        *)
(* (docs/app.js), and user names with the requests that name them.         *)
(*                                                                         *)
(* The text of a URL is a sequence of tokens: a scheme with its colon,     *)
(* single slashes, and names between them; a user name is a sequence of    *)
(* characters.  Long and short options are one token.                      *)
(***************************************************************************)
EXTENDS Naturals, Sequences, SequencesExt

None == "none"

------------------------------------------------------------------------------
(* The command line: the locals of read_args and one round of its loop. *)

\* Help, the name and the server, and any other text that starts with a dash.
Options == {"-h", "-u", "-s", "-x"}

Unread == [outcome |-> "reading", needs |-> None, name |-> None, server |-> None,
           positional |-> <<>>]

\* The value of an option is the next argument, whatever it looks like.
FirstValue(state, arg) ==                      \* a repeated option is ignored
  IF state.needs = "name"
  THEN [state EXCEPT !.name = IF @ = None THEN arg ELSE @, !.needs = None]
  ELSE [state EXCEPT !.server = arg, !.needs = None]
LastValue(state, arg) ==
  IF state.needs = "name"
  THEN [state EXCEPT !.name = arg, !.needs = None]
  ELSE [state EXCEPT !.server = arg, !.needs = None]

ReadArg(state, arg) ==
  IF state.outcome # "reading" THEN state
  ELSE IF state.needs # None THEN LastValue(state, arg)
  ELSE CASE arg = "-h" -> [state EXCEPT !.outcome = "help"]
         [] arg = "-u" -> [state EXCEPT !.needs = "name"]
         [] arg = "-s" -> [state EXCEPT !.needs = "server"]
         [] arg = "-x" -> [state EXCEPT !.outcome = "error"]
         [] OTHER -> [state EXCEPT !.positional = Append(@, arg)]

\* Arguments without an option fill what the options left open, in order.
FillName(state) ==
  IF state.name = None /\ state.positional # <<>>
  THEN [state EXCEPT !.name = Head(state.positional), !.positional = Tail(@)]
  ELSE state
FillServer(state) ==
  IF state.server = None /\ state.positional # <<>>
  THEN [state EXCEPT !.server = Head(state.positional), !.positional = Tail(@)]
  ELSE state

Result(outcome, name, server) == [outcome |-> outcome, name |-> name, server |-> server]

\* What read_args returns when the arguments end in this state.
ReadArgs(state) ==
  LET filled == FillServer(FillName(state))
  IN IF state.outcome = "help" THEN Result("help", None, None)
     ELSE IF \/ state.outcome = "error" \/ state.needs # None
             \/ filled.positional # <<>> \/ filled.name = None
     THEN Result("error", None, None)
     ELSE Result("run", filled.name, filled.server)

------------------------------------------------------------------------------
(* The server URL. *)

Url(scheme, rest) == <<scheme, "/", "/">> \o rest
HasScheme(text) == Len(text) >= 3 /\ text[2] = "/" /\ text[3] = "/"

\* trim_end_matches('/')
Untrimmed(text) == text
Trimmed(text) ==
  CHOOSE kept \in {SubSeq(text, 1, n) : n \in 0 .. Len(text)} :
    /\ kept # <<>> => Last(kept) # "/"
    /\ \A i \in Len(kept) + 1 .. Len(text) : text[i] = "/"

StripWs(rest) ==
  IF IsSuffix(<<"/", "ws">>, rest) THEN SubSeq(rest, 1, Len(rest) - 2) ELSE rest

HttpScheme == [s \in {"http:", "https:", "ws:", "wss:"} |->
                 IF s \in {"http:", "ws:"} THEN "http:" ELSE "https:"]
WsScheme == [s \in DOMAIN HttpScheme |-> IF HttpScheme[s] = "http:" THEN "ws:" ELSE "wss:"]

NoEndpoints == [http |-> <<>>, websocket |-> <<>>]

FromOptionalArg(raw) ==
  LET trimmed == Trimmed(raw)
      scheme == trimmed[1]
      written == SubSeq(trimmed, 4, Len(trimmed))
      rest == IF scheme \in {"ws:", "wss:"} THEN StripWs(written) ELSE written
  IN IF HasScheme(trimmed) /\ scheme \in DOMAIN HttpScheme
     THEN [http |-> Url(HttpScheme[scheme], rest), websocket |-> Url(WsScheme[scheme], rest)]
     ELSE NoEndpoints

\* makeRelayConfig: the path keeps all its slashes but the last one.
WholePath(path) == path                        \* no slash is removed
BasePath(path) == IF path # <<>> /\ Last(path) = "/" THEN Front(path) ELSE path

MakeRelayConfig(scheme, host, path, blocked) ==
  LET wsScheme == IF scheme = "https:" THEN "wss:" ELSE "ws:"
      rest == <<host>> \o BasePath(path)
  IN IF blocked THEN NoEndpoints
     ELSE [http |-> Url(scheme, rest), websocket |-> Url(wsScheme, rest)]

\* A page that was loaded over https refuses other relays than those on the
\* same machine.
Blocked(scheme, local, securePage) == securePage /\ scheme # "https:" /\ ~local

------------------------------------------------------------------------------
(* User names. *)

MaxUsernameLen == 64
AnyChar == {"a", ".", "-", "/", " "}       \* no check of the characters
NameChars == {"a", ".", "-"}               \* letters and digits, dots, - and _

IsValidUsername(name) ==
  Len(name) \in 1 .. MaxUsernameLen /\ \A i \in DOMAIN name : name[i] \in NameChars

\* What the clients write before and after a name.
WebSocketPath == [before |-> <<"/", "ws", "/">>, after |-> <<>>]
PublicKeyPath == [before |-> <<"/", "users", "/">>, after |-> <<"/", "public-key">>]
Path(request, name) == request.before \o name \o request.after

\* A URL parser takes the segment . out, and with .. the one before it; the last
\* segment leaves an empty one behind.
Dots == {<<".">>, <<".", ".">>}
Resolved(request, name) ==
  LET left == IF name = <<".">> THEN request.before ELSE <<"/">>
      right == IF request.after = <<>> THEN <<>> ELSE Tail(request.after)
  IN IF name \in Dots THEN left \o right ELSE Path(request, name)

\* The relay's routes, each with one segment for the name.
Routes == {WebSocketPath, PublicKeyPath}
Captured(path, route) == SubSeq(path, Len(route.before) + 1, Len(path) - Len(route.after))
Matches(path, route) ==
  /\ Len(path) > Len(route.before) + Len(route.after)
  /\ path = Path(route, Captured(path, route))
  /\ \A i \in DOMAIN Captured(path, route) : Captured(path, route)[i] # "/"

\* The names with which a handler is called that accepts them: one or none.
Routed(path) ==
  {name \in {Captured(path, route) : route \in {r \in Routes : Matches(path, r)}} :
     IsValidUsername(name)}

==============================================================================
