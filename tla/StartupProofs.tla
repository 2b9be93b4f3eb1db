--------------------------- MODULE StartupProofs ---------------------------
(***************************************************************************)
(* What the clients read, for every command line, address and user name.   *)
(***************************************************************************)
EXTENDS ClientStart, SequenceTheorems, TLAPS

------------------------------------------------------------------------------
(* The command line. *)

\* The last of some texts.
LastOf(texts) == IF texts = <<>> THEN None ELSE Last(texts)

\* The loop of read_args after these texts, if it has not ended.
Reading(needs, n, server, positional) ==
  [outcome |-> "reading", needs |-> needs, name |-> n, server |-> server,
   positional |-> positional]
AfterReading(texts) ==
  Reading(None, LastOf(texts.name), LastOf(texts.server), texts.plain)

GivenTyped ==
  given \in [name : Seq(Texts), server : Seq(Texts), plain : Seq(Texts \ Options),
             stop : Seq({"-h", "-x"})]
ReadsGiven ==
  /\ GivenTyped
  /\ given.stop = <<>> => reading = AfterReading(given)
  /\ given.stop # <<>> =>
       reading.outcome = IF Head(given.stop) = "-h" THEN "help" ELSE "error"

\* The last of the texts is the one that was written last.
LEMMA LastWritten ==
  ASSUME NEW S, NEW texts \in Seq(S), NEW text \in S
  PROVE  /\ Append(texts, text) \in Seq(S)
         /\ LastOf(Append(texts, text)) = text
         /\ texts # <<>> => Head(Append(texts, text)) = Head(texts)
         /\ texts = <<>> => Head(Append(texts, text)) = text
         /\ Append(texts, text) # <<>>
<1>1. /\ Append(texts, text) \in Seq(S)
      /\ Len(Append(texts, text)) = Len(texts) + 1
      /\ Append(texts, text)[Len(texts) + 1] = text
      /\ Append(texts, text) # <<>>
  OBVIOUS
<1>2. LastOf(Append(texts, text)) = text
  BY <1>1 DEF LastOf, Last
<1>3. /\ texts # <<>> => Append(texts, text)[1] = texts[1]
      /\ texts = <<>> => Append(texts, text)[1] = text
  OBVIOUS
<1>. QED BY <1>1, <1>2, <1>3

\* An option with its value replaces what an earlier one gave, a plain argument
\* is kept, and an option that ends the program ends it.
LEMMA ArgumentRead ==
  ASSUME NEW n, NEW server, NEW positional, NEW text
  PROVE  LET state == Reading(None, n, server, positional) IN
         /\ ReadArg(state, "-u") = Reading("name", n, server, positional)
         /\ ReadArg(state, "-s") = Reading("server", n, server, positional)
         /\ ReadArg(Reading("name", n, server, positional), text) =
              Reading(None, text, server, positional)
         /\ ReadArg(Reading("server", n, server, positional), text) =
              Reading(None, n, text, positional)
         /\ text \notin Options =>
              ReadArg(state, text) = Reading(None, n, server, Append(positional, text))
         /\ ReadArg(state, "-h").outcome = "help"
         /\ ReadArg(state, "-x").outcome = "error"
BY DEF ReadArg, LastValue, Reading, None, Options

\* Nothing was read at the start.
LEMMA ReadsGivenInit == StartInit => ReadsGiven
BY DEF StartInit, ReadsGiven, GivenTyped, NothingGiven, Unread, AfterReading, Reading, LastOf

\* Every round of the loop keeps the locals in step with what was typed.
LEMMA ReadsGivenTyped ==
  ASSUME ReadsGiven, NEW kind \in DOMAIN NothingGiven, NEW text \in Written(kind),
         Type(kind, text)
  PROVE  ReadsGiven'
<1>. DEFINE before == Reading(None, LastOf(given.name), LastOf(given.server), given.plain)
<1>1. given.stop # <<>> => reading.outcome \in {"help", "error"}
  BY DEF ReadsGiven, GivenTyped
<1>2. \A arg : given.stop # <<>> => ReadArg(reading, arg) = reading
  BY <1>1 DEF ReadArg
<1>3. given.stop = <<>> => reading = before
  BY DEF ReadsGiven, GivenTyped, AfterReading
<1>4. CASE kind = "name"
  <2>1. text \in Texts /\ reading' = ReadArg(ReadArg(reading, "-u"), text)
    BY <1>4 DEF Written, Type, Flag
  <2>2. given' = [given EXCEPT !.name = Append(@, text)]
    BY <1>4 DEF Type
  <2>3. given.stop = <<>> =>
          reading' = Reading(None, text, LastOf(given.server), given.plain)
    BY <1>3, <2>1, ArgumentRead
  <2>4. given.stop # <<>> => reading' = reading
    BY <1>2, <2>1
  <2>5. /\ GivenTyped'
        /\ given'.name = Append(given.name, text)
        /\ given'.server = given.server
        /\ given'.plain = given.plain
        /\ given'.stop = given.stop
    BY <2>1, <2>2, LastWritten DEF ReadsGiven, GivenTyped
  <2>6. LastOf(given'.name) = text
    BY <2>1, <2>5, LastWritten DEF ReadsGiven, GivenTyped
  <2>7. CASE given.stop = <<>>
    BY <2>3, <2>5, <2>6, <2>7 DEF ReadsGiven, GivenTyped, AfterReading
  <2>8. CASE given.stop # <<>>
    BY <2>4, <2>5, <2>8 DEF ReadsGiven, GivenTyped
  <2>. QED BY <2>7, <2>8
<1>5. CASE kind = "server"
  <2>1. text \in Texts /\ reading' = ReadArg(ReadArg(reading, "-s"), text)
    BY <1>5 DEF Written, Type, Flag
  <2>2. given' = [given EXCEPT !.server = Append(@, text)]
    BY <1>5 DEF Type
  <2>3. given.stop = <<>> =>
          reading' = Reading(None, LastOf(given.name), text, given.plain)
    BY <1>3, <2>1, ArgumentRead
  <2>4. given.stop # <<>> => reading' = reading
    BY <1>2, <2>1
  <2>5. /\ GivenTyped'
        /\ given'.server = Append(given.server, text)
        /\ given'.name = given.name
        /\ given'.plain = given.plain
        /\ given'.stop = given.stop
    BY <2>1, <2>2, LastWritten DEF ReadsGiven, GivenTyped
  <2>6. LastOf(given'.server) = text
    BY <2>1, <2>5, LastWritten DEF ReadsGiven, GivenTyped
  <2>7. CASE given.stop = <<>>
    BY <2>3, <2>5, <2>6, <2>7 DEF ReadsGiven, GivenTyped, AfterReading
  <2>8. CASE given.stop # <<>>
    BY <2>4, <2>5, <2>8 DEF ReadsGiven, GivenTyped
  <2>. QED BY <2>7, <2>8
<1>6. CASE kind = "plain"
  <2>1. text \in Texts \ Options /\ reading' = ReadArg(reading, text)
    BY <1>6 DEF Written, Type, Flag
  <2>2. given' = [given EXCEPT !.plain = Append(@, text)]
    BY <1>6 DEF Type
  <2>3. given.stop = <<>> =>
          reading' = Reading(None, LastOf(given.name), LastOf(given.server),
                             Append(given.plain, text))
    BY <1>3, <2>1, ArgumentRead
  <2>4. given.stop # <<>> => reading' = reading
    BY <1>2, <2>1
  <2>5. /\ GivenTyped'
        /\ given'.plain = Append(given.plain, text)
        /\ given'.name = given.name
        /\ given'.server = given.server
        /\ given'.stop = given.stop
    BY <2>1, <2>2, LastWritten DEF ReadsGiven, GivenTyped
  <2>7. CASE given.stop = <<>>
    BY <2>3, <2>5, <2>7 DEF ReadsGiven, GivenTyped, AfterReading
  <2>8. CASE given.stop # <<>>
    BY <2>4, <2>5, <2>8 DEF ReadsGiven, GivenTyped
  <2>. QED BY <2>7, <2>8
<1>7. CASE kind = "stop"
  <2>1. text \in {"-h", "-x"} /\ reading' = ReadArg(reading, text)
    BY <1>7 DEF Written, Type, Flag
  <2>2. given' = [given EXCEPT !.stop = Append(@, text)]
    BY <1>7 DEF Type
  <2>3. given.stop = <<>> =>
          reading'.outcome = IF text = "-h" THEN "help" ELSE "error"
    BY <1>3, <2>1, ArgumentRead
  <2>4. given.stop # <<>> => reading' = reading
    BY <1>2, <2>1
  <2>5. /\ GivenTyped'
        /\ given'.stop = Append(given.stop, text)
        /\ given'.name = given.name
        /\ given'.server = given.server
        /\ given'.plain = given.plain
    BY <2>1, <2>2, LastWritten DEF ReadsGiven, GivenTyped
  <2>6. /\ given.stop # <<>> => Head(given'.stop) = Head(given.stop)
        /\ given.stop = <<>> => Head(given'.stop) = text
        /\ given'.stop # <<>>
    BY <2>1, <2>5, LastWritten DEF ReadsGiven, GivenTyped
  <2>7. CASE given.stop = <<>>
    BY <2>3, <2>5, <2>6, <2>7 DEF ReadsGiven, GivenTyped
  <2>8. CASE given.stop # <<>>
    BY <2>4, <2>5, <2>6, <2>8 DEF ReadsGiven, GivenTyped
  <2>. QED BY <2>7, <2>8
<1>. QED BY <1>4, <1>5, <1>6, <1>7 DEF NothingGiven

\* Nothing else changes what was typed, but for the end of read_args.
LEMMA ReadsGivenStep == ReadsGiven /\ [StartNext]_<<vars, startVars>> => ReadsGiven'
<1>. SUFFICES ASSUME ReadsGiven, [StartNext]_<<vars, startVars>> PROVE ReadsGiven'
  OBVIOUS
<1>1. ASSUME UNCHANGED <<given, reading>> PROVE ReadsGiven'
  BY <1>1 DEF ReadsGiven, GivenTyped
<1>2. CASE Enter
  <2>1. given' = NothingGiven /\ reading' = Unread
    BY <1>2 DEF Enter
  <2>. QED BY <2>1 DEF ReadsGiven, GivenTyped, NothingGiven, Unread, AfterReading, Reading, LastOf
<1>. QED BY <1>1, <1>2, ReadsGivenTyped DEF StartNext, Give, NameUser, Run, startVars

LEMMA ReadsGivenCorrect == StartSpec => []ReadsGiven
BY ReadsGivenInit, ReadsGivenStep, PTL DEF StartSpec

\* What fills the places that the options left open.
LEMMA Filled ==
  ASSUME NEW n, NEW server, NEW positional
  PROVE  LET state == Reading(None, n, server, positional) IN
         /\ n = None /\ positional # <<>> =>
              FillName(state) = Reading(None, Head(positional), server, Tail(positional))
         /\ n # None \/ positional = <<>> => FillName(state) = state
         /\ server = None /\ positional # <<>> =>
              FillServer(state) = Reading(None, n, Head(positional), Tail(positional))
         /\ server # None \/ positional = <<>> => FillServer(state) = state
BY DEF FillName, FillServer, Reading

\* What is left of some texts without the first.
LEMMA Rest ==
  ASSUME NEW S, NEW texts \in Seq(S), texts # <<>>
  PROVE  /\ Len(texts) \in Nat \ {0}
         /\ Tail(texts) \in Seq(S)
         /\ Len(Tail(texts)) = Len(texts) - 1
         /\ Head(texts) = texts[1] /\ texts[1] \in S
         /\ Last(texts) \in S
         /\ Tail(texts) = <<>> <=> Len(texts) = 1
         /\ Len(texts) > 1 => Head(Tail(texts)) = texts[2] /\ texts[2] \in S
<1>1. Len(texts) \in Nat \ {0}
  BY EmptySeq
<1>2. Tail(texts) \in Seq(S) /\ Len(Tail(texts)) = Len(texts) - 1
  BY <1>1, HeadTailProperties
<1>3. Tail(texts) = <<>> <=> Len(texts) = 1
  <2>1. Tail(texts) = <<>> <=> Len(Tail(texts)) = 0
    BY <1>2, EmptySeq
  <2>. QED BY <1>1, <1>2, <2>1
<1>4. Len(texts) > 1 => Tail(texts)[1] = texts[2]
  BY <1>1, HeadTailProperties
<1>5. \A i \in 1 .. Len(texts) : texts[i] \in S
  OBVIOUS
<1>. QED BY <1>1, <1>2, <1>3, <1>4, <1>5 DEF Last

\* What read_args returns after the plain arguments and the options.
LEMMA ReturnedWhenRun ==
  ASSUME NEW n \in Texts \cup {None}, NEW server \in Texts \cup {None},
         NEW plain \in Seq(Texts \ Options)
  PROVE  LET skip == IF n # None THEN 0 ELSE 1
             used == skip + (IF server # None THEN 0 ELSE 1)
         IN ReadArgs(Reading(None, n, server, plain)) =
              IF (n = None /\ plain = <<>>) \/ Len(plain) > used
              THEN Result("error", None, None)
              ELSE Result("run", IF n # None THEN n ELSE plain[1],
                          IF server # None THEN server
                          ELSE IF Len(plain) > skip THEN plain[skip + 1] ELSE None)
<1>. DEFINE state == Reading(None, n, server, plain)
            filled == FillServer(FillName(state))
            skip == IF n # None THEN 0 ELSE 1
            used == skip + (IF server # None THEN 0 ELSE 1)
<1>1. Len(plain) \in Nat /\ (plain = <<>> <=> Len(plain) = 0)
  BY EmptySeq
<1>2. None \notin Texts
  BY ClientStartAssumption
<1>3. ASSUME NEW a, NEW b, NEW c, filled = Reading(None, a, b, c)
      PROVE  ReadArgs(state) = IF c # <<>> \/ a = None THEN Result("error", None, None)
                               ELSE Result("run", a, b)
  <2>1. state.outcome = "reading" /\ state.needs = None
    BY DEF Reading
  <2>2. filled.positional = c /\ filled.name = a /\ filled.server = b
    BY <1>3 DEF Reading
  <2>. HIDE DEF state
  <2>. QED BY <2>1, <2>2 DEF ReadArgs
<1>. HIDE DEF state
<1>. SUFFICES ReadArgs(state) =
                IF (n = None /\ plain = <<>>) \/ Len(plain) > used
                THEN Result("error", None, None)
                ELSE Result("run", IF n # None THEN n ELSE plain[1],
                            IF server # None THEN server
                            ELSE IF Len(plain) > skip THEN plain[skip + 1] ELSE None)
  BY DEF state
<1>4. CASE n # None /\ server # None
  <2>1. filled = Reading(None, n, server, plain)
    BY <1>4, Filled DEF state
  <2>2. ReadArgs(state) = IF plain # <<>> THEN Result("error", None, None)
                          ELSE Result("run", n, server)
    BY <1>3, <1>4, <2>1
  <2>. QED BY <1>1, <1>4, <2>2
<1>5. CASE n # None /\ server = None /\ plain = <<>>
  <2>1. filled = Reading(None, n, None, <<>>)
    BY <1>5, Filled DEF state
  <2>2. ReadArgs(state) = Result("run", n, None)
    BY <1>3, <1>5, <2>1
  <2>. QED BY <1>1, <1>5, <2>2
<1>. DEFINE first == plain[1]
            rest == Tail(plain)
<1>6. CASE n # None /\ server = None /\ plain # <<>>
  <2>1. Head(plain) = first /\ Len(plain) > 0 /\ (rest = <<>> <=> Len(plain) = 1)
    BY <1>1, <1>6, Rest
  <2>. HIDE DEF rest, first
  <2>2. filled = Reading(None, n, first, rest)
    BY <1>6, <2>1, Filled DEF state, rest
  <2>3. ReadArgs(state) = IF rest # <<>> THEN Result("error", None, None)
                          ELSE Result("run", n, first)
    BY <1>3, <1>6, <2>2
  <2>. HIDE DEF state
  <2>4. skip = 0 /\ used = 1
    BY <1>6
  <2>. HIDE DEF skip, used
  <2>5. PICK length \in Nat : length = Len(plain)
    BY <1>1
  <2>6. skip + 1 = 1 /\ length > skip /\ (length > used <=> length # 1)
    BY <2>1, <2>4, <2>5 DEF rest
  <2>. QED BY <1>6, <2>1, <2>3, <2>5, <2>6 DEF first
<1>7. CASE n = None /\ plain = <<>>
  <2>1. filled = Reading(None, None, server, <<>>)
    BY <1>7, Filled DEF state
  <2>2. ReadArgs(state) = Result("error", None, None)
    BY <1>3, <2>1
  <2>. QED BY <1>7, <2>2
<1>8. CASE n = None /\ plain # <<>>
  <2>1. /\ Head(plain) = first /\ first # None /\ Len(plain) > 0
        /\ rest = <<>> <=> Len(plain) = 1
        /\ rest \in Seq(Texts \ Options)
        /\ Len(plain) > 1 => Head(rest) = plain[2]
        /\ Len(rest) = Len(plain) - 1
    BY <1>1, <1>2, <1>8, Rest
  <2>2. FillName(state) = Reading(None, first, server, rest)
    BY <1>8, <2>1, Filled DEF state
  <2>. HIDE DEF rest, first
  <2>3. CASE server # None
    <3>1. filled = Reading(None, first, server, rest)
      BY <2>2, <2>3, Filled
    <3>2. ReadArgs(state) = IF rest # <<>> THEN Result("error", None, None)
                            ELSE Result("run", first, server)
      BY <1>3, <2>1, <3>1
    <3>3. Len(plain) > used <=> rest # <<>>
      BY <1>1, <1>8, <2>1, <2>3
    <3>. QED BY <1>8, <2>3, <3>2, <3>3 DEF first
  <2>4. CASE server = None /\ rest = <<>>
    <3>1. filled = Reading(None, first, None, <<>>)
      <4>1. FillServer(Reading(None, first, None, <<>>)) = Reading(None, first, None, <<>>)
        BY Filled
      <4>. QED BY <2>2, <2>4, <4>1
    <3>2. ReadArgs(state) = Result("run", first, None)
      BY <1>3, <2>1, <3>1
    <3>3. ~(Len(plain) > used) /\ ~(Len(plain) > skip)
      <4>1. skip = 1 /\ used = 2
        BY <1>8, <2>4
      <4>. HIDE DEF skip, used
      <4>2. PICK length \in Nat : length = Len(plain)
        BY <1>1
      <4>3. ~(length > used) /\ ~(length > skip)
        BY <2>1, <2>4, <4>1, <4>2
      <4>. QED BY <4>2, <4>3
    <3>. QED BY <1>8, <2>4, <3>2, <3>3 DEF first
  <2>5. CASE server = None /\ rest # <<>>
    <3>1. /\ Len(plain) > skip /\ Head(rest) = plain[skip + 1]
          /\ Len(plain) > used <=> Len(rest) # 1
      BY <1>1, <1>8, <2>1, <2>5
    <3>. DEFINE second == Head(rest)
                end == Tail(rest)
    <3>2. FillServer(Reading(None, first, None, rest)) = Reading(None, first, second, end)
      BY <2>5, Filled
    <3>3. end = <<>> <=> Len(rest) = 1
      BY <2>1, <2>5, Rest
    <3>. HIDE DEF second, end
    <3>4. ReadArgs(state) = IF end # <<>> THEN Result("error", None, None)
                            ELSE Result("run", first, second)
      BY <1>3, <2>1, <2>2, <2>5, <3>2
    <3>. QED BY <1>8, <2>5, <3>1, <3>3, <3>4 DEF first, second
  <2>. QED BY <2>3, <2>4, <2>5
<1>. QED BY <1>4, <1>5, <1>6, <1>7, <1>8

\* What read_args returns in every state that the loop can be in.
LEMMA Returned == ReadsGiven => ArgumentsRead
<1>. SUFFICES ASSUME ReadsGiven PROVE ArgumentsRead
  OBVIOUS
<1>1. CASE given.stop # <<>>
  BY <1>1 DEF ReadsGiven, GivenTyped, ArgumentsRead, ReadArgs, Result
<1>2. CASE given.stop = <<>>
  <2>1. /\ given.name \in Seq(Texts) /\ given.server \in Seq(Texts)
        /\ given.plain \in Seq(Texts \ Options)
        /\ reading = AfterReading(given)
    BY <1>2 DEF ReadsGiven, GivenTyped
  <2>2. ASSUME NEW texts \in Seq(Texts)
        PROVE  /\ LastOf(texts) \in Texts \cup {None}
               /\ texts # <<>> <=> LastOf(texts) # None
               /\ texts # <<>> => LastOf(texts) = Last(texts)
    BY Rest, ClientStartAssumption DEF LastOf
  <2>. DEFINE n == LastOf(given.name)
              server == LastOf(given.server)
  <2>3. \A flag \in {"-u", "-s"} :
          ReadArgs(ReadArg(reading, flag)) = Result("error", None, None)
    <3>1. \A flag \in {"-u", "-s"} :
            \E needs \in {"name", "server"} :
              ReadArg(reading, flag) = Reading(needs, n, server, given.plain)
      BY <2>1, ArgumentRead DEF AfterReading
    <3>2. \A needs \in {"name", "server"} :
            LET state == Reading(needs, n, server, given.plain) IN
            state.outcome = "reading" /\ state.needs # None
      BY DEF Reading, None
    <3>. QED BY <3>1, <3>2 DEF ReadArgs
  <2>4. /\ n \in Texts \cup {None} /\ server \in Texts \cup {None}
        /\ given.name # <<>> <=> n # None
        /\ given.name # <<>> => n = Last(given.name)
        /\ given.server # <<>> <=> server # None
        /\ given.server # <<>> => server = Last(given.server)
    BY <2>1, <2>2
  <2>. HIDE DEF n, server
  <2>5. reading = Reading(None, n, server, given.plain)
    BY <2>1 DEF AfterReading, n, server
  <2>. DEFINE plain == given.plain
  <2>6. plain \in Seq(Texts \ Options)
    BY <2>1
  <2>. HIDE DEF plain
  <2>7. LET skip == IF n # None THEN 0 ELSE 1
            used == skip + (IF server # None THEN 0 ELSE 1)
        IN ReadArgs(Reading(None, n, server, plain)) =
             IF (n = None /\ plain = <<>>) \/ Len(plain) > used
             THEN Result("error", None, None)
             ELSE Result("run", IF n # None THEN n ELSE plain[1],
                         IF server # None THEN server
                         ELSE IF Len(plain) > skip THEN plain[skip + 1] ELSE None)
    BY <2>4, <2>6, ReturnedWhenRun
  <2>. QED BY <1>2, <2>3, <2>4, <2>5, <2>7 DEF ArgumentsRead, plain
<1>. QED BY <1>1, <1>2

\* However options and plain arguments are mixed on the command line, read_args
\* ignores nothing that was written, except after -h.
THEOREM ArgumentsReadCorrect == StartSpec => []ArgumentsRead
BY ReadsGivenCorrect, Returned, PTL

------------------------------------------------------------------------------
(* Addresses. *)

\* What the texts of addresses and requests consist of.
Tokens == STRING \cup {"/", "ws", "users", "public-key"} \cup DOMAIN HttpScheme \cup AnyChar

\* One text after another.
LEMMA Joined ==
  ASSUME NEW s \in Seq(Tokens), NEW t \in Seq(Tokens)
  PROVE  /\ s \o t \in Seq(Tokens)
         /\ Len(s \o t) = Len(s) + Len(t)
         /\ \A i \in 1 .. Len(s) : (s \o t)[i] = s[i]
         /\ \A i \in 1 .. Len(t) : (s \o t)[Len(s) + i] = t[i]
<1>1. /\ s \o t \in Seq(Tokens)
      /\ Len(s \o t) = Len(s) + Len(t)
      /\ \A i \in 1 .. Len(s) + Len(t) :
           (s \o t)[i] = IF i <= Len(s) THEN s[i] ELSE t[i - Len(s)]
  BY ConcatProperties
<1>. DEFINE m == Len(s)
            n == Len(t)
            whole == s \o t
<1>2. m \in Nat /\ n \in Nat
  OBVIOUS
<1>. HIDE DEF m, n, whole
<1>3. \A i \in 1 .. m : i \in 1 .. m + n /\ i <= m
  BY <1>2
<1>4. \A i \in 1 .. m + n : whole[i] = IF i <= m THEN s[i] ELSE t[i - m]
  BY <1>1 DEF m, n, whole
<1>5. \A i \in 1 .. m : whole[i] = s[i]
  BY <1>3, <1>4
<1>6. ASSUME NEW i \in 1 .. n PROVE whole[m + i] = t[i]
  <2>. DEFINE j == m + i
  <2>1. j \in 1 .. m + n /\ ~(j <= m) /\ j - m = i
    BY <1>2
  <2>. HIDE DEF j
  <2>2. whole[j] = t[i]
    BY <1>4, <2>1
  <2>. QED BY <2>2 DEF j
<1>. QED BY <1>1, <1>5, <1>6 DEF m, n, whole

\* Some slashes are a text.
LEMMA SlashesWritten ==
  ASSUME NEW n \in Nat
  PROVE  /\ Slashes(n) \in Seq(Tokens)
         /\ Len(Slashes(n)) = n
         /\ \A i \in 1 .. n : Slashes(n)[i] = "/"
<1>1. Slashes(n) \in [1 .. n -> Tokens]
  BY DEF Slashes, Tokens
<1>2. Slashes(n) \in Seq(Tokens)
  BY <1>1, SeqDef
<1>. QED BY <1>1, <1>2 DEF Slashes

\* The slashes after a text are trimmed, all of them and nothing else.
LEMMA TrimmedSlashes ==
  ASSUME NEW text \in Seq(Tokens), text # <<>>, Last(text) # "/", NEW n \in Nat
  PROVE  Trimmed(text \o Slashes(n)) = text
<1>. DEFINE whole == text \o Slashes(n)
            Kept(k) == SubSeq(whole, 1, k)
            Ends(kept) == /\ kept # <<>> => Last(kept) # "/"
                          /\ \A i \in Len(kept) + 1 .. Len(whole) : whole[i] = "/"
<1>1. PICK length \in Nat \ {0} : length = Len(text)
  BY EmptySeq
<1>2. /\ whole \in Seq(Tokens) /\ Len(whole) = length + n
      /\ \A i \in 1 .. length : whole[i] = text[i]
      /\ \A i \in length + 1 .. length + n : whole[i] = "/"
  <2>1. /\ whole \in Seq(Tokens) /\ Len(whole) = length + n
        /\ \A i \in 1 .. length : whole[i] = text[i]
        /\ \A i \in 1 .. n : whole[length + i] = Slashes(n)[i]
    <3>1. length \in Nat /\ Len(text) = length
      BY <1>1
    <3>2. Slashes(n) \in Seq(Tokens) /\ Len(Slashes(n)) = n
      BY SlashesWritten
    <3>3. /\ whole \in Seq(Tokens) /\ Len(whole) = Len(text) + Len(Slashes(n))
          /\ \A i \in 1 .. Len(text) : whole[i] = text[i]
          /\ \A i \in 1 .. Len(Slashes(n)) : whole[Len(text) + i] = Slashes(n)[i]
      BY <3>2, Joined
    <3>. HIDE DEF whole
    <3>. QED BY <3>1, <3>2, <3>3
  <2>. HIDE DEF whole
  <2>2. \A i \in length + 1 .. length + n :
          i - length \in 1 .. n /\ length + (i - length) = i
    BY <1>1
  <2>. QED BY <2>1, <2>2, SlashesWritten
<1>3. \A k \in 0 .. length + n :
        /\ Kept(k) \in Seq(Tokens) /\ Len(Kept(k)) = k
        /\ \A i \in 1 .. k : Kept(k)[i] = whole[i]
  BY <1>1, <1>2, SubSeqProperties
<1>. HIDE DEF whole
<1>4. Kept(length) = text
  BY <1>1, <1>2, <1>3, SeqEqual
<1>5. Ends(text)
  BY <1>1, <1>2
<1>6. ASSUME NEW k \in 0 .. length + n, Ends(Kept(k))
      PROVE  k = length
  <2>. HIDE DEF Kept
  <2>1. CASE k < length
    <3>1. whole[length] = "/"
      BY <1>1, <1>2, <1>3, <1>6, <2>1
    <3>. QED BY <1>1, <1>2, <3>1 DEF Last
  <2>2. CASE k > length
    <3>1. whole[k] = "/" /\ k \in 1 .. k
      BY <1>1, <1>2, <2>2
    <3>2. Kept(k) \in Seq(Tokens) /\ Len(Kept(k)) = k /\ Kept(k)[k] = whole[k]
      BY <1>3, <3>1
    <3>3. Kept(k) # <<>>
      BY <1>1, <2>2, <3>2
    <3>. QED BY <1>6, <3>1, <3>2, <3>3 DEF Last
  <2>. QED BY <1>1, <2>1, <2>2
<1>7. Trimmed(whole) = CHOOSE kept \in {Kept(k) : k \in 0 .. length + n} : Ends(kept)
  BY <1>2 DEF Trimmed
<1>. HIDE DEF Kept, Ends
<1>8. \A kept \in {Kept(k) : k \in 0 .. length + n} : Ends(kept) <=> kept = text
  BY <1>4, <1>5, <1>6
<1>9. text \in {Kept(k) : k \in 0 .. length + n}
  BY <1>1, <1>4
<1>. QED BY <1>7, <1>8, <1>9 DEF whole

\* The parts of a URL.
LEMMA UrlParts ==
  ASSUME NEW scheme \in Tokens, NEW rest \in Seq(Tokens)
  PROVE  /\ Url(scheme, rest) \in Seq(Tokens)
         /\ Len(Url(scheme, rest)) = Len(rest) + 3
         /\ Url(scheme, rest)[1] = scheme
         /\ HasScheme(Url(scheme, rest))
         /\ SubSeq(Url(scheme, rest), 4, Len(Url(scheme, rest))) = rest
         /\ rest # <<>> => Last(Url(scheme, rest)) = Last(rest)
<1>. DEFINE start == <<scheme, "/", "/">>
            url == Url(scheme, rest)
<1>1. /\ start \in Seq(Tokens) /\ Len(start) = 3
      /\ start[1] = scheme /\ start[2] = "/" /\ start[3] = "/"
  BY DEF Tokens
<1>2. PICK n \in Nat : n = Len(rest) /\ (rest # <<>> => n > 0)
  BY EmptySeq
<1>3. /\ url \in Seq(Tokens) /\ Len(url) = n + 3
      /\ \A i \in 1 .. 3 : url[i] = start[i]
      /\ \A i \in 1 .. n : url[i + 3] = rest[i]
  <2>. HIDE DEF start
  <2>1. url = start \o rest
    BY DEF Url, start
  <2>2. /\ start \o rest \in Seq(Tokens) /\ Len(start \o rest) = 3 + n
        /\ \A i \in 1 .. 3 : (start \o rest)[i] = start[i]
        /\ \A i \in 1 .. n : (start \o rest)[3 + i] = rest[i]
    <3>1. 3 \in Nat /\ Len(start) = 3 /\ Len(rest) = n
      BY <1>1, <1>2
    <3>2. /\ start \o rest \in Seq(Tokens) /\ Len(start \o rest) = Len(start) + Len(rest)
          /\ \A i \in 1 .. Len(start) : (start \o rest)[i] = start[i]
          /\ \A i \in 1 .. Len(rest) : (start \o rest)[Len(start) + i] = rest[i]
      BY <1>1, Joined
    <3>. DEFINE both == start \o rest
    <3>. HIDE DEF both
    <3>3. /\ both \in Seq(Tokens) /\ Len(both) = Len(start) + Len(rest)
          /\ \A i \in 1 .. Len(start) : both[i] = start[i]
          /\ \A i \in 1 .. Len(rest) : both[Len(start) + i] = rest[i]
      BY <3>2 DEF both
    <3>. QED BY <1>2, <3>1, <3>3 DEF both
  <2>. HIDE DEF url
  <2>3. 3 + n = n + 3 /\ \A i \in 1 .. n : 3 + i = i + 3
    BY <1>2
  <2>. QED BY <2>1, <2>2, <2>3
<1>4. url[1] = scheme /\ url[2] = "/" /\ url[3] = "/"
  BY <1>1, <1>2, <1>3
<1>5. \A i \in 1 .. n : url[i + 3] = rest[i]
  BY <1>2, <1>3
<1>. HIDE DEF url
<1>6. SubSeq(url, 4, n + 3) = rest
  <2>1. \A i \in 4 .. n + 3 : url[i] \in Tokens
    BY <1>2, <1>3
  <2>2. /\ SubSeq(url, 4, n + 3) \in Seq(Tokens)
        /\ Len(SubSeq(url, 4, n + 3)) = n
        /\ \A i \in 1 .. n : SubSeq(url, 4, n + 3)[i] = url[i + 3]
    <3>1. /\ SubSeq(url, 4, n + 3) \in Seq(Tokens)
          /\ Len(SubSeq(url, 4, n + 3)) = IF 4 <= n + 3 THEN n + 3 - 4 + 1 ELSE 0
          /\ \A i \in 1 .. n + 3 - 4 + 1 : SubSeq(url, 4, n + 3)[i] = url[4 + i - 1]
      BY <1>2, <2>1, SubSeqProperties
    <3>2. (n + 3 - 4 + 1 = n) /\ \A i \in 1 .. n : 4 + i - 1 = i + 3
      BY <1>2
    <3>. QED BY <1>2, <3>1, <3>2
  <2>. QED BY <1>2, <1>5, <2>2, SeqEqual
<1>7. rest # <<>> => Last(url) = Last(rest)
  BY <1>2, <1>3, <1>5 DEF Last
<1>. QED BY <1>2, <1>3, <1>4, <1>6, <1>7 DEF HasScheme, url

\* What follows the host and the path is the end of the text.
LEMMA WsIsSuffix ==
  ASSUME NEW place \in Seq(Tokens)
  PROVE  StripWs(place \o <<"/", "ws">>) = place
<1>. DEFINE ws == <<"/", "ws">>
            rest == place \o ws
            back == Reverse(rest)
<1>1. ws \in Seq(Tokens) /\ Len(ws) = 2 /\ ws[1] = "/" /\ ws[2] = "ws"
  BY DEF Tokens
<1>2. PICK n \in Nat : n = Len(place)
  OBVIOUS
<1>3. /\ rest \in Seq(Tokens) /\ Len(rest) = n + 2
      /\ \A i \in 1 .. n : rest[i] = place[i]
      /\ rest[n + 1] = "/" /\ rest[n + 2] = "ws"
  <2>. HIDE DEF ws
  <2>1. /\ rest \in Seq(Tokens) /\ Len(rest) = n + 2
        /\ \A i \in 1 .. n : rest[i] = place[i]
        /\ \A i \in 1 .. 2 : rest[n + i] = ws[i]
    <3>1. 2 \in Nat /\ Len(ws) = 2 /\ Len(place) = n
      BY <1>1, <1>2
    <3>2. /\ rest \in Seq(Tokens) /\ Len(rest) = Len(place) + Len(ws)
          /\ \A i \in 1 .. Len(place) : (rest)[i] = place[i]
          /\ \A i \in 1 .. Len(ws) : (rest)[Len(place) + i] = ws[i]
      BY <1>1, Joined
    <3>. DEFINE both == rest
    <3>. HIDE DEF both
    <3>3. /\ both \in Seq(Tokens) /\ Len(both) = Len(place) + Len(ws)
          /\ \A i \in 1 .. Len(place) : both[i] = place[i]
          /\ \A i \in 1 .. Len(ws) : both[Len(place) + i] = ws[i]
      BY <3>2 DEF both
    <3>. QED BY <1>2, <3>1, <3>3 DEF both
  <2>. HIDE DEF rest
  <2>. QED BY <1>1, <2>1
<1>4. Reverse(ws) = <<"ws", "/">>
  BY <1>1 DEF Reverse
<1>. HIDE DEF rest, ws
<1>5. back \in [1 .. n + 2 -> Tokens] /\ back[1] = "ws" /\ back[2] = "/"
  <2>1. \A i \in 1 .. n + 2 : n + 2 - i + 1 \in 1 .. n + 2
    BY <1>2
  <2>2. 1 \in 1 .. n + 2 /\ 2 \in 1 .. n + 2 /\ n + 2 - 1 + 1 = n + 2 /\ n + 2 - 2 + 1 = n + 1
    BY <1>2
  <2>. QED BY <1>2, <1>3, <2>1, <2>2 DEF Reverse
<1>6. back \in Seq(Tokens) /\ Len(back) = n + 2
  BY <1>2, <1>5, SeqDef
<1>. HIDE DEF back
<1>7. SubSeq(back, 1, 2) = <<"ws", "/">>
  <2>1. \A i \in 1 .. 2 : back[i] \in Tokens
    BY <1>2, <1>5
  <2>2. /\ SubSeq(back, 1, 2) \in Seq(Tokens) /\ Len(SubSeq(back, 1, 2)) = 2
        /\ \A i \in 1 .. 2 : SubSeq(back, 1, 2)[i] = back[i]
    BY <2>1, SubSeqProperties
  <2>. DEFINE end == SubSeq(back, 1, 2)
  <2>. HIDE DEF end
  <2>3. end \in Seq(Tokens) /\ Len(end) = 2 /\ end[1] = "ws" /\ end[2] = "/"
    BY <1>5, <2>2 DEF end
  <2>4. end = <<"ws", "/">>
    BY <2>3
  <2>. QED BY <2>4 DEF end
<1>8. IsSuffix(ws, rest)
  <2>. DEFINE end == <<"ws", "/">>
  <2>1. end \in Seq(Tokens) /\ Len(end) = 2
    BY DEF Tokens
  <2>2. Reverse(ws) = end /\ SubSeq(back, 1, 2) = end
    BY <1>4, <1>7
  <2>. HIDE DEF end
  <2>3. SubSeq(end, 1, 2) = end
    BY <2>1, SubSeqFull
  <2>4. 2 <= n + 2
    BY <1>2
  <2>. QED BY <1>6, <2>1, <2>2, <2>3, <2>4 DEF IsSuffix, IsPrefix, back
<1>9. SubSeq(rest, 1, n) = place
  <2>1. /\ SubSeq(rest, 1, n) \in Seq(Tokens) /\ Len(SubSeq(rest, 1, n)) = n
        /\ \A i \in 1 .. n : SubSeq(rest, 1, n)[i] = rest[i]
    BY <1>2, <1>3, SubSeqProperties
  <2>. QED BY <1>2, <1>3, <2>1, SeqEqual
<1>. QED BY <1>2, <1>3, <1>8, <1>9 DEF StripWs, rest, ws

\* The end of two texts.
LEMMA LastJoined ==
  ASSUME NEW s \in Seq(Tokens), NEW t \in Seq(Tokens), t # <<>>
  PROVE  s \o t # <<>> /\ Last(s \o t) = Last(t)
<1>. DEFINE m == Len(s)
            n == Len(t)
            whole == s \o t
<1>1. m \in Nat /\ n \in Nat \ {0}
  BY EmptySeq
<1>2. /\ whole \in Seq(Tokens) /\ Len(whole) = m + n
      /\ \A i \in 1 .. n : whole[m + i] = t[i]
  BY Joined
<1>. HIDE DEF m, n, whole
<1>3. n \in 1 .. n /\ m + n # 0
  BY <1>1
<1>. QED BY <1>1, <1>2, <1>3, EmptySeq DEF Last, m, n, whole

\* The place of an address is a text that does not end in a slash.
LEMMA PlaceWritten ==
  ASSUME NEW a \in Addresses
  PROVE  /\ a.scheme \in DOMAIN HttpScheme /\ a.slashes \in Nat
         /\ <<a.host>> \in Seq(Tokens) /\ a.path \in Seq(Tokens)
         /\ a.path # <<>> => Last(a.path) # "/"
         /\ Place(a) \in Seq(Tokens)
         /\ Place(a) # <<>> /\ Last(Place(a)) # "/"
<1>1. /\ a.scheme \in DOMAIN HttpScheme /\ a.host \in Hosts /\ a.path \in Paths
      /\ a.slashes \in 0 .. MaxSlashes
  BY DEF Addresses
<1>2. a.host \in Tokens /\ a.host # "/" /\ a.slashes \in Nat
  <2>1. a.host \in STRING \ {"/"}
    BY <1>1, ClientStartAssumption
  <2>2. a.slashes \in Nat
    BY <1>1, ClientStartAssumption
  <2>. QED BY <2>1, <2>2 DEF Tokens
<1>3. a.path \in Seq(Tokens) /\ (a.path # <<>> => Last(a.path) # "/")
  <2>1. a.path \in Seq(STRING) /\ (a.path # <<>> => Last(a.path) # "/")
    BY <1>1, ClientStartAssumption
  <2>2. STRING \subseteq Tokens
    BY DEF Tokens
  <2>. QED BY <2>1, <2>2, SeqMonotonic
<1>. DEFINE start == <<a.host>>
<1>4. start \in Seq(Tokens) /\ start # <<>> /\ Last(start) = a.host
  BY <1>2 DEF Last
<1>. HIDE DEF start
<1>5. Place(a) = start \o a.path
  BY DEF Place, start
<1>6. CASE a.path = <<>>
  <2>1. Place(a) = start
    BY <1>4, <1>5, <1>6, ConcatEmptySeq
  <2>. QED BY <1>1, <1>2, <1>3, <1>4, <2>1 DEF start
<1>7. CASE a.path # <<>>
  <2>1. /\ start \o a.path \in Seq(Tokens) /\ start \o a.path # <<>>
        /\ Last(start \o a.path) # "/"
    BY <1>3, <1>4, <1>7, LastJoined, Joined
  <2>. QED BY <1>1, <1>2, <1>3, <1>4, <1>5, <2>1 DEF start
<1>. QED BY <1>6, <1>7

\* What the command-line client makes of a URL with slashes after it.
LEMMA EndpointsRead ==
  ASSUME NEW scheme \in DOMAIN HttpScheme, NEW rest \in Seq(Tokens),
         rest # <<>>, Last(rest) # "/", NEW n \in Nat
  PROVE  FromOptionalArg(Url(scheme, rest) \o Slashes(n)) =
           LET place == IF scheme \in {"ws:", "wss:"} THEN StripWs(rest) ELSE rest
           IN [http |-> Url(HttpScheme[scheme], place),
               websocket |-> Url(WsScheme[scheme], place)]
<1>. DEFINE url == Url(scheme, rest)
<1>1. scheme \in Tokens
  BY DEF Tokens
<1>2. /\ url \in Seq(Tokens) /\ url[1] = scheme /\ HasScheme(url)
      /\ SubSeq(url, 4, Len(url)) = rest /\ Last(url) # "/"
  BY <1>1, UrlParts
<1>3. url # <<>>
  BY <1>1, UrlParts, EmptySeq DEF HasScheme
<1>. HIDE DEF url
<1>4. Trimmed(url \o Slashes(n)) = url
  BY <1>2, <1>3, TrimmedSlashes
<1>. QED BY <1>2, <1>4 DEF FromOptionalArg, url

\* Slashes after two texts are slashes after the second.
LEMMA SlashesLast ==
  ASSUME NEW start \in Seq(Tokens), NEW rest \in Seq(Tokens), NEW n \in Nat
  PROVE  start \o (rest \o Slashes(n)) = (start \o rest) \o Slashes(n)
<1>1. Slashes(n) \in Seq(Tokens)
  BY SlashesWritten
<1>. QED BY <1>1, ConcatAssociative

\* Slashes after the rest of a URL are slashes after the URL.
LEMMA UrlSlashesLast ==
  ASSUME NEW scheme \in DOMAIN HttpScheme, NEW rest \in Seq(Tokens), NEW n \in Nat
  PROVE  Url(scheme, rest \o Slashes(n)) = Url(scheme, rest) \o Slashes(n)
<1>. DEFINE start == <<scheme, "/", "/">>
<1>1. start \in Seq(Tokens)
  BY DEF Tokens
<1>. HIDE DEF start
<1>2. start \o (rest \o Slashes(n)) = (start \o rest) \o Slashes(n)
  BY <1>1, SlashesLast
<1>. QED BY <1>2 DEF Url, start

\* No slash is nothing.
LEMMA NoSlash == ASSUME NEW text \in Seq(Tokens) PROVE text \o Slashes(0) = text
<1>1. Slashes(0) = <<>>
  BY DEF Slashes
<1>. QED BY <1>1, ConcatEmptySeq

\* The address that the server prints is read as the endpoints of its place.
LEMMA HintRead ==
  ASSUME NEW a \in Addresses, a.scheme \in {"ws:", "wss:"}
  PROVE  LET http == Url(HttpScheme[a.scheme], Place(a))
             endpoints == [http |-> http, websocket |-> Url(a.scheme, Place(a))]
         IN FromOptionalArg(Hint(a)) = endpoints /\ FromOptionalArg(http) = endpoints
<1>. DEFINE ws == <<"/", "ws">>
            place == Place(a)
            scheme == HttpScheme[a.scheme]
            n == a.slashes
<1>1. /\ a.scheme \in DOMAIN HttpScheme /\ n \in Nat
      /\ place \in Seq(Tokens) /\ place # <<>> /\ Last(place) # "/"
  BY PlaceWritten
<1>2. ws \in Seq(Tokens) /\ ws # <<>> /\ Last(ws) = "ws"
  BY DEF Tokens, Last
<1>3. StripWs(place \o ws) = place
  BY <1>1, WsIsSuffix
<1>4. /\ scheme \in DOMAIN HttpScheme /\ scheme \notin {"ws:", "wss:"}
      /\ HttpScheme[scheme] = scheme /\ WsScheme[scheme] = a.scheme
      /\ WsScheme[a.scheme] = a.scheme
  BY DEF HttpScheme, WsScheme
<1>5. Hint(a) = Url(a.scheme, (place \o ws) \o Slashes(n))
  BY DEF Hint
<1>. HIDE DEF ws, place, scheme, n
<1>6. place \o ws \in Seq(Tokens) /\ place \o ws # <<>> /\ Last(place \o ws) # "/"
  BY <1>1, <1>2, Joined, LastJoined
<1>7. FromOptionalArg(Hint(a)) =
        [http |-> Url(scheme, place), websocket |-> Url(a.scheme, place)]
  <2>. DEFINE rest == place \o ws
  <2>. HIDE DEF rest
  <2>1. rest \in Seq(Tokens) /\ rest # <<>> /\ Last(rest) # "/" /\ StripWs(rest) = place
    BY <1>3, <1>6 DEF rest
  <2>2. Hint(a) = Url(a.scheme, rest) \o Slashes(n)
    BY <1>1, <1>5, <2>1, UrlSlashesLast DEF rest
  <2>. QED BY <1>1, <1>4, <2>1, <2>2, EndpointsRead DEF scheme
<1>8. FromOptionalArg(Url(scheme, place)) =
        [http |-> Url(scheme, place), websocket |-> Url(a.scheme, place)]
  <2>1. FromOptionalArg(Url(scheme, place) \o Slashes(0)) =
          [http |-> Url(scheme, place), websocket |-> Url(a.scheme, place)]
    BY <1>1, <1>4, EndpointsRead
  <2>2. Url(scheme, place) \in Seq(Tokens)
    BY <1>1, <1>4, UrlParts DEF Tokens
  <2>. QED BY <2>1, <2>2, NoSlash
<1>. QED BY <1>7, <1>8 DEF place, scheme

\* The page takes the last slash off the path, and there is only one.
LEMMA BasePathRead ==
  ASSUME NEW path \in Seq(Tokens), path # <<>> => Last(path) # "/", NEW n \in {0, 1}
  PROVE  BasePath(path \o Slashes(n)) = path
<1>1. CASE n = 0
  BY <1>1, NoSlash DEF BasePath
<1>2. CASE n = 1
  <2>. DEFINE whole == path \o Slashes(1)
  <2>1. Slashes(1) \in Seq(Tokens) /\ Slashes(1) # <<>> /\ Last(Slashes(1)) = "/"
        /\ Len(Slashes(1)) = 1
    <3>1. /\ Slashes(1) \in Seq(Tokens) /\ Len(Slashes(1)) = 1
          /\ \A i \in 1 .. 1 : Slashes(1)[i] = "/"
      BY SlashesWritten
    <3>. QED BY <3>1, EmptySeq DEF Last
  <2>2. PICK k \in Nat : k = Len(path)
    OBVIOUS
  <2>3. /\ whole \in Seq(Tokens) /\ whole # <<>> /\ Last(whole) = "/" /\ Len(whole) = k + 1
        /\ \A i \in 1 .. k : whole[i] = path[i]
    BY <2>1, <2>2, Joined, LastJoined
  <2>. HIDE DEF whole
  <2>4. Front(whole) = SubSeq(whole, 1, k)
    BY <2>2, <2>3 DEF Front
  <2>5. /\ SubSeq(whole, 1, k) \in Seq(Tokens) /\ Len(SubSeq(whole, 1, k)) = k
        /\ \A i \in 1 .. k : SubSeq(whole, 1, k)[i] = whole[i]
    BY <2>2, <2>3, SubSeqProperties
  <2>6. SubSeq(whole, 1, k) = path
    BY <2>2, <2>3, <2>5, SeqEqual
  <2>. QED BY <1>2, <2>3, <2>4, <2>6 DEF BasePath, whole
<1>. QED BY <1>1, <1>2

\* Both clients read the same endpoints from an http or https URL.
LEMMA PageAndClientRead ==
  ASSUME NEW a \in Addresses, a.scheme \in {"http:", "https:"}, a.slashes < 2, NEW blocked
  PROVE  LET path == a.path \o Slashes(a.slashes) IN
         MakeRelayConfig(a.scheme, a.host, path, blocked) =
           IF blocked THEN NoEndpoints
           ELSE FromOptionalArg(Url(a.scheme, <<a.host>> \o path))
<1>. DEFINE n == a.slashes
            start == <<a.host>>
            place == Place(a)
<1>1. /\ a.scheme \in DOMAIN HttpScheme /\ n \in Nat
      /\ start \in Seq(Tokens) /\ a.path \in Seq(Tokens)
      /\ a.path # <<>> => Last(a.path) # "/"
      /\ place \in Seq(Tokens) /\ place # <<>> /\ Last(place) # "/"
  BY PlaceWritten
<1>2. n \in {0, 1}
  BY <1>1
<1>3. place = start \o a.path
  BY DEF Place
<1>. HIDE DEF n, start, place
<1>4. BasePath(a.path \o Slashes(n)) = a.path
  BY <1>1, <1>2, BasePathRead
<1>5. start \o (a.path \o Slashes(n)) = place \o Slashes(n)
  BY <1>1, <1>3, SlashesLast
<1>6. /\ HttpScheme[a.scheme] = a.scheme
      /\ WsScheme[a.scheme] = IF a.scheme = "https:" THEN "wss:" ELSE "ws:"
      /\ a.scheme \notin {"ws:", "wss:"}
  BY DEF HttpScheme, WsScheme
<1>7. FromOptionalArg(Url(a.scheme, place) \o Slashes(n)) =
        [http |-> Url(a.scheme, place), websocket |-> Url(WsScheme[a.scheme], place)]
  BY <1>1, <1>6, EndpointsRead
<1>8. Url(a.scheme, place) \o Slashes(n) = Url(a.scheme, place \o Slashes(n))
  BY <1>1, UrlSlashesLast
<1>9. MakeRelayConfig(a.scheme, a.host, a.path \o Slashes(n), blocked) =
        IF blocked THEN NoEndpoints
        ELSE [http |-> Url(a.scheme, place), websocket |-> Url(WsScheme[a.scheme], place)]
  BY <1>3, <1>4, <1>6 DEF MakeRelayConfig, start
<1>. QED BY <1>5, <1>7, <1>8, <1>9 DEF start, n

\* The addresses are those that the user may give.
AddressGiven == address = NoAddress \/ address \in Addresses

LEMMA AddressGivenCorrect == StartSpec => []AddressGiven
<1>1. StartInit => AddressGiven
  BY DEF StartInit, AddressGiven
<1>2. AddressGiven /\ [StartNext]_<<vars, startVars>> => AddressGiven'
  BY DEF AddressGiven, StartNext, Type, Give, NameUser, Enter, Run, startVars
<1>. QED BY <1>1, <1>2, PTL DEF StartSpec

\* Whatever the host and the path of a relay are, and however many slashes follow,
\* the address that the server prints leads the client to the endpoints of its place.
THEOREM HintConnectsCorrect == StartSpec => []HintConnects
<1>1. AddressGiven => HintConnects
  BY HintRead DEF AddressGiven, HintConnects
<1>. QED BY <1>1, AddressGivenCorrect, PTL

\* Whatever the host and the path of a relay are, the page and the command line
\* read the same endpoints from an http or https URL.
THEOREM ClientsAgreeCorrect == StartSpec => []ClientsAgree
<1>1. AddressGiven => ClientsAgree
  BY PageAndClientRead DEF AddressGiven, ClientsAgree
<1>. QED BY <1>1, AddressGivenCorrect, PTL

------------------------------------------------------------------------------
(* User names. *)

\* What the clients write around a name.
LEMMA RoutesWritten ==
  ASSUME NEW route \in Routes
  PROVE  /\ route.before \in Seq(Tokens) /\ Len(route.before) = 3
         /\ route.before[2] = IF route = WebSocketPath THEN "ws" ELSE "users"
         /\ route.after \in Seq(Tokens)
         /\ Len(route.after) = IF route = WebSocketPath THEN 0 ELSE 2
<1>1. CASE route = WebSocketPath
  BY <1>1 DEF WebSocketPath, Tokens
<1>2. CASE route = PublicKeyPath
  <2>1. route # WebSocketPath
    <3>1. route.before[2] = "users"
      BY <1>2 DEF PublicKeyPath
    <3>2. WebSocketPath.before[2] = "ws"
      BY DEF WebSocketPath
    <3>. QED BY <3>1, <3>2
  <2>. QED BY <1>2, <2>1 DEF PublicKeyPath, Tokens
<1>. QED BY <1>1, <1>2 DEF Routes

\* Where the parts of a path are.
LEMMA PathParts ==
  ASSUME NEW route \in Routes, NEW n \in Seq(Tokens)
  PROVE  /\ Path(route, n) \in Seq(Tokens)
         /\ Len(Path(route, n)) = 3 + Len(n) + Len(route.after)
         /\ Path(route, n)[2] = route.before[2]
         /\ Captured(Path(route, n), route) = n
<1>. DEFINE before == route.before
            after == route.after
            left == before \o n
            path == Path(route, n)
<1>1. /\ before \in Seq(Tokens) /\ Len(before) = 3
      /\ after \in Seq(Tokens)
  BY RoutesWritten
<1>2. PICK k \in Nat : k = Len(n)
  OBVIOUS
<1>3. PICK l \in Nat : l = Len(after)
  BY <1>1
<1>4. path = left \o after
  BY DEF Path
<1>. HIDE DEF before, after
<1>5. /\ left \in Seq(Tokens) /\ Len(left) = 3 + k
      /\ \A i \in 1 .. 3 : left[i] = before[i]
      /\ \A i \in 1 .. k : left[3 + i] = n[i]
  <2>1. /\ left \in Seq(Tokens)
        /\ Len(left) = Len(before) + Len(n)
        /\ \A i \in 1 .. Len(before) : left[i] = before[i]
        /\ \A i \in 1 .. Len(n) : left[Len(before) + i] = n[i]
    BY <1>1, Joined
  <2>. HIDE DEF left
  <2>. QED BY <1>1, <1>2, <2>1
<1>. HIDE DEF left, path
<1>6. /\ path \in Seq(Tokens) /\ Len(path) = 3 + k + l
      /\ \A i \in 1 .. 3 + k : path[i] = left[i]
  <2>1. /\ left \o after \in Seq(Tokens)
        /\ Len(left \o after) = Len(left) + Len(after)
        /\ \A i \in 1 .. Len(left) : (left \o after)[i] = left[i]
    BY <1>1, <1>5, Joined
  <2>. QED BY <1>3, <1>4, <1>5, <2>1
<1>7. path[2] = before[2]
  BY <1>2, <1>5, <1>6
<1>8. Captured(path, route) = SubSeq(path, 4, 3 + k)
  <2>1. 3 + 1 = 4 /\ 3 + k + l - l = 3 + k
    BY <1>2, <1>3
  <2>2. Captured(path, route) = SubSeq(path, 3 + 1, 3 + k + l - l)
    <3>1. Len(route.before) = 3 /\ Len(route.after) = l
      BY <1>1, <1>3 DEF before, after
    <3>2. Captured(path, route) =
            SubSeq(path, Len(route.before) + 1, Len(path) - Len(route.after))
      BY DEF Captured
    <3>. QED BY <1>6, <3>1, <3>2
  <2>. QED BY <2>1, <2>2
<1>9. SubSeq(path, 4, 3 + k) = n
  <2>1. \A i \in 4 .. 3 + k : path[i] \in Tokens
    BY <1>2, <1>3, <1>6
  <2>2. /\ SubSeq(path, 4, 3 + k) \in Seq(Tokens)
        /\ Len(SubSeq(path, 4, 3 + k)) = IF 4 <= 3 + k THEN 3 + k - 4 + 1 ELSE 0
        /\ \A i \in 1 .. 3 + k - 4 + 1 : SubSeq(path, 4, 3 + k)[i] = path[4 + i - 1]
    BY <1>2, <2>1, SubSeqProperties
  <2>3. (3 + k - 4 + 1 = k) /\ (IF 4 <= 3 + k THEN k ELSE 0) = k
        /\ \A i \in 1 .. k : 4 + i - 1 = 3 + i /\ 3 + i \in 1 .. 3 + k
    BY <1>2
  <2>. DEFINE end == SubSeq(path, 4, 3 + k)
  <2>. HIDE DEF end
  <2>4. end \in Seq(Tokens) /\ Len(end) = k /\ \A i \in 1 .. k : end[i] = path[3 + i]
    BY <2>2, <2>3 DEF end
  <2>5. \A i \in 1 .. k : path[3 + i] = n[i]
    BY <1>5, <1>6, <2>3
  <2>6. end = n
    BY <1>2, <2>4, <2>5, SeqEqual
  <2>. QED BY <2>6 DEF end
<1>. QED BY <1>2, <1>3, <1>6, <1>7, <1>8, <1>9 DEF path, before, after

\* A handler is reached with the name that its path holds.
LEMMA Reached ==
  ASSUME NEW route \in Routes, NEW n \in Seq(Tokens), n # <<>>, \A i \in 1 .. Len(n) : n[i] # "/"
  PROVE  Matches(Path(route, n), route)
<1>1. PICK k \in Nat \ {0} : k = Len(n)
  BY EmptySeq
<1>2. PICK l \in Nat : l = Len(route.after)
  BY RoutesWritten
<1>3. /\ Len(Path(route, n)) = 3 + k + l /\ Captured(Path(route, n), route) = n
      /\ Len(route.before) = 3
  BY <1>1, <1>2, PathParts, RoutesWritten
<1>4. 3 + k + l > 3 + l
  OBVIOUS
<1>5. DOMAIN n = 1 .. Len(n)
  OBVIOUS
<1>. QED BY <1>2, <1>3, <1>4, <1>5 DEF Matches

\* A handler is not reached by a path that is too short for it, or that starts
\* in another way.
LEMMA NotReached ==
  ASSUME NEW route \in Routes, NEW path \in Seq(Tokens),
         \/ Len(path) <= 3 + Len(route.after)
         \/ path[2] # route.before[2]
  PROVE  ~Matches(path, route)
<1>. SUFFICES ASSUME Matches(path, route) PROVE FALSE
  OBVIOUS
<1>. DEFINE length == Len(path)
            l == Len(route.after)
            n == Captured(path, route)
<1>1. length \in Nat /\ l \in Nat /\ Len(route.before) = 3
  BY RoutesWritten
<1>2. length > 3 + l /\ path = Path(route, n)
  BY <1>1 DEF Matches
<1>3. n \in Seq(Tokens)
  <2>1. n = SubSeq(path, 4, length - l)
    <3>1. 3 + 1 = 4
      OBVIOUS
    <3>. QED BY <1>1, <3>1 DEF Captured
  <2>. HIDE DEF n, l
  <2>2. \A i \in 4 .. length - l : path[i] \in Tokens
    BY <1>1
  <2>3. length - l \in Int
    BY <1>1
  <2>. QED BY <2>1, <2>2, <2>3, SubSeqProperties
<1>4. path[2] = route.before[2]
  <2>. HIDE DEF n
  <2>1. Path(route, n)[2] = route.before[2]
    BY <1>3, PathParts
  <2>. QED BY <1>2, <2>1
<1>. QED BY <1>1, <1>2, <1>4

\* The name of a request reaches its handler, and no other.
LEMMA NameRouted ==
  ASSUME NEW request \in Routes, NEW n \in Seq(Tokens), IsValidUsername(n)
  PROVE  Routed(Path(request, n)) = {n}
<1>1. n # <<>> /\ \A i \in 1 .. Len(n) : n[i] # "/"
  BY EmptySeq DEF IsValidUsername, NameChars
<1>. DEFINE path == Path(request, n)
<1>2. path \in Seq(Tokens) /\ path[2] = request.before[2] /\ Captured(path, request) = n
  BY PathParts
<1>3. Matches(path, request)
  BY <1>1, Reached
<1>4. ASSUME NEW route \in Routes, route # request PROVE ~Matches(path, route)
  <2>1. route.before[2] # request.before[2]
    BY <1>4, RoutesWritten DEF Routes
  <2>. QED BY <1>2, <2>1, NotReached
<1>. HIDE DEF path
<1>5. {route \in Routes : Matches(path, route)} = {request}
  BY <1>3, <1>4
<1>. QED BY <1>2, <1>5 DEF Routed, path

\* No name is found in a path that is short.
LEMMA Unreached ==
  ASSUME NEW path \in Seq(Tokens),
         Len(path) <= 3 \/ (Len(path) = 4 /\ path[2] = "users")
  PROVE  Routed(path) = {}
<1>1. ASSUME NEW route \in Routes PROVE ~Matches(path, route)
  <2>. DEFINE l == Len(route.after)
  <2>1. (route.before[2] = "ws" /\ l = 0) \/ (route.before[2] = "users" /\ l = 2)
    BY RoutesWritten
  <2>2. PICK length \in Nat : length = Len(path)
    OBVIOUS
  <2>. HIDE DEF l
  <2>3. length <= 3 + l \/ path[2] # route.before[2]
    BY <2>1, <2>2
  <2>. QED BY <2>2, <2>3, NotReached DEF l
<1>. QED BY <1>1 DEF Routed

\* A name that a URL parser resolves reaches no handler.
LEMMA DotsNotRouted ==
  ASSUME NEW request \in Routes, NEW n \in Dots
  PROVE  Routed(Resolved(request, n)) = {}
<1>. DEFINE path == Resolved(request, n)
<1>1. CASE request = WebSocketPath /\ n = <<".">>
  <2>1. path = <<"/", "ws", "/">>
    <3>1. path = <<"/", "ws", "/">> \o <<>>
      BY <1>1 DEF Resolved, Dots, WebSocketPath
    <3>. QED BY <3>1
  <2>2. path \in Seq(Tokens) /\ Len(path) <= 3
    BY <2>1 DEF Tokens
  <2>. HIDE DEF path
  <2>3. Routed(path) = {}
    BY <2>2, Unreached
  <2>. QED BY <2>3 DEF path
<1>2. CASE request = WebSocketPath /\ n = <<".", ".">>
  <2>1. path = <<"/">>
    <3>1. path = <<"/">> \o <<>>
      BY <1>2 DEF Resolved, Dots, WebSocketPath
    <3>. QED BY <3>1
  <2>2. path \in Seq(Tokens) /\ Len(path) <= 3
    BY <2>1 DEF Tokens
  <2>. HIDE DEF path
  <2>3. Routed(path) = {}
    BY <2>2, Unreached
  <2>. QED BY <2>3 DEF path
<1>3. CASE request = PublicKeyPath /\ n = <<".">>
  <2>. DEFINE before == <<"/", "users", "/">>
              after == <<"public-key">>
  <2>1. path = before \o after
    BY <1>3 DEF Resolved, Dots, PublicKeyPath
  <2>2. /\ before \in Seq(Tokens) /\ Len(before) = 3 /\ before[2] = "users"
        /\ after \in Seq(Tokens) /\ Len(after) = 1
    BY DEF Tokens
  <2>. HIDE DEF path, before, after
  <2>3. path \in Seq(Tokens) /\ Len(path) = 4 /\ path[2] = "users"
    <3>1. /\ before \o after \in Seq(Tokens)
          /\ Len(before \o after) = Len(before) + Len(after)
          /\ \A i \in 1 .. Len(before) : (before \o after)[i] = before[i]
      BY <2>2, Joined
    <3>. QED BY <2>1, <2>2, <3>1
  <2>4. Routed(path) = {}
    BY <2>3, Unreached
  <2>. QED BY <2>4 DEF path
<1>4. CASE request = PublicKeyPath /\ n = <<".", ".">>
  <2>. DEFINE before == <<"/">>
              after == <<"public-key">>
  <2>1. path = before \o after
    BY <1>4 DEF Resolved, Dots, PublicKeyPath
  <2>2. /\ before \in Seq(Tokens) /\ Len(before) = 1
        /\ after \in Seq(Tokens) /\ Len(after) = 1
    BY DEF Tokens
  <2>. HIDE DEF path, before, after
  <2>3. path \in Seq(Tokens) /\ Len(path) <= 3
    <3>1. /\ before \o after \in Seq(Tokens)
          /\ Len(before \o after) = Len(before) + Len(after)
          /\ \A i \in 1 .. Len(before) : (before \o after)[i] = before[i]
      BY <2>2, Joined
    <3>. QED BY <2>1, <2>2, <3>1
  <2>4. Routed(path) = {}
    BY <2>3, Unreached
  <2>. QED BY <2>4 DEF path
<1>. QED BY <1>1, <1>2, <1>3, <1>4 DEF Routes, Dots

\* The names are those that the user may choose.
NameChosen == name \in Seq(AnyChar)

LEMMA NameChosenCorrect == StartSpec => []NameChosen
<1>1. StartInit => NameChosen
  BY DEF StartInit, NameChosen, NoUserName
<1>2. NameChosen /\ [StartNext]_<<vars, startVars>> => NameChosen'
  <2>. SUFFICES ASSUME NameChosen, [StartNext]_<<vars, startVars>> PROVE NameChosen'
    OBVIOUS
  <2>1. CASE UNCHANGED name
    BY <2>1 DEF NameChosen
  <2>2. ASSUME NEW n \in UserNames, NameUser(n) PROVE NameChosen'
    BY <2>2, ClientStartAssumption DEF NameChosen, NameUser
  <2>3. CASE Enter
    BY <2>3 DEF NameChosen, Enter, NoUserName
  <2>. QED BY <2>1, <2>2, <2>3 DEF StartNext, Type, Give, Run, startVars
<1>. QED BY <1>1, <1>2, PTL DEF StartSpec

\* Every request about a valid name reaches the relay's handler of that name,
\* unless a URL parser resolves the name.
THEOREM NamesRoutedCorrect == StartSpec => []NamesRouted
<1>1. NameChosen => NamesRouted
  <2>. SUFFICES ASSUME NameChosen, IsValidUsername(name) PROVE
         /\ Routed(Path(WebSocketPath, name)) = {name}
         /\ \A request \in {WebSocketPath, PublicKeyPath} :
              Routed(Resolved(request, name)) = IF name \in Dots THEN {} ELSE {name}
    BY DEF NamesRouted
  <2>1. name \in Seq(Tokens)
    <3>1. AnyChar \subseteq Tokens
      BY DEF Tokens
    <3>. QED BY <3>1, SeqMonotonic DEF NameChosen
  <2>2. \A request \in Routes : Routed(Path(request, name)) = {name}
    BY <2>1, NameRouted
  <2>3. \A request \in Routes : name \notin Dots => Resolved(request, name) = Path(request, name)
    BY DEF Resolved
  <2>. QED BY <2>2, <2>3, DotsNotRouted DEF Routes
<1>. QED BY <1>1, NameChosenCorrect, PTL

==============================================================================
