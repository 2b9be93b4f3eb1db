----------------------------- MODULE MCIdentity -----------------------------
(* Identity and what the user types before it, on small instances.        *)
EXTENDS ClientStart, IdentityAgreement

CONSTANTS first, second, third

MCClients == {first, second, third}

MCTexts == {"a", "b", "-u"}
MCHosts == {"host", "localhost"}
MCLocalHosts == {"localhost"}
MCPaths == {<<>>, <<"/", "ws">>, <<"/", "relay">>, <<"/", "relay", "/", "ws">>}

\* Short names with any characters, and the longest ones.
MCUserNames ==
  UNION {[1 .. n -> AnyChar] : n \in 1 .. 3} \cup {[i \in 1 .. n |-> "a"] : n \in {64, 65}}
=============================================================================
