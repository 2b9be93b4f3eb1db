------------------------------ MODULE MCRelay ------------------------------
(* Relay on small instances.                                               *)
EXTENDS RelayMailbox, TLC

CONSTANTS alice, bob, nameless

MCNames == {alice, bob, nameless}
MCValidNames == {alice, bob}

\* The two users are interchangeable; used in safety runs only.
Users == Permutations(MCValidNames)
=============================================================================
