----------------------------- MODULE MCBrowser -----------------------------
(* BrowserSession on small instances.                                      *)
EXTENDS BrowserSession, TLC

CONSTANTS alice, carol, bob

MCNames == {alice, carol}
MCPeers == {bob}

\* The two users are interchangeable; used in the safety run only.
Users == Permutations(MCNames)
=============================================================================
