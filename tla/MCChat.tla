------------------------------- MODULE MCChat -------------------------------
(* Chat on small instances.                                                *)
EXTENDS ChatTrust

CONSTANTS alice, bob

MCUsers == {alice, bob}
EachOther == {<<alice, bob>>, <<bob, alice>>}
Everybody == MCUsers \X MCUsers
MCOldRows == {alice}
=============================================================================
