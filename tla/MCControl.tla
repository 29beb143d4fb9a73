----------------------------- MODULE MCControl -----------------------------
EXTENDS Control, TLC

CONSTANTS c1, c2

MCClients == {c1, c2}
MCPrograms == c1 :> (Commands \ {"kill", "status"}) @@ c2 :> {"kill"}
=============================================================================
