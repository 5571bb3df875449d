------------------------------ MODULE MCDBService ------------------------------
(* Small instances of DBService: one row. *)
EXTENDS DBService

CONSTANTS c1, c2

OneClient   == {c1}
TwoClients  == {c1, c2}
PrimaryKey  == {"primary"}
AnyKey      == {"primary", "secondary"}
=============================================================================
