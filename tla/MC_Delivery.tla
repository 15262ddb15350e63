---------------------------- MODULE MC_Delivery ----------------------------
(* Small instances of Delivery: one client, one or two Config names.       *)
EXTENDS Delivery

CONSTANTS client

MCClients   == {client}
OneKey      == {1}
TwoKeys     == {1, 2}
AllNames    == [c \in MCClients |-> Keys]
CachedName  == [c \in MCClients |-> {1}]
=============================================================================
