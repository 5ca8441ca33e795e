--------------------------- MODULE MCSpoolReceiver ---------------------------
(* Two addresses, three endpoints of which two share a port, four configurations. *)
EXTENDS SpoolReceiver, TLC

CONSTANTS a, b, s1, s2, d1, d2

AllClients == [exact |-> FALSE, prefix |-> -1, net |-> Clients]
Only(c)    == [exact |-> TRUE, prefix |-> 32, net |-> {c}]
At(proto, host) == [proto |-> proto, host |-> host, port |-> 514]
Src(id, ep, rule, dir) == [id |-> id, on |-> TRUE, ep |-> ep, rule |-> rule, dir |-> dir]

MCConfigs ==
    {\* one endpoint for both
     {Src(s1, At("tcp", "any"), AllClients, d1), Src(s2, At("tcp", "any"), Only(a), d2)},
     \* the same endpoint with other directories, and one more
     {Src(s1, At("tcp", "any"), AllClients, d2), Src(s2, At("udp", "any"), Only(a), d1)},
     \* the second source moves to an address of its port
     {Src(s2, At("udp", "local"), AllClients, d1)},
     \* two rules for all clients, as a start may find them
     {Src(s1, At("tcp", "any"), AllClients, d1), Src(s2, At("tcp", "any"), AllClients, d2)}}

Threads == Permutations(Savers) \cup Permutations(Workers)
=============================================================================
