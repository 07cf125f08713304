------------------------------ MODULE MCPeers ------------------------------
EXTENDS PacketTrains

Task(c, kind, port) == [client |-> c, kind |-> kind, port |-> port]

\* Each wants the other; one asks twice; the offered port is not the fixed one.
MCPlans == {<<Task(1, "btc", 5106), Task(2, "trains", 5106)>>,
            <<Task(1, "trains", 5106), Task(1, "btc", 5106)>>,
            <<Task(1, "trains", 5107)>>}
=============================================================================
