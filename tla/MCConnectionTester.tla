------------------------- MODULE MCConnectionTester -------------------------
EXTENDS ConnectionTester

Addr(v4, range) == [v4 |-> v4, range |-> range, ip |-> range]

Kernel == [os |-> "linux", online |-> TRUE,
           routes |-> <<[dest |-> 1, gw |-> "b"], [dest |-> 0, gw |-> "a"]>>,
           servers |-> <<"d">>, interfaces |-> <<Addr(TRUE, "loopback"), Addr(TRUE, "private")>>,
           reply |-> "body", times |-> <<15, 8>>,
           checks |-> {"DefaultGateway", "PingGoogleDomain"}]

Server == [Kernel EXCEPT !.checks = {"LocalIpAddress"}, !.routes = <<>>]

Desktop == [os |-> "win", online |-> TRUE, reply |-> "lost", times |-> <<4>>,
            checks |-> {"PublicIpAddress"},
            adapters |-> <<[gw |-> "a", up |-> FALSE, dns |-> <<"c">>],
                           [gw |-> "0.0.0.0", up |-> TRUE, dns |-> <<"d">>]>>,
            interfaces |-> <<Addr(TRUE, "linkLocal")>>,
            names |-> <<Addr(TRUE, "linkLocal"), Addr(FALSE, "private")>>]

Laptop == [Desktop EXCEPT !.checks = {"DefaultDns"}]

Offline == [os |-> "mac", online |-> FALSE, lines |-> <<>>, interfaces |-> <<>>,
            names |-> <<>>, reply |-> "error", times |-> <<>>,
            checks |-> {"PingGoogleDomain"}]

MCMachines == {Kernel, Server, Desktop, Laptop, Offline}
=============================================================================
