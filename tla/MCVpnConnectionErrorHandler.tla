-------------------- MODULE MCVpnConnectionErrorHandler --------------------
\* VpnConnectionErrorHandler for TLC: lists of four servers, over two countries, of
\* which one has two cities, and two addresses.  The first server is any, the second
\* is not a Tor server and has the first address, and the last two are fixed.
EXTENDS VpnConnectionErrorHandler

MCAddress == {"x", "y"}
MCCountry == {"A", "B"}
MCCity == {"a1", "a2", "b1"}

Place == {[country |-> "A", city |-> "a1"], [country |-> "A", city |-> "a2"],
          [country |-> "B", city |-> "b1"]}

ServerOf(place, kind, domains) ==
    [country |-> place.country, city |-> place.city, kind |-> kind, domains |-> domains]

AnyServer(kinds, domains) == {ServerOf(p, k, d) : p \in Place, k \in kinds, d \in domains}

MCWorlds ==
    {<<s, t, ServerOf([country |-> "A", city |-> "a1"], "plain", {"y"}),
             ServerOf([country |-> "B", city |-> "b1"], "plain", {"x"})>> :
        s \in AnyServer({"plain", "tor", "secureCore"}, {{"x"}, {"y"}, {"x", "y"}}),
        t \in AnyServer({"plain", "secureCore"}, {{"x"}, {"x", "y"}})}
=============================================================================
