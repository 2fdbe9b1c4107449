------------------ MODULE VpnConnectionErrorHandler_proofs ------------------
(***************************************************************************)
(* The candidates that getCandidateServers gathers are usable and vary,    *)
(* and the loss of secure core is told, for every list of servers, every   *)
(* set of addresses and every limit of at least three candidates.          *)
(***************************************************************************)
EXTENDS VpnConnectionErrorHandler, FiniteSetTheorems, TLAPS

-----------------------------------------------------------------------------
\* Servers in the order of their scores.

Rank(set, s) == Cardinality({t \in set : Better(t, s)})

LEMMA ServerTyped ==
    ASSUME TypeOK
    PROVE  /\ Server = 1..Len(servers) /\ Len(servers) \in Nat /\ Server \subseteq Nat
           /\ IsFiniteSet(Server)
           /\ \A s \in Server : servers[s] \in ServerRecord /\ ServerScore(s) \in Nat
           /\ profile.secureCore \in BOOLEAN
<1>1. servers \in Seq(ServerRecord) /\ profile.secureCore \in BOOLEAN
  BY DEF TypeOK
<1>2. Server = 1..Len(servers) /\ Len(servers) \in Nat /\ \A s \in Server : servers[s] \in ServerRecord
  BY <1>1 DEF Server
<1>3. IsFiniteSet(Server)
  <2>1. 1 \in Int /\ Len(servers) \in Int
    BY <1>2
  <2> QED BY <1>2, <2>1, FS_Interval, Zenon
<1>4. \A s \in Server : ServerScore(s) \in Nat
  <2> TAKE s \in Server
  <2> DEFINE secure == IF profile.secureCore => servers[s].kind = "secureCore" THEN 2 ELSE 0
             near == IF profile.country \in {"blank", servers[s].country} THEN 1 ELSE 0
  <2>1. secure \in {0, 2} /\ near \in {0, 1}
    BY Zenon
  <2>2. ServerScore(s) = secure + near
    BY Zenon DEF ServerScore
  <2> HIDE DEF secure, near
  <2> QED BY <2>1, <2>2
<1> QED BY <1>1, <1>2, <1>3, <1>4

\* Better is a strict total order.
LEMMA BetterOrder ==
    ASSUME TypeOK, NEW r \in Server, NEW s \in Server, NEW t \in Server
    PROVE  /\ ~Better(s, s) /\ (s # t => Better(s, t) \/ Better(t, s))
           /\ Better(r, s) /\ Better(s, t) => Better(r, t)
<1>1. /\ r \in Nat /\ s \in Nat /\ t \in Nat
      /\ ServerScore(r) \in Nat /\ ServerScore(s) \in Nat /\ ServerScore(t) \in Nat
  BY ServerTyped
<1> QED BY <1>1 DEF Better

\* Of two servers the better one has the smaller rank.
LEMMA RankIncreases ==
    ASSUME TypeOK, NEW set \in SUBSET Server, NEW s \in set, NEW t \in set, Better(s, t)
    PROVE  Rank(set, s) < Rank(set, t)
<1> DEFINE above(u) == {v \in set : Better(v, u)}
<1>1. IsFiniteSet(set)
  BY ServerTyped, FS_Subset
<1>2. above(s) \in SUBSET set /\ above(t) \in SUBSET set
  OBVIOUS
<1>3. above(s) \in SUBSET above(t)
  BY BetterOrder
<1>4. s \in above(t) /\ s \notin above(s)
  BY BetterOrder
<1>a. Rank(set, s) = Cardinality(above(s)) /\ Rank(set, t) = Cardinality(above(t))
  BY DEF Rank
<1> HIDE DEF above
<1>5. IsFiniteSet(above(s)) /\ IsFiniteSet(above(t))
  BY <1>1, <1>2, FS_Subset
<1>6. Cardinality(above(s)) \in Nat /\ Cardinality(above(t)) \in Nat
  BY <1>5, FS_CardinalityType
<1>7. /\ Cardinality(above(s)) <= Cardinality(above(t))
      /\ Cardinality(above(t)) # Cardinality(above(s))
  BY <1>3, <1>4, <1>5, FS_Subset
<1> QED BY <1>6, <1>7, <1>a

\* The ranks of the servers of a set are the numbers below its size.
LEMMA RanksCover ==
    ASSUME TypeOK, NEW set \in SUBSET Server
    PROVE  /\ Cardinality(set) \in Nat /\ IsFiniteSet(set)
           /\ \A k \in 1..Cardinality(set) : \E s \in set : Rank(set, s) = k - 1
<1> DEFINE m == Cardinality(set)
           rank == [s \in set |-> Rank(set, s)]
<1>1. IsFiniteSet(set) /\ m \in Nat
  BY ServerTyped, FS_Subset, FS_CardinalityType
<1>2. ASSUME NEW s \in set PROVE Rank(set, s) \in 0..m - 1
  <2> DEFINE above == {t \in set : Better(t, s)}
  <2>1. above \in SUBSET set /\ s \notin above
    BY BetterOrder
  <2>a. Rank(set, s) = Cardinality(above)
    BY DEF Rank
  <2> HIDE DEF above
  <2>2. IsFiniteSet(above) /\ Cardinality(above) <= m /\ m # Cardinality(above)
    BY <1>1, <2>1, FS_Subset
  <2>3. Cardinality(above) \in Nat
    BY <2>2, FS_CardinalityType
  <2> QED BY <1>1, <2>2, <2>3, <2>a
<1>3. \A s, t \in set : Rank(set, s) = Rank(set, t) => s = t
  <2> SUFFICES ASSUME NEW s \in set, NEW t \in set, s # t PROVE Rank(set, s) # Rank(set, t)
    OBVIOUS
  <2>1. Rank(set, s) \in Int /\ Rank(set, t) \in Int
    BY <1>1, <1>2
  <2>2. Better(s, t) \/ Better(t, s)
    BY BetterOrder
  <2>3. Better(s, t) => Rank(set, s) < Rank(set, t)
    BY RankIncreases
  <2>4. Better(t, s) => Rank(set, t) < Rank(set, s)
    BY RankIncreases
  <2> QED BY <2>1, <2>2, <2>3, <2>4
<1> HIDE DEF m
<1>4. IsFiniteSet(0..m - 1) /\ Cardinality(0..m - 1) = m
  <2>1. m - 1 \in Int /\ 0 \in Int
    BY <1>1
  <2>2. /\ IsFiniteSet(0..m - 1)
        /\ Cardinality(0..m - 1) = IF 0 > m - 1 THEN 0 ELSE (m - 1) - 0 + 1
    BY <2>1, FS_Interval, Zenon
  <2> QED BY <1>1, <2>2
<1>5. rank \in Injection(set, 0..m - 1)
  BY <1>2, <1>3 DEF Injection, IsInjective
<1>6. rank \in Surjection(set, 0..m - 1)
  <2> HIDE DEF rank
  <2> QED BY <1>1, <1>4, <1>5, FS_Injection DEF m
<1>7. \A k \in 0..m - 1 : \E s \in set : rank[s] = k
  BY <1>6 DEF Surjection
<1>8. \A k \in 1..m : \E s \in set : Rank(set, s) = k - 1
  <2> TAKE k \in 1..m
  <2>1. k - 1 \in 0..m - 1
    BY <1>1
  <2> QED BY <1>7, <2>1
<1> QED BY <1>1, <1>8 DEF m

\* Sorting a set of servers gives a list of all its members.
LEMMA SortedServers ==
    ASSUME TypeOK, NEW set \in SUBSET Server
    PROVE  /\ SortServersByScore(set) \in Seq(set)
           /\ Len(SortServersByScore(set)) = Cardinality(set) /\ Cardinality(set) \in Nat
<1> DEFINE place(k) == CHOOSE s \in set : Rank(set, s) = k - 1
<1>1. SortServersByScore(set) = [k \in 1..Cardinality(set) |-> place(k)]
  BY DEF SortServersByScore, Rank
<1>2. Cardinality(set) \in Nat /\ \A k \in 1..Cardinality(set) : \E s \in set : Rank(set, s) = k - 1
  BY RanksCover
<1>3. \A k \in 1..Cardinality(set) : place(k) \in set
  BY <1>2
<1> HIDE DEF place
<1> QED BY <1>1, <1>2, <1>3

\* The first elements of a list.
LEMMA TakeProperties ==
    ASSUME NEW S, NEW list \in Seq(S), NEW n \in Nat
    PROVE  /\ Take(list, n) \in Seq(S)
           /\ Len(Take(list, n)) = IF n < Len(list) THEN n ELSE Len(list)
           /\ \A k \in DOMAIN Take(list, n) : k \in DOMAIN list /\ Take(list, n)[k] = list[k]
           /\ Len(list) <= n => Take(list, n) = list
<1> DEFINE last == IF n < Len(list) THEN n ELSE Len(list)
<1>1. last \in Nat /\ last <= Len(list)
  OBVIOUS
<1>2. Take(list, n) = SubSeq(list, 1, last)
  BY DEF Take
<1> HIDE DEF last
<1>3. /\ SubSeq(list, 1, last) \in Seq(S) /\ Len(SubSeq(list, 1, last)) = last
      /\ \A k \in 1..last : k \in DOMAIN list /\ SubSeq(list, 1, last)[k] = list[k]
  BY <1>1
<1>4. ASSUME Len(list) <= n PROVE SubSeq(list, 1, last) = list
  <2>1. last = Len(list)
    BY <1>4 DEF last
  <2> QED BY <2>1
<1> QED BY <1>2, <1>3, <1>4 DEF last

\* The best server of a set, if it has one.
LEMMA FirstProperties ==
    ASSUME TypeOK, NEW set \in SUBSET Server
    PROVE  First(set) \in Seq(set) /\ Len(First(set)) \in 0..1 /\ (set # {} => Len(First(set)) = 1)
<1>1. /\ SortServersByScore(set) \in Seq(set) /\ Cardinality(set) \in Nat
      /\ Len(SortServersByScore(set)) = Cardinality(set)
  BY SortedServers
<1>2. /\ First(set) \in Seq(set)
      /\ Len(First(set)) = IF 1 < Cardinality(set) THEN 1 ELSE Cardinality(set)
  BY <1>1, TakeProperties DEF First
<1>3. set # {} => Cardinality(set) # 0
  BY RanksCover, FS_EmptySet
<1> QED BY <1>1, <1>2, <1>3

\* A list of servers with an address for each of them.
LEMMA PlacedProperties ==
    ASSUME NEW set \in SUBSET Server, NEW list \in Seq(set), NEW addresses,
           NEW placed \in Placed(list, addresses)
    PROVE  /\ placed \in Seq(Connection) /\ Len(placed) = Len(list) /\ DOMAIN placed = DOMAIN list
           /\ \A k \in DOMAIN placed : /\ placed[k].server = list[k]
                                       /\ placed[k].address \in addresses[list[k]]
<1>1. PICK chosen \in [DOMAIN list -> Address] :
        /\ \A k \in DOMAIN list : chosen[k] \in addresses[list[k]]
        /\ placed = [k \in DOMAIN list |-> [server |-> list[k], address |-> chosen[k]]]
  BY DEF Placed
<1>2. DOMAIN list = 1..Len(list) /\ Len(list) \in Nat /\ \A k \in DOMAIN list : list[k] \in Server
  OBVIOUS
<1>3. \A k \in DOMAIN list : [server |-> list[k], address |-> chosen[k]] \in Connection
  BY <1>1, <1>2 DEF Connection
<1>4. placed \in Seq(Connection) /\ Len(placed) = Len(list)
  BY <1>1, <1>2, <1>3
<1> QED BY <1>1, <1>4

-----------------------------------------------------------------------------
\* The candidates.

Reachable == {s \in Server : Online(s) # {}}

LEMMA UsableIsReachable ==
    /\ UsableServers \subseteq Reachable /\ Reachable \subseteq Server
    /\ OnlineAccessibleServers(FALSE) \subseteq Reachable
    /\ \A s \in Reachable : Random(s) = Online(s)
BY DEF UsableServers, OnlineAccessibleServers, Reachable, Random

\* An address of a server is online unless its domain is marked.
LEMMA OnlineMarked ==
    ASSUME NEW c \in Connection, c.address \in Online(c.server)
    PROVE  c \notin offline
<1>1. c = [server |-> c.server, address |-> c.address]
  BY DEF Connection
<1>2. [server |-> c.server, address |-> c.address] \notin offline
  BY DEF Online
<1> QED BY <1>1, <1>2

\* A list of servers that are members of a smaller set.
LEMMA WiderList ==
    ASSUME NEW S, NEW T, S \subseteq T, NEW list \in Seq(S)
    PROVE  list \in Seq(T)
OBVIOUS

LEMMA EmptyList == ASSUME NEW S PROVE <<>> \in Seq(S) /\ Len(<<>>) = 0
OBVIOUS

LEMMA SingleList ==
    ASSUME NEW S, NEW e \in S PROVE <<e>> \in Seq(S) /\ Len(<<e>>) = 1 /\ <<e>> # <<>>
OBVIOUS

\* What a list is made of that consists of two others.
Joins(whole, first, second) ==
    /\ Len(whole) = Len(first) + Len(second)
    /\ Len(first) \in Nat /\ Len(second) \in Nat /\ Len(whole) \in Nat
    /\ \A k \in DOMAIN whole :
         \/ k \in DOMAIN first /\ whole[k] = first[k]
         \/ k - Len(first) \in DOMAIN second /\ whole[k] = second[k - Len(first)]
    /\ \A k \in DOMAIN first : k \in DOMAIN whole /\ whole[k] = first[k]
    /\ \A k \in DOMAIN second :
         Len(first) + k \in DOMAIN whole /\ whole[Len(first) + k] = second[k]

LEMMA JoinedList ==
    ASSUME NEW S, NEW first \in Seq(S), NEW second \in Seq(S)
    PROVE  first \o second \in Seq(S) /\ Joins(first \o second, first, second)
BY DEF Joins

LEMMA FewLess == ASSUME NEW n \in Nat, n >= 3, NEW m \in 0..3 PROVE n - m \in Nat
OBVIOUS

LEMMA FewMore == ASSUME NEW m \in 0..1, NEW n \in 0..1 PROVE m + n \in 0..2
OBVIOUS

LEMMA OneMore == ASSUME NEW m \in 0..2, NEW n \in 0..1 PROVE m + n \in 0..3
OBVIOUS

LEMMA OtherCityProperties ==
    ASSUME TypeOK, NEW list
    PROVE  OtherCity(list) \in Seq(Reachable) /\ Len(OtherCity(list)) \in 0..1
<1> DEFINE set == {s \in UsableServers : /\ servers[s].country \in Countries(list)
                                         /\ servers[s].city \notin Cities(list)}
<1>1. set \in SUBSET Server /\ set \subseteq Reachable
  BY UsableIsReachable
<1>2. OtherCity(list) = First(set) \/ OtherCity(list) = <<>>
  BY DEF OtherCity
<1> HIDE DEF set
<1>3. First(set) \in Seq(set) /\ Len(First(set)) \in 0..1
  BY <1>1, FirstProperties
<1>4. First(set) \in Seq(Reachable)
  BY <1>1, <1>3, WiderList
<1>5. <<>> \in Seq(Reachable) /\ Len(<<>>) \in 0..1
  BY EmptyList
<1> QED BY <1>2, <1>3, <1>4, <1>5

\* The fallback to another country exists if the list has one country and some
\* usable server is elsewhere.
LEMMA OtherCountryProperties ==
    ASSUME TypeOK, NEW list
    PROVE  /\ OtherCountry(list) \in Seq(Reachable) /\ Len(OtherCountry(list)) \in 0..1
           /\ \A k \in DOMAIN OtherCountry(list) :
                servers[OtherCountry(list)[k]].country \notin Countries(list)
           /\ Cardinality(Countries(list)) = 1
                /\ (\E s \in UsableServers : servers[s].country \notin Countries(list))
              => Len(OtherCountry(list)) = 1
           /\ Cardinality(Countries(list)) # 1 => OtherCity(list) = <<>> /\ OtherCountry(list) = <<>>
<1> DEFINE set == {s \in UsableServers : servers[s].country \notin Countries(list)}
<1>1. set \in SUBSET Server /\ set \subseteq Reachable
  BY UsableIsReachable
<1>2. OtherCountry(list) = IF Cardinality(Countries(list)) = 1 THEN First(set) ELSE <<>>
  BY DEF OtherCountry
<1>3. \A s \in set : servers[s].country \notin Countries(list)
  OBVIOUS
<1>4. (\E s \in UsableServers : servers[s].country \notin Countries(list)) => set # {}
  OBVIOUS
<1>5. Cardinality(Countries(list)) # 1 => OtherCity(list) = <<>> /\ OtherCountry(list) = <<>>
  BY DEF OtherCity, OtherCountry
<1> HIDE DEF set
<1>6. First(set) \in Seq(set) /\ Len(First(set)) \in 0..1 /\ (set # {} => Len(First(set)) = 1)
  BY <1>1, FirstProperties
<1>7. First(set) \in Seq(Reachable)
  BY <1>1, <1>6, WiderList
<1>8. \A k \in DOMAIN First(set) : First(set)[k] \in set
  BY <1>6
<1>9. CASE Cardinality(Countries(list)) = 1
  BY <1>2, <1>3, <1>4, <1>6, <1>7, <1>8, <1>9
<1>10. CASE Cardinality(Countries(list)) # 1
  BY <1>5, <1>10
<1> QED BY <1>9, <1>10

LEMMA LastResortProperties ==
    ASSUME TypeOK
    PROVE  /\ LastResort \in Seq(Reachable) /\ Len(LastResort) \in 0..1
           /\ ~profile.secureCore => LastResort = <<>>
<1> DEFINE set == OnlineAccessibleServers(FALSE)
<1>1. set \in SUBSET Server /\ set \subseteq Reachable
  BY UsableIsReachable
<1>2. LastResort = First(set) \/ LastResort = <<>>
  BY DEF LastResort
<1>3. ~profile.secureCore => LastResort = <<>>
  BY DEF LastResort
<1> HIDE DEF set
<1>4. First(set) \in Seq(set) /\ Len(First(set)) \in 0..1
  BY <1>1, FirstProperties
<1>5. First(set) \in Seq(Reachable)
  BY <1>1, <1>4, WiderList
<1>6. <<>> \in Seq(Reachable) /\ Len(<<>>) \in 0..1
  BY EmptyList
<1> QED BY <1>2, <1>3, <1>4, <1>5, <1>6

\* At most three fallbacks, all of them online.
LEMMA FallbackProperties ==
    ASSUME TypeOK, NEW list
    PROVE  /\ FallbackServers(list) \in Seq(Reachable) /\ Len(FallbackServers(list)) \in 0..3
           /\ ~profile.secureCore =>
                /\ FallbackServers(list) = OtherCity(list) \o OtherCountry(list)
                /\ Len(FallbackServers(list)) \in 0..2
<1> DEFINE city == OtherCity(list)
           country == OtherCountry(list)
<1>1. FallbackServers(list) = (city \o country) \o LastResort
  BY DEF FallbackServers
<1>2. /\ city \in Seq(Reachable) /\ Len(city) \in 0..1
      /\ country \in Seq(Reachable) /\ Len(country) \in 0..1
  BY OtherCityProperties, OtherCountryProperties
<1>3. LastResort \in Seq(Reachable) /\ Len(LastResort) \in 0..1 /\ (~profile.secureCore => LastResort = <<>>)
  BY LastResortProperties
<1> HIDE DEF city, country
<1>4. city \o country \in Seq(Reachable) /\ Len(city \o country) \in 0..2
  <2>1. /\ city \o country \in Seq(Reachable)
        /\ Len(city \o country) = Len(city) + Len(country)
    BY <1>2, JoinedList DEF Joins
  <2>2. Len(city) + Len(country) \in 0..2
    BY <1>2, FewMore, Zenon
  <2> QED BY <2>1, <2>2, Zenon
<1>5. (city \o country) \o <<>> = city \o country
  BY <1>4
<1>6. FallbackServers(list) \in Seq(Reachable) /\ Len(FallbackServers(list)) \in 0..3
  <2> DEFINE both == city \o country
  <2>1. both \in Seq(Reachable) /\ Len(both) \in 0..2
    BY <1>4
  <2> HIDE DEF both
  <2>2. /\ both \o LastResort \in Seq(Reachable)
        /\ Len(both \o LastResort) = Len(both) + Len(LastResort)
    BY <1>3, <2>1, JoinedList DEF Joins
  <2>3. Len(both) + Len(LastResort) \in 0..3
    BY <1>3, <2>1, OneMore, Zenon
  <2>4. FallbackServers(list) = both \o LastResort
    BY <1>1 DEF both
  <2> QED BY <2>2, <2>3, <2>4, Zenon
<1> QED BY <1>1, <1>3, <1>4, <1>5, <1>6 DEF city, country

\* What getCandidateServers has gathered when it returns.
Gathering(list, fallbacks) ==
    /\ list \in Seq(Connection) /\ Len(list) <= FallbackServersCount
    /\ \A k \in DOMAIN list :
            \/ list[k] \notin offline
            \/ k = 1 /\ OrgCandidate # <<>> /\ list[k] = orgPhysicalServer
    /\ fallbacks \in Seq(Connection) /\ Len(fallbacks) = Len(FallbackServers(list))
    /\ \A k \in DOMAIN fallbacks : /\ fallbacks[k].server = FallbackServers(list)[k]
                                   /\ fallbacks[k] \notin offline
    /\ candidates' = WithFallbacks(list, fallbacks)

LEMMA GatheringExists ==
    ASSUME TypeOK, GetCandidateServers
    PROVE  \E list, fallbacks : Gathering(list, fallbacks)
<1> DEFINE org == OrgCandidate
           best == Take(ScoredServers, FallbackServersCount - Len(org))
           usable == [s \in Server |-> Online(s) \ {orgPhysicalServer.address}]
           random == [s \in Server |-> Random(s)]
<1>1. PICK chosen \in Placed(best, usable) :
        \E fallbacks \in Placed(FallbackServers(org \o chosen), random) :
            candidates' = WithFallbacks(org \o chosen, fallbacks)
  BY DEF GetCandidateServers
<1> DEFINE list == org \o chosen
<1>2. PICK fallbacks \in Placed(FallbackServers(list), random) :
        candidates' = WithFallbacks(list, fallbacks)
  BY <1>1
<1>3. org \in Seq(Connection) /\ Len(org) \in 0..1
  <2>1. orgPhysicalServer # None => orgPhysicalServer \in Connection
    BY DEF TypeOK
  <2>2. (org = <<orgPhysicalServer>> /\ orgPhysicalServer # None) \/ org = <<>>
    BY DEF OrgCandidate
  <2>3. orgPhysicalServer # None =>
          <<orgPhysicalServer>> \in Seq(Connection) /\ Len(<<orgPhysicalServer>>) = 1
    BY <2>1, SingleList
  <2>4. <<>> \in Seq(Connection) /\ Len(<<>>) = 0
    BY EmptyList
  <2> HIDE DEF org
  <2>5. CASE org = <<>>
    BY <2>4, <2>5
  <2>6. CASE org = <<orgPhysicalServer>> /\ orgPhysicalServer # None
    BY <2>3, <2>6
  <2> QED BY <2>2, <2>5, <2>6
<1>4. FallbackServersCount - Len(org) \in Nat /\ FallbackServersCount \in Nat
  <2>1. FallbackServersCount \in Nat /\ FallbackServersCount >= 3
    BY HandlerAssumption
  <2> HIDE DEF org
  <2>2. Len(org) \in 0..3
    BY <1>3
  <2> QED BY <2>1, <2>2, FewLess, Zenon
<1>5. UsableServers \in SUBSET Server /\ ScoredServers \in Seq(UsableServers)
  BY UsableIsReachable, SortedServers DEF ScoredServers
<1>6. /\ best \in Seq(UsableServers)
      /\ Len(best) <= FallbackServersCount - Len(org) /\ Len(best) \in Nat
  <2> DEFINE n == FallbackServersCount - Len(org)
  <2>1. n \in Nat
    BY <1>4
  <2> HIDE DEF n
  <2>2. /\ Take(ScoredServers, n) \in Seq(UsableServers) /\ Len(ScoredServers) \in Nat
        /\ Len(Take(ScoredServers, n)) = IF n < Len(ScoredServers) THEN n ELSE Len(ScoredServers)
    BY <1>5, <2>1, TakeProperties
  <2> QED BY <2>1, <2>2 DEF n
<1> HIDE DEF best
<1>7. /\ chosen \in Seq(Connection) /\ Len(chosen) = Len(best) /\ DOMAIN chosen = DOMAIN best
      /\ \A k \in DOMAIN chosen : /\ chosen[k].server = best[k]
                                   /\ chosen[k].address \in usable[best[k]]
  BY <1>1, <1>5, <1>6, PlacedProperties
<1>8. \A k \in DOMAIN chosen : chosen[k] \notin offline
  <2> TAKE k \in DOMAIN chosen
  <2>1. best[k] \in Server
    BY <1>5, <1>6, <1>7
  <2>2. chosen[k] \in Connection
    BY <1>7
  <2>3. usable[best[k]] = Online(best[k]) \ {orgPhysicalServer.address}
    BY <2>1
  <2>4. chosen[k].address \in usable[best[k]] /\ chosen[k].server = best[k]
    BY <1>7
  <2> HIDE DEF usable
  <2>5. chosen[k].address \in Online(chosen[k].server)
    BY <2>3, <2>4
  <2> QED BY <2>2, <2>5, OnlineMarked
<1> HIDE DEF org
<1>9. list \in Seq(Connection) /\ Len(list) <= FallbackServersCount
  <2>1. list \in Seq(Connection) /\ Len(list) = Len(org) + Len(chosen)
    BY <1>3, <1>7, JoinedList DEF Joins
  <2> QED BY <1>3, <1>4, <1>6, <1>7, <2>1
<1>10. \A k \in DOMAIN list :
            \/ list[k] \notin offline
            \/ k = 1 /\ org # <<>> /\ list[k] = orgPhysicalServer
  <2> TAKE k \in DOMAIN list
  <2>1. \/ k \in DOMAIN org /\ list[k] = org[k]
        \/ k - Len(org) \in DOMAIN chosen /\ list[k] = chosen[k - Len(org)]
    BY <1>3, <1>7, JoinedList DEF Joins
  <2>2. CASE k \in DOMAIN org /\ list[k] = org[k]
    <3>1. DOMAIN org = 1..Len(org)
      BY <1>3
    <3>2. k = 1 /\ Len(org) # 0
      BY <1>3, <2>2, <3>1
    <3>3. org # <<>>
      BY <3>2, EmptyList
    <3>4. org = <<orgPhysicalServer>>
      BY <3>3 DEF org, OrgCandidate
    <3>5. org[1] = orgPhysicalServer
      BY <3>4
    <3> QED BY <2>2, <3>2, <3>3, <3>5
  <2>3. CASE k - Len(org) \in DOMAIN chosen /\ list[k] = chosen[k - Len(org)]
    BY <1>8, <2>3
  <2> QED BY <2>1, <2>2, <2>3
<1> HIDE DEF list
<1>11. FallbackServers(list) \in Seq(Reachable) /\ Reachable \in SUBSET Server
  BY FallbackProperties, UsableIsReachable
<1>12. /\ fallbacks \in Seq(Connection) /\ Len(fallbacks) = Len(FallbackServers(list))
       /\ DOMAIN fallbacks = DOMAIN FallbackServers(list)
       /\ \A k \in DOMAIN fallbacks :
            /\ fallbacks[k].server = FallbackServers(list)[k]
            /\ fallbacks[k].address \in random[FallbackServers(list)[k]]
  BY <1>2, <1>11, PlacedProperties
<1>13. \A k \in DOMAIN fallbacks : fallbacks[k] \notin offline
  <2> TAKE k \in DOMAIN fallbacks
  <2>1. FallbackServers(list)[k] \in Reachable
    BY <1>11, <1>12
  <2>2. random[FallbackServers(list)[k]] = Online(FallbackServers(list)[k])
    BY <1>11, <2>1, UsableIsReachable
  <2>3. fallbacks[k] \in Connection
    BY <1>12
  <2>4. fallbacks[k].address \in Online(FallbackServers(list)[k])
    BY <1>11, <1>12, <2>1, <2>2
  <2> QED BY <1>12, <2>3, <2>4, OnlineMarked
<1>14. Gathering(list, fallbacks)
  BY <1>2, <1>9, <1>10, <1>12, <1>13 DEF Gathering, org
<1> QED BY <1>14

\* The fallbacks take the places of the last candidates, never that of the
\* first one unless secure core is expected.
LEMMA GatheringProperties ==
    ASSUME TypeOK, NEW list, NEW fallbacks, Gathering(list, fallbacks)
    PROVE  /\ candidates' \in Seq(Connection) /\ Len(candidates') <= FallbackServersCount
           /\ \A k \in DOMAIN candidates' :
                \/ k \in DOMAIN list /\ candidates'[k] = list[k]
                \/ \E j \in DOMAIN fallbacks : candidates'[k] = fallbacks[j]
           /\ \A j \in DOMAIN fallbacks : fallbacks[j] \in Range(candidates')
           /\ ~profile.secureCore /\ list # <<>> => list[1] \in Range(candidates')
           /\ fallbacks = <<>> => candidates' = list
<1> DEFINE n == FallbackServersCount - Len(fallbacks)
           taken == Take(list, n)
<1>1. /\ list \in Seq(Connection) /\ Len(list) <= FallbackServersCount
      /\ fallbacks \in Seq(Connection) /\ Len(fallbacks) = Len(FallbackServers(list))
      /\ candidates' = taken \o fallbacks
  BY DEF Gathering, WithFallbacks
<1>2. Len(fallbacks) \in 0..3 /\ (~profile.secureCore => Len(fallbacks) \in 0..2)
  BY <1>1, FallbackProperties, Zenon
<1>3. FallbackServersCount \in Nat /\ FallbackServersCount >= 3
  BY HandlerAssumption
<1>4. /\ n \in Nat /\ n + Len(fallbacks) = FallbackServersCount
      /\ ~profile.secureCore => n >= 1
      /\ Len(fallbacks) = 0 => n = FallbackServersCount
  <2> DEFINE m == Len(fallbacks)
  <2>1. m \in 0..3 /\ (~profile.secureCore => m \in 0..2)
    BY <1>2
  <2> HIDE DEF m
  <2>2. /\ FallbackServersCount - m \in Nat /\ FallbackServersCount - m + m = FallbackServersCount
        /\ (m \in 0..2 => FallbackServersCount - m >= 1)
        /\ (m = 0 => FallbackServersCount - m = FallbackServersCount)
    BY <1>3, <2>1
  <2> QED BY <2>1, <2>2, Zenon DEF m
<1> HIDE DEF n
<1>5. /\ taken \in Seq(Connection) /\ Len(list) \in Nat
      /\ Len(taken) = IF n < Len(list) THEN n ELSE Len(list)
      /\ \A k \in DOMAIN taken : k \in DOMAIN list /\ taken[k] = list[k]
      /\ Len(list) <= n => taken = list
  BY <1>1, <1>4, TakeProperties
<1> HIDE DEF taken
<1>6. candidates' \in Seq(Connection) /\ Joins(candidates', taken, fallbacks)
  <2>1. taken \in Seq(Connection) /\ fallbacks \in Seq(Connection)
    BY <1>1, <1>5
  <2> QED BY <1>1, <2>1, JoinedList, Zenon
<1>6a. /\ Len(candidates') = Len(taken) + Len(fallbacks)
       /\ Len(taken) \in Nat /\ Len(fallbacks) \in Nat
       /\ \A k \in DOMAIN candidates' :
            \/ k \in DOMAIN taken /\ candidates'[k] = taken[k]
            \/ /\ k - Len(taken) \in DOMAIN fallbacks
               /\ candidates'[k] = fallbacks[k - Len(taken)]
       /\ \A k \in DOMAIN taken : k \in DOMAIN candidates' /\ candidates'[k] = taken[k]
       /\ \A k \in DOMAIN fallbacks :
            /\ Len(taken) + k \in DOMAIN candidates'
            /\ candidates'[Len(taken) + k] = fallbacks[k]
  BY <1>6, Zenon DEF Joins
<1>7. Len(candidates') <= FallbackServersCount
  <2>1. Len(taken) <= n
    BY <1>4, <1>5
  <2> QED BY <1>1, <1>3, <1>4, <1>6a, <2>1
<1>8. \A k \in DOMAIN candidates' :
        \/ k \in DOMAIN list /\ candidates'[k] = list[k]
        \/ \E j \in DOMAIN fallbacks : candidates'[k] = fallbacks[j]
  BY <1>5, <1>6a, Zenon
<1>9. \A j \in DOMAIN fallbacks : fallbacks[j] \in Range(candidates')
  <2> TAKE j \in DOMAIN fallbacks
  <2>1. Len(taken) + j \in DOMAIN candidates' /\ candidates'[Len(taken) + j] = fallbacks[j]
    BY <1>6a, Zenon
  <2> QED BY <2>1, Zenon DEF Range
<1>10. ASSUME ~profile.secureCore, list # <<>> PROVE list[1] \in Range(candidates')
  <2>1. Len(list) >= 1
    BY <1>1, <1>10
  <2>2. Len(taken) >= 1
    BY <1>4, <1>5, <1>10, <2>1
  <2>3. 1 \in DOMAIN taken
    BY <1>5, <1>6a, <2>2
  <2>4. 1 \in DOMAIN candidates' /\ candidates'[1] = list[1]
    <3>1. \A k \in DOMAIN taken : taken[k] = list[k]
      BY <1>5
    <3>2. \A k \in DOMAIN taken : k \in DOMAIN candidates' /\ candidates'[k] = taken[k]
      BY <1>6a, Zenon
    <3> QED BY <2>3, <3>1, <3>2
  <2> QED BY <2>4, Zenon DEF Range
<1>11. ASSUME fallbacks = <<>> PROVE candidates' = list
  <2>1. Len(fallbacks) = 0
    BY <1>11
  <2>2. taken = list
    BY <1>1, <1>4, <1>5, <2>1
  <2> QED BY <1>1, <1>11, <2>2
<1> QED BY <1>1, <1>6, <1>7, <1>8, <1>9, <1>10, <1>11

\* Where the servers of a list are.
LEMMA CountriesFinite ==
    ASSUME NEW list \in Seq(Connection)
    PROVE  /\ IsFiniteSet(Countries(list)) /\ Cardinality(Countries(list)) \in Nat
           /\ \A k \in DOMAIN list : servers[list[k].server].country \in Countries(list)
           /\ \A c \in Countries(list) : \E k \in DOMAIN list : c = servers[list[k].server].country
           /\ list # <<>> => Countries(list) # {}
<1> DEFINE place == [k \in DOMAIN list |-> servers[list[k].server].country]
<1>1. DOMAIN list = 1..Len(list) /\ Len(list) \in Nat
  OBVIOUS
<1>2. IsFiniteSet(DOMAIN list)
  <2>1. 1 \in Int /\ Len(list) \in Int
    BY <1>1
  <2> QED BY <1>1, <2>1, FS_Interval, Zenon
<1>3. \A k \in DOMAIN list : servers[list[k].server].country \in Countries(list)
  BY Zenon DEF Countries, Range
<1>4. \A c \in Countries(list) : \E k \in DOMAIN list : c = servers[list[k].server].country
  BY Zenon DEF Countries, Range
<1>5. place \in Surjection(DOMAIN list, Countries(list))
  BY <1>3, <1>4 DEF Surjection
<1>6. IsFiniteSet(Countries(list))
  <2> HIDE DEF place
  <2> QED BY <1>2, <1>5, FS_Surjection, Zenon
<1>7. list # <<>> => 1 \in DOMAIN list
  BY <1>1
<1> QED BY <1>3, <1>4, <1>6, <1>7, FS_CardinalityType, Zenon

LEMMA TwoMembers ==
    ASSUME NEW set, IsFiniteSet(set), NEW c \in set, NEW d \in set, c # d
    PROVE  Cardinality(set) > 1
<1>1. Cardinality(set) \in Nat
  BY FS_CardinalityType
<1>2. Cardinality(set) # 0
  BY FS_EmptySet, Zenon
<1>3. Cardinality(set) # 1
  <2> SUFFICES ASSUME Cardinality(set) = 1 PROVE FALSE
    OBVIOUS
  <2>1. PICK x : set = {x}
    BY FS_Singleton, Zenon
  <2> QED BY <2>1
<1> QED BY <1>1, <1>2, <1>3

\* The candidates are of several countries if some usable server is of another
\* country than the first one.
LEMMA GatheringVaries ==
    ASSUME TypeOK, NEW list, NEW fallbacks, Gathering(list, fallbacks),
           ~profile.secureCore, candidates' # <<>>, UNCHANGED servers
    PROVE  \/ Cardinality(Countries(candidates')) > 1
           \/ \A s \in UsableServers : servers[s].country \in Countries(candidates')
<1>1. /\ list \in Seq(Connection) /\ fallbacks \in Seq(Connection)
      /\ Len(fallbacks) = Len(FallbackServers(list))
      /\ \A k \in DOMAIN fallbacks : fallbacks[k].server = FallbackServers(list)[k]
  BY DEF Gathering
<1>2. candidates' \in Seq(Connection)
  BY GatheringProperties
<1>3. /\ IsFiniteSet(Countries(candidates')) /\ Cardinality(Countries(candidates')) \in Nat
      /\ \A k \in DOMAIN candidates' : servers[candidates'[k].server].country \in Countries(candidates')
      /\ Countries(candidates') # {}
  BY <1>2, CountriesFinite
<1>4. FallbackServers(list) = OtherCity(list) \o OtherCountry(list)
  BY FallbackProperties
<1>5. /\ OtherCity(list) \in Seq(Reachable) /\ OtherCountry(list) \in Seq(Reachable)
      /\ Cardinality(Countries(list)) # 1 => OtherCity(list) = <<>> /\ OtherCountry(list) = <<>>
      /\ \A k \in DOMAIN OtherCountry(list) :
           servers[OtherCountry(list)[k]].country \notin Countries(list)
      /\ Cardinality(Countries(list)) = 1
           /\ (\E s \in UsableServers : servers[s].country \notin Countries(list))
         => Len(OtherCountry(list)) = 1
  BY OtherCityProperties, OtherCountryProperties
<1>6. CASE Cardinality(Countries(list)) # 1
  <2>1. Len(FallbackServers(list)) = 0
    <3>1. <<>> \o <<>> = <<>>
      OBVIOUS
    <3> QED BY <1>4, <1>5, <1>6, <3>1, EmptyList
  <2>2. fallbacks = <<>>
    BY <1>1, <2>1
  <2>3. candidates' = list
    BY <2>2, GatheringProperties
  <2>4. Cardinality(Countries(candidates')) # 1 /\ Cardinality(Countries(candidates')) # 0
    BY <1>3, <1>6, <2>3, FS_EmptySet, Zenon
  <2> QED BY <1>3, <2>4
<1>7. CASE Cardinality(Countries(list)) = 1
  <2>1. /\ IsFiniteSet(Countries(list))
        /\ \A k \in DOMAIN list : servers[list[k].server].country \in Countries(list)
        /\ \A c \in Countries(list) : \E k \in DOMAIN list : c = servers[list[k].server].country
    BY <1>1, CountriesFinite
  <2>2. PICK c : Countries(list) = {c}
    BY <1>7, <2>1, FS_Singleton, Zenon
  <2>3. list # <<>> /\ 1 \in DOMAIN list
    <3>1. PICK k \in DOMAIN list : c = servers[list[k].server].country
      BY <2>1, <2>2
    <3>2. DOMAIN list = 1..Len(list) /\ Len(list) \in Nat
      BY <1>1
    <3>3. 1 \in DOMAIN list
      BY <3>1, <3>2
    <3> QED BY <1>1, <3>3
  <2>4. c \in Countries(candidates')
    <3>1. list[1] \in Range(candidates')
      BY <2>3, GatheringProperties
    <3>2. PICK k \in DOMAIN candidates' : candidates'[k] = list[1]
      BY <3>1, Zenon DEF Range
    <3> QED BY <1>3, <2>1, <2>2, <2>3, <3>2
  <2>5. CASE \A s \in UsableServers : servers[s].country \in Countries(list)
    BY <2>2, <2>4, <2>5
  <2>6. CASE \E s \in UsableServers : servers[s].country \notin Countries(list)
    <3> DEFINE j == Len(OtherCity(list)) + 1
    <3>0. Joins(FallbackServers(list), OtherCity(list), OtherCountry(list))
      BY <1>4, <1>5, JoinedList
    <3>1. Len(OtherCountry(list)) = 1 /\ 1 \in DOMAIN OtherCountry(list)
      BY <1>5, <1>7, <2>6
    <3>2. j \in DOMAIN FallbackServers(list) /\ FallbackServers(list)[j] = OtherCountry(list)[1]
      BY <3>0, <3>1, Zenon DEF Joins
    <3>3. DOMAIN fallbacks = DOMAIN FallbackServers(list)
      <4>1. FallbackServers(list) \in Seq(Reachable)
        BY FallbackProperties
      <4> QED BY <1>1, <4>1
    <3> HIDE DEF j
    <3>4. fallbacks[j].server = OtherCountry(list)[1] /\ j \in DOMAIN fallbacks
      BY <1>1, <3>2, <3>3
    <3>5. fallbacks[j] \in Range(candidates')
      BY <3>4, GatheringProperties
    <3>6. PICK k \in DOMAIN candidates' : candidates'[k] = fallbacks[j]
      BY <3>5, Zenon DEF Range
    <3>7. servers[OtherCountry(list)[1]].country \in Countries(candidates')
      BY <1>3, <3>4, <3>6, Zenon
    <3>8. servers[OtherCountry(list)[1]].country # c
      BY <1>5, <2>2, <3>1
    <3> QED BY <1>3, <2>4, <3>7, <3>8, TwoMembers
  <2> QED BY <2>5, <2>6
<1> QED BY <1>6, <1>7

-----------------------------------------------------------------------------
\* The inductive invariant.

\* A call that has returned is over.
OneResult == result.kind # "none" => call.step = "idle"

HandlerInv ==
    /\ TypeOK /\ OneResult
    /\ CandidatesVary /\ CandidatesUsable /\ LossOfSecureCoreTold

LEMMA InitInv == Init => HandlerInv
<1> SUFFICES ASSUME Init PROVE HandlerInv
  OBVIOUS
<1>1. call.step = "idle" /\ call \in CallRecord
  BY DEF Init, NoCall, CallAt, CallRecord
<1>2. servers \in Seq(ServerRecord)
  BY HandlerAssumption DEF Init
<1>3. profile \in [country : {"blank"} \cup Country, secureCore : BOOLEAN]
  <2>1. \A s \in Server : servers[s].country \in Country
    <3>1. \A s \in Server : servers[s] \in ServerRecord
      BY <1>2 DEF Server
    <3> QED BY <3>1 DEF ServerRecord
  <2> QED BY <2>1 DEF Init
<1>4. candidates \in Seq(Connection) /\ Len(candidates) <= FallbackServersCount
  <2>1. candidates = <<>>
    BY DEF Init
  <2>2. 0 <= FallbackServersCount
    BY HandlerAssumption
  <2> QED BY <2>1, <2>2, EmptyList
<1>5. /\ offline \subseteq Connection /\ params \in Connection /\ result.kind = "none"
      /\ orgPhysicalServer \in Connection \cup {None}
  BY DEF Init
<1>6. TypeOK
  BY <1>1, <1>2, <1>3, <1>4, <1>5 DEF TypeOK
<1> QED BY <1>1, <1>5, <1>6 DEF HandlerInv, OneResult, CandidatesVary,
                                CandidatesUsable, LossOfSecureCoreTold, Gathered

\* A call goes on.
LEMMA GoneOn ==
    ASSUME TypeOK, NEW includeOrg \in BOOLEAN, NEW again \in BOOLEAN,
           NEW step \in {"idle", "info", "check", "fallback", "candidates", "ping"},
           GoOn(step, includeOrg, again)
    PROVE  /\ call' \in CallRecord /\ call'.trigger = call.trigger /\ call'.step = step
           /\ call'.includeOrg = includeOrg /\ call'.again = again
BY DEF GoOn, CallAt, CallRecord, TypeOK

LEMMA CallTyped == ASSUME TypeOK PROVE call.includeOrg \in BOOLEAN /\ call.again \in BOOLEAN
BY DEF TypeOK, CallRecord

\* A step that gathers no candidates and does not lead to another server.
LEMMA OtherStep ==
    ASSUME HandlerInv, result.kind = "none", call' \in CallRecord, call'.step # "ping",
           servers' \in Seq(ServerRecord), DOMAIN servers' = DOMAIN servers,
           UNCHANGED <<profile, params, candidates>>, offline' \subseteq Connection,
           orgPhysicalServer' \in Connection \cup {None},
           \/ result' = result
           \/ result'.kind \in {"stay", "error", "switchProfile"} /\ call'.step = "idle"
    PROVE  HandlerInv'
<1>1. Connection' = Connection
  BY DEF Connection, Server
<1>2. TypeOK'
  BY <1>1 DEF HandlerInv, TypeOK, None
<1>3. OneResult' /\ LossOfSecureCoreTold'
  BY DEF OneResult, LossOfSecureCoreTold
<1>4. CandidatesVary' /\ CandidatesUsable'
  BY DEF CandidatesVary, CandidatesUsable, Gathered
<1> QED BY <1>2, <1>3, <1>4 DEF HandlerInv

LEMMA NoFallbackStep ==
    ASSUME HandlerInv, call.step # "idle", NoFallback
    PROVE  HandlerInv'
<1>0. TypeOK /\ result.kind = "none"
  BY DEF HandlerInv, OneResult
<1>1. UNCHANGED <<servers, offline, profile, params, orgPhysicalServer, candidates>>
  BY DEF NoFallback, Return
<1>2. CASE call.again
  <2>1. GoOn("fallback", TRUE, FALSE) /\ UNCHANGED result
    BY <1>2 DEF NoFallback
  <2>2. call' \in CallRecord /\ call'.step = "fallback" /\ call'.includeOrg = TRUE
    BY <1>0, <2>1, GoneOn
  <2> QED BY <1>0, <1>1, <2>1, <2>2, OtherStep DEF TypeOK
<1>3. CASE ~call.again
  <2>1. /\ GoOn("idle", call.includeOrg, call.again)
        /\ result' = [kind |-> IF call.trigger \in {"auth", "unreachable"} THEN "error" ELSE "stay"]
    BY <1>3 DEF NoFallback, Return
  <2>2. call' \in CallRecord /\ call'.step = "idle"
    BY <1>0, <2>1, CallTyped, GoneOn
  <2>4. result'.kind \in {"stay", "error", "switchProfile"}
    BY <2>1
  <2> QED BY <1>0, <1>1, <2>2, <2>4, OtherStep DEF TypeOK
<1> QED BY <1>2, <1>3

LEMMA CallStep ==
    ASSUME HandlerInv, NEW trigger \in Triggers, Call(trigger)
    PROVE  HandlerInv'
<1> DEFINE step == CASE trigger = "auth" -> "info"
                     [] trigger = "maintenance" -> "check"
                     [] OTHER -> "fallback"
<1>0. TypeOK /\ result.kind = "none" /\ call' = CallAt(trigger, step, trigger = "unreachable", FALSE)
  BY DEF HandlerInv, Call
<1>1. UNCHANGED <<servers, offline, profile, params, orgPhysicalServer, candidates, result>>
  BY DEF Call
<1>2. step \in {"info", "check", "fallback"}
  OBVIOUS
<1> HIDE DEF step
<1>4. /\ call' \in CallRecord /\ call'.step = step /\ call'.trigger = trigger
      /\ call'.includeOrg = (trigger = "unreachable")
  BY <1>0, <1>2 DEF CallAt, CallRecord
<1>6. call'.step # "ping"
  BY <1>2, <1>4
<1> QED BY <1>0, <1>1, <1>4, <1>6, OtherStep DEF TypeOK

LEMMA RefreshStep == ASSUME HandlerInv, RefreshVpnInfo PROVE HandlerInv'
<1>0. TypeOK /\ result.kind = "none"
  BY DEF HandlerInv, OneResult, RefreshVpnInfo
<1>1. UNCHANGED <<servers, offline, profile, params, orgPhysicalServer, candidates>>
  BY DEF RefreshVpnInfo, Return
<1>2. \/ /\ GoOn("idle", call.includeOrg, call.again)
         /\ result' = [kind |-> "switchProfile"] \/ result' = [kind |-> "error"]
      \/ GoOn("check", call.includeOrg, call.again) /\ UNCHANGED result
  BY DEF RefreshVpnInfo, Return
<1>3. CASE GoOn("check", call.includeOrg, call.again) /\ UNCHANGED result
  <2>1. call' \in CallRecord /\ call'.step = "check"
    BY <1>0, <1>3, CallTyped, GoneOn
  <2> QED BY <1>0, <1>1, <1>3, <2>1, OtherStep DEF TypeOK
<1>4. CASE /\ GoOn("idle", call.includeOrg, call.again)
           /\ result' = [kind |-> "switchProfile"] \/ result' = [kind |-> "error"]
  <2>1. call' \in CallRecord /\ call'.step = "idle"
    BY <1>0, <1>4, CallTyped, GoneOn
  <2>3. result'.kind \in {"stay", "error", "switchProfile"}
    BY <1>4
  <2> QED BY <1>0, <1>1, <2>1, <2>3, OtherStep DEF TypeOK
<1> QED BY <1>2, <1>3, <1>4

LEMMA MaintenanceStep == ASSUME HandlerInv, MaintenanceCheck PROVE HandlerInv'
<1>0. TypeOK /\ result.kind = "none"
  BY DEF HandlerInv, OneResult, MaintenanceCheck
<1>1. UNCHANGED <<servers, profile, params, orgPhysicalServer, candidates>>
  BY DEF MaintenanceCheck
<1>2. /\ servers \in Seq(ServerRecord) /\ offline \subseteq Connection
      /\ orgPhysicalServer \in Connection \cup {None}
  BY <1>0 DEF TypeOK
<1>3. offline' \subseteq Connection
  <2>1. DomainsAt(params.address) \subseteq Connection
    BY DEF DomainsAt
  <2> QED BY <1>2, <2>1 DEF MaintenanceCheck, UpdateServerDomainStatus
<1>4. CASE GoOn("fallback", call.includeOrg, call.trigger = "auth") /\ UNCHANGED result
  <2>1. call' \in CallRecord /\ call'.step = "fallback"
    <3>1. (call.trigger = "auth") \in BOOLEAN
      OBVIOUS
    <3> QED BY <1>0, <1>4, <3>1, CallTyped, GoneOn
  <2> QED BY <1>0, <1>1, <1>2, <1>3, <1>4, <2>1, OtherStep
<1>5. CASE /\ GoOn("idle", call.includeOrg, call.again)
           /\ result' = [kind |-> "switchProfile"] \/ result' = [kind |-> "stay"]
  <2>1. call' \in CallRecord /\ call'.step = "idle"
    BY <1>0, <1>5, CallTyped, GoneOn
  <2>2. result'.kind \in {"stay", "error", "switchProfile"}
    BY <1>5
  <2> QED BY <1>0, <1>1, <1>2, <1>3, <2>1, <2>2, OtherStep
<1>6. CASE GoOn("fallback", TRUE, call.again) /\ UNCHANGED result
  <2>1. call' \in CallRecord /\ call'.step = "fallback"
    BY <1>0, <1>6, CallTyped, GoneOn
  <2> QED BY <1>0, <1>1, <1>2, <1>3, <1>6, <2>1, OtherStep
<1> QED BY <1>4, <1>5, <1>6 DEF MaintenanceCheck

LEMMA PrepareStep == ASSUME HandlerInv, PrepareFallback PROVE HandlerInv'
<1>0. TypeOK /\ result.kind = "none" /\ call.step = "fallback"
  BY DEF HandlerInv, OneResult, PrepareFallback
<1>1. CASE NoFallback
  BY <1>0, <1>1, NoFallbackStep
<1>2. CASE /\ \/ UNCHANGED servers
              \/ \E s \in Server, a \in Address :
                    servers' = [servers EXCEPT ![s].domains = @ \ {a}]
           /\ orgPhysicalServer' \in {params, None}
           /\ GoOn("candidates", call.includeOrg, call.again)
           /\ UNCHANGED <<offline, profile, params, candidates, result>>
  <2>1. /\ call' \in CallRecord /\ call'.step = "candidates" /\ call'.trigger = call.trigger
        /\ call'.includeOrg = call.includeOrg
    BY <1>0, <1>2, CallTyped, GoneOn
  <2>3. servers' \in Seq(ServerRecord) /\ DOMAIN servers' = DOMAIN servers
    <3>0. servers \in Seq(ServerRecord)
      BY <1>0 DEF TypeOK
    <3>1. CASE UNCHANGED servers
      BY <3>0, <3>1
    <3>2. CASE \E s \in Server, a \in Address :
                  servers' = [servers EXCEPT ![s].domains = @ \ {a}]
      <4>1. PICK s \in Server, a \in Address :
              servers' = [servers EXCEPT ![s] = [servers[s] EXCEPT !.domains = servers[s].domains \ {a}]]
        BY <3>2
      <4>2. servers[s] \in ServerRecord
        BY <3>0 DEF Server
      <4>3. [servers[s] EXCEPT !.domains = servers[s].domains \ {a}] \in ServerRecord
        BY <4>2 DEF ServerRecord
      <4> QED BY <3>0, <4>1, <4>3 DEF Server
    <3> QED BY <1>2, <3>1, <3>2
  <2>4. orgPhysicalServer' \in Connection \cup {None}
    BY <1>0, <1>2 DEF TypeOK
  <2> QED BY <1>0, <1>2, <2>1, <2>3, <2>4, OtherStep DEF TypeOK
<1> QED BY <1>1, <1>2 DEF PrepareFallback

\* The servers that can be used do not change while the candidates are pinged.
LEMMA SameUsable ==
    ASSUME UNCHANGED <<servers, offline, profile, orgPhysicalServer>>
    PROVE  UsableServers' = UsableServers
<1>1. \A s : Online(s)' = Online(s)
  BY DEF Online
<1> QED BY <1>1 DEF UsableServers, OnlineAccessibleServers, Server, None

LEMMA CandidatesStep == ASSUME HandlerInv, GetCandidateServers PROVE HandlerInv'
<1>0. /\ TypeOK /\ LossOfSecureCoreTold /\ result.kind = "none"
      /\ call.step = "candidates"
  BY DEF HandlerInv, OneResult, GetCandidateServers
<1>1. /\ UNCHANGED <<servers, offline, profile, params, orgPhysicalServer, result>>
      /\ GoOn("ping", call.includeOrg, call.again)
  BY DEF GetCandidateServers
<1>2. /\ call' \in CallRecord /\ call'.step = "ping" /\ call'.trigger = call.trigger
      /\ call'.includeOrg = call.includeOrg
  BY <1>0, <1>1, CallTyped, GoneOn
<1>3. PICK list, fallbacks : Gathering(list, fallbacks)
  BY <1>0, GatheringExists
<1>4. /\ candidates' \in Seq(Connection) /\ Len(candidates') <= FallbackServersCount
      /\ \A k \in DOMAIN candidates' :
           \/ k \in DOMAIN list /\ candidates'[k] = list[k]
           \/ \E j \in DOMAIN fallbacks : candidates'[k] = fallbacks[j]
  BY <1>0, <1>3, GatheringProperties
<1>5. TypeOK'
  <2>1. Connection' = Connection
    BY <1>1 DEF Connection, Server
  <2> QED BY <1>0, <1>1, <1>2, <1>4, <2>1 DEF TypeOK, None
<1>6. OneResult' /\ LossOfSecureCoreTold'
  BY <1>0, <1>1, <1>2 DEF OneResult, LossOfSecureCoreTold
<1>7. UsableServers' = UsableServers
  BY <1>1, SameUsable
<1>8. CandidatesUsable'
  <2> SUFFICES ASSUME NEW k \in DOMAIN candidates', candidates'[k] \in offline
               PROVE  call.includeOrg /\ k = 1 /\ candidates'[k] = orgPhysicalServer
    BY <1>1, <1>2 DEF CandidatesUsable
  <2>1. k = 1 /\ OrgCandidate # <<>> /\ candidates'[k] = orgPhysicalServer
    BY <1>3, <1>4 DEF Gathering
  <2> QED BY <2>1 DEF OrgCandidate
<1>9. CandidatesVary'
  <2> SUFFICES ASSUME ~profile.secureCore, candidates' # <<>>
               PROVE  \/ Cardinality(Countries(candidates)') > 1
                      \/ \A s \in UsableServers : servers[s].country \in Countries(candidates)'
    BY <1>1, <1>7 DEF CandidatesVary
  <2>1. Countries(candidates)' = Countries(candidates')
    BY <1>1 DEF Countries
  <2> QED BY <1>0, <1>1, <1>3, <2>1, GatheringVaries
<1> QED BY <1>5, <1>6, <1>8, <1>9 DEF HandlerInv

LEMMA PingStep == ASSUME HandlerInv, PingAll PROVE HandlerInv'
<1>0. TypeOK /\ result.kind = "none" /\ call.step = "ping"
  BY DEF HandlerInv, OneResult, PingAll
<1>1. CASE NoFallback
  BY <1>0, <1>1, NoFallbackStep
<1>2. ASSUME NEW winner, NEW address, NEW compatible \in BOOLEAN,
             Return([kind |-> "switchServer", to |-> winner, address |-> address,
                     notifyUser |-> ServerScore(winner.server) # 3 \/ ~compatible])
      PROVE  HandlerInv'
  <2> DEFINE told == ServerScore(winner.server) # 3 \/ ~compatible
  <2>1. /\ UNCHANGED <<servers, offline, profile, params, orgPhysicalServer, candidates>>
        /\ result' = [kind |-> "switchServer", to |-> winner, address |-> address, notifyUser |-> told]
        /\ GoOn("idle", call.includeOrg, call.again)
    BY <1>2 DEF Return
  <2>2. call' \in CallRecord /\ call'.step = "idle"
    BY <1>0, <2>1, CallTyped, GoneOn
  <2>3. profile.secureCore /\ servers[winner.server].kind # "secureCore" => told
    <3> SUFFICES ASSUME profile.secureCore, servers[winner.server].kind # "secureCore"
                 PROVE  ServerScore(winner.server) # 3
      OBVIOUS
    <3> DEFINE near == IF profile.country \in {"blank", servers[winner.server].country} THEN 1 ELSE 0
    <3>1. near \in {0, 1}
      BY Zenon
    <3>2. ServerScore(winner.server) = 0 + near
      BY Zenon DEF ServerScore
    <3> HIDE DEF near
    <3> QED BY <3>1, <3>2
  <2> HIDE DEF told
  <2>4. result'.kind = "switchServer" /\ result'.to = winner /\ result'.notifyUser = told
    BY <2>1
  <2>5. LossOfSecureCoreTold'
    BY <2>1, <2>3, <2>4 DEF LossOfSecureCoreTold
  <2>6. TypeOK'
    <3>1. Connection' = Connection
      BY <2>1 DEF Connection, Server
    <3> QED BY <1>0, <2>1, <2>2, <2>4, <3>1 DEF TypeOK, None
  <2>7. OneResult' /\ CandidatesVary' /\ CandidatesUsable'
    BY <2>2 DEF OneResult, CandidatesVary, CandidatesUsable, Gathered
  <2> QED BY <2>5, <2>6, <2>7 DEF HandlerInv
<1> QED BY <1>1, <1>2 DEF PingAll, Decide

LEMMA StepInv == HandlerInv /\ [Next]_vars => HandlerInv'
<1> SUFFICES ASSUME HandlerInv, [Next]_vars PROVE HandlerInv'
  OBVIOUS
<1>1. CASE UNCHANGED vars
  <2>0. UNCHANGED <<servers, offline, profile, params, call, orgPhysicalServer, candidates, result>>
    BY <1>1 DEF vars
  <2>1. UsableServers' = UsableServers
    BY <2>0, SameUsable
  <2>2. Connection' = Connection /\ Countries(candidates)' = Countries(candidates)
    BY <2>0 DEF Connection, Server, Countries
  <2> QED BY <2>0, <2>1, <2>2 DEF HandlerInv, TypeOK, OneResult, CandidatesVary,
             CandidatesUsable, LossOfSecureCoreTold, Gathered, None
<1> QED BY <1>1, CallStep, RefreshStep, MaintenanceStep, PrepareStep, CandidatesStep, PingStep
        DEF Next

LEMMA AlwaysInv == Spec => []HandlerInv
BY InitInv, StepInv, PTL DEF Spec

\* Every variable has its type: at most FALLBACK_SERVERS_COUNT candidates are
\* gathered, all of them servers of the list, although servers and addresses
\* leave the list while the handler is suspended.
THEOREM HandlerTypeCorrect == Spec => []TypeOK
<1>1. HandlerInv => TypeOK
  BY DEF HandlerInv
<1> QED BY <1>1, AlwaysInv, PTL

\* getCandidateServers offers no connecting domain that is marked as not online
\* except that of the original connection, and that one only in the first place and
\* where the caller includes it.  (What is marked is one object: another server's
\* object of the same domain, at the same address, may be offered.)
THEOREM OnlyUsableCandidates == Spec => []CandidatesUsable
<1>1. HandlerInv => CandidatesUsable
  BY DEF HandlerInv
<1> QED BY <1>1, AlwaysInv, PTL

\* Without secure core, the limit never cuts off the server of another country that
\* getCandidateServers adds when all candidates are of one.  (With secure core the
\* last resort may take the place of the only candidate of another country.)
THEOREM CandidatesOfSeveralCountries == Spec => []CandidatesVary
<1>1. HandlerInv => CandidatesVary
  BY DEF HandlerInv
<1> QED BY <1>1, AlwaysInv, PTL

\* A user with secure core is notified when fallbackToCompatibleServer leads to
\* a server without it.
THEOREM SecureCoreLossNotified == Spec => []LossOfSecureCoreTold
<1>1. HandlerInv => LossOfSecureCoreTold
  BY DEF HandlerInv
<1> QED BY <1>1, AlwaysInv, PTL
=============================================================================
