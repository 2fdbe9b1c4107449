-------------------------- MODULE Telemetry_proofs --------------------------
(***************************************************************************)
(* The list of telemetry events stays within its limit and in the order in *)
(* which the events were reported, and no event is lost, for any number of *)
(* events, of deaths of the process and of waiting writes, and any limit.  *)
(***************************************************************************)
EXTENDS Telemetry, FiniteSetTheorems, SequenceTheorems, TLAPS

-----------------------------------------------------------------------------
\* Lists.

\* How many of the places are before place i.
Rank(places, i) == Cardinality({j \in places : j < i})

\* Places in a list are finitely many.
LEMMA PlacesFinite ==
    ASSUME NEW n \in Nat, NEW places \in SUBSET (1..n)
    PROVE  IsFiniteSet(places) /\ IsFiniteSet(1..n) /\ Cardinality(1..n) = n
<1>1. n \in Int /\ 1 \in Int
  OBVIOUS
<1>2. IsFiniteSet(1..n) /\ Cardinality(1..n) = IF 1 > n THEN 0 ELSE n - 1 + 1
  BY <1>1, FS_Interval, Zenon
<1>3. Cardinality(1..n) = n
  BY <1>2
<1>4. IsFiniteSet(places)
  BY <1>2, FS_Subset, Zenon
<1> QED BY <1>2, <1>3, <1>4

\* Ranks of different places differ, in the order of the places.
LEMMA RankIncreases ==
    ASSUME NEW n \in Nat, NEW places \in SUBSET (1..n), NEW i \in places, NEW j \in places, i < j
    PROVE  Rank(places, i) < Rank(places, j)
<1> DEFINE below(k) == {l \in places : l < k}
<1>1. IsFiniteSet(places)
  BY PlacesFinite
<1>2. IsFiniteSet(below(i)) /\ IsFiniteSet(below(j))
  <2>1. below(i) \in SUBSET places /\ below(j) \in SUBSET places
    OBVIOUS
  <2> HIDE DEF below
  <2> QED BY <1>1, <2>1, FS_Subset
<1>3. below(i) \in SUBSET below(j)
  <2> SUFFICES ASSUME NEW l \in places, l < i PROVE l < j
    OBVIOUS
  <2>1. l \in Int /\ i \in Int /\ j \in Int
    OBVIOUS
  <2> QED BY <2>1
<1>4. i \in below(j) /\ i \notin below(i)
  <2>1. i \in Int
    OBVIOUS
  <2> QED BY <2>1
<1>5. Cardinality(below(i)) \in Nat /\ Cardinality(below(j)) \in Nat
  BY <1>2, FS_CardinalityType
<1> HIDE DEF below
<1>6. /\ Cardinality(below(i)) <= Cardinality(below(j))
      /\ Cardinality(below(j)) # Cardinality(below(i))
  BY <1>2, <1>3, <1>4, FS_Subset
<1> QED BY <1>5, <1>6 DEF Rank, below

\* The ranks of the places are the numbers below their count.
LEMMA RanksCover ==
    ASSUME NEW n \in Nat, NEW places \in SUBSET (1..n)
    PROVE  /\ Cardinality(places) \in 0..n
           /\ \A i \in places : Rank(places, i) \in 0..Cardinality(places) - 1
           /\ \A k \in 1..Cardinality(places) : \E i \in places : Rank(places, i) = k - 1
<1> DEFINE m == Cardinality(places)
           rank == [i \in places |-> Rank(places, i)]
<1>1. IsFiniteSet(1..n) /\ Cardinality(1..n) = n /\ IsFiniteSet(places)
  BY PlacesFinite
<1>2. m \in Nat /\ m <= n
  <2>1. Cardinality(places) <= Cardinality(1..n)
    BY <1>1, FS_Subset
  <2> QED BY <1>1, <2>1, FS_CardinalityType
<1>3. ASSUME NEW i \in places PROVE Rank(places, i) \in 0..m - 1
  <2> DEFINE below == {j \in places : j < i}
  <2>0. i \in Int
    OBVIOUS
  <2>1. below \in SUBSET places /\ i \in places /\ i \notin below
    BY <2>0
  <2> HIDE DEF below
  <2>2. /\ IsFiniteSet(below) /\ Cardinality(below) <= m
        /\ m # Cardinality(below)
    BY <1>1, <2>1, FS_Subset
  <2>3. Cardinality(below) \in Nat
    BY <2>2, FS_CardinalityType
  <2> QED BY <1>2, <2>2, <2>3 DEF Rank, below
<1>4. IsFiniteSet(0..m - 1) /\ Cardinality(0..m - 1) = m
  <2> HIDE DEF m
  <2>1. m - 1 \in Int /\ 0 \in Int
    BY <1>2
  <2>2. /\ IsFiniteSet(0..m - 1)
        /\ Cardinality(0..m - 1) = IF 0 > m - 1 THEN 0 ELSE (m - 1) - 0 + 1
    BY <2>1, FS_Interval, Zenon
  <2> QED BY <1>2, <2>2
<1>5. \A i, j \in places : Rank(places, i) = Rank(places, j) => i = j
  <2> SUFFICES ASSUME NEW i \in places, NEW j \in places, i # j
               PROVE  Rank(places, i) # Rank(places, j)
    OBVIOUS
  <2>1. i \in Nat /\ j \in Nat
    OBVIOUS
  <2>2. Rank(places, i) \in Int /\ Rank(places, j) \in Int
    BY <1>2, <1>3
  <2>3. i < j \/ j < i
    BY <2>1
  <2>4. i < j => Rank(places, i) < Rank(places, j)
    BY RankIncreases
  <2>5. j < i => Rank(places, j) < Rank(places, i)
    BY RankIncreases
  <2> QED BY <2>2, <2>3, <2>4, <2>5
<1> HIDE DEF m
<1>6. rank \in Injection(places, 0..m - 1)
  BY <1>3, <1>5 DEF Injection, IsInjective
<1>7. rank \in Surjection(places, 0..m - 1)
  <2> HIDE DEF rank
  <2> QED BY <1>1, <1>4, <1>6, FS_Injection DEF m
<1>8. \A k \in 0..m - 1 : \E i \in places : rank[i] = k
  BY <1>7 DEF Surjection
<1>9. \A k \in 1..m : \E i \in places : Rank(places, i) = k - 1
  <2> TAKE k \in 1..m
  <2>1. k - 1 \in 0..m - 1 BY <1>2 DEF m
  <2> QED BY <1>8, <2>1
<1> QED BY <1>2, <1>3, <1>9 DEF m

\* A list in the order in which its events were reported, none of them twice.
Sorted(list) == \A i, j \in DOMAIN list : i < j => list[i] < list[j]

\* The place whose event is the k-th that is selected.
Place(places, k) == CHOOSE i \in places : Rank(places, i) = k - 1

\* A selection from a list is a list of some of its events, in their order.
LEMMA SelectedProperties ==
    ASSUME NEW S, NEW list \in Seq(S), NEW places \in SUBSET DOMAIN list
    PROVE  /\ Selected(list, places) \in Seq(S)
           /\ Len(Selected(list, places)) <= Len(list)
           /\ ToSet(Selected(list, places)) = {list[i] : i \in places}
           /\ S \subseteq Int /\ Sorted(list) => Sorted(Selected(list, places))
<1> DEFINE m == Cardinality(places)
<1>1. Len(list) \in Nat /\ places \in SUBSET (1..Len(list)) /\ DOMAIN list = 1..Len(list)
  OBVIOUS
<1>2. /\ m \in 0..Len(list)
      /\ \A i \in places : Rank(places, i) \in 0..m - 1
      /\ \A k \in 1..m : \E i \in places : Rank(places, i) = k - 1
  BY <1>1, RanksCover
<1>3. \A k \in 1..m : Place(places, k) \in places /\ Rank(places, Place(places, k)) = k - 1
  BY <1>2 DEF Place
<1>4. Selected(list, places) = [k \in 1..m |-> list[Place(places, k)]]
  BY DEF Selected, Place, Rank
<1> HIDE DEF m
<1>5. Selected(list, places) \in Seq(S) /\ Len(Selected(list, places)) = m
  <2>1. \A k \in 1..m : list[Place(places, k)] \in S
    BY <1>1, <1>3
  <2> QED BY <1>2, <1>4, <2>1
<1>6. \A i \in places : \E k \in 1..m : Place(places, k) = i
  <2> TAKE i \in places
  <2>1. Rank(places, i) + 1 \in 1..m
    BY <1>2
  <2> DEFINE p == Place(places, Rank(places, i) + 1)
  <2>2. p \in places /\ Rank(places, p) = Rank(places, i)
    BY <1>2, <1>3, <2>1
  <2>3. Rank(places, i) \in Int /\ p \in Int /\ i \in Int
    BY <1>1, <1>2, <2>2
  <2> HIDE DEF p
  <2>4. ~(p < i) /\ ~(i < p)
    <3>1. p < i => Rank(places, p) < Rank(places, i)
      BY <1>1, <2>2, RankIncreases
    <3>2. i < p => Rank(places, i) < Rank(places, p)
      BY <1>1, <2>2, RankIncreases
    <3> QED BY <2>2, <2>3, <3>1, <3>2
  <2> QED BY <2>1, <2>3, <2>4 DEF p
<1>7. ToSet(Selected(list, places)) = {list[i] : i \in places}
  <2>1. ToSet(Selected(list, places)) = {list[Place(places, k)] : k \in 1..m}
    <3>1. DOMAIN Selected(list, places) = 1..m
      BY <1>4
    <3>2. \A k \in 1..m : Selected(list, places)[k] = list[Place(places, k)]
      BY <1>4
    <3> QED BY <3>1, <3>2 DEF ToSet
  <2> QED BY <1>3, <1>6, <2>1
<1>8. ASSUME S \subseteq Int, Sorted(list) PROVE Sorted(Selected(list, places))
  <2>1. SUFFICES ASSUME NEW k \in 1..m, NEW l \in 1..m, k < l
                 PROVE  list[Place(places, k)] < list[Place(places, l)]
    BY <1>2, <1>4, <1>5 DEF Sorted
  <2>2. /\ Place(places, k) \in places /\ Rank(places, Place(places, k)) = k - 1
        /\ Place(places, l) \in places /\ Rank(places, Place(places, l)) = l - 1
    BY <1>3
  <2>3. Place(places, k) \in Int /\ Place(places, l) \in Int
    BY <1>1, <2>2
  <2>4. Place(places, l) < Place(places, k) => l - 1 < k - 1
    BY <1>1, <2>2, RankIncreases
  <2>5. Place(places, k) # Place(places, l)
    BY <2>1, <2>2
  <2>6. Place(places, k) < Place(places, l)
    BY <2>1, <2>3, <2>4, <2>5
  <2> QED BY <1>1, <1>8, <2>2, <2>6 DEF Sorted
<1> QED BY <1>2, <1>5, <1>7, <1>8

\* A list that is left when some events are taken out of another one.
Part(part, list) ==
    /\ part \in Seq(Event) /\ Len(part) <= Len(list) /\ ToSet(part) \subseteq ToSet(list)
    /\ Sorted(list) => Sorted(part)

LEMMA Constants ==
    /\ MaxEvents \in Nat /\ MaxExpired \in Nat /\ MaxCrashes \in Nat /\ MaxQueue \in Nat
    /\ EventCountLimit \in Nat /\ EventCountLimit >= 1
    /\ Event \subseteq Int
BY TelemetryAssumption DEF Event

LEMMA ToSetTyped ==
    ASSUME NEW list \in Seq(Event) PROVE ToSet(list) \subseteq Event /\ ToSet(list) \subseteq Int
<1>1. \A i \in DOMAIN list : list[i] \in Event
  OBVIOUS
<1>2. ToSet(list) \subseteq Event
  BY <1>1 DEF ToSet
<1> QED BY <1>2, Constants

LEMMA SelectedIsPart ==
    ASSUME NEW list \in Seq(Event), NEW places \in SUBSET DOMAIN list
    PROVE  Part(Selected(list, places), list)
<1>1. {list[i] : i \in places} \subseteq ToSet(list)
  BY DEF ToSet
<1> QED BY <1>1, SelectedProperties, Constants DEF Part

\* The events that are not too old.
LEMMA FreshIsPart == ASSUME NEW list \in Seq(Event) PROVE Part(Fresh(list), list)
<1> DEFINE places == {i \in DOMAIN list : list[i] > expired}
<1>1. places \in SUBSET DOMAIN list
  OBVIOUS
<1> HIDE DEF places
<1>2. Part(Selected(list, places), list)
  BY <1>1, SelectedIsPart
<1> QED BY <1>2 DEF Fresh, places

\* The events that were not uploaded.
LEMMA WithoutProperties ==
    ASSUME NEW list \in Seq(Event), NEW events
    PROVE  /\ Part(Without(list, events), list)
           /\ ToSet(Without(list, events)) = ToSet(list) \ ToSet(events)
<1> DEFINE places == {i \in DOMAIN list : list[i] \notin ToSet(events)}
<1>1. places \in SUBSET DOMAIN list
  OBVIOUS
<1>2. {list[i] : i \in places} = ToSet(list) \ ToSet(events)
  BY DEF ToSet
<1> HIDE DEF places
<1>3. Part(Selected(list, places), list)
  BY <1>1, SelectedIsPart
<1>4. ToSet(Selected(list, places)) = {list[i] : i \in places}
  BY <1>1, SelectedProperties
<1> QED BY <1>2, <1>3, <1>4 DEF Without, places

\* The events of a stretch of the list.
LEMMA StretchIsPart ==
    ASSUME NEW list \in Seq(Event), NEW m \in Nat \ {0}, NEW n \in Int, n <= Len(list)
    PROVE  /\ Part(SubSeq(list, m, n), list)
           /\ m <= n + 1 => Len(SubSeq(list, m, n)) = n + 1 - m
           /\ n < m => SubSeq(list, m, n) = <<>>
<1> DEFINE part == SubSeq(list, m, n)
           length == IF m <= n THEN n + 1 - m ELSE 0
<1>1. part \in Seq(Event) /\ Len(part) = length /\ \A i \in 1..length : part[i] = list[m + i - 1]
  OBVIOUS
<1>2. \A i \in 1..length : m + i - 1 \in 1..Len(list)
  OBVIOUS
<1>3. n < m => part = <<>>
  OBVIOUS
<1> HIDE DEF part
<1>4. ToSet(part) \subseteq ToSet(list)
  <2> SUFFICES ASSUME NEW i \in 1..length PROVE part[i] \in ToSet(list)
    BY <1>1 DEF ToSet
  <2> QED BY <1>1, <1>2 DEF ToSet
<1>5. ASSUME Sorted(list) PROVE Sorted(part)
  <2> SUFFICES ASSUME NEW i \in 1..length, NEW j \in 1..length, i < j PROVE part[i] < part[j]
    BY <1>1 DEF Sorted
  <2> DEFINE a == m + i - 1
             b == m + j - 1
  <2>1. a < b /\ a \in DOMAIN list /\ b \in DOMAIN list
    BY <1>2
  <2>2. part[i] = list[a] /\ part[j] = list[b]
    BY <1>1
  <2> HIDE DEF a, b
  <2> QED BY <1>5, <2>1, <2>2 DEF Sorted
<1>6. length <= Len(list) /\ (m <= n + 1 => length = n + 1 - m)
  OBVIOUS
<1> QED BY <1>1, <1>3, <1>4, <1>5, <1>6 DEF Part, part

\* The list with one more event, which is its last.
LEMMA AddedLast ==
    ASSUME NEW list \in Seq(Event), NEW e \in Event, NEW longer, longer = Append(list, e)
    PROVE  /\ longer \in Seq(Event) /\ Len(longer) = Len(list) + 1
           /\ ToSet(longer) = ToSet(list) \cup {e}
           /\ Sorted(list) /\ (\A d \in ToSet(list) : d < e) => Sorted(longer)
<1>1. /\ longer \in Seq(Event) /\ Len(longer) = Len(list) + 1
      /\ longer[Len(list) + 1] = e /\ \A i \in 1..Len(list) : longer[i] = list[i]
  OBVIOUS
<1>2. ASSUME \A d \in ToSet(list) : d < e, Sorted(list) PROVE Sorted(longer)
  <2>0. \A i \in DOMAIN list : list[i] < e
    BY <1>2 DEF ToSet
  <2> SUFFICES ASSUME NEW i \in 1..Len(list) + 1, NEW j \in 1..Len(list) + 1, i < j
               PROVE  longer[i] < longer[j]
    BY <1>1 DEF Sorted
  <2>1. i \in 1..Len(list) /\ (j = Len(list) + 1 \/ j \in 1..Len(list))
    OBVIOUS
  <2> QED BY <1>1, <1>2, <2>0, <2>1 DEF Sorted
<1>3. e \in ToSet(longer)
  <2>1. Len(list) + 1 \in DOMAIN longer
    BY <1>1
  <2> QED BY <1>1, <2>1 DEF ToSet
<1>4. ToSet(longer) \subseteq ToSet(list) \cup {e}
  <2> SUFFICES ASSUME NEW i \in 1..Len(list) + 1 PROVE longer[i] \in ToSet(list) \cup {e}
    BY <1>1 DEF ToSet
  <2>1. i = Len(list) + 1 \/ i \in 1..Len(list)
    OBVIOUS
  <2> QED BY <1>1, <2>1 DEF ToSet
<1>5. ToSet(list) \subseteq ToSet(longer)
  <2>1. \A i \in 1..Len(list) : i \in DOMAIN longer
    BY <1>1
  <2> QED BY <1>1, <2>1 DEF ToSet
<1>6. ToSet(longer) = ToSet(list) \cup {e}
  BY <1>3, <1>4, <1>5
<1> QED BY <1>1, <1>2, <1>6

\* The list without its first event.
LEMMA FirstRemoved ==
    ASSUME NEW list \in Seq(Event), list # <<>>
    PROVE  /\ Part(Tail(list), list) /\ Len(Tail(list)) = Len(list) - 1
           /\ Head(list) \in Event
           /\ ToSet(list) \subseteq ToSet(Tail(list)) \cup {Head(list)}
<1>1. /\ Tail(list) = SubSeq(list, 2, Len(list)) /\ Len(list) \in Nat /\ 2 \in Nat \ {0}
      /\ Len(Tail(list)) = Len(list) - 1 /\ Head(list) = list[1] /\ Head(list) \in Event
      /\ Tail(list) \in Seq(Event)
      /\ \A i \in 1..Len(list) - 1 : Tail(list)[i] = list[i + 1]
  OBVIOUS
<1>2. Part(Tail(list), list)
  <2>1. Len(list) \in Int /\ Len(list) <= Len(list)
    BY <1>1
  <2>2. Part(SubSeq(list, 2, Len(list)), list)
    BY <1>1, <2>1, StretchIsPart, Zenon
  <2> QED BY <1>1, <2>2, Zenon
<1>3. ASSUME NEW i \in 1..Len(list) PROVE list[i] \in ToSet(Tail(list)) \cup {Head(list)}
  <2>1. CASE i = 1
    BY <1>1, <2>1
  <2>2. CASE i # 1
    <3> DEFINE j == i - 1
    <3>1. j \in 1..Len(list) - 1 /\ j + 1 = i /\ j \in DOMAIN Tail(list)
      BY <1>1, <2>2
    <3>2. Tail(list)[j] = list[i]
      BY <1>1, <3>1
    <3> HIDE DEF j
    <3> QED BY <3>1, <3>2 DEF ToSet
  <2> QED BY <2>1, <2>2
<1> QED BY <1>1, <1>2, <1>3 DEF ToSet

\* All events of one list were reported before all events of the other.
Before(earlier, later) == \A d \in ToSet(earlier), e \in ToSet(later) : d < e

\* One list after the other.
LEMMA JoinedProperties ==
    ASSUME NEW first \in Seq(Event), NEW second \in Seq(Event)
    PROVE  /\ first \o second \in Seq(Event) /\ Len(first \o second) = Len(first) + Len(second)
           /\ ToSet(first \o second) = ToSet(first) \cup ToSet(second)
           /\ Sorted(first) /\ Sorted(second) /\ Before(first, second) => Sorted(first \o second)
<1> DEFINE whole == first \o second
           n == Len(first)
<1>1. /\ whole \in Seq(Event) /\ Len(whole) = n + Len(second)
      /\ \A i \in 1..n : whole[i] = first[i]
      /\ \A i \in 1..Len(second) : whole[n + i] = second[i]
  OBVIOUS
<1>2. \A i \in 1..Len(whole) : i \in 1..n \/ (i > n /\ i - n \in 1..Len(second) /\ n + (i - n) = i)
  BY <1>1
<1>2a. (\A i \in 1..n : i \in 1..Len(whole)) /\ (\A i \in 1..Len(second) : n + i \in 1..Len(whole))
  BY <1>1
<1> HIDE DEF whole
<1>3. ToSet(whole) \subseteq ToSet(first) \cup ToSet(second)
  <2> SUFFICES ASSUME NEW i \in 1..Len(whole) PROVE whole[i] \in ToSet(first) \cup ToSet(second)
    BY <1>1 DEF ToSet
  <2>1. CASE i \in 1..n
    BY <1>1, <2>1 DEF ToSet
  <2>2. CASE i - n \in 1..Len(second) /\ n + (i - n) = i
    <3>1. whole[i] = second[i - n]
      BY <1>1, <2>2
    <3> QED BY <2>2, <3>1 DEF ToSet
  <2> QED BY <1>2, <2>1, <2>2
<1>4. ToSet(first) \subseteq ToSet(whole)
  BY <1>1, <1>2a DEF ToSet
<1>5. ToSet(second) \subseteq ToSet(whole)
  <2> SUFFICES ASSUME NEW i \in 1..Len(second) PROVE second[i] \in ToSet(whole)
    BY DEF ToSet
  <2>1. n + i \in DOMAIN whole /\ whole[n + i] = second[i]
    BY <1>1, <1>2a
  <2> QED BY <2>1 DEF ToSet
<1>6. ASSUME Sorted(first), Sorted(second), Before(first, second) PROVE Sorted(whole)
  <2>0. \A i \in DOMAIN first, j \in DOMAIN second : first[i] < second[j]
    BY <1>6 DEF Before, ToSet
  <2> SUFFICES ASSUME NEW i \in 1..Len(whole), NEW j \in 1..Len(whole), i < j
               PROVE  whole[i] < whole[j]
    BY <1>1 DEF Sorted
  <2>1. CASE j \in 1..n
    <3>1. i \in 1..n
      BY <2>1
    <3> QED BY <1>1, <1>6, <2>1, <3>1 DEF Sorted
  <2>2. CASE j - n \in 1..Len(second) /\ n + (j - n) = j
    <3>1. whole[j] = second[j - n]
      BY <1>1, <2>2
    <3>2. CASE i \in 1..n
      BY <1>1, <2>0, <2>2, <3>1, <3>2
    <3>3. CASE i - n \in 1..Len(second) /\ n + (i - n) = i
      <4>1. whole[i] = second[i - n] /\ i - n < j - n
        BY <1>1, <3>3
      <4> QED BY <1>6, <2>2, <3>1, <3>3, <4>1 DEF Sorted
    <3> QED BY <1>2, <3>2, <3>3
  <2> QED BY <1>2, <2>1, <2>2
<1> QED BY <1>1, <1>3, <1>4, <1>5, <1>6 DEF whole

\* The cached events before the ones of the list.
LEMMA MergedProperties ==
    ASSUME NEW events \in Seq(Event), pendingEvents \in Seq(Event),
           Len(pendingEvents) <= EventCountLimit
    PROVE  /\ Merged(events) \in Seq(Event) /\ Len(Merged(events)) <= EventCountLimit
           /\ ToSet(pendingEvents) \subseteq ToSet(Merged(events))
           /\ ToSet(Merged(events)) \subseteq ToSet(events) \cup ToSet(pendingEvents)
           /\ Sorted(events) /\ Sorted(pendingEvents) /\ Before(events, pendingEvents)
              => Sorted(Merged(events))
<1> DEFINE excess == Len(events) + Len(pendingEvents) - EventCountLimit
           from == 1 + (IF excess > 0 THEN excess ELSE 0)
           taken == SubSeq(events, from, Len(events))
<1>1. from \in Nat \ {0} /\ from <= Len(events) + 1
  BY Constants
<1>2. Len(events) + 1 - from + Len(pendingEvents) <= EventCountLimit
  BY Constants
<1>3. Merged(events) = taken \o pendingEvents
  BY DEF Merged
<1> HIDE DEF from
<1>4. Part(taken, events) /\ Len(taken) = Len(events) + 1 - from
  BY <1>1, StretchIsPart
<1> HIDE DEF taken
<1>5. /\ taken \o pendingEvents \in Seq(Event)
      /\ Len(taken \o pendingEvents) = Len(taken) + Len(pendingEvents)
      /\ ToSet(taken \o pendingEvents) = ToSet(taken) \cup ToSet(pendingEvents)
      /\ Sorted(taken) /\ Sorted(pendingEvents) /\ Before(taken, pendingEvents)
         => Sorted(taken \o pendingEvents)
  BY <1>4, JoinedProperties DEF Part
<1>6. Before(events, pendingEvents) => Before(taken, pendingEvents)
  BY <1>4 DEF Part, Before
<1> QED BY <1>2, <1>3, <1>4, <1>5, <1>6 DEF Part

LEMMA PartOfPart ==
    ASSUME NEW list \in Seq(Event), NEW part, NEW smaller, Part(part, list), Part(smaller, part)
    PROVE  Part(smaller, list)
BY DEF Part

\* Whatever the race does to the list, some of its events are left, in order.
LEMMA RemovalIsPart ==
    ASSUME pendingEvents \in Seq(Event), NEW kept, Part(kept, pendingEvents),
           NEW list \in Removal(kept)
    PROVE  Part(list, pendingEvents)
<1>2. kept \in Seq(Event) /\ Len(kept) <= Len(pendingEvents) /\ Len(kept) \in Nat
  BY DEF Part
<1>3. Part(SubSeq(pendingEvents, 1, Len(kept)), pendingEvents)
  BY <1>2, StretchIsPart
<1>4. Part(SubSeq(kept, 1, Len(kept) - 1), kept)
  <2>1. Len(kept) - 1 \in Int /\ Len(kept) - 1 <= Len(kept) /\ 1 \in Nat \ {0}
    BY <1>2
  <2> QED BY <1>2, <2>1, StretchIsPart
<1>5. Part(SubSeq(kept, 1, Len(kept) - 1), pendingEvents)
  BY <1>4, PartOfPart
<1> QED BY <1>3, <1>5 DEF Removal

\* What is left of the list when removeIf ends.
LEMMA DiscardedIsPart ==
    ASSUME pendingEvents \in Seq(Event), NEW list \in Removal(Fresh(pendingEvents))
    PROVE  Part(list, pendingEvents)
BY FreshIsPart, RemovalIsPart

\* What is left of the list when removeAll ends.
LEMMA RemainingIsPart ==
    ASSUME pendingEvents \in Seq(Event), NEW list \in Remaining
    PROVE  Part(list, pendingEvents)
BY WithoutProperties, RemovalIsPart DEF Remaining, Rest

-----------------------------------------------------------------------------
\* Types and the limit.

ListsTyped == TypeOK /\ (main = "add" => next > 1) /\ WithinLimit

Task == [op : {"load", "save"}, events : Seq(Event)]

LEMMA InitTyped == Init => ListsTyped
<1> SUFFICES ASSUME Init PROVE ListsTyped
  OBVIOUS
<1>1. serialIo \in Seq([op : {"load", "save"}, events : Seq(Event)])
  <2>1. Load \in [op : {"load", "save"}, events : Seq(Event)]
    BY DEF Load
  <2> QED BY <2>1 DEF Init
<1>2. next \in 1..MaxEvents + 1 /\ expired \in 0..MaxEvents /\ crashes \in 0..MaxCrashes
  BY Constants DEF Init
<1>3. /\ pendingEvents \in Seq(Event) /\ mainCopy \in Seq(Event) /\ cached \in Seq(Event)
      /\ file \in Seq(Event) /\ toUpload \in Seq(Event) /\ workerCopy \in Seq(Event)
      /\ Len(pendingEvents) <= EventCountLimit
  BY Constants DEF Init
<1>4. isEnabled \in BOOLEAN /\ hasMore \in BOOLEAN /\ raced \subseteq {"modified", "now", "lost"}
  BY DEF Init
<1>5. main = "idle" /\ loader = "loading" /\ work = "none" /\ worker = "idle" /\ settled = {}
  BY DEF Init
<1>6. WithinLimit
  BY <1>3, <1>5, Constants DEF WithinLimit
<1> QED BY <1>1, <1>2, <1>3, <1>4, <1>5, <1>6 DEF ListsTyped, TypeOK

LEMMA OverlapTyped == Overlap \subseteq {"modified", "now", "lost"}
BY DEF Overlap

LEMMA MainTyped == ListsTyped /\ MainStep => ListsTyped'
<1> SUFFICES ASSUME ListsTyped, MainStep PROVE ListsTyped'
  OBVIOUS
<1> USE Constants DEF ListsTyped, TypeOK, WithinLimit, workerVars, cacheVars, mainVars
<1>1. CASE ReportEvent
  BY <1>1 DEF ReportEvent, ScheduleTelemetryUpload
<1>2. CASE AddEvent
  <2>1. next - 1 \in Event
    BY <1>2 DEF AddEvent, Event
  <2>2. pendingEvents' \in Seq(Event) /\ Len(pendingEvents') = Len(pendingEvents) + 1
    BY <1>2, <2>1, AddedLast DEF AddEvent
  <2>3. raced' \subseteq {"modified", "now", "lost"}
    BY <1>2, OverlapTyped DEF AddEvent
  <2> QED BY <1>2, <2>2, <2>3 DEF AddEvent
<1>2a. CASE TrimEvents
  <2>1. CASE Len(pendingEvents) > EventCountLimit
    <3>1. pendingEvents # <<>>
      BY <2>1
    <3>2. /\ Tail(pendingEvents) \in Seq(Event)
          /\ Len(Tail(pendingEvents)) = Len(pendingEvents) - 1 /\ Head(pendingEvents) \in Event
      BY <3>1, FirstRemoved DEF Part
    <3>3. pendingEvents' = Tail(pendingEvents) /\ settled' = settled \cup {Head(pendingEvents)}
      BY <1>2a, <2>1 DEF TrimEvents
    <3>4. raced' \subseteq {"modified", "now", "lost"}
      BY <1>2a, <2>1, OverlapTyped DEF TrimEvents
    <3>5. pendingEvents' \in Seq(Event) /\ Len(pendingEvents') <= EventCountLimit
      <4>1. Len(pendingEvents) \in Nat /\ Len(pendingEvents) <= EventCountLimit + 1
        BY <1>2a DEF TrimEvents
      <4>2. /\ pendingEvents' \in Seq(Event)
            /\ Len(pendingEvents') = Len(pendingEvents) - 1
        BY <3>2, <3>3, Zenon
      <4> QED BY <4>1, <4>2
    <3>6. settled' \subseteq Event
      BY <3>2, <3>3
    <3>7. /\ main' = "save"
          /\ UNCHANGED <<isEnabled, mainCopy, cacheVars, work, worker, toUpload, workerCopy,
                         hasMore, next, expired, crashes>>
      BY <1>2a DEF TrimEvents
    <3> QED BY <3>4, <3>5, <3>6, <3>7
  <2>2. CASE ~(Len(pendingEvents) > EventCountLimit)
    <3>1. Len(pendingEvents) <= EventCountLimit /\ UNCHANGED <<pendingEvents, settled, raced>>
      BY <1>2a, <2>2 DEF TrimEvents
    <3> QED BY <1>2a, <3>1 DEF TrimEvents
  <2> QED BY <2>1, <2>2
<1>3. CASE CopyEvents
  BY <1>3 DEF CopyEvents
<1>4. CASE LaunchSave
  BY <1>4 DEF LaunchSave, Launch, Save
<1>5. CASE CacheLoaded
  <2>1. pendingEvents' \in Seq(Event) /\ Len(pendingEvents') <= EventCountLimit
    <3>1. Len(pendingEvents) <= EventCountLimit
      BY <1>5 DEF CacheLoaded
    <3> QED BY <1>5, <3>1, MergedProperties DEF CacheLoaded
  <2>2. ToSet(cached) \subseteq Event
    BY DEF ToSet
  <2>3. settled' \subseteq Event
    BY <1>5, <2>2 DEF CacheLoaded
  <2> QED BY <1>5, <2>1, <2>3 DEF CacheLoaded
<1> QED BY <1>1, <1>2, <1>2a, <1>3, <1>4, <1>5 DEF MainStep

\* The task that the file's thread takes from its queue, and the others.
LEMMA HeadTask ==
    ASSUME NEW T, NEW queue \in Seq(T), queue # <<>>
    PROVE  /\ 1 \in DOMAIN queue /\ Head(queue) = queue[1] /\ Head(queue) \in T
           /\ Tail(queue) \in Seq(T) /\ Len(Tail(queue)) = Len(queue) - 1
           /\ \A i \in DOMAIN Tail(queue) : i + 1 \in DOMAIN queue /\ Tail(queue)[i] = queue[i + 1]
OBVIOUS

LEMMA FileTyped == ListsTyped /\ FileStep => ListsTyped'
<1> SUFFICES ASSUME ListsTyped, FileStep PROVE ListsTyped'
  OBVIOUS
<1> USE Constants DEF ListsTyped, TypeOK, WithinLimit, workerVars, mainVars
<1>0. serialIo # <<>> => /\ Head(serialIo).events \in Seq(Event)
                         /\ Tail(serialIo) \in Seq([op : {"load", "save"}, events : Seq(Event)])
  <2>1. serialIo \in Seq(Task)
    BY DEF Task
  <2>2. serialIo # <<>> => Head(serialIo) \in Task /\ Tail(serialIo) \in Seq(Task)
    BY <2>1, HeadTask
  <2> QED BY <2>2 DEF Task
<1>1. CASE ReadFile
  <2>1. cached' \in Seq(Event)
    BY <1>1, FreshIsPart DEF ReadFile, Part
  <2>2. ToSet(file) \subseteq Event
    BY DEF ToSet
  <2> QED BY <1>0, <1>1, <2>1, <2>2 DEF ReadFile
<1>2. CASE WriteFile
  BY <1>0, <1>2 DEF WriteFile
<1> QED BY <1>1, <1>2 DEF FileStep

LEMMA WorkerTyped == ListsTyped /\ WorkerStep => ListsTyped'
<1> SUFFICES ASSUME ListsTyped, WorkerStep PROVE ListsTyped'
  OBVIOUS
<1> USE Constants DEF ListsTyped, TypeOK, WithinLimit, mainVars, cacheVars
<1>0. ToSet(pendingEvents) \subseteq Event /\ ToSet(toUpload) \subseteq Event
  BY DEF ToSet
<1>1. CASE StartWork
  BY <1>1 DEF StartWork
<1>2. CASE NoNetwork
  BY <1>2 DEF NoNetwork
<1>3. CASE ClearData
  <2>1. settled' \subseteq Event
    BY <1>0, <1>3 DEF ClearData
  <2> QED BY <1>3, <2>1 DEF ClearData
<1>4. CASE SaveCleared
  <2>1. serialIo' \in Seq([op : {"load", "save"}, events : Seq(Event)])
    <3>1. Save(<<>>) \in [op : {"load", "save"}, events : Seq(Event)]
      BY DEF Save
    <3> QED BY <1>4, <3>1 DEF SaveCleared, Launch
  <2> QED BY <1>4, <2>1 DEF SaveCleared
<1>5. CASE SendEvents
  BY <1>5 DEF SendEvents
<1>5a. CASE DiscardEvents
  BY <1>5a DEF DiscardEvents
<1>5b. CASE EventsDiscarded
  <2>1. pendingEvents' \in Seq(Event) /\ Len(pendingEvents') <= Len(pendingEvents)
    BY <1>5b, DiscardedIsPart DEF EventsDiscarded, Part
  <2>2. settled' \subseteq Event /\ raced' \subseteq {"modified", "now", "lost"}
    BY <1>0, <1>5b DEF EventsDiscarded, Damaged
  <2>3. /\ worker = "discarding" /\ worker' = "copying"
        /\ UNCHANGED <<isEnabled, mainVars, cacheVars, work, toUpload, workerCopy, hasMore,
                       next, expired, crashes>>
    BY <1>5b DEF EventsDiscarded
  <2> QED BY <2>1, <2>2, <2>3
<1>5c. CASE DiscardThrows
  BY <1>5c DEF DiscardThrows
<1>5d. CASE FailWork
  BY <1>5d DEF FailWork
<1>6. CASE UploadSucceeds
  BY <1>0, <1>6 DEF UploadSucceeds
<1>7. CASE UploadFails
  BY <1>0, <1>7 DEF UploadFails
<1>8. CASE RemoveUploaded
  <2>1. pendingEvents' \in Seq(Event) /\ Len(pendingEvents') <= Len(pendingEvents)
    BY <1>8, RemainingIsPart DEF RemoveUploaded, Part
  <2>2. raced' \subseteq {"modified", "now", "lost"}
    BY <1>8 DEF RemoveUploaded, Damaged
  <2>3. /\ worker = "removing" /\ worker' = "save"
        /\ UNCHANGED <<isEnabled, mainVars, cacheVars, work, toUpload, workerCopy,
                       hasMore, next, expired, crashes, settled>>
    BY <1>8 DEF RemoveUploaded
  <2> QED BY <2>1, <2>2, <2>3
<1>9. CASE CopyRemaining
  BY <1>9 DEF CopyRemaining
<1>10. CASE SaveRemaining
  BY <1>10 DEF SaveRemaining, Launch, Save
<1>11. CASE ComputeHasMore
  BY <1>11 DEF ComputeHasMore
<1>12. CASE FinishWork
  <2>1. work' \in {"none", "enqueued"}
    BY <1>12 DEF FinishWork
  <2>2. hasMore' \in BOOLEAN
    BY <1>12, Zenon DEF FinishWork
  <2>2a. toUpload' \in Seq(Event)
    <3>1. toUpload' = <<>>
      BY <1>12 DEF FinishWork
    <3> QED BY <3>1
  <2>3. /\ worker' = "idle"
        /\ UNCHANGED <<pendingEvents, isEnabled, mainVars, cacheVars, workerCopy, raced,
                       next, expired, crashes, settled>>
    BY <1>12 DEF FinishWork
  <2> QED BY <2>1, <2>2, <2>2a, <2>3
<1>13. CASE RetryWork
  BY <1>13 DEF RetryWork
<1> QED BY <1>1, <1>2, <1>3, <1>4, <1>5, <1>5a, <1>5b, <1>5c, <1>5d, <1>6, <1>7, <1>8, <1>9,
           <1>10, <1>11, <1>12, <1>13
        DEF WorkerStep

\* What a death of the process leaves in the file.
LEMMA CrashFile ==
    ASSUME TypeOK, Crash
    PROVE  /\ file' \in Seq(Event)
           /\ \/ file' = file
              \/ serialIo # <<>> /\ Part(file', serialIo[1].events)
<1>1. CASE UNCHANGED file
  BY <1>1 DEF TypeOK
<1>2. CASE /\ serialIo # <<>>
           /\ \E n \in 0..Len(Head(serialIo).events) : file' = SubSeq(Head(serialIo).events, 1, n)
  <2>1. serialIo[1].events \in Seq(Event) /\ Head(serialIo) = serialIo[1]
    <3>1. serialIo \in Seq(Task)
      BY DEF TypeOK, Task
    <3>2. Head(serialIo) = serialIo[1] /\ Head(serialIo) \in Task
      BY <1>2, <3>1, HeadTask
    <3> QED BY <3>2 DEF Task
  <2>2. PICK n \in 0..Len(serialIo[1].events) : file' = SubSeq(serialIo[1].events, 1, n)
    BY <1>2, <2>1
  <2>3. n \in Int /\ n <= Len(serialIo[1].events) /\ 1 \in Nat \ {0}
    BY <2>1
  <2>4. Part(file', serialIo[1].events)
    BY <2>1, <2>2, <2>3, StretchIsPart
  <2> QED BY <1>2, <2>4 DEF Part
<1> QED BY <1>1, <1>2 DEF Crash

LEMMA OtherTyped == ListsTyped /\ (Toggle \/ GrowOld \/ Crash \/ UNCHANGED vars) => ListsTyped'
<1> SUFFICES ASSUME ListsTyped, Toggle \/ GrowOld \/ Crash \/ UNCHANGED vars PROVE ListsTyped'
  OBVIOUS
<1> USE Constants DEF ListsTyped, TypeOK, WithinLimit, mainVars, cacheVars, workerVars
<1>1. CASE Toggle
  BY <1>1 DEF Toggle
<1>2. CASE GrowOld
  BY <1>2 DEF GrowOld
<1>3. CASE Crash
  <2>1. file' \in Seq(Event)
    BY <1>3, CrashFile
  <2>2. 1..next - 1 \subseteq Event
    BY DEF Event
  <2>3. crashes' \in 0..MaxCrashes
    BY <1>3 DEF Crash
  <2>4. serialIo' \in Seq([op : {"load", "save"}, events : Seq(Event)])
    <3>1. Load \in [op : {"load", "save"}, events : Seq(Event)]
      BY DEF Load
    <3> QED BY <1>3, <3>1 DEF Crash
  <2>5. settled' \subseteq Event
    BY <1>3, <2>2 DEF Crash
  <2>6. work' \in {"none", "enqueued"}
    BY <1>3 DEF Crash
  <2>7. /\ pendingEvents' \in Seq(Event) /\ mainCopy' \in Seq(Event) /\ cached' \in Seq(Event)
        /\ toUpload' \in Seq(Event) /\ workerCopy' \in Seq(Event)
        /\ Len(pendingEvents') <= EventCountLimit
    BY <1>3 DEF Crash
  <2>8. hasMore' \in BOOLEAN /\ raced' \subseteq {"modified", "now", "lost"}
    BY <1>3 DEF Crash
  <2>9. main' = "idle" /\ loader' = "loading" /\ worker' = "idle" /\ UNCHANGED <<isEnabled, next, expired>>
    BY <1>3 DEF Crash
  <2> QED BY <2>1, <2>3, <2>4, <2>5, <2>6, <2>7, <2>8, <2>9, SMTT(30)
<1>4. CASE UNCHANGED vars
  BY <1>4 DEF vars
<1> QED BY <1>1, <1>2, <1>3, <1>4

LEMMA StepTyped == ListsTyped /\ [Next]_vars => ListsTyped'
BY MainTyped, FileTyped, WorkerTyped, OtherTyped DEF Next

\* Every variable has its type in every reachable state: event() appends only
\* events that were reported, the file's thread reads and writes lists of them,
\* and the unique work runs exactly while uploadPendingEvents does.
THEOREM TelemetryTypeCorrect == Safety => []TypeOK
<1>1. ListsTyped => TypeOK
  BY DEF ListsTyped
<1> QED BY <1>1, InitTyped, StepTyped, PTL DEF Safety

\* The list never exceeds MAX_EVENT_COUNT, but for the event that addEvent adds
\* before it removes the first, whatever addEvent, loadCache and a race with
\* removeIf or removeAll do to it.
THEOREM ListWithinLimit == Safety => []WithinLimit
<1>1. ListsTyped => WithinLimit
  BY DEF ListsTyped
<1> QED BY <1>1, InitTyped, StepTyped, PTL DEF Safety

-----------------------------------------------------------------------------
\* The order.

\* The cache is read once, before anything is written: until then the file is
\* what the last process left, afterwards the file's thread only writes.
Loading ==
    /\ loader = "loading" =>
        /\ serialIo # <<>> /\ serialIo[1].op = "load" /\ cached = <<>>
        /\ \A i \in DOMAIN serialIo : i > 1 => serialIo[i].op = "save"
    /\ loader # "loading" => \A i \in DOMAIN serialIo : serialIo[i].op = "save"

\* A write that is launched comes after the ones that wait.
LEMMA LaunchedTask ==
    ASSUME TypeOK, NEW events \in Seq(Event), Launch(events)
    PROVE  /\ serialIo' # <<>> /\ Len(serialIo') = Len(serialIo) + 1
           /\ DOMAIN serialIo = 1..Len(serialIo) /\ DOMAIN serialIo' = 1..Len(serialIo) + 1
           /\ Len(serialIo) \in Nat
           /\ \A i \in DOMAIN serialIo : serialIo'[i] = serialIo[i]
           /\ serialIo'[Len(serialIo) + 1] = Save(events)
<1>1. serialIo \in Seq(Task) /\ Save(events) \in Task
  BY DEF TypeOK, Task, Save
<1>2. serialIo' = Append(serialIo, Save(events))
  BY DEF Launch
<1> QED BY <1>1, <1>2

LEMMA LaunchLoading ==
    ASSUME TypeOK, Loading, NEW events \in Seq(Event), Launch(events), UNCHANGED <<loader, cached>>
    PROVE  Loading'
<1>1. serialIo'[Len(serialIo) + 1].op = "save"
  <2>1. Save(events).op = "save"
    BY DEF Save
  <2>2. serialIo'[Len(serialIo) + 1] = Save(events)
    BY LaunchedTask
  <2> QED BY <2>1, <2>2
<1>2. \A i \in DOMAIN serialIo' : i \in DOMAIN serialIo \/ i = Len(serialIo) + 1
  BY LaunchedTask
<1>3. serialIo # <<>> => 1 \in DOMAIN serialIo
  <2>1. serialIo \in Seq(Task)
    BY DEF TypeOK, Task
  <2> QED BY <2>1, HeadTask
<1>4. \A i \in DOMAIN serialIo : serialIo'[i] = serialIo[i]
  BY LaunchedTask
<1>5. CASE loader = "loading"
  <2>1. serialIo'[1].op = "load"
    BY <1>3, <1>4, <1>5 DEF Loading
  <2>2. \A i \in DOMAIN serialIo' : i > 1 => serialIo'[i].op = "save"
    BY <1>1, <1>2, <1>4, <1>5 DEF Loading
  <2>3. serialIo' # <<>>
    BY LaunchedTask
  <2> QED BY <1>5, <2>1, <2>2, <2>3 DEF Loading
<1>6. CASE loader # "loading"
  <2>1. \A i \in DOMAIN serialIo' : serialIo'[i].op = "save"
    BY <1>1, <1>2, <1>4, <1>6 DEF Loading
  <2> QED BY <1>6, <2>1 DEF Loading
<1> QED BY <1>5, <1>6

\* The queue after its first task is taken.
LEMMA TakenTask ==
    ASSUME TypeOK, Loading, serialIo # <<>>, serialIo' = Tail(serialIo)
    PROVE  /\ Head(serialIo) = serialIo[1] /\ 1 \in DOMAIN serialIo
           /\ serialIo[1].events \in Seq(Event)
           /\ \A i \in DOMAIN serialIo' : i + 1 \in DOMAIN serialIo /\ serialIo'[i] = serialIo[i + 1]
           /\ \A i \in DOMAIN serialIo' : serialIo'[i].op = "save"
           /\ serialIo[1].op = "load" <=> loader = "loading"
<1>1. serialIo \in Seq(Task)
  BY DEF TypeOK, Task
<1>2. /\ Head(serialIo) = serialIo[1] /\ 1 \in DOMAIN serialIo /\ serialIo[1] \in Task
      /\ \A i \in DOMAIN serialIo' : i + 1 \in DOMAIN serialIo /\ serialIo'[i] = serialIo[i + 1]
  BY <1>1, HeadTask
<1>3. \A i \in DOMAIN serialIo' : i + 1 > 1
  BY <1>1
<1>4. \A i \in DOMAIN serialIo' : serialIo'[i].op = "save"
  <2> TAKE i \in DOMAIN serialIo'
  <2> DEFINE j == i + 1
  <2>1. j > 1 /\ j \in DOMAIN serialIo /\ serialIo'[i] = serialIo[j]
    BY <1>2, <1>3
  <2> HIDE DEF j
  <2> QED BY <2>1 DEF Loading
<1>5. serialIo[1].op = "load" <=> loader = "loading"
  BY <1>2 DEF Loading
<1> QED BY <1>2, <1>4, <1>5 DEF Task

LEMMA InitLoading == Init => Loading
<1> SUFFICES ASSUME Init PROVE Loading
  OBVIOUS
<1>1. serialIo = <<Load>> /\ loader = "loading" /\ cached = <<>>
  BY DEF Init
<1>2. DOMAIN serialIo = 1..1 /\ serialIo[1] = Load /\ serialIo # <<>>
  BY <1>1
<1> QED BY <1>1, <1>2 DEF Loading, Load

LEMMA StepLoading == ListsTyped /\ Loading /\ [Next]_vars => Loading'
<1> SUFFICES ASSUME ListsTyped, Loading, [Next]_vars PROVE Loading'
  OBVIOUS
<1>0. TypeOK /\ mainCopy \in Seq(Event) /\ workerCopy \in Seq(Event) /\ <<>> \in Seq(Event)
  BY DEF ListsTyped, TypeOK
<1>1. CASE UNCHANGED <<loader, cached, serialIo>>
  BY <1>1 DEF Loading
<1>2. CASE LaunchSave
  BY <1>0, <1>2, LaunchLoading DEF LaunchSave
<1>3. CASE SaveCleared
  BY <1>0, <1>3, LaunchLoading DEF SaveCleared, mainVars
<1>4. CASE SaveRemaining
  BY <1>0, <1>4, LaunchLoading DEF SaveRemaining, mainVars
<1>5. CASE ReadFile
  <2>1. serialIo # <<>> /\ serialIo' = Tail(serialIo) /\ loader' = "loaded"
    BY <1>5 DEF ReadFile
  <2>2. \A i \in DOMAIN serialIo' : serialIo'[i].op = "save"
    BY <1>0, <2>1, TakenTask
  <2> QED BY <2>1, <2>2 DEF Loading
<1>6. CASE WriteFile
  <2>1. serialIo # <<>> /\ serialIo' = Tail(serialIo) /\ Head(serialIo).op = "save" /\ loader' = loader
    BY <1>6 DEF WriteFile
  <2>2. (\A i \in DOMAIN serialIo' : serialIo'[i].op = "save") /\ loader # "loading"
    BY <1>0, <2>1, TakenTask
  <2> QED BY <2>1, <2>2 DEF Loading
<1>7. CASE CacheLoaded
  <2>1. loader = "loaded" /\ loader' = "done" /\ serialIo' = serialIo
    BY <1>7 DEF CacheLoaded
  <2> QED BY <2>1 DEF Loading
<1>8. CASE Crash
  <2>1. serialIo' = <<Load>> /\ loader' = "loading" /\ cached' = <<>>
    BY <1>8 DEF Crash
  <2>2. DOMAIN serialIo' = 1..1 /\ serialIo'[1] = Load /\ serialIo' # <<>>
    BY <2>1
  <2> QED BY <2>1, <2>2 DEF Loading, Load
<1>9. CASE /\ Next
           /\ ~(LaunchSave \/ SaveCleared \/ SaveRemaining \/ ReadFile \/ WriteFile
                \/ CacheLoaded \/ Crash)
  BY <1>1, <1>9 DEF Next, MainStep, FileStep, WorkerStep, ReportEvent, AddEvent, TrimEvents, CopyEvents,
        StartWork, NoNetwork, ClearData, DiscardEvents, EventsDiscarded, DiscardThrows,
        FailWork, SendEvents, UploadSucceeds, UploadFails,
        RemoveUploaded, CopyRemaining, ComputeHasMore, FinishWork, RetryWork, Toggle,
        GrowOld, cacheVars
<1>10. CASE UNCHANGED vars
  BY <1>1, <1>10 DEF vars
<1> QED BY <1>2, <1>3, <1>4, <1>5, <1>6, <1>7, <1>8, <1>9, <1>10

\* The last event that was added to the list.
LastAdded == IF main = "add" THEN next - 2 ELSE next - 1

\* The list as it was at some time: in order, and of events that were added.
Listed(list, last) == Sorted(list) /\ \A e \in ToSet(list) : e <= last

AllListed ==
    /\ Listed(pendingEvents, LastAdded) /\ Listed(mainCopy, LastAdded)
    /\ Listed(workerCopy, LastAdded) /\ Listed(cached, LastAdded) /\ Listed(file, LastAdded)
    /\ \A i \in DOMAIN serialIo : Listed(serialIo[i].events, LastAdded)

\* What is loaded was reported before what is in the list by then.
CachedFirst ==
    /\ loader = "loading" => Before(file, pendingEvents)
    /\ Before(cached, pendingEvents)

OrderInv == ListsTyped /\ Loading /\ AllListed /\ CachedFirst

LEMMA EmptyListed == ASSUME NEW last PROVE Listed(<<>>, last) /\ ToSet(<<>>) = {}
BY DEF Listed, Sorted, ToSet

LEMMA PartListed ==
    ASSUME NEW list \in Seq(Event), NEW part, Part(part, list), NEW last, Listed(list, last)
    PROVE  Listed(part, last)
BY DEF Listed, Part

LEMMA LaterListed ==
    ASSUME NEW list \in Seq(Event), NEW last \in Int, Listed(list, last)
    PROVE  Listed(list, last + 1)
<1>1. ToSet(list) \subseteq Int
  BY ToSetTyped
<1> QED BY <1>1 DEF Listed

LEMMA LaunchListed ==
    ASSUME TypeOK, AllListed, NEW events \in Seq(Event), Listed(events, LastAdded), Launch(events)
    PROVE  \A i \in DOMAIN serialIo' : Listed(serialIo'[i].events, LastAdded)
<1>0. /\ DOMAIN serialIo = 1..Len(serialIo) /\ DOMAIN serialIo' = 1..Len(serialIo) + 1
      /\ Len(serialIo) \in Nat
  BY LaunchedTask
<1>1. \A i \in DOMAIN serialIo' : i \in DOMAIN serialIo \/ i = Len(serialIo) + 1
  BY <1>0
<1>2. Save(events).events = events /\ serialIo'[Len(serialIo) + 1] = Save(events)
  <2>1. Save(events).events = events
    BY DEF Save
  <2> QED BY <2>1, LaunchedTask
<1>3. \A i \in DOMAIN serialIo : serialIo'[i] = serialIo[i]
  BY LaunchedTask
<1> QED BY <1>1, <1>2, <1>3 DEF AllListed

LEMMA TakenListed ==
    ASSUME TypeOK, Loading, AllListed, serialIo # <<>>, serialIo' = Tail(serialIo)
    PROVE  /\ Listed(Head(serialIo).events, LastAdded)
           /\ \A i \in DOMAIN serialIo' : Listed(serialIo'[i].events, LastAdded)
BY TakenTask DEF AllListed

LEMMA InitListed == Init => AllListed /\ CachedFirst
<1> SUFFICES ASSUME Init PROVE AllListed /\ CachedFirst
  OBVIOUS
<1>1. /\ serialIo = <<Load>> /\ pendingEvents = <<>> /\ mainCopy = <<>> /\ workerCopy = <<>>
      /\ cached = <<>> /\ file = <<>>
  BY DEF Init
<1>2. DOMAIN serialIo = 1..1 /\ serialIo[1] = Load /\ Load.events = <<>>
  BY <1>1 DEF Load
<1>3. \A i \in DOMAIN serialIo : Listed(serialIo[i].events, LastAdded)
  BY <1>2, EmptyListed
<1> QED BY <1>1, <1>3, EmptyListed DEF AllListed, CachedFirst, Before

\* The steps of the main thread.
LEMMA MainListed == OrderInv /\ MainStep => AllListed' /\ CachedFirst'
<1> SUFFICES ASSUME OrderInv, MainStep PROVE AllListed' /\ CachedFirst'
  OBVIOUS
<1>0. /\ TypeOK /\ Loading /\ AllListed /\ CachedFirst /\ WithinLimit
      /\ LastAdded \in Int /\ next \in Int /\ (main = "add" => next - 1 \in Event)
      /\ pendingEvents \in Seq(Event) /\ mainCopy \in Seq(Event) /\ workerCopy \in Seq(Event)
      /\ cached \in Seq(Event) /\ file \in Seq(Event)
  BY Constants DEF OrderInv, ListsTyped, TypeOK, LastAdded, Event
<1>1. CASE ReportEvent
  <2>1. /\ UNCHANGED <<pendingEvents, mainCopy, workerCopy, loader, cached, file, serialIo>>
        /\ main = "idle" /\ main' = "add" /\ next' = next + 1
    BY <1>1 DEF ReportEvent, cacheVars, workerVars
  <2>2. LastAdded' = LastAdded
    BY <1>0, <2>1 DEF LastAdded
  <2> QED BY <1>0, <2>1, <2>2 DEF AllListed, CachedFirst
<1>2. CASE AddEvent
  <2>1. /\ UNCHANGED <<mainCopy, workerCopy, loader, cached, file, serialIo>>
        /\ main = "add" /\ main' = "trim" /\ next' = next
        /\ pendingEvents' = Append(pendingEvents, next - 1)
    BY <1>2 DEF AddEvent, cacheVars
  <2>2. LastAdded' = LastAdded + 1 /\ LastAdded' = next - 1
    BY <1>0, <2>1 DEF LastAdded
  <2>3. \A e \in ToSet(pendingEvents) \cup ToSet(cached) \cup ToSet(file) : e < next - 1
    <3>1. \A e \in ToSet(pendingEvents) \cup ToSet(cached) \cup ToSet(file) :
            e \in Int /\ e <= LastAdded
      <4>1. ToSet(pendingEvents) \cup ToSet(cached) \cup ToSet(file) \subseteq Int
        BY <1>0, ToSetTyped
      <4> QED BY <1>0, <4>1 DEF AllListed, Listed
    <3> QED BY <1>0, <2>2, <3>1
  <2>4. /\ ToSet(pendingEvents') \subseteq ToSet(pendingEvents) \cup {next - 1}
        /\ Sorted(pendingEvents')
    <3>1. Sorted(pendingEvents)
      BY <1>0 DEF AllListed, Listed
    <3>2. next - 1 \in Event /\ \A d \in ToSet(pendingEvents) : d < next - 1
      BY <1>0, <2>1, <2>3
    <3>3. /\ ToSet(pendingEvents') = ToSet(pendingEvents) \cup {next - 1}
          /\ Sorted(pendingEvents) /\ (\A d \in ToSet(pendingEvents) : d < next - 1)
             => Sorted(pendingEvents')
      <4> DEFINE e == next - 1
      <4>1. e \in Event /\ pendingEvents' = Append(pendingEvents, e)
        BY <2>1, <3>2
      <4> HIDE DEF e
      <4>2. /\ ToSet(pendingEvents') = ToSet(pendingEvents) \cup {e}
            /\ Sorted(pendingEvents) /\ (\A d \in ToSet(pendingEvents) : d < e)
               => Sorted(pendingEvents')
        BY <1>0, <4>1, AddedLast
      <4> QED BY <4>2 DEF e
    <3> QED BY <3>1, <3>2, <3>3
  <2>5. \A e \in ToSet(pendingEvents') : e <= next - 1
    <3>1. ToSet(pendingEvents) \subseteq Int
      BY <1>0, ToSetTyped
    <3> QED BY <1>0, <2>3, <2>4, <3>1
  <2>6. Listed(pendingEvents', LastAdded')
    BY <2>2, <2>4, <2>5 DEF Listed
  <2>7. \A i \in DOMAIN serialIo : Listed(serialIo[i].events, LastAdded + 1)
    <3> TAKE i \in DOMAIN serialIo
    <3>1. serialIo[i].events \in Seq(Event)
      <4>1. serialIo \in Seq(Task)
        BY <1>0 DEF TypeOK, Task
      <4>2. serialIo[i] \in Task
        BY <4>1
      <4> QED BY <4>2 DEF Task
    <3> QED BY <1>0, <3>1, LaterListed DEF AllListed
  <2>8. /\ Listed(mainCopy, LastAdded + 1) /\ Listed(workerCopy, LastAdded + 1)
        /\ Listed(cached, LastAdded + 1) /\ Listed(file, LastAdded + 1)
    BY <1>0, LaterListed DEF AllListed
  <2>9. CachedFirst'
    BY <1>0, <2>1, <2>3, <2>4 DEF CachedFirst, Before
  <2> QED BY <2>1, <2>2, <2>6, <2>7, <2>8, <2>9 DEF AllListed
<1>2a. CASE TrimEvents
  <2>1. /\ UNCHANGED <<mainCopy, workerCopy, loader, cached, file, serialIo, next>>
        /\ main = "trim" /\ main' = "save"
    BY <1>2a DEF TrimEvents, cacheVars
  <2>2. LastAdded' = LastAdded
    BY <2>1 DEF LastAdded
  <2>3. pendingEvents' = pendingEvents \/ Part(pendingEvents', pendingEvents)
    <3>1. CASE Len(pendingEvents) > EventCountLimit
      <4>1. pendingEvents # <<>> /\ pendingEvents' = Tail(pendingEvents)
        BY <1>0, <1>2a, <3>1, Constants DEF TrimEvents
      <4> QED BY <1>0, <4>1, FirstRemoved
    <3>2. CASE ~(Len(pendingEvents) > EventCountLimit)
      BY <1>2a, <3>2 DEF TrimEvents
    <3> QED BY <3>1, <3>2
  <2>4. Listed(pendingEvents', LastAdded)
    BY <1>0, <2>3, PartListed DEF AllListed
  <2>5. CachedFirst'
    BY <1>0, <2>1, <2>3 DEF CachedFirst, Before, Part
  <2> QED BY <1>0, <2>1, <2>2, <2>4, <2>5 DEF AllListed
<1>3. CASE CopyEvents
  <2>1. /\ UNCHANGED <<pendingEvents, workerCopy, loader, cached, file, serialIo, next>>
        /\ main = "save" /\ main' = "launch" /\ mainCopy' = pendingEvents
    BY <1>3 DEF CopyEvents, cacheVars, workerVars
  <2>2. LastAdded' = LastAdded
    BY <2>1 DEF LastAdded
  <2> QED BY <1>0, <2>1, <2>2 DEF AllListed, CachedFirst
<1>4. CASE LaunchSave
  <2>1. /\ UNCHANGED <<pendingEvents, workerCopy, loader, cached, file, next>>
        /\ main = "launch" /\ main' = "idle" /\ mainCopy' = <<>> /\ Launch(mainCopy)
    BY <1>4 DEF LaunchSave, workerVars
  <2>2. LastAdded' = LastAdded
    BY <2>1 DEF LastAdded
  <2>3. \A i \in DOMAIN serialIo' : Listed(serialIo'[i].events, LastAdded)
    BY <1>0, <2>1, LaunchListed DEF AllListed
  <2> QED BY <1>0, <2>1, <2>2, <2>3, EmptyListed DEF AllListed, CachedFirst
<1>5. CASE CacheLoaded
  <2>1. /\ UNCHANGED <<mainCopy, workerCopy, file, serialIo, next, main>>
        /\ loader' = "done" /\ cached' = <<>> /\ pendingEvents' = Merged(cached)
        /\ main = "idle"
    BY <1>5 DEF CacheLoaded, mainVars, workerVars
  <2>2. LastAdded' = LastAdded
    BY <2>1 DEF LastAdded
  <2>3. /\ Sorted(cached) /\ Sorted(pendingEvents) /\ Before(cached, pendingEvents)
        /\ Len(pendingEvents) <= EventCountLimit
    BY <1>0, <2>1, Constants DEF AllListed, Listed, CachedFirst, WithinLimit
  <2>4. /\ Sorted(pendingEvents')
        /\ ToSet(pendingEvents') \subseteq ToSet(cached) \cup ToSet(pendingEvents)
    BY <1>0, <2>1, <2>3, MergedProperties
  <2>5. Listed(pendingEvents', LastAdded)
    BY <1>0, <2>4 DEF Listed, AllListed
  <2>6. CachedFirst'
    BY <2>1, EmptyListed DEF CachedFirst, Before
  <2> QED BY <1>0, <2>1, <2>2, <2>5, <2>6, EmptyListed DEF AllListed
<1> QED BY <1>1, <1>2, <1>2a, <1>3, <1>4, <1>5 DEF MainStep

\* The steps of the file's thread.
LEMMA FileListed == OrderInv /\ FileStep => AllListed' /\ CachedFirst'
<1> SUFFICES ASSUME OrderInv, FileStep PROVE AllListed' /\ CachedFirst'
  OBVIOUS
<1>0. TypeOK /\ Loading /\ AllListed /\ CachedFirst /\ file \in Seq(Event)
  BY DEF OrderInv, ListsTyped, TypeOK
<1>1. CASE ReadFile
  <2>1. /\ UNCHANGED <<pendingEvents, mainCopy, workerCopy, file, next, main>>
        /\ loader' = "loaded" /\ cached' = Fresh(file)
        /\ serialIo # <<>> /\ serialIo' = Tail(serialIo) /\ Head(serialIo).op = "load"
    BY <1>1 DEF ReadFile, mainVars, workerVars
  <2>2. LastAdded' = LastAdded
    BY <2>1 DEF LastAdded
  <2>3. /\ loader = "loading"
        /\ \A i \in DOMAIN serialIo' : Listed(serialIo'[i].events, LastAdded)
    BY <1>0, <2>1, TakenTask, TakenListed
  <2>4. Part(cached', file)
    BY <1>0, <2>1, FreshIsPart
  <2>5. Listed(cached', LastAdded)
    BY <1>0, <2>4, PartListed DEF AllListed
  <2>6. CachedFirst'
    BY <1>0, <2>1, <2>3, <2>4 DEF CachedFirst, Before, Part
  <2> QED BY <1>0, <2>1, <2>2, <2>3, <2>5, <2>6 DEF AllListed
<1>2. CASE WriteFile
  <2>1. /\ UNCHANGED <<pendingEvents, mainCopy, workerCopy, cached, loader, next, main>>
        /\ file' = Head(serialIo).events
        /\ serialIo # <<>> /\ serialIo' = Tail(serialIo) /\ Head(serialIo).op = "save"
    BY <1>2 DEF WriteFile, mainVars, workerVars
  <2>2. LastAdded' = LastAdded
    BY <2>1 DEF LastAdded
  <2>3. loader # "loading"
    BY <1>0, <2>1, TakenTask
  <2>4. /\ Listed(file', LastAdded)
        /\ \A i \in DOMAIN serialIo' : Listed(serialIo'[i].events, LastAdded)
    BY <1>0, <2>1, TakenListed
  <2> QED BY <1>0, <2>1, <2>2, <2>3, <2>4 DEF AllListed, CachedFirst
<1> QED BY <1>1, <1>2 DEF FileStep

\* Events are only taken out of the list.
LEMMA ShorterListed ==
    ASSUME OrderInv, Part(pendingEvents', pendingEvents),
           UNCHANGED <<mainCopy, workerCopy, cached, file, serialIo, loader, next, main>>
    PROVE  AllListed' /\ CachedFirst'
<1>1. AllListed /\ CachedFirst /\ pendingEvents \in Seq(Event)
  BY DEF OrderInv, ListsTyped, TypeOK
<1>2. LastAdded' = LastAdded
  BY DEF LastAdded
<1>3. Listed(pendingEvents', LastAdded)
  BY <1>1, PartListed DEF AllListed
<1>4. CachedFirst'
  BY <1>1 DEF CachedFirst, Before, Part
<1> QED BY <1>1, <1>2, <1>3, <1>4 DEF AllListed

\* The steps of the worker.
LEMMA WorkerListed == OrderInv /\ WorkerStep => AllListed' /\ CachedFirst'
<1> SUFFICES ASSUME OrderInv, WorkerStep PROVE AllListed' /\ CachedFirst'
  OBVIOUS
<1>0. /\ TypeOK /\ AllListed /\ CachedFirst
      /\ pendingEvents \in Seq(Event) /\ workerCopy \in Seq(Event) /\ <<>> \in Seq(Event)
  BY DEF OrderInv, ListsTyped, TypeOK
<1>1. UNCHANGED <<loader, cached, file, mainCopy, next, main>>
  BY DEF WorkerStep, StartWork, NoNetwork, ClearData, SaveCleared, DiscardEvents, EventsDiscarded, DiscardThrows, FailWork, SendEvents,
         UploadSucceeds,
         UploadFails, RemoveUploaded, CopyRemaining, SaveRemaining, ComputeHasMore, FinishWork,
         RetryWork, cacheVars, mainVars
<1>2. LastAdded' = LastAdded
  BY <1>1 DEF LastAdded
<1>3. CASE UNCHANGED <<pendingEvents, workerCopy, serialIo>>
  BY <1>0, <1>1, <1>2, <1>3 DEF AllListed, CachedFirst
<1>4. CASE ClearData
  <2>1. pendingEvents' = <<>> /\ UNCHANGED <<workerCopy, serialIo>>
    BY <1>4 DEF ClearData, cacheVars
  <2>2. CachedFirst'
    BY <2>1, EmptyListed DEF CachedFirst, Before
  <2> QED BY <1>0, <1>1, <1>2, <2>1, <2>2, EmptyListed DEF AllListed
<1>5. CASE SaveCleared
  <2>1. Launch(<<>>) /\ UNCHANGED <<pendingEvents, workerCopy>>
    BY <1>5 DEF SaveCleared
  <2>2. \A i \in DOMAIN serialIo' : Listed(serialIo'[i].events, LastAdded)
    BY <1>0, <2>1, LaunchListed, EmptyListed
  <2> QED BY <1>0, <1>1, <1>2, <2>1, <2>2 DEF AllListed, CachedFirst
<1>6. CASE EventsDiscarded
  <2>1. Part(pendingEvents', pendingEvents) /\ UNCHANGED <<workerCopy, serialIo>>
    BY <1>0, <1>6, DiscardedIsPart DEF EventsDiscarded, cacheVars
  <2> QED BY <1>1, <2>1, ShorterListed
<1>7. CASE RemoveUploaded
  <2>1. Part(pendingEvents', pendingEvents) /\ UNCHANGED <<workerCopy, serialIo>>
    BY <1>0, <1>7, RemainingIsPart DEF RemoveUploaded, cacheVars
  <2> QED BY <1>1, <2>1, ShorterListed
<1>8. CASE CopyRemaining
  <2>1. workerCopy' = pendingEvents /\ UNCHANGED <<pendingEvents, serialIo>>
    BY <1>8 DEF CopyRemaining, cacheVars
  <2> QED BY <1>0, <1>1, <1>2, <2>1 DEF AllListed, CachedFirst
<1>9. CASE SaveRemaining
  <2>1. Launch(workerCopy) /\ workerCopy' = <<>> /\ UNCHANGED pendingEvents
    BY <1>9 DEF SaveRemaining
  <2>2. \A i \in DOMAIN serialIo' : Listed(serialIo'[i].events, LastAdded)
    BY <1>0, <2>1, LaunchListed DEF AllListed
  <2> QED BY <1>0, <1>1, <1>2, <2>1, <2>2, EmptyListed DEF AllListed, CachedFirst
<1>10. CASE StartWork \/ NoNetwork \/ DiscardEvents \/ DiscardThrows \/ FailWork \/ SendEvents
            \/ UploadSucceeds \/ UploadFails \/ ComputeHasMore \/ FinishWork \/ RetryWork
  BY <1>3, <1>10 DEF StartWork, NoNetwork, DiscardEvents, DiscardThrows, FailWork, SendEvents, UploadSucceeds, UploadFails, ComputeHasMore,
                     FinishWork, RetryWork, cacheVars
<1> QED BY <1>4, <1>5, <1>6, <1>7, <1>8, <1>9, <1>10 DEF WorkerStep

LEMMA OtherListed ==
    OrderInv /\ (Toggle \/ GrowOld \/ Crash \/ UNCHANGED vars) => AllListed' /\ CachedFirst'
<1> SUFFICES ASSUME OrderInv, Toggle \/ GrowOld \/ Crash \/ UNCHANGED vars
             PROVE  AllListed' /\ CachedFirst'
  OBVIOUS
<1>0. TypeOK /\ AllListed /\ CachedFirst /\ file \in Seq(Event) /\ next \in Int
  BY DEF OrderInv, ListsTyped, TypeOK
<1>1. CASE Toggle \/ GrowOld \/ UNCHANGED vars
  <2>1. UNCHANGED <<pendingEvents, mainCopy, workerCopy, cached, file, serialIo, loader, next, main>>
    BY <1>1 DEF Toggle, GrowOld, vars, mainVars, workerVars, cacheVars
  <2>2. LastAdded' = LastAdded
    BY <2>1 DEF LastAdded
  <2> QED BY <1>0, <2>1, <2>2 DEF AllListed, CachedFirst
<1>2. CASE Crash
  <2>1. /\ pendingEvents' = <<>> /\ mainCopy' = <<>> /\ workerCopy' = <<>> /\ cached' = <<>>
        /\ serialIo' = <<Load>> /\ main' = "idle" /\ next' = next
    BY <1>2 DEF Crash
  <2>2. LastAdded' = next - 1 /\ LastAdded \in Int /\ LastAdded <= next - 1
    BY <1>0, <2>1 DEF LastAdded
  <2>3. Listed(file', LastAdded) /\ file' \in Seq(Event)
    <3>1. file' = file \/ (serialIo # <<>> /\ Part(file', serialIo[1].events))
      BY <1>0, <1>2, CrashFile
    <3>2. CASE file' = file
      BY <1>0, <3>2 DEF AllListed
    <3>3. CASE serialIo # <<>> /\ Part(file', serialIo[1].events)
      <4>1. serialIo \in Seq(Task)
        BY <1>0 DEF TypeOK, Task
      <4>2. 1 \in DOMAIN serialIo /\ serialIo[1] \in Task
        BY <3>3, <4>1, HeadTask
      <4>3. serialIo[1].events \in Seq(Event) /\ Listed(serialIo[1].events, LastAdded)
        BY <1>0, <4>2 DEF AllListed, Task
      <4> QED BY <3>3, <4>3, PartListed DEF Part
    <3> QED BY <3>1, <3>2, <3>3
  <2>4. Listed(file', LastAdded')
    <3>1. ToSet(file') \subseteq Int
      BY <2>3, ToSetTyped
    <3>2. \A e \in ToSet(file') : e <= LastAdded
      BY <2>3 DEF Listed
    <3> QED BY <1>0, <2>2, <2>3, <3>1, <3>2 DEF Listed
  <2>5. \A i \in DOMAIN serialIo' : Listed(serialIo'[i].events, LastAdded')
    <3>1. DOMAIN serialIo' = 1..1 /\ serialIo'[1] = Load /\ Load.events = <<>>
      BY <2>1 DEF Load
    <3> QED BY <3>1, EmptyListed
  <2>6. CachedFirst'
    BY <2>1, EmptyListed DEF CachedFirst, Before
  <2> QED BY <2>1, <2>4, <2>5, <2>6, EmptyListed DEF AllListed
<1> QED BY <1>1, <1>2

LEMMA StepOrder == OrderInv /\ [Next]_vars => OrderInv'
<1>1. OrderInv => ListsTyped /\ Loading
  BY DEF OrderInv
<1>2. OrderInv /\ [Next]_vars => AllListed' /\ CachedFirst'
  BY MainListed, FileListed, WorkerListed, OtherListed DEF Next
<1> QED BY <1>1, <1>2, StepTyped, StepLoading DEF OrderInv

\* The list is in the order in which the events were reported and holds none of
\* them twice: loadCache puts what was cached before what was reported while
\* the file was read, also when both meet a full list, a save that overtakes
\* another or a process that died while it wrote the file.
THEOREM ListInOrder == Safety => []InOrder
<1>1. Init => OrderInv
  BY InitTyped, InitLoading, InitListed DEF OrderInv
<1>2. OrderInv => InOrder
  BY DEF OrderInv, AllListed, Listed, Sorted, InOrder
<1> QED BY <1>1, <1>2, StepOrder, PTL DEF Safety

-----------------------------------------------------------------------------
\* No event is lost.

\* What is about to be removed from the list is with the server.
UploadedSettled == worker = "removing" => ToSet(toUpload) \subseteq settled

HeldInv == ListsTyped /\ Loading /\ UploadedSettled /\ NothingLost

LEMMA StepUploaded == UploadedSettled /\ [Next]_vars => UploadedSettled'
<1> SUFFICES ASSUME UploadedSettled, [Next]_vars PROVE UploadedSettled'
  OBVIOUS
<1>1. settled \subseteq settled'
  BY DEF Next, MainStep, FileStep, WorkerStep, ReportEvent, AddEvent, TrimEvents, CopyEvents, LaunchSave,
         CacheLoaded, ReadFile, WriteFile, StartWork, NoNetwork, ClearData, SaveCleared,
         DiscardEvents, EventsDiscarded, DiscardThrows, FailWork, SendEvents,
         UploadSucceeds, UploadFails, RemoveUploaded, CopyRemaining, SaveRemaining,
         ComputeHasMore, FinishWork, RetryWork, Toggle, GrowOld, Crash, vars
<1>2. worker' = "removing" =>
        (worker = "removing" /\ toUpload' = toUpload) \/ ToSet(toUpload') \subseteq settled'
  BY DEF Next, MainStep, FileStep, WorkerStep, ReportEvent, AddEvent, TrimEvents, CopyEvents, LaunchSave,
         CacheLoaded, ReadFile, WriteFile, StartWork, NoNetwork, ClearData, SaveCleared,
         DiscardEvents, EventsDiscarded, DiscardThrows, FailWork, SendEvents,
         UploadSucceeds, UploadFails, RemoveUploaded, CopyRemaining, SaveRemaining,
         ComputeHasMore, FinishWork, RetryWork, Toggle, GrowOld, Crash, vars, workerVars
<1> QED BY <1>1, <1>2 DEF UploadedSettled

\* Where an event can be held.
LEMMA HeldCases ==
    /\ \A e : e \in Held <=>
        \/ e \in ToSet(pendingEvents) \/ e \in ToSet(cached)
        \/ main = "add" /\ e = next - 1
        \/ loader = "loading" /\ e \in ToSet(file)
    /\ \A e : e \in Held' <=>
        \/ e \in ToSet(pendingEvents') \/ e \in ToSet(cached')
        \/ main' = "add" /\ e = next' - 1
        \/ loader' = "loading" /\ e \in ToSet(file')
<1>1. \A e : e \in Held <=>
        \/ e \in ToSet(pendingEvents) \/ e \in ToSet(cached)
        \/ main = "add" /\ e = next - 1
        \/ loader = "loading" /\ e \in ToSet(file)
  BY DEF Held
<1>2. \A e : e \in Held' <=>
        \/ e \in ToSet(pendingEvents') \/ e \in ToSet(cached')
        \/ main' = "add" /\ e = next' - 1
        \/ loader' = "loading" /\ e \in ToSet(file')
  BY DEF Held
<1> QED BY <1>1, <1>2

\* As long as the process lives and the list is not damaged, an event that is
\* held stays held or is settled.
LEMMA HeldStays ==
    ASSUME HeldInv, Next, ~Crash, "lost" \notin raced', NEW e \in Held
    PROVE  e \in Held' \cup settled'
<1>0. /\ TypeOK /\ Loading /\ WithinLimit /\ pendingEvents \in Seq(Event) /\ cached \in Seq(Event)
      /\ file \in Seq(Event) /\ (main = "add" => next - 1 \in Event)
  BY Constants DEF HeldInv, ListsTyped, TypeOK, Event
<1>1. CASE UNCHANGED <<pendingEvents, cached, main, next, loader, file>>
  BY <1>1, HeldCases
<1>2. CASE ReportEvent
  <2>1. UNCHANGED <<pendingEvents, cached, loader, file>> /\ main = "idle"
    BY <1>2 DEF ReportEvent, cacheVars
  <2> QED BY <2>1, HeldCases
<1>3. CASE AddEvent
  <2>1. /\ UNCHANGED <<cached, loader, file>> /\ main = "add"
        /\ pendingEvents' = Append(pendingEvents, next - 1)
    BY <1>3 DEF AddEvent, cacheVars
  <2>2. ToSet(pendingEvents') = ToSet(pendingEvents) \cup {next - 1}
    BY <1>0, <2>1, AddedLast
  <2> QED BY <2>1, <2>2, HeldCases
<1>3a. CASE TrimEvents
  <2>1. UNCHANGED <<cached, loader, file>> /\ main # "add"
    BY <1>3a DEF TrimEvents, cacheVars
  <2>2. ToSet(pendingEvents) \subseteq ToSet(pendingEvents') \cup settled'
    <3>1. CASE Len(pendingEvents) > EventCountLimit
      <4>1. /\ pendingEvents # <<>> /\ pendingEvents' = Tail(pendingEvents)
            /\ settled' = settled \cup {Head(pendingEvents)}
        BY <1>0, <1>3a, <3>1, Constants DEF TrimEvents
      <4> QED BY <1>0, <4>1, FirstRemoved
    <3>2. CASE ~(Len(pendingEvents) > EventCountLimit)
      BY <1>3a, <3>2 DEF TrimEvents
    <3> QED BY <3>1, <3>2
  <2> QED BY <2>1, <2>2, HeldCases
<1>4. CASE CopyEvents \/ LaunchSave
  <2>1. UNCHANGED <<pendingEvents, cached, loader, file>> /\ main # "add"
    BY <1>4 DEF CopyEvents, LaunchSave, cacheVars
  <2> QED BY <2>1, HeldCases
<1>5. CASE CacheLoaded
  <2>1. /\ UNCHANGED <<main, next>> /\ loader = "loaded" /\ pendingEvents' = Merged(cached)
        /\ main = "idle"
        /\ settled' = settled \cup (ToSet(cached) \ ToSet(pendingEvents'))
    BY <1>5 DEF CacheLoaded, mainVars
  <2>2. ToSet(pendingEvents) \subseteq ToSet(pendingEvents')
    <3>1. Len(pendingEvents) <= EventCountLimit
      BY <1>0, <2>1, Constants DEF WithinLimit
    <3> QED BY <1>0, <2>1, <3>1, MergedProperties
  <2> QED BY <2>1, <2>2, HeldCases
<1>6. CASE ReadFile
  <2>1. /\ UNCHANGED <<pendingEvents, main, next>>
        /\ serialIo # <<>> /\ serialIo' = Tail(serialIo) /\ Head(serialIo).op = "load"
        /\ settled' = settled \cup (ToSet(file) \ ToSet(cached'))
    BY <1>6 DEF ReadFile, mainVars
  <2>2. loader = "loading"
    BY <1>0, <2>1, TakenTask
  <2>3. ToSet(cached) = {}
    BY <1>0, <2>2, EmptyListed DEF Loading
  <2> QED BY <2>1, <2>2, <2>3, HeldCases
<1>7. CASE WriteFile
  <2>1. /\ UNCHANGED <<pendingEvents, main, next, cached, loader>>
        /\ serialIo # <<>> /\ serialIo' = Tail(serialIo) /\ Head(serialIo).op = "save"
    BY <1>7 DEF WriteFile, mainVars
  <2>2. loader # "loading"
    BY <1>0, <2>1, TakenTask
  <2> QED BY <2>1, <2>2, HeldCases
<1>8. CASE ClearData
  <2>1. UNCHANGED <<main, next, cached, loader, file>>
    BY <1>8 DEF ClearData, mainVars, cacheVars
  <2>2. ToSet(pendingEvents) \subseteq settled'
    BY <1>8 DEF ClearData
  <2> QED BY <2>1, <2>2, HeldCases
<1>8a. CASE EventsDiscarded
  <2>1. UNCHANGED <<main, next, cached, loader, file>>
    BY <1>8a DEF EventsDiscarded, mainVars, cacheVars
  <2>2. pendingEvents' = Fresh(pendingEvents)
    BY <1>8a DEF EventsDiscarded, Removal, Damaged
  <2>3. ToSet(pendingEvents) \subseteq settled' \cup ToSet(pendingEvents')
    BY <1>8a, <2>2 DEF EventsDiscarded
  <2> QED BY <2>1, <2>3, HeldCases
<1>9. CASE RemoveUploaded
  <2>1. UNCHANGED <<main, next, cached, loader, file, settled>> /\ worker = "removing"
    BY <1>9 DEF RemoveUploaded, mainVars, cacheVars
  <2>2. pendingEvents' = Rest
    BY <1>9 DEF RemoveUploaded, Remaining, Removal, Damaged
  <2>3. ToSet(pendingEvents') = ToSet(pendingEvents) \ ToSet(toUpload)
    BY <1>0, <2>2, WithoutProperties DEF Rest
  <2>4. ToSet(toUpload) \subseteq settled
    BY <2>1 DEF HeldInv, UploadedSettled
  <2> QED BY <2>1, <2>3, <2>4, HeldCases
<1>10. CASE StartWork \/ NoNetwork \/ SaveCleared \/ DiscardEvents \/ DiscardThrows
            \/ FailWork \/ SendEvents \/ UploadSucceeds \/ UploadFails \/ CopyRemaining \/ SaveRemaining \/ ComputeHasMore \/ FinishWork \/ RetryWork
            \/ Toggle \/ GrowOld
  BY <1>1, <1>10 DEF StartWork, NoNetwork, SaveCleared, DiscardEvents, DiscardThrows, FailWork,
         SendEvents, UploadSucceeds, UploadFails,
         CopyRemaining, SaveRemaining, ComputeHasMore, FinishWork, RetryWork, Toggle, GrowOld,
         cacheVars, mainVars
<1> QED BY <1>2, <1>3, <1>3a, <1>4, <1>5, <1>6, <1>7, <1>8, <1>8a, <1>9, <1>10
        DEF Next, MainStep, FileStep, WorkerStep

LEMMA StepHeld == HeldInv /\ [Next]_vars => NothingLost'
<1> SUFFICES ASSUME HeldInv, [Next]_vars, "lost" \notin raced', NEW e \in 1..next' - 1
             PROVE  e \in Held' \cup settled'
  BY DEF NothingLost
<1>0. NothingLost /\ next \in Int
  BY DEF HeldInv, ListsTyped, TypeOK
<1>1. CASE UNCHANGED vars
  BY <1>0, <1>1 DEF vars, NothingLost, Held
<1>2. CASE Crash
  <2>1. /\ loader' = "loading" /\ next' = next
        /\ settled' = settled \cup ((1..next - 1) \ ToSet(file'))
    BY <1>2 DEF Crash
  <2> QED BY <2>1, HeldCases
<1>3. CASE Next /\ ~Crash
  <2>1. "lost" \notin raced
    BY <1>3 DEF Next, MainStep, FileStep, WorkerStep, ReportEvent, AddEvent, TrimEvents, CopyEvents,
         LaunchSave, CacheLoaded, ReadFile, WriteFile, StartWork, NoNetwork, ClearData,
         SaveCleared, DiscardEvents, EventsDiscarded, DiscardThrows, FailWork, SendEvents,
         UploadSucceeds, UploadFails, RemoveUploaded, CopyRemaining, Damaged,
         SaveRemaining, ComputeHasMore, FinishWork, RetryWork, Toggle, GrowOld, workerVars
  <2>2. settled \subseteq settled'
    BY <1>3 DEF Next, MainStep, FileStep, WorkerStep, ReportEvent, AddEvent, TrimEvents, CopyEvents,
         LaunchSave, CacheLoaded, ReadFile, WriteFile, StartWork, NoNetwork, ClearData,
         SaveCleared, DiscardEvents, EventsDiscarded, DiscardThrows, FailWork, SendEvents,
         UploadSucceeds, UploadFails, RemoveUploaded, CopyRemaining,
         SaveRemaining, ComputeHasMore, FinishWork, RetryWork, Toggle, GrowOld
  <2>3. next' = next \/ (ReportEvent /\ next' = next + 1 /\ main' = "add")
    BY <1>3 DEF Next, MainStep, FileStep, WorkerStep, ReportEvent, AddEvent, TrimEvents, CopyEvents,
         LaunchSave, CacheLoaded, ReadFile, WriteFile, StartWork, NoNetwork, ClearData,
         SaveCleared, DiscardEvents, EventsDiscarded, DiscardThrows, FailWork, SendEvents,
         UploadSucceeds, UploadFails, RemoveUploaded, CopyRemaining,
         SaveRemaining, ComputeHasMore, FinishWork, RetryWork, Toggle, GrowOld
  <2>4. CASE e \in 1..next - 1
    <3>1. e \in Held \/ e \in settled
      BY <1>0, <2>1, <2>4 DEF NothingLost
    <3> QED BY <1>3, <2>2, <3>1, HeldStays
  <2>5. CASE e \notin 1..next - 1
    <3>1. e = next' - 1 /\ main' = "add"
      BY <1>0, <2>3, <2>5
    <3> QED BY <3>1, HeldCases
  <2> QED BY <2>4, <2>5
<1> QED BY <1>1, <1>2, <1>3

\* "when events are added during upload they are not lost": unless the main
\* thread and the worker damage the list, every event is held, with the server,
\* or given up for its age, the limit, the setting or a death of the process,
\* however event(), loadCache, the uploads and the writes interleave.
THEOREM NoEventLost == Safety => []NothingLost
<1>1. Init => HeldInv
  <2> SUFFICES ASSUME Init PROVE UploadedSettled /\ NothingLost
    BY InitTyped, InitLoading DEF HeldInv
  <2> QED BY DEF Init, UploadedSettled, NothingLost
<1>2. HeldInv /\ [Next]_vars => HeldInv'
  BY StepTyped, StepLoading, StepUploaded, StepHeld DEF HeldInv
<1>3. HeldInv => NothingLost
  BY DEF HeldInv
<1> QED BY <1>1, <1>2, <1>3, PTL DEF Safety
=============================================================================
