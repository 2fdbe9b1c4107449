--------------------- MODULE VpnConnectionErrorHandler ---------------------
(***************************************************************************)
(* VpnConnectionErrorHandler: where to connect when the current connection  *)
(* fails.  The handler gathers up to FALLBACK_SERVERS_COUNT candidates in   *)
(* order of preference, has ProtonVpnBackendProvider ping them, and takes   *)
(* the first that responds.                                                *)
(*                                                                         *)
(* Servers are 1..N in the order of ServerManager (best score first).  A    *)
(* connecting domain is named by its server and its entry IP: servers share *)
(* addresses, and each keeps an object of its own for the domain, with its *)
(* own status.  The list, what is offline and what responds to a ping may  *)
(* change while the handler is suspended.                                  *)
(***************************************************************************)
EXTENDS Naturals, Sequences, FiniteSets, SequencesExt

CONSTANTS Worlds,               \* the lists of servers to begin with
          Address,              \* entry IPs
          Country, City,        \* where servers are
          FallbackServersCount, \* FALLBACK_SERVERS_COUNT
          Triggers              \* why the handler is called: onUnreachableError,
                                \* a server that cannot be connected to, the
                                \* maintenance check, onAuthError

ServerRecord == [country : Country, city : City, kind : {"plain", "tor", "secureCore"},
                 domains : SUBSET Address]

ASSUME HandlerAssumption ==
    /\ FallbackServersCount \in Nat \ {0, 1, 2}
    /\ Triggers \subseteq {"unreachable", "unavailable", "maintenance", "auth"}
    /\ "none" \notin Address /\ "blank" \notin Country
    /\ Worlds \subseteq Seq(ServerRecord)

VARIABLES
    servers,    \* the list of servers
    offline,    \* the connecting domains that are marked as not online
    profile,    \* the country the user asked for ("blank": any of them), and
                \* whether for secure core
    params,     \* connectionParams: the server and the address in use
    call,       \* the call under way: its trigger, step and options
    orgPhysicalServer, \* its variable of that name: params, or None
    candidates, \* what getCandidateServers returned
    result      \* what the call returned

vars == <<servers, offline, profile, params, call, orgPhysicalServer, candidates, result>>

Server == DOMAIN servers
None == [server |-> 0, address |-> "none"]
Connection == [server : Server, address : Address]

CallRecord == [trigger : Triggers \cup {"none"},
               step : {"idle", "info", "check", "fallback", "candidates", "ping"},
               includeOrg : BOOLEAN, again : BOOLEAN]

\* A call and what it does next.
CallAt(trigger, step, includeOrg, again) ==
    [trigger |-> trigger, step |-> step, includeOrg |-> includeOrg, again |-> again]

NoCall == CallAt("none", "idle", FALSE, FALSE)

\* The call under way goes on with another step.
GoOn(step, includeOrg, again) == call' = CallAt(call.trigger, step, includeOrg, again)

\* result.address is the address the new connection was prepared for.
TypeOK ==
    /\ servers \in Seq(ServerRecord)
    /\ offline \subseteq Connection
    /\ profile \in [country : {"blank"} \cup Country, secureCore : BOOLEAN]
    /\ params \in Connection
    /\ call \in CallRecord
    /\ orgPhysicalServer \in Connection \cup {None}
    /\ candidates \in Seq(Connection) /\ Len(candidates) <= FallbackServersCount
    /\ result.kind \in {"none", "stay", "error", "switchProfile", "switchServer"}

Init ==
    /\ servers \in Worlds
    /\ offline = {}
    /\ profile \in [country : {"blank"} \cup {servers[s].country : s \in Server}, secureCore : BOOLEAN]
    /\ params \in {c \in Connection : c.address \in servers[c.server].domains}
    /\ call = NoCall
    /\ orgPhysicalServer = None
    /\ candidates = <<>>
    /\ result = [kind |-> "none"]

----------------------------------------------------------------------------
\* Servers.

\* GetConnectingDomain.online and random.
Online(s) == {a \in servers[s].domains : [server |-> s, address |-> a] \notin offline}
Random(s) == IF Online(s) # {} THEN Online(s) ELSE servers[s].domains

\* ServerManager.getOnlineAccessibleServers: the order is that of the numbers.
OnlineAccessibleServers(secureCore) ==
    {s \in Server : Online(s) # {} /\ (servers[s].kind = "secureCore") = secureCore}

\* getServerScore: the aspects that differ here, the more important one first.
ServerScore(s) ==
    (IF profile.secureCore => servers[s].kind = "secureCore" THEN 2 ELSE 0)
    + (IF profile.country \in {"blank", servers[s].country} THEN 1 ELSE 0)

\* The best score is first, and the order of the list decides between equals.
Better(s, t) ==
    ServerScore(s) > ServerScore(t) \/ (ServerScore(s) = ServerScore(t) /\ s < t)

SortServersByScore(set) ==
    [k \in 1..Cardinality(set) |->
        CHOOSE s \in set : Cardinality({t \in set : Better(t, s)}) = k - 1]

\* The servers with another address than the current one, and Tor servers only
\* in place of a Tor server.
UsableServers ==
    LET org == orgPhysicalServer
    IN  {s \in OnlineAccessibleServers(profile.secureCore) :
            /\ org = None \/ Online(s) \ {org.address} # {}
            /\ servers[s].kind = "tor" => org # None /\ servers[org.server].kind = "tor"}

ScoredServers == SortServersByScore(UsableServers)

Take(list, n) == SubSeq(list, 1, IF n < Len(list) THEN n ELSE Len(list))

\* firstOrNull: the best server of a set.
First(set) == Take(SortServersByScore(set), 1)

Countries(list) == {servers[c.server].country : c \in Range(list)}
Cities(list) == {servers[c.server].city : c \in Range(list)}

\* Servers of another city and of another country if the list has just one, and
\* a server without secure core as the last resort.
OtherCity(list) ==
    IF Cardinality(Countries(list)) = 1 /\ Cardinality(Cities(list)) = 1
    THEN First({s \in UsableServers : /\ servers[s].country \in Countries(list)
                                      /\ servers[s].city \notin Cities(list)})
    ELSE <<>>

OtherCountry(list) ==
    IF Cardinality(Countries(list)) = 1
    THEN First({s \in UsableServers : servers[s].country \notin Countries(list)})
    ELSE <<>>

LastResort ==
    IF profile.secureCore THEN First(OnlineAccessibleServers(FALSE)) ELSE <<>>

FallbackServers(list) == OtherCity(list) \o OtherCountry(list) \o LastResort

\* All the ways to choose an address for each server of a list, of those it has.
Placed(list, addresses) ==
    {[k \in DOMAIN list |-> [server |-> list[k], address |-> chosen[k]]] :
        chosen \in {f \in [DOMAIN list -> Address] :
                        \A k \in DOMAIN list : f[k] \in addresses[list[k]]}}

\* Mutant: the fallbacks are added to a full list.
AllCandidates(list, fallbacks) == list \o fallbacks

\* Mutant: the limit cuts the fallbacks off.
FallbacksCut(list, fallbacks) == Take(list \o fallbacks, FallbackServersCount)

\* The fallbacks take the place of the last candidates.
WithFallbacks(list, fallbacks) ==
    Take(list, FallbackServersCount - Len(fallbacks)) \o fallbacks

----------------------------------------------------------------------------
\* The calls.

Call(trigger) ==
    /\ call.step = "idle" /\ result.kind = "none"
    /\ call' = CallAt(trigger, CASE trigger = "auth" -> "info"
                                 [] trigger = "maintenance" -> "check"
                                 [] OTHER -> "fallback",
                      trigger = "unreachable", FALSE)
    /\ UNCHANGED <<servers, offline, profile, params, orgPhysicalServer, candidates, result>>

Return(r) ==
    /\ GoOn("idle", call.includeOrg, call.again)
    /\ result' = r
    /\ UNCHANGED <<servers, offline, profile, params, orgPhysicalServer, candidates>>

\* No fallback was found.  An authentication error that was put down to
\* maintenance is tried again with the current server included.
NoFallback ==
    IF call.again
    THEN /\ GoOn("fallback", TRUE, FALSE)
         /\ UNCHANGED <<servers, offline, profile, params, orgPhysicalServer, candidates, result>>
    ELSE Return([kind |-> IF call.trigger \in {"auth", "unreachable"} THEN "error" ELSE "stay"])

\* onAuthError: refreshVpnInfo.  A lost plan leads to the default connection,
\* new credentials to the same server, too many sessions to an error.
RefreshVpnInfo ==
    /\ call.step = "info"
    /\ \/ Return([kind |-> "switchProfile"])
       \/ Return([kind |-> "error"])
       \/ /\ GoOn("check", call.includeOrg, call.again)
          /\ UNCHANGED <<servers, offline, profile, params, orgPhysicalServer, candidates, result>>

\* The objects that stand for the domain at an address.
DomainsAt(a) == {c \in Connection : c.address = a /\ a \in servers[c.server].domains}

\* The domain in use is offline: updateServerDomainStatus marks the first object
\* with its id, which one of the servers has; an update of the list that succeeds
\* shows all of them.  Whether it does is not looked at.
UpdateServerDomainStatus ==
    \/ \E d \in DomainsAt(params.address) : offline' = offline \cup {d}
    \/ offline' = offline \cup DomainsAt(params.address)

\* getMaintenanceFallback: the API is asked for the domain in use.  If it is
\* offline a fallback is searched without it, or the default connection taken, if
\* there is one; else maintenanceCheck is content and onAuthError searches with it.
MaintenanceCheck ==
    /\ call.step = "check"
    /\ \/ /\ UpdateServerDomainStatus
          /\ GoOn("fallback", call.includeOrg, call.trigger = "auth")
          /\ UNCHANGED result
       \/ /\ UpdateServerDomainStatus
          /\ GoOn("idle", call.includeOrg, call.again)
          /\ result' = [kind |-> "switchProfile"]
       \/ /\ UpdateServerDomainStatus \/ UNCHANGED offline
          /\ call.trigger = "maintenance"
          /\ GoOn("idle", call.includeOrg, call.again)
          /\ result' = [kind |-> "stay"]
       \/ /\ UpdateServerDomainStatus \/ UNCHANGED offline
          /\ call.trigger = "auth"
          /\ GoOn("fallback", TRUE, call.again)
          /\ UNCHANGED result
    /\ UNCHANGED <<servers, profile, params, orgPhysicalServer, candidates>>

\* exists(): the list has a domain that equals the one of the connection.  They
\* are the same object until the list is replaced; from then on they are compared,
\* their status included.
Exists(list, sameObject) ==
    /\ params.address \in list[params.server].domains
    /\ sameObject \/ params \notin offline

\* fallbackToCompatibleServer: Smart Reconnect is disabled, the connection is a
\* guest hole's or there is no network; else the list is updated if outdated,
\* and an address may have left it.
PrepareFallback ==
    /\ call.step = "fallback"
    /\ \/ NoFallback
       \/ /\ \/ UNCHANGED servers
             \/ \E s \in Server, a \in Address :
                    servers' = [servers EXCEPT ![s].domains = @ \ {a}]
          /\ \E sameObject \in BOOLEAN :
                orgPhysicalServer' =
                    IF call.trigger # "unavailable" /\ Exists(servers', sameObject)
                    THEN params ELSE None
          /\ GoOn("candidates", call.includeOrg, call.again)
          /\ UNCHANGED <<offline, profile, params, candidates, result>>

\* Mutant: the original server is put first even if it must not be used.
OrgAlways == IF orgPhysicalServer # None THEN <<orgPhysicalServer>> ELSE <<>>

\* The original server is the first candidate, if it may be used.
OrgCandidate ==
    IF call.includeOrg /\ orgPhysicalServer # None THEN <<orgPhysicalServer>> ELSE <<>>

GetCandidateServers ==
    /\ call.step = "candidates"
    /\ LET best == Take(ScoredServers, FallbackServersCount - Len(OrgCandidate))
           usable == [s \in Server |-> Online(s) \ {orgPhysicalServer.address}]
           random == [s \in Server |-> Random(s)]
       IN  \E chosen \in Placed(best, usable) :
           \E fallbacks \in Placed(FallbackServers(OrgCandidate \o chosen), random) :
               candidates' = WithFallbacks(OrgCandidate \o chosen, fallbacks)
    /\ GoOn("ping", call.includeOrg, call.again)
    /\ UNCHANGED <<servers, offline, profile, params, orgPhysicalServer, result>>

\* Mutant: the country alone decides whether the user is notified.
DecideByCountry(winner, address, same, compatible) ==
    IF winner = orgPhysicalServer /\ same
    THEN NoFallback
    ELSE Return([kind |-> "switchServer", to |-> winner, address |-> address,
                 notifyUser |-> profile.country \notin {"blank", servers[winner.server].country}
                                \/ ~compatible])

\* The first candidate that responded wins.  The original connection is kept if
\* its server responded with its protocol (same); else the connection that
\* responded is used, and the user notified unless it is as good: in secure
\* core, country and what else the model does not tell apart (compatible).
Decide(winner, address, same, compatible) ==
    IF winner = orgPhysicalServer /\ same
    THEN NoFallback
    ELSE Return([kind |-> "switchServer", to |-> winner, address |-> address,
                 notifyUser |-> ServerScore(winner.server) # 3 \/ ~compatible])

\* pingAll: each candidate's server is pinged at an address that
\* prepareForConnection chooses at random.
PingAll ==
    /\ call.step = "ping"
    /\ \/ NoFallback
       \/ \E k \in DOMAIN candidates, same \in BOOLEAN, compatible \in BOOLEAN :
          \E a \in Random(candidates[k].server) : Decide(candidates[k], a, same, compatible)

----------------------------------------------------------------------------
Next ==
    \/ \E trigger \in Triggers : Call(trigger)
    \/ RefreshVpnInfo \/ MaintenanceCheck \/ PrepareFallback \/ GetCandidateServers \/ PingAll

Spec == Init /\ [][Next]_vars

----------------------------------------------------------------------------
Gathered == call.step = "ping"

\* Without secure core, candidates of one country only are gathered when there is
\* no usable server in another one, in spite of the limit: a blocked country does
\* not end the search.  With secure core it may: the last resort takes the place of
\* the last candidate, which can be the only one of another country.
CandidatesVary ==
    Gathered /\ ~profile.secureCore /\ candidates # <<>> =>
        \/ Cardinality(Countries(candidates)) > 1
        \/ \A s \in UsableServers : servers[s].country \in Countries(candidates)

\* A connecting domain that is marked as not online is not a candidate, other than
\* the current connection in a search that includes it.  (Another object of the same
\* domain may be one: only the object that was found is marked.)
CandidatesUsable ==
    Gathered => \A k \in DOMAIN candidates :
        candidates[k] \in offline =>
            call.includeOrg /\ k = 1 /\ candidates[k] = orgPhysicalServer

\* A user who expects secure core is told when the fallback has none.
LossOfSecureCoreTold ==
    result.kind = "switchServer" /\ profile.secureCore
        /\ servers[result.to.server].kind # "secureCore" => result.notifyUser
=============================================================================
