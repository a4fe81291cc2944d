---------------------------- MODULE NodeServer ----------------------------
(***************************************************************************)
(* One node server: the six protocols of proxy/ over the listener of       *)
(* proxy/inbound, from the panel's answer to Close.  The pull goroutine    *)
(* calls New, UpdateUsers, Start and Close in turn (server.go:             *)
(* syncNodeServer); the goroutines that serve a transport and the          *)
(* handshakes of clients run beside it.                                    *)
(*                                                                         *)
(* The authenticating services are sing-box code.  A service is a set of   *)
(* entries [key, id]; which user it finds for a key that two users share   *)
(* is its choice, and it rejects the lists that Rejects says.              *)
(***************************************************************************)
EXTENDS NodeConfig

CONSTANTS
    Lists,    \* the user lists of the panel: sequences of [id, uuid, password]
    UUIDs,    \* the UUIDs that parse
    UserKeys, \* the passwords that are base64 of a key of the right length
    Empty,    \* the empty string
    Conns

ASSUME EmptyAssumption == Empty \notin UUIDs \union UserKeys
ASSUME ListsAssumption == Lists \subseteq Seq([id : Int, uuid : STRING, password : STRING])

Stream == {"anytls", "vmess", "trojan"}
Transported == {"vmess", "trojan"}

VARIABLES
    options,  \* what the server is built from: a node config
    at,       \* the pull goroutine's next step on this server
    given,    \* the last list passed to UpdateUsers
    service,  \* the entries it authenticates
    tls,      \* tlsConfig is started
    sockets,  \* the networks that are bound
    serving,  \* goroutines in transport.Serve and ServePacket, by network
    quic,     \* the listener that ServePacket sets up in the transport
    conn      \* the connections

vars == <<options, at, given, service, tls, sockets, serving, quic, conn>>

-----------------------------------------------------------------------------
(* New, by protocol: what it insists on.                                   *)

HasTLS(o) == o.tls # "none"

\* sing-box's QUIC transport requires TLS.
NewServerTransport(o) == o.transport = "udp" => o.tls # "none"

shadowsocksNew(o) == o.setting = "known"

tuicNew(o) == HasTLS(o)

hysteria2New(o) == HasTLS(o) /\ o.setting = "known"

anytlsNew(o) == o.setting = "known"

vmessNew(o) == NewServerTransport(o)

trojanNew(o) == HasTLS(o) /\ NewServerTransport(o)

New(o) ==
    \/ o.type = "shadowsocks2022" /\ shadowsocksNew(o)
    \/ o.type = "tuic" /\ tuicNew(o)
    \/ o.type = "hysteria2" /\ hysteria2New(o)
    \/ o.type = "anytls" /\ anytlsNew(o)
    \/ o.type = "vmess" /\ vmessNew(o)
    \/ o.type = "trojan" /\ trojanNew(o)

-----------------------------------------------------------------------------
(* UpdateUsers, by protocol: the positions of the list it passes on.       *)

shadowsocksKept(list) == {i \in DOMAIN list : list[i].password \in UserKeys}

tuicKept(list) == {i \in DOMAIN list : list[i].uuid \in UUIDs}

hysteria2Kept(list) == {i \in DOMAIN list : list[i].password # Empty}

anytlsKept(list) == {i \in DOMAIN list : list[i].password # Empty}

vmessKept(list) == {i \in DOMAIN list : list[i].uuid \in UUIDs}

\* Wrong variant: a repeated UUID is passed on.
trojanKeptRepeated(list) == {i \in DOMAIN list : list[i].uuid # Empty}

trojanKept(list) ==
    {i \in DOMAIN list : /\ list[i].uuid # Empty
                         /\ \A j \in DOMAIN list : j < i => list[j].uuid # list[i].uuid}

Kept(type, list) ==
    CASE type = "shadowsocks2022" -> shadowsocksKept(list)
      [] type = "tuic" -> tuicKept(list)
      [] type = "hysteria2" -> hysteria2Kept(list)
      [] type = "anytls" -> anytlsKept(list)
      [] type = "vmess" -> vmessKept(list)
      [] type = "trojan" -> trojanKept(list)

\* What the service looks a client's user up by.  (TUIC then compares the password
\* with that user's.)
Key(type, user) == IF type \in {"vmess", "trojan", "tuic"} THEN user.uuid ELSE user.password

Entries(type, list, kept) ==
    {[key |-> Key(type, list[i]), id |-> list[i].id] : i \in kept}

\* The services refuse a whole list for one user they cannot take.
Rejects(type, list, kept) ==
    \/ type = "shadowsocks2022" /\ \E i \in kept : list[i].password \notin UserKeys
    \/ type \in {"vmess", "tuic"} /\ \E i \in kept : list[i].uuid \notin UUIDs
    \/ type = "trojan" /\ \E i, j \in kept : i # j /\ list[i].uuid = list[j].uuid

-----------------------------------------------------------------------------
(* The pull goroutine.                                                     *)

NoConn == [at |-> "idle"]

Init ==
    /\ options \in Configs
    /\ at = "new" /\ given = <<>> /\ service = {}
    /\ tls = FALSE /\ sockets = {} /\ quic = "none"
    /\ serving = [n \in {"tcp", "udp"} |-> "none"]
    /\ conn = [c \in Conns |-> NoConn]

Create ==
    /\ at = "new" /\ New(options)
    /\ at' = "users"
    /\ UNCHANGED <<options, given, service, tls, sockets, serving, quic, conn>>

\* Nothing is bound yet, and nothing is left to close.
CreateFailed ==
    /\ at = "new"
    /\ at' = "closed"
    /\ UNCHANGED <<options, given, service, tls, sockets, serving, quic, conn>>

\* Entries that were in force while c was under way.
AlsoListed(entries) ==
    [c \in Conns |-> IF conn[c].at = "idle" THEN conn[c]
                     ELSE [conn[c] EXCEPT !.listed = @ \union entries]]

All(list) == Entries(options.type, list, DOMAIN list)

\* Wrong variant: users that were removed stay in the service.
UpdateUsersMerged(list) ==
    LET kept == Kept(options.type, list)
    IN  /\ at \in {"users", "running"}
        /\ given' = list
        /\ service' = service \union Entries(options.type, list, kept)
        /\ conn' = AlsoListed(All(list))
        /\ at' = IF at = "running" THEN "running" ELSE "tls"
        /\ UNCHANGED <<options, tls, sockets, serving, quic>>

\* The new server's users before Start, or those of the running one.
UpdateUsers(list) ==
    LET kept == Kept(options.type, list)
        rejected == Rejects(options.type, list, kept)
    IN  /\ at \in {"users", "running"}
        /\ given' = list
        /\ service' = IF rejected THEN service ELSE Entries(options.type, list, kept)
        /\ conn' = AlsoListed(All(list))
        /\ at' = CASE at = "running" -> "running"
                   [] at = "users" /\ rejected -> "close"
                   [] OTHER -> "tls"
        /\ UNCHANGED <<options, tls, sockets, serving, quic>>

\* Start: TLS first.
StartTLS ==
    /\ at = "tls"
    /\ tls' = HasTLS(options)
    /\ at' = "tcp"
    /\ UNCHANGED <<options, given, service, sockets, serving, quic, conn>>

\* The networks that Start binds, TCP before UDP, by protocol.
shadowsocksStart == {"tcp", "udp"}

tuicStart == {"udp"}

hysteria2Start == {"udp"}

StartStream == IF options.transport = "none" THEN {"tcp"} ELSE {options.transport}

Binds(network) ==
    network \in CASE options.type = "shadowsocks2022" -> shadowsocksStart
                  [] options.type = "tuic" -> tuicStart
                  [] options.type = "hysteria2" -> hysteria2Start
                  [] options.type \in Stream -> StartStream

\* Listener.serve: the goroutine is counted before it runs.
Spawned(network) ==
    [serving EXCEPT ![network] = IF options.transport = network THEN "spawned" ELSE @]

ListenTCP ==
    /\ at = "tcp"
    /\ at' = "udp"
    /\ IF Binds("tcp")
       THEN sockets' = sockets \union {"tcp"} /\ serving' = Spawned("tcp")
       ELSE UNCHANGED <<sockets, serving>>
    /\ UNCHANGED <<options, given, service, tls, quic, conn>>

ListenUDP ==
    /\ at = "udp"
    /\ at' = "running"
    /\ IF Binds("udp")
       THEN sockets' = sockets \union {"udp"} /\ serving' = Spawned("udp")
       ELSE UNCHANGED <<sockets, serving>>
    /\ UNCHANGED <<options, given, service, tls, quic, conn>>

\* A step of Start fails: the certificate, the port, or, with the UDP socket
\* bound, the QUIC service on it.  syncNodeServer closes the server.
StartFailed ==
    /\ \/ at = "tls" /\ HasTLS(options)
       \/ at \in {"tcp", "udp"} /\ Binds(at)
    /\ at' = "close"
    /\ sockets' \in {sockets} \union
            (IF at = "udp" /\ options.type \in {"tuic", "hysteria2"} THEN {{"udp"}} ELSE {})
    /\ UNCHANGED <<options, given, service, tls, serving, quic, conn>>

\* The panel's settings changed, or the program ends.
Stop ==
    /\ at = "running"
    /\ at' = "close"
    /\ UNCHANGED <<options, given, service, tls, sockets, serving, quic, conn>>

\* Wrong variant: the sockets are closed after the wait.
CloseSocketsLate ==
    /\ at = "close"
    /\ at' = "wait"
    /\ UNCHANGED <<options, given, service, tls, sockets, serving, quic, conn>>

\* Listener.Close.  What has no transport closes its TLS and service with it.
CloseSockets ==
    /\ at = "close"
    /\ sockets' = {}
    /\ IF options.type \in Transported
       THEN at' = "wait" /\ UNCHANGED tls
       ELSE at' = "closed" /\ tls' = FALSE
    /\ UNCHANGED <<options, given, service, serving, quic, conn>>

Closed(listener) == IF listener = "open" THEN "closed" ELSE listener

\* Wrong variant: it does not wait for the goroutines.
CloseStreamAtOnce ==
    /\ at = "wait"
    /\ at' = "closed" /\ tls' = FALSE
    /\ quic' = Closed(quic)
    /\ UNCHANGED <<options, given, service, sockets, serving, conn>>

\* The rest of CloseStream: serving.Wait, then transport.Close, which closes
\* the listener that is set up by then; and the TLS config.
CloseStream ==
    /\ at = "wait"
    /\ \A n \in DOMAIN serving : serving[n] \in {"none", "ended"}
    /\ at' = "closed" /\ tls' = FALSE
    /\ quic' = Closed(quic)
    /\ UNCHANGED <<options, given, service, sockets, serving, conn>>

-----------------------------------------------------------------------------
(* The goroutines that serve a transport.                                  *)

\* ServePacket sets the QUIC listener up; it may still manage to on a socket
\* that has just been closed.
Serve(network) ==
    /\ serving[network] = "spawned"
    /\ serving' = [serving EXCEPT ![network] = "running"]
    /\ quic' = IF network = "udp" THEN "open" ELSE quic
    /\ UNCHANGED <<options, at, given, service, tls, sockets, conn>>

\* It returns: at once when it cannot set up, later by itself, and in any case
\* when its socket is closed.
ServeEnds(network) ==
    /\ serving[network] \in {"spawned", "running"}
    /\ serving' = [serving EXCEPT ![network] = "ended"]
    /\ UNCHANGED <<options, at, given, service, tls, sockets, quic, conn>>

ServeClosed(network) == network \notin sockets /\ ServeEnds(network)

-----------------------------------------------------------------------------
(* Connections.                                                            *)

\* A client's connection, or its first packet, with the credential it will show.
Accept(c, key) ==
    /\ conn[c].at = "idle"
    /\ \E n \in sockets : options.transport # "none" => serving[n] = "running"
    /\ conn' = [conn EXCEPT ![c] = [at |-> "accepted", key |-> key, held |-> {},
                                    listed |-> All(given), id |-> 0]]
    /\ UNCHANGED <<options, at, given, service, tls, sockets, serving, quic>>

\* newConnection loads the service of the moment, which is replaced and never
\* updated.
newConnection(c) ==
    /\ options.type \in Stream
    /\ conn[c].at = "accepted"
    /\ conn' = [conn EXCEPT ![c].at = "handshake", ![c].held = service]
    /\ UNCHANGED <<options, at, given, service, tls, sockets, serving, quic>>

\* The connection is tagged with the user's ID for the router.
UserContext(c, id) == [conn EXCEPT ![c].at = "routed", ![c].id = id, ![c].held = {}]

\* That service finds a user for the key and hands the connection over.
newConnectionEx(c) ==
    /\ conn[c].at = "handshake"
    /\ \E e \in conn[c].held : e.key = conn[c].key /\ conn' = UserContext(c, e.id)
    /\ UNCHANGED <<options, at, given, service, tls, sockets, serving, quic>>

\* Shadowsocks, TUIC and Hysteria2 keep one service, updated in place.
Authenticated(c) ==
    /\ conn[c].at = "accepted"
    /\ \E e \in service : e.key = conn[c].key /\ conn' = UserContext(c, e.id)
    /\ UNCHANGED <<options, at, given, service, tls, sockets, serving, quic>>

shadowsocksNewConnection(c) == options.type = "shadowsocks2022" /\ Authenticated(c)

newMetadata(c) == options.type \in {"tuic", "hysteria2"} /\ Authenticated(c)

\* Wrong variant: the record of the connection is kept.
EndKept(c) ==
    /\ conn[c].at # "idle"
    /\ conn' = [conn EXCEPT ![c].at = "idle"]
    /\ UNCHANGED <<options, at, given, service, tls, sockets, serving, quic>>

\* A failed handshake, an unknown key, or the end of a routed connection.
End(c) ==
    /\ conn[c].at # "idle"
    /\ conn' = [conn EXCEPT ![c] = NoConn]
    /\ UNCHANGED <<options, at, given, service, tls, sockets, serving, quic>>

-----------------------------------------------------------------------------
Keys == UNION {{Key(options.type, list[i]) : i \in DOMAIN list} : list \in Lists}

Next ==
    \/ Create \/ CreateFailed
    \/ \E list \in Lists : UpdateUsers(FetchUsers(list))
    \/ StartTLS \/ ListenTCP \/ ListenUDP \/ StartFailed
    \/ Stop \/ CloseSockets \/ CloseStream
    \/ \E n \in {"tcp", "udp"} : Serve(n) \/ ServeEnds(n)
    \/ \E c \in Conns :
        \/ \E key \in Keys : Accept(c, key)
        \/ newConnection(c) \/ newConnectionEx(c) \/ shadowsocksNewConnection(c)
        \/ newMetadata(c) \/ End(c)

Spec == Init /\ [][Next]_vars

\* The goroutine that closes goes on, and Serve returns once its socket is
\* closed.  Nothing makes the server stop, and nothing makes it fail.
FairSpec ==
    /\ Spec
    /\ WF_vars(CloseSockets) /\ WF_vars(CloseStream)
    /\ \A n \in {"tcp", "udp"} : WF_vars(ServeClosed(n))

-----------------------------------------------------------------------------
Entry == UNION {All(FetchUsers(list)) : list \in Lists}

Conn == [at : {"accepted", "handshake", "routed"}, key : Keys, held : SUBSET Entry,
         listed : SUBSET Entry, id : {0} \union {e.id : e \in Entry}]

\* Every variable has its type, and a connection that is over leaves nothing.
TypeOK ==
    /\ options \in Config
    /\ at \in {"new", "users", "tls", "tcp", "udp", "running", "close", "wait", "closed"}
    /\ given \in {<<>>} \union {FetchUsers(list) : list \in Lists} /\ service \subseteq Entry
    /\ tls \in BOOLEAN /\ sockets \subseteq {"tcp", "udp"}
    /\ serving \in [{"tcp", "udp"} -> {"none", "spawned", "running", "ended"}]
    /\ quic \in {"none", "open", "closed"}
    /\ conn \in [Conns -> Conn \union {NoConn}]

\* One unusable user never keeps the others out (trojan/server.go:87,
\* vmess/server.go:94, shadowsocks/server.go:101), and nobody who is not on the
\* list is authenticated: after any sequence of updates the service knows a user
\* for every usable credential of the last list, and only users of that list.
ServiceFollowsList ==
    at \notin {"new", "users", "close", "wait", "closed"} =>
        /\ \A i \in DOMAIN given :
              LET key == Key(options.type, given[i])
                  usable == key # Empty /\ ~Rejects(options.type, given, {i})
              IN  usable => \E e \in service : e.key = key
        /\ service \subseteq All(given)

\* A connection is routed as a user who was listed with the credential it showed
\* at some time while it was being accepted, although the list may have changed
\* between the load of the service and the end of the handshake.
OnlyListedRouted ==
    \A c \in Conns : conn[c].at = "routed" =>
        [key |-> conn[c].key, id |-> conn[c].id] \in conn[c].listed

\* Trojan, TUIC, Hysteria2 and AnyTLS, which rely on TLS, and VMess where the
\* panel asks for it, never have a socket bound without it, on any path from the
\* panel's answer through parseNodeConfig, New, Start and Close; AnyTLS has only
\* parseNodeConfig to see to it.
NeverPlain ==
    /\ sockets # {}
    /\ options.type \in {"trojan", "tuic", "hysteria2", "anytls"} \/ options.tls # "none"
    => tls

\* A server whose Close has returned holds nothing that would keep the next one
\* from its port: no socket, no serving goroutine, and no QUIC listener that was
\* set up behind Close's back (stream.go:73-75), also when Start failed half way.
NothingLeftOpen ==
    at = "closed" =>
        /\ sockets = {} /\ ~tls /\ quic # "open"
        /\ \A n \in DOMAIN serving : serving[n] \in {"none", "ended"}

\* Close returns: what serving.Wait waits for is ended by the sockets closed
\* before it.
CloseReturns == at = "close" ~> at = "closed"
=============================================================================
