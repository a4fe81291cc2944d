-------------------------- MODULE NodeServerProofs --------------------------
(***************************************************************************)
(* Proofs about NodeServer, for every answer and every user list of the    *)
(* panel, every certificate source and any number of connections.          *)
(***************************************************************************)
EXTENDS NodeServer, WellFoundedInduction, TLAPS

-----------------------------------------------------------------------------
(* The inductive invariant.                                                *)

\* Until New has returned nothing is started.
NothingStarted ==
    at = "new" =>
        /\ ~tls /\ quic = "none"
        /\ \A n \in {"tcp", "udp"} : serving[n] = "none"

\* TLS is as the config says from its start on, and nothing is bound before
\* that or after CloseSockets.
BoundAfterTLS ==
    /\ at \in {"tcp", "udp", "running"} => tls = HasTLS(options)
    /\ sockets # {} => at \in {"udp", "running", "close"} /\ tls = HasTLS(options)

\* Goroutines serve transports only.
OnlyTransportsServe ==
    options.transport = "none" =>
        /\ quic = "none"
        /\ \A n \in {"tcp", "udp"} : serving[n] = "none"

\* The service holds what UpdateUsers kept of the last list.
ServiceIsKept ==
    /\ service \subseteq All(given)
    /\ at \in {"tls", "tcp", "udp", "running"} =>
          service = Entries(options.type, given, Kept(options.type, given))

\* Whatever a connection can still be authenticated by was listed while it was
\* under way.
HeldWasListed ==
    \A c \in Conns : conn[c].at # "idle" =>
        All(given) \subseteq conn[c].listed /\ conn[c].held \subseteq conn[c].listed

IInv ==
    /\ TypeOK /\ options \in Configs
    /\ NothingStarted /\ BoundAfterTLS /\ OnlyTransportsServe /\ NothingLeftOpen
    /\ ServiceIsKept /\ HeldWasListed /\ OnlyListedRouted

-----------------------------------------------------------------------------
(* What parseNodeConfig promises.                                          *)

\* The port is the first of three that is positive: the default at the latest.
LEMMA FirstPositive ==
    ASSUME NEW a \in Int, NEW b \in Int
    PROVE  firstPositive(<<a, b, defaultPort>>) \in Nat \ {0}
<1> DEFINE values == <<a, b, defaultPort>>
           positive == {n \in DOMAIN values : values[n] > 0}
<1>1. /\ DOMAIN values = 1 .. 3 /\ values[1] = a /\ values[2] = b /\ values[3] = 443
      BY DEF defaultPort
<1>2. \A n \in DOMAIN values : values[n] \in Int
      BY <1>1
<1>3. \E n \in positive : \A m \in positive : n <= m
  <2>1. 3 \in positive /\ positive \subseteq 1 .. 3
        BY <1>1
  <2>2. CASE 1 \in positive
        BY <2>1, <2>2
  <2>3. CASE 1 \notin positive /\ 2 \in positive
        BY <2>1, <2>3
  <2>4. CASE 1 \notin positive /\ 2 \notin positive
        BY <2>1, <2>4
  <2> QED BY <2>2, <2>3, <2>4
<1>4. (CHOOSE n \in positive : \A m \in positive : n <= m) \in positive
      BY <1>3
<1>5. \A n \in positive : values[n] \in Nat \ {0}
      BY <1>2
<1>6. positive # {}
      BY <1>3
<1> QED BY <1>4, <1>5, <1>6 DEF firstPositive

\* A config it returns is complete; what relies on TLS has a certificate, and
\* only VMess and Trojan have a transport (AnyTLS relies on it, as its
\* New asks nothing about TLS).
LEMMA ParsedConfigs ==
    \A o \in Configs :
        /\ o \in Config
        /\ o.type \in {"trojan", "tuic", "hysteria2", "anytls"} => HasTLS(o)
        /\ o.type \notin Transported => o.transport = "none"
<1> SUFFICES ASSUME NEW local \in LocalTLS, NEW info \in Answers,
                    parseNodeConfig(local, info) # Invalid
             PROVE  LET o == parseNodeConfig(local, info)
                    IN  /\ o \in Config
                        /\ o.type \in {"trojan", "tuic", "hysteria2", "anytls"} => HasTLS(o)
                        /\ o.type \notin Transported => o.transport = "none"
    BY DEF Configs
<1> DEFINE custom == IF info.encoding = "object" THEN info.custom ELSE noCustom
<1>1. custom.offsetPortNode \in Int /\ custom.offsetPortUser \in Int
  <2>1. info \in nodeInfo
        BY AnswersAssumption
  <2>2. info.custom \in customConfig
        BY <2>1 DEF nodeInfo
  <2>3. info.custom.offsetPortNode \in Int /\ info.custom.offsetPortUser \in Int
        BY <2>2 DEF customConfig
  <2>4. noCustom.offsetPortNode = 0 /\ noCustom.offsetPortUser = 0
        BY Zenon DEF noCustom
  <2> QED BY <2>3, <2>4
<1> HIDE DEF custom
<1>2. PICK port \in Nat \ {0} :
        port = firstPositive(<<custom.offsetPortNode, custom.offsetPortUser, defaultPort>>)
      BY <1>1, FirstPositive
<1>3. PICK type : type = NodeType(info.sort)
      OBVIOUS
<1>4. PICK cert : cert = IF WithTLS(type, custom)
                         THEN buildTLS(local, custom.host \/ info.domain) ELSE "none"
      OBVIOUS
<1>5. PICK transport : transport = IF type \in {"vmess", "trojan"}
                                   THEN buildTransport(custom) ELSE "none"
      OBVIOUS
<1>6. PICK setting : setting = IF Setting(type, custom) = "unknown" THEN "unknown" ELSE "known"
      OBVIOUS
<1> DEFINE o == [type |-> type, port |-> port % (maxPort + 1), tls |-> cert,
                 transport |-> transport, setting |-> setting]
<1>7. /\ parseNodeConfig(local, info) = o
      /\ ~(port > maxPort)
      /\ type # "unsupported"
      /\ cert # Invalid
  <2>1. parseNodeConfig(local, info) =
          IF \/ info.encoding = "broken" \/ port > maxPort \/ type = "unsupported"
             \/ type = "shadowsocks2022" /\ ~custom.serverKey
             \/ cert = Invalid
          THEN Invalid ELSE o
        BY <1>2, <1>3, <1>4, <1>5, <1>6 DEF parseNodeConfig, custom
  <2> HIDE DEF o
  <2> QED BY <2>1
<1>8. type \in {"shadowsocks2022", "tuic", "hysteria2", "anytls", "vmess", "trojan"}
      BY <1>3, <1>7 DEF NodeType
<1>9. /\ transport \in {"none", "tcp", "udp"} /\ setting \in {"known", "unknown"}
      /\ type \notin Transported => transport = "none"
      BY <1>5, <1>6 DEF buildTransport, Transported
<1>10. /\ cert \in {"none", "selfSigned", "certificate", "acme", "acmeDomain"}
       /\ type \in {"trojan", "tuic", "hysteria2", "anytls"} => cert # "none"
  <2>1. \A b : buildTLS(local, b) # Invalid =>
            buildTLS(local, b) \in {"selfSigned", "certificate", "acme", "acmeDomain"}
        BY LocalTLSAssumption DEF buildTLS
  <2>2. type \in {"trojan", "tuic", "hysteria2", "anytls"} => WithTLS(type, custom)
        BY DEF WithTLS
  <2>3. cert # Invalid
        BY <1>7
  <2> QED BY <1>4, <2>1, <2>2, <2>3
<1>11. PICK number \in 1 .. maxPort : number = port % (maxPort + 1)
  <2>1. port \in 1 .. maxPort
    <3>1. maxPort \in Nat
          BY DEF maxPort
    <3> HIDE DEF o
    <3> QED BY <1>2, <1>7, <3>1
  <2>2. \A p \in 1 .. maxPort : p % (maxPort + 1) \in 1 .. maxPort
    <3>1. maxPort \in Nat
          BY DEF maxPort
    <3> QED BY <3>1, Z3
  <2> QED BY <2>1, <2>2, Zenon
<1>12. o \in Config
  <2>1. \A p \in 1 .. maxPort :
            [type |-> type, port |-> p, tls |-> cert, transport |-> transport,
             setting |-> setting] \in Config
        BY <1>8, <1>9, <1>10 DEF Config
  <2> QED BY <1>11, <2>1, Zenon
<1>13. o.type = type /\ o.tls = cert /\ o.transport = transport
       OBVIOUS
<1>14. parseNodeConfig(local, info) = o
       BY <1>7
<1> HIDE DEF o
<1> QED BY <1>9, <1>10, <1>12, <1>13, <1>14 DEF HasTLS

-----------------------------------------------------------------------------
(* What UpdateUsers passes on.                                             *)

Types == {"shadowsocks2022", "tuic", "hysteria2", "anytls", "vmess", "trojan"}

\* It leaves out whatever would make the service refuse the list.
LEMMA NeverRejected ==
    ASSUME NEW type \in Types, NEW list, \A i, j \in DOMAIN list : i \in Int /\ j \in Int
    PROVE  ~Rejects(type, list, Kept(type, list)) /\ Kept(type, list) \subseteq DOMAIN list
<1>1. CASE type = "shadowsocks2022"
      BY <1>1 DEF Rejects, Kept, shadowsocksKept
<1>2. CASE type = "tuic"
      BY <1>2 DEF Rejects, Kept, tuicKept
<1>3. CASE type = "hysteria2"
      BY <1>3 DEF Rejects, Kept, hysteria2Kept
<1>4. CASE type = "anytls"
      BY <1>4 DEF Rejects, Kept, anytlsKept
<1>5. CASE type = "vmess"
      BY <1>5 DEF Rejects, Kept, vmessKept
<1>6. CASE type = "trojan"
  <2>1. Kept(type, list) = trojanKept(list)
        BY <1>6 DEF Kept
  <2>2. ASSUME NEW i \in trojanKept(list), NEW j \in trojanKept(list), i # j
        PROVE  list[i].uuid # list[j].uuid
        BY <2>2 DEF trojanKept
  <2> QED BY <1>6, <2>1, <2>2 DEF Rejects, trojanKept
<1> QED BY <1>1, <1>2, <1>3, <1>4, <1>5, <1>6 DEF Types

\* Every credential that is usable by itself has its entry; for Trojan, which
\* passes a repeated UUID on once, by the first user who has it.
LEMMA UsableKept ==
    ASSUME NEW type \in Types, NEW list, DOMAIN list \subseteq Nat, NEW i \in DOMAIN list,
           Key(type, list[i]) # Empty, ~Rejects(type, list, {i})
    PROVE  \E k \in Kept(type, list) : Key(type, list[k]) = Key(type, list[i])
<1>1. CASE type = "shadowsocks2022"
      BY <1>1 DEF Rejects, Kept, shadowsocksKept
<1>2. CASE type = "tuic"
      BY <1>2 DEF Rejects, Kept, tuicKept
<1>3. CASE type = "hysteria2"
      BY <1>3 DEF Key, Kept, hysteria2Kept
<1>4. CASE type = "anytls"
      BY <1>4 DEF Key, Kept, anytlsKept
<1>5. CASE type = "vmess"
      BY <1>5 DEF Rejects, Kept, vmessKept
<1>6. CASE type = "trojan"
  <2> DEFINE same == {n \in DOMAIN list : list[n].uuid = list[i].uuid}
  <2>1. same \subseteq Nat /\ same # {}
        OBVIOUS
  <2>2. PICK k \in same : \A j \in same : <<j, k>> \notin OpToRel(<, Nat)
    <3>1. IsWellFoundedOn(OpToRel(<, Nat), same)
          BY <2>1, NatLessThanWellFounded, IsWellFoundedOnSubset
    <3> HIDE DEF same
    <3> QED BY <2>1, <3>1, WFMin
  <2>3. \A j \in DOMAIN list : j < k => list[j].uuid # list[k].uuid
        BY <2>2 DEF OpToRel
  <2>4. Kept(type, list) = trojanKept(list)
        BY <1>6 DEF Kept
  <2>5. \A j \in DOMAIN list : Key(type, list[j]) = list[j].uuid
        BY <1>6 DEF Key
  <2>6. k \in trojanKept(list) /\ list[k].uuid = list[i].uuid /\ k \in DOMAIN list
        BY <2>2, <2>3, <2>5 DEF trojanKept
  <2> QED BY <2>4, <2>5, <2>6
<1> QED BY <1>1, <1>2, <1>3, <1>4, <1>5, <1>6 DEF Types

\* The lists UpdateUsers gets have their users at natural positions.
LEMMA GivenLists ==
    /\ \A list \in Lists : DOMAIN FetchUsers(list) \subseteq Nat
    /\ DOMAIN <<>> = {}
<1>1. ASSUME NEW list \in Lists
      PROVE  DOMAIN FetchUsers(list) \subseteq Nat
  <2>1. list \in Seq([id : Int, uuid : STRING, password : STRING])
        BY ListsAssumption
  <2>2. DOMAIN list \subseteq Nat
        BY <2>1
  <2> QED BY <2>2 DEF FetchUsers
<1> QED BY <1>1

\* UpdateUsers succeeds, and the service then holds what is kept of the list.
LEMMA UpdateSucceeds ==
    ASSUME TypeOK, NEW list \in Lists, UpdateUsers(FetchUsers(list))
    PROVE  \E new \in {FetchUsers(l) : l \in Lists} :
              /\ given' = new
              /\ service' = Entries(options.type, new, Kept(options.type, new))
              /\ service' \subseteq All(new) /\ All(new) \subseteq Entry
              /\ conn' = AlsoListed(All(new))
              /\ at \in {"users", "running"}
              /\ at' = IF at = "running" THEN "running" ELSE "tls"
              /\ UNCHANGED <<options, tls, sockets, serving, quic>>
<1>1. PICK new : new = FetchUsers(list)
      OBVIOUS
<1>2. options.type \in Types
      BY DEF TypeOK, Config, Types
<1>3. /\ ~Rejects(options.type, new, Kept(options.type, new))
      /\ Kept(options.type, new) \subseteq DOMAIN new
      BY <1>1, <1>2, GivenLists, NeverRejected
<1>4. Entries(options.type, new, Kept(options.type, new)) \subseteq All(new)
      BY <1>3 DEF All, Entries
<1>5. All(new) \subseteq Entry
      BY <1>1 DEF Entry
<1>6. UpdateUsers(new)
      BY <1>1
<1> QED BY <1>1, <1>3, <1>4, <1>5, <1>6 DEF UpdateUsers

-----------------------------------------------------------------------------
(* Every step keeps the invariant.                                         *)

\* Init establishes the invariant.
LEMMA InitIInv == Init => IInv
<1> SUFFICES ASSUME Init PROVE IInv
    OBVIOUS
<1>1. TypeOK /\ options \in Configs
      BY ParsedConfigs DEF Init, TypeOK
<1>2. NothingStarted /\ BoundAfterTLS /\ OnlyTransportsServe /\ NothingLeftOpen
      BY DEF Init, NothingStarted, BoundAfterTLS, OnlyTransportsServe, NothingLeftOpen
<1>3. ServiceIsKept /\ HeldWasListed /\ OnlyListedRouted
      BY DEF Init, ServiceIsKept, HeldWasListed, OnlyListedRouted, NoConn
<1> QED BY <1>1, <1>2, <1>3 DEF IInv

\* What is bound, started and serving.
LEMMA ResourceStep ==
    ASSUME IInv, Next
    PROVE  /\ options' = options
           /\ NothingStarted' /\ BoundAfterTLS' /\ OnlyTransportsServe' /\ NothingLeftOpen'
<1> USE DEF IInv, NothingStarted, BoundAfterTLS, OnlyTransportsServe, NothingLeftOpen
<1>1. /\ options \in Config /\ tls \in BOOLEAN /\ sockets \subseteq {"tcp", "udp"}
      /\ serving \in [{"tcp", "udp"} -> {"none", "spawned", "running", "ended"}]
      /\ options.type \notin Transported => options.transport = "none"
      BY ParsedConfigs DEF TypeOK
<1>2. CASE Create
      BY <1>1, <1>2 DEF Create
<1>3. CASE CreateFailed
      BY <1>1, <1>3 DEF CreateFailed
<1>4. CASE \E list \in Lists : UpdateUsers(FetchUsers(list))
  <2>1. /\ at \in {"users", "running"}
        /\ at' = IF at = "running" THEN "running" ELSE "tls"
        /\ UNCHANGED <<options, tls, sockets, serving, quic>>
        BY <1>4, UpdateSucceeds
  <2> QED BY <1>1, <2>1 DEF HasTLS
<1>5. CASE StartTLS
      BY <1>1, <1>5 DEF StartTLS, HasTLS
<1>6. CASE ListenTCP
      BY <1>1, <1>6 DEF ListenTCP, HasTLS, Spawned
<1>7. CASE ListenUDP
      BY <1>1, <1>7 DEF ListenUDP, HasTLS, Spawned
<1>8. CASE StartFailed
      BY <1>1, <1>8 DEF StartFailed, HasTLS
<1>9. CASE Stop
      BY <1>1, <1>9 DEF Stop, HasTLS
<1>10. CASE CloseSockets
      BY <1>1, <1>10 DEF CloseSockets, HasTLS
<1>11. CASE CloseStream
      BY <1>1, <1>11 DEF CloseStream, Closed, HasTLS
<1>12. ASSUME NEW n \in {"tcp", "udp"}, Serve(n)
       PROVE  /\ options' = options
              /\ NothingStarted' /\ BoundAfterTLS' /\ OnlyTransportsServe' /\ NothingLeftOpen'
       BY <1>1, <1>12 DEF Serve, HasTLS
<1>13. ASSUME NEW n \in {"tcp", "udp"}, ServeEnds(n)
       PROVE  /\ options' = options
              /\ NothingStarted' /\ BoundAfterTLS' /\ OnlyTransportsServe' /\ NothingLeftOpen'
       BY <1>1, <1>13 DEF ServeEnds, HasTLS
<1>14. CASE UNCHANGED <<options, at, tls, sockets, serving, quic>>
       BY <1>14 DEF HasTLS
<1> QED BY <1>2, <1>3, <1>4, <1>5, <1>6, <1>7, <1>8, <1>9, <1>10, <1>11, <1>12, <1>13, <1>14
        DEF Next, Accept, newConnection, newConnectionEx, shadowsocksNewConnection,
            newMetadata, Authenticated, End

\* The service: only UpdateUsers replaces it, together with the list.
LEMMA ServiceStep ==
    ASSUME IInv, Next
    PROVE  ServiceIsKept'
<1>1. options' = options
      BY ResourceStep
<1>2. CASE \E list \in Lists : UpdateUsers(FetchUsers(list))
  <2>1. PICK new : /\ given' = new
                   /\ service' = Entries(options.type, new, Kept(options.type, new))
                   /\ service' \subseteq All(new)
        BY <1>2, UpdateSucceeds DEF IInv
  <2>2. All(new)' = All(new)
        BY <1>1 DEF All
  <2> QED BY <1>1, <2>1, <2>2 DEF ServiceIsKept, All
<1>3. CASE UNCHANGED <<given, service>> /\ (at' \in {"tls", "tcp", "udp", "running"} =>
                                             at \in {"tls", "tcp", "udp", "running"})
      BY <1>1, <1>3 DEF IInv, ServiceIsKept, All
<1> QED BY <1>2, <1>3
        DEF Next, Create, CreateFailed, StartTLS, ListenTCP, ListenUDP, StartFailed, Stop,
            CloseSockets, CloseStream, Serve, ServeEnds, Accept, newConnection,
            newConnectionEx, shadowsocksNewConnection, newMetadata, Authenticated, End

\* The types, and what the connections know, which change together.
LEMMA ConnStep ==
    ASSUME IInv, Next
    PROVE  TypeOK' /\ HeldWasListed' /\ OnlyListedRouted'
<1> DEFINE OthersOK ==
        /\ options \in Config
        /\ at \in {"new", "users", "tls", "tcp", "udp", "running", "close", "wait", "closed"}
        /\ given \in {<<>>} \union {FetchUsers(list) : list \in Lists} /\ service \subseteq Entry
        /\ tls \in BOOLEAN /\ sockets \subseteq {"tcp", "udp"}
        /\ serving \in [{"tcp", "udp"} -> {"none", "spawned", "running", "ended"}]
        /\ quic \in {"none", "open", "closed"}
<1>1. OthersOK /\ conn \in [Conns -> Conn \union {NoConn}]
      BY DEF IInv, TypeOK
<1>2. /\ options' = options /\ Keys' = Keys /\ Entry' = Entry /\ Conn' = Conn
      /\ \A l : All(l)' = All(l)
  <2>1. options' = options
        BY ResourceStep
  <2>2. Keys' = Keys /\ \A l : All(l)' = All(l)
        BY <2>1 DEF Keys, All
  <2>3. Entry' = Entry
        BY <2>1, <2>2 DEF Entry
  <2> QED BY <2>1, <2>2, <2>3 DEF Conn
<1>3. /\ \A e \in Entry : e = [key |-> e.key, id |-> e.id]
      /\ All(given) \subseteq Entry /\ service \subseteq All(given)
  <2>1. \A l : \A e \in All(l) : e = [key |-> e.key, id |-> e.id]
        BY DEF All, Entries
  <2>2. \A e \in Entry : e = [key |-> e.key, id |-> e.id]
        BY <2>1 DEF Entry
  <2>3. All(<<>>) = {}
        BY DEF All, Entries
  <2>4. All(given) \subseteq Entry
        BY <1>1, <2>3 DEF Entry
  <2> QED BY <2>2, <2>4 DEF IInv, ServiceIsKept
\* One connection is replaced by a record that knows what was listed.
<1>4. ASSUME NEW c \in Conns, NEW r \in Conn \union {NoConn},
             conn' = [conn EXCEPT ![c] = r], given' = given,
             r.at # "idle" => All(given) \subseteq r.listed /\ r.held \subseteq r.listed,
             r.at = "routed" => [key |-> r.key, id |-> r.id] \in r.listed
      PROVE  conn' \in [Conns -> Conn' \union {NoConn}] /\ HeldWasListed' /\ OnlyListedRouted'
      BY <1>1, <1>2, <1>4 DEF IInv, HeldWasListed, OnlyListedRouted
\* A connection is routed as the user of an entry that it could be shown.
<1>5. ASSUME NEW c \in Conns, NEW e \in Entry, conn[c].at # "idle",
             e \in conn[c].listed, e.key = conn[c].key, conn' = UserContext(c, e.id),
             given' = given
      PROVE  conn' \in [Conns -> Conn' \union {NoConn}] /\ HeldWasListed' /\ OnlyListedRouted'
  <2>1. PICK id : id = e.id /\ id \in {0} \union {f.id : f \in Entry}
        OBVIOUS
  <2>2. conn[c] \in Conn
        BY <1>1, <1>5 DEF NoConn
  <2>3. PICK r : r = [conn[c] EXCEPT !.at = "routed", !.id = id, !.held = {}]
        OBVIOUS
  <2>4. r \in Conn /\ r.key = conn[c].key /\ r.id = id /\ r.held = {} /\ r.listed = conn[c].listed
        BY <2>1, <2>2, <2>3 DEF Conn
  <2>5. conn' = [conn EXCEPT ![c] = r]
        BY <1>1, <1>5, <2>1, <2>3 DEF UserContext
  <2>6. [key |-> r.key, id |-> r.id] \in r.listed
        BY <1>3, <1>5, <2>1, <2>4
  <2>7. All(given) \subseteq r.listed
        BY <1>5, <2>4 DEF IInv, HeldWasListed
  <2> QED BY <1>4, <1>5, <2>4, <2>5, <2>6, <2>7
<1> HIDE DEF OthersOK
<1>6. ASSUME OthersOK', conn' \in [Conns -> Conn' \union {NoConn}], HeldWasListed',
             OnlyListedRouted'
      PROVE  TypeOK' /\ HeldWasListed' /\ OnlyListedRouted'
      BY <1>6 DEF OthersOK, TypeOK
<1>7. CASE \E list \in Lists : UpdateUsers(FetchUsers(list))
  <2>1. PICK new \in {FetchUsers(l) : l \in Lists} :
              /\ given' = new
              /\ service' \subseteq All(new) /\ All(new) \subseteq Entry
              /\ conn' = AlsoListed(All(new))
              /\ at \in {"users", "running"}
              /\ at' = IF at = "running" THEN "running" ELSE "tls"
              /\ UNCHANGED <<options, tls, sockets, serving, quic>>
        BY <1>7, UpdateSucceeds DEF IInv
  <2>2. OthersOK'
        BY <1>1, <1>2, <2>1 DEF OthersOK
  <2>3. PICK more : more = All(new) /\ more \subseteq Entry
        BY <2>1
  <2>4. /\ conn' = [c \in Conns |-> IF conn[c].at = "idle" THEN conn[c]
                                    ELSE [conn[c] EXCEPT !.listed = @ \union more]]
        BY <2>1, <2>3 DEF AlsoListed
  <2>5. \A c \in Conns : conn[c].at # "idle" => conn[c] \in Conn
        BY <1>1 DEF NoConn
  <2>6. ASSUME NEW c \in Conns, conn[c].at # "idle"
        PROVE  /\ conn'[c] \in Conn /\ conn'[c].at = conn[c].at /\ conn'[c].key = conn[c].key
               /\ conn'[c].id = conn[c].id /\ conn'[c].held = conn[c].held
               /\ conn'[c].listed = conn[c].listed \union more
        BY <2>3, <2>4, <2>5, <2>6 DEF Conn
  <2>7. \A c \in Conns : conn[c].at = "idle" => conn'[c] = conn[c]
        BY <2>4
  <2>8. conn' \in [Conns -> Conn \union {NoConn}]
        BY <1>1, <2>4, <2>6, <2>7
  <2>9. All(given)' = more
        BY <1>2, <2>1, <2>3 DEF All
  <2>10. HeldWasListed' /\ OnlyListedRouted'
        BY <2>6, <2>7, <2>9 DEF IInv, HeldWasListed, OnlyListedRouted
  <2> QED BY <1>2, <1>6, <2>2, <2>8, <2>10
<1>8. CASE UNCHANGED <<given, service, conn>> /\ OthersOK'
      BY <1>1, <1>2, <1>6, <1>8 DEF IInv, HeldWasListed, OnlyListedRouted
<1>9. CASE Create \/ CreateFailed \/ StartTLS \/ ListenTCP \/ ListenUDP \/ StartFailed \/ Stop
           \/ CloseSockets \/ CloseStream \/ \E n \in {"tcp", "udp"} : Serve(n) \/ ServeEnds(n)
  <2>1. UNCHANGED <<given, service, conn>>
        BY <1>9 DEF Create, CreateFailed, StartTLS, ListenTCP, ListenUDP, StartFailed, Stop,
                    CloseSockets, CloseStream, Serve, ServeEnds
  <2> USE <1>1 DEF OthersOK
  <2>2. (Create \/ CreateFailed \/ Stop) => OthersOK'
        BY <1>2 DEF Create, CreateFailed, Stop
  <2>3. StartTLS => OthersOK'
        BY <1>2 DEF StartTLS, HasTLS
  <2>4. ListenTCP => OthersOK'
        BY <1>2 DEF ListenTCP, Spawned
  <2>5. ListenUDP => OthersOK'
        BY <1>2 DEF ListenUDP, Spawned
  <2>6. StartFailed => OthersOK'
        BY <1>2 DEF StartFailed
  <2>7. CloseSockets => OthersOK'
        BY <1>2 DEF CloseSockets
  <2>8. CloseStream => OthersOK'
        BY <1>2 DEF CloseStream, Closed
  <2>9. ASSUME NEW n \in {"tcp", "udp"}, Serve(n) \/ ServeEnds(n)
        PROVE  OthersOK'
        BY <1>2, <2>9 DEF Serve, ServeEnds
  <2> HIDE DEF OthersOK
  <2> QED BY <1>8, <1>9, <2>1, <2>2, <2>3, <2>4, <2>5, <2>6, <2>7, <2>8, <2>9
<1>10. ASSUME UNCHANGED <<options, at, given, service, tls, sockets, serving, quic>>
       PROVE  OthersOK'
       BY <1>1, <1>2, <1>10 DEF OthersOK
<1>11. ASSUME NEW c \in Conns, NEW key \in Keys, Accept(c, key)
       PROVE  TypeOK' /\ HeldWasListed' /\ OnlyListedRouted'
  <2>1. PICK r : r = [at |-> "accepted", key |-> key, held |-> {}, listed |-> All(given), id |-> 0]
        OBVIOUS
  <2>2. r \in Conn /\ r.at = "accepted" /\ r.held = {} /\ r.listed = All(given)
        BY <1>3, <2>1 DEF Conn
  <2> QED BY <1>4, <1>6, <1>10, <1>11, <2>1, <2>2 DEF Accept
<1>12. ASSUME NEW c \in Conns, newConnection(c)
       PROVE  TypeOK' /\ HeldWasListed' /\ OnlyListedRouted'
  <2>1. conn[c] \in Conn /\ conn[c].at = "accepted"
        BY <1>1, <1>12 DEF newConnection, NoConn
  <2>2. PICK r : r = [conn[c] EXCEPT !.at = "handshake", !.held = service]
        OBVIOUS
  <2>3. r \in Conn /\ r.at = "handshake" /\ r.held = service /\ r.listed = conn[c].listed
        BY <1>3, <2>1, <2>2 DEF Conn
  <2>4. conn' = [conn EXCEPT ![c] = r]
        BY <1>1, <1>12, <2>2 DEF newConnection
  <2>5. All(given) \subseteq r.listed /\ r.held \subseteq r.listed
        BY <1>3, <2>1, <2>3 DEF IInv, HeldWasListed
  <2> QED BY <1>4, <1>6, <1>10, <1>12, <2>3, <2>4, <2>5 DEF newConnection
<1>13. ASSUME NEW c \in Conns, newConnectionEx(c)
       PROVE  TypeOK' /\ HeldWasListed' /\ OnlyListedRouted'
  <2>1. PICK e \in conn[c].held : e.key = conn[c].key /\ conn' = UserContext(c, e.id)
        BY <1>13 DEF newConnectionEx
  <2>2. conn[c] \in Conn /\ conn[c].at = "handshake"
        BY <1>1, <1>13 DEF newConnectionEx, NoConn
  <2>3. e \in Entry /\ e \in conn[c].listed
        BY <2>1, <2>2 DEF Conn, IInv, HeldWasListed
  <2> QED BY <1>5, <1>6, <1>10, <1>13, <2>1, <2>2, <2>3 DEF newConnectionEx
<1>14. ASSUME NEW c \in Conns, Authenticated(c)
       PROVE  TypeOK' /\ HeldWasListed' /\ OnlyListedRouted'
  <2>1. PICK e \in service : e.key = conn[c].key /\ conn' = UserContext(c, e.id)
        BY <1>14 DEF Authenticated
  <2>2. conn[c].at = "accepted"
        BY <1>14 DEF Authenticated
  <2>3. e \in Entry /\ e \in conn[c].listed
        BY <1>3, <2>1, <2>2 DEF IInv, HeldWasListed
  <2> QED BY <1>5, <1>6, <1>10, <1>14, <2>1, <2>2, <2>3 DEF Authenticated
<1>15. ASSUME NEW c \in Conns, End(c)
       PROVE  TypeOK' /\ HeldWasListed' /\ OnlyListedRouted'
  <2>1. NoConn.at = "idle"
        BY DEF NoConn
  <2> QED BY <1>4, <1>6, <1>10, <1>15, <2>1 DEF End
<1> QED BY <1>7, <1>9, <1>11, <1>12, <1>13, <1>14, <1>15
        DEF Next, shadowsocksNewConnection, newMetadata

\* The inductive invariant holds throughout.
LEMMA Invariance == Spec => []IInv
<1>1. ASSUME IInv, [Next]_vars
      PROVE  IInv'
  <2>1. CASE Next
        BY <1>1, <2>1, ResourceStep, ServiceStep, ConnStep DEF IInv
  <2>2. CASE UNCHANGED vars
        BY <1>1, <2>2 DEF IInv, vars, TypeOK, NothingStarted, BoundAfterTLS, OnlyTransportsServe,
            NothingLeftOpen, ServiceIsKept, HeldWasListed, OnlyListedRouted, All, Entry, Keys, Conn
  <2> QED BY <1>1, <2>1, <2>2
<1> QED BY <1>1, InitIInv, PTL DEF Spec

-----------------------------------------------------------------------------
(* The results.                                                            *)

\* Every variable of the node server keeps its type, whatever the panel answers.
THEOREM TypeCorrect == Spec => []TypeOK
<1>1. IInv => TypeOK
      BY DEF IInv
<1> QED BY <1>1, Invariance, PTL

\* UpdateUsers: after any sequence of lists the service knows a user for every
\* usable credential of the last one, and nobody else.
THEOREM ServiceFollows == Spec => []ServiceFollowsList
<1>1. IInv => ServiceFollowsList
  <2> SUFFICES ASSUME IInv, at \in {"tls", "tcp", "udp", "running"},
                      NEW i \in DOMAIN given, Key(options.type, given[i]) # Empty,
                      ~Rejects(options.type, given, {i})
               PROVE  \E e \in service : e.key = Key(options.type, given[i])
      BY DEF IInv, ServiceIsKept, TypeOK, ServiceFollowsList
  <2>1. options.type \in Types /\ DOMAIN given \subseteq Nat
        BY GivenLists DEF IInv, TypeOK, Config, Types
  <2>2. PICK k \in Kept(options.type, given) :
                Key(options.type, given[k]) = Key(options.type, given[i])
        BY <2>1, UsableKept
  <2>3. PICK e : e = [key |-> Key(options.type, given[k]), id |-> given[k].id]
        OBVIOUS
  <2>4. e \in service
        BY <2>2, <2>3 DEF IInv, ServiceIsKept, Entries
  <2> QED BY <2>2, <2>3, <2>4
<1> QED BY <1>1, Invariance, PTL

\* UserContext: a connection is routed as a user who was listed with the
\* credential it showed while it was being accepted.
THEOREM RoutedListed == Spec => []OnlyListedRouted
<1>1. IInv => OnlyListedRouted
      BY DEF IInv
<1> QED BY <1>1, Invariance, PTL

\* Start and Close: what relies on TLS never has a socket bound without it,
\* whatever the panel answers and wherever Start fails.
THEOREM TLSAlways == Spec => []NeverPlain
<1>1. IInv => NeverPlain
      BY ParsedConfigs DEF IInv, BoundAfterTLS, NeverPlain, HasTLS
<1> QED BY <1>1, Invariance, PTL

\* Close: a closed server holds no socket, goroutine or QUIC listener.
THEOREM AllClosed == Spec => []NothingLeftOpen
<1>1. IInv => NothingLeftOpen
      BY DEF IInv
<1> QED BY <1>1, Invariance, PTL
=============================================================================
