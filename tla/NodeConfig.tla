----------------------------- MODULE NodeConfig -----------------------------
(***************************************************************************)
(* What the panel says of a node, and what a node server is built from:    *)
(* parseNodeConfig of api/serverv1/node.go, as operators.  NodeServer      *)
(* composes them with the node servers.                                    *)
(*                                                                         *)
(* Names, paths and keys are left out: of a string only what the code asks *)
(* about it is kept.                                                       *)
(***************************************************************************)
EXTENDS Integers, Sequences

CONSTANTS
    Answers,   \* the panel's node infos
    LocalTLS,  \* the certificate sources the local options may name
    Invalid    \* an error

Networks == {"", "tcp", "ws", "http", "h2", "httpupgrade", "grpc", "quic", "other"}

\* custom_config.  `setting` is the Shadowsocks method, the Hysteria2 obfuscation
\* or the AnyTLS padding: not given, or one that New knows or does not know.
customConfig ==
    [offsetPortNode : Int, offsetPortUser : Int, host : BOOLEAN,
     setting : {"", "known", "unknown"}, serverKey : BOOLEAN, obfsPassword : BOOLEAN,
     network : Networks, security : {"", "tls", "other"}]

\* The panel's answer; `domain`: the node's address is a domain name.
nodeInfo == [sort : Int, domain : BOOLEAN, encoding : {"object", "array", "broken"},
             custom : customConfig]

ASSUME AnswersAssumption == Answers \subseteq nodeInfo
ASSUME LocalTLSAssumption ==
    LocalTLS \subseteq {"none", "certificate", "acme", "acmeDomain"}

NodeType(sort) ==
    CASE sort = 1 -> "shadowsocks2022" [] sort = 2 -> "tuic" [] sort = 4 -> "hysteria2"
      [] sort = 5 -> "anytls" [] sort = 11 -> "vmess" [] sort = 14 -> "trojan"
      [] OTHER -> "unsupported"

\* An empty PHP array stands for no settings.
noCustom ==
    [offsetPortNode |-> 0, offsetPortUser |-> 0, host |-> FALSE, setting |-> "",
     serverKey |-> FALSE, obfsPassword |-> FALSE, network |-> "", security |-> ""]

firstPositive(values) ==
    LET positive == {n \in DOMAIN values : values[n] > 0}
    IN  IF positive = {} THEN 0
        ELSE values[CHOOSE n \in positive : \A m \in positive : n <= m]

defaultPort == 443
maxPort == 65535

\* Where the certificate comes from.
buildTLS(local, serverName) ==
    CASE local = "acme" /\ ~serverName -> Invalid
      [] local = "none" -> "selfSigned"
      [] OTHER -> local

\* Wrong variant: TLS is what the panel asks for.
WithTLSAsked(type, custom) == type # "shadowsocks2022" /\ custom.security = "tls"

\* Only VMess asks the panel, and Shadowsocks has none.
WithTLS(type, custom) ==
    type # "shadowsocks2022" /\ (type = "vmess" => custom.security = "tls")

\* The network of the transport.
buildTransport(custom) ==
    CASE custom.network \in {"ws", "http", "h2", "httpupgrade", "grpc"} -> "tcp"
      [] custom.network = "quic" -> "udp"
      [] OTHER -> "none"

\* Defaults stand in for what is not given, and without a password Hysteria2 has
\* no obfuscation.
Setting(type, custom) ==
    CASE type = "hysteria2" -> IF custom.obfsPassword THEN custom.setting ELSE ""
      [] type \in {"shadowsocks2022", "anytls"} -> custom.setting
      [] OTHER -> ""

\* A node config.  `transport` is the network of the V2Ray transport.
Config ==
    [type : {"shadowsocks2022", "tuic", "hysteria2", "anytls", "vmess", "trojan"},
     port : 1 .. maxPort, tls : {"none", "selfSigned", "certificate", "acme", "acmeDomain"},
     transport : {"none", "tcp", "udp"}, setting : {"known", "unknown"}]

\* The node config, or an error.
parseNodeConfig(local, info) ==
    LET custom == IF info.encoding = "object" THEN info.custom ELSE noCustom
        type == NodeType(info.sort)
        port == firstPositive(<<custom.offsetPortNode, custom.offsetPortUser, defaultPort>>)
        tls == IF WithTLS(type, custom) THEN buildTLS(local, custom.host \/ info.domain)
               ELSE "none"
    IN  IF \/ info.encoding = "broken" \/ port > maxPort \/ type = "unsupported"
           \/ type = "shadowsocks2022" /\ ~custom.serverKey
           \/ tls = Invalid
        THEN Invalid
        ELSE [type |-> type, port |-> port % (maxPort + 1), tls |-> tls,
              transport |-> IF type \in {"vmess", "trojan"} THEN buildTransport(custom)
                            ELSE "none",
              setting |-> IF Setting(type, custom) = "unknown" THEN "unknown" ELSE "known"]

\* What FetchNodeConfig can return; after an error there is no server, or the
\* last one stays.
Configs == {parseNodeConfig(local, info) : local \in LocalTLS, info \in Answers} \ {Invalid}

\* FetchUsers leaves out users without an ID; the others keep their positions, of
\* which only the order matters.
FetchUsers(users) == [i \in {n \in DOMAIN users : users[n].id > 0} |-> users[i]]
=============================================================================
