--------------------------- MODULE MCNodeServer ---------------------------
(***************************************************************************)
(* NodeServer for TLC: lists with a second user who is sound, shares the   *)
(* first one's credentials or his UUID only, has malformed ones or none,   *)
(* or has no ID; and the panel's answers for the protocols, the transports *)
(* and the edges of parseNodeConfig.                                       *)
(***************************************************************************)
EXTENDS NodeServer

First == [id |-> 1, uuid |-> "u1", password |-> "k1"]
Second == [id |-> 2, uuid |-> "u2", password |-> "k2"]
Sharing == [id |-> 2, uuid |-> "u1", password |-> "k1"]
SameUUID == [id |-> 2, uuid |-> "u1", password |-> "k2"]
Malformed == [id |-> 2, uuid |-> "x", password |-> "x"]
Blank == [id |-> 2, uuid |-> "", password |-> ""]
NoID == [id |-> 0, uuid |-> "u2", password |-> "k2"]

MCLists == {<<>>, <<First>>, <<Second, First>>, <<First, Sharing>>,
            <<First, SameUUID>>, <<Malformed, First>>, <<Blank, First>>, <<NoID, First>>}

VMess == [sort |-> 11, domain |-> FALSE, encoding |-> "object",
          custom |-> [noCustom EXCEPT !.serverKey = TRUE]]

Protocols == {[VMess EXCEPT !.sort = n, !.custom.setting = s, !.custom.obfsPassword = o] :
                 n \in {1, 2, 3, 4, 5}, s \in {"", "unknown"}, o \in BOOLEAN}
Transports == {[VMess EXCEPT !.sort = n, !.custom.network = w, !.custom.security = y] :
                 n \in {11, 14}, w \in {"tcp", "ws", "quic"}, y \in {"", "tls"}}
Edges == {[VMess EXCEPT !.encoding = e, !.custom.offsetPortNode = p,
                        !.custom.offsetPortUser = q] :
             e \in {"object", "array", "broken"}, p \in {-1, 0, 65535}, q \in {0, 65536}}
NoKey == {[VMess EXCEPT !.sort = 1, !.custom.serverKey = FALSE]}
Named == {[VMess EXCEPT !.sort = 5, !.domain = TRUE], [VMess EXCEPT !.sort = 2, !.custom.host = TRUE]}

MCAnswers == Protocols \union Transports \union Edges \union NoKey \union Named
=============================================================================
