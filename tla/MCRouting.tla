----------------------------- MODULE MCRouting -----------------------------
(***************************************************************************)
(* Routing for TLC: a text rule, a hex rule, and both in either order; a   *)
(* public address, the unspecified one, and one of carrier-grade NAT in    *)
(* its IPv6 form.                                                          *)
(***************************************************************************)
EXTENDS Routing

CONSTANTS w1, w2

TextRule == [id |-> 1, type |-> "text", pattern |-> w1]
HexRule == [id |-> 2, type |-> "hex", pattern |-> hexPayload(w2)]

MCRuleLists == {<<>>, <<TextRule>>, <<TextRule, HexRule>>, <<HexRule, TextRule>>}

MCAddrs == {[net |-> "public", mapped |-> FALSE], [net |-> "unspecified", mapped |-> FALSE],
            [net |-> "100.64/10", mapped |-> TRUE]}
=============================================================================
