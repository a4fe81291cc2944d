---------------------------- MODULE Destination ----------------------------
(***************************************************************************)
(* Where users may go: destination.go, and resolve of router.go, as        *)
(* operators.  Routing composes them with the detect rules.                *)
(*                                                                         *)
(* A destination is a domain, an address, or NoAddr: neither.  An address  *)
(* is the kind of network it is in, and whether it is an IPv4 address in   *)
(* its IPv6 form, in which netip's prefixes do not contain it.             *)
(***************************************************************************)
CONSTANTS
    Domains,
    Addrs,    \* the addresses that are in use
    NoAddr    \* an invalid address, and no domain

\* The methods of netip.Addr that privateAddress calls.
Classified == {"loopback", "private", "linkLocalUnicast", "multicast", "unspecified"}

\* Beyond those: this network, carrier-grade NAT, broadcast.
privatePrefixes == {"0/8", "100.64/10", "255.255.255.255"}

Networks == Classified \union privatePrefixes \union {"public"}

ASSUME AddrsAssumption == Addrs \subseteq [net : Networks, mapped : BOOLEAN]

Destinations == Domains \union Addrs \union {NoAddr}

\* Local options: allow_private_destinations, and whether domains are resolved
\* here, which only a front proxy changes.
Options == [allowPrivate : BOOLEAN, resolveDomain : BOOLEAN]

IsFqdn(d) == d \in Domains
IsIP(d) == ~IsFqdn(d) /\ d # NoAddr

Unmap(a) == [a EXCEPT !.mapped = FALSE]
Contains(prefixes, a) == a.net \in prefixes /\ ~a.mapped

\* Wrong variant: an address in its IPv6 form is taken as it is.
privateAddressMapped(a) == a.net \in Classified \/ Contains(privatePrefixes, a)

privateAddress(a) ==
    LET addr == Unmap(a)
    IN  addr.net \in Classified \/ Contains(privatePrefixes, addr)

\* What may be dialed: what users say, and what is resolved for them.
Targets == Destinations \union {Unmap(a) : a \in Addrs}

\* The addresses that a lookup's answer leaves in the metadata.
resolve(o, d, answer) ==
    IF o.resolveDomain /\ IsFqdn(d) THEN {Unmap(a) : a \in answer} ELSE {}

\* checkDestination: its refusal, and the addresses it keeps.
Refused(o, d, addresses) ==
    /\ ~o.allowPrivate
    /\ \/ IsIP(d) /\ privateAddress(d)
       \/ addresses # {} /\ \A a \in addresses : privateAddress(a)

checkDestination(o, addresses) ==
    IF o.allowPrivate THEN addresses ELSE {a \in addresses : ~privateAddress(a)}

\* privateFilterDialer.refuses; NewServer puts the filter in unless private
\* destinations are allowed.
refuses(o, d) ==
    /\ ~o.allowPrivate
    /\ IF IsFqdn(d) THEN o.resolveDomain ELSE d = NoAddr \/ privateAddress(d)

\* What a connection may be dialed to, or a UDP session be set up for: the
\* addresses, where there are some.
DialContext(o, d, addresses) ==
    {t \in (IF addresses = {} THEN {d} ELSE addresses) : ~refuses(o, t)}

\* Where a packet of a UDP session for d goes, which was set up with t: to t if
\* it says d, or else where it says, or nowhere.  The session carries on.
WritePacket(o, d, t, packet) ==
    LET to == IF packet = d THEN t ELSE packet
    IN  {x \in {to} : ~refuses(o, x)}
=============================================================================
