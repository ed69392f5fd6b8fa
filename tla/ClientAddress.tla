---------------------------- MODULE ClientAddress ----------------------------
(***************************************************************************)
(* The address a request is counted under (ratelimit/client_ip.go), as a   *)
(* function of the mode chosen at start, the peer of the connection and    *)
(* the two forwarding headers.                                             *)
(*                                                                         *)
(* A text is a host and the way it is written.  A header is the sequence   *)
(* of its lines, X-Forwarded-For's lines being sequences of hops.          *)
(***************************************************************************)
EXTENDS Naturals, Sequences

CONSTANTS
    Hosts,                  \* canonical addresses of clients
    Proxies,                \* canonical addresses within trustedProxyPrefixes
    MaximumForwardedHops

Invalid == "invalid identity"
Untrusted == "untrusted peer"

ASSUME AddressConstants ==
    Hosts \cap Proxies = {} /\ MaximumForwardedHops \in Nat \ {0}

Text(host, style) == [host |-> host, style |-> style]

\* How an address may be written: as it is, IPv4 mapped into IPv6, with a port, in
\* brackets, with a zone, not at all, or padded beyond the limit of its header.
Styles == {"plain", "mapped", "port", "bracketed", "zoned", "junk", "padded"}

\* parseRemoteAddress: the address without its mapping.
ParseRemoteAddress(text) ==
    IF text.style \in {"plain", "mapped", "port", "padded"} THEN text.host ELSE Invalid

\* parseForwardedAddress
ParseForwardedAddress(text) ==
    IF text.style \in {"plain", "mapped", "port", "bracketed", "padded"} THEN text.host ELSE Invalid

\* parseForwardedForAddresses: every hop must parse, the first one counts.
ParseForwardedFor(hops) ==
    IF /\ Len(hops) \in 1 .. MaximumForwardedHops
       /\ \A i \in DOMAIN hops : ParseForwardedAddress(hops[i]) # Invalid
    THEN ParseForwardedAddress(hops[1]) ELSE Invalid

\* Mutant: the headers of every peer are believed.
IsTrustedProxy_Any(peer) == TRUE

IsTrustedProxy(peer) == peer \in Proxies

\* readSingleHeaderValue and the limit on the bytes of a header: it is given once, and
\* not padded.
Readable(lines, padded) == Len(lines) = 1 /\ ~padded

\* The address of X-Real-IP.
RealAddress(realIP) ==
    IF Readable(realIP, \E i \in DOMAIN realIP : realIP[i].style = "padded")
    THEN ParseForwardedAddress(realIP[1]) ELSE Invalid

\* The first address of X-Forwarded-For.
FirstForwardedAddress(forwardedFor) ==
    IF Readable(forwardedFor, \E i \in DOMAIN forwardedFor : \E j \in DOMAIN forwardedFor[i] :
                                forwardedFor[i][j].style = "padded")
    THEN ParseForwardedFor(forwardedFor[1]) ELSE Invalid

\* ResolveAddress, of the headers of a trusted proxy: at least one is there, each that
\* is there is valid, and two agree.
ResolveForwarded(realIP, forwardedFor) ==
    LET found == (IF realIP = <<>> THEN {} ELSE {RealAddress(realIP)})
                 \cup (IF forwardedFor = <<>> THEN {} ELSE {FirstForwardedAddress(forwardedFor)})
    IN  IF \E address \in found : found = {address} THEN CHOOSE address \in found : TRUE ELSE Invalid

\* ResolveAddress: the address, or the reason for a refusal.
ResolveAddress(net, request) ==
    LET peer == ParseRemoteAddress(request.peer)
    IN  IF peer = Invalid \/ net # "trusted_proxy" THEN peer
        ELSE IF IsTrustedProxy(peer) THEN ResolveForwarded(request.realIP, request.forwardedFor)
        ELSE Untrusted

-----------------------------------------------------------------------------
(* What reaches the server, from how it is deployed.  External.            *)

\* A client writes its headers as it likes and connects directly.
Direct(host, style, realIP, forwardedFor) ==
    [peer |-> Text(host, style), realIP |-> realIP, forwardedFor |-> forwardedFor]

\* A client connects through a trusted proxy that replaces at least one of the two
\* headers by the address it sees; to an X-Forwarded-For it keeps, it appends.
ThroughProxy(proxy, host, replaced, realIP, forwardedFor) ==
    LET seen == Text(host, "plain")
        chain == (IF forwardedFor = <<>> THEN <<>> ELSE forwardedFor[1]) \o <<seen>>
    IN  [peer |-> Text(proxy, "port"),
         realIP |-> IF "X-Real-IP" \in replaced THEN <<seen>> ELSE realIP,
         forwardedFor |-> IF "X-Forwarded-For" \in replaced THEN << <<seen>> >>
                          ELSE <<chain>>]
=============================================================================
