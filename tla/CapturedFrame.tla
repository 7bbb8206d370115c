---------------------------- MODULE CapturedFrame ----------------------------
(***************************************************************************)
(* packetHandler: where the TCP payload of a captured frame is.            *)
(*                                                                         *)
(* A frame is the bytes libpcap hands over: link header, IP header, TCP    *)
(* header, payload and whatever padding the network card left behind.      *)
(***************************************************************************)
EXTENDS Integers, Sequences

\* The link types packetHandler knows, and the length of their headers.
LinkLength == [EN10MB |-> 14, NULL |-> 4, LINUX_SLL |-> 16]
Known == DOMAIN LinkLength

\* Wrong variants: no IPv4 options, no TCP options.
FixedIpLength(packet, at) == IF packet[at + 1] \div 16 = 4 THEN 20 ELSE 40
FixedTcpLength(packet, at) == 20

\* ip_hl counts 4-byte words.  IPv6 is taken to have no extension headers.
IpLength(packet, at) ==
    IF packet[at + 1] \div 16 = 4 THEN (packet[at + 1] % 16) * 4 ELSE 40

\* doff is the upper half of the 13th byte of the TCP header.
TcpLength(packet, at) == (packet[at + 13] \div 16) * 4

PayloadOffset(link, packet) ==
    LET tcp == LinkLength[link] + IpLength(packet, LinkLength[link])
    IN  tcp + TcpLength(packet, tcp)

\* What is queued: the rest of the frame, nothing for an unknown link type.
PayloadOf(link, packet) ==
    IF link \in Known
    THEN SubSeq(packet, PayloadOffset(link, packet) + 1, Len(packet))
    ELSE <<>>

----------------------------------------------------------------------------
(* The frames a TCP connection puts on the wire.                           *)

\* Version 6 has the fixed header only; ihl is the header length of version 4.
Header == [link : Known, version : {4, 6}, ihl : 5..15, doff : 5..15]

IpHeaderLength(h) == IF h.version = 4 THEN 4 * h.ihl ELSE 40
HeaderLength(h) == LinkLength[h.link] + IpHeaderLength(h) + 4 * h.doff

\* The first byte of the IP header, the byte with doff; no other one matters.
HeaderBytesOf(h) ==
    LET ip == LinkLength[h.link]
        tcp == ip + IpHeaderLength(h)
    IN  [i \in 1..HeaderLength(h) |->
            CASE i = ip + 1   -> 16 * h.version + (IF h.version = 4 THEN h.ihl ELSE 0)
              [] i = tcp + 13 -> 16 * h.doff
              [] OTHER        -> 0]

\* A card pads what it receives to 60 bytes without the checksum.
MinFrame == 60
Zeros(n) == [i \in 1..n |-> 0]
Padding(h, n) ==
    IF h.link = "EN10MB" /\ HeaderLength(h) + n < MinFrame
    THEN Zeros(MinFrame - HeaderLength(h) - n) ELSE <<>>

Frame(h, payload, padding) == HeaderBytesOf(h) \o payload \o padding
============================================================================
