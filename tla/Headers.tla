------------------------------ MODULE Headers ------------------------------
(***************************************************************************)
(* The network headers (link.c, arp.c, ip.c, transport.c, net.h): a        *)
(* message is wrapped into UDP, IPv4 and Ethernet, a frame is unwrapped    *)
(* again, and ARP requests are answered.  A frame is the sequence of its   *)
(* bytes; ports and addresses are sequences of bytes in network order.     *)
(***************************************************************************)
EXTENDS Integers, Sequences, SequencesExt

CONSTANTS
  TX_BUFF_SIZE,   \* bytes of the buffer that messages are wrapped in
  Addresses,      \* IPv4 addresses
  Macs,
  Ports,
  Payloads,
  Octets,         \* numbers that textual addresses are made of
  Bad             \* what a byte nobody has written reads as

ASSUME HeaderAssumption ==
  Addresses \subseteq [1 .. 4 -> 0 .. 255] /\ Macs \subseteq [1 .. 6 -> 0 .. 255]

VARIABLES
  ip_addr, eth_MAC,   \* _ip_addr, _eth_MAC
  last                \* the last call: what it was given and what came out

hdrVars == <<ip_addr, eth_MAC, last>>

IPV4 == <<8, 0>>
ARP  == <<8, 6>>
UDP_PROTOCOL == 17
ETH_PAYLOAD_MIN_SIZE == 48
LinkSize == 14
Ipv4Size == 20
UdpSize  == 8
ArpSize  == 28

NetworkOrder(n) == <<n \div 256, n % 256>>
Number(bytes)   == bytes[1] * 256 + bytes[2]

Part(bytes, from, count) == SubSeq(bytes, from, from + count - 1)
From(bytes, offset)      == SubSeq(bytes, offset + 1, Len(bytes))

\* The sum of the 16-bit words, an odd last byte counting as a high byte.
Words(bytes) ==
  [i \in 1 .. (Len(bytes) + 1) \div 2 |->
     bytes[2 * i - 1] * 256 + (IF 2 * i <= Len(bytes) THEN bytes[2 * i] ELSE 0)]
Total(bytes) == FoldLeft(LAMBDA a, b : a + b, 0, Words(bytes))

\* Carries are added in again until none is left.
RECURSIVE Folded(_)
Folded(sum) == IF sum < 65536 THEN sum ELSE Folded((sum % 65536) + (sum \div 65536))

Complement(n) == 65535 - n

-----------------------------------------------------------------------------
(***************************************************************************)
(* Wrapping                                                                *)
(***************************************************************************)
\* Defect: the words are added as the network orders them.
ipv4_checksum_Order(bytes) ==
  LET sum == Complement(Total(bytes) % 65536) IN <<sum % 256, sum \div 256>>

\* _ipv4_checksum: the words are little endian and carries are dropped.
Swapped(bytes) == [i \in 1 .. Len(bytes) |-> IF i % 2 = 1 THEN bytes[i + 1] ELSE bytes[i - 1]]
ipv4_checksum(bytes) ==
  LET sum == Complement(Total(Swapped(bytes)) % 65536) IN <<sum % 256, sum \div 256>>

\* Defect: the length of the UDP part is left out of the pseudo header.
udp_checksum_Short(m, hdr) ==
  NetworkOrder(Complement(Folded(Total(m.data) + Total(m.src_addr \o m.dst_addr) + Total(hdr)
                                 + UDP_PROTOCOL + Len(m.data))))

\* _udp_checksum: payload, addresses, header and the rest of the pseudo header.
udp_checksum(m, hdr) ==
  NetworkOrder(Complement(Folded(Total(m.data) + Total(m.src_addr \o m.dst_addr) + Total(hdr)
                                 + UDP_PROTOCOL + Len(m.data) + UdpSize)))

\* _udp_add_header; <<>> when it does not fit.
udp_add_header(len, m) ==
  LET start == m.src_port \o m.dst_port \o NetworkOrder(UdpSize + Len(m.data))
  IN  IF UdpSize + Len(m.data) > len THEN <<>>
      ELSE start \o udp_checksum(m, start \o <<0, 0>>) \o m.data

\* _ipv4_add_header
ipv4_add_header(len, m) ==
  LET udp   == udp_add_header(len - Ipv4Size, m)
      start == <<69, 0>> \o NetworkOrder(Ipv4Size + Len(udp)) \o <<0, 0, 64, 0, 64, UDP_PROTOCOL>>
      addrs == m.src_addr \o m.dst_addr
  IN  IF Ipv4Size > len \/ udp = <<>> THEN <<>>
      ELSE start \o ipv4_checksum(start \o <<0, 0>> \o addrs) \o addrs \o udp

Zeros(n) == [i \in 1 .. n |-> 0]

\* _link_add_header: short payloads are padded.
link_add_header(len, m) ==
  LET ip == ipv4_add_header(len - LinkSize, m)
  IN  IF LinkSize + 4 > len \/ ip = <<>> THEN <<>>
      ELSE m.dst_MAC \o eth_MAC \o IPV4 \o ip \o Zeros(ETH_PAYLOAD_MIN_SIZE - Len(ip))

-----------------------------------------------------------------------------
(***************************************************************************)
(* Unwrapping: a message, or Nothing                                       *)
(***************************************************************************)
Nothing == [data |-> Bad]

\* Defect: the length in the header is not compared with what was received.
Fits_Unchecked(size, len) == size >= 0

\* The payload must have come in full; size is unsigned, so it is not negative.
Fits(size, len) == size >= 0 /\ size <= len - UdpSize

udp_parse_frame(bytes) ==
  LET size == Number(Part(bytes, 5, 2)) - UdpSize IN
  IF Len(bytes) < UdpSize THEN Nothing
  ELSE IF ~Fits(size, Len(bytes)) THEN Nothing
  ELSE [src_port |-> Part(bytes, 1, 2), dst_port |-> Part(bytes, 3, 2),
        data |-> [i \in 1 .. size |-> IF i + UdpSize <= Len(bytes) THEN bytes[i + UdpSize] ELSE Bad]]

ipv4_parse_frame(bytes, ip) ==
  IF Len(bytes) < Ipv4Size THEN Nothing
  ELSE IF Part(bytes, 17, 4) # ip \/ bytes[10] # UDP_PROTOCOL THEN Nothing
  ELSE LET udp == udp_parse_frame(From(bytes, Ipv4Size))
       IN  IF udp = Nothing THEN Nothing
           ELSE udp @@ [src_addr |-> Part(bytes, 13, 4), dst_addr |-> Part(bytes, 17, 4)]

link_parse_frame(bytes, ip) ==
  IF Len(bytes) < LinkSize THEN Nothing
  ELSE IF Part(bytes, 13, 2) # IPV4 THEN Nothing
  ELSE LET m == ipv4_parse_frame(From(bytes, LinkSize), ip)
       IN  IF m = Nothing THEN Nothing
           ELSE m @@ [dst_MAC |-> Part(bytes, 1, 6), src_MAC |-> Part(bytes, 7, 6)]

-----------------------------------------------------------------------------
(***************************************************************************)
(* ARP                                                                     *)
(***************************************************************************)
ArpStart(oper) == <<0, 1, 8, 0, 6, 4, 0, oper>>
ArpRequest == 1
ArpReply   == 2

ArpPacket(oper, sha, spa, tha, tpa) == ArpStart(oper) \o sha \o spa \o tha \o tpa

\* Defect: the protocol addresses are not exchanged.
arp_reply_Same(sha, spa) ==
  sha \o eth_MAC \o ARP \o ArpPacket(ArpReply, eth_MAC, spa, sha, ip_addr)

arp_reply(sha, spa) ==
  sha \o eth_MAC \o ARP \o ArpPacket(ArpReply, eth_MAC, ip_addr, sha, spa)

\* _arp_respond: the frame that answers a request for this system, else <<>>.
arp_respond(packet) ==
  IF Len(packet) >= ArpSize /\ Part(packet, 1, 8) = ArpStart(ArpRequest)
     /\ Part(packet, 25, 4) = ip_addr
  THEN arp_reply(Part(packet, 9, 6), Part(packet, 15, 4))
  ELSE <<>>

-----------------------------------------------------------------------------
(***************************************************************************)
(* htons: reading an address                                               *)
(***************************************************************************)
Dot   == 46
Zero  == 48
Limit == 15

\* Defect: the last number is not stored.
AtEnd_Lost(buff, j, scratch) == buff

\* The end of the text ends the last number.
AtEnd(buff, j, scratch) == [buff EXCEPT ![j] = scratch]

RECURSIVE Scan(_, _, _, _, _, _)
Scan(str, i, j, k, scratch, buff) ==
  LET value == (scratch * 10 + (str[i] - Zero)) % 256 IN
  IF i > Limit THEN IF j = 4 THEN buff ELSE <<>>
  ELSE IF i > Len(str) THEN IF j = 4 THEN AtEnd(buff, j, scratch) ELSE <<>>
  ELSE IF k = 3 THEN <<>>
  ELSE IF i < Len(str) /\ str[i + 1] = Dot
       THEN Scan(str, i + 2, j + 1, 0, 0, [buff EXCEPT ![j] = value])
       ELSE Scan(str, i + 1, j, k + 1, value, buff)

htons(str) == Scan(str, 1, 1, 0, 0, [n \in 1 .. 4 |-> Bad])

\* The decimal digits of a number.
Digits(n) == IF n < 10 THEN <<Zero + n>>
             ELSE IF n < 100 THEN <<Zero + (n \div 10), Zero + (n % 10)>>
             ELSE <<Zero + (n \div 100), Zero + ((n \div 10) % 10), Zero + (n % 10)>>

Text(a) == Digits(a[1]) \o <<Dot>> \o Digits(a[2]) \o <<Dot>> \o Digits(a[3]) \o <<Dot>> \o Digits(a[4])

-----------------------------------------------------------------------------
NoCall == [op |-> "none"]

HdrInit == ip_addr = <<0, 0, 0, 0>> /\ eth_MAC \in Macs /\ last = NoCall

setip(a) == ip_addr' = a /\ last' = NoCall /\ UNCHANGED eth_MAC

setMAC(m) == eth_MAC' = m /\ last' = NoCall /\ UNCHANGED ip_addr

netsend(to, mac, port, payload) ==
  /\ LET m == [src_port |-> port, dst_port |-> Reverse(port), src_addr |-> ip_addr,
               dst_addr |-> to, src_MAC |-> eth_MAC, dst_MAC |-> mac, data |-> payload]
     IN  last' = [op |-> "send", msg |-> m, frame |-> link_add_header(TX_BUFF_SIZE, m)]
  /\ UNCHANGED <<ip_addr, eth_MAC>>

\* The first count bytes of the frame reach a system with this address.
receive(at, count) ==
  /\ last.frame # <<>>
  /\ last' = [op |-> "receive", msg |-> last.msg, at |-> at, count |-> count,
              got |-> link_parse_frame(Part(last.frame, 1, count), at)]
  /\ UNCHANGED <<ip_addr, eth_MAC>>

receive_arp(oper, sha, spa, tpa, cut) ==
  /\ LET packet == ArpPacket(oper, sha, spa, Zeros(6), tpa)
     IN  last' = [op |-> "arp", oper |-> oper, sha |-> sha, spa |-> spa, tpa |-> tpa, cut |-> cut,
                  frame |-> arp_respond(Part(packet, 1, ArpSize - cut))]
  /\ UNCHANGED <<ip_addr, eth_MAC>>

read_address(a) ==
  /\ last = NoCall
  /\ last' = [op |-> "htons", given |-> a, addr |-> htons(Text(a))]
  /\ UNCHANGED <<ip_addr, eth_MAC>>

HdrNext ==
  \/ \E a \in Addresses : setip(a)
  \/ \E m \in Macs : setMAC(m)
  \/ \E to \in Addresses, mac \in Macs, port \in Ports, p \in Payloads : netsend(to, mac, port, p)
  \/ /\ last.op = "send"
     /\ \E at \in Addresses, count \in 0 .. Len(last.frame) : receive(at, count)
  \/ \E oper \in {ArpRequest, ArpReply}, sha \in Macs, spa, tpa \in Addresses, cut \in {0, 1} :
       receive_arp(oper, sha, spa, tpa, cut)
  \/ \E a \in [1 .. 4 -> Octets] : read_address(a)

HdrSpec == HdrInit /\ [][HdrNext]_hdrVars

-----------------------------------------------------------------------------
\* A message that fits is sent, and the system it is for gets the ports, the
\* addresses and exactly the payload, whatever padding was added; no other system
\* does, and nothing comes of a frame that is cut off before the payload's end
\* (link.c:17-89, transport.c:60-107).
MessageArrives ==
  /\ last.op = "send" =>
       (last.frame # <<>> <=> LinkSize + Ipv4Size + UdpSize + Len(last.msg.data) <= TX_BUFF_SIZE)
  /\ last.op = "receive" =>
       last.got = IF last.at = last.msg.dst_addr
                     /\ last.count >= LinkSize + Ipv4Size + UdpSize + Len(last.msg.data)
                  THEN last.msg ELSE Nothing

Ipv4Header(frame) == Part(frame, 15, Ipv4Size)
UdpPart(frame)    == Part(frame, 35, Number(Part(frame, 39, 2)))

\* What RFC 768 lets a receiver check: the words of the pseudo header and of the
\* datagram add up to all ones, for odd payloads too (transport.c:20-58).
UdpChecksumVerifies ==
  last.op = "send" /\ last.frame # <<>> =>
    Folded(Total(Part(last.frame, 27, 8) \o <<0, UDP_PROTOCOL>> \o Part(last.frame, 39, 2)
                 \o UdpPart(last.frame))) = 65535

\* What RFC 791 lets a receiver check of the header (ip.c: "calculates ipv4
\* checksum"): its words add up to all ones.
Ipv4ChecksumVerifies ==
  last.op = "send" /\ last.frame # <<>> => Folded(Total(Ipv4Header(last.frame))) = 65535

\* A request for the system's address, and nothing else, is answered, to the one
\* who asked, and the answer read as a packet says who has the address (arp.c:23-107).
ArpAnswered ==
  last.op = "arp" =>
    IF last.oper = ArpRequest /\ last.tpa = ip_addr /\ last.cut = 0
    THEN /\ Part(last.frame, 1, 14) = last.sha \o eth_MAC \o ARP
         /\ From(last.frame, 14) = ArpPacket(ArpReply, eth_MAC, last.tpa, last.sha, last.spa)
    ELSE last.frame = <<>>

\* It does so for every header whose words can be added without dropping a carry
\* (ip.c:24-33); Ipv4ChecksumVerifies says it of all, and does not hold.
Ipv4ChecksumUncarried ==
  last.op = "send" /\ last.frame # <<>> =>
    LET header == Ipv4Header(last.frame)
        summed == SubSeq(header, 1, 10) \o <<0, 0>> \o SubSeq(header, 13, Ipv4Size)
    IN  Total(Swapped(summed)) < 65536 => Folded(Total(header)) = 65535

\* Packets of both kinds are understood by the one they are for, as they stand and
\* by the checksums that are asserted of them above.
PacketsUnderstood ==
  MessageArrives /\ UdpChecksumVerifies /\ Ipv4ChecksumUncarried /\ ArpAnswered

\* The text of an address is read as that address while it leaves the loop by its
\* end, whatever the numbers' digits (net.h:46-70).
HtonsReads ==
  last.op = "htons" /\ Len(Text(last.given)) < Limit => last.addr = last.given

\* The same of every address, those of 15 characters included: "15 is the max
\* characters in an address (e.g. 255.255.255.255)" (net.h:46).
AddressesRead == last.op = "htons" => last.addr = last.given
=============================================================================
