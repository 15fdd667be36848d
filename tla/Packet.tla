------------------------------- MODULE Packet -------------------------------
(***************************************************************************)
(* The packet path of the DPDK engine, byte by byte: parse_pkt() on a      *)
(* frame, parse_dns() on the question in it, cons_dns(), which writes the  *)
(* reply over the question, and cons_pkt(), which turns the headers round  *)
(* and computes the checksums (engine_dpdk.c, dns.c).  DPDK itself is a    *)
(* stub in the code.                                                       *)
(*                                                                         *)
(* The frame is in a buffer of bytes, counted from 0; a pointer into it is *)
(* an offset.  The machine is little-endian.                               *)
(***************************************************************************)
EXTENDS Integers, Sequences

CONSTANTS
    Size,       \* of the buffer
    Frames,     \* what may be received: the buffer, how much of it is the frame,
                \* and the labels of the name that it holds
    Answers,    \* what a lookup may find: TTL and address
    Garbage,    \* what a byte that nobody sets may hold
    CHAR_MAX,   \* the largest char, 127: a byte above it is a negative number
    COPY_LEN,   \* what memcpy() takes of an address of 4 bytes: htons(4), 1024
    LABEL_LEN_MAX, DOMAIN_LEN_MAX

Byte == 0 .. 255
uint16_t == 0 .. 65535

ETH_HDR_LEN == 14
IP_HDR_SIZE == 20
UDP_HDR_LEN == 8
DNS_HDR_LEN == 12
DNS_QUERY_LEN == 4

ip_hdr == ETH_HDR_LEN
ihl(buf) == buf[ip_hdr] % 16

\* The first n of some sequences, one behind the other, and all of them
Joining(ss) ==
    LET first[n \in 0 .. Len(ss)] == IF n = 0 THEN <<>> ELSE first[n - 1] \o ss[n]
    IN  first
Joined(ss) == Joining(ss)[Len(ss)]

\* A name on the wire: each label behind its length, and a 0
OnWire(name) == [k \in DOMAIN name |-> <<Len(name[k])>> \o name[k]]
Wire(name) == Joined(OnWire(name)) \o <<0>>

\* Of the name, a frame has what there is room for.  Behind it there is room for a label
\* that is cut off and an answer, if not for all that is copied with the address; the
\* longest headers have room too, and a length fits into 16 bits.
ASSUME PacketAssumption ==
    /\ Size \in Nat /\ Size >= ETH_HDR_LEN + 60 + UDP_HDR_LEN /\ Size < 65536
    /\ CHAR_MAX \in 1 .. 127
    /\ COPY_LEN \in 4 .. 1024
    /\ LABEL_LEN_MAX \in 1 .. CHAR_MAX
    /\ DOMAIN_LEN_MAX \in LABEL_LEN_MAX + 2 .. 255
    /\ \A f \in Frames :
          LET dns == ip_hdr + ihl(f.data) * 4 + UDP_HDR_LEN
              wire == Wire(f.name)
          IN  /\ f.name \in Seq(Seq(Byte) \ {<<>>})
              /\ f.data \in [0 .. Size - 1 -> Byte]
              /\ f.data_len \in 0 .. Size - LABEL_LEN_MAX - 24
              /\ \A k \in DOMAIN wire : dns + DNS_HDR_LEN + k <= f.data_len =>
                    f.data[dns + DNS_HDR_LEN + k - 1] = wire[k]
    /\ Answers # {}
    /\ Answers \subseteq [ttl : Nat, ip4 : [1 .. 4 -> Byte]]
    /\ Garbage \subseteq Byte

VARIABLES
    pc,         \* the next function, or how it ended
    data,       \* the buffer
    data_len,   \* PKT.data_len
    udp_hdr,    \* PKT_INFO.udp_hdr; eth_hdr is 0 and ip_hdr ETH_HDR_LEN
    cur_pos,    \* PKT_INFO.cur_pos
    scan_len,   \* of get_query_domain()
    domain,     \* PKT_INFO.domain
    q_type,     \* PKT_INFO.q_type, q_class
    rr_res,     \* PKT_INFO.rr_res[0], rr_res_ttl[0]
    zero,       \* history: pseudo_hdr.zero
    query       \* history: the frame as it was received

asked == <<domain, q_type, rr_res>>
vars == <<pc, data, data_len, udp_hdr, cur_pos, scan_len, asked, zero, query>>

\* PKT_INFO.dns_hdr
dns_hdr == udp_hdr + UDP_HDR_LEN

\* Fields: the offset in the header, and the length
dmac == [at |-> 0, len |-> 6]
smac == [at |-> 6, len |-> 6]
ether_type == [at |-> 12, len |-> 2]
tot_len == [at |-> 2, len |-> 2]
protocol == [at |-> 9, len |-> 1]
ip_check == [at |-> 10, len |-> 2]
saddr == [at |-> 12, len |-> 4]
daddr == [at |-> 16, len |-> 4]
sport == [at |-> 0, len |-> 2]
dport == [at |-> 2, len |-> 2]
udp_len == [at |-> 4, len |-> 2]
udp_check == [at |-> 6, len |-> 2]
flags == [at |-> 2, len |-> 2]
q_cnt == [at |-> 4, len |-> 2]
an_cnt == [at |-> 6, len |-> 2]
ns_cnt == [at |-> 8, len |-> 2]
ar_cnt == [at |-> 10, len |-> 2]

\* The bytes of a field, and the buffer with others in their place
Get(buf, hdr, f) == [k \in 1 .. f.len |-> buf[hdr + f.at + k - 1]]
Put(buf, at, bytes) ==
    [k \in DOMAIN buf |-> IF k \in at .. at + Len(bytes) - 1 THEN bytes[k - at + 1] ELSE buf[k]]
Set(buf, hdr, f, bytes) == Put(buf, hdr + f.at, bytes)
Swapped(buf, hdr, f, g) == Set(Set(buf, hdr, f, Get(buf, hdr, g)), hdr, g, Get(buf, hdr, f))

\* A uint16_t as the machine stores it, and in the order of the network
Host(w) == <<w % 256, (w \div 256) % 256>>
Net(w) == <<(w \div 256) % 256, w % 256>>
Net32(w) == Net(w \div 65536) \o Net(w % 65536)
Number(bytes) == 256 * bytes[1] + bytes[2]

PC == {"parse_pkt", "parse_dns", "get_query_domain", "query_zone", "cons_dns",
       "update_udp_hdr", "update_ip_hdr", "update_eth_hdr", "sent", "dropped", "not_found",
       "dead",      \* by a label of a negative length
       "overrun"}   \* by a copy that passes the end of the buffer

\* No reply ends further behind its header than the longest name takes it, so that no
\* copy passes the end of a buffer that has room for COPY_LEN bytes more.
InReach ==
    LET furthest == dns_hdr + DNS_HDR_LEN + DOMAIN_LEN_MAX + DNS_QUERY_LEN + 16
    IN  /\ cur_pos <= furthest
        /\ pc = "overrun" => Size < furthest + COPY_LEN - 4

TypeOK ==
    /\ pc \in PC
    /\ data \in [0 .. Size - 1 -> Byte]
    /\ data_len \in 0 .. Size
    /\ udp_hdr \in {ETH_HDR_LEN + 4 * k : k \in 0 .. 15}
    /\ cur_pos \in 0 .. Size /\ InReach
    /\ pc = "parse_dns" => cur_pos = dns_hdr /\ cur_pos < data_len
    /\ scan_len \in 0 .. DOMAIN_LEN_MAX - 1
    /\ domain \in [0 .. DOMAIN_LEN_MAX - 1 -> Byte]
    /\ q_type \in [type : uint16_t, rr_class : uint16_t]
    /\ rr_res \in Answers
    /\ zero \in Byte
    /\ query.data \in [0 .. Size - 1 -> Byte]

\* receive_pkt().  PKT_INFO is what memory held.
Init ==
    /\ pc = "parse_pkt"
    /\ query \in Frames
    /\ data = query.data
    /\ data_len = query.data_len
    /\ udp_hdr = ETH_HDR_LEN
    /\ cur_pos = 0
    /\ scan_len = 0
    /\ \E b \in Garbage : domain = [k \in 0 .. DOMAIN_LEN_MAX - 1 |-> b]
    /\ q_type = [type |-> 0, rr_class |-> 0]
    /\ rr_res = CHOOSE rr \in Answers : TRUE
    /\ zero = 0

-----------------------------------------------------------------------------
IsDns(udp) ==
    /\ Get(data, 0, ether_type) = <<8, 0>>
    /\ Get(data, ip_hdr, protocol) = <<17>>
    /\ Get(data, udp, dport) = <<0, 53>>

\* Mutation: options are not counted in the length.
parse_pkt_NoOptions ==
    /\ pc = "parse_pkt"
    /\ LET udp == ip_hdr + ihl(data) * 4 IN
       IF data_len <= ETH_HDR_LEN + IP_HDR_SIZE + UDP_HDR_LEN
          THEN pc' = "dropped" /\ UNCHANGED <<udp_hdr, cur_pos>>
          ELSE /\ udp_hdr' = udp
               /\ cur_pos' = udp + UDP_HDR_LEN
               /\ pc' = IF IsDns(udp) THEN "parse_dns" ELSE "dropped"
    /\ UNCHANGED <<data, data_len, scan_len, asked, zero, query>>

\* What is too short for headers without options is dropped unseen, then what has
\* nothing behind its headers, then what is no DNS.  An ihl below 5 is not noticed.
parse_pkt ==
    /\ pc = "parse_pkt"
    /\ LET udp == ip_hdr + ihl(data) * 4 IN
       IF data_len < ETH_HDR_LEN + IP_HDR_SIZE + UDP_HDR_LEN
          THEN pc' = "dropped" /\ UNCHANGED <<udp_hdr, cur_pos>>
          ELSE /\ udp_hdr' = udp
               /\ cur_pos' = udp + UDP_HDR_LEN
               /\ pc' = IF data_len > cur_pos' /\ IsDns(udp) THEN "parse_dns" ELSE "dropped"
    /\ UNCHANGED <<data, data_len, scan_len, asked, zero, query>>

-----------------------------------------------------------------------------
(* The question and its answer                                              *)

DOT == 46

\* Mutation: no room for the 0 at the end.
TooLong_Off(at, label_len) == label_len > LABEL_LEN_MAX \/ at + label_len + 1 > DOMAIN_LEN_MAX

TooLong(at, label_len) == label_len > LABEL_LEN_MAX \/ at + label_len + 1 >= DOMAIN_LEN_MAX

\* Room for the header and a question whose name has no bytes; one question, no
\* answers.  What else there is may be there.
HeaderPasses ==
    /\ data_len >= dns_hdr + DNS_HDR_LEN + DNS_QUERY_LEN
    /\ Get(data, dns_hdr, q_cnt) = <<0, 1>>
    /\ Get(data, dns_hdr, an_cnt) = <<0, 0>>
    /\ Get(data, dns_hdr, ns_cnt) = <<0, 0>>

parse_dns ==
    /\ pc = "parse_dns"
    /\ IF HeaderPasses
          THEN pc' = "get_query_domain" /\ cur_pos' = dns_hdr + DNS_HDR_LEN
          ELSE pc' = "dropped" /\ UNCHANGED cur_pos
    /\ UNCHANGED <<data, data_len, udp_hdr, scan_len, asked, zero, query>>

\* Type and class are read behind the name, be it inside the frame or not.
read_type(behind) ==
    /\ pc' = "query_zone"
    /\ cur_pos' = behind + DNS_QUERY_LEN
    /\ q_type' = [type |-> Number(<<data[behind], data[behind + 1]>>),
                  rr_class |-> Number(<<data[behind + 2], data[behind + 3]>>)]

\* A turn of the loop: label after label is copied in front of a dot.  The string is
\* ended only by the end of the name, and what is copied before an error stays.  A
\* negative length passes for a short one, and memcpy() takes it for a huge one; where
\* a char has no sign it is too long like any other.
get_query_domain ==
    /\ pc = "get_query_domain"
    /\ LET at == cur_pos + scan_len
           label_len == data[at]
           label == [k \in 1 .. label_len |-> data[at + k]]
           inside == scan_len < data_len - cur_pos
       IN  \/ /\ ~inside
              /\ read_type(at + 1)
              /\ UNCHANGED <<scan_len, domain>>
           \/ /\ inside /\ label_len = 0
              /\ domain' = Put(domain, scan_len, IF scan_len = 0 THEN <<DOT, 0>> ELSE <<0>>)
              /\ read_type(at + 1)
              /\ UNCHANGED scan_len
           \/ /\ inside /\ label_len > CHAR_MAX
              /\ pc' \in {"dead", "dropped"}
              /\ UNCHANGED <<cur_pos, scan_len, domain, q_type>>
           \/ /\ inside /\ label_len \in 1 .. CHAR_MAX /\ TooLong(scan_len, label_len)
              /\ pc' = "dropped"
              /\ UNCHANGED <<cur_pos, scan_len, domain, q_type>>
           \/ /\ inside /\ label_len \in 1 .. CHAR_MAX /\ ~TooLong(scan_len, label_len)
              /\ domain' = Put(domain, scan_len, Append(label, DOT))
              /\ scan_len' = scan_len + label_len + 1
              /\ UNCHANGED <<pc, cur_pos, q_type>>
    /\ UNCHANGED <<data, data_len, udp_hdr, rr_res, zero, query>>

\* Worker has the lookup itself.
query_zone ==
    /\ pc = "query_zone"
    /\ \/ rr_res' \in Answers /\ pc' = "cons_dns"
       \/ pc' = "not_found" /\ UNCHANGED rr_res
    /\ UNCHANGED <<data, data_len, udp_hdr, cur_pos, scan_len, domain, q_type, zero, query>>

\* Mutation: the TTL in the order of the machine.
Answer_Host(rr) ==
    Net(49164) \o Net(q_type.type) \o Net(q_type.rr_class)
        \o Host(rr.ttl % 65536) \o Host(rr.ttl \div 65536) \o Net(4) \o rr.ip4

\* A pointer to the name in the question (0xc00c), type, class, TTL, length, address
Answer(rr) ==
    Net(49164) \o Net(q_type.type) \o Net(q_type.rr_class)
        \o Net32(rr.ttl) \o Net(4) \o rr.ip4

\* memcpy() takes COPY_LEN bytes from the address on: behind it come bytes of PKT, in
\* front of whatever the frame had there.  A copy that passes the end of the buffer may
\* be the end of the program; what it does to other memory is not seen here.
add_dns_answer(buf) ==
    LET end == cur_pos + Len(Answer(rr_res))
    IN  /\ \E b \in Garbage :
              data' = [k \in DOMAIN buf |->
                          IF k \in end .. end + COPY_LEN - 5 THEN b
                          ELSE Put(buf, cur_pos, Answer(rr_res))[k]]
        /\ \/ pc' = "update_udp_hdr"
           \/ end + COPY_LEN - 4 > Size /\ pc' = "overrun"

\* Flags 0x8100 and the answer are written into the request, whose counts stay.
cons_dns ==
    /\ pc = "cons_dns"
    /\ add_dns_answer(Set(data, dns_hdr, flags, Net(33024)))
    /\ cur_pos' = cur_pos + Len(Answer(rr_res))
    /\ data_len' = cur_pos'
    /\ UNCHANGED <<udp_hdr, scan_len, asked, zero, query>>

-----------------------------------------------------------------------------
(* Checksums                                                                *)

\* `count' words from an offset on
Words(buf, at, count) ==
    LET sum[n \in 0 .. count] ==
            IF n = 0 THEN 0 ELSE sum[n - 1] + (buf[at + 2 * n - 2] + 256 * buf[at + 2 * n - 1])
    IN  sum[count]

\* Mutation: the odd byte at the end is left out.
SumOf_NoTail(buf, at, len) ==
    LET sum[rest \in 0 .. len] ==
            LET p == at + len - rest IN
            IF rest >= 32 THEN Words(buf, p, 16) + sum[rest - 32]
            ELSE IF rest >= 8 THEN Words(buf, p, 4) + sum[rest - 8]
            ELSE IF rest > 1 THEN Words(buf, p, 1) + sum[rest - 2]
            ELSE 0
    IN  sum[len]

\* The loops over the data: sixteen words a turn, then four, then one, and an odd
\* byte as the low half of a word
SumOf(buf, at, len) ==
    LET sum[rest \in 0 .. len] ==
            LET p == at + len - rest IN
            IF rest >= 32 THEN Words(buf, p, 16) + sum[rest - 32]
            ELSE IF rest >= 8 THEN Words(buf, p, 4) + sum[rest - 8]
            ELSE IF rest > 1 THEN Words(buf, p, 1) + sum[rest - 2]
            ELSE IF rest = 1 THEN buf[p] ELSE 0
    IN  sum[len]

\* Two additions of the carries; of the complement 16 bits are kept.
Carried(sum) == (sum \div 65536) + (sum % 65536)
Complement(sum) ==
    LET once == Carried(sum)
    IN  65535 - ((once + (once \div 65536)) % 65536)

\* PSEUDO_HDR: addresses, an unset byte, the protocol, and the length as it is stored
PseudoSum(buf, udp, unset) ==
    Words(buf, ip_hdr + saddr.at, 4) + unset + 256 * buf[ip_hdr + protocol.at]
        + Words(buf, udp + udp_len.at, 1)

\* The header and the data
UdpSum(buf, udp, len) ==
    Words(buf, udp, 4) + SumOf(buf, udp + UDP_HDR_LEN, len - UDP_HDR_LEN)

\* Both lengths are stored as the machine stores them, not as the network does.
\* `check' is the temporary of the swap, and the pseudo header is made before it is
\* cleared, which matters where the headers overlap.
update_udp_hdr ==
    /\ pc = "update_udp_hdr"
    /\ zero' \in Garbage
    /\ LET len == cur_pos - udp_hdr
           long == Set(data, udp_hdr, udp_len, Host(len))
           saved == Set(long, udp_hdr, udp_check, Get(long, udp_hdr, sport))
           moved == Set(saved, udp_hdr, sport, Get(saved, udp_hdr, dport))
           turned == Set(moved, udp_hdr, dport, Get(moved, udp_hdr, udp_check))
           cleared == Set(turned, udp_hdr, udp_check, <<0, 0>>)
           sum == PseudoSum(turned, udp_hdr, zero') + UdpSum(cleared, udp_hdr, len)
       IN  data' = Set(cleared, udp_hdr, udp_check, Host(Complement(sum)))
    /\ pc' = "update_ip_hdr"
    /\ UNCHANGED <<data_len, udp_hdr, cur_pos, scan_len, asked, query>>

\* Mutation: the addresses are swapped by two assignments.
update_ip_hdr_NoTmp ==
    /\ pc = "update_ip_hdr"
    /\ LET long == Set(data, ip_hdr, tot_len, Host(cur_pos - ip_hdr))
           turned == Set(long, ip_hdr, saddr, Get(long, ip_hdr, daddr))
           cleared == Set(turned, ip_hdr, ip_check, <<0, 0>>)
       IN  data' = Set(cleared, ip_hdr, ip_check,
                       Host(Complement(SumOf(cleared, ip_hdr, ihl(cleared)))))
    /\ pc' = "update_eth_hdr"
    /\ UNCHANGED <<data_len, udp_hdr, cur_pos, scan_len, asked, zero, query>>

\* The checksum goes over as many bytes as the header has words of four.
update_ip_hdr ==
    /\ pc = "update_ip_hdr"
    /\ LET long == Set(data, ip_hdr, tot_len, Host(cur_pos - ip_hdr))
           turned == Swapped(long, ip_hdr, saddr, daddr)
           cleared == Set(turned, ip_hdr, ip_check, <<0, 0>>)
       IN  data' = Set(cleared, ip_hdr, ip_check,
                       Host(Complement(SumOf(cleared, ip_hdr, ihl(cleared)))))
    /\ pc' = "update_eth_hdr"
    /\ UNCHANGED <<data_len, udp_hdr, cur_pos, scan_len, asked, zero, query>>

update_eth_hdr ==
    /\ pc = "update_eth_hdr"
    /\ data' = Swapped(data, 0, dmac, smac)
    /\ pc' = "sent"
    /\ UNCHANGED <<data_len, udp_hdr, cur_pos, scan_len, asked, zero, query>>

Next ==
    \/ parse_pkt \/ parse_dns \/ get_query_domain \/ query_zone \/ cons_dns
    \/ update_udp_hdr \/ update_ip_hdr \/ update_eth_hdr

Spec == Init /\ [][Next]_vars

-----------------------------------------------------------------------------
\* The sum that a receiver makes, byte by byte: those at odd places count 256 times.
ByteSum(buf, at, len) ==
    LET sum[n \in 0 .. len] ==
            IF n = 0 THEN 0
            ELSE sum[n - 1] + (IF n % 2 = 1 THEN buf[at + n - 1] ELSE 256 * buf[at + n - 1])
    IN  sum[len]

PlainHeader == ihl(query.data) >= 5

\* Whatever the length of the reply and the carries of its sum, what is sent verifies
\* at the receiver (its sum is a multiple of 2^16 - 1) if and only if the byte of the
\* pseudo header that is never set happened to be 0; that the addresses are swapped
\* only afterwards does no harm.
UdpVerifies ==
    pc \in {"update_ip_hdr", "update_eth_hdr", "sent"} /\ PlainHeader =>
        LET len == data_len - udp_hdr
            sum == ByteSum(data, ip_hdr + saddr.at, 8) + 256 * 17
                       + ByteSum(data, udp_hdr + udp_len.at, 2) + ByteSum(data, udp_hdr, len)
        IN  sum % 65535 = 0 <=> zero = 0

\* Fields that change places, with their header, and those that are computed
Pairs == {<<0, dmac, smac>>, <<ip_hdr, saddr, daddr>>, <<udp_hdr, sport, dport>>}
Computed == {<<ip_hdr, tot_len>>, <<ip_hdr, ip_check>>, <<udp_hdr, udp_len>>,
             <<udp_hdr, udp_check>>}
Cells(hdr, f) == hdr + f.at .. hdr + f.at + f.len - 1

\* The reply goes back the way the question came, at all three layers, whatever the
\* copying of the answer did to the bytes behind it; and of the rest of the headers,
\* options included, but for the lengths and the checksums, not a byte has changed.
ReplyGoesBack ==
    pc = "sent" /\ PlainHeader =>
        /\ \A p \in Pairs : /\ Get(data, p[1], p[2]) = Get(query.data, p[1], p[3])
                            /\ Get(data, p[1], p[3]) = Get(query.data, p[1], p[2])
        /\ \A k \in 0 .. dns_hdr - 1 :
              \/ \E p \in Pairs : k \in Cells(p[1], p[2]) \union Cells(p[1], p[3])
              \/ \E c \in Computed : k \in Cells(c[1], c[2])
              \/ data[k] = query.data[k]

\* engine_dpdk.h: update_ip_hdr() sets the total length of the IP header, and
\* update_udp_hdr() the length of the datagram, "UDP header + data": a receiver of the
\* reply finds both lengths right, the bytes of a number in the order of the network.
LengthsInNetworkOrder ==
    pc = "sent" /\ PlainHeader =>
        /\ Number(Get(data, ip_hdr, tot_len)) = data_len - ip_hdr
        /\ Number(Get(data, udp_hdr, udp_len)) = data_len - udp_hdr

\* The DNS header of the frame as it came, and what parse_pkt() asks of the others
Dns == ip_hdr + ihl(query.data) * 4 + UDP_HDR_LEN
ToServer ==
    /\ Get(query.data, 0, ether_type) = <<8, 0>>
    /\ Get(query.data, ip_hdr, protocol) = <<17>>
    /\ Get(query.data, Dns - UDP_HDR_LEN, dport) = <<0, 53>>

\* The frame has the whole question, and its name is a legal one.
Whole ==
    PlainHeader /\ query.data_len >= Dns + DNS_HDR_LEN + Len(Wire(query.name)) + DNS_QUERY_LEN
Legal ==
    /\ \A k \in DOMAIN query.name : Len(query.name[k]) <= LABEL_LEN_MAX
    /\ Len(Wire(query.name)) <= DOMAIN_LEN_MAX
OneQuestion == [k \in 1 .. 6 |-> query.data[Dns + 3 + k]] = <<0, 1, 0, 0, 0, 0>>

Dotted(name) == [k \in DOMAIN name |-> Append(name[k], DOT)]

\* dns.h: the name as it is looked up, each label in front of a dot
Text(name) ==
    IF name = <<>> THEN <<DOT>> ELSE Joined(Dotted(name))

\* A whole question about a legal name, of whatever bytes, is never dropped, and what is
\* looked up is the text of that name, whatever the array held; an illegal name, the
\* lengths that are negative numbers included, is never looked up.
AskedAsWritten ==
    pc \notin {"parse_pkt", "parse_dns", "get_query_domain"}
        /\ Whole /\ ToServer /\ OneQuestion =>
    LET text == Append(Text(query.name), 0) IN
    /\ pc \in {"dropped", "dead"} <=> ~Legal
    /\ pc = "query_zone" => \A k \in DOMAIN text : domain[k - 1] = text[k]

\* Bytes counted from the DNS header, of the frame and of the reply
Old(first, last) == [k \in 1 .. last - first + 1 |-> query.data[Dns + first + k - 1]]
Sent(first, last) == [k \in 1 .. last - first + 1 |-> data[dns_hdr + first + k - 1]]

\* The bytes of the time to live, the most significant one first
Ttl == [k \in 1 .. 4 |-> (rr_res.ttl \div <<16777216, 65536, 256, 1>>[k]) % 256]

\* The question up to `end', and one answer
Expected(end) ==
    Old(DNS_HDR_LEN, end - 1) \o <<192, DNS_HDR_LEN>> \o Old(end - 4, end - 1)
        \o Ttl \o <<0, 4>> \o rr_res.ip4

\* The reply to a whole question has its id, the flags of a response, its question, and
\* one answer for the same type and class, under a pointer that leads to its name;
\* what followed the question is not sent.
AnswersTheQuestion ==
    pc = "sent" /\ Whole =>
        /\ Sent(0, 3) = Old(0, 1) \o <<129, 0>>
        /\ Sent(DNS_HDR_LEN, data_len - dns_hdr - 1)
              = Expected(DNS_HDR_LEN + Len(Wire(query.name)) + DNS_QUERY_LEN)

\* dns.h: cons_dns() makes a reply of the request and adds what was found; dns.c: the
\* answer takes the place of the additional records.  So the header of the reply to a
\* whole question counts one answer and no additional record, as many as are sent.
AnswersAreCounted ==
    pc = "sent" /\ Whole =>
        Get(data, dns_hdr, an_cnt) = <<0, 1>> /\ Get(data, dns_hdr, ar_cnt) = <<0, 0>>
=============================================================================
