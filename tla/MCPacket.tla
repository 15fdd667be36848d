------------------------------ MODULE MCPacket ------------------------------
(* Packet over frames with and without options of the IP header, and with    *)
(* one too short for one, that end before, at and behind their headers,      *)
(* their name and their question, or are no question to a server; and names  *)
(* up to and over both limits, whose replies have lengths around the turns   *)
(* of the three loops.                                                       *)
EXTENDS Packet

CONSTANTS Ihls, HeaderEnds, Ends, Bytes

\* Names by the lengths of their labels, whose second byte is a negative char
Letters(n) == [k \in 1 .. n |-> IF k = 2 THEN 226 ELSE 96 + k]
MCNames == {[k \in DOMAIN ns |-> Letters(ns[k])] :
               ns \in {<<>>, <<1>>, <<2>>, <<3>>, <<1, 3>>, <<3, 3>>, <<3, 2, 1>>,
                       <<3, 3, 3>>, <<3, 3, 3, 2>>, <<3, 3, 3, 3>>, <<4>>, <<1, 4>>, <<5>>, <<1, 5>>}}

Header(counts) == <<1, 254, 1, 0>> \o counts
One == <<0, 1, 0, 0, 0, 0, 0, 0>>
Question(name) == Wire(name) \o <<0, 1, 0, 1>>

\* A frame whose other bytes are `fill', or 7 behind the headers; with a header too
\* short the destination port lies in the source address.
Frame(ihl_, fill, type, proto, port, counts, name) ==
    LET udp == ETH_HDR_LEN + 4 * ihl_
        dns == Header(counts) \o Question(name)
    IN  [k \in 0 .. Size - 1 |->
            CASE k = 12 -> 8
              [] k = 13 -> type
              [] k = ip_hdr -> 64 + ihl_
              [] k = ip_hdr + 9 -> proto
              [] k = udp + 2 -> 0
              [] k = udp + 3 -> port
              [] k \in udp + 8 .. udp + 7 + Len(dns) -> dns[k - udp - 7]
              [] k > udp + 7 + Len(dns) -> 7
              [] OTHER -> (fill + (IF fill = 7 THEN k ELSE 0)) % 256]

WholeLen(ihl_, name) == ETH_HDR_LEN + 4 * ihl_ + 20 + Len(Wire(name)) + 4

MCFrames ==
    {[data |-> Frame(h, b, 0, 17, 53, One, n), data_len |-> l, name |-> n] :
        h \in Ihls, b \in Bytes, l \in HeaderEnds, n \in {<<>>, <<Letters(1)>>}}
    \union UNION {{[data |-> Frame(h, b, 0, 17, 53, One, n), data_len |-> WholeLen(h, n) + e - 9, name |-> n] :
        b \in IF h = 5 THEN Bytes ELSE {7}, e \in Ends} : h \in Ihls, n \in MCNames}
    \union {[data |-> Frame(5, 7, t, p, d, One, <<>>), data_len |-> WholeLen(5, <<>>), name |-> <<>>] :
               t \in {0, 6}, p \in {6, 17}, d \in {53, 54}}
    \union {[data |-> Frame(5, 7, 0, 17, 53, [One EXCEPT ![k] = 2], <<Letters(2)>>),
             data_len |-> WholeLen(5, <<Letters(2)>>), name |-> <<Letters(2)>>] : k \in 1 .. 8}

MCAnswers == {[ttl |-> 600, ip4 |-> <<10, 0, 0, 1>>],
              [ttl |-> 2147483647, ip4 |-> <<255, 255, 255, 255>>]}
=============================================================================
