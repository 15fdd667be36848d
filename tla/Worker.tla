------------------------------- MODULE Worker -------------------------------
(***************************************************************************)
(* The worker process: receive a datagram, parse it, look its name up in   *)
(* redis, build the reply in place, send it (worker.c, engine.c, dns.c,    *)
(* zone_query.c).  One datagram is handled at a time, in one static packet *)
(* buffer that nothing clears in between: what a datagram does not         *)
(* overwrite is what the datagrams before it have left there.              *)
(*                                                                         *)
(* Names are sequences of labels.  A label and its dot take one cell of    *)
(* PKT_INFO.domain, the final 0 takes another; the root name is <<>>.      *)
(* Type stands for a <type, class> pair, Data for <ttl, address>.          *)
(***************************************************************************)
EXTENDS Integers, Sequences, Functions

CONSTANTS Label, Type, Data,
          END,          \* the 0 at the end of a string
          MaxLabels,    \* labels that fit in DOMAIN_LEN_MAX with their END
          Datagram,     \* what clients may send
          Zone,         \* the names of the authoritative zones
          Config        \* <name, record> pairs of the zone files

RR == [type : Type, data : Data]
Name == UNION {[1 .. n -> Label] : n \in 0 .. MaxLabels}

\* "short": no room for header and question.  "counts": not one question and
\* nothing else.  "cut": the datagram ends before its name does.  "overlong":
\* behind the labels stands a length of 128 or more, negative where char is
\* signed.
Form == {"short", "counts", "cut", "overlong", "whole"}

ASSUME WorkerAssumption ==
    /\ MaxLabels \in Nat \ {0}
    /\ END \notin Label
    /\ Data # {}
    /\ Datagram \subseteq [form : Form, name : Seq(Label), type : Type]
    /\ \A p \in Datagram : p.form = "cut" => p.name # <<>>
    /\ Zone \subseteq Name
    /\ "ZONE_INFO" \notin Type
    /\ Config \subseteq Name \X RR

\* What is stored under a name: the ZONE_INFO of a zone, and RR_INFO records.
Item == [type : Type \union {"ZONE_INFO"}, data : Data]
ZoneInfo == [type |-> "ZONE_INFO", data |-> CHOOSE d \in Data : TRUE]

VARIABLES pc,       \* where the worker is
          pkt,      \* the datagram in s_pkt_buf
          domain,   \* PKT_INFO.domain
          q_type,   \* PKT_INFO.q_type, q_class
          rr_res,   \* PKT_INFO.rr_res[0], rr_res_ttl[0]
          reply,    \* the reply in s_pkt_buf, <<>> while there is none
          store,    \* redis: Name -> list of items
          up,       \* redis: does it run?
          before    \* history: the store when the datagram arrived

vars == <<pc, pkt, domain, q_type, rr_res, reply, store, up, before>>
query == <<pkt, domain, q_type, rr_res, reply, before>>

PC == {"receive", "parse", "connect", "GET", "cons", "send", "dead"}
Reply == [name : Seq(Label), type : Type, an_cnt : 0 .. 1, answer : Data]

TypeOK ==
    /\ pc \in PC
    /\ pkt \in Datagram
    /\ domain \in [1 .. MaxLabels + 1 -> Label \union {END}]
    /\ q_type \in Type
    /\ rr_res \in Data
    /\ reply = <<>> \/ reply \in Reply
    /\ store \in [Name -> Seq(Item)]
    /\ up \in BOOLEAN
    /\ before \in [Name -> Seq(Item)]

\* Static memory is zero.  The master saves the zones before it forks a worker,
\* and their records: SaveRR before the first Receive.
Init ==
    /\ pc = "receive"
    /\ pkt \in Datagram
    /\ domain = [i \in 1 .. MaxLabels + 1 |-> END]
    /\ q_type \in Type
    /\ rr_res \in Data
    /\ reply = <<>>
    /\ store = [n \in Name |-> IF n \in Zone THEN <<ZoneInfo>> ELSE <<>>]
    /\ up = TRUE
    /\ before = store

\* receive_pkt().  A failed recvmsg() changes nothing.
Receive ==
    /\ pc = "receive"
    /\ pkt' \in Datagram
    /\ reply' = <<>>
    /\ pc' = "parse"
    /\ before' = store
    /\ UNCHANGED <<domain, q_type, rr_res, store, up>>

-----------------------------------------------------------------------------
\* Mutation: the test of the length leaves no room for END.
get_query_domain_Off(p) ==
    /\ domain' = [i \in 1 .. MaxLabels + 1 |->
                     IF i \in DOMAIN p.name THEN p.name[i]
                     ELSE IF i = Len(p.name) + 1 /\ p.form = "whole" THEN END
                     ELSE domain[i]]

\* Mutation: no length is tested.
get_query_domain_Any(p) ==
    /\ domain' = [i \in 1 .. MaxLabels + 1 \union 1 .. Len(p.name) + 1 |->
                     IF i \in DOMAIN p.name THEN p.name[i]
                     ELSE IF i = Len(p.name) + 1 THEN END
                     ELSE domain[i]]

\* The loop of get_query_domain(): copies label after label as long as they
\* fit, and ends the string only when it meets the end of the name.
get_query_domain(p) ==
    domain' = [i \in 1 .. MaxLabels + 1 |->
                  IF i \in DOMAIN p.name /\ i <= MaxLabels THEN p.name[i]
                  ELSE IF i = Len(p.name) + 1 /\ p.form = "whole" THEN END
                  ELSE domain[i]]

\* Mutation: the longest name is refused as well.
Fits_Off(p) == Len(p.name) < MaxLabels

\* Does get_query_domain() return a length?
Fits(p) == Len(p.name) <= MaxLabels

\* What becomes of a worker whose get_query_domain() meets an overlong length.
\* Where char is unsigned it is over LABEL_LEN_MAX and refused; where char is
\* signed it is negative, under both limits, and the size of a memcpy() that
\* runs out of the memory there is.
AfterOverlong == {"receive", "dead"}

\* parse_dns(), then pass_acl(), which lets everything through.  The type that
\* follows a name without an end is whatever lies in the buffer there.
parse_dns ==
    /\ pc = "parse"
    /\ \/ /\ pkt.form \in {"short", "counts"}
          /\ pc' = "receive"
          /\ UNCHANGED <<domain, q_type>>
       \/ /\ pkt.form \in {"cut", "overlong", "whole"}
          /\ get_query_domain(pkt)
          /\ \/ /\ ~Fits(pkt)
                /\ pc' = "receive"
                /\ UNCHANGED q_type
             \/ /\ Fits(pkt)
                /\ pkt.form = "overlong"
                /\ pc' \in AfterOverlong
                /\ UNCHANGED q_type
             \/ /\ Fits(pkt)
                /\ pkt.form \in {"cut", "whole"}
                /\ pc' = "connect"
                /\ q_type' \in IF pkt.form = "whole" THEN {pkt.type} ELSE Type
    /\ UNCHANGED <<pkt, rr_res, reply, store, up, before>>

-----------------------------------------------------------------------------
\* Mutation: a failed connection is tried again for ever.
connect_redis_Retry ==
    /\ pc = "connect"
    /\ up
    /\ pc' = "GET"
    /\ UNCHANGED <<query, store, up>>

\* The connection of traverse_binary_str()
connect_redis ==
    /\ pc = "connect"
    /\ \/ up /\ pc' = "GET"
       \/ ~up /\ pc' = "receive"
    /\ UNCHANGED <<query, store, up>>

\* The domain as a C string: the one name that ends at the first END
Asked == {n \in Name : /\ domain[Len(n) + 1] = END
                       /\ \A i \in DOMAIN n : domain[i] = n[i]}

\* The records that get_rr_info() makes out of a value.  RR_INFO has 272 bytes,
\* ZONE_INFO 1060, not a multiple: behind a ZONE_INFO no record is aligned, and
\* what it reads out of the texts of the ZONE_INFO is of no type.
Records(value) ==
    IF value # <<>> /\ value[1].type = "ZONE_INFO" THEN <<>> ELSE value

Matches(value, type) ==
    {i \in DOMAIN Records(value) : Records(value)[i].type = type}

\* Mutation: a later match overwrites an earlier one.
First_Last(value, type) ==
    {i \in Matches(value, type) : \A j \in Matches(value, type) : j <= i}

\* RR_PER_TYPE_MAX is 1: the first match is kept, others are passed over.
First(value, type) ==
    {i \in Matches(value, type) : \A j \in Matches(value, type) : i <= j}

\* The GET, its traversal and the rest of query_zone().  No reply, no value and
\* no match all end in RET_OK; res_num stays 1 and rr_info[0] is what the stack
\* holds.
query_zone ==
    /\ pc = "GET"
    /\ \E name \in Asked :
          \/ /\ up
             /\ \E i \in First(store[name], q_type) : rr_res' = store[name][i].data
          \/ /\ ~up \/ Matches(store[name], q_type) = {}
             /\ rr_res' \in Data
    /\ pc' = "cons"
    /\ UNCHANGED <<pkt, domain, q_type, reply, store, up, before>>

\* sort_answer(), which changes nothing, and cons_dns(): flags and answer are
\* written into the request; its counts stay as they are.
cons_dns ==
    /\ pc = "cons"
    /\ reply' = [name |-> pkt.name, type |-> q_type, an_cnt |-> 0, answer |-> rr_res]
    /\ pc' = "send"
    /\ UNCHANGED <<pkt, domain, q_type, rr_res, store, up, before>>

\* send_pkt(), whose failure is ignored
send_pkt ==
    /\ pc = "send"
    /\ pc' = "receive"
    /\ UNCHANGED <<query, store, up>>

-----------------------------------------------------------------------------
\* Another smartDNS loads its configuration (a restart, a test of it) into the
\* same redis: append_binary_to_str() adds a record at the end of its list, once.
\* (Behind a ZONE_INFO it would not find the copy; once there is a bound.)
SaveRR(n, rr) ==
    /\ up
    /\ rr \notin Range(store[n])
    /\ store' = [store EXCEPT ![n] = Append(@, rr)]
    /\ UNCHANGED <<pc, query, up>>

\* save_zone_info() overwrites
SaveZone(n) ==
    /\ up
    /\ store' = [store EXCEPT ![n] = <<ZoneInfo>>]
    /\ UNCHANGED <<pc, query, up>>

Dies == up /\ up' = FALSE /\ UNCHANGED <<pc, query, store>>

process_mesg == parse_dns \/ connect_redis \/ query_zone \/ cons_dns \/ send_pkt

Next ==
    \/ Receive
    \/ process_mesg
    \/ \E c \in Config : SaveRR(c[1], c[2])
    \/ \E n \in Zone : SaveZone(n)
    \/ Dies

Spec == Init /\ [][Next]_vars

\* The loop never waits but for redis, which answers or breaks the connection,
\* and for the next datagram, which need not come.
FairSpec == Spec /\ WF_vars(process_mesg)

-----------------------------------------------------------------------------
\* Whatever datagrams came before, the string in PKT_INFO.domain ends inside
\* its array: GET %s never runs past it.
DomainEnds == domain[MaxLabels + 1] = END

\* A whole question about a name that had a matching record when the datagram
\* came gets the first such record, not another name's, a stale one's or one
\* that was loaded later, unless redis fails on the way.
RightRecord ==
    pc = "send" /\ pkt.form = "whole" /\ up
    => \A i \in First(before[pkt.name], pkt.type) :
          reply.answer = before[pkt.name][i].data

\* Whatever datagrams come in whatever order, and whatever redis does, the loop
\* comes back to receive_pkt(): redis' failures, refused names and names without
\* an end do not stop it.  One thing does, a label length of 128 or more, which
\* ends the worker for good where char is signed (see OverlongIsRefused).
KeepsServing ==
    pc = "parse" ~> \/ pc = "receive"
                    \/ pc = "dead" /\ pkt.form = "overlong" /\ Fits(pkt)

\* dns.c:30-36 refuses a label over LABEL_LEN_MAX ("domain too long") and the
\* loop goes on with the next datagram.  Not so when char is signed: a length of
\* 128 or more is a negative one, and the worker dies in memcpy().
OverlongIsRefused == [][pc = "parse" /\ pkt.form = "overlong" => pc' \in {pc, "receive"}]_vars

\* Every whole question of a legal length comes to its reply, if redis lives.
Answered ==
    pc = "parse" /\ pkt.form = "whole" /\ Len(pkt.name) <= MaxLabels
        ~> pc = "send" \/ ~up

\* zone_query.c:35-42: a question without a record is "NOT found" and gets
\* RET_ERR, hence no reply.  Not so: its answer is what the stack holds.
UnknownNotAnswered ==
    pc = "send" /\ pkt.form = "whole" => Matches(store[pkt.name], pkt.type) # {}

\* zone.h:141-142: the value under a name is the RR_INFO[] of that name, so a
\* record saved there is found there.  Not so at the name of a zone.
ZoneNameServed ==
    /\ pc = "send"
    /\ pkt.form = "whole"
    /\ up
    /\ store[pkt.name] = before[pkt.name]
    => \A d \in Data :
          {item \in Range(before[pkt.name]) : item.type = pkt.type}
              = {[type |-> pkt.type, data |-> d]}
          => reply.answer = d
=============================================================================
