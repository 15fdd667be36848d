---------------------------- MODULE WorkerProofs ----------------------------
(***************************************************************************)
(* Proofs about the worker, for all labels, names, zones, configurations   *)
(* and datagrams.                                                          *)
(***************************************************************************)
EXTENDS Worker, TLAPS

-----------------------------------------------------------------------------
(* Type correctness *)

\* A name that is read out of the buffer is one the store has a list for.
LEMMA AskedIsName == Asked \subseteq Name
  BY DEF Asked

\* A record of a list of items has data.
LEMMA FirstHasData ==
  ASSUME NEW value \in Seq(Item), NEW type, NEW i \in First(value, type)
  PROVE  value[i].data \in Data
<1>1. Records(value) \in {<<>>, value}
  BY DEF Records
<1>2. i \in DOMAIN value
  BY <1>1 DEF First, Matches
<1>3. value[i] \in Item
  BY <1>2
<1> QED
  BY <1>3 DEF Item

LEMMA ZoneInfoType == ZoneInfo \in Item
  BY WorkerAssumption DEF ZoneInfo, Item

LEMMA ConfigType == \A c \in Config : c[1] \in Name /\ c[2] \in Item
  BY WorkerAssumption DEF RR, Item

LEMMA TypeInit == Init => TypeOK
<1> SUFFICES ASSUME Init PROVE TypeOK
  OBVIOUS
<1>1. store \in [Name -> Seq(Item)]
  BY ZoneInfoType DEF Init
<1> QED
  BY <1>1 DEF Init, TypeOK, PC

LEMMA TypeStep == TypeOK /\ [Next]_vars => TypeOK'
<1> SUFFICES ASSUME TypeOK, [Next]_vars PROVE TypeOK'
  OBVIOUS
<1> USE DEF TypeOK, PC
<1>1. CASE Receive
  BY <1>1 DEF Receive
<1>2. CASE parse_dns
  <2>1. CASE pkt.form \in {"short", "counts"} /\ pc' = "receive" /\ UNCHANGED <<domain, q_type>>
    BY <1>2, <2>1 DEF parse_dns
  <2>2. CASE get_query_domain(pkt) /\ pc' \in PC /\ q_type' \in {q_type, pkt.type} \union Type
    <3>1. pkt \in [form : Form, name : Seq(Label), type : Type]
      BY WorkerAssumption
    <3>2. domain' \in [1 .. MaxLabels + 1 -> Label \union {END}]
      BY <2>2, <3>1 DEF get_query_domain
    <3> QED
      BY <1>2, <2>2, <3>1, <3>2 DEF parse_dns
  <2> QED
    BY <1>2, <2>1, <2>2 DEF parse_dns, AfterOverlong
<1>3. CASE connect_redis
  BY <1>3 DEF connect_redis, query
<1>4. CASE query_zone
  <2>1. rr_res' \in Data
    <3>1. PICK name \in Asked :
             \/ \E i \in First(store[name], q_type) : rr_res' = store[name][i].data
             \/ rr_res' \in Data
      BY <1>4 DEF query_zone
    <3>2. store[name] \in Seq(Item)
      BY AskedIsName
    <3> QED
      BY <3>1, <3>2, FirstHasData
  <2> QED
    BY <1>4, <2>1 DEF query_zone
<1>5. CASE cons_dns
  <2>1. pkt.name \in Seq(Label)
    BY WorkerAssumption
  <2>2. reply' \in Reply
    BY <1>5, <2>1 DEF cons_dns, Reply
  <2> QED
    BY <1>5, <2>2 DEF cons_dns
<1>6. CASE send_pkt
  BY <1>6 DEF send_pkt, query
<1>7. ASSUME NEW c \in Config, SaveRR(c[1], c[2]) PROVE TypeOK'
  <2>1. c[1] \in Name /\ c[2] \in Item
    BY ConfigType
  <2>2. store' \in [Name -> Seq(Item)]
    BY <1>7, <2>1 DEF SaveRR
  <2> QED
    BY <1>7, <2>2 DEF SaveRR, query
<1>8. ASSUME NEW n \in Zone, SaveZone(n) PROVE TypeOK'
  <2>1. store' \in [Name -> Seq(Item)]
    BY <1>8, ZoneInfoType, WorkerAssumption DEF SaveZone
  <2> QED
    BY <1>8, <2>1 DEF SaveZone, query
<1>9. CASE Dies
  BY <1>9 DEF Dies, query
<1>10. CASE UNCHANGED vars
  BY <1>10 DEF vars
<1> QED
  BY <1>1, <1>2, <1>3, <1>4, <1>5, <1>6, <1>7, <1>8, <1>9, <1>10 DEF Next, process_mesg

\* The state is of its type in every reachable state.
THEOREM TypeCorrect == Spec => []TypeOK
  BY TypeInit, TypeStep, PTL DEF Spec

-----------------------------------------------------------------------------
(* The name that is looked up *)

\* Parsing never writes over the last cell of the buffer, which starts as END.
LEMMA DomainStep == TypeOK /\ DomainEnds /\ [Next]_vars => DomainEnds'
<1> SUFFICES ASSUME TypeOK, DomainEnds, [Next]_vars PROVE DomainEnds'
  OBVIOUS
<1>1. CASE parse_dns
  <2>1. CASE get_query_domain(pkt)
    BY <2>1, WorkerAssumption DEF get_query_domain, DomainEnds
  <2>2. CASE UNCHANGED domain
    BY <2>2 DEF DomainEnds
  <2> QED
    BY <1>1, <2>1, <2>2 DEF parse_dns
<1>2. CASE UNCHANGED domain
  BY <1>2 DEF DomainEnds
<1> QED
  BY <1>1, <1>2 DEF Next, vars, query, process_mesg, Receive, connect_redis, query_zone,
                    cons_dns, send_pkt, SaveRR, SaveZone, Dies

\* The string in PKT_INFO.domain always ends inside its array.
THEOREM DomainStaysInBounds == Spec => []DomainEnds
<1>1. Init => DomainEnds
  BY WorkerAssumption DEF Init, DomainEnds
<1> QED
  BY <1>1, DomainStep, TypeCorrect, PTL DEF Spec

-----------------------------------------------------------------------------
(* The record that is served *)

\* What the store had for n when the datagram came is still in front.  At the
\* name of a zone no record can be found, then or now.
Kept(n) ==
    \/ /\ n \in Zone
       /\ store[n] # <<>> /\ store[n][1].type = "ZONE_INFO"
       /\ before[n] # <<>> /\ before[n][1].type = "ZONE_INFO"
    \/ /\ n \notin Zone
       /\ store[n] \in Seq(RR) /\ before[n] \in Seq(RR)
       /\ Len(before[n]) <= Len(store[n])
       /\ \A i \in 1 .. Len(before[n]) : store[n][i] = before[n][i]

\* RightRecord holds at "send" because the buffer holds the name and the type of
\* the datagram while they are used, because the list of the name has only
\* grown since, and because the answer was taken from it.
Found == \A i \in First(before[pkt.name], pkt.type) : rr_res = before[pkt.name][i].data

IInv ==
    /\ \A n \in Name : Kept(n)
    /\ pc \in {"connect", "GET", "cons", "send"} /\ pkt.form = "whole"
          => pkt.name \in Name /\ Asked = {pkt.name} /\ q_type = pkt.type
    /\ pc = "cons" /\ pkt.form = "whole" /\ up => Found
    /\ RightRecord

\* The first match of a list stays the first match of its extensions.
LEMMA FirstStays ==
  ASSUME NEW s \in Seq(RR), NEW t \in Seq(RR), NEW type,
         Len(s) <= Len(t), \A i \in 1 .. Len(s) : t[i] = s[i],
         NEW i \in First(s, type)
  PROVE  First(t, type) = {i} /\ t[i] = s[i]
<1>1. ASSUME NEW v \in Seq(RR) PROVE Records(v) = v
  <2>1. v # <<>> => v[1] \in RR
    OBVIOUS
  <2>2. v # <<>> => v[1].type # "ZONE_INFO"
    BY <2>1, WorkerAssumption DEF RR
  <2> QED
    BY <2>2 DEF Records
<1>2. i \in 1 .. Len(s) /\ s[i].type = type /\ \A j \in 1 .. Len(s) : s[j].type = type => i <= j
  BY <1>1 DEF First, Matches
<1>3. i \in 1 .. Len(t) /\ t[i] = s[i]
  BY <1>2
<1>4. \A j \in 1 .. Len(t) : t[j].type = type => i <= j
  BY <1>2
<1>5. i \in First(t, type)
  BY <1>1, <1>2, <1>3, <1>4 DEF First, Matches
<1>6. \A j \in First(t, type) : j = i
  <2> SUFFICES ASSUME NEW j \in First(t, type) PROVE j = i
    OBVIOUS
  <2>1. j \in 1 .. Len(t) /\ j <= i /\ i <= j
    BY <1>1, <1>5 DEF First, Matches
  <2> QED
    BY <2>1, <1>2
<1> QED
  BY <1>3, <1>5, <1>6

\* No match in what is now in the store: none in what was in it before.
LEMMA FirstOfKept ==
  ASSUME NEW n, Kept(n), NEW type, NEW i \in First(before[n], type)
  PROVE  First(store[n], type) = {i} /\ store[n][i] = before[n][i]
<1>1. CASE n \in Zone
  <2>1. Records(before[n]) = <<>>
    BY <1>1 DEF Kept, Records
  <2> QED
    BY <2>1 DEF First, Matches
<1>2. CASE n \notin Zone
  BY <1>2, FirstStays DEF Kept
<1> QED
  BY <1>1, <1>2

\* Parsing a whole datagram of a legal length leaves its name in the buffer.
LEMMA NameIsAsked ==
  ASSUME TypeOK, parse_dns, pkt.form = "whole", pc' = "connect"
  PROVE  pkt.name \in Name /\ Asked' = {pkt.name} /\ q_type' = pkt.type
<1> DEFINE name == pkt.name
<1>1. pkt \in [form : Form, name : Seq(Label), type : Type]
  BY WorkerAssumption DEF TypeOK
<1>2. get_query_domain(pkt) /\ Len(name) <= MaxLabels /\ q_type' = pkt.type
  BY DEF parse_dns, Fits
<1>3. name \in [1 .. Len(name) -> Label] /\ Len(name) \in 0 .. MaxLabels
  BY <1>1, <1>2, WorkerAssumption
<1>4. name \in Name
  BY <1>3 DEF Name
<1>5. domain'[Len(name) + 1] = END /\ \A i \in 1 .. Len(name) : domain'[i] = name[i]
  BY <1>1, <1>2, <1>3, WorkerAssumption DEF get_query_domain
<1>6. ASSUME NEW n \in Name, domain'[Len(n) + 1] = END, \A i \in DOMAIN n : domain'[i] = n[i]
      PROVE  n = name
  <2>1. PICK m \in 0 .. MaxLabels : n \in [1 .. m -> Label]
    BY DEF Name
  <2>2. n \in Seq(Label) /\ Len(n) = m /\ DOMAIN n = 1 .. m
    BY <2>1, WorkerAssumption
  <2>3. ~ (m < Len(name))
    BY <1>3, <1>5, <1>6, <2>2, WorkerAssumption
  <2>4. ~ (Len(name) < m)
    <3> SUFFICES ASSUME Len(name) < m PROVE FALSE
      OBVIOUS
    <3>1. Len(name) + 1 \in 1 .. m
      BY <1>3, WorkerAssumption
    <3>2. n[Len(name) + 1] \in Label
      BY <2>1, <3>1
    <3> QED
      BY <1>5, <1>6, <2>2, <3>1, <3>2, WorkerAssumption
  <2>5. m = Len(name)
    BY <1>3, <2>3, <2>4, WorkerAssumption
  <2>6. \A i \in 1 .. m : n[i] = name[i]
    BY <1>5, <1>6, <2>2, <2>5
  <2> QED
    BY <1>3, <2>1, <2>5, <2>6
<1>7. DOMAIN name = 1 .. Len(name)
  BY <1>3
<1> QED
  BY <1>2, <1>4, <1>5, <1>6, <1>7 DEF Asked

LEMMA KeptInit == Init => \A n \in Name : Kept(n)
<1> SUFFICES ASSUME Init, NEW n \in Name PROVE Kept(n)
  OBVIOUS
<1>1. CASE n \in Zone
  BY <1>1 DEF Init, Kept, ZoneInfo
<1>2. CASE n \notin Zone
  BY <1>2 DEF Init, Kept
<1> QED
  BY <1>1, <1>2

\* The lists only grow, except at the names of zones; `before` is renewed when
\* a datagram comes.
LEMMA KeptStep ==
  ASSUME TypeOK, [Next]_vars, NEW n \in Name, Kept(n)
  PROVE  Kept(n)'
<1>1. CASE UNCHANGED <<store, before>>
  BY <1>1 DEF Kept
<1>2. CASE Receive
  BY <1>2 DEF Kept, Receive
<1>3. ASSUME NEW c \in Config, SaveRR(c[1], c[2]) PROVE Kept(n)'
  <2>1. c[1] \in Name /\ c[2] \in RR
    BY WorkerAssumption
  <2>2. store' = [store EXCEPT ![c[1]] = Append(store[c[1]], c[2])] /\ before' = before
    BY <1>3 DEF SaveRR, query
  <2>3. CASE n # c[1]
    BY <2>1, <2>2, <2>3 DEF Kept, TypeOK
  <2>4. CASE n = c[1]
    <3>1. store'[n] = Append(store[n], c[2])
      BY <2>2, <2>4 DEF TypeOK
    <3>2. store[n] \in Seq(Item)
      BY DEF TypeOK
    <3>3. CASE n \in Zone
      <4>1. store'[n] # <<>> /\ store'[n][1] = store[n][1]
        BY <3>1, <3>2, <3>3 DEF Kept
      <4> QED
        BY <2>2, <3>3, <4>1 DEF Kept
    <3>4. CASE n \notin Zone
      <4>1. store'[n] \in Seq(RR) /\ Len(store'[n]) = Len(store[n]) + 1
            /\ \A i \in 1 .. Len(store[n]) : store'[n][i] = store[n][i]
        BY <2>1, <3>1, <3>4 DEF Kept
      <4> QED
        BY <2>2, <3>4, <4>1 DEF Kept
    <3> QED
      BY <3>3, <3>4
  <2> QED
    BY <2>3, <2>4
<1>4. ASSUME NEW z \in Zone, SaveZone(z) PROVE Kept(n)'
  <2>1. store' = [store EXCEPT ![z] = <<ZoneInfo>>] /\ before' = before
    BY <1>4 DEF SaveZone, query
  <2>2. CASE n = z
    BY <2>1, <2>2 DEF Kept, TypeOK, ZoneInfo
  <2>3. CASE n # z
    BY <2>1, <2>3 DEF Kept, TypeOK
  <2> QED
    BY <2>2, <2>3
<1> QED
  BY <1>1, <1>2, <1>3, <1>4 DEF Next, vars, query, process_mesg, parse_dns, connect_redis,
                                query_zone, cons_dns, send_pkt, Dies

\* The answer that query_zone() finds is the first record there was.
LEMMA FoundStep ==
  ASSUME TypeOK, IInv, query_zone, pkt.form = "whole", up
  PROVE  Found'
<1>1. pc = "GET" /\ pkt.name \in Name /\ Asked = {pkt.name} /\ q_type = pkt.type
  BY DEF IInv, query_zone
<1>2. Kept(pkt.name)
  BY <1>1 DEF IInv
<1> SUFFICES ASSUME NEW i \in First(before[pkt.name], pkt.type)
             PROVE  rr_res' = before[pkt.name][i].data
  BY DEF Found, query_zone
<1>3. First(store[pkt.name], pkt.type) = {i} /\ store[pkt.name][i] = before[pkt.name][i]
  BY <1>2, FirstOfKept
<1>4. i \in Matches(store[pkt.name], pkt.type)
  BY <1>3 DEF First
<1>5. \E j \in First(store[pkt.name], pkt.type) : rr_res' = store[pkt.name][j].data
  BY <1>1, <1>4 DEF query_zone
<1> QED
  BY <1>3, <1>5

LEMMA IInvStep == TypeOK /\ IInv /\ [Next]_vars => IInv'
<1> SUFFICES ASSUME TypeOK, IInv, [Next]_vars PROVE IInv'
  OBVIOUS
<1>1. \A n \in Name : Kept(n)'
  BY KeptStep DEF IInv
<1>2. CASE Receive
  BY <1>1, <1>2 DEF IInv, RightRecord, Receive
<1>3. CASE parse_dns
  <2>1. pc' \in {"receive", "dead", "connect"} /\ pkt' = pkt
    BY <1>3 DEF parse_dns, AfterOverlong
  <2>2. pc' = "connect" /\ pkt'.form = "whole"
           => pkt'.name \in Name /\ Asked' = {pkt'.name} /\ q_type' = pkt'.type
    BY <1>3, <2>1, NameIsAsked
  <2> QED
    BY <1>1, <2>1, <2>2 DEF IInv, RightRecord
<1>4. CASE connect_redis
  BY <1>1, <1>4 DEF IInv, RightRecord, connect_redis, query, Asked
<1>5. CASE query_zone
  <2>1. pc = "GET" /\ pc' = "cons" /\ Asked' = Asked /\ UNCHANGED <<pkt, q_type, up>>
    BY <1>5 DEF query_zone, Asked
  <2>2. pkt.form = "whole" /\ up => Found'
    BY <1>5, FoundStep
  <2> QED
    BY <1>1, <2>1, <2>2 DEF IInv, RightRecord
<1>6. CASE cons_dns
  <2>1. pc = "cons" /\ pc' = "send" /\ Asked' = Asked /\ reply'.answer = rr_res
        /\ UNCHANGED <<pkt, q_type, up, before>>
    BY <1>6 DEF cons_dns, Asked
  <2> QED
    BY <1>1, <2>1 DEF IInv, RightRecord, Found
<1>7. CASE send_pkt
  BY <1>1, <1>7 DEF IInv, RightRecord, send_pkt, query, Asked
<1>8. CASE UNCHANGED <<pc, query>> /\ (up' => up)
  BY <1>1, <1>8 DEF IInv, RightRecord, Found, query, Asked
<1> QED
  BY <1>2, <1>3, <1>4, <1>5, <1>6, <1>7, <1>8
     DEF Next, vars, process_mesg, SaveRR, SaveZone, Dies, query

\* A whole question gets the first matching record of its name.
THEOREM RightRecordIsServed == Spec => []RightRecord
<1>1. Init => IInv
  BY KeptInit DEF Init, IInv, RightRecord
<1>2. IInv => RightRecord
  BY DEF IInv
<1> QED
  BY <1>1, <1>2, IInvStep, TypeCorrect, PTL DEF Spec
=============================================================================
