--------------------------- MODULE LoadingProofs ---------------------------
(***************************************************************************)
(* Theorems about Loading, for all configurations.                         *)
(***************************************************************************)
EXTENDS Loading, Inductions, TLAPS

\* Sequences: appending, the first element, and the empty one.
LEMMA WithType ==
    ASSUME NEW S, NEW list \in Seq(S), NEW e \in S
    PROVE  With(list, e) \in Seq(S)
BY DEF With

LEMMA HeadTailType ==
    ASSUME NEW S, NEW s \in Seq(S), s # <<>>
    PROVE  Head(s) \in S /\ Tail(s) \in Seq(S)
OBVIOUS

LEMMA EmptyType == ASSUME NEW S PROVE <<>> \in Seq(S)
OBVIOUS

LEMMA EmptyStore == Empty \in Store
<1>1. \A S : <<>> \in Seq(S)
  BY EmptyType
<1> QED
  BY <1>1 DEF Empty, Store

\* What the configuration consists of.
LEMMA ConfigType ==
    ASSUME TypeOK
    PROVE  /\ config.conf \in Seq(Zone)
           /\ config.file \in [Zone -> Seq(Line)]
BY ConfigAssumption DEF TypeOK

\* What a call writes is a store again.
LEMMA InfoStore ==
    ASSUME store \in Store, NEW z \in Zone
    PROVE  WithInfo(z) \in Store
<1>1. <<>> \in Seq(RR)
  BY EmptyType
<1> QED
  BY <1>1 DEF WithInfo, Store

LEMMA ListStore ==
    ASSUME store \in Store, NEW z \in Zone
    PROVE  [store EXCEPT !.list = With(@, z)] \in Store
<1>1. With(store.list, z) \in Seq(Zone)
  BY WithType DEF Store
<1> QED
  BY <1>1 DEF Store

LEMMA RecordStore ==
    ASSUME store \in Store, NEW n \in Name, NEW rr \in RR
    PROVE  AppendedRR(n, rr) \in Store
<1>1. store.records[n] \in Seq(RR)
  BY DEF Store
<1>2. Append(store.records[n], rr) \in Seq(RR) /\ With(store.records[n], rr) \in Seq(RR)
  BY <1>1, WithType
<1> QED
  BY <1>2 DEF AppendedRR, Store

LEMMA NamesStore ==
    ASSUME store \in Store, NEW z \in Zone, NEW n \in Name
    PROVE  [store EXCEPT !.names[z] = With(@, n)] \in Store
<1>1. With(store.names[z], n) \in Seq(Name)
  BY WithType DEF Store
<1> QED
  BY <1>1 DEF Store

\* A call that writes stores leaves a store, and the master goes on or exits.
LEMMA CallType ==
    ASSUME TypeOK, NEW next, NEW stores \in SUBSET Store, Call(next, stores)
    PROVE  /\ pc' \in {next, "off"}
           /\ store' \in Store
           /\ dump' = dump
           /\ {up', own'} \subseteq BOOLEAN
           /\ pc' = next => next = "off" \/ store' \in stores
<1>1. store \in Store /\ up \in BOOLEAN /\ own \in BOOLEAN
  BY DEF TypeOK
<1>2. CASE store' \in stores /\ pc' = next /\ UNCHANGED <<up, own, dump>>
  BY <1>1, <1>2
<1>3. CASE store' \in stores \union {store} /\ Exit
  BY <1>1, <1>3 DEF Exit
<1> QED
  BY <1>1, <1>2, <1>3 DEF Call

\* The actions of zone_cfg_parse().
LEMMA ConfStep ==
    ASSUME TypeOK, SaveInfo \/ AppendZone \/ ConfEnds
    PROVE  TypeOK'
<1> DEFINE z == config.conf[i]
<1>1. CASE SaveInfo
  <2>1. z \in Zone
    BY <1>1, ConfigType DEF SaveInfo, TypeOK
  <2>2. {WithInfo(z)} \in SUBSET Store
    BY <2>1, InfoStore DEF TypeOK
  <2>3. Call("list", {WithInfo(z)}) /\ i <= Len(config.conf)
    BY <1>1 DEF SaveInfo
  <2>4. UNCHANGED <<role, config, i, todo, lines, skipped, stale, full>>
    BY <1>1 DEF SaveInfo, parser
  <2>5. /\ pc' \in {"list", "off"} /\ store' \in Store /\ dump' = dump
        /\ {up', own'} \subseteq BOOLEAN
    BY <2>2, <2>3, CallType
  <2> QED
    BY <2>3, <2>4, <2>5 DEF TypeOK, PC
<1>2. CASE AppendZone
  <2>1. pc = "list" /\ i <= Len(config.conf)
    BY <1>2 DEF AppendZone, TypeOK
  <2>2. z \in Zone
    BY <2>1, ConfigType DEF TypeOK
  <2>3. {[store EXCEPT !.list = With(@, z)]} \in SUBSET Store
    BY <2>2, ListStore DEF TypeOK
  <2>4. Call("conf", {[store EXCEPT !.list = With(@, z)]})
    BY <1>2 DEF AppendZone
  <2>5. UNCHANGED <<role, config, todo, lines, skipped, stale, full>>
    BY <1>2 DEF AppendZone
  <2>6. /\ pc' \in {"conf", "off"} /\ store' \in Store /\ dump' = dump
        /\ {up', own'} \subseteq BOOLEAN
    BY <2>3, <2>4, CallType
  <2>7. i' \in 1 .. Len(config.conf) + 1
    <3>1. i' \in {i, i + 1} /\ i \in 1 .. Len(config.conf) + 1
      BY <1>2 DEF AppendZone, TypeOK
    <3>2. Len(config.conf) \in Nat
      BY ConfigType
    <3> QED
      BY <2>1, <3>1, <3>2
  <2> QED
    BY <2>5, <2>6, <2>7 DEF TypeOK, PC
<1>3. CASE ConfEnds
  BY <1>3 DEF ConfEnds, TypeOK, PC, parser, redis
<1> QED
  BY <1>1, <1>2, <1>3

\* The actions of zone_parse() and parse_zone_file() that store nothing new.
LEMMA ReadStep ==
    ASSUME TypeOK, ReadList \/ OpenZone \/ ZonesEnd \/ FileEnds
    PROVE  TypeOK'
<1>1. CASE ReadList
  <2>1. todo' \in Seq(Zone)
    BY <1>1 DEF ReadList, TypeOK, Store
  <2>2. /\ pc' \in {"zone", "loaded", "off"} /\ skipped' \in BOOLEAN
        /\ {up', own'} \subseteq BOOLEAN
    BY <1>1 DEF ReadList, TypeOK, redis, Exit
  <2>3. UNCHANGED <<role, config, i, lines, store, dump, stale, full>>
    BY <1>1 DEF ReadList, redis, Exit
  <2> QED
    BY <2>1, <2>2, <2>3 DEF TypeOK, PC
<1>2. CASE OpenZone
  <2>1. todo # <<>> /\ todo \in Seq(Zone)
    BY <1>2 DEF OpenZone, TypeOK
  <2>2. lines' \in Seq(Line)
    <3>1. Head(todo) \in Zone
      BY <2>1, HeadTailType
    <3>2. config.file[Head(todo)] \in Seq(Line)
      BY <3>1, ConfigType
    <3> QED
      BY <1>2, <3>2 DEF OpenZone, TypeOK
  <2>3. pc' \in {"soa", "off"} /\ {up', own'} \subseteq BOOLEAN
    BY <1>2 DEF OpenZone, TypeOK, redis, Exit
  <2>4. UNCHANGED <<role, config, i, todo, skipped, store, dump, stale, full>>
    BY <1>2 DEF OpenZone, redis, Exit
  <2> QED
    BY <2>1, <2>2, <2>3, <2>4 DEF TypeOK, PC
<1>3. CASE ZonesEnd
  BY <1>3 DEF ZonesEnd, TypeOK, PC, parser, redis
<1>4. CASE FileEnds
  <2>1. todo' \in Seq(Zone)
    BY <1>4, HeadTailType DEF FileEnds, TypeOK
  <2> QED
    BY <1>4, <2>1 DEF FileEnds, TypeOK, PC, redis
<1> QED
  BY <1>1, <1>2, <1>3, <1>4

\* The actions of parse_zone_file() that write to the store.
LEMMA SaveStep ==
    ASSUME TypeOK, ResaveInfo \/ AppendRR \/ ListName
    PROVE  TypeOK'
<1> DEFINE z == Head(todo)
<1> DEFINE line == Head(lines)
<1>1. z \in Zone /\ todo # <<>>
  <2>1. todo # <<>> /\ todo \in Seq(Zone)
    BY DEF ResaveInfo, AppendRR, ListName, TypeOK
  <2> QED
    BY <2>1, HeadTailType
<1>2. store \in Store
  BY DEF TypeOK
<1>3. CASE ResaveInfo
  <2>1. store' \in Store
    BY <1>1, <1>2, <1>3, InfoStore DEF ResaveInfo
  <2>2. pc' = "append" /\ UNCHANGED <<role, config, i, todo, lines, skipped, up, own, dump, stale, full>>
    BY <1>3 DEF ResaveInfo, parser
  <2> QED
    BY <1>1, <2>1, <2>2 DEF TypeOK, PC
<1>4. ASSUME lines # <<>>
      PROVE  line.name \in Name /\ line.rr \in RR /\ Tail(lines) \in Seq(Line)
  <2>1. line \in Line /\ Tail(lines) \in Seq(Line)
    BY <1>4, HeadTailType DEF TypeOK
  <2> QED
    BY <2>1 DEF Line
<1>5. CASE AppendRR
  <2>1. lines # <<>>
    BY <1>5 DEF AppendRR
  <2>2. {AppendedRR(line.name, line.rr)} \in SUBSET Store
    BY <1>2, <1>4, <2>1, RecordStore
  <2>3. Call("name", {AppendedRR(line.name, line.rr)})
    BY <1>5 DEF AppendRR
  <2>4. UNCHANGED <<role, config, i, todo, lines, skipped, stale, full>>
    BY <1>5 DEF AppendRR, parser
  <2>5. /\ pc' \in {"name", "off"} /\ store' \in Store /\ dump' = dump
        /\ {up', own'} \subseteq BOOLEAN
    BY <2>2, <2>3, CallType
  <2> QED
    BY <1>1, <2>1, <2>4, <2>5 DEF TypeOK, PC
<1>6. CASE ListName
  <2>1. lines # <<>>
    BY <1>6 DEF ListName, TypeOK
  <2>2. {[store EXCEPT !.names[z] = With(@, line.name)]} \in SUBSET Store
    BY <1>1, <1>2, <1>4, <2>1, NamesStore
  <2>3. Call("append", {[store EXCEPT !.names[z] = With(@, line.name)]})
    BY <1>6 DEF ListName
  <2>4. UNCHANGED <<role, config, i, todo, skipped, stale, full>>
    BY <1>6 DEF ListName
  <2>5. /\ pc' \in {"append", "off"} /\ store' \in Store /\ dump' = dump
        /\ {up', own'} \subseteq BOOLEAN
    BY <2>2, <2>3, CallType
  <2>6. lines' \in Seq(Line)
    BY <1>4, <1>6, <2>1 DEF ListName, TypeOK
  <2> QED
    BY <1>1, <2>4, <2>5, <2>6 DEF TypeOK, PC
<1> QED
  BY <1>3, <1>5, <1>6

\* The steps around a load.
LEMMA StartStep ==
    ASSUME TypeOK, Start \/ Edit
    PROVE  TypeOK'
<1>1. todo' = <<>> /\ lines' = <<>> /\ i' = 1 /\ skipped' = FALSE /\ pc' \in {"conf", "off"}
  BY DEF Start, Edit
<1>2. todo' \in Seq(Zone) /\ lines' \in Seq(Line)
  BY <1>1, EmptyType
<1>3. config' \in Config
  BY DEF Start, Edit, TypeOK
<1>4. i' \in 1 .. Len(config'.conf) + 1
  <2>1. Len(config'.conf) \in Nat
    BY <1>3, ConfigAssumption
  <2> QED
    BY <1>1, <2>1
<1>5. {store', dump'} \subseteq Store
  BY EmptyStore DEF Start, Edit, TypeOK, redis
<1>6. {up', own', stale', full'} \subseteq BOOLEAN /\ role' \in {"master", "tester"}
  BY DEF Start, Edit, TypeOK, redis
<1> QED
  BY <1>1, <1>2, <1>3, <1>4, <1>5, <1>6 DEF TypeOK, PC

LEMMA OtherStep ==
    ASSUME TypeOK, Fails \/ Serve \/ Dies \/ RedisDies \/ Dump \/ UNCHANGED vars
    PROVE  TypeOK'
<1>1. CASE Fails
  BY <1>1 DEF Fails, Exit, TypeOK, PC, parser
<1>2. CASE Serve
  BY <1>2 DEF Serve, TypeOK, PC, parser
<1>3. CASE Dies
  BY <1>3 DEF Dies, TypeOK, PC, parser
<1>4. CASE RedisDies \/ Dump
  BY <1>4 DEF RedisDies, Dump, TypeOK, parser
<1>5. CASE UNCHANGED vars
  BY <1>5 DEF vars, TypeOK, parser, redis
<1> QED
  BY <1>1, <1>2, <1>3, <1>4, <1>5

LEMMA TypeStep == TypeOK /\ [Next]_vars => TypeOK'
BY ConfStep, ReadStep, SaveStep, StartStep, OtherStep DEF Next, Step

LEMMA TypeInit == Init => TypeOK
<1> SUFFICES ASSUME Init PROVE TypeOK
  OBVIOUS
<1>1. todo \in Seq(Zone) /\ lines \in Seq(Line)
  <2>1. todo = <<>> /\ lines = <<>>
    BY DEF Init
  <2> QED
    BY <2>1, EmptyType
<1>2. i \in 1 .. Len(config.conf) + 1
  <2>1. i = 1 /\ config \in Config
    BY DEF Init
  <2>2. Len(config.conf) \in Nat
    BY <2>1, ConfigAssumption
  <2> QED
    BY <2>1, <2>2
<1>3. {store, dump} \subseteq Store
  BY EmptyStore DEF Init
<1>4. pc = "off" /\ role = "master" /\ config \in Config
  BY DEF Init
<1>5. up = FALSE /\ own = FALSE /\ skipped = FALSE /\ stale = FALSE /\ full = FALSE
  BY DEF Init
<1> QED
  BY <1>1, <1>2, <1>3, <1>4, <1>5 DEF TypeOK, PC

\* Every variable keeps its type, so no zone and no line is asked for that a list
\* or a file does not have.
THEOREM TypeCorrect == Spec => []TypeOK
BY TypeInit, TypeStep, PTL DEF Spec

-----------------------------------------------------------------------------
Known(s) == \A k \in DOMAIN s.list : s.list[k] \in s.info

\* The zone that is to be listed next has its ZONE_INFO.
IInv == Known(store) /\ Known(dump) /\ (pc = "list" => config.conf[i] \in store.info)

LEMMA KnownEmpty == Known(Empty)
BY DEF Known, Empty

\* Each of the four writes keeps listed zones known.
LEMMA KnownInfo ==
    ASSUME store \in Store, Known(store), NEW z \in Zone
    PROVE  Known(WithInfo(z)) /\ z \in WithInfo(z).info
BY DEF Known, WithInfo, Store

LEMMA KnownList ==
    ASSUME store \in Store, Known(store), NEW z \in store.info
    PROVE  Known([store EXCEPT !.list = With(@, z)])
<1> DEFINE new == [store EXCEPT !.list = With(@, z)]
<1>1. new.info = store.info /\ new.list = With(store.list, z)
  BY DEF Store
<1>2. ASSUME NEW k \in DOMAIN new.list PROVE new.list[k] \in store.info
  <2>1. CASE With(store.list, z) = store.list
    BY <1>1, <1>2, <2>1 DEF Known
  <2>2. CASE With(store.list, z) = Append(store.list, z)
    <3>1. store.list \in Seq(Zone)
      BY DEF Store
    <3>2. k \in 1 .. Len(store.list) + 1
      BY <1>1, <1>2, <2>2, <3>1
    <3>3. CASE k = Len(store.list) + 1
      BY <1>1, <2>2, <3>1, <3>3
    <3>4. CASE k \in 1 .. Len(store.list)
      BY <1>1, <2>2, <3>1, <3>4 DEF Known
    <3> QED
      BY <3>1, <3>2, <3>3, <3>4
  <2> QED
    BY <2>1, <2>2 DEF With
<1> QED
  BY <1>1, <1>2 DEF Known

LEMMA KnownRecords ==
    ASSUME store \in Store, Known(store), NEW n, NEW rr, NEW z
    PROVE  /\ Known(AppendedRR(n, rr))
           /\ Known([store EXCEPT !.names[z] = With(@, n)])
BY DEF Known, AppendedRR, Store

\* A call of which both outcomes are known leaves a known store.
LEMMA KnownCall ==
    ASSUME Known(store), Known(dump), NEW next, NEW s, Known(s), Call(next, {s})
    PROVE  Known(store') /\ Known(dump') /\ (pc' = "off" \/ (pc' = next /\ store' = s))
BY DEF Call, Exit

\* The inductive step.
LEMMA KnownStep == TypeOK /\ IInv /\ [Next]_vars => IInv'
<1> SUFFICES ASSUME TypeOK, IInv, [Next]_vars PROVE IInv'
  OBVIOUS
<1>1. Known(store) /\ Known(dump) /\ store \in Store
  BY DEF IInv, TypeOK
<1>2. CASE SaveInfo
  <2> DEFINE z == config.conf[i]
  <2>1. z \in Zone
    BY <1>2, ConfigType DEF SaveInfo, TypeOK
  <2>2. Known(WithInfo(z)) /\ z \in WithInfo(z).info
    BY <1>1, <2>1, KnownInfo
  <2>3. Call("list", {WithInfo(z)}) /\ UNCHANGED <<config, i>>
    BY <1>2 DEF SaveInfo, parser
  <2>4. /\ Known(store') /\ Known(dump')
        /\ pc' = "off" \/ (pc' = "list" /\ store' = WithInfo(z))
    BY <1>1, <2>2, <2>3, KnownCall
  <2> QED
    BY <2>2, <2>3, <2>4 DEF IInv
<1>3. CASE AppendZone
  <2> DEFINE new == [store EXCEPT !.list = With(@, config.conf[i])]
  <2>1. config.conf[i] \in store.info /\ Call("conf", {new})
    BY <1>3 DEF AppendZone, IInv
  <2>2. Known(new)
    BY <1>1, <2>1, KnownList
  <2>3. Known(store') /\ Known(dump') /\ pc' \in {"off", "conf"}
    BY <1>1, <2>1, <2>2, KnownCall
  <2> QED
    BY <2>3 DEF IInv
<1>4. CASE ResaveInfo
  <2>1. Head(todo) \in Zone
    BY <1>4, HeadTailType DEF ResaveInfo, TypeOK
  <2>2. store' \in {store, WithInfo(Head(todo))} /\ dump' = dump /\ pc' = "append"
    BY <1>4 DEF ResaveInfo
  <2> QED
    BY <1>1, <2>1, <2>2, KnownInfo DEF IInv
<1>5. CASE AppendRR
  <2> DEFINE new == AppendedRR(Head(lines).name, Head(lines).rr)
  <2>1. Call("name", {new}) /\ Known(new)
    BY <1>1, <1>5, KnownRecords DEF AppendRR
  <2>2. Known(store') /\ Known(dump') /\ pc' \in {"off", "name"}
    BY <1>1, <2>1, KnownCall
  <2> QED
    BY <2>2 DEF IInv
<1>6. CASE ListName
  <2> DEFINE new == [store EXCEPT !.names[Head(todo)] = With(@, Head(lines).name)]
  <2>1. Call("append", {new}) /\ Known(new)
    BY <1>1, <1>6, KnownRecords DEF ListName
  <2>2. Known(store') /\ Known(dump') /\ pc' \in {"off", "append"}
    BY <1>1, <2>1, KnownCall
  <2> QED
    BY <2>2 DEF IInv
<1>7. CASE Start
  BY <1>1, <1>7, KnownEmpty DEF Start, IInv
<1>8. CASE ConfEnds \/ ReadList \/ OpenZone \/ ZonesEnd \/ FileEnds \/ Fails \/ Serve
  <2>1. pc' # "list" /\ store' = store /\ dump' = dump
    BY <1>8 DEF ConfEnds, ReadList, OpenZone, ZonesEnd, FileEnds, Fails, Serve,
                Exit, parser, redis
  <2> QED
    BY <1>1, <2>1 DEF IInv
<1>9. CASE Dies \/ RedisDies \/ Dump \/ Edit \/ UNCHANGED vars
  BY <1>1, <1>9 DEF Dies, RedisDies, Dump, Edit, vars, parser, redis, IInv
<1> QED
  BY <1>2, <1>3, <1>4, <1>5, <1>6, <1>7, <1>8, <1>9 DEF Next, Step

\* Wherever a load is broken off, and whichever call has or has not had its effect
\* then, no zone is listed without its ZONE_INFO, in redis or in its dump.
THEOREM ListedZonesAreKnown == Spec => []ListedZonesHaveInfo
<1>1. Init => IInv
  BY KnownEmpty DEF Init, IInv
<1>2. TypeOK /\ IInv => ListedZonesHaveInfo
  BY DEF IInv, Known, ListedZonesHaveInfo
<1> QED
  BY <1>1, <1>2, TypeCorrect, KnownStep, PTL DEF Spec
-----------------------------------------------------------------------------
(* What a load leaves in redis.  The sequences of the store are taken for   *)
(* the sets of their elements.                                              *)

LEMMA SetOfWith ==
    ASSUME NEW S, NEW list \in Seq(S), NEW e \in S
    PROVE  ToSet(With(list, e)) = ToSet(list) \union {e}
<1>1. CASE e \in ToSet(list)
  BY <1>1 DEF With
<1>2. CASE e \notin ToSet(list)
  <2>1. With(list, e) = Append(list, e) /\ DOMAIN Append(list, e) = 1 .. Len(list) + 1
    BY <1>2 DEF With
  <2>2. DOMAIN list = 1 .. Len(list) /\ Len(list) \in Nat
    OBVIOUS
  <2>3. \A k \in 1 .. Len(list) : Append(list, e)[k] = list[k]
    OBVIOUS
  <2>4. Append(list, e)[Len(list) + 1] = e
    OBVIOUS
  <2> QED
    BY <2>1, <2>2, <2>3, <2>4 DEF ToSet
<1> QED
  BY <1>1, <1>2

LEMMA SetOfAppend ==
    ASSUME NEW S, NEW list \in Seq(S), NEW e \in S
    PROVE  ToSet(list) \subseteq ToSet(Append(list, e)) /\ e \in ToSet(Append(list, e))
<1>1. DOMAIN Append(list, e) = 1 .. Len(list) + 1 /\ DOMAIN list = 1 .. Len(list)
  OBVIOUS
<1>2. \A k \in 1 .. Len(list) : Append(list, e)[k] = list[k]
  OBVIOUS
<1>3. Append(list, e)[Len(list) + 1] = e /\ Len(list) \in Nat
  OBVIOUS
<1> QED
  BY <1>1, <1>2, <1>3 DEF ToSet

LEMMA SetOfTail ==
    ASSUME NEW S, NEW s \in Seq(S), s # <<>>
    PROVE  ToSet(s) = {Head(s)} \union ToSet(Tail(s))
<1>1. DOMAIN s = 1 .. Len(s) /\ Len(s) \in Nat \ {0} /\ Head(s) = s[1]
  OBVIOUS
<1>2. DOMAIN Tail(s) = 1 .. Len(s) - 1 /\ \A k \in 1 .. Len(s) - 1 : Tail(s)[k] = s[k + 1]
  OBVIOUS
<1>3. \A k \in 1 .. Len(s) : k = 1 \/ (k - 1 \in 1 .. Len(s) - 1 /\ Tail(s)[k - 1] = s[k])
  BY <1>1, <1>2
<1>4. \A k \in 1 .. Len(s) - 1 : k + 1 \in 1 .. Len(s)
  BY <1>1
<1>5. ASSUME NEW x \in ToSet(s) PROVE x \in {Head(s)} \union ToSet(Tail(s))
  <2>1. PICK k \in 1 .. Len(s) : x = s[k]
    BY <1>1, <1>5 DEF ToSet
  <2> QED
    BY <2>1, <1>1, <1>2, <1>3 DEF ToSet
<1>6. ASSUME NEW x \in ToSet(Tail(s)) PROVE x \in ToSet(s)
  <2>1. PICK k \in 1 .. Len(s) - 1 : x = Tail(s)[k]
    BY <1>2, <1>6 DEF ToSet
  <2> QED
    BY <2>1, <1>1, <1>2, <1>4 DEF ToSet
<1>7. Head(s) \in ToSet(s)
  BY <1>1 DEF ToSet
<1> QED
  BY <1>5, <1>6, <1>7

LEMMA SetOfSeq ==
    ASSUME NEW S, NEW s \in Seq(S)
    PROVE  ToSet(s) \subseteq S /\ (s = <<>> => ToSet(s) = {})
BY DEF ToSet

\* A line of a zone that the store has, a zone that it has in full, and a store that
\* has everything another one has
Kept(s, z, l) ==
    /\ l.name \in ToSet(s.names[z])
    /\ l.name \in Host => l.rr \in ToSet(s.records[l.name])
Done(s, z) == \A l \in ToSet(config.file[z]) : Kept(s, z, l)
Grows(s, t) ==
    /\ \A z \in Zone : ToSet(s.names[z]) \subseteq ToSet(t.names[z])
    /\ \A n \in Host : ToSet(s.records[n]) \subseteq ToSet(t.records[n])
    /\ ToSet(s.list) \subseteq ToSet(t.list)

LEMMA GrowsKept ==
    ASSUME NEW s, NEW t, Grows(s, t), NEW z \in Zone
    PROVE  \A l : Kept(s, z, l) => Kept(t, z, l)
BY DEF Grows, Kept

LEMMA GrowsDone ==
    ASSUME NEW s, NEW t, Grows(s, t), NEW z \in Zone, Done(s, z)
    PROVE  Done(t, z)
BY GrowsKept DEF Done

\* Each write adds to the store, where host names are concerned.
LEMMA InfoGrows ==
    ASSUME store \in Store, NEW z \in Zone
    PROVE  /\ Grows(store, WithInfo(z))
           /\ WithInfo(z).list = store.list
           /\ \A n \in Host : WithInfo(z).records[n] = store.records[n]
<1>1. \A n \in Host : n # z /\ n \in Name
  BY NameAssumption DEF Name
<1> QED
  BY <1>1 DEF WithInfo, Store, Grows

LEMMA ListGrows ==
    ASSUME store \in Store, NEW z \in Zone
    PROVE  LET new == [store EXCEPT !.list = With(@, z)]
           IN  /\ Grows(store, new)
               /\ ToSet(new.list) = ToSet(store.list) \union {z}
               /\ new.records = store.records
<1> DEFINE new == [store EXCEPT !.list = With(@, z)]
<1>1. /\ new.list = With(store.list, z) /\ new.records = store.records
      /\ new.names = store.names /\ store.list \in Seq(Zone)
  BY DEF Store
<1>2. ToSet(With(store.list, z)) = ToSet(store.list) \union {z}
  BY <1>1, SetOfWith
<1> QED
  BY <1>1, <1>2 DEF Grows

LEMMA RecordGrows ==
    ASSUME store \in Store, NEW n \in Name, NEW rr \in RR
    PROVE  /\ Grows(store, AppendedRR(n, rr))
           /\ rr \in ToSet(AppendedRR(n, rr).records[n])
           /\ AppendedRR(n, rr).list = store.list
<1> DEFINE new == AppendedRR(n, rr)
<1>1. store.records[n] \in Seq(RR)
  BY DEF Store
<1>2. /\ new.list = store.list /\ new.names = store.names
      /\ new.records[n] \in {Append(store.records[n], rr), With(store.records[n], rr)}
      /\ \A m \in Name \ {n} : new.records[m] = store.records[m]
  BY DEF AppendedRR, Store
<1>3. ToSet(store.records[n]) \subseteq ToSet(new.records[n]) /\ rr \in ToSet(new.records[n])
  <2>1. ToSet(With(store.records[n], rr)) = ToSet(store.records[n]) \union {rr}
    BY <1>1, SetOfWith
  <2>2. /\ ToSet(store.records[n]) \subseteq ToSet(Append(store.records[n], rr))
        /\ rr \in ToSet(Append(store.records[n], rr))
    BY <1>1, SetOfAppend
  <2> HIDE DEF new
  <2> QED
    BY <1>2, <2>1, <2>2
<1> QED
  BY <1>2, <1>3 DEF Grows, Name

LEMMA NamesGrow ==
    ASSUME store \in Store, NEW z \in Zone, NEW n \in Name
    PROVE  LET new == [store EXCEPT !.names[z] = With(@, n)]
           IN  /\ Grows(store, new)
               /\ n \in ToSet(new.names[z])
               /\ new.list = store.list
               /\ new.records = store.records
<1> DEFINE new == [store EXCEPT !.names[z] = With(@, n)]
<1>1. /\ new.list = store.list /\ new.records = store.records
      /\ new.names[z] = With(store.names[z], n) /\ store.names[z] \in Seq(Name)
      /\ \A y \in Zone \ {z} : new.names[y] = store.names[y]
  BY DEF Store
<1>2. ToSet(new.names[z]) = ToSet(store.names[z]) \union {n}
  BY <1>1, SetOfWith
<1> QED
  BY <1>1, <1>2 DEF Grows
-----------------------------------------------------------------------------
\* The invariant.  Zones of master.conf are listed once they have been saved; listed
\* zones are stored in full unless they are still to be parsed; of the zone that is
\* being parsed the lines read so far are stored; and in a `full' redis all that is
\* listed is stored, so that nothing is left to add.
ConfListed == \A k \in DOMAIN config.conf : config.conf[k] \in ToSet(store.list)
AllDone == \A z \in ToSet(store.list) : Done(store, z)
Listing ==
    pc \in {"conf", "list"} =>
        \A k \in DOMAIN config.conf : k < i => config.conf[k] \in ToSet(store.list)
Listed ==
    pc \in {"zones", "zone", "soa", "append", "name", "loaded", "serve"} => ConfListed
Parsing ==
    pc \in {"zone", "soa", "append", "name"} =>
        /\ ToSet(todo) \subseteq ToSet(store.list)
        /\ \A z \in ToSet(store.list) : z \in ToSet(todo) \/ Done(store, z)
Reading ==
    pc \in {"soa", "append", "name"} =>
        /\ ToSet(lines) \subseteq ToSet(config.file[Head(todo)])
        /\ \A l \in ToSet(config.file[Head(todo)]) :
              l \in ToSet(lines) \/ Kept(store, Head(todo), l)
Saved ==
    pc = "name" =>
        (Head(lines).name \in Host => Head(lines).rr \in ToSet(store.records[Head(lines).name]))
Parsed == pc \in {"loaded", "serve"} /\ ~skipped => AllDone
Full == full => AllDone /\ ConfListed

FilesInv == Listing /\ Listed /\ Parsing /\ Reading /\ Saved /\ Parsed /\ Full

\* A step that writes nothing to the list and keeps master.conf keeps what is said of
\* listed zones, since the store only grows.
LEMMA GrowsAll ==
    ASSUME TypeOK, FilesInv, store' \in Store, Grows(store, store'),
           store'.list = store.list, config' = config, i' = i
    PROVE  /\ ConfListed => ConfListed'
           /\ AllDone => AllDone'
           /\ \A k \in DOMAIN config.conf :
                 config.conf[k] \in ToSet(store.list) => config'.conf[k] \in ToSet(store'.list)
           /\ \A z \in ToSet(store.list) : Done(store, z) => Done(store, z)'
           /\ Full /\ full' = full => Full'
<1>1. \A z \in ToSet(store.list) : z \in Zone
  BY SetOfSeq DEF TypeOK, Store
<1>2. \A z \in Zone : Done(store, z) => Done(store, z)'
  <2> TAKE z \in Zone
  <2> HAVE Done(store, z)
  <2>1. \A l : Kept(store, z, l) => Kept(store', z, l)
    BY GrowsKept
  <2> QED
    BY <2>1 DEF Done, Kept
<1> QED
  BY <1>1, <1>2 DEF ConfListed, AllDone, Full

\* A call either leaves everything as it was and ends the master, or has its effect.
LEMMA CallEffect ==
    ASSUME NEW next, NEW s, Call(next, {s})
    PROVE  /\ store' \in {store, s}
           /\ pc' = "off" \/ (pc' = next /\ store' = s)
BY DEF Call, Exit

LEMMA SaveInfoFiles == TypeOK /\ FilesInv /\ SaveInfo => FilesInv'
<1> SUFFICES ASSUME TypeOK, FilesInv, SaveInfo PROVE FilesInv'
  OBVIOUS
<1> DEFINE new == WithInfo(config.conf[i])
<1>1. config.conf[i] \in Zone /\ store \in Store
  BY ConfigType DEF SaveInfo, TypeOK
<1>2. new \in Store /\ Grows(store, new) /\ new.list = store.list
  BY <1>1, InfoStore, InfoGrows
<1>3. store' \in {store, new} /\ pc' \in {"off", "list"} /\ pc = "conf"
  BY CallEffect DEF SaveInfo
<1>4. UNCHANGED <<config, i, full>>
  BY DEF SaveInfo, parser
<1>5. store' \in Store /\ Grows(store, store') /\ store'.list = store.list
  BY <1>1, <1>2, <1>3 DEF Grows
<1>6. Full'
  BY <1>4, <1>5, GrowsAll DEF FilesInv
<1>7. Listing'
  BY <1>3, <1>4, <1>5 DEF Listing, FilesInv
<1> QED
  BY <1>3, <1>6, <1>7 DEF FilesInv, Listed, Parsing, Reading, Saved, Parsed

LEMMA AppendZoneFiles == TypeOK /\ FilesInv /\ AppendZone => FilesInv'
<1> SUFFICES ASSUME TypeOK, FilesInv, AppendZone PROVE FilesInv'
  OBVIOUS
<1> DEFINE z == config.conf[i]
<1> DEFINE new == [store EXCEPT !.list = With(@, z)]
<1>1. i \in 1 .. Len(config.conf) /\ pc = "list"
  BY ConfigType DEF AppendZone, TypeOK
<1>2. z \in Zone /\ store \in Store /\ i \in DOMAIN config.conf
  BY <1>1, ConfigType DEF TypeOK
<1>3. /\ Grows(store, new) /\ ToSet(new.list) = ToSet(store.list) \union {z}
      /\ new.records = store.records /\ new.names = store.names
  BY <1>2, ListGrows DEF Store
<1>4. store' \in {store, new} /\ (pc' = "off" \/ (pc' = "conf" /\ store' = new))
  BY CallEffect DEF AppendZone
<1>5. UNCHANGED <<config, full>> /\ i' = IF pc' = "conf" THEN i + 1 ELSE i
  BY DEF AppendZone
<1> HIDE DEF new
<1>6. Listing'
  <2> SUFFICES ASSUME pc' = "conf", NEW k \in DOMAIN config.conf, k < i + 1
               PROVE  config.conf[k] \in ToSet(store'.list)
    BY <1>4, <1>5 DEF Listing
  <2>1. store' = new /\ k \in 1 .. Len(config.conf)
    BY <1>4, ConfigType
  <2>2. CASE k = i
    BY <2>1, <2>2, <1>3
  <2>3. CASE k < i
    BY <2>1, <2>3, <1>1, <1>3 DEF FilesInv, Listing
  <2> QED
    BY <2>1, <2>2, <2>3, <1>1
<1>7. Full'
  <2> SUFFICES ASSUME full PROVE (AllDone /\ ConfListed)'
    BY <1>5 DEF Full
  <2>1. AllDone /\ ConfListed
    BY <1>5 DEF FilesInv, Full
  <2>2. ToSet(store'.list) = ToSet(store.list)
    BY <2>1, <1>2, <1>3, <1>4 DEF ConfListed
  <2>3. store'.records = store.records /\ store'.names = store.names
    BY <1>3, <1>4
  <2> QED
    BY <2>1, <2>2, <2>3, <1>5 DEF AllDone, ConfListed, Done, Kept
<1> QED
  BY <1>4, <1>6, <1>7 DEF FilesInv, Listed, Parsing, Reading, Saved, Parsed

LEMMA ReadListFiles == TypeOK /\ FilesInv /\ ReadList => FilesInv'
<1> SUFFICES ASSUME TypeOK, FilesInv, ReadList PROVE FilesInv'
  OBVIOUS
<1>1. UNCHANGED <<store, config, full>> /\ pc = "zones"
  BY DEF ReadList, redis, Exit
<1>2. \/ todo' = store.list /\ pc' = "zone"
      \/ skipped' = TRUE /\ pc' = "loaded"
      \/ pc' = "off"
  BY DEF ReadList, Exit
<1>3. ConfListed' /\ Full'
  BY <1>1 DEF FilesInv, Listed, ConfListed, Full, AllDone, Done
<1> QED
  BY <1>1, <1>2, <1>3 DEF FilesInv, Listing, Listed, Parsing, Reading, Saved, Parsed

LEMMA OpenZoneFiles == TypeOK /\ FilesInv /\ OpenZone => FilesInv'
<1> SUFFICES ASSUME TypeOK, FilesInv, OpenZone PROVE FilesInv'
  OBVIOUS
<1>1. UNCHANGED <<store, config, full, todo>> /\ pc = "zone"
  BY DEF OpenZone, redis, Exit
<1>2. (pc' = "soa" /\ lines' = config.file[Head(todo)]) \/ pc' = "off"
  BY DEF OpenZone, Exit
<1>3. ConfListed' /\ Full'
  BY <1>1 DEF FilesInv, Listed, ConfListed, Full, AllDone, Done
<1>4. Parsing'
  BY <1>1, <1>2 DEF FilesInv, Parsing, Done
<1> QED
  BY <1>1, <1>2, <1>3, <1>4 DEF FilesInv, Listing, Listed, Reading, Saved, Parsed

LEMMA ResaveInfoFiles == TypeOK /\ FilesInv /\ ResaveInfo => FilesInv'
<1> SUFFICES ASSUME TypeOK, FilesInv, ResaveInfo PROVE FilesInv'
  OBVIOUS
<1> DEFINE new == WithInfo(Head(todo))
<1>1. pc = "soa" /\ pc' = "append" /\ UNCHANGED <<config, i, todo, lines, full, skipped>>
  BY DEF ResaveInfo, parser
<1>2. Head(todo) \in Zone /\ store \in Store
  BY <1>1, HeadTailType DEF TypeOK
<1>3. new \in Store /\ Grows(store, new) /\ new.list = store.list
  BY <1>2, InfoStore, InfoGrows
<1>4. store' \in {store, new}
  BY DEF ResaveInfo
<1> HIDE DEF new
<1>5. store' \in Store /\ Grows(store, store') /\ store'.list = store.list
  BY <1>2, <1>3, <1>4 DEF Grows
<1>6. /\ ConfListed' /\ Full'
      /\ \A z \in ToSet(store.list) : Done(store, z) => Done(store, z)'
  BY <1>1, <1>5, GrowsAll DEF FilesInv, Listed
<1>7. Parsing'
  BY <1>1, <1>5, <1>6 DEF FilesInv, Parsing
<1>8. \A l : Kept(store, Head(todo), l) => Kept(store', Head(todo), l)
  BY <1>2, <1>5, GrowsKept
<1>9. Reading'
  BY <1>1, <1>8 DEF FilesInv, Reading
<1> QED
  BY <1>1, <1>6, <1>7, <1>9 DEF FilesInv, Listing, Listed, Saved, Parsed

LEMMA AppendRRFiles == TypeOK /\ FilesInv /\ AppendRR => FilesInv'
<1> SUFFICES ASSUME TypeOK, FilesInv, AppendRR PROVE FilesInv'
  OBVIOUS
<1> DEFINE line == Head(lines)
<1> DEFINE new == AppendedRR(line.name, line.rr)
<1>1. pc = "append" /\ lines # <<>> /\ UNCHANGED <<config, i, todo, lines, full, skipped>>
  BY DEF AppendRR, parser
<1>2. /\ Head(todo) \in Zone /\ store \in Store
      /\ line.name \in Name /\ line.rr \in RR
  <2>1. todo \in Seq(Zone) /\ todo # <<>> /\ lines \in Seq(Line) /\ store \in Store
    BY <1>1 DEF TypeOK
  <2>2. Head(todo) \in Zone /\ line \in Line
    BY <2>1, <1>1, HeadTailType
  <2> QED
    BY <2>1, <2>2 DEF Line
<1>3. /\ new \in Store /\ Grows(store, new) /\ new.list = store.list
      /\ line.rr \in ToSet(new.records[line.name])
  BY <1>2, RecordStore, RecordGrows
<1>4. store' \in {store, new} /\ (pc' = "off" \/ (pc' = "name" /\ store' = new))
  BY CallEffect DEF AppendRR
<1> HIDE DEF new
<1>5. store' \in Store /\ Grows(store, store') /\ store'.list = store.list
  BY <1>2, <1>3, <1>4 DEF Grows
<1>6. /\ ConfListed' /\ Full'
      /\ \A z \in ToSet(store.list) : Done(store, z) => Done(store, z)'
  BY <1>1, <1>5, GrowsAll DEF FilesInv, Listed
<1>7. Parsing'
  BY <1>1, <1>4, <1>5, <1>6 DEF FilesInv, Parsing
<1>8. \A l : Kept(store, Head(todo), l) => Kept(store', Head(todo), l)
  BY <1>2, <1>5, GrowsKept
<1>9. Reading'
  BY <1>1, <1>4, <1>8 DEF FilesInv, Reading
<1>10. Saved'
  BY <1>1, <1>3, <1>4 DEF Saved
<1> QED
  BY <1>1, <1>4, <1>6, <1>7, <1>9, <1>10 DEF FilesInv, Listing, Listed, Parsed

LEMMA ListNameFiles == TypeOK /\ FilesInv /\ ListName => FilesInv'
<1> SUFFICES ASSUME TypeOK, FilesInv, ListName PROVE FilesInv'
  OBVIOUS
<1> DEFINE line == Head(lines)
<1> DEFINE z == Head(todo)
<1> DEFINE new == [store EXCEPT !.names[z] = With(@, line.name)]
<1>1. pc = "name" /\ lines # <<>> /\ UNCHANGED <<config, i, todo, full, skipped>>
  BY DEF ListName, TypeOK
<1>2. /\ z \in Zone /\ store \in Store
      /\ line.name \in Name /\ line.rr \in RR
  <2>1. todo \in Seq(Zone) /\ todo # <<>> /\ lines \in Seq(Line) /\ store \in Store
    BY <1>1 DEF TypeOK
  <2>2. Head(todo) \in Zone /\ line \in Line
    BY <2>1, <1>1, HeadTailType
  <2> QED
    BY <2>1, <2>2 DEF Line
<1>3. /\ new \in Store /\ Grows(store, new) /\ new.list = store.list
      /\ line.name \in ToSet(new.names[z]) /\ new.records = store.records
  BY <1>2, NamesStore, NamesGrow
<1>4. store' \in {store, new} /\ (pc' = "off" \/ (pc' = "append" /\ store' = new))
  BY CallEffect DEF ListName
<1>5. pc' = "append" => lines' = Tail(lines)
  BY DEF ListName
<1> HIDE DEF new
<1>6. store' \in Store /\ Grows(store, store') /\ store'.list = store.list
  BY <1>2, <1>3, <1>4 DEF Grows
<1>7. /\ ConfListed' /\ Full'
      /\ \A y \in ToSet(store.list) : Done(store, y) => Done(store, y)'
  BY <1>1, <1>6, GrowsAll DEF FilesInv, Listed
<1>8. Parsing'
  BY <1>1, <1>4, <1>6, <1>7 DEF FilesInv, Parsing
<1>9. \A l : Kept(store, z, l) => Kept(store', z, l)
  BY <1>2, <1>6, GrowsKept
<1>10. ToSet(lines) = {line} \union ToSet(Tail(lines))
  BY <1>1, SetOfTail DEF TypeOK
<1>11. pc' = "append" => Kept(store', z, line)
  <2>1. line.name \in Host => line.rr \in ToSet(store.records[line.name])
    BY <1>1 DEF FilesInv, Saved
  <2> QED
    BY <2>1, <1>3, <1>4 DEF Kept
<1>12. Reading'
  <2> SUFFICES ASSUME pc' = "append"
               PROVE  /\ ToSet(lines') \subseteq ToSet(config.file[z])
                      /\ \A l \in ToSet(config.file[z]) :
                            l \in ToSet(lines') \/ Kept(store', z, l)
    BY <1>1, <1>4 DEF Reading
  <2>1. /\ ToSet(lines) \subseteq ToSet(config.file[z])
        /\ \A l \in ToSet(config.file[z]) : l \in ToSet(lines) \/ Kept(store, z, l)
    BY <1>1 DEF FilesInv, Reading
  <2> QED
    BY <2>1, <1>5, <1>9, <1>10, <1>11
<1> QED
  BY <1>1, <1>4, <1>7, <1>8, <1>12 DEF FilesInv, Listing, Listed, Parsed, Saved

LEMMA FileEndsFiles == TypeOK /\ FilesInv /\ FileEnds => FilesInv'
<1> SUFFICES ASSUME TypeOK, FilesInv, FileEnds PROVE FilesInv'
  OBVIOUS
<1>1. /\ pc = "append" /\ pc' = "zone" /\ lines = <<>> /\ todo' = Tail(todo)
      /\ UNCHANGED <<config, i, store, full, skipped>>
  BY DEF FileEnds, redis
<1>2. ToSet(todo) = {Head(todo)} \union ToSet(todo')
  BY <1>1, SetOfTail DEF TypeOK
<1>3. Done(store, Head(todo))
  BY <1>1, SetOfSeq DEF TypeOK, FilesInv, Reading, Done
<1>4. Parsing'
  BY <1>1, <1>2, <1>3 DEF FilesInv, Parsing, Done
<1>5. ConfListed' /\ Full'
  BY <1>1 DEF FilesInv, Listed, ConfListed, Full, AllDone, Done
<1> QED
  BY <1>1, <1>4, <1>5 DEF FilesInv, Listing, Listed, Reading, Saved, Parsed

LEMMA ZonesEndFiles == TypeOK /\ FilesInv /\ ZonesEnd => FilesInv'
<1> SUFFICES ASSUME TypeOK, FilesInv, ZonesEnd PROVE FilesInv'
  OBVIOUS
<1>1. pc = "zone" /\ pc' = "loaded" /\ todo = <<>> /\ UNCHANGED <<config, i, store, full>>
  BY DEF ZonesEnd, redis, parser
<1>2. ToSet(todo) = {}
  BY <1>1, SetOfSeq DEF TypeOK
<1>3. AllDone'
  BY <1>1, <1>2 DEF FilesInv, Parsing, AllDone, Done
<1>4. ConfListed' /\ Full'
  BY <1>1 DEF FilesInv, Listed, ConfListed, Full, AllDone, Done
<1> QED
  BY <1>1, <1>3, <1>4 DEF FilesInv, Listing, Listed, Parsing, Reading, Saved, Parsed

LEMMA ConfEndsFiles == TypeOK /\ FilesInv /\ ConfEnds => FilesInv'
<1> SUFFICES ASSUME TypeOK, FilesInv, ConfEnds PROVE FilesInv'
  OBVIOUS
<1>1. /\ pc = "conf" /\ pc' = "zones" /\ i > Len(config.conf)
      /\ UNCHANGED <<config, i, store, full>>
  BY DEF ConfEnds, redis, parser
<1>2. \A k \in DOMAIN config.conf : k < i
  BY <1>1, ConfigType DEF TypeOK
<1>3. ConfListed'
  BY <1>1, <1>2 DEF FilesInv, Listing, ConfListed
<1>4. Full'
  BY <1>1 DEF FilesInv, Full, AllDone, ConfListed, Done
<1> QED
  BY <1>1, <1>3, <1>4 DEF FilesInv, Listing, Listed, Parsing, Reading, Saved, Parsed

LEMMA ServeFiles == TypeOK /\ FilesInv /\ Serve => FilesInv'
<1> SUFFICES ASSUME TypeOK, FilesInv, Serve PROVE FilesInv'
  OBVIOUS
<1>1. /\ pc = "loaded" /\ pc' = "serve" /\ UNCHANGED <<config, i, store, skipped>>
      /\ full' = (full \/ (up /\ ~skipped))
  BY DEF Serve, parser
<1>2. ConfListed /\ (~skipped => AllDone)
  BY <1>1 DEF FilesInv, Listed, Parsed
<1>3. ConfListed' /\ (AllDone => AllDone')
  BY <1>1, <1>2 DEF ConfListed, AllDone, Done
<1>4. Full'
  BY <1>1, <1>2, <1>3 DEF FilesInv, Full
<1>5. Parsed'
  BY <1>1, <1>2, <1>3 DEF Parsed
<1> QED
  BY <1>1, <1>3, <1>4, <1>5 DEF FilesInv, Listing, Listed, Parsing, Reading, Saved

\* A start finds redis as it was, or another one; other files begin with no claim.
LEMMA OtherFiles ==
    ASSUME TypeOK, FilesInv, Start \/ Edit \/ Fails \/ Dies \/ RedisDies \/ Dump \/ UNCHANGED vars
    PROVE  FilesInv'
<1>1. CASE Start
  <2>1. /\ pc' = "conf" /\ i' = 1 /\ UNCHANGED config
        /\ (UNCHANGED <<store, full>> \/ full' = FALSE)
    BY <1>1 DEF Start
  <2>2. \A k \in DOMAIN config.conf : ~(k < 1)
    BY ConfigType
  <2>3. Full'
    BY <2>1 DEF FilesInv, Full, AllDone, ConfListed, Done
  <2> QED
    BY <2>1, <2>2, <2>3 DEF FilesInv, Listing, Listed, Parsing, Reading, Saved, Parsed
<1>2. CASE Edit
  <2>1. pc' = "off" /\ full' = FALSE
    BY <1>2 DEF Edit
  <2> QED
    BY <2>1 DEF FilesInv, Listing, Listed, Parsing, Reading, Saved, Parsed, Full
<1>3. CASE Fails \/ Dies
  <2>1. pc' = "off" /\ UNCHANGED <<store, config, full>>
    BY <1>3 DEF Fails, Dies, Exit
  <2>2. Full'
    BY <2>1 DEF FilesInv, Full, AllDone, ConfListed, Done
  <2> QED
    BY <2>1, <2>2 DEF FilesInv, Listing, Listed, Parsing, Reading, Saved, Parsed
<1>4. CASE RedisDies \/ Dump \/ UNCHANGED vars
  <2>1. UNCHANGED <<pc, i, todo, lines, skipped, store, config>> /\ full' \in {full, FALSE}
    BY <1>4 DEF RedisDies, Dump, vars, parser, redis
  <2>2. (ConfListed => ConfListed') /\ (AllDone => AllDone')
    BY <2>1 DEF AllDone, ConfListed, Done
  <2>3. Listing' /\ Listed' /\ Parsed'
    <3>1. Listing'
      BY <2>1 DEF FilesInv, Listing
    <3>2. Listed' /\ Parsed'
      BY <2>1, <2>2 DEF FilesInv, Listed, Parsed
    <3> QED
      BY <3>1, <3>2
  <2>5. Full'
    BY <2>1, <2>2 DEF FilesInv, Full, TypeOK
  <2>4. Parsing' /\ Reading' /\ Saved'
    BY <2>1 DEF FilesInv, Parsing, Reading, Saved, Done
  <2> QED
    BY <2>3, <2>4, <2>5 DEF FilesInv
<1> QED
  BY <1>1, <1>2, <1>3, <1>4

LEMMA FilesStep == TypeOK /\ FilesInv /\ [Next]_vars => FilesInv'
<1> SUFFICES ASSUME TypeOK, FilesInv, [Next]_vars PROVE FilesInv'
  OBVIOUS
<1>1. CASE Step
  BY <1>1, SaveInfoFiles, AppendZoneFiles, ConfEndsFiles, ReadListFiles, OpenZoneFiles,
     ZonesEndFiles, ResaveInfoFiles, AppendRRFiles, ListNameFiles, FileEndsFiles, OtherFiles,
     ServeFiles DEF Step
<1> QED
  BY <1>1, OtherFiles DEF Next

LEMMA FilesInit == Init => FilesInv
BY DEF Init, FilesInv, Listing, Listed, Parsing, Reading, Saved, Parsed, Full

\* For all files: a server that serves, over whatever earlier loads, crashes and dumps
\* have left in redis, lacks no record of its files and no name of its zones.
THEOREM NothingIsLeftOut == Spec => []NothingIsMissing
<1>1. TypeOK /\ FilesInv => NothingIsMissing
  <2> SUFFICES ASSUME TypeOK, FilesInv, Loaded, NEW k \in DOMAIN config.conf
               PROVE  \A l \in ToSet(config.file[config.conf[k]]) :
                         Kept(store, config.conf[k], l)
    BY DEF NothingIsMissing, Kept
  <2>1. ConfListed /\ AllDone
    BY DEF FilesInv, Loaded, Listed, Parsed
  <2> QED
    BY <2>1 DEF ConfListed, AllDone, Done
<1> QED
  BY <1>1, FilesInit, FilesStep, TypeCorrect, PTL DEF Spec

\* In a full redis no step of any later load of the same files changes what a host
\* name has: the records are recognised, the ZONE_INFOs lie elsewhere.
LEMMA FullStep ==
    ASSUME TypeOK, FilesInv, [Next]_vars, full, full', NEW n \in Host
    PROVE  store'.records[n] = store.records[n]
<1>1. AllDone /\ ConfListed /\ store \in Store /\ n \in Name /\ n \notin Zone
  BY NameAssumption DEF FilesInv, Full, TypeOK, Name
<1>2. CASE SaveInfo
  <2>1. config.conf[i] \in Zone
    BY <1>2, ConfigType DEF SaveInfo, TypeOK
  <2>2. store' \in {store, WithInfo(config.conf[i])}
    BY <1>2, CallEffect DEF SaveInfo
  <2> QED
    BY <1>1, <2>1, <2>2, InfoGrows
<1>3. CASE AppendZone
  <2>1. store' \in {store, [store EXCEPT !.list = With(@, config.conf[i])]}
    BY <1>3, CallEffect DEF AppendZone
  <2> QED
    BY <1>1, <2>1 DEF Store
<1>4. CASE ResaveInfo
  <2>1. Head(todo) \in Zone
    BY <1>4, HeadTailType DEF ResaveInfo, TypeOK
  <2>2. store' \in {store, WithInfo(Head(todo))}
    BY <1>4 DEF ResaveInfo
  <2> QED
    BY <1>1, <2>1, <2>2, InfoGrows
<1>5. CASE AppendRR
  <2> DEFINE line == Head(lines)
  <2>1. store' \in {store, AppendedRR(line.name, line.rr)} /\ pc = "append" /\ lines # <<>>
    BY <1>5, CallEffect DEF AppendRR
  <2>2. CASE line.name = n
    <3>1. Head(todo) \in ToSet(store.list) /\ line \in ToSet(config.file[Head(todo)])
      <4>1. Head(todo) \in ToSet(todo) /\ line \in ToSet(lines)
        BY <2>1, SetOfTail DEF TypeOK
      <4> QED
        BY <4>1, <2>1 DEF FilesInv, Parsing, Reading
    <3>2. line.rr \in ToSet(store.records[n])
      BY <1>1, <2>2, <3>1 DEF AllDone, Done, Kept
    <3>3. n \notin store.info
      BY <1>1 DEF Store
    <3>4. With(store.records[n], line.rr) = store.records[n]
      BY <3>2 DEF With
    <3> QED
      BY <1>1, <2>1, <2>2, <3>3, <3>4 DEF AppendedRR, Store
  <2>3. CASE line.name # n
    BY <1>1, <2>1, <2>3 DEF AppendedRR, Store
  <2> QED
    BY <2>2, <2>3
<1>6. CASE ListName
  <2>1. store' \in {store, [store EXCEPT !.names[Head(todo)] = With(@, Head(lines).name)]}
    BY <1>6, CallEffect DEF ListName
  <2> QED
    BY <1>1, <2>1 DEF Store
<1>7. CASE Start
  BY <1>7 DEF Start
<1>8. CASE ConfEnds \/ ReadList \/ OpenZone \/ ZonesEnd \/ FileEnds \/ Fails \/ Serve
  BY <1>8 DEF ConfEnds, ReadList, OpenZone, ZonesEnd, FileEnds, Fails, Serve, Exit, parser,
              redis
<1>9. CASE Dies \/ RedisDies \/ Dump \/ Edit \/ UNCHANGED vars
  BY <1>9 DEF Dies, RedisDies, Dump, Edit, vars, parser, redis
<1> QED
  BY <1>2, <1>3, <1>4, <1>5, <1>6, <1>7, <1>8, <1>9 DEF Next, Step

\* `smartDNS -t' and a second server beside the one that serves disturb no answer,
\* however far they come.
THEOREM ReloadsAreHarmless == Spec => ReloadChangesNothing
<1>1. TypeOK /\ FilesInv /\ [Next]_vars =>
          [full /\ full' => \A n \in Host : store'.records[n] = store.records[n]]_vars
  BY FullStep
<1> QED
  BY <1>1, FilesInit, FilesStep, TypeCorrect, PTL DEF Spec, ReloadChangesNothing
-----------------------------------------------------------------------------
(* The order of what a load leaves in redis.                                *)

\* A sequence of some of the elements of E in the order R, none of them without
\* those that precede it
Ranked(s, E, R) ==
    /\ ToSet(s) \subseteq E
    /\ \A a, b \in DOMAIN s : a < b => <<s[a], s[b]>> \in R
    /\ \A e \in E : \A b \in DOMAIN s : <<e, s[b]>> \in R => e \in ToSet(s)

Total(E, R) == \A e, f \in E : e = f \/ <<e, f>> \in R \/ <<f, e>> \in R

\* s is the end of t.
Ends(s, t) ==
    /\ Len(s) <= Len(t)
    /\ \A x \in 1 .. Len(s) : s[x] = t[Len(t) - Len(s) + x]

\* The zones of master.conf, and the records that the files have for a name, in the
\* order in which they are first met
ConfZones == {config.conf[k] : k \in DOMAIN config.conf}
ConfOrder ==
    {p \in ConfZones \X ConfZones : \E k \in DOMAIN config.conf :
        /\ config.conf[k] = p[1]
        /\ \A j \in DOMAIN config.conf : config.conf[j] = p[2] => k < j}
FileRecords(n) == {rr \in RR : Places(n, rr) # {}}
FileOrder(n) == {p \in FileRecords(n) \X FileRecords(n) : MetBefore(n, p[1], p[2])}

Orderly(s) ==
    /\ Ranked(s.list, ConfZones, ConfOrder)
    /\ \A n \in Host : Ranked(s.records[n], FileRecords(n), FileOrder(n))

InList == pc \in {"zone", "soa", "append", "name"} => Ends(todo, store.list)
InFile ==
    pc \in {"soa", "append", "name"} =>
        LET file == config.file[Head(todo)]
        IN  /\ Ends(lines, file)
            /\ \A x \in 1 .. Len(file) - Len(lines) : Kept(store, Head(todo), file[x])

\* In a redis, and in its dump, to which no other files have been loaded, zones and
\* records are in order and without gaps; what is to be parsed is the end of the list
\* and of the file, and everything in front of it is stored.
OrderInv == ~stale => Orderly(store) /\ Orderly(dump) /\ InList /\ InFile

\* With() keeps a sequence in order when all that precedes the new element is in it.
LEMMA RankedWith ==
    ASSUME NEW S, NEW s \in Seq(S), NEW E \in SUBSET S, NEW R, NEW e \in E,
           Total(E, R), Ranked(s, E, R), \A d \in E : <<d, e>> \in R => d \in ToSet(s)
    PROVE  Ranked(With(s, e), E, R)
<1>1. CASE e \in ToSet(s)
  BY <1>1 DEF With
<1>2. CASE e \notin ToSet(s)
  <2> DEFINE t == Append(s, e)
  <2>1. With(s, e) = t
    BY <1>2 DEF With
  <2>2. /\ DOMAIN s = 1 .. Len(s) /\ Len(s) \in Nat /\ DOMAIN t = 1 .. Len(s) + 1
        /\ t[Len(s) + 1] = e /\ \A k \in 1 .. Len(s) : t[k] = s[k]
    OBVIOUS
  <2> HIDE DEF t
  <2>3. ToSet(t) = ToSet(s) \union {e}
    <3>1. e \in S
      OBVIOUS
    <3>2. ToSet(With(s, e)) = ToSet(s) \union {e}
      BY <3>1, SetOfWith
    <3> QED
      BY <2>1, <3>2
  <2>4. ASSUME NEW a \in DOMAIN t, NEW b \in DOMAIN t, a < b PROVE <<t[a], t[b]>> \in R
    <3>1. a \in 1 .. Len(s) /\ (b \in 1 .. Len(s) \/ b = Len(s) + 1)
      BY <2>2, <2>4
    <3>2. CASE b \in 1 .. Len(s)
      BY <2>2, <2>4, <3>1, <3>2 DEF Ranked
    <3>3. CASE b = Len(s) + 1
      <4>1. s[a] \in E /\ s[a] \in ToSet(s)
        BY <2>2, <3>1 DEF Ranked, ToSet
      <4>2. <<e, s[a]>> \notin R /\ s[a] # e
        BY <1>2, <2>2, <3>1, <4>1 DEF Ranked
      <4> QED
        BY <2>2, <3>1, <3>3, <4>1, <4>2 DEF Total
    <3> QED
      BY <3>1, <3>2, <3>3
  <2>5. ASSUME NEW d \in E, NEW b \in DOMAIN t, <<d, t[b]>> \in R PROVE d \in ToSet(s)
    <3>1. b \in 1 .. Len(s) \/ b = Len(s) + 1
      BY <2>2
    <3> QED
      BY <2>2, <2>5, <3>1 DEF Ranked
  <2>6. ToSet(t) \subseteq E
    BY <2>3 DEF Ranked
  <2> QED
    BY <2>1, <2>3, <2>4, <2>5, <2>6 DEF Ranked
<1> QED
  BY <1>1, <1>2

LEMMA RankedEmpty == ASSUME NEW E, NEW R PROVE Ranked(<<>>, E, R)
BY DEF Ranked, ToSet

LEMMA EndsTail ==
    ASSUME NEW S, NEW s \in Seq(S), NEW t \in Seq(S), Ends(s, t), s # <<>>
    PROVE  /\ Ends(Tail(s), t)
           /\ Len(t) - Len(Tail(s)) = Len(t) - Len(s) + 1
           /\ Len(t) - Len(s) + 1 \in 1 .. Len(t)
           /\ t[Len(t) - Len(s) + 1] = Head(s)
<1>1. /\ Len(s) \in Nat \ {0} /\ Len(t) \in Nat /\ Len(Tail(s)) = Len(s) - 1 /\ Head(s) = s[1]
      /\ \A k \in 1 .. Len(s) - 1 : Tail(s)[k] = s[k + 1]
  OBVIOUS
<1>2. Len(s) <= Len(t) /\ \A x \in 1 .. Len(s) : s[x] = t[Len(t) - Len(s) + x]
  BY DEF Ends
<1>3. ASSUME NEW x \in 1 .. Len(s) - 1 PROVE Tail(s)[x] = t[Len(t) - (Len(s) - 1) + x]
  <2>1. s[x + 1] = t[Len(t) - Len(s) + (x + 1)]
    BY <1>1, <1>2
  <2>2. Len(t) - Len(s) + (x + 1) = Len(t) - (Len(s) - 1) + x
    BY <1>1
  <2> QED
    BY <1>1, <2>1, <2>2
<1> QED
  BY <1>1, <1>2, <1>3 DEF Ends

LEMMA EndsSelf == ASSUME NEW S, NEW s \in Seq(S) PROVE Ends(s, s)
BY DEF Ends

\* Among places there is always a first one.
LEMMA PlaceType ==
    ASSUME TypeOK, NEW p \in Place
    PROVE  /\ p[1] \in 1 .. Len(config.conf) /\ config.conf[p[1]] \in Zone
           /\ p[2] \in 1 .. Len(config.file[config.conf[p[1]]]) /\ p = <<p[1], p[2]>>
<1>1. config.conf \in Seq(Zone) /\ config.file \in [Zone -> Seq(Line)]
  BY ConfigType
<1>2. PICK k \in DOMAIN config.conf : p \in {k} \X DOMAIN config.file[config.conf[k]]
  BY DEF Place
<1>3. config.conf[k] \in Zone /\ k \in 1 .. Len(config.conf)
  BY <1>1, <1>2
<1>4. config.file[config.conf[k]] \in Seq(Line)
  BY <1>1, <1>3
<1>5. DOMAIN config.file[config.conf[k]] = 1 .. Len(config.file[config.conf[k]])
  BY <1>4
<1>6. p[1] = k /\ p[2] \in DOMAIN config.file[config.conf[k]] /\ p = <<p[1], p[2]>>
  BY <1>2
<1> QED
  BY <1>3, <1>5, <1>6

LEMMA FirstPlace ==
    ASSUME TypeOK, NEW P \in SUBSET Place, P # {}
    PROVE  \E p \in P : \A q \in P : q = p \/ Before(p, q)
<1> DEFINE M == Len(config.conf)
           K == {p[1] : p \in P}
<1>1. M \in Nat /\ \A p \in P : p[1] \in 1 .. M
  BY PlaceType, ConfigType
<1>2. K \in SUBSET (0 .. M) /\ K # {}
  BY <1>1
<1>3. PICK k \in K : \A j \in K : k <= j
  BY <1>1, <1>2, Least
<1> DEFINE L == {p[2] : p \in {q \in P : q[1] = k}}
           N == Len(config.file[config.conf[k]])
<1>4. PICK r \in P : r[1] = k
  BY <1>3
<1>5. N \in Nat
  <2>1. config.conf[k] \in Zone
    BY <1>4, PlaceType
  <2>2. config.file[config.conf[k]] \in Seq(Line)
    BY <2>1, ConfigType
  <2> QED
    BY <2>2
<1>6. \A p \in P : p[1] = k => p[2] \in 1 .. N
  BY PlaceType
<1>7. L \in SUBSET (0 .. N) /\ L # {}
  BY <1>4, <1>5, <1>6
<1>8. PICK l \in L : \A j \in L : l <= j
  BY <1>5, <1>7, Least
<1>9. PICK p \in P : p[1] = k /\ p[2] = l
  BY <1>8
<1>10. ASSUME NEW q \in P PROVE q = p \/ Before(p, q)
  <2>1. k <= q[1] /\ (q[1] = k => l <= q[2])
    BY <1>3, <1>8
  <2>2. /\ q[1] \in 1 .. M /\ p[1] \in 1 .. M /\ q = <<q[1], q[2]>> /\ p = <<p[1], p[2]>>
        /\ q[2] \in Nat /\ p[2] \in Nat
    <3>1. \A x \in P : x \in Place
      OBVIOUS
    <3>2. \A x \in P : \A n \in 1 .. Len(config.file[config.conf[x[1]]]) : n \in Nat
      OBVIOUS
    <3> QED
      BY <3>1, <3>2, PlaceType
  <2>3. CASE q[1] = k /\ q[2] = l
    BY <1>9, <2>2, <2>3
  <2>4. CASE ~(q[1] = k /\ q[2] = l)
    BY <1>1, <1>9, <2>1, <2>2, <2>4 DEF Before
  <2> QED
    BY <2>3, <2>4
<1> QED
  BY <1>9, <1>10

LEMMA FirstZone ==
    ASSUME TypeOK, NEW z \in ConfZones
    PROVE  \E k \in 1 .. Len(config.conf) :
              /\ config.conf[k] = z
              /\ \A j \in 1 .. Len(config.conf) : config.conf[j] = z => k <= j
<1> DEFINE M == Len(config.conf)
           K == {k \in 1 .. M : config.conf[k] = z}
<1>1. M \in Nat /\ DOMAIN config.conf = 1 .. M
  BY ConfigType
<1>2. K \in SUBSET (0 .. M) /\ K # {}
  BY <1>1 DEF ConfZones
<1>3. PICK k \in K : \A j \in K : k <= j
  BY <1>1, <1>2, Least
<1> QED
  BY <1>3

LEMMA ConfTotal == TypeOK => Total(ConfZones, ConfOrder)
<1> SUFFICES ASSUME TypeOK, NEW e \in ConfZones, NEW f \in ConfZones
             PROVE  e = f \/ <<e, f>> \in ConfOrder \/ <<f, e>> \in ConfOrder
  BY DEF Total
<1> DEFINE M == Len(config.conf)
<1>1. M \in Nat /\ DOMAIN config.conf = 1 .. M
  BY ConfigType
<1>2. PICK k \in 1 .. M : /\ config.conf[k] = e
                          /\ \A j \in 1 .. M : config.conf[j] = e => k <= j
  BY FirstZone
<1>3. PICK l \in 1 .. M : /\ config.conf[l] = f
                          /\ \A j \in 1 .. M : config.conf[j] = f => l <= j
  BY FirstZone
<1>4. CASE k = l
  BY <1>2, <1>3, <1>4
<1>5. CASE k < l
  <2>1. \A j \in 1 .. M : config.conf[j] = f => k < j
    BY <1>3, <1>5
  <2> QED
    BY <2>1, <1>1, <1>2 DEF ConfOrder
<1>6. CASE l < k
  <2>1. \A j \in 1 .. M : config.conf[j] = e => l < j
    BY <1>2, <1>6
  <2> QED
    BY <2>1, <1>1, <1>3 DEF ConfOrder
<1> QED
  BY <1>4, <1>5, <1>6

\* No zone precedes one that precedes it, or itself.
LEMMA ConfStrict ==
    ASSUME TypeOK, NEW e, NEW f, <<e, f>> \in ConfOrder
    PROVE  <<f, e>> \notin ConfOrder /\ e # f
<1>1. DOMAIN config.conf = 1 .. Len(config.conf)
  BY ConfigType
<1>2. PICK k \in 1 .. Len(config.conf) :
         config.conf[k] = e /\ \A j \in 1 .. Len(config.conf) : config.conf[j] = f => k < j
  BY <1>1 DEF ConfOrder
<1>3. ASSUME <<f, e>> \in ConfOrder PROVE FALSE
  <2>1. PICK l \in 1 .. Len(config.conf) :
          config.conf[l] = f /\ \A j \in 1 .. Len(config.conf) : config.conf[j] = e => l < j
    BY <1>1, <1>3 DEF ConfOrder
  <2>2. k < l /\ l < k
    BY <1>2, <2>1
  <2> QED
    BY <2>2
<1>4. e # f
  <2>1. e = f => k < k
    BY <1>2
  <2> QED
    BY <2>1
<1> QED
  BY <1>3, <1>4

LEMMA BeforeThrough ==
    ASSUME TypeOK, NEW p \in Place, NEW q \in Place, NEW r \in Place, Before(p, q), Before(q, r)
    PROVE  Before(p, r)
<1>1. {p[1], q[1], r[1], p[2], q[2], r[2]} \subseteq Int
  <2>1. {p[1], q[1], r[1]} \subseteq Int
    BY PlaceType
  <2>2. \A x \in Place : x[2] \in Int
    <3> TAKE x \in Place
    <3>1. x[2] \in 1 .. Len(config.file[config.conf[x[1]]])
      BY PlaceType
    <3>2. \A N : \A y \in 1 .. N : y \in Int
      OBVIOUS
    <3> QED
      BY <3>1, <3>2
  <2> QED
    BY <2>1, <2>2
<1> QED
  BY <1>1 DEF Before

LEMMA FileTotal ==
    ASSUME TypeOK, NEW n
    PROVE  Total(FileRecords(n), FileOrder(n))
<1> SUFFICES ASSUME NEW e \in FileRecords(n), NEW f \in FileRecords(n)
             PROVE  e = f \/ <<e, f>> \in FileOrder(n) \/ <<f, e>> \in FileOrder(n)
  BY DEF Total
<1>1. \A r : Places(n, r) \subseteq Place
  BY DEF Places
<1>2. PICK p \in Places(n, e) : \A q \in Places(n, e) : q = p \/ Before(p, q)
  BY <1>1, FirstPlace DEF FileRecords
<1>3. PICK q \in Places(n, f) : \A r \in Places(n, f) : r = q \/ Before(q, r)
  BY <1>1, FirstPlace DEF FileRecords
<1>4. p \in Place /\ q \in Place
  BY <1>1, <1>2, <1>3
<1>5. CASE p = q
  <2>1. [name |-> n, rr |-> e] = [name |-> n, rr |-> f]
    BY <1>2, <1>3, <1>5 DEF Places
  <2> QED
    BY <2>1
<1>6. CASE Before(p, q)
  <2>1. \A r \in Places(n, f) : Before(p, r)
    BY <1>1, <1>3, <1>4, <1>6, BeforeThrough
  <2> QED
    BY <1>2, <2>1 DEF FileOrder, MetBefore
<1>7. CASE Before(q, p)
  <2>1. \A r \in Places(n, e) : Before(q, r)
    BY <1>1, <1>2, <1>4, <1>7, BeforeThrough
  <2> QED
    BY <1>3, <2>1 DEF FileOrder, MetBefore
<1>8. p = q \/ Before(p, q) \/ Before(q, p)
  <2>1. \A x \in Place : x[2] \in Int
    <3> TAKE x \in Place
    <3>1. x[2] \in 1 .. Len(config.file[config.conf[x[1]]])
      BY PlaceType
    <3>2. \A N : \A y \in 1 .. N : y \in Int
      OBVIOUS
    <3> QED
      BY <3>1, <3>2
  <2>2. p = <<p[1], p[2]>> /\ q = <<q[1], q[2]>> /\ p[1] \in Int /\ q[1] \in Int
    BY <1>4, PlaceType
  <2>3. p[2] \in Int /\ q[2] \in Int
    BY <1>4, <2>1
  <2>4. CASE p[1] = q[1] /\ p[2] = q[2]
    BY <2>2, <2>4
  <2> QED
    BY <2>2, <2>3, <2>4 DEF Before
<1> QED
  BY <1>5, <1>6, <1>7, <1>8

\* Where the files are read: everything met before the present record is stored.
LEMMA Preceding ==
    ASSUME TypeOK, FilesInv, OrderInv, ~stale, pc = "append", lines # <<>>,
           NEW n \in Host, NEW r, NEW d, Head(lines) = [name |-> n, rr |-> r],
           MetBefore(n, d, r)
    PROVE  d \in ToSet(store.records[n])
<1> DEFINE z == Head(todo)
           file == config.file[z]
           M == Len(config.conf)
           c == Len(file) - Len(lines) + 1
<1>1. /\ todo \in Seq(Zone) /\ todo # <<>> /\ lines \in Seq(Line) /\ store.list \in Seq(Zone)
      /\ z \in Zone /\ z \in ToSet(todo)
  <2>1. todo \in Seq(Zone) /\ todo # <<>> /\ lines \in Seq(Line) /\ store.list \in Seq(Zone)
    BY DEF TypeOK, Store
  <2> QED
    BY <2>1, HeadTailType, SetOfTail
<1>2. M \in Nat /\ DOMAIN config.conf = 1 .. M /\ config.conf \in Seq(Zone) /\ file \in Seq(Line)
  BY <1>1, ConfigType
<1>3. Ends(lines, file) /\ \A x \in 1 .. Len(file) - Len(lines) : Kept(store, z, file[x])
  BY DEF OrderInv, InFile
<1>4. c \in 1 .. Len(file) /\ file[c] = Head(lines) /\ Len(file) \in Nat
  BY <1>1, <1>2, <1>3, EndsTail
<1>5. z \in ToSet(store.list)
  BY <1>1 DEF FilesInv, Parsing
<1>6. Ranked(store.list, ConfZones, ConfOrder)
  BY DEF OrderInv, Orderly
<1>7. z \in ConfZones
  BY <1>5, <1>6 DEF Ranked
<1>8. PICK k \in 1 .. M : /\ config.conf[k] = z
                          /\ \A j \in 1 .. M : config.conf[j] = z => k <= j
  BY <1>7, FirstZone
<1>9. <<k, c>> \in Places(n, r)
  <2>1. <<k, c>> \in {k} \X DOMAIN file
    BY <1>2, <1>4
  <2>2. <<k, c>> \in Place
    BY <1>2, <1>8, <2>1 DEF Place
  <2> QED
    BY <2>2, <1>4, <1>8 DEF Places
<1>10. PICK p \in Places(n, d) : Before(p, <<k, c>>)
  BY <1>9 DEF MetBefore
<1> DEFINE y == config.conf[p[1]]
           l == config.file[y][p[2]]
<1>11. /\ p[1] \in 1 .. M /\ y \in Zone /\ p[2] \in 1 .. Len(config.file[y])
       /\ l = [name |-> n, rr |-> d]
  <2>1. p \in Place /\ l = [name |-> n, rr |-> d]
    BY <1>10 DEF Places
  <2> QED
    BY <2>1, PlaceType
<1>12. config.file[y] \in Seq(Line)
  BY <1>11, ConfigType
<1>13. l \in ToSet(config.file[y])
  BY <1>11, <1>12 DEF ToSet
<1>14. SUFFICES Kept(store, y, l)
  BY <1>11, <1>14 DEF Kept
<1> HIDE DEF l
<1>15. CASE p[1] = k /\ p[2] < c
  <2>1. p[2] \in 1 .. Len(file) - Len(lines) /\ y = z /\ file[p[2]] = l
    <3>1. Len(lines) \in Nat
      BY <1>1
    <3> QED
      BY <3>1, <1>4, <1>8, <1>11, <1>15 DEF l
  <2> QED
    BY <2>1, <1>3
<1>16. CASE p[1] < k
  <2>1. y # z /\ y \in ConfZones
    BY <1>2, <1>8, <1>11, <1>16 DEF ConfZones
  <2>2. y \in ToSet(todo) \/ Done(store, y)
    BY <1>2, <1>11 DEF FilesInv, Parsing, Listed, ConfListed
  <2>3. <<y, z>> \in ConfOrder
    <3>1. \A j \in 1 .. M : config.conf[j] = z => p[1] < j
      BY <1>8, <1>11, <1>16
    <3> QED
      BY <3>1, <1>2, <1>7, <1>11, <2>1 DEF ConfOrder
  <2>4. y \notin ToSet(todo)
    <3> SUFFICES ASSUME y \in ToSet(todo) PROVE FALSE
      OBVIOUS
    <3> DEFINE L == Len(store.list)
               T == Len(todo)
    <3>1. T \in Nat \ {0} /\ L \in Nat /\ DOMAIN todo = 1 .. T /\ Head(todo) = todo[1]
          /\ DOMAIN store.list = 1 .. L
      BY <1>1
    <3>2. PICK x \in 1 .. T : todo[x] = y
      BY <3>1 DEF ToSet
    <3>3. T <= L /\ \A t \in 1 .. T : todo[t] = store.list[L - T + t]
      BY DEF OrderInv, InList, Ends
    <3>4. x # 1
      BY <2>1, <3>1, <3>2
    <3>5. /\ z = store.list[L - T + 1] /\ y = store.list[L - T + x]
          /\ L - T + 1 \in 1 .. L /\ L - T + x \in 1 .. L /\ L - T + 1 < L - T + x
      BY <3>1, <3>2, <3>3, <3>4
    <3>6. <<z, y>> \in ConfOrder
      BY <1>6, <3>1, <3>5 DEF Ranked
    <3> QED
      BY <2>3, <3>6, ConfStrict
  <2>5. Done(store, y)
    BY <2>2, <2>4
  <2> QED
    BY <2>5, <1>13 DEF Done
<1> QED
  BY <1>10, <1>15, <1>16 DEF Before

\* A store with the same list and the same records under host names is as orderly.
Alike(s, t) == t.list = s.list /\ \A n \in Host : t.records[n] = s.records[n]

LEMMA AlikeOrderly ==
    ASSUME NEW s, NEW t, Alike(s, t), Orderly(s)
    PROVE  Orderly(t)
BY DEF Alike, Orderly

LEMMA OrderlyEmpty == Orderly(Empty)
<1>1. Empty.list = <<>> /\ \A n \in Host : Empty.records[n] = <<>>
  BY DEF Empty, Name
<1> QED
  BY <1>1, RankedEmpty DEF Orderly


\* The order is that of the files, which only the administrator changes.
LEMMA SameFiles ==
    ASSUME UNCHANGED config
    PROVE  /\ Orderly(store') => Orderly(store)'
           /\ Orderly(dump') => Orderly(dump)'
<1>1. Place' = Place
  BY DEF Place
<1>2. \A n, r : Places(n, r)' = Places(n, r)
  BY <1>1 DEF Places
<1>3. \A n, r, s : MetBefore(n, r, s)' <=> MetBefore(n, r, s)
  BY <1>2 DEF MetBefore, Before
<1>4. \A n : FileRecords(n)' = FileRecords(n)
  BY <1>2 DEF FileRecords
<1>5. \A n : FileOrder(n)' = FileOrder(n)
  BY <1>3, <1>4 DEF FileOrder
<1>6. ConfZones' = ConfZones
  BY DEF ConfZones
<1>7. ConfOrder' = ConfOrder
  BY <1>6 DEF ConfOrder
<1> QED
  BY <1>4, <1>5, <1>6, <1>7 DEF Orderly, Ranked

\* What a call writes, or does not, is orderly if its effect is.
LEMMA CallOrder ==
    ASSUME Orderly(store), Orderly(dump), UNCHANGED config, NEW next, NEW s, Orderly(s),
           Call(next, {s})
    PROVE  (Orderly(store) /\ Orderly(dump))'
<1>1. store' \in {store, s} /\ dump' = dump
  BY DEF Call, Exit
<1>2. Orderly(store') /\ Orderly(dump')
  BY <1>1
<1> QED
  BY <1>2, SameFiles

LEMMA InfoOrder ==
    ASSUME store \in Store, Orderly(store), NEW z \in Zone
    PROVE  Orderly(WithInfo(z))
<1>1. Alike(store, WithInfo(z))
  BY InfoGrows DEF Alike
<1> QED
  BY <1>1, AlikeOrderly

LEMMA NamesOrder ==
    ASSUME store \in Store, Orderly(store), NEW z \in Zone, NEW n \in Name
    PROVE  Orderly([store EXCEPT !.names[z] = With(@, n)])
<1>1. Alike(store, [store EXCEPT !.names[z] = With(@, n)])
  BY DEF Alike, Store
<1> QED
  BY <1>1, AlikeOrderly

LEMMA ListOrder ==
    ASSUME TypeOK, FilesInv, Orderly(store), pc = "list"
    PROVE  Orderly([store EXCEPT !.list = With(@, config.conf[i])])
<1> DEFINE z == config.conf[i]
           new == [store EXCEPT !.list = With(@, z)]
<1>1. /\ store.list \in Seq(Zone) /\ i \in DOMAIN config.conf /\ DOMAIN config.conf \subseteq Int
      /\ ConfZones \in SUBSET Zone
  BY ConfigType DEF TypeOK, Store, ConfZones
<1>2. z \in ConfZones
  BY <1>1 DEF ConfZones
<1>3. \A d \in ConfZones : <<d, z>> \in ConfOrder => d \in ToSet(store.list)
  <2> SUFFICES ASSUME NEW d \in ConfZones, <<d, z>> \in ConfOrder
               PROVE  d \in ToSet(store.list)
    OBVIOUS
  <2>1. PICK k \in DOMAIN config.conf :
          config.conf[k] = d /\ \A j \in DOMAIN config.conf : config.conf[j] = z => k < j
    BY DEF ConfOrder
  <2>2. k < i
    BY <1>1, <2>1
  <2> QED
    BY <2>1, <2>2 DEF FilesInv, Listing
<1>4. Ranked(store.list, ConfZones, ConfOrder)
  BY DEF Orderly
<1>5. Ranked(With(store.list, z), ConfZones, ConfOrder)
  BY <1>1, <1>2, <1>3, <1>4, ConfTotal, RankedWith
<1>6. new.list = With(store.list, z) /\ new.records = store.records
  BY DEF TypeOK, Store
<1> QED
  BY <1>5, <1>6 DEF Orderly

LEMMA RecordOrder ==
    ASSUME TypeOK, FilesInv, OrderInv, ~stale, pc = "append", lines # <<>>
    PROVE  Orderly(AppendedRR(Head(lines).name, Head(lines).rr))
<1> DEFINE n == Head(lines).name
           r == Head(lines).rr
           new == AppendedRR(n, r)
<1>1. /\ Head(lines) \in Line /\ Head(lines) \in ToSet(lines) /\ Head(todo) \in ToSet(todo)
      /\ store \in Store
  BY HeadTailType, SetOfTail DEF TypeOK
<1>2. n \in Name /\ r \in RR /\ Head(lines) = [name |-> n, rr |-> r]
  BY <1>1 DEF Line
<1>3. /\ new.list = store.list
      /\ \A m \in Name \ {n} : new.records[m] = store.records[m]
      /\ n \in Host => new.records[n] = With(store.records[n], r)
      /\ store.records[n] \in Seq(RR)
  <2>1. n \in Host => n \notin store.info
    BY <1>1, NameAssumption DEF Store
  <2> QED
    BY <1>1, <1>2, <2>1 DEF AppendedRR, Store
<1>4. Orderly(store)
  BY DEF OrderInv
<1>5. CASE n \notin Host
  <2>1. Alike(store, new)
    BY <1>3, <1>5 DEF Alike, Name
  <2> QED
    BY <1>4, <2>1, AlikeOrderly
<1>6. CASE n \in Host
  <2>1. r \in FileRecords(n)
    <3> DEFINE z == Head(todo)
    <3>1. z \in ToSet(store.list) /\ Head(lines) \in ToSet(config.file[z])
      BY <1>1 DEF FilesInv, Parsing, Reading
    <3>2. z \in ConfZones
      BY <1>4, <3>1 DEF Orderly, Ranked
    <3>3. PICK k \in DOMAIN config.conf : config.conf[k] = z
      BY <3>2 DEF ConfZones
    <3>4. PICK x \in DOMAIN config.file[z] : config.file[z][x] = Head(lines)
      BY <3>1 DEF ToSet
    <3>5. <<k, x>> \in Places(n, r)
      <4>1. <<k, x>> \in {k} \X DOMAIN config.file[config.conf[k]]
        BY <3>3, <3>4
      <4>2. <<k, x>> \in Place
        BY <4>1 DEF Place
      <4> QED
        BY <4>2, <3>3, <3>4, <1>2 DEF Places
    <3> QED
      BY <1>2, <3>5 DEF FileRecords
  <2>2. \A d \in FileRecords(n) : <<d, r>> \in FileOrder(n) => d \in ToSet(store.records[n])
    BY <1>2, <1>6, Preceding DEF FileOrder
  <2>3. Ranked(store.records[n], FileRecords(n), FileOrder(n))
    BY <1>4, <1>6 DEF Orderly
  <2>4. FileRecords(n) \in SUBSET RR
    BY DEF FileRecords
  <2>5. Ranked(With(store.records[n], r), FileRecords(n), FileOrder(n))
    BY <1>3, <2>1, <2>2, <2>3, <2>4, FileTotal, RankedWith
  <2>6. \A m \in Host \ {n} : Ranked(new.records[m], FileRecords(m), FileOrder(m))
    BY <1>3, <1>4 DEF Orderly, Name
  <2>7. Ranked(new.list, ConfZones, ConfOrder) /\ Ranked(new.records[n], FileRecords(n), FileOrder(n))
    BY <1>3, <1>4, <1>6, <2>5 DEF Orderly
  <2> HIDE DEF new, n
  <2>8. Orderly(new)
    BY <2>6, <2>7 DEF Orderly
  <2> QED
    BY <2>8 DEF new, n
<1> QED
  BY <1>5, <1>6

\* A step that leaves the place where the files are read, and lets the store grow,
\* leaves what is in front of that place stored.
LEMMA SamePlace ==
    ASSUME TypeOK, InList, InFile, UNCHANGED <<todo, lines, config>>, Grows(store, store'),
           store'.list = store.list, pc \in {"soa", "append", "name"},
           pc' \in {"soa", "append", "name", "off"}
    PROVE  InList' /\ InFile'
<1>1. Head(todo) \in Zone
  BY HeadTailType DEF TypeOK
<1>2. \A l : Kept(store, Head(todo), l) => Kept(store', Head(todo), l)
  BY <1>1, GrowsKept
<1> QED
  BY <1>2 DEF InList, InFile

LEMMA SaveInfoOrder == TypeOK /\ FilesInv /\ OrderInv /\ SaveInfo => OrderInv'
<1> SUFFICES ASSUME TypeOK, FilesInv, OrderInv, SaveInfo, ~stale PROVE OrderInv'
  BY DEF OrderInv, SaveInfo
<1>1. config.conf[i] \in Zone /\ store \in Store
  BY ConfigType DEF SaveInfo, TypeOK
<1>2. Orderly(WithInfo(config.conf[i]))
  BY <1>1, InfoOrder DEF OrderInv
<1>3. Call("list", {WithInfo(config.conf[i])}) /\ UNCHANGED config
  BY DEF SaveInfo
<1>4. (Orderly(store) /\ Orderly(dump))'
  BY <1>2, <1>3, CallOrder DEF OrderInv
<1>5. pc' \in {"list", "off"}
  BY <1>3 DEF Call, Exit
<1> QED
  BY <1>4, <1>5 DEF OrderInv, InList, InFile

LEMMA AppendZoneOrder == TypeOK /\ FilesInv /\ OrderInv /\ AppendZone => OrderInv'
<1> SUFFICES ASSUME TypeOK, FilesInv, OrderInv, AppendZone, ~stale PROVE OrderInv'
  BY DEF OrderInv, AppendZone
<1> DEFINE new == [store EXCEPT !.list = With(@, config.conf[i])]
<1>1. Orderly(new)
  BY ListOrder DEF AppendZone, OrderInv
<1>2. Call("conf", {new}) /\ UNCHANGED config
  BY DEF AppendZone
<1> HIDE DEF new
<1>3. (Orderly(store) /\ Orderly(dump))'
  BY <1>1, <1>2, CallOrder DEF OrderInv
<1>4. pc' \in {"conf", "off"}
  BY <1>2 DEF Call, Exit
<1> QED
  BY <1>3, <1>4 DEF OrderInv, InList, InFile

LEMMA ResaveInfoOrder == TypeOK /\ FilesInv /\ OrderInv /\ ResaveInfo => OrderInv'
<1> SUFFICES ASSUME TypeOK, FilesInv, OrderInv, ResaveInfo, ~stale PROVE OrderInv'
  BY DEF OrderInv, ResaveInfo
<1> DEFINE new == WithInfo(Head(todo))
<1>1. Head(todo) \in Zone /\ store \in Store
  BY HeadTailType DEF ResaveInfo, TypeOK
<1>2. Orderly(new) /\ Grows(store, new) /\ new.list = store.list
  BY <1>1, InfoOrder, InfoGrows DEF OrderInv
<1>3. /\ store' \in {store, new} /\ UNCHANGED <<dump, config, todo, lines>>
      /\ pc = "soa" /\ pc' = "append"
  BY DEF ResaveInfo, parser
<1> HIDE DEF new
<1>4. Orderly(store') /\ Orderly(dump') /\ Grows(store, store') /\ store'.list = store.list
  BY <1>2, <1>3 DEF OrderInv, Grows
<1>5. InList' /\ InFile'
  BY <1>3, <1>4, SamePlace DEF OrderInv
<1> QED
  BY <1>3, <1>4, <1>5, SameFiles DEF OrderInv

LEMMA AppendRROrder == TypeOK /\ FilesInv /\ OrderInv /\ AppendRR => OrderInv'
<1> SUFFICES ASSUME TypeOK, FilesInv, OrderInv, AppendRR, ~stale PROVE OrderInv'
  BY DEF OrderInv, AppendRR
<1> DEFINE new == AppendedRR(Head(lines).name, Head(lines).rr)
<1>1. pc = "append" /\ lines # <<>> /\ UNCHANGED <<config, todo, lines>> /\ Call("name", {new})
  BY DEF AppendRR, parser
<1>2. store \in Store /\ Head(lines).name \in Name /\ Head(lines).rr \in RR
  <2>1. store \in Store /\ lines \in Seq(Line)
    BY DEF TypeOK
  <2>2. Head(lines) \in Line
    BY <1>1, <2>1, HeadTailType
  <2> QED
    BY <2>1, <2>2 DEF Line
<1>3. Orderly(new)
  BY <1>1, RecordOrder
<1>4. Grows(store, new) /\ new.list = store.list
  BY <1>2, RecordGrows
<1> HIDE DEF new
<1>5. (Orderly(store) /\ Orderly(dump))'
  BY <1>1, <1>3, CallOrder DEF OrderInv
<1>6. store' \in {store, new} /\ pc' \in {"off", "name"}
  BY <1>1, CallEffect
<1>7. Grows(store, store') /\ store'.list = store.list
  BY <1>4, <1>6 DEF Grows
<1>8. InList' /\ InFile'
  BY <1>1, <1>6, <1>7, SamePlace DEF OrderInv
<1> QED
  BY <1>5, <1>8 DEF OrderInv

LEMMA ListNameOrder == TypeOK /\ FilesInv /\ OrderInv /\ ListName => OrderInv'
<1> SUFFICES ASSUME TypeOK, FilesInv, OrderInv, ListName, ~stale PROVE OrderInv'
  BY DEF OrderInv, ListName
<1> DEFINE z == Head(todo)
           line == Head(lines)
           new == [store EXCEPT !.names[z] = With(@, line.name)]
           file == config.file[z]
<1>1. pc = "name" /\ UNCHANGED <<config, todo>> /\ Call("append", {new})
      /\ lines' = IF pc' = "append" THEN Tail(lines) ELSE lines
  BY DEF ListName
<1>2. /\ store \in Store /\ z \in Zone /\ lines \in Seq(Line) /\ lines # <<>>
      /\ line.name \in Name /\ line.rr \in RR
  <2>1. store \in Store /\ todo \in Seq(Zone) /\ todo # <<>> /\ lines \in Seq(Line) /\ lines # <<>>
    BY <1>1 DEF TypeOK
  <2>2. line \in Line /\ z \in Zone
    BY <2>1, HeadTailType
  <2> QED
    BY <2>1, <2>2 DEF Line
<1>3. file \in Seq(Line)
  BY <1>2, ConfigType
<1>4. Orderly(new)
  BY <1>2, NamesOrder DEF OrderInv
<1>5. Grows(store, new) /\ new.list = store.list /\ line.name \in ToSet(new.names[z])
      /\ new.records = store.records
  BY <1>2, NamesGrow
<1> HIDE DEF new
<1>6. (Orderly(store) /\ Orderly(dump))'
  BY <1>1, <1>4, CallOrder DEF OrderInv
<1>7. pc' = "off" \/ (pc' = "append" /\ store' = new)
  BY <1>1, CallEffect
<1>8. CASE pc' = "off"
  BY <1>6, <1>8 DEF OrderInv, InList, InFile
<1>9. CASE pc' = "append" /\ store' = new
  <2>1. Ends(lines, file) /\ \A x \in 1 .. Len(file) - Len(lines) : Kept(store, z, file[x])
    BY <1>1 DEF OrderInv, InFile
  <2> DEFINE c == Len(file) - Len(lines) + 1
  <2>2. /\ Ends(Tail(lines), file) /\ Len(file) - Len(Tail(lines)) = c
        /\ c \in 1 .. Len(file) /\ file[c] = line
    BY <1>2, <1>3, <2>1, EndsTail
  <2>3. \A l : Kept(store, z, l) => Kept(store', z, l)
    BY <1>2, <1>5, <1>9, GrowsKept
  <2>4. Kept(store', z, line)
    BY <1>1, <1>5, <1>9 DEF Kept, FilesInv, Saved
  <2>5. ASSUME NEW x \in 1 .. c PROVE Kept(store', z, file[x])
    <3>1. Len(file) \in Nat /\ Len(lines) \in Nat
      BY <1>2, <1>3
    <3>2. CASE x = c
      BY <2>2, <2>4, <3>2
    <3>3. CASE x # c
      <4>1. x \in 1 .. Len(file) - Len(lines)
        BY <3>1, <3>3
      <4> QED
        BY <2>1, <2>3, <4>1
    <3> QED
      BY <3>2, <3>3
  <2>6. InFile'
    BY <1>1, <1>9, <2>2, <2>5 DEF InFile
  <2>7. InList'
    BY <1>1, <1>5, <1>9 DEF OrderInv, InList
  <2> QED
    BY <1>6, <2>6, <2>7 DEF OrderInv
<1> QED
  BY <1>7, <1>8, <1>9

\* The steps that read write nothing.
LEMMA ReadingOrder ==
    TypeOK /\ OrderInv /\ (ReadList \/ OpenZone \/ FileEnds) => OrderInv'
<1> SUFFICES ASSUME TypeOK, OrderInv, ReadList \/ OpenZone \/ FileEnds, ~stale' PROVE OrderInv'
  BY DEF OrderInv
<1> ~stale
  BY DEF ReadList, OpenZone, FileEnds
<1>1. UNCHANGED <<store, dump, config>>
  BY DEF ReadList, OpenZone, FileEnds, redis, Exit
<1>2. (Orderly(store) /\ Orderly(dump))'
  BY <1>1, SameFiles DEF OrderInv
<1>3. todo \in Seq(Zone) /\ store.list \in Seq(Zone)
  BY DEF TypeOK, Store
<1>4. CASE ReadList
  <2>1. (pc' = "zone" /\ todo' = store.list) \/ pc' \in {"loaded", "off"}
    BY <1>4 DEF ReadList, Exit
  <2> QED
    BY <1>1, <1>2, <1>3, <2>1, EndsSelf DEF OrderInv, InList, InFile
<1>5. CASE OpenZone
  <2>1. /\ (pc' = "soa" /\ lines' = config.file[Head(todo)]) \/ pc' = "off"
        /\ UNCHANGED todo /\ pc = "zone" /\ todo # <<>>
    BY <1>5 DEF OpenZone, Exit
  <2>2. config.file[Head(todo)] \in Seq(Line)
    BY <1>3, <2>1, HeadTailType, ConfigType
  <2>3. InList'
    BY <1>1, <2>1 DEF OrderInv, InList
  <2>4. InFile'
    <3> SUFFICES ASSUME pc' = "soa" PROVE InFile'
      BY <2>1 DEF InFile
    <3> DEFINE file == config.file[Head(todo)]
    <3>1. lines' = file /\ config'.file[Head(todo')] = file
      BY <1>1, <2>1
    <3>2. Ends(file, file) /\ 1 .. Len(file) - Len(file) = {}
      BY <2>2, EndsSelf
    <3> HIDE DEF file
    <3> QED
      BY <3>1, <3>2 DEF InFile
  <2> QED
    BY <1>2, <2>3, <2>4 DEF OrderInv
<1>6. CASE FileEnds
  <2>1. pc = "append" /\ pc' = "zone" /\ todo' = Tail(todo) /\ todo # <<>>
    BY <1>6 DEF FileEnds, TypeOK
  <2>2. Ends(Tail(todo), store.list)
    BY <1>3, <2>1, EndsTail DEF OrderInv, InList
  <2> QED
    BY <1>1, <1>2, <2>1, <2>2 DEF OrderInv, InList, InFile
<1> QED
  BY <1>4, <1>5, <1>6

LEMMA OtherOrder ==
    TypeOK /\ OrderInv /\ (ConfEnds \/ ZonesEnd \/ Fails \/ Serve \/ Start \/ Dies \/ RedisDies
                           \/ Dump \/ Edit \/ UNCHANGED vars) => OrderInv'
<1> SUFFICES ASSUME TypeOK, OrderInv, ~stale',
                    ConfEnds \/ ZonesEnd \/ Fails \/ Serve \/ Start \/ Dies \/ RedisDies
                        \/ Dump \/ Edit \/ UNCHANGED vars
             PROVE  OrderInv'
  BY DEF OrderInv
<1>1. CASE ConfEnds \/ ZonesEnd \/ Fails \/ Serve \/ Dies
  <2>1. UNCHANGED <<store, dump, config, stale>> /\ pc' \in {"zones", "loaded", "off", "serve"}
    BY <1>1 DEF ConfEnds, ZonesEnd, Fails, Serve, Dies, Exit, redis
  <2> QED
    BY <2>1, SameFiles DEF OrderInv, InList, InFile
<1>2. CASE Start
  <2>1. Orderly(store') /\ Orderly(dump') /\ UNCHANGED config /\ pc' = "conf"
    BY <1>2, OrderlyEmpty DEF Start, OrderInv
  <2> QED
    BY <2>1, SameFiles DEF OrderInv, InList, InFile
<1>3. CASE RedisDies \/ Dump \/ UNCHANGED vars
  <2>1. /\ UNCHANGED <<pc, store, config, stale, todo, lines>>
        /\ dump' \in {dump, store}
    BY <1>3 DEF RedisDies, Dump, vars, redis, parser
  <2>2. Orderly(store') /\ Orderly(dump')
    BY <2>1 DEF OrderInv
  <2>3. InList' /\ InFile'
    BY <2>1 DEF OrderInv, InList, InFile, Kept
  <2> QED
    BY <2>1, <2>2, <2>3, SameFiles DEF OrderInv
<1>4. CASE Edit
  BY <1>4 DEF Edit
<1> QED
  BY <1>1, <1>2, <1>3, <1>4

LEMMA OrderStep == TypeOK /\ FilesInv /\ OrderInv /\ [Next]_vars => OrderInv'
BY SaveInfoOrder, AppendZoneOrder, ResaveInfoOrder, AppendRROrder, ListNameOrder, ReadingOrder,
   OtherOrder DEF Next, Step

LEMMA OrderInit == Init => OrderInv
<1>1. Init => store = Empty /\ dump = Empty /\ pc = "off"
  BY DEF Init
<1>2. store = Empty /\ dump = Empty => Orderly(store) /\ Orderly(dump)
  BY OrderlyEmpty
<1> QED
  BY <1>1, <1>2 DEF OrderInv, InList, InFile

\* For all files: however many loads of them were begun, wherever they were broken
\* off and whichever calls had their effect then, and whether redis went on, was
\* started from its dump or from nothing: a server that serves has under every host
\* name the records of its files, all of them, no other, each once, and in the order in
\* which the files have them first, which is the order of the answers.
THEOREM FilesAreServed == Spec => []ServesTheFiles
<1>1. TypeOK /\ FilesInv /\ OrderInv => ServesTheFiles
  <2> SUFFICES ASSUME TypeOK, FilesInv, OrderInv, Loaded, ~stale, NEW n \in Host
               PROVE  /\ ToSet(store.records[n]) = FileRecords(n)
                      /\ \A b \in DOMAIN store.records[n] : \A a \in 1 .. b - 1 :
                            MetBefore(n, store.records[n][a], store.records[n][b])
    BY DEF ServesTheFiles, FileRecords
  <2> DEFINE s == store.records[n]
  <2>1. Ranked(s, FileRecords(n), FileOrder(n)) /\ s \in Seq(RR)
    BY DEF OrderInv, Orderly, TypeOK, Store, Name
  <2> HIDE DEF s
  <2>2. ConfListed /\ AllDone
    BY DEF FilesInv, Loaded, Listed, Parsed
  <2>3. ASSUME NEW r \in FileRecords(n) PROVE r \in ToSet(s)
    <3>1. PICK p \in Places(n, r) : TRUE
      BY <2>3 DEF FileRecords
    <3> DEFINE z == config.conf[p[1]]
    <3>2. /\ p[1] \in 1 .. Len(config.conf) /\ z \in Zone /\ p[2] \in 1 .. Len(config.file[z])
          /\ config.file[z][p[2]] = [name |-> n, rr |-> r]
      <4>1. p \in Place /\ config.file[z][p[2]] = [name |-> n, rr |-> r]
        BY <3>1 DEF Places
      <4> QED
        BY <4>1, PlaceType
    <3>3. config.file[z] \in Seq(Line) /\ DOMAIN config.conf = 1 .. Len(config.conf)
      BY <3>2, ConfigType
    <3>4. z \in ToSet(store.list) /\ [name |-> n, rr |-> r] \in ToSet(config.file[z])
      BY <2>2, <3>2, <3>3 DEF ConfListed, ToSet
    <3>5. Kept(store, z, [name |-> n, rr |-> r])
      BY <2>2, <3>4 DEF AllDone, Done
    <3> QED
      BY <3>5 DEF Kept, s
  <2>4. ASSUME NEW b \in DOMAIN s, NEW a \in 1 .. b - 1 PROVE MetBefore(n, s[a], s[b])
    <3>1. DOMAIN s = 1 .. Len(s) /\ Len(s) \in Nat
      BY <2>1
    <3>2. a \in DOMAIN s /\ a < b
      BY <3>1
    <3> QED
      BY <2>1, <3>2 DEF Ranked, FileOrder
  <2>5. ToSet(s) \subseteq FileRecords(n)
    BY <2>1 DEF Ranked
  <2> QED
    BY <2>3, <2>4, <2>5 DEF s
<1> QED
  BY <1>1, FilesInit, FilesStep, OrderInit, OrderStep, TypeCorrect, PTL DEF Spec
=============================================================================
