------------------------------ MODULE Loading ------------------------------
(***************************************************************************)
(* From the configuration to the served records: parse_conf() of a master, *)
(* first master.conf (zone_cfg_parse), then the zone files (zone_parse),   *)
(* over a redis that may be fresh, have read a dump, or still be that of   *)
(* an earlier smartDNS; start_worker() or the exit of `smartDNS -t' after  *)
(* it; crashes, and the next start.                                        *)
(*                                                                         *)
(* One master loads at a time, so a call of the store is one step (Store-  *)
(* Proofs, OneWriterIsAtomic), which may fail with or without its effect   *)
(* (AtomicStore).  A file is the sequence of its records (ZoneFile).       *)
(***************************************************************************)
EXTENDS Integers, Sequences, SequencesExt

CONSTANTS
    Zone,       \* names of zones
    Host,       \* other names
    RR,         \* RR_INFO, without its name
    Config      \* what the administrator may write

Name == Zone \union Host
Line == [name : Name, rr : RR]

ASSUME ConfigAssumption == Config \subseteq [conf : Seq(Zone), file : [Zone -> Seq(Line)]]
ASSUME NameAssumption == Zone \intersect Host = {}

VARIABLES
    pc,         \* where the master is; "off" when there is none
    role,       \* PROCESS_ROLE_MASTER or PROCESS_ROLE_TESTER (-t)
    config,     \* master.conf and the zone files
    i,          \* the zone of master.conf to be saved
    todo,       \* zone_parse(): zones to be parsed, the first one at present
    lines,      \* what is left of its file
    store,      \* what redis holds
    up, own,    \* does redis run, and is it the master's child?
    dump,       \* dump.rdb
    skipped,    \* history: has zone_parse() got no list of zones?
    stale,      \* history: does redis hold records of other files?
    full        \* history: has a load of these files into this redis been served?

parser == <<i, todo, lines, skipped>>
redis == <<store, up, own, dump>>
vars == <<pc, role, config, parser, redis, stale, full>>

Store ==
    [list : Seq(Zone),              \* REDIS_AU_ZONE_LIST
     info : SUBSET Zone,            \* the names whose value begins with a ZONE_INFO
     records : [Name -> Seq(RR)],   \* the RR_INFOs under a name
     names : [Zone -> Seq(Name)]]   \* REDIS_RR_AU_LIST

Empty == [list |-> <<>>, info |-> {}, records |-> [n \in Name |-> <<>>],
          names |-> [z \in Zone |-> <<>>]]

PC == {"off", "conf", "list", "zones", "zone", "soa", "append", "name", "loaded", "serve"}

TypeOK ==
    /\ pc \in PC
    /\ role \in {"master", "tester"}
    /\ config \in Config
    /\ i \in 1 .. Len(config.conf) + 1
    /\ pc = "list" => i <= Len(config.conf)
    /\ todo \in Seq(Zone)
    /\ pc \in {"soa", "append", "name"} => todo # <<>>
    /\ lines \in Seq(Line)
    /\ pc = "name" => lines # <<>>
    /\ {store, dump} \subseteq Store
    /\ {up, own, skipped, stale, full} \subseteq BOOLEAN

Init ==
    /\ pc = "off"
    /\ role = "master"
    /\ config \in Config
    /\ i = 1
    /\ todo = <<>>
    /\ lines = <<>>
    /\ store = Empty
    /\ dump = Empty
    /\ up = FALSE /\ own = FALSE
    /\ skipped = FALSE /\ stale = FALSE /\ full = FALSE

-----------------------------------------------------------------------------
\* A master begins, maybe beside one that serves already.  start_monitor(): a redis
\* that has the port goes on, and the child ends; else the child reads the dump, if
\* there is one where it is started.
Start ==
    /\ pc \in {"off", "serve"}
    /\ pc' = "conf"
    /\ role' \in {"master", "tester"}
    /\ i' = 1 /\ todo' = <<>> /\ lines' = <<>> /\ skipped' = FALSE
    /\ up' = TRUE
    /\ own' = ~up
    /\ \/ up /\ UNCHANGED <<store, dump, stale, full>>
       \/ ~up /\ store' = dump /\ full' = FALSE /\ UNCHANGED <<dump, stale>>
       \/ ~up /\ store' = Empty /\ dump' = Empty /\ stale' = FALSE /\ full' = FALSE
    /\ UNCHANGED config

\* exit() with kill_child_all()
Exit ==
    /\ pc' = "off"
    /\ up' = (up /\ ~own)
    /\ own' = FALSE
    /\ UNCHANGED dump

\* A call that changes the store to one of `stores' and goes on at `next', or
\* fails, with or without its effect, and the master exits.
Call(next, stores) ==
    \/ up /\ store' \in stores /\ pc' = next /\ UNCHANGED <<up, own, dump>>
    \/ up /\ store' \in stores \union {store} /\ Exit
    \/ ~up /\ UNCHANGED store /\ Exit

\* A list with an element added as append_binary_*() adds it
With(list, e) == IF e \in ToSet(list) THEN list ELSE Append(list, e)

\* save_binary_in_str() of a ZONE_INFO overwrites what is under the zone's name.
WithInfo(z) == [store EXCEPT !.info = @ \union {z}, !.records[z] = <<>>]

\* Mutation: the failure of the first call of save_zone_info() is not looked at.
SaveInfo_Ignored ==
    /\ pc = "conf"
    /\ i <= Len(config.conf)
    /\ Call("list", {store, WithInfo(config.conf[i])})
    /\ UNCHANGED <<role, config, parser, stale, full>>

\* save_zone_info() in zone_cfg_parse(), its two calls
SaveInfo ==
    /\ pc = "conf"
    /\ i <= Len(config.conf)
    /\ Call("list", {WithInfo(config.conf[i])})
    /\ UNCHANGED <<role, config, parser, stale, full>>

AppendZone ==
    /\ pc = "list"
    /\ Call("conf", {[store EXCEPT !.list = With(@, config.conf[i])]})
    /\ i' = IF pc' = "conf" THEN i + 1 ELSE i
    /\ UNCHANGED <<role, config, todo, lines, skipped, stale, full>>

ConfEnds ==
    /\ pc = "conf"
    /\ i > Len(config.conf)
    /\ pc' = "zones"
    /\ UNCHANGED <<role, config, parser, redis, stale, full>>

\* zone_parse() reads the list of zones.  Without a connection that is an error,
\* without an answer it is no zones.
ReadList ==
    /\ pc = "zones"
    /\ \/ up /\ todo' = store.list /\ pc' = "zone" /\ UNCHANGED <<redis, skipped>>
       \/ skipped' = TRUE /\ pc' = "loaded" /\ UNCHANGED <<todo, redis>>
       \/ Exit /\ UNCHANGED <<store, todo, skipped>>
    /\ UNCHANGED <<role, config, i, lines, stale, full>>

\* dispose_binary_in_str() hands the ZONE_INFO to parse_zone_file().
OpenZone ==
    /\ pc = "zone"
    /\ todo # <<>>
    /\ \/ up /\ Head(todo) \in store.info /\ pc' = "soa" /\ UNCHANGED redis
          /\ lines' = config.file[Head(todo)]
       \/ Exit /\ UNCHANGED <<store, lines>>
    /\ UNCHANGED <<role, config, i, todo, skipped, stale, full>>

ZonesEnd ==
    /\ pc = "zone"
    /\ todo = <<>>
    /\ pc' = "loaded"
    /\ UNCHANGED <<role, config, parser, redis, stale, full>>

\* The end of the SOA record: save_zone_info() again, whose failure goes unnoticed.
\* The zone is in the list of zones already.
ResaveInfo ==
    /\ pc = "soa"
    /\ store' \in {store} \union IF up THEN {WithInfo(Head(todo))} ELSE {}
    /\ pc' = "append"
    /\ UNCHANGED <<role, config, parser, up, own, dump, stale, full>>

\* Mutation: a record is appended unconditionally.
AppendedRR_Always(n, rr) == [store EXCEPT !.records[n] = Append(@, rr)]

\* Mutation: a record is saved, not appended.
AppendedRR_Saved(n, rr) == [store EXCEPT !.records[n] = <<rr>>]

\* append_binary_to_str() of a record.  Behind a ZONE_INFO, which is no multiple
\* of an RR_INFO, no record is recognised.
AppendedRR(n, rr) ==
    [store EXCEPT !.records[n] = IF n \in store.info THEN Append(@, rr) ELSE With(@, rr)]

\* save_rr_info(), its two calls
AppendRR ==
    /\ pc = "append"
    /\ lines # <<>>
    /\ Call("name", {AppendedRR(Head(lines).name, Head(lines).rr)})
    /\ UNCHANGED <<role, config, parser, stale, full>>

\* Mutation: the result of append_binary_in_hash() is not looked at.
ListName_Ignored ==
    /\ pc = "name"
    /\ Call("append", {store, [store EXCEPT !.names[Head(todo)] = With(@, Head(lines).name)]})
    /\ lines' = IF pc' = "append" THEN Tail(lines) ELSE lines
    /\ UNCHANGED <<role, config, i, todo, skipped, stale, full>>

ListName ==
    /\ pc = "name"
    /\ Call("append", {[store EXCEPT !.names[Head(todo)] = With(@, Head(lines).name)]})
    /\ lines' = IF pc' = "append" THEN Tail(lines) ELSE lines
    /\ UNCHANGED <<role, config, i, todo, skipped, stale, full>>

\* Mutation: the traversal does not go on to the next zone.
FileEnds_Again ==
    /\ pc = "append"
    /\ lines = <<>>
    /\ pc' = "zone"
    /\ UNCHANGED <<role, config, i, todo, lines, skipped, redis, stale, full>>

\* Mutation: the next zone is not opened.
FileEnds_Stays ==
    /\ pc = "append"
    /\ lines = <<>>
    /\ todo' = Tail(todo)
    /\ UNCHANGED <<pc, role, config, i, lines, skipped, redis, stale, full>>

FileEnds ==
    /\ pc = "append"
    /\ lines = <<>>
    /\ todo' = Tail(todo)
    /\ pc' = "zone"
    /\ UNCHANGED <<role, config, i, lines, skipped, redis, stale, full>>

\* A line that is refused, a file that does not open, and every other exit of the
\* master, among them that of the tester, and that for a port in use.
Fails ==
    /\ pc \in {"conf", "zone", "soa", "append", "loaded"}
    /\ Exit
    /\ UNCHANGED <<role, config, parser, store, stale, full>>

\* start_worker().  The master of a server waits for ever from now on, and what
\* it has started stays when it is killed.
Serve ==
    /\ pc = "loaded"
    /\ role = "master"
    /\ pc' = "serve"
    /\ own' = FALSE
    /\ full' = (full \/ (up /\ ~skipped))
    /\ UNCHANGED <<role, config, parser, store, up, dump, stale>>

Step ==
    \/ SaveInfo \/ AppendZone \/ ConfEnds \/ ReadList \/ OpenZone \/ ZonesEnd
    \/ ResaveInfo \/ AppendRR \/ ListName \/ FileEnds \/ Fails \/ Serve

-----------------------------------------------------------------------------
\* The master is killed.  redis is not.
Dies ==
    /\ pc # "off"
    /\ pc' = "off"
    /\ own' = FALSE
    /\ UNCHANGED <<role, config, parser, store, up, dump, stale, full>>

\* redis dies; nobody starts another one but the next master.
RedisDies ==
    /\ up
    /\ up' = FALSE
    /\ own' = FALSE
    /\ full' = FALSE
    /\ UNCHANGED <<pc, role, config, parser, store, dump, stale>>

\* redis writes a dump, `save 900 1' of redis.conf.
Dump ==
    /\ up
    /\ dump' = store
    /\ UNCHANGED <<pc, role, config, parser, store, up, own, stale, full>>

\* The administrator changes the files, while no master reads them.  What a master
\* that serves has read are other files: it is not followed any more.
Edit ==
    /\ pc \in {"off", "serve"}
    /\ config' \in Config \ {config}
    /\ i' = 1 /\ todo' = <<>> /\ lines' = <<>> /\ skipped' = FALSE
    /\ pc' = "off"
    /\ stale' = TRUE
    /\ full' = FALSE
    /\ UNCHANGED <<role, redis>>

Next == Start \/ Step \/ Dies \/ RedisDies \/ Dump \/ Edit

Spec == Init /\ [][Next]_vars

\* The kernel schedules a master, and hiredis answers or fails each of its calls.
FairSpec == Spec /\ WF_vars(Step)

-----------------------------------------------------------------------------
\* Where the configuration has a record for a name, as pairs of the zone's place in
\* master.conf and the line's in its file, and the order in which they are read: a
\* record is met before another if it is at a place before all places of that one.
Place == UNION {{k} \X DOMAIN config.file[config.conf[k]] : k \in DOMAIN config.conf}
Places(n, rr) ==
    {p \in Place : config.file[config.conf[p[1]]][p[2]] = [name |-> n, rr |-> rr]}
Before(p, q) == p[1] < q[1] \/ (p[1] = q[1] /\ p[2] < q[2])
MetBefore(n, r, s) == \E p \in Places(n, r) : \A q \in Places(n, s) : Before(p, q)

Loaded == pc = "serve" /\ up /\ ~skipped

\* However many loads of the files were begun, and wherever they broke off, and
\* whatever of them redis has kept, a server that serves has under each host name
\* the records of the files, each once and in their order, which decides which is
\* answered.  Of what zone_parse() skips for want of an answer nothing is said.
ServesTheFiles ==
    Loaded /\ ~stale => \A n \in Host : LET s == store.records[n] IN
        /\ ToSet(s) = {rr \in RR : Places(n, rr) # {}}
        /\ \A b \in DOMAIN s : \A a \in 1 .. b - 1 : MetBefore(n, s[a], s[b])

\* Even in a redis with records of older files nothing of the present ones is
\* missing, and every name is listed under its zone.
NothingIsMissing ==
    Loaded => \A k \in DOMAIN config.conf : LET z == config.conf[k] IN
        \A l \in ToSet(config.file[z]) :
            /\ l.name \in ToSet(store.names[z])
            /\ l.name \in Host => l.rr \in ToSet(store.records[l.name])

\* Loading the same files again (another server, or `smartDNS -t' beside the one
\* that serves, and however it ends) changes nothing of what a host name has.
ReloadChangesNothing ==
    [][full /\ full' => \A n \in Host : store'.records[n] = store.records[n]]_vars

\* No zone is listed, in redis or its dump, that has no ZONE_INFO, wherever a load
\* broke off: one such zone and zone_parse() would fail at it at every start.
ListedZonesHaveInfo ==
    \A s \in {store, dump} : \A k \in DOMAIN s.list : s.list[k] \in s.info

\* A load ends: with a server or without a master.
LoadEnds == pc \notin {"off", "serve"} ~> pc \in {"off", "serve"}
=============================================================================
