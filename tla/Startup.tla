------------------------------ MODULE Startup ------------------------------
(***************************************************************************)
(* What a start of smartDNS makes of its command line and of master.conf:  *)
(* get_options() argument by argument, the roles on which main() decides,  *)
(* zone_cfg_parse() line by line over the characters of the file           *)
(* (Tokenizer), and the zone files that zone_parse() opens.                *)
(*                                                                         *)
(* Strings are sequences of characters.  A line ends with a newline and a  *)
(* NUL.  redis begins empty and nobody else writes (Loading has the other  *)
(* cases), so that a call of the store is one step, or a part of one.      *)
(***************************************************************************)
EXTENDS Tokenizer

CONSTANTS
    Commands,   \* what may follow the name of the program
    Files,      \* what master.conf may hold
    ConfLen     \* CONF_FILE_LEN

CONF_FILE == <<"/", "etc", "/", "smartDNS", "/", "master.conf">>

\* The strings that fgets() returns: a NUL is at their end and nowhere else.
IsLine(l) == l # <<>> /\ \A p \in DOMAIN l : l[p] = NUL <=> p = Len(l)

\* CONF_FILE fits into its buffer, and a dot is a character.
ASSUME StartupAssumption == /\ Commands \subseteq Seq(Seq(Char))
                            /\ Files \subseteq Seq(Seq(Char))
                            /\ \A f \in Files : \A k \in DOMAIN f : IsLine(f[k])
                            /\ ConfLen \in Nat
                            /\ Len(CONF_FILE) < ConfLen
                            /\ Range(CONF_FILE) \union {"."} \subseteq Char

VARIABLES
    pc,         \* where main() is
    argv, i,    \* the arguments, and the next one
    role,       \* process_role, as the set of its members
    conf_file,  \* the configuration file; "" until -f or the default is taken
    file, n,    \* its lines, and the next one
    multi_comm, \* inside a comment over several lines?
    zone_info,  \* the zone that is being read
    redis,      \* has start_monitor() been called?
    info, list, \* in redis: the ZONE_INFOs, REDIS_AU_ZONE_LIST
    todo,       \* zone_parse(): the zones to be parsed
    opened,     \* history: the zone files it has tried to open
    error       \* history: why main() exits with EXIT_FAILURE, or "none"

command == <<argv, i, role>>
parser == <<conf_file, file, n, multi_comm, zone_info>>
store == <<info, list>>
zones == <<todo, opened>>
vars == <<pc, command, parser, redis, store, zones, error>>

Exclusive == {"MASTER", "MONITOR", "WORKER"}       \* PROCESS_ROLE_EXCLUSION_MASK
Inclusive == {"SIGNALLER", "HELPER", "TESTER"}
String == Seq(Char)
ZoneInfo == [name : String, dev_type : {0, 1}, file : String]
Cleared == [name |-> <<>>, dev_type |-> 0, file |-> <<>>]

TypeOK ==
    /\ pc \in {"options", "conf", "lines", "list", "zones", "loaded", "serve", "exit"}
    /\ argv \in Seq(String)
    /\ i \in 1 .. Len(argv) + 1
    /\ role \subseteq Exclusive \union Inclusive
    /\ Cardinality(role \intersect Exclusive) = 1
    /\ conf_file \in String
    /\ Len(conf_file) < ConfLen
    /\ file \in Seq(String)
    /\ n \in 1 .. Len(file) + 1
    /\ multi_comm \in BOOLEAN
    /\ zone_info \in ZoneInfo
    /\ {Len(zone_info.name), Len(zone_info.file)} \subseteq 0 .. TokenMax - 1
    /\ redis \in BOOLEAN
    /\ info \subseteq ZoneInfo
    /\ {list, todo} \subseteq Seq(String)
    /\ opened \subseteq String
    /\ error \in {"none", "option", "monitor", "open", "format", "store", "zone"}

Init ==
    /\ pc = "options"
    /\ argv \in Commands
    /\ i = 1
    /\ role = {"MASTER"}
    /\ conf_file = <<>>
    /\ file = <<>>
    /\ n = 1
    /\ multi_comm = FALSE
    /\ zone_info = Cleared
    /\ redis = FALSE
    /\ info = {}
    /\ list = <<>>
    /\ todo = <<>>
    /\ opened = {}
    /\ error = "none"

Exit(why) == pc' = "exit" /\ error' = why

-----------------------------------------------------------------------------
(* The command line                                                         *)

\* Mutation: the new role replaces what there was.
WithRole_Replaced(new) == new

\* SET_PROCESS_ROLE: of MASTER, MONITOR and WORKER a process is one, the others add
\* up.
WithRole(new) ==
    new \union (IF new \intersect Exclusive = {} THEN role ELSE role \ Exclusive)

\* IS_PROCESS_ROLE
IsRole(which) ==
    /\ which \intersect Exclusive # {} =>
          which \intersect Exclusive = role \intersect Exclusive
    /\ which \intersect Inclusive # {} => which \intersect role # {}

\* get_option_type(): the options are single characters; "0" for any other argument.
OptionType(arg) ==
    IF Len(arg) = 2 /\ arg[1] = "-" /\ arg[2] \in {"?", "h", "t", "f", "s"}
       THEN arg[2] ELSE "0"

\* check_option_val()
HasValue == i < Len(argv) /\ argv[i + 1] # <<>> /\ Head(argv[i + 1]) # "-"

Signals == {<<"stop">>, <<"quit">>, <<"reopen">>, <<"reload">>}

Take(count) == i' = i + count /\ UNCHANGED <<pc, error>>

\* Mutation: the value is copied without the bound.
CutTo_NoBound(arg) == arg

\* snprintf() into conf_file
CutTo(arg) == SubSeq(arg, 1, Min({Len(arg), ConfLen - 1}))

\* One turn of the loop of get_options()
ReadOption ==
    /\ pc = "options"
    /\ i <= Len(argv)
    /\ LET type == OptionType(argv[i]) IN
       \/ type \in {"?", "h"} /\ role' = WithRole({"HELPER"}) /\ Take(1)
          /\ UNCHANGED conf_file
       \/ type = "t" /\ role' = WithRole({"TESTER"}) /\ Take(1) /\ UNCHANGED conf_file
       \/ type = "f" /\ HasValue /\ conf_file' = CutTo(argv[i + 1]) /\ Take(2)
          /\ UNCHANGED role
       \/ type = "s" /\ HasValue /\ role' = WithRole({"SIGNALLER"})
          /\ UNCHANGED conf_file
          /\ IF argv[i + 1] \in Signals THEN Take(2) ELSE Exit("option") /\ UNCHANGED i
       \/ type \in {"0", "f", "s"} /\ (type # "0" => ~HasValue)
          /\ Exit("option") /\ UNCHANGED <<i, role, conf_file>>
    /\ UNCHANGED <<argv, file, n, multi_comm, zone_info, redis, store, zones>>

\* The two roles that end here, and start_monitor(), which starts redis and waits for
\* it, or fails.
OptionsEnd ==
    /\ pc = "options"
    /\ i > Len(argv)
    /\ IF IsRole({"SIGNALLER"}) \/ IsRole({"HELPER"})
          THEN Exit("none") /\ UNCHANGED redis
          ELSE /\ redis' = TRUE
               /\ (pc' = "conf" /\ UNCHANGED error) \/ Exit("monitor")
    /\ UNCHANGED <<command, parser, store, zones>>

-----------------------------------------------------------------------------
(* master.conf                                                              *)

OpenConf ==
    /\ pc = "conf"
    /\ conf_file' = IF conf_file = <<>> THEN CONF_FILE ELSE conf_file
    /\ \/ file' \in Files /\ pc' = "lines" /\ UNCHANGED error
       \/ Exit("open") /\ UNCHANGED file
    /\ UNCHANGED <<command, n, multi_comm, zone_info, redis, store, zones>>

\* The store with the zone that has been read
WithInfo == {z \in info : z.name # zone_info.name} \union {zone_info}
WithName == IF zone_info.name \in Range(list) THEN list ELSE Append(list, zone_info.name)

\* save_zone_info(): two calls, or none for the zone before the first
SaveZone ==
    IF zone_info.name = <<>> THEN UNCHANGED store
                             ELSE info' = WithInfo /\ list' = WithName

\* One of the calls fails, with its effect or without.
SaveFails ==
    /\ zone_info.name # <<>>
    /\ \/ UNCHANGED store
       \/ info' = WithInfo /\ list' \in {list, WithName}
    /\ Exit("store")

\* create_zone_info(): the name gets its dot unless it ends in one or fills the
\* buffer.  For an empty name the byte before the buffer is looked at.
Absolute(token) ==
    IF token = <<>> THEN {<<>>, <<".">>}
    ELSE IF Last(token) = "." \/ Len(token) >= TokenMax - 1 THEN {token}
    ELSE {Append(token, ".")}

\* The handlers of s_cfg_type_arr: what zone_info may be after a value.
Handled(key, token) ==
    CASE key = <<"zone">> -> {[Cleared EXCEPT !.name = a] : a \in Absolute(token)}
      [] key = <<"type">> ->
            {[zone_info EXCEPT !.dev_type = IF token = <<"master">> THEN 1 ELSE 0]}
      [] key = <<"file">> -> {[zone_info EXCEPT !.file = token]}

Keys == {<<"zone">>, <<"type">>, <<"file">>}

\* A line without a key, in a comment, or the beginning or the end of one.  In a
\* comment a line is in error like any other.
SkipLine(r) ==
    /\ multi_comm' = (multi_comm # r.multi)
    /\ \/ r.ret = "RET_ERR" /\ Exit("format") /\ UNCHANGED n
       \/ r.ret # "RET_ERR" /\ (multi_comm' \/ r.ret = "RET_ENDLINE")
          /\ n' = n + 1 /\ UNCHANGED <<pc, error>>
    /\ UNCHANGED <<zone_info, store>>

\* get_token_handler() and the handler
HandleLine(r) ==
    /\ r.ret = "RET_OK" /\ ~multi_comm
    /\ \/ r.token \notin Keys
          /\ Exit("format") /\ UNCHANGED <<n, zone_info, store>>
       \/ /\ r.token \in Keys
          /\ IF r.token = <<"zone">> THEN SaveZone ELSE UNCHANGED store
          /\ \E v \in get_a_token_str(file[n], r.next) :
                IF v.ret = "RET_OK"
                   THEN /\ zone_info' \in Handled(r.token, v.token)
                        /\ n' = n + 1 /\ UNCHANGED <<pc, error>>
                   ELSE Exit("format") /\ UNCHANGED <<n, zone_info>>
       \/ r.token = <<"zone">> /\ SaveFails /\ UNCHANGED <<n, zone_info>>
    /\ UNCHANGED multi_comm

\* One turn of the loop of zone_cfg_parse()
ReadLine ==
    /\ pc = "lines"
    /\ n <= Len(file)
    /\ \E r \in get_a_token_str(file[n], 1) : SkipLine(r) \/ HandleLine(r)
    /\ UNCHANGED <<command, conf_file, file, redis, zones>>

\* Mutation: the zone that the end of the file ends is not saved.
ConfEnds_NotSaved ==
    /\ pc = "lines"
    /\ n > Len(file)
    /\ pc' = "list"
    /\ UNCHANGED <<command, parser, redis, store, zones, error>>

\* The last zone has no successor to save it.
ConfEnds ==
    /\ pc = "lines"
    /\ n > Len(file)
    /\ \/ SaveZone /\ pc' = "list" /\ UNCHANGED error
       \/ SaveFails
    /\ UNCHANGED <<command, parser, redis, zones>>

-----------------------------------------------------------------------------
(* The zone files                                                           *)

\* strlen(dirname(path)): up to the last slash, without it; 1 for "/", and for the
\* "." of a path without a slash.
DirLen(path) ==
    Max({1} \union {p \in DOMAIN path :
        /\ path[p] # "/"
        /\ \E s \in p + 1 .. Len(path) : /\ path[s] = "/"
                                         /\ \E q \in s + 1 .. Len(path) : path[q] # "/"})

\* Mutation: the name of a zone file is taken as it stands.
Path_AsGiven(name) == name

\* parse_zone_file(): as many characters of conf_file as its directory has, and the
\* name of the zone file
Path(name) == SubSeq(conf_file, 1, DirLen(conf_file)) \o <<"/">> \o name

\* traverse_binary_str() in zone_parse(): without a connection an error, without an
\* answer no zones.
ReadList ==
    /\ pc = "list"
    /\ \/ todo' = list /\ pc' = "zones" /\ UNCHANGED error
       \/ pc' = "loaded" /\ UNCHANGED <<todo, error>>
       \/ Exit("store") /\ UNCHANGED todo
    /\ UNCHANGED <<command, parser, redis, store, opened>>

\* dispose_binary_in_str() gets the ZONE_INFO or fails; parse_zone_file() refuses it
\* without a file, opens that, or fails to, and accepts or refuses what is in it.
ParseZone ==
    /\ pc = "zones"
    /\ todo # <<>>
    /\ \/ Exit("store") /\ UNCHANGED zones
       \/ \E z \in info :
             /\ z.name = Head(todo)
             /\ \/ z.file = <<>> /\ Exit("zone") /\ UNCHANGED zones
                \/ /\ z.file # <<>>
                   /\ opened' = opened \union {Path(z.file)}
                   /\ \/ todo' = Tail(todo) /\ UNCHANGED <<pc, error>>
                      \/ Exit("zone") /\ UNCHANGED todo
    /\ UNCHANGED <<command, parser, redis, store>>

ZonesEnd ==
    /\ pc = "zones"
    /\ todo = <<>>
    /\ pc' = "loaded"
    /\ UNCHANGED <<command, parser, redis, store, zones, error>>

\* The tester ends, the others go on to start_worker().
Loaded ==
    /\ pc = "loaded"
    /\ IF IsRole({"TESTER"}) THEN Exit("none") ELSE pc' = "serve" /\ UNCHANGED error
    /\ UNCHANGED <<command, parser, redis, store, zones>>

Next == ReadOption \/ OptionsEnd \/ OpenConf \/ ReadLine \/ ConfEnds \/ ReadList
        \/ ParseZone \/ ZonesEnd \/ Loaded

Spec == Init /\ [][Next]_vars

-----------------------------------------------------------------------------
\* The command line as a whole: it is read from the left, and a value never begins
\* with a dash.
Options == {argv[k] : k \in DOMAIN argv}
Values == {k \in 2 .. Len(argv) : argv[k - 1] = <<"-", "f">>}
Given == IF Values = {} THEN CONF_FILE ELSE argv[Max(Values)]

\* Whatever else is on the command line, and in which order, -s, -h and -? never
\* start a redis or touch the configuration, and -t never starts a server.
RolesAsGiven ==
    /\ redis => Options \intersect {<<"-", "s">>, <<"-", "h">>, <<"-", "?">>} = {}
    /\ pc = "serve" => <<"-", "t">> \notin Options

\* The tokens that calls one after the other take out of a line of master.conf are
\* those that stand in it, and they fail where and only where it is in error: no
\* character more or less, whatever touches what.
TokensAsDocumented ==
    pc = "lines" /\ n <= Len(file) /\ Closed(file[n]) =>
        /\ Taken(file[n]) = Written(file[n])
        /\ Failed(file[n]) <=> Errors(file[n]) # {}

\* The signs of comments over several lines, which stand alone in a line
Opens(l) == Written(l) = <<>> /\ <<l[Stop(l)], l[Stop(l) + 1]>> = <<"/", "*">>
Closes(l) == Written(l) = <<>> /\ <<l[Stop(l)], l[Stop(l) + 1]>> = <<"*", "/">>
InComment(k) ==
    \E a \in 1 .. k - 1 : Opens(file[a]) /\ \A b \in a + 1 .. k - 1 : ~Closes(file[b])

\* The lines that count, those of a key, and of a zone
Counts(k) == ~InComment(k) /\ Written(file[k]) # <<>>
LinesOf(key) == {k \in DOMAIN file : Counts(k) /\ Head(Written(file[k])) = key}
Block(k) == {b \in k + 1 .. Len(file) : LinesOf(<<"zone">>) \intersect k + 1 .. b = {}}
ValueIn(k, key, default) ==
    LET own == LinesOf(key) \intersect Block(k)
    IN  IF own = {} THEN default ELSE Written(file[Max(own)])[2]

NameOf(k) == CHOOSE a \in Absolute(Written(file[k])[2]) : TRUE
ZoneAt(k) ==
    [name |-> NameOf(k),
     dev_type |-> IF ValueIn(k, <<"type">>, <<>>) = <<"master">> THEN 1 ELSE 0,
     file |-> ValueIn(k, <<"file">>, <<>>)]
ZonesWritten ==
    {ZoneAt(k) : k \in {a \in LinesOf(<<"zone">>) :
        \A b \in LinesOf(<<"zone">>) : b > a => NameOf(b) # NameOf(a)}}

\* A file that keeps to the rules at the head of master.conf, as far as lines and
\* comments go, and one in which the lines are right as well
Regular ==
    \A k \in DOMAIN file :
        /\ Closed(file[k])
        /\ Opens(file[k]) => ~InComment(k)
        /\ Closes(file[k]) => InComment(k)
Correct ==
    /\ Regular
    /\ \A k \in DOMAIN file :
          /\ Errors(file[k]) = {}
          /\ Counts(k) => Head(Written(file[k])) \in Keys /\ Len(Written(file[k])) > 1

Named == \A k \in LinesOf(<<"zone">>) : Written(file[k])[2] # <<>>

\* An accepted file has put into redis the zones written in it, the last one of a
\* name, each with its own type and file and nothing of its neighbours or of a
\* comment, and each once in the list; and a correct file is accepted.  A zone
\* without a name is left to the byte before a buffer.
ConfAsWritten ==
    /\ pc = "list" /\ Regular /\ Named =>
          /\ info = ZonesWritten
          /\ {z.name : z \in info} = Range(list)
          /\ Len(list) = Cardinality(info)
    /\ error = "format" => ~Correct

LastSlash(path) == Max({k \in DOMAIN path : path[k] = "/"})

\* What follows the last -f is the name of the configuration file, if it fits, and zone
\* files are looked for in the directory that this name has, in front of the last slash,
\* which may be several, and nowhere else.  A name without a slash has none, and its
\* first character is taken for one: where the current directory is meant, that is right
\* only of a name that begins with a dot, and ZoneFilesBesidePlainConf fails.  A name
\* that ends in a slash is not that of a file.
ZoneFilesBesideConf ==
    \A path \in opened :
        /\ Len(Given) < ConfLen => conf_file = Given
        /\ Last(conf_file) # "/" => \E z \in info :
              IF "/" \in Range(conf_file)
                 THEN \E d \in 1 .. LastSlash(conf_file) :
                         /\ \A k \in d + 1 .. LastSlash(conf_file) : conf_file[k] = "/"
                         /\ path = SubSeq(conf_file, 1, d) \o <<"/">> \o z.file
                 ELSE path = <<conf_file[1]>> \o <<"/">> \o z.file

\* zone.h:66: the zone files are in the directory of the master.conf.  -f master.conf
\* names one in the current directory (option.h:9 asks for no more), but of its name
\* the first character is left and taken for the directory.
ZoneFilesBesidePlainConf ==
    Len(Given) < ConfLen /\ "/" \notin Range(Given) =>
        \A path \in opened : \E z \in info : path \in {z.file, <<".", "/">> \o z.file}
=============================================================================
