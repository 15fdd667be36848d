------------------------------ MODULE ZoneFile ------------------------------
(***************************************************************************)
(* parse_zone_file(): one zone file, line by line, into redis              *)
(* (zone_parse.c).  The parser is a machine over lines, BEFORE_SOA to      *)
(* NORMAL_RR; in a record line it is a loop over tokens that writes into   *)
(* the RR_INFO of the record before; a record is stored by two calls of    *)
(* the store, each of which may fail, with or without effect (AtomicStore).*)
(*                                                                         *)
(* A line is the sequence of the tokens that get_a_token_str() returns for *)
(* it, up to a comment, a bracket or its end.  A token is a string; what a *)
(* function makes of its characters is given by the constants, but for     *)
(* times and numbers (Durations).                                          *)
(***************************************************************************)
EXTENDS Durations

CONSTANTS
    Token,      \* the tokens that occur in files
    ZoneName,   \* ZONE_INFO.name, with its dot at the end
    Absolute,   \* names that end in a dot
    Full,       \* any other name, the empty one too -> the name made absolute
    Texts,      \* strings that translate_to_int() may be given
    Spelling,   \* the tokens of digits and units only -> their characters; a name
                \* such as www is one, any other token has a character besides
    Address,    \* tokens inet_pton() takes
    Line,       \* the lines this instance has
    MaxLines    \* bound: lines of a file

Invalid == "'"   \* stands for a token at which get_a_token() fails
None == "none"   \* a type, a class or an address of 0
RRKey == {"A", "IN"}

ASSUME TokenAssumption ==
    /\ {"A", "IN", "SOA", "@", "$TTL", "$ORIGIN", Invalid} \subseteq Token
    /\ "" \notin Token
    /\ ZoneName \in Absolute
    /\ Full \in [(Token \ Absolute) \union {""} -> Absolute \ {""}]
    /\ Texts \subseteq Seq(Digit \union Unit \union Other)
    /\ DOMAIN Spelling \subseteq Token /\ \A t \in DOMAIN Spelling : Spelling[t] \in Texts
    /\ Address \subseteq Token /\ None \notin Address
    /\ Invalid \notin DOMAIN Spelling \union Address
    /\ RRKey \intersect (DOMAIN Spelling \union Address) = {}
    /\ DOMAIN Spelling \intersect Address = {}
    /\ Line \subseteq Seq(Token)
ASSUME MaxLinesAssumption == MaxLines \in Nat

\* Tokens that translate_to_int() takes, and what it makes of them
Duration ==
    [t \in {d \in DOMAIN Spelling : translate_to_int(Spelling[d]) # RET_ERR} |->
        translate_to_int(Spelling[t])]

\* Tokens made of digits, and what atoi() makes of them
Number == [t \in {d \in DOMAIN Spelling : is_digit(Spelling[d])} |-> Duration[t]]

\* The states of the machine, zone_parse.h.
BEFORE_SOA  == 0
SOA_RR      == 1
SERIAL      == 2
MINIMUM     == 6
SOA_RR_END  == 7
NORMAL_RR   == 8

Field == SERIAL .. MINIMUM  \* of the SOA record, in the order of the file

VARIABLES
    pc,         \* where parse_zone_file() is
    state,      \* parse_machine_state
    tokens,     \* what parse_rr() has left of its line
    need_data,  \* has parse_rr() seen a token of its line?
    rr,         \* rr_info, which lives as long as the file is open
    zone,       \* the ZONE_INFO under construction; its fields that are only
                \* printed are left out
    served,     \* redis: the records, each under its name
    listed,     \* redis: the names of the zone's hash field
    saved,      \* redis: the ZONE_INFO
    lines,      \* history: the lines parse_rr() has found a token in
    read,       \* history: all lines read
    count,      \* their number
    ret         \* return value

redis == <<served, listed, saved>>
vars == <<pc, state, tokens, need_data, rr, zone, redis, lines, read, count, ret>>

\* RR_INFOs whose name is one of these
RecordWith(names) ==
    [name : names, type : {"A", None}, rr_class : {"IN", None}, ttl : Nat,
     data : Address \union {None}]

\* What is stored
RR == RecordWith(Absolute)

TypeOK ==
    /\ pc \in {"fopen", "fgets", "token", "append", "list", "done"}
    /\ state \in {BEFORE_SOA, SOA_RR_END, NORMAL_RR} \union Field
    /\ tokens \in Seq(Token)
    /\ need_data \in BOOLEAN
    /\ rr \in RecordWith(Token \union Absolute \union {""})
    /\ pc \in {"append", "list"} => rr \in RR
    /\ {zone, saved} \subseteq [default_ttl : Nat, soa : [Field -> Nat]]
    /\ served \subseteq RR
    /\ listed \subseteq Absolute
    /\ lines \in Seq(Seq(Token))
    /\ read \subseteq Line
    /\ count \in 0 .. MaxLines
    /\ ret \in {"RET_OK", "RET_ERR"}

\* memset() of rr_info, and the ZONE_INFO that zone_cfg_parse() has saved.
Init ==
    /\ pc = "fopen"
    /\ state = BEFORE_SOA
    /\ tokens = <<>>
    /\ need_data = FALSE
    /\ rr = [name |-> "", type |-> None, rr_class |-> None, ttl |-> 0, data |-> None]
    /\ zone = [default_ttl |-> 0, soa |-> [f \in Field |-> 0]]
    /\ served = {}
    /\ listed = {}
    /\ saved = zone
    /\ lines = <<>>
    /\ read = {}
    /\ count = 0
    /\ ret = "RET_ERR"

parser == <<state, tokens, need_data, rr, zone, lines, read, count>>

Return(value) == pc' = "done" /\ ret' = value

\* A zone without a name or a file is refused, like a file that does not open.
Open ==
    /\ pc = "fopen"
    /\ \/ pc' = "fgets" /\ UNCHANGED ret
       \/ Return("RET_ERR")
    /\ UNCHANGED <<parser, redis>>

\* fgets() meets the end of the file, in whatever state the machine is.
EndOfFile ==
    /\ pc = "fgets"
    /\ Return("RET_OK")
    /\ UNCHANGED <<parser, redis>>

Fgets(line) ==
    /\ pc = "fgets"
    /\ count < MaxLines
    /\ count' = count + 1
    /\ read' = read \union {line}

\* parse_soa_rr() on the first line of the SOA record: six tokens, in this order.
IsSoa(line) ==
    /\ Len(line) >= 6
    /\ \A i \in 1 .. 6 : line[i] # Invalid
    /\ line[1] \in {"@", ZoneName}
    /\ line[2] \in DOMAIN Duration
    /\ line[3] = "IN"
    /\ line[4] = "SOA"

HeaderKey == {"$TTL", "$ORIGIN"}

\* The first token of a line, none or one
Key(line) == {line[i] : i \in DOMAIN line \intersect {1}}

\* The header.  An error in $TTL or $ORIGIN goes unnoticed: nothing looks at what
\* the handler returns.
ReadHeader(line) ==
    /\ Fgets(line)
    /\ state = BEFORE_SOA
    /\ \/ /\ Key(line) \subseteq HeaderKey
          /\ IF Len(line) > 1 /\ line[1] = "$TTL" /\ line[2] \in DOMAIN Number
                THEN zone' = [zone EXCEPT !.default_ttl = Number[line[2]]]
                ELSE UNCHANGED zone
          /\ UNCHANGED <<pc, state, ret>>
       \/ /\ ~(Key(line) \subseteq HeaderKey)
          /\ IF IsSoa(line) THEN state' = SERIAL /\ UNCHANGED <<pc, ret>>
                            ELSE Return("RET_ERR") /\ UNCHANGED state
          /\ UNCHANGED zone
    /\ UNCHANGED <<tokens, need_data, rr, redis, lines>>

\* The five numbers of the SOA record, each on a line of its own.  A line is one of them
\* if its first token is made of digits and units; what follows on it is not read.
ReadSoa(line) ==
    /\ Fgets(line)
    /\ state \in Field
    /\ \/ /\ Key(line) \intersect DOMAIN Duration # {}
          /\ zone' = [zone EXCEPT !.soa[state] = Duration[line[1]]]
          /\ state' = state + 1
          /\ UNCHANGED <<pc, ret>>
       \/ /\ Key(line) \intersect DOMAIN Duration = {}
          /\ Return("RET_ERR")
          /\ UNCHANGED <<state, zone>>
    /\ UNCHANGED <<tokens, need_data, rr, redis, lines>>

\* Mutation: nothing is cleared before a line.
Cleared_Not == rr

\* What parse_rr() keeps of the record before.
Cleared == [rr EXCEPT !.type = None, !.data = None]

\* A line of the records.  The line after the SOA record's numbers, meant for its
\* closing bracket, is one as well: it is save_zone_info(), which may fail unnoticed,
\* and then parse_rr() on the same line.
ReadRR(line) ==
    /\ Fgets(line)
    /\ state \in {SOA_RR_END, NORMAL_RR}
    /\ state' = NORMAL_RR
    /\ rr' = Cleared
    /\ tokens' = line
    /\ need_data' = FALSE
    /\ lines' = IF line = <<>> THEN lines ELSE Append(lines, line)
    /\ pc' = "token"
    /\ saved' \in IF state = SOA_RR_END THEN {saved, zone} ELSE {saved}
    /\ UNCHANGED <<zone, served, listed, ret>>

\* One turn of the loop of parse_rr(): the handler of a key; NAME, if it is the
\* first token; TTL, if it is a number; RDATA.
ReadToken ==
    /\ pc = "token"
    /\ tokens # <<>>
    /\ tokens' = Tail(tokens)
    /\ need_data' = TRUE
    /\ LET token == Head(tokens) IN
       \/ token = "A" /\ rr' = [rr EXCEPT !.type = "A"] /\ UNCHANGED <<pc, ret>>
       \/ token = "IN" /\ rr' = [rr EXCEPT !.rr_class = "IN"] /\ UNCHANGED <<pc, ret>>
       \/ /\ token \notin RRKey \union {Invalid} /\ ~need_data
          /\ rr' = [rr EXCEPT !.name = token]
          /\ UNCHANGED <<pc, ret>>
       \/ /\ token \in DOMAIN Number \ (RRKey \union {Invalid}) /\ need_data
          /\ rr' = [rr EXCEPT !.ttl = Number[token]]
          /\ UNCHANGED <<pc, ret>>
       \/ /\ token \notin DOMAIN Number \union RRKey \union {Invalid} /\ need_data
          /\ IF rr.type = "A" /\ token \in Address
                THEN rr' = [rr EXCEPT !.data = token] /\ UNCHANGED <<pc, ret>>
                ELSE Return("RET_ERR") /\ UNCHANGED rr
       \/ token = Invalid /\ Return("RET_ERR") /\ UNCHANGED rr
    /\ UNCHANGED <<state, zone, redis, lines, read, count>>

\* Mutation: a relative name is not made absolute.
Expanded_Not == {rr.name}

\* The name with the zone's appended, unless it ends in a dot.  Of an empty name
\* the character before its first is looked at, whatever that is.
Expanded ==
    IF rr.name \in DOMAIN Full
       THEN {Full[rr.name]} \union IF rr.name = "" THEN {""} ELSE {}
       ELSE {rr.name}

\* The end of the line: nothing, or the default TTL, the name, and save_rr_info(),
\* which passes over a record without a name.
EndOfLine ==
    /\ pc = "token"
    /\ tokens = <<>>
    /\ \/ ~need_data /\ pc' = "fgets" /\ UNCHANGED rr
       \/ /\ need_data
          /\ \E name \in Expanded :
                /\ rr' = [rr EXCEPT !.name = name,
                                    !.ttl = IF @ = 0 THEN zone.default_ttl ELSE @]
                /\ pc' = IF name = "" THEN "fgets" ELSE "append"
    /\ UNCHANGED <<state, tokens, need_data, zone, redis, lines, read, count, ret>>

\* Mutation: the result of append_binary_to_str() is not looked at.
AppendRR_Ignored ==
    /\ pc = "append"
    /\ served' = served \union {rr} \/ UNCHANGED served
    /\ pc' = "list"
    /\ UNCHANGED <<parser, listed, saved, ret>>

\* append_binary_to_str() of the record to the list under its name.
AppendRR ==
    /\ pc = "append"
    /\ \/ served' = served \union {rr} /\ pc' = "list" /\ UNCHANGED ret
       \/ served' \in {served, served \union {rr}} /\ Return("RET_ERR")
    /\ UNCHANGED <<parser, listed, saved>>

\* Mutation: the result of append_binary_in_hash() is not looked at.
ListName_Ignored ==
    /\ pc = "list"
    /\ listed' = listed \union {rr.name} \/ UNCHANGED listed
    /\ pc' = "fgets"
    /\ UNCHANGED <<parser, served, saved, ret>>

\* append_binary_in_hash() of the name to the names of the zone.
ListName ==
    /\ pc = "list"
    /\ \/ listed' = listed \union {rr.name} /\ pc' = "fgets" /\ UNCHANGED ret
       \/ listed' \in {listed, listed \union {rr.name}} /\ Return("RET_ERR")
    /\ UNCHANGED <<parser, served, saved>>

Next ==
    \/ Open \/ EndOfFile
    \/ \E line \in Line : ReadHeader(line) \/ ReadSoa(line) \/ ReadRR(line)
    \/ ReadToken \/ EndOfLine \/ AppendRR \/ ListName

Spec == Init /\ [][Next]_vars

-----------------------------------------------------------------------------
(* What a file means, read off its lines rather than token by token.        *)

\* The last index of a set, 0 if there is none
Last(S) == IF S = {} THEN 0 ELSE CHOOSE i \in S : \A j \in S : j <= i

\* NAME is the first token that is no key, or the name of the lines before.
NameOf(i) ==
    LET j == Last({k \in 1 .. i : lines[k][1] \notin RRKey})
        name == IF j = 0 THEN "" ELSE lines[j][1]
    IN  IF name \in DOMAIN Full THEN Full[name] ELSE name

\* The tokens of a line that are not its name
Rest(i) == {lines[i][k] : k \in 2 .. Len(lines[i])} \union (RRKey \intersect {lines[i][1]})

ClassOf(i) == IF \E k \in 1 .. i : "IN" \in Rest(k) THEN "IN" ELSE None

\* The numbers of a line, of which the last one counts
Numbers(i) == {k \in 2 .. Len(lines[i]) : lines[i][k] \in DOMAIN Number}
GivesTtl(i) == Numbers(i) # {}
OwnTtl(i) == Number[lines[i][Last(Numbers(i))]]

\* Is r the record of line i?
IsRecordOf(r, i) ==
    /\ r.name = NameOf(i)
    /\ r.type = IF "A" \in Rest(i) THEN "A" ELSE None
    /\ r.rr_class = ClassOf(i)
    /\ r.data \in Address => r.data \in Rest(i)
    /\ r.data \notin Address => Rest(i) \intersect Address = {}

\* ... with the TTL that the line gives; or that of $TTL, if neither the line nor one
\* before it gives any?
AsWritten(r, i) ==
    /\ IsRecordOf(r, i)
    /\ GivesTtl(i) /\ OwnTtl(i) # 0 => r.ttl = OwnTtl(i)
    /\ (\A k \in 1 .. i : ~GivesTtl(k)) => r.ttl = zone.default_ttl

\* A record that is served is the record of a line, with that line's type, address
\* and TTL, and the name and class it gives or inherits: never a mixture of lines,
\* for all that one RR_INFO is filled again and again.  A line without a TTL has that
\* of $TTL, as long as no line before it gives another; for what zone.h wants besides
\* and the code does not do, see TtlAsDocumented.
ServedAsWritten == \A r \in served : \E i \in DOMAIN lines : AsWritten(r, i)

\* A line that names an address: no header, and not the SOA record's first
IsAddressLine(line) ==
    /\ Key(line) \intersect (RRKey \union HeaderKey) = {}
    /\ "A" \in Range(line) /\ "SOA" \notin Range(line)
    /\ Range(line) \intersect Address # {}

\* An accepted file is a loaded one: for RET_OK, every line read that names an address
\* has come to parse_rr(), unless it begins with a token that the SOA record takes for
\* a number; and every line that has come there and has a name has its record served
\* and its name listed, whatever failed on the way.
LoadedIfAccepted ==
    pc = "done" /\ ret = "RET_OK" =>
        /\ \A line \in read : IsAddressLine(line) =>
              line \in Range(lines) \/ Key(line) \subseteq DOMAIN Duration
        /\ \A i \in DOMAIN lines : NameOf(i) # Full[""] =>
              /\ \E r \in served : AsWritten(r, i)
              /\ NameOf(i) \in listed

\* zone.h:50: the numbers in the SOA record's brackets are mandatory, so that a file
\* that lacks one is refused.  But a name made of units only, such as www, is taken for
\* the number, and the file is accepted without that name's record: not every address
\* of an accepted file is served.
AcceptedInFull ==
    pc = "done" /\ ret = "RET_OK" =>
        \A line \in read : IsAddressLine(line) => \E r \in served : r.data \in Range(line)

\* zone.h:34-36: a record for which no TTL is given has that of $TTL, or without one
\* the SOA record's minimum.  The code gives it the TTL of the line before, or 0.
TtlAsDocumented ==
    \A r \in served : r.data \in Address => \E i \in DOMAIN lines :
        /\ AsWritten(r, i)
        /\ ~GivesTtl(i) => r.ttl = IF zone.default_ttl # 0 THEN zone.default_ttl
                                   ELSE zone.soa[MINIMUM]

\* No name is listed under the zone before a record is served under the name, so
\* that print_parse_res() finds what it goes through.
ListedIsServed == listed \subseteq {r.name : r \in served}

\* zone_parse.c:166: w, d, h and m are weeks, days, hours and minutes, in any order
\* and number, each for the digits in front of it only, and digits without a unit the
\* number that they write; a string is refused only for another character.  (Looked at
\* once, before the file is opened.)
TimesAsDocumented ==
    pc = "fopen" => \A val \in Texts : translate_to_int(val) = Documented(val)
=============================================================================
