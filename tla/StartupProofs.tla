--------------------------- MODULE StartupProofs ---------------------------
(***************************************************************************)
(* Theorems about Startup, for all command lines and configurations: what  *)
(* a process never does when -s, -h, -? or -t is among its options; that   *)
(* the tokenizer stays in its line and the tokens in their buffers; where  *)
(* the zone files are looked for; that calls of the tokenizer take out of  *)
(* a line the tokens that stand in it; and that an accepted master.conf    *)
(* has put into redis the zones that are written in it.                    *)
(***************************************************************************)
EXTENDS Startup, Inductions, TLAPS

Asked(letter) == <<"-", letter>>

\* The option that has raised a flag is behind, and main() has looked at the flags
\* in its order.
RolesKept ==
    /\ argv \in Seq(String)
    /\ i \in Nat \ {0}
    /\ \A k \in 1 .. Len(argv) : k < i =>
          /\ argv[k] \in {Asked("h"), Asked("?")} => "HELPER" \in role
          /\ argv[k] = Asked("s") => "SIGNALLER" \in role
          /\ argv[k] = Asked("t") => "TESTER" \in role
    /\ pc = "options" => ~redis
    /\ pc \in {"conf", "lines", "list", "zones", "loaded", "serve"} => redis
    /\ redis => i > Len(argv) /\ "SIGNALLER" \notin role /\ "HELPER" \notin role
    /\ pc = "serve" => "TESTER" \notin role

\* The roles of get_options() add up, and IS_PROCESS_ROLE() tests for one of them.
LEMMA InclusiveRole ==
    ASSUME NEW r \in Inclusive
    PROVE  WithRole({r}) = role \union {r} /\ (IsRole({r}) <=> r \in role)
<1>1. {r} \intersect Exclusive = {} /\ {r} \intersect Inclusive = {r}
  BY DEF Inclusive, Exclusive
<1> QED
  BY <1>1 DEF WithRole, IsRole

\* get_option_type() knows each of the options.
LEMMA TypeOfOption ==
    ASSUME NEW letter \in {"?", "h", "t", "f", "s"}
    PROVE  OptionType(Asked(letter)) = letter
BY DEF OptionType, Asked

\* What is taken for a value is none of them.
LEMMA ValueIsNoOption ==
    ASSUME HasValue, NEW letter
    PROVE  argv[i + 1] # Asked(letter)
BY DEF HasValue, Asked

LEMMA ReadOptionKeeps ==
    ASSUME RolesKept, ReadOption
    PROVE  RolesKept'
<1>1. /\ argv' = argv /\ redis' = redis /\ ~redis /\ pc = "options"
      /\ pc' \in {"options", "exit"} /\ argv \in Seq(String) /\ i \in 1 .. Len(argv)
  BY DEF ReadOption, RolesKept, Take, Exit
<1> DEFINE Flags(k, r) ==
      /\ argv[k] \in {Asked("h"), Asked("?")} => "HELPER" \in r
      /\ argv[k] = Asked("s") => "SIGNALLER" \in r
      /\ argv[k] = Asked("t") => "TESTER" \in r
<1>2. \A k \in 1 .. Len(argv) : k < i => Flags(k, role)
  BY DEF RolesKept
<1>3. /\ WithRole({"HELPER"}) = role \union {"HELPER"}
      /\ WithRole({"TESTER"}) = role \union {"TESTER"}
      /\ WithRole({"SIGNALLER"}) = role \union {"SIGNALLER"}
  BY InclusiveRole DEF Inclusive
<1>4. /\ OptionType(Asked("h")) = "h" /\ OptionType(Asked("?")) = "?"
      /\ OptionType(Asked("s")) = "s" /\ OptionType(Asked("t")) = "t"
  BY TypeOfOption
<1>5. role \subseteq role'
  BY <1>3 DEF ReadOption
<1>6. i' \in {i, i + 1, i + 2}
  BY DEF ReadOption, Take
<1>7. i' # i => Flags(i, role')
  <2> HIDE DEF Flags
  <2>1. CASE OptionType(argv[i]) \in {"?", "h"} /\ role' = WithRole({"HELPER"})
    BY <2>1, <1>3, <1>4 DEF Flags
  <2>2. CASE OptionType(argv[i]) = "t" /\ role' = WithRole({"TESTER"})
    BY <2>2, <1>3, <1>4 DEF Flags
  <2>3. CASE OptionType(argv[i]) = "f"
    BY <2>3, <1>4 DEF Flags
  <2>4. CASE OptionType(argv[i]) = "s" /\ role' = WithRole({"SIGNALLER"})
    BY <2>4, <1>3, <1>4 DEF Flags
  <2> QED
    BY <2>1, <2>2, <2>3, <2>4 DEF ReadOption
<1>8. i' = i + 2 => Flags(i + 1, role')
  <2>1. i' = i + 2 => HasValue
    BY <1>1 DEF ReadOption, Take
  <2> QED
    BY <2>1, ValueIsNoOption
<1>9. \A k \in 1 .. Len(argv) : k < i' => Flags(k, role')
  <2> TAKE k \in 1 .. Len(argv)
  <2> HAVE k < i'
  <2>1. CASE k < i
    BY <2>1, <1>2, <1>5
  <2>2. CASE k = i
    BY <2>2, <1>7, <1>1
  <2>3. CASE k = i + 1
    BY <2>3, <1>8, <1>6, <1>1
  <2> QED
    BY <2>1, <2>2, <2>3, <1>6, <1>1
<1>10. i' \in Nat \ {0}
  BY <1>1, <1>6
<1> QED
  BY <1>1, <1>9, <1>10 DEF RolesKept

\* The order in which main() looks at the roles.
LEMMA RolesInductive == RolesKept /\ [Next]_vars => RolesKept'
<1> SUFFICES ASSUME RolesKept, [Next]_vars PROVE RolesKept'
  OBVIOUS
<1>1. CASE ReadOption
  BY <1>1, ReadOptionKeeps
<1>2. CASE OptionsEnd
  <2>1. IsRole({"SIGNALLER"}) <=> "SIGNALLER" \in role
    BY InclusiveRole DEF Inclusive
  <2>2. IsRole({"HELPER"}) <=> "HELPER" \in role
    BY InclusiveRole DEF Inclusive
  <2> QED
    BY <1>2, <2>1, <2>2 DEF OptionsEnd, Exit, RolesKept, command
<1>3. CASE Loaded
  <2>1. IsRole({"TESTER"}) <=> "TESTER" \in role
    BY InclusiveRole DEF Inclusive
  <2> QED
    BY <1>3, <2>1 DEF Loaded, Exit, RolesKept, command
<1>4. CASE UNCHANGED vars
  BY <1>4 DEF vars, command, RolesKept
<1>5. CASE OpenConf \/ ReadLine \/ ConfEnds \/ ReadList \/ ParseZone \/ ZonesEnd
  <2>1. UNCHANGED <<argv, i, role, redis>>
    BY <1>5 DEF OpenConf, ReadLine, ConfEnds, ReadList, ParseZone, ZonesEnd, command
  <2>2. pc \in {"conf", "lines", "list", "zones"}
    BY <1>5 DEF OpenConf, ReadLine, ConfEnds, ReadList, ParseZone, ZonesEnd
  <2>3. pc' \in {"conf", "lines", "list", "zones", "loaded", "exit"}
    <3>1. CASE OpenConf
      BY <3>1 DEF OpenConf, Exit
    <3>2. CASE ReadLine
      BY <3>2 DEF ReadLine, SkipLine, HandleLine, SaveFails, Exit
    <3>3. CASE ConfEnds
      BY <3>3 DEF ConfEnds, SaveFails, Exit
    <3>4. CASE ReadList
      BY <3>4 DEF ReadList, Exit
    <3>5. CASE ParseZone
      BY <3>5 DEF ParseZone, Exit
    <3>6. CASE ZonesEnd
      BY <3>6 DEF ZonesEnd
    <3> QED
      BY <1>5, <3>1, <3>2, <3>3, <3>4, <3>5, <3>6
  <2> QED
    BY <2>1, <2>2, <2>3 DEF RolesKept
<1> QED
  BY <1>1, <1>2, <1>3, <1>4, <1>5 DEF Next

\* Whatever a command line holds besides, in whichever order: with -s, -h or -? in
\* it no redis is started and no file read, and with -t no worker
\* (get_options(), SET_PROCESS_ROLE, IS_PROCESS_ROLE and the order of main()).
THEOREM OptionsAreHeeded == Spec => []RolesAsGiven
<1>1. Init => RolesKept
  BY StartupAssumption DEF Init, RolesKept, String
<1>2. RolesKept => RolesAsGiven
  BY DEF RolesKept, RolesAsGiven, Options, Asked
<1> QED
  BY <1>1, <1>2, RolesInductive, PTL DEF Spec

-----------------------------------------------------------------------------
(* The tokenizer: every call ends in the line, with a token that fits.      *)

\* The states in which a turn of get_a_token()'s loop may begin, and where the
\* beginning and the end of the token are then, p characters having been read
Machines == {"normal", "slash", "star", "d_quote", "end", "invalid"}
Rets == {"RET_OK", "RET_ERR", "RET_DQUOTE", "RET_COMMENT", "RET_MULTI_COMMENT",
         "RET_BRACE", "RET_ENDLINE"}
Scan == [machine : Machines, beg : Int, end : Int, ret : Rets]
Scanned(s, p) ==
    /\ s.machine = "normal" => s.beg \in 0 .. p /\ s.end = 0
    /\ s.machine \in {"slash", "star"} => s.beg \in 0 .. p - 1 /\ s.end = 0
    /\ s.machine = "d_quote" => s.beg \in 1 .. p + 1 /\ s.end = 0
    /\ s.machine = "invalid" => s.end = 0
    /\ s.machine = "end" => s.end = 0 \/ (1 <= s.beg /\ s.beg <= s.end /\ s.end <= p)

Kinds == {"comment", "refused", "star", "slash", "d_quote", "separate", "line_end", "brace",
          "normal"}

LEMMA KindIs == ASSUME NEW ch PROVE Kind(ch) \in Kinds
BY DEF Kind, Kinds

LEMMA PairIs ==
    /\ DOMAIN Pair = {"slash", "star"} /\ DOMAIN Pair["slash"] = {"slash", "star"}
    /\ DOMAIN Pair["star"] = {"slash"} /\ Pair["slash"]["slash"] = "slash_slash"
    /\ Pair["slash"]["star"] = "slash_star" /\ Pair["star"]["slash"] = "star_slash"
BY DEF Pair

LEMMA ReturnedIs ==
    /\ DOMAIN Returned = {"slash_slash", "slash_star", "star_slash", "brace", "comment", "line_end"}
    /\ \A m \in DOMAIN Returned : Returned[m] \in Rets
<1>1. DOMAIN Returned = {"slash_slash", "slash_star", "star_slash", "brace", "comment", "line_end"}
  BY DEF Returned
<1>2. /\ Returned["slash_slash"] = "RET_COMMENT" /\ Returned["slash_star"] = "RET_MULTI_COMMENT"
      /\ Returned["star_slash"] = "RET_MULTI_COMMENT" /\ Returned["brace"] = "RET_BRACE"
      /\ Returned["comment"] = "RET_COMMENT" /\ Returned["line_end"] = "RET_ENDLINE"
  BY DEF Returned
<1> QED
  BY <1>1, <1>2 DEF Rets

\* The states that Jump() leads to, those included that Finish() ends, and where the
\* token begins then; the character of a state other than "normal" is not part of it.
Passing == Machines \union
    {"slash_slash", "slash_star", "star_slash", "brace", "comment", "line_end", "separate",
     "d_quote_d_quote"}
Jumped(t, p) ==
    /\ t \in [machine : Passing, beg : Int, end : Int, ret : Rets]
    /\ t.machine # "end"
Begun(t, p) ==
    /\ t.end = 0
    /\ t.machine = "normal" => t.beg \in 0 .. p
    /\ t.machine = "d_quote" => t.beg \in 1 .. p + 1
    /\ t.machine \in {"slash", "star", "brace", "comment", "line_end", "separate"} =>
          t.beg \in 0 .. p - 1
    /\ t.machine \in {"slash_slash", "slash_star", "star_slash"} => t.beg \in 0 .. p - 2
    /\ t.machine = "d_quote_d_quote" => t.beg \in 1 .. p

\* One field of such a record set, and two
Rec(M) == [machine : M, beg : Int, end : Int, ret : Rets]

LEMMA FromIs ==
    ASSUME NEW s \in Scan, NEW p \in Int
    PROVE  /\ From(s, p) \in Scan
           /\ From(s, p).machine = s.machine /\ From(s, p).end = s.end
           /\ From(s, p).beg = IF s.beg = 0 THEN p ELSE s.beg
BY DEF From, Scan

LEMMA InvalidIs == Invalid \in Scan /\ Invalid.machine = "invalid" /\ Invalid.end = 0
BY DEF Invalid, Scan, Machines, Rets

LEMMA EnterIs ==
    ASSUME NEW s \in Scan, s.machine = "normal", NEW kind \in Kinds \ {"refused"}, NEW p \in Int
    PROVE  /\ Jumped(Enter(s, kind, p), p)
           /\ p >= 1 /\ s.beg \in 0 .. p - 1 /\ s.end = 0 => Begun(Enter(s, kind, p), p)
<1> DEFINE t == Enter(s, kind, p)
<1>1. CASE kind = "normal"
  <2>1. kind # "d_quote"
    BY <1>1
  <2>2. t = From(s, p)
    BY <1>1, <2>1, Zenon DEF Enter
  <2> HIDE DEF t
  <2>3. t \in Scan /\ t.machine = "normal" /\ t.end = s.end
        /\ t.beg = IF s.beg = 0 THEN p ELSE s.beg
    BY <2>2, FromIs
  <2>4. Jumped(t, p) /\ (p >= 1 /\ s.beg \in 0 .. p - 1 /\ s.end = 0 => Begun(t, p))
    BY <2>3 DEF Jumped, Begun, Scan, Passing, Machines
  <2> QED
    BY <2>4 DEF t
<1>2. CASE kind = "d_quote" /\ s.beg = 0
  <2>1. kind # "normal"
    BY <1>2
  <2>2. t = [s EXCEPT !.machine = kind, !.beg = p + 1]
    BY <1>2, <2>1, Zenon DEF Enter
  <2>3. s \in Rec(Machines) /\ kind \in Machines /\ p + 1 \in Int
    BY <1>2 DEF Scan, Rec, Machines
  <2> HIDE DEF t
  <2>5. t \in Rec(Machines) /\ t.machine = kind /\ t.beg = p + 1 /\ t.end = s.end
    <3>1. PICK v : v = [s EXCEPT !.machine = kind]
      OBVIOUS
    <3>2. v \in Rec(Machines) /\ v.machine = kind /\ v.end = s.end
      BY <2>3, <3>1 DEF Rec
    <3>3. t = [v EXCEPT !.beg = p + 1]
      BY <2>2, <3>1
    <3> QED
      BY <2>3, <3>2, <3>3 DEF Rec
  <2>4. Jumped(t, p) /\ (p >= 1 /\ s.beg \in 0 .. p - 1 /\ s.end = 0 => Begun(t, p))
    BY <1>2, <2>5 DEF Jumped, Begun, Rec, Passing, Machines
  <2> QED
    BY <2>4 DEF t
<1>3. CASE kind = "d_quote" /\ s.beg # 0
  <2>1. kind # "normal"
    BY <1>3
  <2>2. t = Invalid
    BY <1>3, <2>1, Zenon DEF Enter
  <2> HIDE DEF t
  <2>4. Jumped(t, p) /\ (p >= 1 /\ s.beg \in 0 .. p - 1 /\ s.end = 0 => Begun(t, p))
    BY <2>2, InvalidIs DEF Jumped, Begun, Scan, Passing, Machines
  <2> QED
    BY <2>4 DEF t
<1>4. CASE kind \notin {"normal", "d_quote"}
  <2>1. kind # "normal" /\ kind # "d_quote"
    BY <1>4
  <2>2. t = [s EXCEPT !.machine = kind]
    BY <2>1, Zenon DEF Enter
  <2> HIDE DEF t
  <2>4. Jumped(t, p) /\ (p >= 1 /\ s.beg \in 0 .. p - 1 /\ s.end = 0 => Begun(t, p))
    BY <1>4, <2>2 DEF Jumped, Begun, Scan, Passing, Machines, Kinds
  <2> QED
    BY <2>4 DEF t
<1> QED
  BY <1>1, <1>2, <1>3, <1>4

LEMMA JumpIs ==
    ASSUME NEW s \in Scan, s.machine \notin {"end", "invalid"}, NEW kind \in Kinds \ {"refused"},
           NEW p \in Nat \ {0}
    PROVE  /\ Jumped(Jump(s, kind, p), p)
           /\ Scanned(s, p - 1) => Begun(Jump(s, kind, p), p)
<1> DEFINE t == Jump(s, kind, p)
<1>1. CASE s.machine = "normal"
  <2>1. s.machine = "normal" /\ s.machine \notin DOMAIN Pair /\ s.machine # "d_quote"
    BY <1>1, PairIs
  <2>2. t = Enter(s, kind, p)
    BY <2>1, Zenon DEF Jump
  <2>3. Scanned(s, p - 1) => p >= 1 /\ s.beg \in 0 .. p - 1 /\ s.end = 0
    BY <1>1 DEF Scanned
  <2>4. /\ Jumped(Enter(s, kind, p), p)
        /\ p >= 1 /\ s.beg \in 0 .. p - 1 /\ s.end = 0 => Begun(Enter(s, kind, p), p)
    BY <1>1, EnterIs
  <2> QED
    BY <2>2, <2>3, <2>4
<1>2. CASE s.machine \in {"slash", "star"} /\ kind \in DOMAIN Pair[s.machine]
  <2>1. s.machine # "normal" /\ s.machine \in DOMAIN Pair /\ s.machine # "d_quote"
    BY <1>2, PairIs
  <2>2. t = [s EXCEPT !.machine = Pair[s.machine][kind]]
    BY <1>2, <2>1, Zenon DEF Jump
  <2>3. PICK m \in {"slash_slash", "slash_star", "star_slash"} : m = Pair[s.machine][kind]
    BY <1>2, PairIs
  <2>4. t = [s EXCEPT !.machine = m]
    BY <2>2, <2>3, Zenon
  <2> HIDE DEF t
  <2>5. Jumped(t, p) /\ (Scanned(s, p - 1) => Begun(t, p))
    BY <1>2, <2>3, <2>4 DEF Jumped, Begun, Scan, Passing, Machines, Scanned
  <2> QED
    BY <2>5 DEF t
<1>3. CASE s.machine \in {"slash", "star"} /\ kind \notin DOMAIN Pair[s.machine]
  <2> DEFINE v == [s EXCEPT !.machine = "normal"]
             u == From(v, p - 1)
  <2>1. s.machine # "normal" /\ s.machine \in DOMAIN Pair /\ s.machine # "d_quote"
    BY <1>3, PairIs
  <2>2. t = Enter(u, kind, p)
    BY <1>3, <2>1, Zenon DEF Jump
  <2>3. v \in Scan /\ v.machine = "normal" /\ v.beg = s.beg /\ v.end = s.end /\ p - 1 \in Int
    BY DEF Scan, Machines
  <2> HIDE DEF v
  <2>4. u \in Scan /\ u.machine = "normal" /\ u.end = s.end
        /\ u.beg = IF s.beg = 0 THEN p - 1 ELSE s.beg
    BY <2>3, FromIs
  <2> HIDE DEF u
  <2>5. /\ Jumped(Enter(u, kind, p), p)
        /\ p >= 1 /\ u.beg \in 0 .. p - 1 /\ u.end = 0 => Begun(Enter(u, kind, p), p)
    BY <2>4, EnterIs
  <2>6. Scanned(s, p - 1) => p >= 1 /\ u.beg \in 0 .. p - 1 /\ u.end = 0
    BY <1>3, <2>4 DEF Scanned
  <2> QED
    BY <2>2, <2>5, <2>6
<1>4. CASE s.machine = "d_quote"
  <2>1. s.machine = "d_quote" /\ s.machine \notin DOMAIN Pair /\ s.machine # "normal"
    BY <1>4, PairIs
  <2>2. t = IF kind = "d_quote" THEN [s EXCEPT !.machine = "d_quote_d_quote"] ELSE s
    BY <2>1, Zenon DEF Jump
  <2> HIDE DEF t
  <2>3. Jumped(t, p) /\ (Scanned(s, p - 1) => Begun(t, p))
    BY <1>4, <2>2 DEF Jumped, Begun, Scan, Passing, Machines, Scanned
  <2> QED
    BY <2>3 DEF t
<1> QED
  BY <1>1, <1>2, <1>3, <1>4 DEF Scan, Machines

\* Which alternative Finish() takes.
LEMMA FinishCases ==
    ASSUME NEW t, NEW p
    PROVE  LET m == t.machine
               Ends == {"slash_slash", "slash_star", "star_slash"}
               Before == {"brace", "comment", "separate", "line_end"} IN
           /\ m = "d_quote_d_quote" =>
                 Finish(t, p) = [t EXCEPT !.machine = "end", !.end = p, !.ret = "RET_DQUOTE"]
           /\ m = "separate" /\ t.beg = 0 => Finish(t, p) = [t EXCEPT !.machine = "normal"]
           /\ m \in Ends \union {"brace", "comment", "line_end"} /\ t.beg = 0 =>
                 Finish(t, p) = [t EXCEPT !.machine = "end", !.ret = Returned[m]]
           /\ m \in Ends /\ t.beg # 0 => Finish(t, p) = [t EXCEPT !.machine = "end", !.end = p - 1]
           /\ m \in Before /\ t.beg # 0 => Finish(t, p) = [t EXCEPT !.machine = "end", !.end = p]
           /\ m \in Machines => Finish(t, p) = t
<1> DEFINE m == t.machine
           P == m = "d_quote_d_quote"
           Q == m = "separate" /\ t.beg = 0
           R == m \in DOMAIN Returned /\ t.beg = 0
           S == m \in {"slash_slash", "slash_star", "star_slash"} /\ t.beg # 0
           T == m \in {"brace", "comment", "separate", "line_end"} /\ t.beg # 0
           a == [t EXCEPT !.machine = "end", !.end = p, !.ret = "RET_DQUOTE"]
           b == [t EXCEPT !.machine = "normal"]
           c == [t EXCEPT !.machine = "end", !.ret = Returned[m]]
           d == [t EXCEPT !.machine = "end", !.end = p - 1]
           e == [t EXCEPT !.machine = "end", !.end = p]
<1>1. Finish(t, p) = CASE P -> a [] Q -> b [] R -> c [] S -> d [] T -> e [] OTHER -> t
  BY Zenon DEF Finish
<1>2. /\ ~(P /\ Q) /\ ~(P /\ R) /\ ~(P /\ S) /\ ~(P /\ T) /\ ~(Q /\ R) /\ ~(Q /\ S) /\ ~(Q /\ T)
      /\ ~(R /\ S) /\ ~(R /\ T) /\ ~(S /\ T)
      /\ P \in BOOLEAN /\ Q \in BOOLEAN /\ R \in BOOLEAN /\ S \in BOOLEAN /\ T \in BOOLEAN
  BY ReturnedIs
<1>3. /\ m \in Machines => ~P /\ ~Q /\ ~R /\ ~S /\ ~T
      /\ (m \in {"slash_slash", "slash_star", "star_slash", "brace", "comment", "line_end"}
               /\ t.beg = 0) => R
  BY ReturnedIs DEF Machines
<1> HIDE DEF P, Q, R, S, T, a, b, c, d, e
<1>4. /\ P => Finish(t, p) = a
      /\ Q => Finish(t, p) = b
      /\ R => Finish(t, p) = c
      /\ S => Finish(t, p) = d
      /\ T => Finish(t, p) = e
      /\ (~P /\ ~Q /\ ~R /\ ~S /\ ~T => Finish(t, p) = t)
  BY <1>1, <1>2, Zenon
<1>5. /\ m = "d_quote_d_quote" => P
      /\ m = "separate" /\ t.beg = 0 => Q
      /\ m \in {"slash_slash", "slash_star", "star_slash"} /\ t.beg # 0 => S
      /\ m \in {"brace", "comment", "separate", "line_end"} /\ t.beg # 0 => T
  BY DEF P, Q, S, T
<1>6. /\ m \in {"slash_slash", "slash_star", "star_slash"} \union {"brace", "comment", "line_end"}
         /\ t.beg = 0 => R
  BY <1>3
<1> HIDE DEF m
<1>7. /\ m = "d_quote_d_quote" => Finish(t, p) = a
      /\ m = "separate" /\ t.beg = 0 => Finish(t, p) = b
      /\ m \in {"slash_slash", "slash_star", "star_slash"} \union {"brace", "comment", "line_end"}
            /\ t.beg = 0 => Finish(t, p) = c
      /\ m \in {"slash_slash", "slash_star", "star_slash"} /\ t.beg # 0 => Finish(t, p) = d
      /\ m \in {"brace", "comment", "separate", "line_end"} /\ t.beg # 0 => Finish(t, p) = e
      /\ m \in Machines => Finish(t, p) = t
  BY <1>3, <1>4, <1>5, <1>6
<1> QED
  BY <1>7, Zenon DEF a, b, c, d, e, m

LEMMA FinishIs ==
    ASSUME NEW p \in Nat \ {0}, NEW t, Jumped(t, p)
    PROVE  Finish(t, p) \in Scan /\ (Begun(t, p) => Scanned(Finish(t, p), p))
<1> DEFINE u == Finish(t, p)
<1>1. t \in [machine : Passing, beg : Int, end : Int, ret : Rets] /\ t.machine # "end"
  BY DEF Jumped
<1>2. CASE t.machine = "d_quote_d_quote"
  <2>1. u = [t EXCEPT !.machine = "end", !.end = p, !.ret = "RET_DQUOTE"]
    BY <1>2, FinishCases
  <2> HIDE DEF u
  <2>2. u \in Scan /\ u.machine = "end" /\ u.end = p /\ u.beg = t.beg
    <3>1. PICK v : v = [t EXCEPT !.machine = "end", !.end = p]
      OBVIOUS
    <3>2. v \in Rec(Passing) /\ v.machine = "end" /\ v.end = p /\ v.beg = t.beg
      <4>1. t \in Rec(Passing) /\ "end" \in Passing /\ p \in Int
        BY <1>1 DEF Rec, Passing, Machines
      <4>2. PICK w : w = [t EXCEPT !.machine = "end"]
        OBVIOUS
      <4>3. w \in Rec(Passing) /\ w.machine = "end" /\ w.beg = t.beg
        BY <4>1, <4>2 DEF Rec
      <4>4. v = [w EXCEPT !.end = p]
        BY <3>1, <4>2
      <4> QED
        BY <4>1, <4>3, <4>4 DEF Rec
    <3>3. u = [v EXCEPT !.ret = "RET_DQUOTE"]
      BY <2>1, <3>1, SMT
    <3> QED
      BY <3>2, <3>3 DEF Rec, Scan, Machines, Rets
  <2>3. Begun(t, p) => Scanned(u, p)
    BY <1>2, <2>2 DEF Begun, Scanned
  <2> QED
    BY <2>2, <2>3 DEF u
<1>3. CASE t.machine = "separate" /\ t.beg = 0
  <2>1. u = [t EXCEPT !.machine = "normal"]
    BY <1>3, FinishCases
  <2> HIDE DEF u
  <2>2. u \in Scan /\ (Begun(t, p) => Scanned(u, p))
    BY <1>1, <1>3, <2>1 DEF Begun, Scan, Scanned, Machines
  <2> QED
    BY <2>2 DEF u
<1>4. CASE t.machine \in DOMAIN Returned /\ t.beg = 0
  <2>1. u = [t EXCEPT !.machine = "end", !.ret = Returned[t.machine]]
    BY <1>4, FinishCases, ReturnedIs
  <2>2. PICK r \in Rets : r = Returned[t.machine]
    BY <1>4, ReturnedIs
  <2>3. u = [t EXCEPT !.machine = "end", !.ret = r]
    BY <2>1, <2>2, Zenon
  <2> HIDE DEF u
  <2>4. u \in Scan /\ u.machine = "end" /\ u.end = t.end /\ u.beg = t.beg
    BY <1>1, <2>3 DEF Scan, Machines
  <2>5. Begun(t, p) => Scanned(u, p)
    BY <2>4 DEF Begun, Scanned
  <2> QED
    BY <2>4, <2>5 DEF u
<1>5. CASE t.machine \in {"slash_slash", "slash_star", "star_slash"} /\ t.beg # 0
  <2>1. u = [t EXCEPT !.machine = "end", !.end = p - 1]
    BY <1>5, FinishCases
  <2> HIDE DEF u
  <2>2. u \in Scan /\ u.machine = "end" /\ u.end = p - 1 /\ u.beg = t.beg
    <3>1. t \in Rec(Passing) /\ "end" \in Passing /\ p - 1 \in Int
      BY <1>1 DEF Rec, Passing, Machines
    <3>2. u \in Rec(Passing) /\ u.machine = "end" /\ u.end = p - 1 /\ u.beg = t.beg
      <4>1. PICK w : w = [t EXCEPT !.machine = "end"]
        OBVIOUS
      <4>2. w \in Rec(Passing) /\ w.machine = "end" /\ w.beg = t.beg
        BY <3>1, <4>1 DEF Rec
      <4>3. u = [w EXCEPT !.end = p - 1]
        BY <2>1, <4>1
      <4> QED
        BY <3>1, <4>2, <4>3 DEF Rec
    <3> QED
      BY <3>2 DEF Rec, Scan, Machines
  <2>3. Begun(t, p) => Scanned(u, p)
    BY <1>5, <2>2 DEF Begun, Scanned
  <2> QED
    BY <2>2, <2>3 DEF u
<1>6. CASE t.machine \in {"brace", "comment", "separate", "line_end"} /\ t.beg # 0
  <2>1. u = [t EXCEPT !.machine = "end", !.end = p]
    BY <1>6, FinishCases
  <2> HIDE DEF u
  <2>2. u \in Scan /\ u.machine = "end" /\ u.end = p /\ u.beg = t.beg
    <3>1. t \in Rec(Passing) /\ "end" \in Passing /\ p \in Int
      BY <1>1 DEF Rec, Passing, Machines
    <3>2. u \in Rec(Passing) /\ u.machine = "end" /\ u.end = p /\ u.beg = t.beg
      <4>1. PICK w : w = [t EXCEPT !.machine = "end"]
        OBVIOUS
      <4>2. w \in Rec(Passing) /\ w.machine = "end" /\ w.beg = t.beg
        BY <3>1, <4>1 DEF Rec
      <4>3. u = [w EXCEPT !.end = p]
        BY <2>1, <4>1
      <4> QED
        BY <3>1, <4>2, <4>3 DEF Rec
    <3> QED
      BY <3>2 DEF Rec, Scan, Machines
  <2>3. Begun(t, p) => Scanned(u, p)
    BY <1>6, <2>2 DEF Begun, Scanned
  <2> QED
    BY <2>2, <2>3 DEF u
<1>7. CASE t.machine \in Machines
  <2>1. u = t
    BY <1>7, FinishCases
  <2> QED
    BY <1>1, <1>7, <2>1 DEF Begun, Scan, Scanned
<1> QED
  BY <1>1, <1>2, <1>3, <1>4, <1>5, <1>6, <1>7, ReturnedIs DEF Passing

\* A turn of the loop.
LEMMA ReadCharIs ==
    ASSUME NEW s \in Scan, NEW ch, NEW p \in Nat \ {0}
    PROVE  /\ ReadChar(s, ch, p) \in Scan
           /\ Scanned(s, p - 1) => Scanned(ReadChar(s, ch, p), p)
<1>1. CASE s.machine \in {"end", "invalid"}
  <2>1. ReadChar(s, ch, p) = s
    BY <1>1, Zenon DEF ReadChar
  <2>2. s.beg \in Int /\ s.end \in Int
    BY DEF Scan
  <2>3. Scanned(s, p - 1) => Scanned(s, p)
    BY <1>1, <2>2 DEF Scanned
  <2> QED
    BY <2>1, <2>3
<1>2. CASE s.machine \notin {"end", "invalid"} /\ Kind(ch) = "refused"
  <2>1. ReadChar(s, ch, p) = Invalid
    BY <1>2, Zenon DEF ReadChar
  <2>2. Scanned(Invalid, p)
    BY InvalidIs DEF Scanned
  <2> QED
    BY <2>1, <2>2, InvalidIs
<1>3. CASE s.machine \notin {"end", "invalid"} /\ Kind(ch) # "refused"
  <2>1. ReadChar(s, ch, p) = Finish(Jump(s, Kind(ch), p), p)
    BY <1>3, Zenon DEF ReadChar
  <2>2. Kind(ch) \in Kinds \ {"refused"}
    BY <1>3, KindIs
  <2>3. /\ Jumped(Jump(s, Kind(ch), p), p)
        /\ Scanned(s, p - 1) => Begun(Jump(s, Kind(ch), p), p)
    BY <1>3, <2>2, JumpIs
  <2> QED
    BY <2>1, <2>3, FinishIs
<1> QED
  BY <1>1, <1>2, <1>3

\* The loop of get_a_token()
LEMMA ReadIs ==
    ASSUME NEW buf, NEW L \in Nat, L = Len(buf), NEW from \in 1 .. L + 1
    PROVE  \E f : /\ f[from - 1] = Start
                  /\ \A p \in from .. L : f[p] = ReadChar(f[p - 1], buf[p], p)
                  /\ get_a_token(buf, from) = f[L]
<1> DEFINE Read(f) == f = [p \in from - 1 .. L |->
                              IF p = from - 1 THEN Start ELSE ReadChar(f[p - 1], buf[p], p)]
           f == CHOOSE g : Read(g)
           N == L - from + 1
           N0 == from - 1
<1>0. N \in Nat /\ N0 \in Nat /\ N0 + N = L
  OBVIOUS
<1>1. Start \in Scan /\ Start.machine = "normal" /\ Start.beg = 0 /\ Start.end = 0
  BY DEF Start, Scan, Machines, Rets
<1>2. \E g : Read(g)
  <2>1. PICK v \in Scan : v = Start
    BY <1>1
  <2> DEFINE G == [q \in (1 .. N) \X Scan |-> ReadChar(q[2], buf[N0 + q[1]], N0 + q[1])]
  <2>2. \A k \in 1 .. N, s \in Scan : G[<<k, s>>] = ReadChar(s, buf[N0 + k], N0 + k)
    OBVIOUS
  <2>3. \A k \in 1 .. N, s \in Scan : ReadChar(s, buf[N0 + k], N0 + k) \in Scan
    <3> TAKE k \in 1 .. N, s \in Scan
    <3>1. N0 + k \in Nat \ {0}
      BY <1>0
    <3> QED
      BY <3>1, ReadCharIs
  <2>4. G \in [(1 .. N) \X Scan -> Scan]
    BY <2>3
  <2> HIDE DEF G, N, N0
  <2>5. PICK h \in [0 .. N -> Scan] : IsRecursive(h, N, v, G)
    BY <1>0, <2>4, RecursionExists
  <2>6. h[0] = v /\ \A k \in 1 .. N : h[k] = G[<<k, h[k - 1]>>]
    BY <1>0, <2>5 DEF IsRecursive
  <2>7. \A k \in 1 .. N : h[k] = ReadChar(h[k - 1], buf[N0 + k], N0 + k)
    <3> TAKE k \in 1 .. N
    <3>1. h[k - 1] \in Scan
      BY <1>0, <2>5
    <3> QED
      BY <2>2, <2>6, <3>1
  <2> DEFINE g == [p \in from - 1 .. L |-> h[p - N0]]
  <2>8. ASSUME NEW p \in from - 1 .. L
        PROVE  g[p] = IF p = from - 1 THEN Start ELSE ReadChar(g[p - 1], buf[p], p)
    <3>1. CASE p = from - 1
      <4>1. p - N0 = 0
        BY <3>1 DEF N0
      <4> QED
        BY <2>1, <2>6, <3>1, <4>1
    <3>2. CASE p # from - 1
      <4>1. p - N0 \in 1 .. N /\ N0 + (p - N0) = p /\ p - 1 \in from - 1 .. L
            /\ (p - N0) - 1 = (p - 1) - N0
        BY <3>2, <1>0 DEF N0, N
      <4>2. h[p - N0] = ReadChar(h[(p - 1) - N0], buf[p], p)
        BY <2>7, <4>1
      <4>3. g[p] = h[p - N0] /\ g[p - 1] = h[(p - 1) - N0]
        BY <4>1
      <4> QED
        BY <3>2, <4>2, <4>3, Zenon
    <3> QED
      BY <3>1, <3>2
  <2>9. Read(g)
    <3>1. g = [p \in from - 1 .. L |-> g[p]]
      OBVIOUS
    <3> HIDE DEF g
    <3> QED
      BY <2>8, <3>1, Zenon
  <2> QED
    BY <2>9
<1>3. Read(f)
  <2> HIDE DEF Read
  <2> QED
    BY <1>2
<1>4. get_a_token(buf, from) = f[L]
  BY Zenon DEF get_a_token
<1> HIDE DEF f
<1>5. f[from - 1] = Start /\ \A p \in from .. L : f[p] = ReadChar(f[p - 1], buf[p], p)
  BY <1>0, <1>3
<1> QED
  BY <1>4, <1>5

\* A call of get_a_token(): the states of its machine, one per character.
LEMMA ScanIs ==
    ASSUME NEW buf, NEW L \in Nat, L = Len(buf), NEW from \in 1 .. L + 1
    PROVE  get_a_token(buf, from) \in Scan /\ Scanned(get_a_token(buf, from), L)
<1> DEFINE N == L - from + 1
           N0 == from - 1
<1>0. N \in Nat /\ N0 \in Nat /\ N0 + N = L
  OBVIOUS
<1>1. Start \in Scan /\ Start.machine = "normal" /\ Start.beg = 0 /\ Start.end = 0
  BY DEF Start, Scan, Machines, Rets
<1>2. PICK f : /\ f[N0] = Start
               /\ \A p \in from .. L : f[p] = ReadChar(f[p - 1], buf[p], p)
               /\ get_a_token(buf, from) = f[L]
  BY ReadIs
<1> DEFINE T == {k \in 0 .. N : f[N0 + k] \in Scan /\ Scanned(f[N0 + k], N0 + k)}
<1>3. 0 \in T
  <2>1. Scanned(Start, N0)
    BY <1>0, <1>1 DEF Scanned
  <2> QED
    BY <1>0, <1>1, <1>2, <2>1
<1>4. ASSUME NEW k \in 1 .. N, k - 1 \in T PROVE k \in T
  <2>1. N0 + k \in from .. L /\ N0 + k \in Nat \ {0} /\ (N0 + k) - 1 = N0 + (k - 1)
    BY <1>0
  <2>2. PICK s \in Scan : s = f[(N0 + k) - 1] /\ Scanned(s, (N0 + k) - 1)
    BY <1>4, <2>1
  <2>3. f[N0 + k] = ReadChar(s, buf[N0 + k], N0 + k)
    BY <1>2, <2>1, <2>2
  <2>4. /\ ReadChar(s, buf[N0 + k], N0 + k) \in Scan
        /\ Scanned(ReadChar(s, buf[N0 + k], N0 + k), N0 + k)
    BY <2>1, <2>2, ReadCharIs
  <2> QED
    BY <2>3, <2>4
<1>5. 0 .. N \subseteq T
  <2> HIDE DEF T, N
  <2> QED
    BY <1>0, <1>3, <1>4, BoundedInduction
<1>6. f[L] \in Scan /\ Scanned(f[L], L)
  <2>1. N \in 0 .. N
    BY <1>0
  <2>2. N \in T
    BY <1>5, <2>1
  <2> HIDE DEF N, N0
  <2> QED
    BY <1>0, <2>2
<1> QED
  BY <1>2, <1>6

\* What get_a_token_str() returns fits into the buffers of its callers, and `*buf'
\* stays in the line.
Fits(r, L) ==
    /\ r.ret \in {"RET_OK", "RET_ERR", "RET_ENDLINE"}
    /\ r.token \in String
    /\ Len(r.token) < TokenMax
    /\ r.multi \in BOOLEAN
    /\ r.next \in 0 .. L + 1
    /\ r.ret = "RET_OK" => r.next \in 1 .. L + 1

LEMMA TokenIs ==
    ASSUME NEW buf \in String, NEW from \in 1 .. Len(buf) + 1, NEW r \in get_a_token_str(buf, from)
    PROVE  Fits(r, Len(buf))
<1>1. PICK L \in Nat : L = Len(buf)
  BY LenProperties DEF String
<1>2. PICK s \in Scan : s = get_a_token(buf, from) /\ Scanned(s, L)
  BY <1>1, ScanIs
<1>3. s.beg \in Int /\ s.end \in Int /\ s.machine \in Machines
  BY DEF Scan
<1>4. TokenMax \in Nat \ {0, 1}
  BY TokenAssumption
<1>5. Fits(Error, L)
  <2>1. <<>> \in String /\ Len(<<>>) = 0
    BY EmptySeq DEF String
  <2>2. 0 \in 0 .. L + 1
    BY <1>1
  <2> QED
    BY <1>4, <2>1, <2>2 DEF Fits, Error, Result
<1>6. \A a, b \in Int : 1 <= a /\ b <= L =>
          SubSeq(buf, a, b) \in String /\ Len(SubSeq(buf, a, b)) = (IF a <= b THEN b - a + 1 ELSE 0)
  <2> TAKE a, b \in Int
  <2> HAVE 1 <= a /\ b <= L
  <2>1. buf \in Seq(Char) /\ \A k \in 1 .. L : buf[k] \in Char
    BY <1>1, ElementOfSeq DEF String
  <2>2. SubSeq(buf, a, b) \in Seq(Char)
    BY <1>1, <2>1, SubSeqProperties
  <2>3. Len(SubSeq(buf, a, b)) = (IF a <= b THEN b - a + 1 ELSE 0)
    BY <1>1, <2>1, SubSeqProperties
  <2> QED
    BY <2>2, <2>3 DEF String
<1> DEFINE Long == Result("RET_OK", SubSeq(buf, s.beg, L - 1), L + 1, FALSE)
           Short == Result("RET_OK", SubSeq(buf, s.beg, s.end - 1),
                           IF s.ret = "RET_DQUOTE" THEN s.end + 1 ELSE s.end, FALSE)
           None == Result("RET_ENDLINE", <<>>, from, s.ret = "RET_MULTI_COMMENT")
<1>7. CASE s.machine = "d_quote"
  <2>1. r \in {Error} \union {x \in {Long} : Len(x.token) + 1 < TokenMax}
    BY <1>1, <1>2, <1>7, Zenon DEF get_a_token_str
  <2>2. Long.token \in String /\ Len(Long.token) \in Nat
    <3>1. 1 <= s.beg /\ L - 1 <= L
      BY <1>2, <1>7 DEF Scanned
    <3>2. SubSeq(buf, s.beg, L - 1) \in String
      BY <1>3, <1>6, <3>1
    <3>3. Long.token = SubSeq(buf, s.beg, L - 1)
      BY DEF Result
    <3> QED
      BY <3>2, <3>3, LenProperties DEF String
  <2>3. Long.ret = "RET_OK" /\ Long.multi = FALSE /\ Long.next = L + 1
    BY DEF Result
  <2> HIDE DEF Long
  <2>4. Len(Long.token) + 1 < TokenMax => Fits(Long, L)
    <3>1. Len(Long.token) + 1 < TokenMax => Len(Long.token) < TokenMax
      BY <1>4, <2>2
    <3>2. Long.next \in 1 .. L + 1 /\ Long.next \in 0 .. L + 1
      BY <1>1, <2>3
    <3> QED
      BY <2>2, <2>3, <3>1, <3>2 DEF Fits
  <2> QED
    BY <1>1, <1>5, <2>1, <2>4
<1>8. CASE s.machine # "d_quote" /\ (s.machine = "invalid" \/ s.end - s.beg >= TokenMax)
  <2>1. r \in {Error}
    BY <1>2, <1>8, Zenon DEF get_a_token_str
  <2> QED
    BY <1>1, <1>5, <2>1
<1>9. CASE s.machine # "d_quote" /\ s.machine # "invalid" /\ ~(s.end - s.beg >= TokenMax) /\ s.end = 0
  <2>1. r = None
    BY <1>2, <1>9, Zenon DEF get_a_token_str
  <2>2. <<>> \in String /\ Len(<<>>) = 0
    BY EmptySeq DEF String
  <2>3. from \in 0 .. L + 1
    BY <1>1
  <2> QED
    BY <1>1, <1>4, <2>1, <2>2, <2>3 DEF Fits, Result
<1>10. CASE s.machine # "d_quote" /\ s.machine # "invalid" /\ ~(s.end - s.beg >= TokenMax) /\ s.end # 0
  <2>1. r = Short
    BY <1>2, <1>10, Zenon DEF get_a_token_str
  <2>2. 1 <= s.beg /\ s.beg <= s.end /\ s.end <= L
    BY <1>2, <1>3, <1>10 DEF Scanned, Machines
  <2>3. SubSeq(buf, s.beg, s.end - 1) \in String /\ Len(SubSeq(buf, s.beg, s.end - 1)) < TokenMax
    BY <1>3, <1>4, <1>6, <1>10, <2>2
  <2>4. /\ Short.ret = "RET_OK" /\ Short.multi = FALSE /\ Short.token = SubSeq(buf, s.beg, s.end - 1)
        /\ Short.next \in {s.end + 1, s.end}
    BY DEF Result
  <2> HIDE DEF Short
  <2>5. Short.next \in 1 .. L + 1 /\ Short.next \in 0 .. L + 1
    BY <1>1, <1>3, <2>2, <2>4
  <2>6. Fits(Short, L)
    BY <2>3, <2>4, <2>5 DEF Fits
  <2> QED
    BY <1>1, <2>1, <2>6
<1> QED
  BY <1>7, <1>8, <1>9, <1>10

-----------------------------------------------------------------------------
(* The types                                                                *)

\* The directory of a path is a part of it: the last character of a name that is not
\* the path's last one is its end.
Inside(path, p) ==
    /\ path[p] # "/"
    /\ \E s \in p + 1 .. Len(path) : /\ path[s] = "/"
                                     /\ \E q \in s + 1 .. Len(path) : path[q] # "/"
InsideOf(path) == {p \in DOMAIN path : Inside(path, p)}

LEMMA DirIsPart ==
    ASSUME NEW path \in String, path # <<>>
    PROVE  /\ DirLen(path) \in 1 .. Len(path)
           /\ DirLen(path) = 1 \/ Inside(path, DirLen(path))
           /\ \A k \in DirLen(path) + 1 .. Len(path) : ~Inside(path, k)
<1>1. PICK L \in Nat : L = Len(path)
  BY LenProperties DEF String
<1>2. DOMAIN path = 1 .. L /\ L >= 1
  <2>1. DOMAIN path = 1 .. L
    BY <1>1, LenProperties DEF String
  <2>2. L # 0
    BY <1>1, EmptySeq DEF String
  <2> QED
    BY <1>1, <2>1, <2>2
<1>3. PICK S : S = {1} \union InsideOf(path)
  OBVIOUS
<1>4. \A p : p \in S <=> p = 1 \/ (p \in 1 .. L /\ Inside(path, p))
  BY <1>2, <1>3 DEF InsideOf
<1>5. S \in SUBSET (0 .. L) /\ S # {}
  BY <1>1, <1>2, <1>4
<1>6. DirLen(path) = Max(S)
  <2>1. DirLen(path) = Max({1} \union InsideOf(path))
    BY Zenon DEF DirLen, InsideOf, Inside
  <2> QED
    BY <1>3, <2>1, Zenon
<1>7. \E x \in S : \A y \in S : x >= y
  <2>1. PICK x \in S : \A y \in S : y <= x
    BY <1>1, <1>5, Greatest
  <2>2. \A y \in S : x >= y
    BY <1>1, <1>5, <2>1
  <2> QED
    BY <2>2
<1>8. PICK d \in S : d = DirLen(path) /\ \A y \in S : d >= y
  BY <1>6, <1>7, Zenon DEF Max
<1>9. d \in 1 .. L
  BY <1>1, <1>2, <1>4, <1>8
<1>10. d = 1 \/ Inside(path, d)
  BY <1>4, <1>8
<1>11. \A k \in d + 1 .. L : ~Inside(path, k)
  <2>1. ASSUME NEW k \in d + 1 .. L, Inside(path, k) PROVE FALSE
    <3>1. k \in S
      BY <1>1, <1>4, <1>9, <2>1
    <3> QED
      BY <1>1, <1>8, <1>9, <3>1
  <2> QED
    BY <2>1
<1> QED
  BY <1>1, <1>8, <1>9, <1>10, <1>11

\* The parts of the type invariant, and what it rests on: zone_cfg_parse() begins with
\* the first line, and a configuration file has a name when it is opened.
Command == /\ argv \in Seq(String)
           /\ i \in 1 .. Len(argv) + 1
           /\ role \subseteq Exclusive \union Inclusive
           /\ Cardinality(role \intersect Exclusive) = 1
ConfFile == conf_file \in String /\ Len(conf_file) < ConfLen
Place == file \in Seq(String) /\ n \in 1 .. Len(file) + 1 /\ multi_comm \in BOOLEAN
Zone == /\ zone_info \in ZoneInfo
        /\ {Len(zone_info.name), Len(zone_info.file)} \subseteq 0 .. TokenMax - 1
Stored == info \subseteq ZoneInfo /\ list \in Seq(String)
Zones == todo \in Seq(String) /\ opened \subseteq String
Control == /\ pc \in {"options", "conf", "lines", "list", "zones", "loaded", "serve", "exit"}
           /\ redis \in BOOLEAN
           /\ error \in {"none", "option", "monitor", "open", "format", "store", "zone"}

TypeInv ==
    /\ Command /\ ConfFile /\ Place /\ Zone /\ Stored /\ Zones /\ Control
    /\ pc \in {"options", "conf"} => n = 1
    /\ pc \notin {"options", "conf", "exit"} => conf_file # <<>>

LEMMA Parts == TypeInv => TypeOK
BY DEF TypeInv, TypeOK, Command, ConfFile, Place, Zone, Stored, Zones, Control

\* What a step leaves alone
LEMMA Kept ==
    /\ Command /\ UNCHANGED command => Command'
    /\ ConfFile /\ UNCHANGED conf_file => ConfFile'
    /\ Place /\ UNCHANGED <<file, n, multi_comm>> => Place'
    /\ Zone /\ UNCHANGED zone_info => Zone'
    /\ Stored /\ UNCHANGED store => Stored'
    /\ Zones /\ UNCHANGED zones => Zones'
<1>1. Command /\ UNCHANGED command => Command'
  BY DEF Command, command
<1>2. ConfFile /\ UNCHANGED conf_file => ConfFile'
  BY DEF ConfFile
<1>3. Place /\ UNCHANGED <<file, n, multi_comm>> => Place'
  BY DEF Place
<1>4. Zone /\ UNCHANGED zone_info => Zone'
  BY DEF Zone
<1>5. Stored /\ UNCHANGED store => Stored'
  BY DEF Stored, store
<1>6. Zones /\ UNCHANGED zones => Zones'
  BY DEF Zones, zones
<1> QED
  BY <1>1, <1>2, <1>3, <1>4, <1>5, <1>6

LEMMA StartTyped == Init => TypeInv
<1> SUFFICES ASSUME Init PROVE TypeInv
  OBVIOUS
<1>1. <<>> \in String /\ Len(<<>>) = 0 /\ <<>> \in Seq(String)
  BY EmptySeq DEF String
<1>2. Command
  <2>1. argv \in Seq(String) /\ i = 1 /\ role = {"MASTER"}
    BY StartupAssumption DEF Init, String
  <2>2. role \intersect Exclusive = {"MASTER"} /\ role \subseteq Exclusive
    BY <2>1 DEF Exclusive
  <2>3. Cardinality(role \intersect Exclusive) = 1
    BY <2>2, FS_Singleton
  <2>4. i \in 1 .. Len(argv) + 1
    <3>1. Len(argv) \in Nat
      BY <2>1, LenProperties
    <3> QED
      BY <2>1, <3>1
  <2> QED
    BY <2>1, <2>2, <2>3, <2>4 DEF Command
<1>3. ConfFile
  <2>1. 0 < ConfLen
    <3>1. Len(CONF_FILE) = 6
      BY DEF CONF_FILE
    <3> QED
      BY <3>1, StartupAssumption
  <2>2. conf_file = <<>>
    BY DEF Init
  <2> QED
    BY <1>1, <2>1, <2>2 DEF ConfFile
<1>4. Place
  <2>1. file \in Seq(String) /\ n = 1 /\ multi_comm = FALSE
    BY <1>1 DEF Init
  <2>2. Len(file) \in Nat
    BY <2>1, LenProperties
  <2>3. n \in 1 .. Len(file) + 1
    BY <2>1, <2>2
  <2>4. multi_comm \in BOOLEAN
    BY <2>1
  <2> QED
    BY <2>1, <2>3, <2>4, Zenon DEF Place
<1>5. Zone
  <2>1. /\ Cleared \in ZoneInfo /\ Cleared.name = <<>> /\ Cleared.file = <<>>
    BY <1>1 DEF Cleared, ZoneInfo
  <2>2. 0 \in 0 .. TokenMax - 1
    BY TokenAssumption
  <2> QED
    BY <1>1, <2>1, <2>2 DEF Init, Zone
<1>6. Stored /\ Zones /\ Control
  BY <1>1 DEF Init, Stored, Zones, Control
<1> QED
  BY <1>2, <1>3, <1>4, <1>5, <1>6 DEF Init, TypeInv

\* snprintf() into conf_file
LEMMA CutIs ==
    ASSUME NEW arg \in String, arg # <<>>
    PROVE  /\ CutTo(arg) \in String /\ Len(CutTo(arg)) < ConfLen /\ CutTo(arg) # <<>>
           /\ Len(arg) < ConfLen => CutTo(arg) = arg
<1>1. PICK L \in Nat : L = Len(arg) /\ L >= 1
  BY LenProperties, EmptySeq DEF String
<1>2. ConfLen \in Nat /\ ConfLen > 6
  <2>1. Len(CONF_FILE) = 6
    BY DEF CONF_FILE
  <2> QED
    BY <2>1, StartupAssumption
<1> DEFINE m == Min({Len(arg), ConfLen - 1})
<1>3. m = IF L < ConfLen THEN L ELSE ConfLen - 1
  BY <1>1, <1>2 DEF Min
<1>4. m \in 1 .. L /\ m < ConfLen
  BY <1>1, <1>2, <1>3
<1> HIDE DEF m
<1>5. \A k \in 1 .. m : arg[k] \in Char
  BY <1>1, <1>4, ElementOfSeq DEF String
<1>6. SubSeq(arg, 1, m) \in Seq(Char) /\ Len(SubSeq(arg, 1, m)) = m
  BY <1>4, <1>5, SubSeqProperties
<1>7. CutTo(arg) = SubSeq(arg, 1, m)
  BY Zenon DEF CutTo, m
<1>8. L < ConfLen => SubSeq(arg, 1, m) = arg
  BY <1>1, <1>3, SubSeqFull DEF String
<1>9. CutTo(arg) # <<>>
  BY <1>4, <1>6, <1>7
<1> QED
  BY <1>1, <1>4, <1>6, <1>7, <1>8, <1>9 DEF String

LEMMA ReadOptionTyped ==
    ASSUME TypeInv, ReadOption
    PROVE  TypeInv'
<1>1. /\ Command /\ ConfFile /\ Place /\ Zone /\ Stored /\ Zones /\ Control
      /\ pc = "options" /\ n = 1 /\ i <= Len(argv)
      /\ UNCHANGED <<argv, file, n, multi_comm, zone_info, redis, store, zones>>
  BY DEF TypeInv, ReadOption
<1>2. Place' /\ Zone' /\ Stored' /\ Zones'
  BY <1>1, Kept
<1>3. Control' /\ pc' \in {"options", "exit"}
  BY <1>1 DEF Control, ReadOption, Take, Exit
<1>4. argv \in Seq(String) /\ Len(argv) \in Nat /\ i \in 1 .. Len(argv)
  BY <1>1, LenProperties DEF Command
<1>5. i' \in 1 .. Len(argv) + 1
  <2>1. i' \in {i, i + 1} \/ (i' = i + 2 /\ i < Len(argv))
    BY DEF ReadOption, Take, HasValue
  <2> QED
    BY <1>4, <2>1
<1>6. role' \subseteq Exclusive \union Inclusive /\ role' \intersect Exclusive = role \intersect Exclusive
  <2>1. \A r \in Inclusive : WithRole({r}) = role \union {r}
    BY InclusiveRole
  <2>2. \E r \in Inclusive : role' \in {role, role \union {r}}
    BY <2>1 DEF ReadOption, Inclusive
  <2> QED
    BY <1>1, <2>2 DEF Command, Exclusive, Inclusive
<1>7. Command'
  BY <1>1, <1>4, <1>5, <1>6 DEF Command
<1>8. ConfFile'
  <2>1. CASE conf_file' = conf_file
    BY <1>1, <2>1, Kept
  <2>2. CASE HasValue /\ conf_file' = CutTo(argv[i + 1])
    <3>1. i + 1 \in 1 .. Len(argv) /\ argv[i + 1] # <<>>
      BY <1>4, <2>2 DEF HasValue
    <3>2. argv[i + 1] \in String
      BY <1>4, <3>1, ElementOfSeq
    <3> QED
      BY <2>2, <3>1, <3>2, CutIs DEF ConfFile
  <2> QED
    BY <2>1, <2>2 DEF ReadOption
<1> QED
  BY <1>1, <1>2, <1>3, <1>7, <1>8 DEF TypeInv

LEMMA OpenConfTyped ==
    ASSUME TypeInv, OpenConf
    PROVE  TypeInv'
<1>1. /\ Command /\ ConfFile /\ Place /\ Zone /\ Stored /\ Zones /\ Control
      /\ pc = "conf" /\ n = 1
      /\ UNCHANGED <<command, n, multi_comm, zone_info, redis, store, zones>>
  BY DEF TypeInv, OpenConf
<1>2. Command' /\ Zone' /\ Stored' /\ Zones'
  BY <1>1, Kept
<1>3. Control'
  BY <1>1 DEF Control, OpenConf, Exit
<1>4. file' \in Seq(String)
  BY <1>1, StartupAssumption DEF OpenConf, Exit, Place, String
<1>5. Place'
  <2>1. Len(file') \in Nat
    BY <1>4, LenProperties
  <2> QED
    BY <1>1, <1>4, <2>1 DEF Place
<1>6. CONF_FILE \in String /\ Len(CONF_FILE) < ConfLen /\ CONF_FILE # <<>>
  <2>1. CONF_FILE \in Seq(Char)
    <3>1. Range(CONF_FILE) \subseteq Char
      BY StartupAssumption
    <3>2. /\ Len(CONF_FILE) = 6 /\ \A k \in 1 .. 6 : CONF_FILE[k] \in Range(CONF_FILE)
          /\ CONF_FILE = [k \in 1 .. 6 |-> CONF_FILE[k]]
      BY DEF CONF_FILE, Range
    <3> QED
      BY <3>1, <3>2, SeqDef
  <2>2. CONF_FILE # <<>>
    BY DEF CONF_FILE
  <2> QED
    BY <2>1, <2>2, StartupAssumption DEF String
<1>7. ConfFile' /\ conf_file' # <<>>
  <2>1. conf_file' = IF conf_file = <<>> THEN CONF_FILE ELSE conf_file
    BY DEF OpenConf
  <2> QED
    BY <1>1, <1>6, <2>1 DEF ConfFile
<1> QED
  BY <1>1, <1>2, <1>3, <1>5, <1>7 DEF TypeInv

\* create_zone_info(): a name with its dot fits into its buffer.
LEMMA AbsoluteIs ==
    ASSUME NEW token \in String, Len(token) < TokenMax, NEW a \in Absolute(token)
    PROVE  a \in String /\ Len(a) < TokenMax
<1>1. "." \in Char /\ TokenMax \in Nat \ {0, 1} /\ Len(token) \in Nat
  BY StartupAssumption, TokenAssumption, LenProperties DEF String
<1>2. CASE token = <<>>
  <2>1. a \in {<<>>, <<".">>}
    BY <1>2 DEF Absolute
  <2>2. <<>> \in Seq(Char) /\ Len(<<>>) = 0
    BY EmptySeq
  <2>3. <<".">> \in Seq(Char) /\ Len(<<".">>) = 1
    BY <1>1
  <2>4. a \in Seq(Char) /\ Len(a) \in {0, 1}
    BY <2>1, <2>2, <2>3
  <2> QED
    <3>1. PICK k \in {0, 1} : k = Len(a)
      BY <2>4
    <3>2. k < TokenMax
      BY <1>1
    <3> QED
      BY <2>4, <3>1, <3>2 DEF String
<1>3. CASE token # <<>> /\ (Last(token) = "." \/ Len(token) >= TokenMax - 1)
  BY <1>3 DEF Absolute
<1>4. CASE token # <<>> /\ ~(Last(token) = "." \/ Len(token) >= TokenMax - 1)
  <2>1. a = Append(token, ".")
    BY <1>4 DEF Absolute
  <2>2. a \in Seq(Char) /\ Len(a) = Len(token) + 1
    BY <1>1, <2>1, AppendProperties DEF String
  <2>3. Len(a) < TokenMax
    BY <1>1, <1>4, <2>2
  <2> QED
    BY <2>2, <2>3 DEF String
<1> QED
  BY <1>2, <1>3, <1>4

\* The handlers' zone_info
LEMMA HandledIs ==
    ASSUME Zone, NEW key \in Keys, NEW token \in String, Len(token) < TokenMax,
           NEW z \in Handled(key, token)
    PROVE  z \in ZoneInfo /\ {Len(z.name), Len(z.file)} \subseteq 0 .. TokenMax - 1
<1>1. /\ <<>> \in String /\ Len(<<>>) = 0 /\ TokenMax \in Nat \ {0, 1}
      /\ Len(token) \in 0 .. TokenMax - 1
  BY EmptySeq, TokenAssumption, LenProperties DEF String
<1>2. <<"zone">> # <<"type">> /\ <<"zone">> # <<"file">> /\ <<"type">> # <<"file">>
  OBVIOUS
<1>3. /\ zone_info \in [name : String, dev_type : {0, 1}, file : String]
      /\ {Len(zone_info.name), Len(zone_info.file)} \subseteq 0 .. TokenMax - 1
  BY DEF Zone, ZoneInfo
<1>4. CASE key = <<"zone">>
  <2>1. Handled(key, token) = {[Cleared EXCEPT !.name = b] : b \in Absolute(token)}
    BY <1>2, <1>4, Zenon DEF Handled
  <2>2. PICK b \in Absolute(token) : z = [Cleared EXCEPT !.name = b]
    BY <2>1
  <2>3. b \in String /\ Len(b) \in 0 .. TokenMax - 1
    <3>1. b \in String /\ Len(b) < TokenMax
      BY AbsoluteIs
    <3> QED
      BY <1>1, <3>1, LenProperties DEF String
  <2>4. z = [name |-> b, dev_type |-> 0, file |-> <<>>]
    BY <2>2 DEF Cleared
  <2>5. z.name = b /\ z.file = <<>> /\ z \in ZoneInfo
    BY <1>1, <2>3, <2>4 DEF ZoneInfo
  <2> QED
    BY <1>1, <2>3, <2>5
<1>5. CASE key = <<"type">>
  <2>1. Handled(key, token) =
            {[zone_info EXCEPT !.dev_type = IF token = <<"master">> THEN 1 ELSE 0]}
    BY <1>2, <1>5, Zenon DEF Handled
  <2>2. PICK d \in {0, 1} : z = [zone_info EXCEPT !.dev_type = d]
    BY <2>1
  <2> QED
    BY <1>3, <2>2 DEF ZoneInfo
<1>6. CASE key = <<"file">>
  <2>1. Handled(key, token) = {[zone_info EXCEPT !.file = token]}
    BY <1>2, <1>6, Zenon DEF Handled
  <2>2. z = [zone_info EXCEPT !.file = token]
    BY <2>1
  <2>3. z \in ZoneInfo /\ z.name = zone_info.name /\ z.file = token
    BY <1>3, <2>2 DEF ZoneInfo
  <2> QED
    BY <1>1, <1>3, <2>3
<1> QED
  BY <1>4, <1>5, <1>6 DEF Keys

\* save_zone_info(), done or half done
LEMMA SavedTyped ==
    ASSUME Zone, Stored,
           \/ UNCHANGED store
           \/ info' = WithInfo /\ list' \in {list, WithName}
    PROVE  Stored'
<1>1. zone_info \in ZoneInfo /\ zone_info.name \in String
  BY DEF Zone, ZoneInfo
<1>2. WithInfo \subseteq ZoneInfo
  BY <1>1 DEF Stored, WithInfo
<1>3. WithName \in Seq(String)
  BY <1>1, AppendProperties DEF Stored, WithName
<1> QED
  BY <1>2, <1>3, Kept DEF Stored

LEMMA ReadLineTyped ==
    ASSUME TypeInv, ReadLine
    PROVE  TypeInv'
<1>1. /\ Command /\ ConfFile /\ Place /\ Zone /\ Stored /\ Zones /\ Control
      /\ pc = "lines" /\ n <= Len(file) /\ conf_file # <<>>
      /\ UNCHANGED <<command, conf_file, file, redis, zones>>
  BY DEF TypeInv, ReadLine
<1>2. Command' /\ ConfFile' /\ Zones'
  BY <1>1, Kept
<1>3. PICK line \in String : line = file[n]
  BY <1>1, ElementOfSeq DEF Place
<1>4. Len(line) \in Nat /\ Len(file) \in Nat /\ n \in 1 .. Len(file)
  BY <1>1, <1>3, LenProperties DEF String, Place
<1>5. PICK r \in get_a_token_str(line, 1) : SkipLine(r) \/ HandleLine(r)
  BY <1>3 DEF ReadLine
<1>6. Fits(r, Len(line))
  BY <1>4, TokenIs
<1>7. Control' /\ pc' \in {"lines", "exit"}
  BY <1>1, <1>5 DEF Control, SkipLine, HandleLine, SaveFails, Exit
<1>8. n' \in {n, n + 1} /\ multi_comm' \in BOOLEAN
  <2>1. CASE SkipLine(r)
    BY <2>1 DEF SkipLine
  <2>2. CASE HandleLine(r)
    BY <1>1, <2>2 DEF HandleLine, Place
  <2> QED
    BY <1>5, <2>1, <2>2
<1>9. Place'
  BY <1>1, <1>4, <1>8 DEF Place
<1>10. Stored'
  <2>1. \/ UNCHANGED store
        \/ info' = WithInfo /\ list' \in {list, WithName}
    BY <1>5 DEF SkipLine, HandleLine, SaveZone, SaveFails
  <2> QED
    BY <1>1, <2>1, SavedTyped
<1>11. Zone'
  <2>1. CASE zone_info' = zone_info
    BY <1>1, <2>1, Kept
  <2>2. CASE zone_info' # zone_info
    <3>1. /\ r.token \in Keys /\ r.ret = "RET_OK"
          /\ \E v \in get_a_token_str(line, r.next) :
                v.ret = "RET_OK" /\ zone_info' \in Handled(r.token, v.token)
      BY <1>3, <1>5, <2>2 DEF SkipLine, HandleLine
    <3>2. PICK v \in get_a_token_str(line, r.next) : zone_info' \in Handled(r.token, v.token)
      BY <3>1
    <3>3. r.next \in 1 .. Len(line) + 1
      BY <1>6, <3>1 DEF Fits
    <3>4. v.token \in String /\ Len(v.token) < TokenMax
      BY <3>3, TokenIs DEF Fits
    <3>5. zone_info' \in ZoneInfo /\ {Len(zone_info'.name), Len(zone_info'.file)} \subseteq 0 .. TokenMax - 1
      BY <1>1, <3>1, <3>2, <3>4, HandledIs
    <3> QED
      BY <3>5 DEF Zone
  <2> QED
    BY <2>1, <2>2
<1> QED
  BY <1>1, <1>2, <1>7, <1>9, <1>10, <1>11 DEF TypeInv

LEMMA ConfEndsTyped ==
    ASSUME TypeInv, ConfEnds
    PROVE  TypeInv'
<1>1. /\ Command /\ ConfFile /\ Place /\ Zone /\ Stored /\ Zones /\ Control
      /\ pc = "lines" /\ conf_file # <<>>
      /\ UNCHANGED <<command, conf_file, file, n, multi_comm, zone_info, redis, zones>>
  BY DEF TypeInv, ConfEnds, parser
<1>2. Command' /\ ConfFile' /\ Place' /\ Zone' /\ Zones'
  BY <1>1, Kept
<1>3. Control' /\ pc' \in {"list", "exit"}
  BY <1>1 DEF Control, ConfEnds, SaveFails, Exit
<1>4. \/ UNCHANGED store
      \/ info' = WithInfo /\ list' \in {list, WithName}
  BY DEF ConfEnds, SaveZone, SaveFails
<1>5. Stored'
  BY <1>1, <1>4, SavedTyped
<1> QED
  BY <1>1, <1>2, <1>3, <1>5 DEF TypeInv

\* The name of a zone file
LEMMA PathIs ==
    ASSUME ConfFile, conf_file # <<>>, NEW z \in ZoneInfo
    PROVE  Path(z.file) \in String
<1>1. PICK path \in String : path = conf_file /\ path # <<>>
  BY DEF ConfFile
<1>2. PICK d \in 1 .. Len(path) : d = DirLen(path)
  BY <1>1, DirIsPart
<1>3. Len(path) \in Nat /\ \A k \in 1 .. d : path[k] \in Char
  BY <1>2, LenProperties, ElementOfSeq DEF String
<1>4. SubSeq(path, 1, d) \in Seq(Char)
  BY <1>2, <1>3, SubSeqProperties
<1>5. "/" \in Char
  BY DEF Char, Special
<1>6. <<"/">> \in Seq(Char) /\ z.file \in Seq(Char)
  BY <1>5 DEF ZoneInfo, String
<1>7. (SubSeq(path, 1, d) \o <<"/">>) \o z.file \in Seq(Char)
  BY <1>4, <1>6, ConcatProperties
<1>8. Path(z.file) = (SubSeq(path, 1, d) \o <<"/">>) \o z.file
  BY <1>1, <1>2, Zenon DEF Path
<1> QED
  BY <1>7, <1>8 DEF String

LEMMA ParseZoneTyped ==
    ASSUME TypeInv, ParseZone
    PROVE  TypeInv'
<1>1. /\ Command /\ ConfFile /\ Place /\ Zone /\ Stored /\ Zones /\ Control
      /\ pc = "zones" /\ todo # <<>> /\ conf_file # <<>>
      /\ UNCHANGED <<command, conf_file, file, n, multi_comm, zone_info, redis, store>>
  BY DEF TypeInv, ParseZone, parser
<1>2. Command' /\ ConfFile' /\ Place' /\ Zone' /\ Stored'
  BY <1>1, Kept
<1>3. Control' /\ pc' \in {"zones", "exit"}
  BY <1>1 DEF Control, ParseZone, Exit
<1>4. Tail(todo) \in Seq(String)
  BY <1>1, HeadTailProperties DEF Zones
<1>5. \A z \in info : Path(z.file) \in String
  BY <1>1, PathIs DEF Stored
<1>6. Zones'
  <2>1. todo' \in {todo, Tail(todo)}
    BY DEF ParseZone, zones
  <2>2. opened' = opened \/ \E z \in info : opened' = opened \union {Path(z.file)}
    BY DEF ParseZone, zones
  <2>3. opened' \subseteq String
    BY <1>1, <1>5, <2>2 DEF Zones
  <2> QED
    BY <1>1, <1>4, <2>1, <2>3 DEF Zones
<1> QED
  BY <1>1, <1>2, <1>3, <1>6 DEF TypeInv

LEMMA OthersTyped ==
    ASSUME TypeInv, OptionsEnd \/ ReadList \/ ZonesEnd \/ Loaded \/ UNCHANGED vars
    PROVE  TypeInv'
<1>1. /\ Command /\ ConfFile /\ Place /\ Zone /\ Stored /\ Zones /\ Control
      /\ UNCHANGED <<command, conf_file, file, n, multi_comm, zone_info, store>>
  BY DEF TypeInv, OptionsEnd, ReadList, ZonesEnd, Loaded, vars, parser
<1>2. Command' /\ ConfFile' /\ Place' /\ Zone' /\ Stored'
  BY <1>1, Kept
<1>3. Control'
  BY <1>1 DEF OptionsEnd, ReadList, ZonesEnd, Loaded, vars, Control, Exit
<1>4. Zones'
  <2>1. opened' = opened /\ todo' \in {todo, list}
    BY DEF OptionsEnd, ReadList, ZonesEnd, Loaded, vars, zones
  <2> QED
    BY <1>1, <2>1 DEF Zones, Stored
<1>5. /\ pc' \in {"options", "conf"} => pc \in {"options", "conf"}
      /\ pc' \notin {"options", "conf", "exit"} => pc \notin {"options", "conf", "exit"}
  BY DEF OptionsEnd, ReadList, ZonesEnd, Loaded, vars, Exit
<1> QED
  BY <1>1, <1>2, <1>3, <1>4, <1>5 DEF TypeInv

\* Whatever is on the command line and in master.conf, character by character: the
\* names that the tokenizer takes out of a line fit into the buffers of a ZONE_INFO,
\* with the dot that create_zone_info() adds, conf_file is never filled beyond its
\* end, the positions stay in the line and in the file, and the process has one of
\* the exclusive roles.
THEOREM Types == Spec => []TypeOK
<1>1. TypeInv /\ [Next]_vars => TypeInv'
  BY ReadOptionTyped, OpenConfTyped, ReadLineTyped, ConfEndsTyped, ParseZoneTyped, OthersTyped
     DEF Next
<1> QED
  BY StartTyped, <1>1, Parts, PTL DEF Spec

-----------------------------------------------------------------------------
(* The zone files                                                           *)

\* The values of -f among the first arguments, and what is in conf_file when these
\* have been read
ValuesIn(args, k) == {v \in 2 .. Len(args) : args[v - 1] = Asked("f") /\ v < k}
Wanted(args, k) ==
    IF ValuesIn(args, k) = {} THEN <<>> ELSE CutTo(args[Max(ValuesIn(args, k))])
ReadUpTo(args, k, conf) ==
    /\ conf = Wanted(args, k)
    /\ \A v \in ValuesIn(args, k) : args[v] # <<>>

\* The last -f counts; once that file is open, conf_file keeps its name, and the zone
\* files are opened in a row after the zones have been saved.
BesideInv ==
    /\ TypeInv
    /\ pc = "options" => /\ ReadUpTo(argv, i, conf_file)
                         /\ i > 1 => argv[i - 1] # Asked("f")
    /\ pc = "conf" => ReadUpTo(argv, Len(argv) + 1, conf_file)
    /\ pc \in {"lines", "list", "zones", "loaded", "serve"} \/ opened # {} =>
          conf_file # <<>> /\ (Len(Given) < ConfLen => conf_file = Given)
    /\ pc \in {"options", "conf", "lines", "list"} => opened = {}
    /\ \A path \in opened : \E z \in info : path = Path(z.file)

LEMMA ReadOptionBeside ==
    ASSUME BesideInv, ReadOption
    PROVE  BesideInv'
<1>1. /\ TypeInv /\ ReadUpTo(argv, i, conf_file) /\ (i > 1 => argv[i - 1] # Asked("f"))
      /\ opened = {} /\ argv' = argv /\ opened' = {} /\ i <= Len(argv)
  BY DEF BesideInv, ReadOption, zones
<1>2. TypeInv'
  BY <1>1, ReadOptionTyped
<1>3. argv \in Seq(String) /\ Len(argv) \in Nat /\ i \in 1 .. Len(argv)
  BY <1>1, LenProperties DEF TypeInv, Command
<1>4. pc' \in {"options", "exit"}
  BY DEF ReadOption, Take, Exit
<1>5. PICK L \in Nat : L = Len(argv)
  BY <1>3
<1>6. ValuesIn(argv, i + 1) = ValuesIn(argv, i)
  BY <1>1, <1>3, <1>5 DEF ValuesIn
<1>7. argv[i] # Asked("f") => ValuesIn(argv, i + 2) = ValuesIn(argv, i)
  BY <1>1, <1>3, <1>5 DEF ValuesIn
<1>8. argv[i] = Asked("f") /\ i < Len(argv) =>
          ValuesIn(argv, i + 2) = ValuesIn(argv, i) \union {i + 1}
  BY <1>1, <1>3, <1>5 DEF ValuesIn
<1>9. OptionType(Asked("f")) = "f"
  BY TypeOfOption
<1>10. OptionType(argv[i]) = "f" => argv[i] = Asked("f")
  <2>1. PICK a \in Seq(Char) : a = argv[i]
    BY <1>3, ElementOfSeq DEF String
  <2>2. OptionType(a) = "f" => Len(a) = 2 /\ a[1] = "-" /\ a[2] = "f"
    BY DEF OptionType
  <2>3. a \in Seq(Char) /\ Len(a) = 2 /\ a[1] = "-" /\ a[2] = "f" => a = <<"-", "f">>
    OBVIOUS
  <2> QED
    BY <2>1, <2>2, <2>3 DEF Asked
<1>11. pc' = "options" => ReadUpTo(argv, i', conf_file') /\ argv[i' - 1] # Asked("f")
  <2> SUFFICES ASSUME pc' = "options" PROVE ReadUpTo(argv, i', conf_file') /\ argv[i' - 1] # Asked("f")
    OBVIOUS
  <2>1. CASE OptionType(argv[i]) # "f"
    <3>1. conf_file' = conf_file /\ argv[i] # Asked("f")
      BY <1>9, <2>1 DEF ReadOption
    <3>2. i' = i + 1 \/ (i' = i + 2 /\ HasValue)
      BY <2>1 DEF ReadOption, Take, Exit
    <3>3. argv[i' - 1] # Asked("f")
      <4>1. CASE i' = i + 1
        BY <1>3, <3>1, <4>1
      <4>2. CASE i' = i + 2 /\ HasValue
        <5>1. i' - 1 = i + 1
          BY <1>3, <4>2
        <5> QED
          BY <4>2, <5>1, ValueIsNoOption
      <4> QED
        BY <3>2, <4>1, <4>2
    <3>4. ValuesIn(argv, i') = ValuesIn(argv, i)
      BY <1>6, <1>7, <3>1, <3>2
    <3>5. ReadUpTo(argv, i', conf_file')
      BY <1>1, <3>1, <3>4, Zenon DEF ReadUpTo, Wanted
    <3> QED
      BY <3>3, <3>5
  <2>2. CASE OptionType(argv[i]) = "f"
    <3>1. HasValue /\ conf_file' = CutTo(argv[i + 1]) /\ i' = i + 2
      BY <2>2 DEF ReadOption, Take, Exit
    <3>2. i < Len(argv) /\ argv[i + 1] # <<>>
      BY <3>1 DEF HasValue
    <3>3. argv[i' - 1] # Asked("f")
      <4>1. i' - 1 = i + 1
        BY <1>3, <3>1
      <4> QED
        BY <3>1, <4>1, ValueIsNoOption
    <3>4. PICK S : S = ValuesIn(argv, i')
      OBVIOUS
    <3>5. S = ValuesIn(argv, i) \union {i + 1}
      BY <1>8, <1>10, <2>2, <3>1, <3>2, <3>4
    <3>6. \A v \in ValuesIn(argv, i) : v \in Int /\ v < i + 1
      BY <1>3, <1>5 DEF ValuesIn
    <3>7. i + 1 \in S /\ (\A y \in S : i + 1 >= y)
          /\ \A x \in S : (\A y \in S : x >= y) => x = i + 1
      <4>1. i + 1 \in S /\ i + 1 \in Int
        BY <1>3, <3>5
      <4>2. \A y \in S : y \in Int /\ (y = i + 1 \/ y < i + 1)
        BY <1>3, <3>5, <3>6
      <4>3. \A y \in S : i + 1 >= y
        BY <4>1, <4>2
      <4>4. \A x \in S : x >= i + 1 => x = i + 1
        BY <4>1, <4>2
      <4> QED
        BY <4>1, <4>3, <4>4
    <3>8. Max(S) = i + 1
      BY <3>7, Zenon DEF Max
    <3>9. conf_file' = Wanted(argv, i')
      BY <3>1, <3>4, <3>7, <3>8, Zenon DEF Wanted
    <3>10. \A v \in S : argv[v] # <<>>
      BY <1>1, <3>2, <3>5 DEF ReadUpTo
    <3> QED
      BY <3>3, <3>4, <3>9, <3>10, Zenon DEF ReadUpTo
  <2> QED
    BY <2>1, <2>2
<1>12. pc' = "options" => /\ ReadUpTo(argv', i', conf_file')
                          /\ i' > 1 => argv'[i' - 1] # Asked("f")
  BY <1>1, <1>11
<1> QED
  BY <1>1, <1>2, <1>4, <1>12 DEF BesideInv

\* What was asked for with -f is what is opened.
LEMMA GivenIs ==
    ASSUME Command
    PROVE  /\ Given = IF ValuesIn(argv, Len(argv) + 1) = {} THEN CONF_FILE
                      ELSE argv[Max(ValuesIn(argv, Len(argv) + 1))]
           /\ ValuesIn(argv, Len(argv) + 1) # {} =>
                 Max(ValuesIn(argv, Len(argv) + 1)) \in ValuesIn(argv, Len(argv) + 1)
<1>1. PICK L \in Nat : L = Len(argv)
  BY LenProperties DEF Command
<1>2. ValuesIn(argv, L + 1) = Values
  <2>1. \A v \in 2 .. L : v < L + 1
    BY <1>1
  <2> QED
    BY <1>1, <2>1 DEF ValuesIn, Values, Asked
<1>3. PICK S \in SUBSET (0 .. L) : S = ValuesIn(argv, L + 1)
  <2>1. ValuesIn(argv, L + 1) \subseteq 0 .. L
    BY <1>1 DEF ValuesIn
  <2> QED
    BY <2>1
<1>4. S # {} => Max(S) \in S
  <2>1. SUFFICES ASSUME S # {} PROVE Max(S) \in S
    OBVIOUS
  <2>2. PICK x \in S : \A y \in S : y <= x
    BY <1>1, <2>1, Greatest
  <2>3. \A y \in S : x >= y
    BY <1>1, <1>3, <2>2
  <2> QED
    BY <2>3, Zenon DEF Max
<1>5. Given = IF S = {} THEN CONF_FILE ELSE argv[Max(S)]
  BY <1>2, <1>3, Zenon DEF Given
<1> QED
  BY <1>1, <1>3, <1>4, <1>5, Zenon

LEMMA OpenConfBeside ==
    ASSUME BesideInv, OpenConf
    PROVE  BesideInv'
<1>1. /\ TypeInv /\ ReadUpTo(argv, Len(argv) + 1, conf_file) /\ opened = {}
      /\ argv' = argv /\ opened' = {}
      /\ conf_file' = IF conf_file = <<>> THEN CONF_FILE ELSE conf_file
  BY DEF BesideInv, OpenConf, command, zones
<1>2. TypeInv'
  BY <1>1, OpenConfTyped
<1>3. pc' \in {"lines", "exit"}
  BY DEF OpenConf, Exit
<1>4. Command /\ argv \in Seq(String) /\ Len(argv) \in Nat
  BY <1>1, LenProperties DEF TypeInv, Command
<1>5. PICK S : S = ValuesIn(argv, Len(argv) + 1)
  OBVIOUS
<1>6. /\ Given = IF S = {} THEN CONF_FILE ELSE argv[Max(S)]
      /\ S # {} => Max(S) \in S
  BY <1>4, <1>5, GivenIs, Zenon
<1>7. /\ conf_file = (IF S = {} THEN <<>> ELSE CutTo(argv[Max(S)]))
      /\ \A v \in S : argv[v] # <<>>
  BY <1>1, <1>5, Zenon DEF ReadUpTo, Wanted
<1>8. Len(Given) < ConfLen => conf_file' = Given
  <2>1. CASE S = {}
    <3>1. conf_file = <<>> /\ Given = CONF_FILE
      BY <1>6, <1>7, <2>1
    <3> QED
      BY <1>1, <3>1
  <2>2. CASE S # {}
    <3>1. PICK v \in S : v = Max(S)
      BY <1>6, <2>2
    <3>2. v \in 1 .. Len(argv)
      BY <1>4, <1>5 DEF ValuesIn
    <3>3. argv[v] \in String /\ argv[v] # <<>>
      BY <1>4, <1>7, <3>2, ElementOfSeq
    <3>4. conf_file = CutTo(argv[v]) /\ Given = argv[v]
      BY <1>6, <1>7, <2>2, <3>1
    <3>5. CutTo(argv[v]) # <<>> /\ (Len(argv[v]) < ConfLen => CutTo(argv[v]) = argv[v])
      BY <3>3, CutIs
    <3> QED
      BY <1>1, <3>4, <3>5
  <2> QED
    BY <2>1, <2>2
<1>9. Given' = Given
  BY <1>1 DEF Given, Values
<1>10. pc' = "lines" => conf_file' # <<>>
  BY <1>2 DEF TypeInv, Place
<1> QED
  BY <1>1, <1>2, <1>3, <1>8, <1>9, <1>10 DEF BesideInv

LEMMA ParseZoneBeside ==
    ASSUME BesideInv, ParseZone
    PROVE  BesideInv'
<1>1. /\ TypeInv /\ pc = "zones" /\ argv' = argv /\ conf_file' = conf_file /\ info' = info
      /\ conf_file # <<>> /\ (Len(Given) < ConfLen => conf_file = Given)
  BY DEF BesideInv, ParseZone, command, parser, store
<1>2. TypeInv'
  BY <1>1, ParseZoneTyped
<1>3. pc' \in {"zones", "exit"}
  BY <1>1 DEF ParseZone, Exit
<1>4. Given' = Given
  BY <1>1 DEF Given, Values
<1>5. \A file0 : Path(file0)' = Path(file0)
  BY <1>1 DEF Path
<1>6. opened' = opened \/ \E z \in info : opened' = opened \union {Path(z.file)}
  BY DEF ParseZone, zones
<1>7. \A path \in opened' : \E z \in info : path = Path(z.file)
  BY <1>6 DEF BesideInv
<1>8. \A path \in opened' : \E z \in info' : path = Path(z.file)'
  BY <1>1, <1>5, <1>7
<1> QED
  BY <1>1, <1>2, <1>3, <1>4, <1>8 DEF BesideInv

LEMMA OthersBeside ==
    ASSUME BesideInv, TypeInv',
           OptionsEnd \/ ReadLine \/ ConfEnds \/ ReadList \/ ZonesEnd \/ Loaded \/ UNCHANGED vars
    PROVE  BesideInv'
<1>1. /\ TypeInv /\ argv' = argv /\ i' = i /\ conf_file' = conf_file /\ opened' = opened
  BY DEF BesideInv, OptionsEnd, ReadLine, ConfEnds, ReadList, ZonesEnd, Loaded, vars, command, parser,
         zones
<1>2. Given' = Given
  BY <1>1 DEF Given, Values
<1>3. \A path \in opened' : \E z \in info' : path = Path(z.file)'
  <2>1. opened = {} \/ info' = info
    BY DEF BesideInv, OptionsEnd, ReadLine, ConfEnds, ReadList, ZonesEnd, Loaded, vars, store
  <2>2. \A file0 : Path(file0)' = Path(file0)
    BY <1>1 DEF Path
  <2> QED
    BY <1>1, <2>1, <2>2 DEF BesideInv
<1>4. CASE OptionsEnd
  <2>1. i = Len(argv) + 1
    <3>1. Len(argv) \in Nat /\ i \in 1 .. Len(argv) + 1 /\ i > Len(argv)
      BY <1>1, <1>4, LenProperties DEF OptionsEnd, TypeInv, Command
    <3> QED
      BY <3>1
  <2>2. pc = "options" /\ pc' \in {"conf", "exit"}
    BY <1>4 DEF OptionsEnd, Exit
  <2> QED
    BY <1>1, <1>2, <1>3, <2>1, <2>2 DEF BesideInv
<1>5. CASE UNCHANGED vars
  <2>1. pc' = pc
    BY <1>5 DEF vars
  <2> QED
    BY <1>1, <1>2, <1>3, <2>1 DEF BesideInv
<1>6. CASE ReadLine \/ ConfEnds
  <2>1. pc = "lines" /\ pc' \in {"lines", "list", "exit"}
    BY <1>6 DEF ReadLine, ConfEnds, SkipLine, HandleLine, SaveFails, Exit
  <2> QED
    BY <1>1, <1>2, <1>3, <2>1 DEF BesideInv
<1>7. CASE ReadList \/ ZonesEnd \/ Loaded
  <2>1. pc \in {"list", "zones", "loaded"} /\ pc' \in {"zones", "loaded", "serve", "exit"}
    BY <1>7 DEF ReadList, ZonesEnd, Loaded, Exit
  <2> QED
    BY <1>1, <1>2, <1>3, <2>1 DEF BesideInv
<1> QED
  BY <1>4, <1>5, <1>6, <1>7

\* dirname() of a path that does not end in a slash: what is in front of the last
\* ones.
LEMMA DirOfPath ==
    ASSUME NEW path \in String, "/" \in Range(path), Last(path) # "/"
    PROVE  /\ DirLen(path) \in 1 .. LastSlash(path)
           /\ \A k \in DirLen(path) + 1 .. LastSlash(path) : path[k] = "/"
<1>1. PICK L \in Nat : L = Len(path) /\ DOMAIN path = 1 .. L
  <2>1. Len(path) \in Nat /\ DOMAIN path = 1 .. Len(path)
    BY LenProperties DEF String
  <2> QED
    BY <2>1, Zenon
<1>2. PICK k0 \in 1 .. L : path[k0] = "/"
  BY <1>1 DEF Range
<1>3. PICK S : S = {k \in DOMAIN path : path[k] = "/"}
  OBVIOUS
<1>4. \A k : k \in S <=> k \in 1 .. L /\ path[k] = "/"
  BY <1>1, <1>3
<1>5. S \in SUBSET (0 .. L) /\ S # {}
  BY <1>1, <1>2, <1>4
<1>6. PICK l \in S : l = LastSlash(path) /\ \A y \in S : l >= y
  <2>1. PICK x \in S : \A y \in S : y <= x
    BY <1>1, <1>5, Greatest
  <2>2. \A y \in S : x >= y
    BY <1>1, <1>5, <2>1
  <2>3. Max(S) \in S /\ \A y \in S : Max(S) >= y
    BY <2>2, Zenon DEF Max
  <2>4. LastSlash(path) = Max(S)
    BY <1>3, Zenon DEF LastSlash
  <2> QED
    BY <2>3, <2>4
<1>7. l \in 1 .. L /\ path[l] = "/" /\ path[L] # "/" /\ l < L
  <2>1. l \in 1 .. L /\ path[l] = "/"
    BY <1>4, <1>6
  <2>2. path[L] # "/"
    BY <1>1 DEF Last
  <2> QED
    BY <1>1, <2>1, <2>2
<1>8. path # <<>>
  <2>1. Len(<<>>) = 0
    BY EmptySeq
  <2> QED
    BY <1>1, <1>7, <2>1
<1>9. PICK d \in 1 .. L : /\ d = DirLen(path)
                          /\ d = 1 \/ Inside(path, d)
                          /\ \A k \in d + 1 .. L : ~Inside(path, k)
  BY <1>1, <1>8, DirIsPart
<1>10. d \in 1 .. l
  <2>1. CASE d = 1
    BY <1>1, <1>7, <2>1
  <2>2. CASE Inside(path, d)
    <3>1. PICK s \in d + 1 .. L : path[s] = "/"
      BY <1>1, <2>2 DEF Inside
    <3>2. s \in S
      BY <1>1, <1>4, <1>9, <3>1
    <3> QED
      BY <1>1, <1>6, <1>7, <1>9, <3>1, <3>2
  <2> QED
    BY <1>9, <2>1, <2>2
<1>11. ASSUME NEW k \in d + 1 .. l, path[k] # "/" PROVE FALSE
  <2>1. k \in d + 1 .. L /\ l \in k + 1 .. L /\ L \in l + 1 .. L
    BY <1>1, <1>7, <1>9, <1>11
  <2>2. Inside(path, k)
    BY <1>1, <1>7, <1>11, <2>1 DEF Inside
  <2> QED
    BY <1>9, <2>1, <2>2
<1> QED
  BY <1>6, <1>9, <1>10, <1>11

\* dirname() of a path without a slash is ".", whose length is 1.
LEMMA DirOfPlain ==
    ASSUME NEW path \in String, path # <<>>, "/" \notin Range(path)
    PROVE  SubSeq(path, 1, DirLen(path)) = <<path[1]>>
<1>1. PICK L \in Nat : L = Len(path) /\ DOMAIN path = 1 .. L
  BY LenProperties DEF String
<1>2. PICK d \in 1 .. L : d = DirLen(path) /\ (d = 1 \/ Inside(path, d))
  BY <1>1, DirIsPart
<1>3. ~Inside(path, d)
  BY <1>1, <1>2 DEF Inside, Range
<1>4. SubSeq(path, 1, 1) = <<path[1]>>
  <2>1. L >= 1 /\ 1 \in 1 .. L /\ path[1] \in Char
    BY <1>1, <1>2, ElementOfSeq DEF String
  <2>2. SubSeq(path, 1, 1) = SubSeq(path, 1, 0) \o <<path[1]>>
    BY <1>1, <2>1, SubSeqRecursiveSecond DEF String
  <2>3. SubSeq(path, 1, 0) = <<>>
    BY SubSeqEmpty
  <2>4. <<>> \o <<path[1]>> = <<path[1]>>
    BY <2>1
  <2> QED
    BY <2>2, <2>3, <2>4
<1> QED
  BY <1>2, <1>3, <1>4

\* Wherever -f is on the command line, and whatever master.conf holds: the file of the
\* last -f is opened, if its name fits into conf_file; and every zone file is looked for
\* under the name that master.conf has for it, in the directory of the file that has
\* been opened, or, if that is named without one, in a directory that is named by the
\* first character of the file's own name (dirname(), snprintf() in parse_zone_file()).
\* Only a name that ends in a slash, a directory's, is left out.
THEOREM FilesBesideConf == Spec => []ZoneFilesBesideConf
<1>1. Init => BesideInv
  <2> SUFFICES ASSUME Init PROVE BesideInv
    OBVIOUS
  <2>1. TypeInv
    BY StartTyped
  <2>2. pc = "options" /\ i = 1 /\ conf_file = <<>> /\ opened = {}
    BY DEF Init
  <2>3. ValuesIn(argv, 1) = {}
    <3>1. Len(argv) \in Nat
      BY <2>1, LenProperties DEF TypeInv, Command
    <3> QED
      BY <3>1 DEF ValuesIn
  <2>4. ReadUpTo(argv, i, conf_file)
    BY <2>2, <2>3 DEF ReadUpTo, Wanted
  <2> QED
    BY <2>1, <2>2, <2>4 DEF BesideInv
<1>2. BesideInv /\ [Next]_vars => BesideInv'
  <2> SUFFICES ASSUME BesideInv, [Next]_vars PROVE BesideInv'
    OBVIOUS
  <2>1. TypeInv
    BY DEF BesideInv
  <2>2. CASE OptionsEnd \/ ReadLine \/ ConfEnds \/ ReadList \/ ZonesEnd \/ Loaded \/ UNCHANGED vars
    <3>1. TypeInv'
      BY <2>1, <2>2, ReadLineTyped, ConfEndsTyped, OthersTyped
    <3> QED
      BY <2>2, <3>1, OthersBeside
  <2> QED
    BY <2>2, ReadOptionBeside, OpenConfBeside, ParseZoneBeside DEF Next
<1>3. BesideInv => ZoneFilesBesideConf
  <2> SUFFICES ASSUME BesideInv, NEW path \in opened
               PROVE  /\ Len(Given) < ConfLen => conf_file = Given
                      /\ Last(conf_file) # "/" => \E z \in info :
                            IF "/" \in Range(conf_file)
                               THEN \E d \in 1 .. LastSlash(conf_file) :
                                       /\ \A k \in d + 1 .. LastSlash(conf_file) : conf_file[k] = "/"
                                       /\ path = SubSeq(conf_file, 1, d) \o <<"/">> \o z.file
                               ELSE path = <<conf_file[1]>> \o <<"/">> \o z.file
    BY Zenon DEF ZoneFilesBesideConf
  <2>1. conf_file # <<>> /\ (Len(Given) < ConfLen => conf_file = Given)
    BY DEF BesideInv
  <2>2. PICK conf \in String : conf = conf_file /\ conf # <<>>
    BY <2>1 DEF BesideInv, TypeInv, ConfFile
  <2>3. PICK z \in info : path = Path(z.file)
    BY DEF BesideInv
  <2>4. path = SubSeq(conf, 1, DirLen(conf)) \o <<"/">> \o z.file
    BY <2>2, <2>3, Zenon DEF Path
  <2>5. CASE "/" \in Range(conf) /\ Last(conf) # "/"
    <3>1. PICK d \in 1 .. LastSlash(conf) : /\ d = DirLen(conf)
                                            /\ \A k \in d + 1 .. LastSlash(conf) : conf[k] = "/"
      BY <2>5, DirOfPath
    <3> QED
      BY <2>1, <2>2, <2>4, <2>5, <3>1, Zenon
  <2>6. CASE "/" \notin Range(conf)
    <3>1. SubSeq(conf, 1, DirLen(conf)) = <<conf[1]>>
      BY <2>2, <2>6, DirOfPlain
    <3> QED
      BY <2>1, <2>2, <2>4, <2>6, <3>1, Zenon
  <2> QED
    BY <2>1, <2>2, <2>5, <2>6
<1> QED
  BY <1>1, <1>2, <1>3, PTL DEF Spec

-----------------------------------------------------------------------------
(* The turns of the tokenizer, field by field                               *)

\* What a turn makes of the machine, field by field
Made(s, machine, beg, end, ret) ==
    s \in Scan /\ s.machine = machine /\ s.beg = beg /\ s.end = end /\ s.ret = ret

LEMMA FinishMakes ==
    ASSUME NEW t \in Rec(Passing), NEW p \in Int
    PROVE  LET m == t.machine
               u == Finish(t, p) IN
           /\ m = "d_quote_d_quote" => Made(u, "end", t.beg, p, "RET_DQUOTE")
           /\ m = "separate" /\ t.beg = 0 => Made(u, "normal", 0, t.end, t.ret)
           /\ m \in DOMAIN Returned /\ t.beg = 0 => Made(u, "end", 0, t.end, Returned[m])
           /\ m \in {"slash_slash", "slash_star", "star_slash"} /\ t.beg # 0 =>
                 Made(u, "end", t.beg, p - 1, t.ret)
           /\ m \in {"brace", "comment", "separate", "line_end"} /\ t.beg # 0 =>
                 Made(u, "end", t.beg, p, t.ret)
           /\ m \in Machines => Made(u, m, t.beg, t.end, t.ret)
<1> DEFINE m == t.machine
           u == Finish(t, p)
<1>0. t.beg \in Int /\ t.end \in Int /\ t.ret \in Rets
  BY DEF Rec
<1>1. ASSUME NEW x \in Machines PROVE [t EXCEPT !.machine = x] \in Scan
  BY <1>1 DEF Rec, Scan
<1>2. ASSUME NEW x \in Machines, NEW e \in Int
      PROVE  Made([t EXCEPT !.machine = x, !.end = e], x, t.beg, e, t.ret)
  <2>1. PICK v : v = [t EXCEPT !.machine = x]
    OBVIOUS
  <2>2. v \in Scan /\ v.machine = x /\ v.beg = t.beg /\ v.ret = t.ret
    BY <1>1, <2>1 DEF Rec
  <2>3. PICK w : w = [v EXCEPT !.end = e]
    OBVIOUS
  <2>4. w \in Scan /\ w.machine = x /\ w.beg = t.beg /\ w.end = e /\ w.ret = t.ret
    BY <2>2, <2>3 DEF Scan
  <2>5. w = [t EXCEPT !.machine = x, !.end = e]
    BY <2>1, <2>3
  <2> QED
    BY <2>4, <2>5, Zenon DEF Made
<1>3. ASSUME NEW x \in Machines, NEW r \in Rets
      PROVE  Made([t EXCEPT !.machine = x, !.ret = r], x, t.beg, t.end, r)
  <2>1. PICK v : v = [t EXCEPT !.machine = x]
    OBVIOUS
  <2>2. v \in Scan /\ v.machine = x /\ v.beg = t.beg /\ v.end = t.end
    BY <1>1, <2>1 DEF Rec
  <2>3. PICK w : w = [v EXCEPT !.ret = r]
    OBVIOUS
  <2>4. w \in Scan /\ w.machine = x /\ w.beg = t.beg /\ w.end = t.end /\ w.ret = r
    BY <2>2, <2>3 DEF Scan
  <2>5. w = [t EXCEPT !.machine = x, !.ret = r]
    BY <2>1, <2>3
  <2> QED
    BY <2>4, <2>5, Zenon DEF Made
<1>4. CASE m = "d_quote_d_quote"
  <2>1. u = [t EXCEPT !.machine = "end", !.end = p, !.ret = "RET_DQUOTE"]
    BY <1>4, FinishCases
  <2>2. PICK v : v = [t EXCEPT !.machine = "end", !.end = p]
    OBVIOUS
  <2>3. Made(v, "end", t.beg, p, t.ret)
    BY <1>2, <2>2 DEF Machines
  <2> HIDE DEF u
  <2>4. u = [v EXCEPT !.ret = "RET_DQUOTE"]
    BY <2>1, <2>2, SMT
  <2>5. Made(u, "end", t.beg, p, "RET_DQUOTE")
    BY <2>3, <2>4 DEF Made, Scan, Rets
  <2> QED
    BY <1>4, <2>5, ReturnedIs DEF u, Machines
<1>5. CASE m = "separate" /\ t.beg = 0
  <2>1. u = [t EXCEPT !.machine = "normal"]
    BY <1>5, FinishCases
  <2>2. Made(u, "normal", 0, t.end, t.ret)
    <3>1. u \in Scan
      BY <1>1, <2>1 DEF Machines
    <3> HIDE DEF u
    <3>2. u.machine = "normal" /\ u.beg = t.beg /\ u.end = t.end /\ u.ret = t.ret
      BY <2>1 DEF Rec
    <3> QED
      BY <1>5, <3>1, <3>2 DEF Made
  <2> HIDE DEF u
  <2> QED
    BY <1>5, <2>2, ReturnedIs DEF u, Machines
<1>6. CASE m \in DOMAIN Returned /\ t.beg = 0
  <2>1. u = [t EXCEPT !.machine = "end", !.ret = Returned[m]]
    BY <1>6, FinishCases, ReturnedIs
  <2>2. Made(u, "end", t.beg, t.end, Returned[m])
    BY <1>3, <1>6, <2>1, ReturnedIs DEF Machines
  <2> HIDE DEF u
  <2> QED
    BY <1>6, <2>2, ReturnedIs DEF u, Machines
<1>7. CASE m \in {"slash_slash", "slash_star", "star_slash"} /\ t.beg # 0
  <2>1. u = [t EXCEPT !.machine = "end", !.end = p - 1]
    BY <1>7, FinishCases
  <2>2. Made(u, "end", t.beg, p - 1, t.ret)
    <3>1. PICK e \in Int : e = p - 1
      OBVIOUS
    <3>2. u = [t EXCEPT !.machine = "end", !.end = e]
      BY <2>1, <3>1, Zenon
    <3> HIDE DEF u
    <3>3. Made(u, "end", t.beg, e, t.ret)
      BY <1>2, <3>2 DEF Machines
    <3> QED
      BY <3>1, <3>3
  <2> HIDE DEF u
  <2> QED
    BY <1>7, <2>2 DEF u, Machines
<1>8. CASE m \in {"brace", "comment", "separate", "line_end"} /\ t.beg # 0
  <2>1. u = [t EXCEPT !.machine = "end", !.end = p]
    BY <1>8, FinishCases
  <2>2. Made(u, "end", t.beg, p, t.ret)
    BY <1>2, <2>1 DEF Machines
  <2> HIDE DEF u
  <2> QED
    BY <1>8, <2>2 DEF u, Machines
<1>9. CASE m \in Machines
  <2>1. u = t
    BY <1>9, FinishCases
  <2>2. Made(u, m, t.beg, t.end, t.ret)
    BY <1>9, <2>1 DEF Made, Rec, Scan
  <2> HIDE DEF u
  <2> QED
    BY <1>9, <2>2, ReturnedIs DEF u, Machines
<1>10. m \in Passing
  BY DEF Rec
<1> QED
  BY <1>4, <1>5, <1>6, <1>7, <1>8, <1>9, <1>10, ReturnedIs DEF Passing

Ending == {"comment", "brace", "line_end"}

\* A turn in the state "normal", and its pair of functions in those after a slash or star
LEMMA EnterMakes ==
    ASSUME NEW s \in Scan, s.machine = "normal", NEW kind \in Kinds \ {"refused"}, NEW p \in Int
    PROVE  LET u == Finish(Enter(s, kind, p), p) IN
           /\ kind = "normal" => Made(u, "normal", IF s.beg = 0 THEN p ELSE s.beg, s.end, s.ret)
           /\ kind = "d_quote" /\ s.beg = 0 => Made(u, "d_quote", p + 1, s.end, s.ret)
           /\ kind = "d_quote" /\ s.beg # 0 => Made(u, "invalid", 0, 0, "RET_ERR")
           /\ kind \in {"slash", "star"} => Made(u, kind, s.beg, s.end, s.ret)
           /\ kind = "separate" /\ s.beg = 0 => Made(u, "normal", 0, s.end, s.ret)
           /\ kind \in Ending /\ s.beg = 0 => Made(u, "end", 0, s.end, Returned[kind])
           /\ kind \in Ending \union {"separate"} /\ s.beg # 0 => Made(u, "end", s.beg, p, s.ret)
<1> DEFINE t == Enter(s, kind, p)
           u == Finish(t, p)
<1>0. s.beg \in Int /\ s.end \in Int /\ s.ret \in Rets
  BY DEF Scan
<1>1. CASE kind = "normal"
  <2>1. kind # "d_quote"
    BY <1>1
  <2>2. t = From(s, p)
    BY <1>1, <2>1, Zenon DEF Enter
  <2> HIDE DEF t
  <2>3. PICK b \in Int : b = IF s.beg = 0 THEN p ELSE s.beg
    BY <1>0
  <2>4. t \in Rec(Passing) /\ t.machine = "normal" /\ t.beg = b /\ t.end = s.end /\ t.ret = s.ret
    <3>1. t = [s EXCEPT !.beg = b]
      BY <2>2, <2>3, Zenon DEF From
    <3> QED
      BY <3>1 DEF Scan, Rec, Passing, Machines
  <2>5. Made(u, "normal", b, s.end, s.ret)
    <3>1. Made(u, t.machine, t.beg, t.end, t.ret)
      BY <2>4, FinishMakes DEF Machines
    <3> HIDE DEF u
    <3> QED
      BY <2>4, <3>1
  <2> HIDE DEF u
  <2> QED
    BY <1>1, <2>3, <2>5 DEF u, t, Ending
<1>2. CASE kind = "d_quote" /\ s.beg = 0
  <2>1. kind # "normal"
    BY <1>2
  <2>2. t = [s EXCEPT !.machine = kind, !.beg = p + 1]
    BY <1>2, <2>1, Zenon DEF Enter
  <2> HIDE DEF t
  <2>3. t \in Rec(Passing) /\ t.machine = kind /\ t.beg = p + 1 /\ t.end = s.end /\ t.ret = s.ret
    <3>1. PICK v : v = [s EXCEPT !.machine = kind]
      OBVIOUS
    <3>2. v \in Rec(Passing) /\ v.machine = kind /\ v.end = s.end /\ v.ret = s.ret
      BY <1>2, <3>1 DEF Rec, Scan, Passing, Machines
    <3>3. t = [v EXCEPT !.beg = p + 1]
      BY <2>2, <3>1
    <3> QED
      BY <3>2, <3>3 DEF Rec
  <2>4. Made(u, "d_quote", p + 1, s.end, s.ret)
    <3>1. Made(u, t.machine, t.beg, t.end, t.ret)
      BY <1>2, <2>3, FinishMakes DEF Machines
    <3> HIDE DEF u
    <3> QED
      BY <1>2, <2>3, <3>1
  <2> HIDE DEF u
  <2> QED
    BY <1>2, <2>4 DEF u, t, Ending
<1>3. CASE kind = "d_quote" /\ s.beg # 0
  <2>1. kind # "normal"
    BY <1>3
  <2>2. t = Invalid
    BY <1>3, <2>1, Zenon DEF Enter
  <2> HIDE DEF t
  <2>3. t \in Rec(Passing) /\ t.machine = "invalid" /\ t.beg = 0 /\ t.end = 0 /\ t.ret = "RET_ERR"
    BY <2>2 DEF Invalid, Rec, Passing, Machines, Rets
  <2>4. Made(u, "invalid", 0, 0, "RET_ERR")
    <3>1. Made(u, t.machine, t.beg, t.end, t.ret)
      BY <2>3, FinishMakes DEF Machines
    <3> HIDE DEF u
    <3> QED
      BY <2>3, <3>1
  <2> HIDE DEF u
  <2> QED
    BY <1>3, <2>4 DEF u, t, Ending
<1>4. CASE kind \notin {"normal", "d_quote"}
  <2>1. kind # "normal" /\ kind # "d_quote"
    BY <1>4
  <2>2. t = [s EXCEPT !.machine = kind]
    BY <2>1, Zenon DEF Enter
  <2> HIDE DEF t
  <2>3. t \in Rec(Passing) /\ t.machine = kind /\ t.beg = s.beg /\ t.end = s.end /\ t.ret = s.ret
    BY <1>4, <2>2 DEF Rec, Scan, Passing, Machines, Kinds
  <2>4. kind \in {"slash", "star"} => Made(u, kind, s.beg, s.end, s.ret)
    <3>1. kind \in {"slash", "star"} => Made(u, t.machine, t.beg, t.end, t.ret)
      BY <2>3, FinishMakes DEF Machines
    <3> HIDE DEF u
    <3> QED
      BY <2>3, <3>1
  <2>5. kind = "separate" /\ s.beg = 0 => Made(u, "normal", 0, s.end, s.ret)
    <3>1. kind = "separate" /\ s.beg = 0 => Made(u, "normal", 0, t.end, t.ret)
      BY <2>3, FinishMakes
    <3> HIDE DEF u
    <3> QED
      BY <2>3, <3>1
  <2>6. kind \in Ending /\ s.beg = 0 => Made(u, "end", 0, s.end, Returned[kind])
    <3>1. kind \in Ending => kind \in DOMAIN Returned
      BY ReturnedIs DEF Ending
    <3>2. kind \in Ending /\ s.beg = 0 => Made(u, "end", 0, t.end, Returned[t.machine])
      BY <2>3, <3>1, FinishMakes
    <3> HIDE DEF u
    <3> QED
      BY <2>3, <3>2
  <2>7. kind \in Ending \union {"separate"} /\ s.beg # 0 => Made(u, "end", s.beg, p, s.ret)
    <3>1. kind \in Ending \union {"separate"} /\ s.beg # 0 => Made(u, "end", t.beg, p, t.ret)
      BY <2>3, FinishMakes DEF Ending
    <3> HIDE DEF u
    <3> QED
      BY <2>3, <3>1
  <2> HIDE DEF u
  <2> QED
    BY <1>4, <2>4, <2>5, <2>6, <2>7 DEF u, t
<1> QED
  BY <1>1, <1>2, <1>3, <1>4

\* A turn of the loop that is not refused, in each state
LEMMA NormalTurn ==
    ASSUME NEW s \in Scan, s.machine = "normal", NEW ch, NEW p \in Int, Kind(ch) # "refused"
    PROVE  ReadChar(s, ch, p) = Finish(Enter(s, Kind(ch), p), p)
<1>1. s.machine \notin {"end", "invalid"} /\ s.machine \notin DOMAIN Pair /\ s.machine # "d_quote"
  BY PairIs
<1>2. ReadChar(s, ch, p) = Finish(Jump(s, Kind(ch), p), p)
  BY <1>1, Zenon DEF ReadChar
<1>3. Jump(s, Kind(ch), p) = Enter(s, Kind(ch), p)
  BY <1>1, Zenon DEF Jump
<1> QED
  BY <1>2, <1>3

LEMMA PairTurn ==
    ASSUME NEW s \in Scan, s.machine \in {"slash", "star"}, NEW ch, NEW p \in Int,
           Kind(ch) \in DOMAIN Pair[s.machine]
    PROVE  LET u == ReadChar(s, ch, p)
               m == Pair[s.machine][Kind(ch)] IN
           /\ s.beg = 0 => Made(u, "end", 0, s.end, Returned[m])
           /\ s.beg # 0 => Made(u, "end", s.beg, p - 1, s.ret)
<1>1. PICK m \in {"slash_slash", "slash_star", "star_slash"} : m = Pair[s.machine][Kind(ch)]
  BY PairIs
<1>2. s.machine \notin {"end", "invalid"} /\ s.machine \in DOMAIN Pair /\ s.machine # "d_quote"
      /\ s.machine # "normal" /\ Kind(ch) # "refused"
  BY PairIs
<1> DEFINE t == Jump(s, Kind(ch), p)
           u == Finish(t, p)
<1>3. ReadChar(s, ch, p) = u
  BY <1>2, Zenon DEF ReadChar
<1>4. t = [s EXCEPT !.machine = m]
  BY <1>1, <1>2, Zenon DEF Jump
<1> HIDE DEF t
<1>5. t \in Rec(Passing) /\ t.machine = m /\ t.beg = s.beg /\ t.end = s.end /\ t.ret = s.ret
  BY <1>4 DEF Rec, Scan, Passing
<1>6. s.beg = 0 => Made(u, "end", 0, t.end, Returned[t.machine])
  BY <1>5, FinishMakes, ReturnedIs
<1>7. s.beg # 0 => Made(u, "end", t.beg, p - 1, t.ret)
  BY <1>5, FinishMakes
<1> HIDE DEF u
<1> QED
  BY <1>1, <1>3, <1>5, <1>6, <1>7

\* A star or a slash that was no part of a pair has begun a token or belongs to one.
LEMMA LoneTurn ==
    ASSUME NEW s \in Scan, s.machine \in {"slash", "star"}, NEW ch, NEW p \in Int,
           Kind(ch) \notin DOMAIN Pair[s.machine], Kind(ch) # "refused"
    PROVE  \E v : /\ Made(v, "normal", IF s.beg = 0 THEN p - 1 ELSE s.beg, s.end, s.ret)
                  /\ ReadChar(s, ch, p) = Finish(Enter(v, Kind(ch), p), p)
<1>1. s.machine \notin {"end", "invalid"} /\ s.machine \in DOMAIN Pair /\ s.machine # "d_quote"
      /\ s.machine # "normal"
  BY PairIs
<1> DEFINE w == [s EXCEPT !.machine = "normal"]
           v == From(w, p - 1)
<1>2. ReadChar(s, ch, p) = Finish(Jump(s, Kind(ch), p), p)
  BY <1>1, Zenon DEF ReadChar
<1>3. Jump(s, Kind(ch), p) = Enter(v, Kind(ch), p)
  BY <1>1, Zenon DEF Jump
<1>4. w \in Scan /\ w.machine = "normal" /\ w.beg = s.beg /\ w.end = s.end /\ w.ret = s.ret
  BY DEF Scan, Machines
<1> HIDE DEF w
<1>5. PICK b \in Int : b = IF s.beg = 0 THEN p - 1 ELSE s.beg
  BY DEF Scan
<1>6. v = [w EXCEPT !.beg = b]
  BY <1>4, <1>5, Zenon DEF From
<1> HIDE DEF v
<1>7. Made(v, "normal", b, s.end, s.ret)
  BY <1>4, <1>6 DEF Made, Scan
<1> QED
  BY <1>2, <1>3, <1>5, <1>7

LEMMA QuoteTurn ==
    ASSUME NEW s \in Scan, s.machine = "d_quote", NEW ch, NEW p \in Int, Kind(ch) # "refused"
    PROVE  /\ Kind(ch) = "d_quote" => Made(ReadChar(s, ch, p), "end", s.beg, p, "RET_DQUOTE")
           /\ Kind(ch) # "d_quote" => ReadChar(s, ch, p) = s
<1>1. s.machine \notin {"end", "invalid"} /\ s.machine \notin DOMAIN Pair /\ s.machine # "normal"
  BY PairIs
<1> DEFINE t == Jump(s, Kind(ch), p)
           u == Finish(t, p)
<1>2. ReadChar(s, ch, p) = u
  BY <1>1, Zenon DEF ReadChar
<1>3. t = IF Kind(ch) = "d_quote" THEN [s EXCEPT !.machine = "d_quote_d_quote"] ELSE s
  BY <1>1, Zenon DEF Jump
<1> HIDE DEF t
<1>4. Kind(ch) = "d_quote" =>
          /\ t \in Rec(Passing) /\ t.machine = "d_quote_d_quote" /\ t.beg = s.beg
  BY <1>3 DEF Rec, Scan, Passing
<1>5. Kind(ch) = "d_quote" => Made(u, "end", t.beg, p, "RET_DQUOTE")
  BY <1>4, FinishMakes
<1>6. Kind(ch) # "d_quote" => u = s
  BY <1>3, FinishCases DEF Machines
<1> HIDE DEF u
<1> QED
  BY <1>2, <1>4, <1>5, <1>6

-----------------------------------------------------------------------------
(* What zone.h says of a line, position by position                         *)

LEMMA KindOf ==
    ASSUME NEW ch
    PROVE  /\ Kind(ch) = "d_quote" <=> ch = Quote
           /\ Kind(ch) = "slash" <=> ch = "/"
           /\ Kind(ch) = "star" <=> ch = "*"
           /\ ch = NUL => Kind(ch) = "line_end"
BY DEF Kind, Quote, NUL, Newline

\* Quotes open and close in turn.
LEMMA QuotedIs ==
    ASSUME NEW buf, NEW L \in Nat
    PROVE  /\ ~Quoted(buf, 1)
           /\ \A p \in 1 .. L : Quoted(buf, p + 1) <=> ~(Quoted(buf, p) <=> buf[p] = Quote)
<1> DEFINE Q(p) == {q \in 1 .. p - 1 : buf[q] = Quote}
<1>1. \A p \in 1 .. L + 1 : IsFiniteSet(Q(p)) /\ Cardinality(Q(p)) \in Nat
  <2> TAKE p \in 1 .. L + 1
  <2>1. IsFiniteSet(1 .. p - 1)
    BY FS_Interval
  <2>2. Q(p) \subseteq 1 .. p - 1
    OBVIOUS
  <2> HIDE DEF Q
  <2>3. IsFiniteSet(Q(p))
    BY <2>1, <2>2, FS_Subset
  <2> QED
    BY <2>3, FS_CardinalityType
<1>2. Cardinality(Q(1)) = 0
  <2>1. Q(1) = {}
    OBVIOUS
  <2> QED
    BY <2>1, FS_EmptySet
<1>3. ASSUME NEW p \in 1 .. L
      PROVE  Quoted(buf, p + 1) <=> ~(Quoted(buf, p) <=> buf[p] = Quote)
  <2>1. p \in 1 .. L + 1 /\ p + 1 \in 1 .. L + 1
    OBVIOUS
  <2>2. PICK c \in Nat : c = Cardinality(Q(p))
    BY <1>1, <2>1
  <2>3. Quoted(buf, p) <=> c % 2 = 1
    BY <2>2 DEF Quoted
  <2>4. CASE buf[p] = Quote
    <3>1. Q(p + 1) = Q(p) \union {p} /\ p \notin Q(p)
      BY <2>4
    <3> HIDE DEF Q
    <3>2. Cardinality(Q(p + 1)) = c + 1
      BY <1>1, <2>1, <2>2, <3>1, FS_AddElement
    <3>3. Quoted(buf, p + 1) <=> (c + 1) % 2 = 1
      BY <3>2 DEF Quoted, Q
    <3> QED
      BY <2>3, <2>4, <3>3
  <2>5. CASE buf[p] # Quote
    <3>1. Q(p + 1) = Q(p)
      BY <2>5
    <3> HIDE DEF Q
    <3>2. Cardinality(Q(p + 1)) = c
      BY <2>2, <3>1
    <3>3. Quoted(buf, p + 1) <=> c % 2 = 1
      BY <3>2 DEF Quoted, Q
    <3> QED
      BY <2>3, <2>5, <3>3
  <2> QED
    BY <2>4, <2>5
<1>4. ~Quoted(buf, 1)
  BY <1>2 DEF Quoted
<1> QED
  BY <1>3, <1>4

\* A line that fgets() has read, whose quotes are closed, of L characters
WholeLine(buf, L) == buf \in String /\ IsLine(buf) /\ Closed(buf) /\ L = Len(buf)

LEMMA LineIs ==
    ASSUME NEW buf, NEW L, WholeLine(buf, L)
    PROVE  /\ L \in Nat \ {0} /\ DOMAIN buf = 1 .. L /\ buf \in Seq(Char) /\ L = Len(buf)
           /\ \A p \in 1 .. L : buf[p] \in Char
           /\ buf[L] = NUL
           /\ ~Quoted(buf, 1) /\ ~Quoted(buf, L + 1) /\ ~Quoted(buf, L)
           /\ \A p \in 1 .. L : Quoted(buf, p + 1) <=> ~(Quoted(buf, p) <=> buf[p] = Quote)
<1>1. buf \in Seq(Char) /\ IsLine(buf) /\ Closed(buf) /\ L = Len(buf)
  BY DEF WholeLine, String
<1>2. L \in Nat /\ DOMAIN buf = 1 .. L
  BY <1>1, LenProperties
<1>3. L # 0
  BY <1>1, EmptySeq DEF IsLine
<1>4. buf[L] = NUL
  BY <1>1, <1>2, <1>3 DEF IsLine
<1>5. \A p \in 1 .. L : buf[p] \in Char
  BY <1>1, <1>2, ElementOfSeq
<1>6. ~Quoted(buf, 1) /\ \A p \in 1 .. L : Quoted(buf, p + 1) <=> ~(Quoted(buf, p) <=> buf[p] = Quote)
  BY <1>2, QuotedIs
<1>7. ~Quoted(buf, L + 1)
  <2>1. PICK c : c = Cardinality({q \in DOMAIN buf : buf[q] = Quote})
    OBVIOUS
  <2>2. (L + 1) - 1 = L
    BY <1>2
  <2>3. c = Cardinality({q \in 1 .. (L + 1) - 1 : buf[q] = Quote})
    BY <1>2, <2>1, <2>2
  <2>4. c % 2 # 1
    <3>1. c \in Nat
      <4>1. IsFiniteSet(1 .. L)
        BY <1>2, FS_Interval
      <4>2. IsFiniteSet({q \in 1 .. L : buf[q] = Quote})
        BY <4>1, FS_Subset
      <4> QED
        BY <1>2, <2>1, <4>2, FS_CardinalityType
    <3>2. c % 2 = 0
      BY <1>1, <2>1 DEF Closed
    <3> QED
      BY <3>1, <3>2
  <2> QED
    BY <2>3, <2>4 DEF Quoted
<1>8. ~Quoted(buf, L)
  <2>1. buf[L] # Quote
    BY <1>4 DEF NUL, Quote
  <2>2. L \in 1 .. L
    BY <1>2, <1>3
  <2> QED
    BY <1>6, <1>7, <2>1, <2>2
<1> QED
  BY <1>1, <1>2, <1>3, <1>4, <1>5, <1>6, <1>7, <1>8

LEMMA StopIs ==
    ASSUME NEW buf, NEW L, WholeLine(buf, L)
    PROVE  /\ Stop(buf) \in 1 .. L
           /\ Sign(buf, Stop(buf)) /\ ~Quoted(buf, Stop(buf))
           /\ \A p \in 1 .. Stop(buf) - 1 : Quoted(buf, p) \/ ~Sign(buf, p)
<1>1. L \in Nat \ {0} /\ DOMAIN buf = 1 .. L /\ ~Quoted(buf, L) /\ buf[L] = NUL
  BY LineIs
<1>2. PICK S : S = {p \in DOMAIN buf : ~Quoted(buf, p) /\ Sign(buf, p)} \union {Len(buf)}
  OBVIOUS
<1>3. Sign(buf, L)
  BY <1>1, KindOf DEF Sign
<1>4. \A p : p \in S <=> p \in 1 .. L /\ ~Quoted(buf, p) /\ Sign(buf, p)
  BY <1>1, <1>2, <1>3, LineIs
<1>5. S \in SUBSET (0 .. L) /\ S # {}
  <2>1. L \in S
    BY <1>1, <1>3, <1>4
  <2> QED
    BY <1>1, <1>4, <2>1
<1>6. Stop(buf) = Min(S)
  BY <1>2, Zenon DEF Stop
<1>7. \E x \in S : \A y \in S : x <= y
  BY <1>1, <1>5, Least
<1>8. PICK d \in S : d = Stop(buf) /\ \A y \in S : d <= y
  BY <1>6, <1>7, Zenon DEF Min
<1>9. \A p \in 1 .. d - 1 : Quoted(buf, p) \/ ~Sign(buf, p)
  <2>1. ASSUME NEW p \in 1 .. d - 1, ~Quoted(buf, p), Sign(buf, p) PROVE FALSE
    <3>1. d \in 1 .. L
      BY <1>4, <1>8
    <3>2. p \in 1 .. L /\ ~(d <= p)
      BY <1>1, <3>1
    <3>3. p \in S
      BY <1>4, <2>1, <3>2
    <3> QED
      BY <1>8, <3>2, <3>3
  <2> QED
    BY <2>1
<1> QED
  BY <1>4, <1>8, <1>9

\* From a up to z: separators, and characters of a token without quotes
Gap(buf, a, z) == \A q \in a .. z - 1 : ~Quoted(buf, q) /\ Kind(buf[q]) = "separate"
Held(buf, a, z) == \A q \in a .. z - 1 : InWord(buf, q)

Bare(buf, a, z) ==
    a < z /\ Held(buf, a, z) /\ (a = 1 \/ ~InWord(buf, a - 1)) /\ ~InWord(buf, z)
Enclosed(buf, a, z) ==
    /\ 1 < a /\ a <= z
    /\ buf[a - 1] = Quote /\ ~Quoted(buf, a - 1) /\ buf[z] = Quote
    /\ \A p \in a .. z - 1 : buf[p] # Quote

LEMMA WordsAre ==
    ASSUME NEW buf
    PROVE  /\ \A w \in Words(buf) : /\ w = <<w[1], w[2]>>
                                    /\ w[1] \in 1 .. Stop(buf) /\ w[2] \in 1 .. Stop(buf)
                                    /\ Bare(buf, w[1], w[2]) \/ Enclosed(buf, w[1], w[2])
           /\ \A a, z \in 1 .. Stop(buf) :
                 Bare(buf, a, z) \/ Enclosed(buf, a, z) => <<a, z>> \in Words(buf)
<1> DEFINE P == (1 .. Stop(buf)) \X (1 .. Stop(buf))
<1>1. \A w : w \in Words(buf) <=> w \in P /\ (Bare(buf, w[1], w[2]) \/ Enclosed(buf, w[1], w[2]))
  BY Zenon DEF Words, Bare, Enclosed, Held
<1>2. \A w \in P : w = <<w[1], w[2]>> /\ w[1] \in 1 .. Stop(buf) /\ w[2] \in 1 .. Stop(buf)
  OBVIOUS
<1>3. \A a, z \in 1 .. Stop(buf) : <<a, z>> \in P /\ <<a, z>>[1] = a /\ <<a, z>>[2] = z
  OBVIOUS
<1> HIDE DEF P
<1>4. \A w \in Words(buf) : /\ w = <<w[1], w[2]>>
                            /\ w[1] \in 1 .. Stop(buf) /\ w[2] \in 1 .. Stop(buf)
                            /\ Bare(buf, w[1], w[2]) \/ Enclosed(buf, w[1], w[2])
  BY <1>1, <1>2, Zenon
<1>5. ASSUME NEW a \in 1 .. Stop(buf), NEW z \in 1 .. Stop(buf),
             Bare(buf, a, z) \/ Enclosed(buf, a, z)
      PROVE  <<a, z>> \in Words(buf)
  <2>1. PICK w : w = <<a, z>>
    OBVIOUS
  <2>2. w \in P /\ w[1] = a /\ w[2] = z
    BY <1>3, <2>1
  <2> QED
    BY <1>1, <1>5, <2>1, <2>2
<1> QED
  BY <1>4, <1>5

\* The errors of a line
LEMMA ErrorsAre ==
    ASSUME NEW buf
    PROVE  \A e : e \in Errors(buf) <=>
              \/ e \in 1 .. Stop(buf) /\ Kind(buf[e]) = "refused"
              \/ e \in 2 .. Stop(buf) /\ buf[e] = Quote /\ InWord(buf, e - 1)
              \/ \E w \in Words(buf) : w[2] - w[1] >= TokenMax /\ e = w[1]
<1> TAKE e
<1>1. e \in {w[1] : w \in {x \in Words(buf) : x[2] - x[1] >= TokenMax}} <=>
          \E w \in Words(buf) : w[2] - w[1] >= TokenMax /\ e = w[1]
  BY Zenon
<1>2. e \in {p \in 1 .. Stop(buf) : Kind(buf[p]) = "refused"} <=>
          e \in 1 .. Stop(buf) /\ Kind(buf[e]) = "refused"
  BY Zenon
<1>3. e \in {p \in 2 .. Stop(buf) : buf[p] = Quote /\ InWord(buf, p - 1)} <=>
          e \in 2 .. Stop(buf) /\ buf[e] = Quote /\ InWord(buf, e - 1)
  BY Zenon
<1> QED
  BY <1>1, <1>2, <1>3, Zenon DEF Errors

\* The sign at which a line ends
LEMMA StopKind ==
    ASSUME NEW buf, NEW L, WholeLine(buf, L)
    PROVE  /\ Kind(buf[Stop(buf)]) \notin {"refused", "d_quote", "separate", "normal"}
           /\ buf[Stop(buf)] # Quote
           /\ \A q \in 1 .. Stop(buf) :
                 Quoted(buf, q) \/ Kind(buf[q]) \in {"refused", "d_quote", "separate", "normal"} =>
                     q < Stop(buf)
<1>1. Stop(buf) \in 1 .. L /\ L \in Nat /\ Sign(buf, Stop(buf)) /\ ~Quoted(buf, Stop(buf))
  BY StopIs, LineIs
<1>2. Kind(buf[Stop(buf)]) \notin {"refused", "d_quote", "separate", "normal"}
  <2>1. CASE Kind(buf[Stop(buf)]) \in {"comment", "brace", "line_end"}
    BY <2>1
  <2>2. CASE buf[Stop(buf)] \in {"/", "*"}
    BY <2>2, KindOf
  <2>3. <<buf[Stop(buf)], buf[Stop(buf) + 1]>> \in {<<"/", "/">>, <<"/", "*">>, <<"*", "/">>} =>
            buf[Stop(buf)] \in {"/", "*"}
    OBVIOUS
  <2> QED
    BY <1>1, <2>1, <2>2, <2>3 DEF Sign
<1>3. buf[Stop(buf)] # Quote
  BY <1>2, KindOf
<1> QED
  BY <1>1, <1>2, <1>3

\* Where a call begins: outside quotes, and not in the middle of a token
Boundary(buf, from) ==
    /\ from \in 1 .. Stop(buf) /\ ~Quoted(buf, from)
    /\ \/ from = 1 \/ ~InWord(buf, from - 1)
       \/ Kind(buf[from]) = "separate" \/ from = Stop(buf)

\* Among separators no token begins, and nothing is wrong with them.
LEMMA GapIs ==
    ASSUME NEW buf, NEW L, WholeLine(buf, L), NEW q \in 1 .. L,
           ~Quoted(buf, q), Kind(buf[q]) = "separate"
    PROVE  (\A w \in Words(buf) : w[1] # q) /\ q \notin Errors(buf)
<1>1. L \in Nat /\ \A p \in 1 .. L : Quoted(buf, p + 1) <=> ~(Quoted(buf, p) <=> buf[p] = Quote)
  BY LineIs
<1>2. ~InWord(buf, q) /\ buf[q] # Quote
  BY KindOf DEF InWord
<1>3. ASSUME NEW w \in Words(buf), w[1] = q PROVE FALSE
  <2>1. CASE Bare(buf, w[1], w[2])
    <3>1. w[2] \in Nat /\ q \in w[1] .. w[2] - 1
      BY <1>3, <2>1, WordsAre, StopIs, <1>1 DEF Bare
    <3> QED
      BY <1>2, <2>1, <3>1 DEF Bare, Held
  <2>2. CASE Enclosed(buf, w[1], w[2])
    <3>1. q - 1 \in 1 .. L /\ (q - 1) + 1 = q
      BY <1>1, <1>3, <2>2 DEF Enclosed
    <3>2. Quoted(buf, q)
      BY <1>1, <1>3, <2>2, <3>1 DEF Enclosed
    <3> QED
      BY <3>2
  <2> QED
    BY <1>3, <2>1, <2>2, WordsAre
<1>4. q \notin Errors(buf)
  <2>1. ~(q \in 1 .. Stop(buf) /\ Kind(buf[q]) = "refused")
    OBVIOUS
  <2> QED
    BY <1>2, <1>3, <2>1, ErrorsAre
<1> QED
  BY <1>3, <1>4

-----------------------------------------------------------------------------
(* The next token of a call: where it is, and that it is the next           *)

\* A token without quotes, from b up to z, is the next of a call that begins at `from'.
FoundWord(buf, from, b, z) ==
    /\ b \in from .. z - 1 /\ z \in 1 .. Stop(buf)
    /\ Gap(buf, from, b) /\ Held(buf, b, z)
    /\ z = Stop(buf) \/ (~Quoted(buf, z) /\ Kind(buf[z]) = "separate")

\* A token in quotes, that at z being the closing one
FoundQuoted(buf, from, b, z) ==
    /\ b \in from + 1 .. z /\ z \in 1 .. Stop(buf) - 1
    /\ Gap(buf, from, b - 1)
    /\ buf[b - 1] = Quote /\ ~Quoted(buf, b - 1) /\ buf[z] = Quote
    /\ \A q \in b .. z - 1 : Kind(buf[q]) # "refused" /\ buf[q] # Quote
    /\ \A q \in b .. z : Quoted(buf, q)

\* Word w is the first one from a place on, which is in order up to `next', but for its
\* length.
First(buf, from, w, next) ==
    /\ w \in Words(buf) /\ w[1] >= from /\ w[1] < next /\ w[2] < next + 1
    /\ \A v \in Words(buf) : v[1] >= from => v = w \/ v[1] >= next
    /\ \A e \in Errors(buf) : e >= from =>
          (e > w[2] /\ e >= next) \/ (e = w[1] /\ w[2] - w[1] >= TokenMax)
    /\ w[2] - w[1] >= TokenMax => w[1] \in Errors(buf)

LEMMA WordFound ==
    ASSUME NEW buf, NEW L, WholeLine(buf, L), NEW from, Boundary(buf, from),
           NEW b, NEW z, FoundWord(buf, from, b, z)
    PROVE  First(buf, from, <<b, z>>, z) /\ Boundary(buf, z)
<1>1. /\ L \in Nat \ {0} /\ Stop(buf) \in 1 .. L /\ ~Quoted(buf, Stop(buf))
      /\ \A p \in 1 .. L : Quoted(buf, p + 1) <=> ~(Quoted(buf, p) <=> buf[p] = Quote)
  BY LineIs, StopIs
<1>2. /\ from \in 1 .. Stop(buf) /\ b \in from .. z - 1 /\ z \in 1 .. Stop(buf)
      /\ Gap(buf, from, b) /\ Held(buf, b, z)
  BY DEF FoundWord, Boundary
<1>3. ~Quoted(buf, z) /\ ~InWord(buf, z) /\ Kind(buf[z]) # "refused" /\ buf[z] # Quote
  <2>1. CASE z = Stop(buf)
    BY <1>1, <2>1, StopKind DEF InWord
  <2>2. CASE z # Stop(buf)
    BY <2>2, KindOf DEF InWord, FoundWord
  <2> QED
    BY <2>1, <2>2
<1>4. \A q \in b .. z - 1 : /\ ~Quoted(buf, q) /\ InWord(buf, q) /\ Kind(buf[q]) # "refused"
                            /\ buf[q] # Quote
  BY <1>2, KindOf DEF Held, InWord
<1>5. \A q \in from .. b - 1 : (\A w \in Words(buf) : w[1] # q) /\ q \notin Errors(buf)
  BY <1>1, <1>2, GapIs DEF Gap
<1>6. b = 1 \/ ~InWord(buf, b - 1)
  <2>1. CASE b = from
    <3>1. Kind(buf[from]) # "separate" /\ from # Stop(buf)
      BY <1>1, <1>2, <1>4, <2>1 DEF InWord
    <3> QED
      BY <2>1, <3>1 DEF Boundary
  <2>2. CASE b # from
    <3>1. b - 1 \in from .. b - 1
      BY <1>1, <1>2, <2>2
    <3>2. Kind(buf[b - 1]) = "separate"
      BY <1>2, <3>1 DEF Gap
    <3> QED
      BY <3>2 DEF InWord
  <2> QED
    BY <2>1, <2>2
<1>7. <<b, z>> \in Words(buf)
  <2>1. Bare(buf, b, z)
    BY <1>1, <1>2, <1>3, <1>6 DEF Bare
  <2>2. b \in 1 .. Stop(buf)
    BY <1>1, <1>2
  <2> QED
    BY <1>2, <2>1, <2>2, WordsAre
<1>8. ASSUME NEW v \in Words(buf), v[1] \in b .. z PROVE v = <<b, z>>
  <2>1. v = <<v[1], v[2]>> /\ v[1] \in 1 .. Stop(buf) /\ v[2] \in 1 .. Stop(buf)
    BY WordsAre
  <2>2. CASE Bare(buf, v[1], v[2])
    <3>1. v[1] \in v[1] .. v[2] - 1
      BY <1>1, <2>1, <2>2 DEF Bare
    <3>2. InWord(buf, v[1])
      BY <2>2, <3>1 DEF Bare, Held
    <3>3. v[1] # z
      BY <1>3, <3>2
    <3>4. v[1] = b
      <4>1. ASSUME v[1] # b PROVE FALSE
        <5>1. v[1] - 1 \in b .. z - 1 /\ v[1] # 1
          BY <1>1, <1>2, <1>8, <3>3, <4>1
        <5> QED
          BY <1>4, <2>2, <5>1 DEF Bare
      <4> QED
        BY <4>1
    <3>5. ~(v[2] < z)
      <4>1. ASSUME v[2] < z PROVE FALSE
        <5>1. v[2] \in b .. z - 1
          BY <1>1, <1>2, <2>1, <2>2, <3>4, <4>1 DEF Bare
        <5> QED
          BY <1>4, <2>2, <5>1 DEF Bare
      <4> QED
        BY <4>1
    <3>6. ~(z < v[2])
      <4>1. ASSUME z < v[2] PROVE FALSE
        <5>1. z \in v[1] .. v[2] - 1
          BY <1>1, <1>2, <2>1, <3>4, <4>1
        <5> QED
          BY <1>3, <2>2, <5>1 DEF Bare, Held
      <4> QED
        BY <4>1
    <3>7. v[2] = z
      BY <1>1, <1>2, <2>1, <3>5, <3>6
    <3> QED
      BY <2>1, <3>4, <3>7
  <2>3. CASE Enclosed(buf, v[1], v[2])
    <3>1. v[1] - 1 \in 1 .. L /\ (v[1] - 1) + 1 = v[1]
      BY <1>1, <2>1, <2>3 DEF Enclosed
    <3>2. Quoted(buf, v[1])
      BY <1>1, <2>3, <3>1 DEF Enclosed
    <3> QED
      BY <1>1, <1>2, <1>3, <1>4, <1>8, <3>2
  <2> QED
    BY <2>2, <2>3, WordsAre
<1>9. \A v \in Words(buf) : v[1] >= from => v = <<b, z>> \/ v[1] >= z
  <2>1. ASSUME NEW v \in Words(buf), v[1] >= from, v # <<b, z>> PROVE v[1] >= z
    <3>1. v[1] \in 1 .. Stop(buf)
      BY WordsAre
    <3>2. v[1] \notin from .. b - 1 /\ v[1] \notin b .. z
      BY <1>5, <1>8, <2>1
    <3> QED
      BY <1>1, <1>2, <2>1, <3>1, <3>2
  <2> QED
    BY <2>1
<1>10. ASSUME NEW e \in Errors(buf), e >= from, ~(e > z)
       PROVE  e = b /\ z - b >= TokenMax
  <2>1. e \in 1 .. Stop(buf)
    BY <1>1, ErrorsAre, WordsAre
  <2>2. e \in b .. z
    BY <1>1, <1>2, <1>5, <1>10, <2>1
  <2>3. Kind(buf[e]) # "refused" /\ buf[e] # Quote
    BY <1>1, <1>2, <1>3, <1>4, <2>2
  <2>4. PICK w \in Words(buf) : w[2] - w[1] >= TokenMax /\ e = w[1]
    BY <1>10, <2>3, ErrorsAre
  <2>5. w = <<b, z>>
    BY <1>8, <2>2, <2>4
  <2> QED
    BY <2>4, <2>5
<1>11. z - b >= TokenMax => b \in Errors(buf)
  <2>1. PICK w : w = <<b, z>>
    OBVIOUS
  <2>2. w \in Words(buf) /\ w[1] = b /\ w[2] = z
    BY <1>7, <2>1
  <2> QED
    BY <2>2, ErrorsAre
<1>12. First(buf, from, <<b, z>>, z)
  <2>1. PICK w : w = <<b, z>>
    OBVIOUS
  <2>2. w \in Words(buf) /\ w[1] = b /\ w[2] = z
    BY <1>7, <2>1
  <2>3. b >= from /\ b < z /\ z < z + 1
    BY <1>1, <1>2
  <2>4. \A e \in Errors(buf) : e > z => e >= z
    <3>1. Errors(buf) \subseteq 1 .. Stop(buf)
      BY ErrorsAre, WordsAre, <1>1
    <3> QED
      BY <1>1, <1>2, <3>1
  <2>5. First(buf, from, w, z)
    BY <1>9, <1>10, <1>11, <2>1, <2>2, <2>3, <2>4 DEF First
  <2> QED
    BY <2>1, <2>5
<1>13. Boundary(buf, z)
  BY <1>2, <1>3 DEF Boundary, FoundWord
<1> QED
  BY <1>12, <1>13

LEMMA QuotedFound ==
    ASSUME NEW buf, NEW L, WholeLine(buf, L), NEW from, Boundary(buf, from),
           NEW b, NEW z, FoundQuoted(buf, from, b, z)
    PROVE  First(buf, from, <<b, z>>, z + 1) /\ Boundary(buf, z + 1)
<1>1. /\ L \in Nat \ {0} /\ Stop(buf) \in 1 .. L /\ ~Quoted(buf, Stop(buf))
      /\ \A p \in 1 .. L : Quoted(buf, p + 1) <=> ~(Quoted(buf, p) <=> buf[p] = Quote)
  BY LineIs, StopIs
<1>2. /\ from \in 1 .. Stop(buf) /\ b \in from + 1 .. z /\ z \in 1 .. Stop(buf) - 1
      /\ Gap(buf, from, b - 1) /\ buf[b - 1] = Quote /\ ~Quoted(buf, b - 1) /\ buf[z] = Quote
  BY DEF FoundQuoted, Boundary
<1>3. \A q \in b .. z : Quoted(buf, q) /\ ~InWord(buf, q) /\ Kind(buf[q]) # "refused"
  <2> TAKE q \in b .. z
  <2>1. Quoted(buf, q)
    BY DEF FoundQuoted
  <2>2. CASE q = z
    BY <1>2, <2>1, <2>2, KindOf DEF InWord
  <2>3. CASE q # z
    <3>1. q \in b .. z - 1
      BY <1>1, <1>2, <2>3
    <3> QED
      BY <2>1, <3>1 DEF InWord, FoundQuoted
  <2> QED
    BY <2>2, <2>3
<1>4. \A q \in b .. z - 1 : buf[q] # Quote
  BY DEF FoundQuoted
<1>5. \A q \in from .. b - 2 : (\A w \in Words(buf) : w[1] # q) /\ q \notin Errors(buf)
  <2> TAKE q \in from .. b - 2
  <2>1. q \in from .. (b - 1) - 1 /\ q \in 1 .. L
    BY <1>1, <1>2
  <2>2. ~Quoted(buf, q) /\ Kind(buf[q]) = "separate"
    BY <1>2, <2>1 DEF Gap
  <2> QED
    BY <2>1, <2>2, GapIs
<1>6. b - 1 \in 1 .. Stop(buf) /\ ~InWord(buf, b - 1) /\ Kind(buf[b - 1]) \notin {"refused", "separate"}
  BY <1>1, <1>2, KindOf DEF InWord
<1>7. b - 1 = 1 \/ ~InWord(buf, b - 2)
  <2>1. CASE b - 1 = from
    <3>1. from # Stop(buf)
      BY <1>1, <1>2
    <3>2. from - 1 = b - 2
      BY <1>1, <1>2, <2>1
    <3> QED
      BY <1>6, <2>1, <3>1, <3>2 DEF Boundary
  <2>2. CASE b - 1 # from
    <3>1. b - 2 \in from .. (b - 1) - 1
      BY <1>1, <1>2, <2>2
    <3>2. Kind(buf[b - 2]) = "separate"
      BY <1>2, <3>1 DEF Gap
    <3> QED
      BY <3>2 DEF InWord
  <2> QED
    BY <2>1, <2>2
<1>8. ASSUME NEW v \in Words(buf), v[1] \in b - 1 .. z PROVE v = <<b, z>>
  <2>1. v = <<v[1], v[2]>> /\ v[1] \in 1 .. Stop(buf) /\ v[2] \in 1 .. Stop(buf)
    BY WordsAre
  <2>2. ~Bare(buf, v[1], v[2])
    <3>1. ASSUME Bare(buf, v[1], v[2]) PROVE FALSE
      <4>1. v[1] \in v[1] .. v[2] - 1
        BY <1>1, <2>1, <3>1 DEF Bare
      <4>2. InWord(buf, v[1])
        BY <3>1, <4>1 DEF Bare, Held
      <4>3. v[1] = b - 1 \/ v[1] \in b .. z
        BY <1>1, <1>2, <1>8, <2>1
      <4> QED
        BY <1>3, <1>6, <4>2, <4>3
    <3> QED
      BY <3>1
  <2>3. Enclosed(buf, v[1], v[2])
    BY <2>2, WordsAre
  <2>4. v[1] = b
    <3>1. ASSUME v[1] # b PROVE FALSE
      <4>1. CASE v[1] = b - 1
        <5>1. b - 2 \in 1 .. L /\ (b - 2) + 1 = b - 1 /\ v[1] - 1 = b - 2
          BY <1>1, <1>2, <2>1, <2>3, <4>1 DEF Enclosed
        <5>2. buf[b - 2] = Quote /\ ~Quoted(buf, b - 2)
          BY <2>3, <5>1 DEF Enclosed
        <5>3. Quoted(buf, b - 1)
          BY <1>1, <5>1, <5>2
        <5> QED
          BY <1>2, <5>3
      <4>2. CASE v[1] # b - 1
        <5>1. v[1] - 1 \in b .. z - 1
          BY <1>1, <1>2, <1>8, <2>1, <3>1, <4>2
        <5> QED
          BY <1>4, <2>3, <5>1 DEF Enclosed
      <4> QED
        BY <4>1, <4>2
    <3> QED
      BY <3>1
  <2>5. ~(v[2] < z)
    <3>1. v[2] < z => v[2] \in b .. z - 1
      BY <1>1, <1>2, <2>1, <2>3, <2>4 DEF Enclosed
    <3> QED
      BY <1>4, <2>3, <3>1 DEF Enclosed
  <2>6. ~(z < v[2])
    <3>1. z < v[2] => z \in v[1] .. v[2] - 1
      BY <1>1, <1>2, <2>1, <2>4
    <3> QED
      BY <1>2, <2>3, <3>1 DEF Enclosed
  <2>7. v[2] = z
    BY <1>1, <1>2, <2>1, <2>5, <2>6
  <2> QED
    BY <2>1, <2>4, <2>7
<1>9. <<b, z>> \in Words(buf)
  <2>1. Enclosed(buf, b, z)
    BY <1>1, <1>2, <1>4 DEF Enclosed
  <2>2. b \in 1 .. Stop(buf) /\ z \in 1 .. Stop(buf)
    BY <1>1, <1>2
  <2> QED
    BY <2>1, <2>2, WordsAre
<1>10. \A v \in Words(buf) : v[1] >= from => v = <<b, z>> \/ v[1] >= z + 1
  <2>1. ASSUME NEW v \in Words(buf), v[1] >= from, v # <<b, z>> PROVE v[1] >= z + 1
    <3>1. v[1] \in 1 .. Stop(buf)
      BY WordsAre
    <3>2. v[1] \notin from .. b - 2 /\ v[1] \notin b - 1 .. z
      BY <1>5, <1>8, <2>1
    <3> QED
      BY <1>1, <1>2, <2>1, <3>1, <3>2
  <2> QED
    BY <2>1
<1>11. ASSUME NEW e \in Errors(buf), e >= from, ~(e > z)
       PROVE  e = b /\ z - b >= TokenMax
  <2>1. e \in 1 .. Stop(buf)
    BY <1>1, ErrorsAre, WordsAre
  <2>2. e = b - 1 \/ e \in b .. z
    BY <1>1, <1>2, <1>5, <1>11, <2>1
  <2>3. Kind(buf[e]) # "refused"
    BY <1>3, <1>6, <2>2
  <2>4. ~(e \in 2 .. Stop(buf) /\ buf[e] = Quote /\ InWord(buf, e - 1))
    <3>1. CASE e = b - 1
      <4>1. e \in 2 .. Stop(buf) => b - 1 # 1 /\ e - 1 = b - 2
        BY <1>1, <1>2, <3>1
      <4> QED
        BY <1>7, <4>1
    <3>2. CASE e \in b .. z /\ e # b
      <4>1. e - 1 \in b .. z
        BY <1>1, <1>2, <3>2
      <4> QED
        BY <1>3, <4>1
    <3>3. CASE e = b
      BY <1>6, <3>3
    <3> QED
      BY <2>2, <3>1, <3>2, <3>3
  <2>5. PICK w \in Words(buf) : w[2] - w[1] >= TokenMax /\ e = w[1]
    BY <1>11, <2>3, <2>4, ErrorsAre
  <2>6. w[1] \in b - 1 .. z
    BY <1>1, <1>2, <2>2, <2>5
  <2>7. w = <<b, z>>
    BY <1>8, <2>6
  <2> QED
    BY <2>5, <2>7
<1>12. First(buf, from, <<b, z>>, z + 1)
  <2>1. PICK w : w = <<b, z>>
    OBVIOUS
  <2>2. w \in Words(buf) /\ w[1] = b /\ w[2] = z
    BY <1>9, <2>1
  <2>3. b >= from /\ b < z + 1 /\ z < (z + 1) + 1
    BY <1>1, <1>2
  <2>4. z - b >= TokenMax => b \in Errors(buf)
    BY <2>2, ErrorsAre
  <2>5. \A e \in Errors(buf) : e > z => e >= z + 1
    <3>1. Errors(buf) \subseteq 1 .. Stop(buf)
      BY ErrorsAre, WordsAre, <1>1
    <3> QED
      BY <1>1, <1>2, <3>1
  <2>6. First(buf, from, w, z + 1)
    BY <1>10, <1>11, <2>1, <2>2, <2>3, <2>4, <2>5 DEF First
  <2> QED
    BY <2>1, <2>6
<1>13. Boundary(buf, z + 1)
  <2>1. z + 1 \in 1 .. Stop(buf) /\ (z + 1) - 1 = z /\ z \in b .. z /\ z \in 1 .. L
    BY <1>1, <1>2
  <2>2. ~Quoted(buf, z + 1)
    BY <1>1, <1>2, <1>3, <2>1
  <2>3. ~InWord(buf, (z + 1) - 1)
    BY <1>3, <2>1
  <2> QED
    BY <2>1, <2>2, <2>3 DEF Boundary
<1> QED
  BY <1>12, <1>13

\* No token is left, and nothing is wrong, where only separators come before the end.
LEMMA NothingFound ==
    ASSUME NEW buf, NEW L, WholeLine(buf, L), NEW from, Boundary(buf, from),
           Gap(buf, from, Stop(buf))
    PROVE  /\ \A v \in Words(buf) : ~(v[1] >= from)
           /\ \A e \in Errors(buf) : ~(e >= from)
<1>1. /\ L \in Nat \ {0} /\ Stop(buf) \in 1 .. L /\ ~Quoted(buf, Stop(buf))
      /\ \A p \in 1 .. L : Quoted(buf, p + 1) <=> ~(Quoted(buf, p) <=> buf[p] = Quote)
  BY LineIs, StopIs
<1>2. from \in 1 .. Stop(buf)
  BY DEF Boundary
<1>3. \A q \in from .. Stop(buf) - 1 : (\A w \in Words(buf) : w[1] # q) /\ q \notin Errors(buf)
  BY <1>1, <1>2, GapIs DEF Gap
<1>4. ASSUME NEW v \in Words(buf), v[1] >= from PROVE FALSE
  <2>1. v[1] \in 1 .. Stop(buf) /\ v[2] \in 1 .. Stop(buf)
    BY WordsAre
  <2>2. v[1] = Stop(buf)
    BY <1>1, <1>2, <1>3, <1>4, <2>1
  <2>3. CASE Bare(buf, v[1], v[2])
    BY <1>1, <2>1, <2>2, <2>3 DEF Bare
  <2>4. CASE Enclosed(buf, v[1], v[2])
    <3>1. v[2] = Stop(buf)
      BY <1>1, <2>1, <2>2, <2>4 DEF Enclosed
    <3> QED
      BY <2>4, <3>1, StopKind DEF Enclosed
  <2> QED
    BY <2>3, <2>4, WordsAre
<1>5. ASSUME NEW e \in Errors(buf), e >= from PROVE FALSE
  <2>1. e \in 1 .. Stop(buf)
    BY <1>1, ErrorsAre, WordsAre
  <2>2. e = Stop(buf)
    BY <1>1, <1>2, <1>3, <1>5, <2>1
  <2>3. PICK w \in Words(buf) : e = w[1]
    BY <1>5, <2>2, StopKind, ErrorsAre
  <2> QED
    BY <1>4, <1>5, <2>3
<1> QED
  BY <1>4, <1>5

\* Where an error is met, no token has been left behind.
LEMMA WrongBare ==
    ASSUME NEW buf, NEW L, WholeLine(buf, L), NEW from, Boundary(buf, from),
           NEW b, NEW e, b \in from .. e, e \in 1 .. Stop(buf), Gap(buf, from, b), Held(buf, b, e)
    PROVE  \A v \in Words(buf) : v[1] >= from => v[2] >= e
<1>1. /\ L \in Nat \ {0} /\ Stop(buf) \in 1 .. L
      /\ \A p \in 1 .. L : Quoted(buf, p + 1) <=> ~(Quoted(buf, p) <=> buf[p] = Quote)
  BY LineIs, StopIs
<1>2. from \in 1 .. Stop(buf)
  BY DEF Boundary
<1>3. \A q \in from .. b - 1 : \A w \in Words(buf) : w[1] # q
  BY <1>1, <1>2, GapIs DEF Gap
<1>4. ASSUME NEW v \in Words(buf), v[1] >= from, ~(v[2] >= e) PROVE FALSE
  <2>1. v[1] \in 1 .. Stop(buf) /\ v[2] \in 1 .. Stop(buf) /\ v[1] <= v[2]
    <3>1. v[1] \in 1 .. Stop(buf) /\ v[2] \in 1 .. Stop(buf)
      BY WordsAre
    <3>2. Bare(buf, v[1], v[2]) \/ Enclosed(buf, v[1], v[2])
      BY WordsAre
    <3> QED
      BY <1>1, <3>1, <3>2 DEF Bare, Enclosed
  <2>2. v[1] \in b .. e - 1 /\ v[2] \in b .. e - 1
    BY <1>1, <1>2, <1>3, <1>4, <2>1
  <2>3. InWord(buf, v[1]) /\ InWord(buf, v[2])
    BY <2>2 DEF Held
  <2>4. Enclosed(buf, v[1], v[2])
    BY <2>3, WordsAre DEF Bare
  <2>5. v[1] - 1 \in 1 .. L /\ (v[1] - 1) + 1 = v[1]
    BY <1>1, <2>1, <2>4 DEF Enclosed
  <2>6. Quoted(buf, v[1])
    BY <1>1, <2>4, <2>5 DEF Enclosed
  <2> QED
    BY <2>3, <2>6 DEF InWord
<1> QED
  BY <1>4

LEMMA WrongQuoted ==
    ASSUME NEW buf, NEW L, WholeLine(buf, L), NEW from, Boundary(buf, from),
           NEW b, NEW e, b \in from + 1 .. e, e \in 1 .. Stop(buf), Gap(buf, from, b - 1),
           buf[b - 1] = Quote, ~Quoted(buf, b - 1),
           \A q \in b .. e - 1 : buf[q] # Quote
    PROVE  \A v \in Words(buf) : v[1] >= from => v[2] >= e
<1>1. /\ L \in Nat \ {0} /\ Stop(buf) \in 1 .. L
      /\ \A p \in 1 .. L : Quoted(buf, p + 1) <=> ~(Quoted(buf, p) <=> buf[p] = Quote)
  BY LineIs, StopIs
<1>2. from \in 1 .. Stop(buf)
  BY DEF Boundary
<1>3. \A q \in from .. b - 2 : \A w \in Words(buf) : w[1] # q
  <2> TAKE q \in from .. b - 2
  <2>1. q \in from .. (b - 1) - 1 /\ q \in 1 .. L
    BY <1>1, <1>2
  <2>2. ~Quoted(buf, q) /\ Kind(buf[q]) = "separate"
    BY <2>1 DEF Gap
  <2> QED
    BY <2>1, <2>2, GapIs
<1>4. ASSUME NEW v \in Words(buf), v[1] >= from, ~(v[2] >= e) PROVE FALSE
  <2>1. v[1] \in 1 .. Stop(buf) /\ v[2] \in 1 .. Stop(buf) /\ v[1] <= v[2]
    <3>1. v[1] \in 1 .. Stop(buf) /\ v[2] \in 1 .. Stop(buf)
      BY WordsAre
    <3>2. Bare(buf, v[1], v[2]) \/ Enclosed(buf, v[1], v[2])
      BY WordsAre
    <3> QED
      BY <1>1, <3>1, <3>2 DEF Bare, Enclosed
  <2>2. v[1] \in b - 1 .. e - 1
    BY <1>1, <1>2, <1>3, <1>4, <2>1
  <2>3. CASE Enclosed(buf, v[1], v[2])
    <3>1. v[2] = b - 1
      <4>1. v[2] \notin b .. e - 1
        BY <2>3 DEF Enclosed
      <4> QED
        BY <1>1, <1>2, <1>4, <2>1, <2>2, <4>1
    <3>2. v[1] = b - 1 /\ b - 2 \in 1 .. L /\ (b - 2) + 1 = b - 1 /\ v[1] - 1 = b - 2
      BY <1>1, <1>2, <2>1, <2>2, <2>3, <3>1 DEF Enclosed
    <3>3. Quoted(buf, b - 1)
      <4>1. buf[b - 2] = Quote /\ ~Quoted(buf, b - 2)
        BY <2>3, <3>2 DEF Enclosed
      <4> QED
        BY <1>1, <3>2, <4>1
    <3> QED
      BY <3>3
  <2>4. CASE Bare(buf, v[1], v[2])
    <3>1. InWord(buf, v[1])
      <4>1. v[1] \in v[1] .. v[2] - 1
        BY <1>1, <2>1, <2>4 DEF Bare
      <4> QED
        BY <2>4, <4>1 DEF Bare, Held
    <3>2. v[1] # b - 1
      BY <3>1, KindOf DEF InWord
    <3>3. v[1] \in b .. e - 1
      BY <1>1, <1>2, <2>1, <2>2, <3>2
    <3> DEFINE S == {k \in 0 .. e - b : b + k <= e - 1 => Quoted(buf, b + k)}
               N == e - b
    <3>4. N \in Nat /\ b \in Nat /\ e \in Nat
      BY <1>1, <1>2
    <3>5. 0 \in S
      <4>1. b - 1 \in 1 .. L /\ (b - 1) + 1 = b
        BY <1>1, <1>2
      <4>2. Quoted(buf, b)
        BY <1>1, <4>1
      <4> QED
        BY <3>4, <4>2
    <3>6. ASSUME NEW k \in 1 .. N, k - 1 \in S PROVE k \in S
      <4>1. CASE b + k <= e - 1
        <5>1. b + (k - 1) \in b .. e - 1 /\ (b + (k - 1)) + 1 = b + k /\ b + (k - 1) \in 1 .. L
          BY <1>1, <1>2, <3>4, <4>1
        <5>2. Quoted(buf, b + (k - 1)) /\ buf[b + (k - 1)] # Quote
          BY <3>6, <5>1
        <5>3. Quoted(buf, b + k)
          BY <1>1, <5>1, <5>2
        <5> QED
          BY <3>4, <5>3
      <4>2. CASE ~(b + k <= e - 1)
        BY <3>4, <4>2
      <4> QED
        BY <4>1, <4>2
    <3>7. 0 .. N \subseteq S
      <4> HIDE DEF S, N
      <4> QED
        BY <3>4, <3>5, <3>6, BoundedInduction
    <3>8. v[1] - b \in 0 .. N /\ b + (v[1] - b) = v[1] /\ v[1] <= e - 1
      BY <2>1, <3>3, <3>4
    <3>9. Quoted(buf, v[1])
      <4>1. v[1] - b \in S
        BY <3>7, <3>8
      <4> QED
        BY <3>8, <4>1
    <3> QED
      BY <3>1, <3>9 DEF InWord
  <2> QED
    BY <2>3, <2>4, WordsAre
<1> QED
  BY <1>4

-----------------------------------------------------------------------------
(* A call: what has been read after every character                         *)

\* What has been read up to z: separators, and a token without quotes if there is one.
Open(buf, from, beg, z) ==
    IF beg = 0 THEN Gap(buf, from, z)
    ELSE beg \in from .. z - 1 /\ Gap(buf, from, beg) /\ Held(buf, beg, z)

Wrong(buf, from) ==
    \E e \in Errors(buf) : e >= from /\ \A v \in Words(buf) : v[1] >= from => v[2] >= e

\* The sign of a comment over several lines stands at the end of the tokens.
MultiSign(buf) ==
    <<buf[Stop(buf)], buf[Stop(buf) + 1]>> \in {<<"/", "*">>, <<"*", "/">>}

\* The machine when the characters before z have been read, between quotes and not
Live(s) == s.end = 0 /\ s.ret = "RET_OK"
InNormal(buf, from, s, z) ==
    /\ s.machine = "normal" /\ Live(s)
    /\ z \in from .. Stop(buf) /\ ~Quoted(buf, z) /\ Open(buf, from, s.beg, z)
InSign(buf, from, s, z) ==
    /\ s.machine \in {"slash", "star"} /\ Live(s) /\ s.machine = Kind(buf[z - 1])
    /\ z - 1 \in from .. Stop(buf) /\ ~Quoted(buf, z - 1) /\ Open(buf, from, s.beg, z - 1)
InQuotes(buf, from, s, z) ==
    /\ s.machine = "d_quote" /\ Live(s)
    /\ s.beg \in from + 1 .. z /\ z \in 1 .. Stop(buf) /\ Gap(buf, from, s.beg - 1)
    /\ buf[s.beg - 1] = Quote /\ ~Quoted(buf, s.beg - 1)
    /\ \A q \in s.beg .. z - 1 : Kind(buf[q]) # "refused" /\ buf[q] # Quote
    /\ \A q \in s.beg .. z : Quoted(buf, q)
Ended(buf, from, s) ==
    /\ s.machine = "end"
    /\ \/ s.ret = "RET_DQUOTE" /\ FoundQuoted(buf, from, s.beg, s.end)
       \/ s.ret = "RET_OK" /\ FoundWord(buf, from, s.beg, s.end)
       \/ /\ s.beg = 0 /\ s.end = 0 /\ s.ret \notin {"RET_OK", "RET_DQUOTE"} /\ Gap(buf, from, Stop(buf))
          /\ s.ret = "RET_MULTI_COMMENT" <=> MultiSign(buf)
Refused(buf, from, s) == s.machine = "invalid" /\ Wrong(buf, from)

Reads(buf, from, s, z) ==
    /\ s \in Scan
    /\ \/ InNormal(buf, from, s, z) \/ InSign(buf, from, s, z) \/ InQuotes(buf, from, s, z)
       \/ Ended(buf, from, s) \/ Refused(buf, from, s)

\* What a line has in front of its end is not a sign.
LEMMA SignStops ==
    ASSUME NEW buf, NEW L, WholeLine(buf, L), NEW q \in 1 .. Stop(buf), ~Quoted(buf, q), Sign(buf, q)
    PROVE  q = Stop(buf)
<1>1. Stop(buf) \in 1 .. L /\ L \in Nat
  BY StopIs, LineIs
<1>2. q \notin 1 .. Stop(buf) - 1
  BY StopIs
<1> QED
  BY <1>1, <1>2

\* A character in the state "normal"
LEMMA EnterReads ==
    ASSUME NEW buf, NEW L, WholeLine(buf, L), NEW from, Boundary(buf, from),
           NEW s \in Scan, NEW p, InNormal(buf, from, s, p), Kind(buf[p]) # "refused"
    PROVE  Reads(buf, from, Finish(Enter(s, Kind(buf[p]), p), p), p + 1)
<1>1. /\ L \in Nat \ {0} /\ Stop(buf) \in 1 .. L /\ ~Quoted(buf, Stop(buf))
      /\ \A q \in 1 .. L : Quoted(buf, q + 1) <=> ~(Quoted(buf, q) <=> buf[q] = Quote)
  BY LineIs, StopIs
<1>2. /\ from \in 1 .. Stop(buf) /\ p \in from .. Stop(buf) /\ p \in Int /\ ~Quoted(buf, p)
      /\ s.machine = "normal" /\ s.end = 0 /\ s.ret = "RET_OK" /\ Open(buf, from, s.beg, p)
  BY <1>1 DEF Boundary, InNormal, Live
<1>3. PICK kind \in Kinds \ {"refused"} : kind = Kind(buf[p])
  BY KindIs
<1>4. PICK u : u = Finish(Enter(s, kind, p), p)
  OBVIOUS
<1>5. /\ kind = "normal" => Made(u, "normal", IF s.beg = 0 THEN p ELSE s.beg, 0, "RET_OK")
      /\ kind = "d_quote" /\ s.beg = 0 => Made(u, "d_quote", p + 1, 0, "RET_OK")
      /\ kind = "d_quote" /\ s.beg # 0 => Made(u, "invalid", 0, 0, "RET_ERR")
      /\ kind \in {"slash", "star"} => Made(u, kind, s.beg, 0, "RET_OK")
      /\ kind = "separate" /\ s.beg = 0 => Made(u, "normal", 0, 0, "RET_OK")
      /\ kind \in Ending /\ s.beg = 0 => Made(u, "end", 0, 0, Returned[kind])
      /\ kind \in Ending \union {"separate"} /\ s.beg # 0 => Made(u, "end", s.beg, p, "RET_OK")
  BY <1>2, <1>4, EnterMakes
<1>6. s.beg = 0 => Gap(buf, from, p)
  BY <1>2 DEF Open
<1>7. s.beg # 0 => s.beg \in from .. p - 1 /\ Gap(buf, from, s.beg) /\ Held(buf, s.beg, p)
  BY <1>2 DEF Open
<1>8. kind \in {"normal", "separate", "d_quote"} => p + 1 \in from .. Stop(buf) /\ p < Stop(buf)
  <2>1. kind \in {"normal", "separate", "d_quote"} => p < Stop(buf)
    BY <1>1, <1>2, <1>3, StopKind
  <2> QED
    BY <1>1, <1>2, <2>1
<1>9. p \in 1 .. L /\ (buf[p] = Quote <=> kind = "d_quote")
  BY <1>1, <1>2, <1>3, KindOf
<1>10. CASE kind = "normal"
  <2>1. InWord(buf, p)
    BY <1>2, <1>3, <1>8, <1>10 DEF InWord
  <2>2. ~Quoted(buf, p + 1)
    BY <1>1, <1>2, <1>9, <1>10
  <2>3. Open(buf, from, u.beg, p + 1)
    <3>1. CASE s.beg = 0
      <4>1. u.beg = p
        BY <1>5, <1>10, <3>1 DEF Made
      <4>2. Held(buf, p, p + 1)
        BY <1>1, <1>2, <2>1 DEF Held
      <4>3. p # 0 /\ p \in from .. (p + 1) - 1
        BY <1>1, <1>2
      <4> QED
        BY <1>6, <3>1, <4>1, <4>2, <4>3 DEF Open
    <3>2. CASE s.beg # 0
      <4>1. u.beg = s.beg
        BY <1>5, <1>10, <3>2 DEF Made
      <4>2. Held(buf, s.beg, p + 1)
        <5>1. \A q \in s.beg .. (p + 1) - 1 : q = p \/ q \in s.beg .. p - 1
          BY <1>1, <1>2, <1>7, <3>2
        <5> QED
          BY <1>7, <2>1, <3>2, <5>1 DEF Held
      <4>3. s.beg \in from .. (p + 1) - 1
        BY <1>1, <1>2, <1>7, <3>2
      <4> QED
        BY <1>7, <3>2, <4>1, <4>2, <4>3 DEF Open
    <3> QED
      BY <3>1, <3>2
  <2>4. u \in Scan /\ InNormal(buf, from, u, p + 1)
    BY <1>5, <1>8, <1>10, <2>2, <2>3 DEF Made, InNormal, Live
  <2> QED
    BY <1>3, <1>4, <2>4 DEF Reads
<1>11. CASE kind = "d_quote" /\ s.beg = 0
  <2>1. u \in Scan /\ u.machine = "d_quote" /\ u.beg = p + 1 /\ Live(u)
    BY <1>5, <1>11 DEF Made, Live
  <2>2. Quoted(buf, p + 1)
    BY <1>1, <1>2, <1>9, <1>11
  <2>3. /\ (p + 1) - 1 = p /\ p + 1 \in from + 1 .. p + 1 /\ p + 1 \in 1 .. Stop(buf)
        /\ (p + 1) .. (p + 1) - 1 = {} /\ \A q \in p + 1 .. p + 1 : q = p + 1
    BY <1>1, <1>2, <1>8, <1>11
  <2>4. InQuotes(buf, from, u, p + 1)
    BY <1>2, <1>6, <1>9, <1>11, <2>1, <2>2, <2>3 DEF InQuotes
  <2> QED
    BY <1>3, <1>4, <2>1, <2>4 DEF Reads
<1>12. CASE kind = "d_quote" /\ s.beg # 0
  <2>1. u \in Scan /\ u.machine = "invalid"
    BY <1>5, <1>12 DEF Made
  <2>2. p - 1 \in s.beg .. p - 1 /\ p \in 2 .. Stop(buf) /\ s.beg \in from .. p
    BY <1>1, <1>2, <1>7, <1>12
  <2>3. InWord(buf, p - 1)
    BY <1>7, <1>12, <2>2 DEF Held
  <2>4. p \in Errors(buf)
    BY <1>9, <1>12, <2>2, <2>3, ErrorsAre
  <2>5. \A v \in Words(buf) : v[1] >= from => v[2] >= p
    BY <1>2, <1>7, <1>12, <2>2, WrongBare
  <2>6. p >= from
    BY <1>1, <1>2
  <2> QED
    BY <1>3, <1>4, <2>1, <2>4, <2>5, <2>6 DEF Reads, Refused, Wrong
<1>13. CASE kind \in {"slash", "star"}
  <2>1. u \in Scan /\ u.machine = kind /\ u.beg = s.beg /\ Live(u)
    BY <1>5, <1>13 DEF Made, Live
  <2>2. (p + 1) - 1 = p
    BY <1>2
  <2>3. InSign(buf, from, u, p + 1)
    BY <1>2, <1>3, <1>13, <2>1, <2>2 DEF InSign
  <2> QED
    BY <1>3, <1>4, <2>1, <2>3 DEF Reads
<1>14. CASE kind = "separate" /\ s.beg = 0
  <2>1. u \in Scan /\ u.machine = "normal" /\ u.beg = 0 /\ Live(u)
    BY <1>5, <1>14 DEF Made, Live
  <2>2. ~Quoted(buf, p + 1)
    BY <1>1, <1>2, <1>9, <1>14
  <2>3. Gap(buf, from, p + 1)
    <3>1. \A q \in from .. (p + 1) - 1 : q = p \/ q \in from .. p - 1
      BY <1>1, <1>2
    <3> QED
      BY <1>2, <1>3, <1>6, <1>14, <3>1 DEF Gap
  <2>4. InNormal(buf, from, u, p + 1)
    BY <1>8, <1>14, <2>1, <2>2, <2>3 DEF InNormal, Open
  <2> QED
    BY <1>3, <1>4, <2>1, <2>4 DEF Reads
<1>15. CASE kind \in Ending \union {"separate"} /\ s.beg # 0
  <2>1. u \in Scan /\ u.machine = "end" /\ u.beg = s.beg /\ u.end = p /\ u.ret = "RET_OK"
    BY <1>5, <1>15 DEF Made
  <2>2. kind \in Ending => p = Stop(buf)
    <3>1. kind \in Ending => Sign(buf, p)
      BY <1>3 DEF Sign, Ending
    <3>2. p \in 1 .. Stop(buf)
      BY <1>1, <1>2
    <3> QED
      BY <1>2, <3>1, <3>2, SignStops
  <2>3. FoundWord(buf, from, s.beg, p)
    <3>1. p \in 1 .. Stop(buf)
      BY <1>1, <1>2
    <3> QED
      BY <1>2, <1>3, <1>7, <1>15, <2>2, <3>1 DEF FoundWord
  <2>4. Ended(buf, from, u)
    BY <2>1, <2>3 DEF Ended
  <2> QED
    BY <1>3, <1>4, <2>1, <2>4 DEF Reads
<1>16. CASE kind \in Ending /\ s.beg = 0
  <2>1. u \in Scan /\ u.machine = "end" /\ u.beg = 0 /\ u.end = 0 /\ u.ret = Returned[kind]
    BY <1>5, <1>16 DEF Made
  <2>2. p = Stop(buf)
    <3>1. Sign(buf, p)
      BY <1>3, <1>16 DEF Sign, Ending
    <3>2. p \in 1 .. Stop(buf)
      BY <1>1, <1>2
    <3> QED
      BY <1>2, <3>1, <3>2, SignStops
  <2>3. u.ret \in {"RET_BRACE", "RET_COMMENT", "RET_ENDLINE"}
    BY <1>16, <2>1 DEF Returned, Ending
  <2>4. ~MultiSign(buf)
    <3>1. buf[p] # "/" /\ buf[p] # "*"
      BY <1>3, <1>16, KindOf DEF Ending
    <3> QED
      BY <2>2, <3>1 DEF MultiSign
  <2>5. Ended(buf, from, u)
    BY <1>6, <1>16, <2>1, <2>2, <2>3, <2>4 DEF Ended
  <2> QED
    BY <1>3, <1>4, <2>1, <2>5 DEF Reads
<1> QED
  BY <1>10, <1>11, <1>12, <1>13, <1>14, <1>15, <1>16 DEF Kinds, Ending

\* A refused one
LEMMA RefusedReads ==
    ASSUME NEW buf, NEW L, WholeLine(buf, L), NEW from, Boundary(buf, from),
           NEW s \in Scan, NEW p, InNormal(buf, from, s, p), Kind(buf[p]) = "refused"
    PROVE  Wrong(buf, from)
<1>1. L \in Nat \ {0} /\ Stop(buf) \in 1 .. L
  BY LineIs, StopIs
<1>2. from \in 1 .. Stop(buf) /\ p \in from .. Stop(buf) /\ Open(buf, from, s.beg, p)
  BY DEF Boundary, InNormal
<1>3. p \in 1 .. Stop(buf) /\ p >= from
  BY <1>1, <1>2
<1>4. p \in Errors(buf)
  BY <1>3, ErrorsAre
<1>5. PICK b \in from .. p : Gap(buf, from, b) /\ Held(buf, b, p)
  <2>1. CASE s.beg = 0
    <3>1. p \in from .. p /\ Held(buf, p, p)
      BY <1>1, <1>2 DEF Held
    <3> QED
      BY <1>2, <2>1, <3>1 DEF Open
  <2>2. CASE s.beg # 0
    <3>1. s.beg \in from .. p
      BY <1>1, <1>2, <2>2 DEF Open
    <3> QED
      BY <1>2, <2>2, <3>1 DEF Open
  <2> QED
    BY <2>1, <2>2
<1>6. \A v \in Words(buf) : v[1] >= from => v[2] >= p
  BY <1>3, <1>5, WrongBare
<1> QED
  BY <1>3, <1>4, <1>6 DEF Wrong

\* The character behind a star or a slash
LEMMA SignReads ==
    ASSUME NEW buf, NEW L, WholeLine(buf, L), NEW from, Boundary(buf, from),
           NEW s \in Scan, NEW p \in from .. L, InSign(buf, from, s, p)
    PROVE  Reads(buf, from, ReadChar(s, buf[p], p), p + 1)
<1>1. /\ L \in Nat \ {0} /\ L = Len(buf) /\ Stop(buf) \in 1 .. L /\ ~Quoted(buf, Stop(buf))
      /\ Sign(buf, Stop(buf))
      /\ \A q \in 1 .. L : Quoted(buf, q + 1) <=> ~(Quoted(buf, q) <=> buf[q] = Quote)
  BY LineIs, StopIs
<1>2. from \in 1 .. Stop(buf) /\ p \in Int /\ p \in 1 .. L
  BY <1>1 DEF Boundary
<1>3. PICK e \in Int : e = p - 1
  BY <1>2
<1>4. /\ s.machine \in {"slash", "star"} /\ s.end = 0 /\ s.ret = "RET_OK"
      /\ s.machine = Kind(buf[e]) /\ e \in from .. Stop(buf) /\ ~Quoted(buf, e)
      /\ Open(buf, from, s.beg, e)
  BY <1>3 DEF InSign, Live
<1>5. s.machine = "slash" => buf[e] = "/"
  BY <1>4, KindOf
<1>6. s.machine = "star" => buf[e] = "*"
  BY <1>4, KindOf
<1>7. e \in 1 .. Stop(buf) /\ e < L /\ e + 1 = p
  BY <1>1, <1>2, <1>3, <1>4
<1>8. s.beg = 0 => Gap(buf, from, e)
  BY <1>4 DEF Open
<1>9. s.beg # 0 => s.beg \in from .. e - 1 /\ Gap(buf, from, s.beg) /\ Held(buf, s.beg, e)
  BY <1>4 DEF Open
<1>10. CASE Kind(buf[p]) \in DOMAIN Pair[s.machine]
  <2>1. PICK m : m = Pair[s.machine][Kind(buf[p])]
    OBVIOUS
  <2>2. PICK u : u = ReadChar(s, buf[p], p)
    OBVIOUS
  <2>3. /\ s.beg = 0 => Made(u, "end", 0, 0, Returned[m])
        /\ s.beg # 0 => Made(u, "end", s.beg, e, "RET_OK")
    BY <1>2, <1>3, <1>4, <1>10, <2>1, <2>2, PairTurn
  <2>4. \/ s.machine = "slash" /\ Kind(buf[p]) = "slash" /\ m = "slash_slash"
        \/ s.machine = "slash" /\ Kind(buf[p]) = "star" /\ m = "slash_star"
        \/ s.machine = "star" /\ Kind(buf[p]) = "slash" /\ m = "star_slash"
    BY <1>4, <1>10, <2>1, PairIs
  <2>5. \/ buf[e] = "/" /\ buf[p] = "/" /\ m = "slash_slash"
        \/ buf[e] = "/" /\ buf[p] = "*" /\ m = "slash_star"
        \/ buf[e] = "*" /\ buf[p] = "/" /\ m = "star_slash"
    BY <1>5, <1>6, <2>4, KindOf
  <2>6. Sign(buf, e)
    <3>1. <<buf[e], buf[e + 1]>> \in {<<"/", "/">>, <<"/", "*">>, <<"*", "/">>}
      BY <1>7, <2>5
    <3> QED
      BY <1>1, <1>7, <3>1 DEF Sign
  <2>7. e = Stop(buf)
    BY <1>4, <1>7, <2>6, SignStops
  <2>8. Ended(buf, from, u)
    <3>1. CASE s.beg = 0
      <4>1. u.machine = "end" /\ u.beg = 0 /\ u.end = 0 /\ u.ret = Returned[m]
        BY <2>3, <3>1 DEF Made
      <4>2. MultiSign(buf) <=> m # "slash_slash"
        <5>1. MultiSign(buf) <=> <<buf[e], buf[p]>> \in {<<"/", "*">>, <<"*", "/">>}
          BY <1>7, <2>7 DEF MultiSign
        <5> QED
          BY <2>5, <5>1
      <4>3. /\ Returned["slash_slash"] = "RET_COMMENT" /\ Returned["slash_star"] = "RET_MULTI_COMMENT"
            /\ Returned["star_slash"] = "RET_MULTI_COMMENT"
        BY DEF Returned
      <4>4. u.ret \in {"RET_COMMENT", "RET_MULTI_COMMENT"} /\ (u.ret = "RET_MULTI_COMMENT" <=> MultiSign(buf))
        BY <2>5, <4>1, <4>2, <4>3
      <4> QED
        BY <1>8, <2>7, <3>1, <4>1, <4>4 DEF Ended
    <3>2. CASE s.beg # 0
      <4>1. u.machine = "end" /\ u.beg = s.beg /\ u.end = e /\ u.ret = "RET_OK"
        BY <2>3, <3>2 DEF Made
      <4>2. FoundWord(buf, from, s.beg, e)
        BY <1>7, <1>9, <2>7, <3>2 DEF FoundWord
      <4> QED
        BY <4>1, <4>2 DEF Ended
    <3> QED
      BY <3>1, <3>2
  <2>9. u \in Scan
    BY <2>3 DEF Made
  <2> QED
    BY <2>2, <2>8, <2>9 DEF Reads
<1>11. CASE Kind(buf[p]) \notin DOMAIN Pair[s.machine]
  <2>1. e # Stop(buf)
    <3>1. ASSUME e = Stop(buf) PROVE FALSE
      <4>1. Kind(buf[e]) \notin {"comment", "brace", "line_end"}
        BY <1>4
      <4>2. <<buf[e], buf[e + 1]>> \in {<<"/", "/">>, <<"/", "*">>, <<"*", "/">>}
        BY <1>1, <3>1, <4>1 DEF Sign
      <4>3. \/ buf[e] = "/" /\ buf[p] \in {"/", "*"}
            \/ buf[e] = "*" /\ buf[p] = "/"
        BY <1>7, <4>2
      <4>4. \/ s.machine = "slash" /\ Kind(buf[p]) \in {"slash", "star"}
            \/ s.machine = "star" /\ Kind(buf[p]) = "slash"
        BY <1>4, <4>3, KindOf
      <4> QED
        BY <1>11, <4>4, PairIs
    <3> QED
      BY <3>1
  <2>2. e < Stop(buf) /\ p \in from .. Stop(buf)
    BY <1>1, <1>3, <1>4, <1>7, <2>1
  <2>3. InWord(buf, e)
    BY <1>4, <2>2 DEF InWord
  <2>4. ~Quoted(buf, p)
    <3>1. buf[e] # Quote
      BY <1>4, KindOf
    <3>2. e \in 1 .. L
      BY <1>1, <1>7
    <3> QED
      BY <1>1, <1>4, <1>7, <3>1, <3>2
  <2>5. PICK b \in Int : b = IF s.beg = 0 THEN e ELSE s.beg
    BY <1>3 DEF Scan
  <2>6. Open(buf, from, b, p)
    <3>1. CASE s.beg = 0
      <4>1. Held(buf, e, p) /\ e # 0 /\ e \in from .. p - 1
        <5>1. \A q \in e .. p - 1 : q = e
          BY <1>3
        <5> QED
          BY <1>2, <1>3, <1>4, <1>7, <2>3, <5>1 DEF Held
      <4> QED
        BY <1>8, <2>5, <3>1, <4>1 DEF Open
    <3>2. CASE s.beg # 0
      <4>1. Held(buf, s.beg, p)
        <5>1. \A q \in s.beg .. p - 1 : q = e \/ q \in s.beg .. e - 1
          BY <1>2, <1>3, <1>9, <3>2
        <5> QED
          BY <1>9, <2>3, <3>2, <5>1 DEF Held
      <4>2. s.beg \in from .. p - 1
        BY <1>2, <1>3, <1>9, <3>2
      <4> QED
        BY <1>9, <2>5, <3>2, <4>1, <4>2 DEF Open
    <3> QED
      BY <3>1, <3>2
  <2>7. ASSUME NEW v, Made(v, "normal", b, 0, "RET_OK")
        PROVE  v \in Scan /\ InNormal(buf, from, v, p)
    BY <2>2, <2>4, <2>6, <2>7 DEF Made, InNormal, Live
  <2>8. CASE Kind(buf[p]) # "refused"
    <3>1. PICK v : /\ Made(v, "normal", IF s.beg = 0 THEN p - 1 ELSE s.beg, s.end, s.ret)
                   /\ ReadChar(s, buf[p], p) = Finish(Enter(v, Kind(buf[p]), p), p)
      BY <1>2, <1>4, <1>11, <2>8, LoneTurn
    <3>2. Made(v, "normal", b, 0, "RET_OK")
      BY <1>3, <1>4, <2>5, <3>1
    <3>3. v \in Scan /\ InNormal(buf, from, v, p)
      BY <2>7, <3>2
    <3>4. Reads(buf, from, Finish(Enter(v, Kind(buf[p]), p), p), p + 1)
      BY <2>8, <3>3, EnterReads
    <3> QED
      BY <3>1, <3>4
  <2>9. CASE Kind(buf[p]) = "refused"
    <3>1. PICK v : v = [machine |-> "normal", beg |-> b, end |-> 0, ret |-> "RET_OK"]
      OBVIOUS
    <3>2. Made(v, "normal", b, 0, "RET_OK")
      BY <3>1 DEF Made, Scan, Machines, Rets
    <3>3. Wrong(buf, from)
      BY <2>7, <2>9, <3>2, RefusedReads
    <3>4. ReadChar(s, buf[p], p) = Invalid
      BY <1>4, <2>9 DEF ReadChar
    <3> QED
      BY <3>3, <3>4, InvalidIs DEF Reads, Refused
  <2> QED
    BY <2>8, <2>9
<1> QED
  BY <1>10, <1>11

\* A character between quotes
LEMMA QuoteReads ==
    ASSUME NEW buf, NEW L, WholeLine(buf, L), NEW from, Boundary(buf, from),
           NEW s \in Scan, NEW p \in from .. L, InQuotes(buf, from, s, p)
    PROVE  Reads(buf, from, ReadChar(s, buf[p], p), p + 1)
<1>1. /\ L \in Nat \ {0} /\ L = Len(buf) /\ Stop(buf) \in 1 .. L /\ ~Quoted(buf, Stop(buf))
      /\ \A q \in 1 .. L : Quoted(buf, q + 1) <=> ~(Quoted(buf, q) <=> buf[q] = Quote)
  BY LineIs, StopIs
<1>2. from \in 1 .. Stop(buf) /\ p \in Int /\ p \in 1 .. L
  BY <1>1 DEF Boundary
<1>3. PICK b \in Int : b = s.beg
  BY DEF Scan
<1>4. /\ s.machine = "d_quote" /\ s.end = 0 /\ s.ret = "RET_OK"
      /\ b \in from + 1 .. p /\ p \in 1 .. Stop(buf) /\ Gap(buf, from, b - 1)
      /\ buf[b - 1] = Quote /\ ~Quoted(buf, b - 1)
      /\ \A q \in b .. p - 1 : Kind(buf[q]) # "refused" /\ buf[q] # Quote
      /\ \A q \in b .. p : Quoted(buf, q)
  BY <1>3, Zenon DEF InQuotes, Live
<1>5. Quoted(buf, p)
  <2>1. p \in b .. p
    BY <1>2, <1>4
  <2> QED
    BY <1>4, <2>1
<1>6. p < Stop(buf)
  BY <1>4, <1>5, StopKind
<1>7. CASE Kind(buf[p]) = "refused"
  <2>1. ReadChar(s, buf[p], p) = Invalid
    BY <1>4, <1>7 DEF ReadChar
  <2>2. p \in Errors(buf)
    BY <1>4, <1>7, ErrorsAre
  <2>3. \A v \in Words(buf) : v[1] >= from => v[2] >= p
    BY <1>4, WrongQuoted
  <2>4. p >= from
    BY <1>2
  <2> QED
    BY <2>1, <2>2, <2>3, <2>4, InvalidIs DEF Reads, Refused, Wrong
<1>8. CASE Kind(buf[p]) = "d_quote"
  <2>1. PICK u : u = ReadChar(s, buf[p], p)
    OBVIOUS
  <2>2. Made(u, "end", b, p, "RET_DQUOTE")
    BY <1>2, <1>3, <1>4, <1>8, <2>1, QuoteTurn
  <2>3. u \in Scan /\ u.machine = "end" /\ u.beg = b /\ u.end = p /\ u.ret = "RET_DQUOTE"
    BY <2>2 DEF Made
  <2>4. p \in 1 .. Stop(buf) - 1
    BY <1>1, <1>2, <1>6
  <2>5. buf[p] = Quote
    BY <1>8, KindOf
  <2>6. FoundQuoted(buf, from, b, p)
    BY <1>4, <2>4, <2>5 DEF FoundQuoted
  <2> QED
    BY <2>1, <2>3, <2>6 DEF Reads, Ended
<1>9. CASE Kind(buf[p]) \notin {"refused", "d_quote"}
  <2>1. ReadChar(s, buf[p], p) = s
    BY <1>2, <1>4, <1>9, QuoteTurn
  <2>2. buf[p] # Quote
    BY <1>9, KindOf
  <2>3. Quoted(buf, p + 1)
    BY <1>1, <1>2, <1>5, <2>2
  <2>4. /\ b \in from + 1 .. p + 1 /\ p + 1 \in 1 .. Stop(buf)
        /\ \A q \in b .. (p + 1) - 1 : q = p \/ q \in b .. p - 1
        /\ \A q \in b .. p + 1 : q = p + 1 \/ q \in b .. p
    BY <1>1, <1>2, <1>4, <1>6
  <2>5. /\ \A q \in b .. (p + 1) - 1 : Kind(buf[q]) # "refused" /\ buf[q] # Quote
        /\ \A q \in b .. p + 1 : Quoted(buf, q)
    BY <1>4, <1>9, <2>2, <2>3, <2>4
  <2>6. InQuotes(buf, from, s, p + 1)
    BY <1>3, <1>4, <2>4, <2>5 DEF InQuotes, Live
  <2> QED
    BY <2>1, <2>6 DEF Reads
<1> QED
  BY <1>7, <1>8, <1>9

\* A turn of the loop
LEMMA TurnReads ==
    ASSUME NEW buf, NEW L, WholeLine(buf, L), NEW from, Boundary(buf, from),
           NEW s, NEW p \in from .. L, Reads(buf, from, s, p)
    PROVE  Reads(buf, from, ReadChar(s, buf[p], p), p + 1)
<1>1. s \in Scan
  BY DEF Reads
<1>2. CASE InNormal(buf, from, s, p)
  <2>1. s.machine = "normal" /\ p \in Int
    BY <1>2 DEF InNormal
  <2>2. CASE Kind(buf[p]) = "refused"
    <3>1. ReadChar(s, buf[p], p) = Invalid
      BY <2>1, <2>2 DEF ReadChar
    <3>2. Wrong(buf, from)
      BY <1>1, <1>2, <2>2, RefusedReads
    <3> QED
      BY <3>1, <3>2, InvalidIs DEF Reads, Refused
  <2>3. CASE Kind(buf[p]) # "refused"
    <3>1. ReadChar(s, buf[p], p) = Finish(Enter(s, Kind(buf[p]), p), p)
      BY <1>1, <2>1, <2>3, NormalTurn
    <3>2. Reads(buf, from, Finish(Enter(s, Kind(buf[p]), p), p), p + 1)
      BY <1>1, <1>2, <2>3, EnterReads
    <3> QED
      BY <3>1, <3>2
  <2> QED
    BY <2>2, <2>3
<1>3. CASE InSign(buf, from, s, p)
  BY <1>1, <1>3, SignReads
<1>4. CASE InQuotes(buf, from, s, p)
  BY <1>1, <1>4, QuoteReads
<1>5. CASE Ended(buf, from, s) \/ Refused(buf, from, s)
  <2>1. ReadChar(s, buf[p], p) = s
    BY <1>5, Zenon DEF ReadChar, Ended, Refused
  <2> QED
    BY <1>1, <1>5, <2>1 DEF Reads
<1> QED
  BY <1>2, <1>3, <1>4, <1>5 DEF Reads

LEMMA TokenReads ==
    ASSUME NEW buf, NEW L, WholeLine(buf, L), NEW from, Boundary(buf, from)
    PROVE  LET s == get_a_token(buf, from) IN
           s \in Scan /\ (Ended(buf, from, s) \/ Refused(buf, from, s))
<1>1. /\ L \in Nat \ {0} /\ L = Len(buf) /\ Stop(buf) \in 1 .. L /\ buf[L] = NUL
  BY LineIs, StopIs
<1>2. from \in 1 .. Stop(buf) /\ from \in 1 .. L + 1 /\ from \in Nat /\ ~Quoted(buf, from)
  BY <1>1 DEF Boundary
<1>3. PICK f : /\ f[from - 1] = Start
               /\ \A p \in from .. L : f[p] = ReadChar(f[p - 1], buf[p], p)
               /\ get_a_token(buf, from) = f[L]
  <2>1. L \in Nat
    BY <1>1
  <2>2. L = Len(buf) /\ from \in 1 .. L + 1
    BY <1>1, <1>2
  <2> QED
    BY <2>1, <2>2, ReadIs, Zenon
<1>4. Reads(buf, from, Start, from)
  <2>1. PICK s : s = Start
    OBVIOUS
  <2>2. s \in Scan /\ s.machine = "normal" /\ s.beg = 0 /\ Live(s)
    BY <2>1 DEF Start, Scan, Machines, Rets, Live
  <2>3. from \in from .. Stop(buf) /\ Gap(buf, from, from)
    BY <1>1, <1>2 DEF Gap
  <2> QED
    BY <1>2, <2>1, <2>2, <2>3 DEF Reads, InNormal, Open
<1> DEFINE N == L - from + 1
           T == {k \in 0 .. N : Reads(buf, from, f[(from - 1) + k], from + k)}
<1>5. N \in Nat /\ (from - 1) + N = L /\ from + N = L + 1
  BY <1>1, <1>2
<1>6. 0 \in T
  <2>1. (from - 1) + 0 = from - 1 /\ from + 0 = from
    BY <1>2
  <2> QED
    BY <1>3, <1>4, <1>5, <2>1
<1>7. ASSUME NEW k \in 1 .. N, k - 1 \in T PROVE k \in T
  <2>1. PICK p \in from .. L : p = (from - 1) + k
    BY <1>1, <1>2
  <2>2. (from - 1) + (k - 1) = p - 1 /\ from + (k - 1) = p /\ from + k = p + 1
    BY <1>2, <2>1
  <2>3. Reads(buf, from, f[p - 1], p)
    BY <1>7, <2>2
  <2>4. Reads(buf, from, f[p], p + 1)
    BY <1>3, <2>3, TurnReads
  <2> QED
    BY <1>5, <2>1, <2>2, <2>4
<1>8. N \in T
  <2> HIDE DEF T, N
  <2>1. 0 .. N \subseteq T
    BY <1>5, <1>6, <1>7, BoundedInduction
  <2> QED
    BY <1>5, <2>1
<1>9. Reads(buf, from, f[L], L + 1)
  BY <1>5, <1>8
<1>10. ~InNormal(buf, from, f[L], L + 1)
  BY <1>1, <1>2 DEF InNormal
<1>11. ~InQuotes(buf, from, f[L], L + 1)
  BY <1>1, <1>2 DEF InQuotes
<1>12. ~InSign(buf, from, f[L], L + 1)
  <2>1. (L + 1) - 1 = L /\ Kind(buf[L]) = "line_end"
    BY <1>1, KindOf
  <2> QED
    BY <2>1 DEF InSign
<1> QED
  BY <1>3, <1>9, <1>10, <1>11, <1>12 DEF Reads

\* What a call of get_a_token_str() finds
FoundNext(buf, from, r) ==
    /\ r.ret = "RET_OK" /\ ~r.multi
    /\ \E w \in Words(buf) :
          First(buf, from, w, r.next) /\ w[2] - w[1] < TokenMax /\ r.token = Text(buf, w)
    /\ Boundary(buf, r.next)
FoundNone(buf, from, r) ==
    /\ r.ret = "RET_ENDLINE" /\ r.next = from /\ r.token = <<>>
    /\ r.multi <=> MultiSign(buf)
    /\ Gap(buf, from, Stop(buf))
FoundError(buf, from, r) ==
    r.ret = "RET_ERR" /\ Wrong(buf, from) /\ ~r.multi

LEMMA CallFinds ==
    ASSUME NEW buf, NEW L, WholeLine(buf, L), NEW from, Boundary(buf, from)
    PROVE  \E r : /\ get_a_token_str(buf, from) = {r}
                  /\ FoundNext(buf, from, r) \/ FoundNone(buf, from, r) \/ FoundError(buf, from, r)
<1>1. /\ L \in Nat \ {0} /\ L = Len(buf) /\ Stop(buf) \in 1 .. L
  BY LineIs, StopIs
<1>2. from \in 1 .. Stop(buf)
  BY DEF Boundary
<1>3. PICK s \in Scan : s = get_a_token(buf, from) /\ (Ended(buf, from, s) \/ Refused(buf, from, s))
  BY TokenReads
<1>4. s.machine # "d_quote" /\ s.beg \in Int /\ s.end \in Int
  BY <1>3 DEF Ended, Refused, Scan
<1>5. TokenMax \in Nat \ {0, 1}
  BY TokenAssumption
<1> DEFINE Short == Result("RET_OK", SubSeq(buf, s.beg, s.end - 1),
                           IF s.ret = "RET_DQUOTE" THEN s.end + 1 ELSE s.end, FALSE)
           None == Result("RET_ENDLINE", <<>>, from, s.ret = "RET_MULTI_COMMENT")
<1>6. /\ s.machine = "invalid" \/ s.end - s.beg >= TokenMax => get_a_token_str(buf, from) = {Error}
      /\ ~(s.machine = "invalid" \/ s.end - s.beg >= TokenMax) /\ s.end = 0 =>
            get_a_token_str(buf, from) = {None}
      /\ ~(s.machine = "invalid" \/ s.end - s.beg >= TokenMax) /\ s.end # 0 =>
            get_a_token_str(buf, from) = {Short}
  BY <1>3, <1>4, Zenon DEF get_a_token_str
<1>7. Error.ret = "RET_ERR" /\ ~Error.multi
  BY DEF Error, Result
<1>8. /\ None.ret = "RET_ENDLINE" /\ None.next = from /\ None.token = <<>>
      /\ None.multi = (s.ret = "RET_MULTI_COMMENT")
  BY DEF Result
<1>9. /\ Short.ret = "RET_OK" /\ Short.token = SubSeq(buf, s.beg, s.end - 1) /\ ~Short.multi
      /\ Short.next = IF s.ret = "RET_DQUOTE" THEN s.end + 1 ELSE s.end
  BY DEF Result
<1> HIDE DEF Short, None
<1>10. CASE Refused(buf, from, s)
  BY <1>6, <1>7, <1>10 DEF Refused, FoundError
<1>11. ASSUME NEW next, Ended(buf, from, s), s.end # 0,
              First(buf, from, <<s.beg, s.end>>, next), Boundary(buf, next), Short.next = next
       PROVE  \E r : /\ get_a_token_str(buf, from) = {r}
                     /\ FoundNext(buf, from, r) \/ FoundError(buf, from, r)
  <2>1. PICK w : w = <<s.beg, s.end>>
    OBVIOUS
  <2>2. w[1] = s.beg /\ w[2] = s.end
    BY <2>1
  <2>3. w \in Words(buf) /\ First(buf, from, w, next)
    BY <1>11, <2>1 DEF First
  <2>4. next \in Int
    BY <1>11 DEF Boundary
  <2>5. CASE w[2] - w[1] >= TokenMax
    <3>1. w[1] \in Errors(buf) /\ w[1] >= from
      BY <2>3, <2>5 DEF First
    <3>2. ASSUME NEW v \in Words(buf), v[1] >= from PROVE v[2] >= w[1]
      <4>1. \A x \in Words(buf) : x[1] \in Int /\ x[2] \in Int /\ x[1] <= x[2]
        <5> TAKE x \in Words(buf)
        <5>1. x[1] \in 1 .. Stop(buf) /\ x[2] \in 1 .. Stop(buf)
          BY WordsAre
        <5>2. Bare(buf, x[1], x[2]) \/ Enclosed(buf, x[1], x[2])
          BY WordsAre
        <5> QED
          BY <1>1, <5>1, <5>2 DEF Bare, Enclosed
      <4>2. v = w \/ v[1] >= next
        BY <2>3, <3>2 DEF First
      <4>3. w[2] < next + 1
        BY <2>3 DEF First
      <4> QED
        BY <2>3, <2>4, <4>1, <4>2, <4>3
    <3>3. Wrong(buf, from)
      BY <3>1, <3>2 DEF Wrong
    <3> QED
      BY <1>6, <1>7, <2>2, <2>5, <3>3 DEF FoundError
  <2>6. CASE ~(w[2] - w[1] >= TokenMax)
    <3>1. get_a_token_str(buf, from) = {Short}
      BY <1>6, <1>11, <2>2, <2>6 DEF Ended
    <3>2. w[2] - w[1] < TokenMax
      BY <1>4, <1>5, <2>2, <2>6
    <3>3. Short.token = Text(buf, w)
      BY <1>9, <2>2 DEF Text
    <3>4. FoundNext(buf, from, Short)
      BY <1>9, <1>11, <2>3, <3>2, <3>3 DEF FoundNext
    <3> QED
      BY <3>1, <3>4
  <2> QED
    BY <2>5, <2>6
<1>12. CASE s.machine = "end" /\ s.ret = "RET_DQUOTE" /\ FoundQuoted(buf, from, s.beg, s.end)
  <2>1. First(buf, from, <<s.beg, s.end>>, s.end + 1) /\ Boundary(buf, s.end + 1)
    BY <1>12, QuotedFound
  <2>2. s.end # 0
    BY <1>1, <1>12 DEF FoundQuoted
  <2>3. Ended(buf, from, s)
    BY <1>12 DEF Ended
  <2> QED
    BY <1>9, <1>11, <1>12, <2>1, <2>2, <2>3
<1>13. CASE s.machine = "end" /\ s.ret = "RET_OK" /\ FoundWord(buf, from, s.beg, s.end)
  <2>1. First(buf, from, <<s.beg, s.end>>, s.end) /\ Boundary(buf, s.end)
    BY <1>13, WordFound
  <2>2. s.end # 0
    BY <1>1, <1>13 DEF FoundWord
  <2>3. Ended(buf, from, s)
    BY <1>13 DEF Ended
  <2> QED
    BY <1>9, <1>11, <1>13, <2>1, <2>2, <2>3
<1>14. CASE /\ s.machine = "end"
            /\ s.beg = 0 /\ s.end = 0 /\ s.ret \notin {"RET_OK", "RET_DQUOTE"}
            /\ Gap(buf, from, Stop(buf))
            /\ s.ret = "RET_MULTI_COMMENT" <=> MultiSign(buf)
  <2>1. get_a_token_str(buf, from) = {None}
    BY <1>5, <1>6, <1>14
  <2>2. FoundNone(buf, from, None)
    BY <1>8, <1>14, Zenon DEF FoundNone
  <2> QED
    BY <2>1, <2>2
<1> QED
  BY <1>3, <1>10, <1>12, <1>13, <1>14 DEF Ended

-----------------------------------------------------------------------------
(* The tokens of a line, up to a position                                   *)

\* The tokens up to a position
Begins(buf, p) == p \in {w[1] : w \in Good(buf)}
At(buf, p) == Text(buf, CHOOSE w \in Good(buf) : w[1] = p)
IsUpTo(buf, L, u) ==
    /\ u[0] = <<>>
    /\ \A p \in 1 .. L :
          u[p] = IF Begins(buf, p) THEN Append(u[p - 1], At(buf, p)) ELSE u[p - 1]

LEMMA GoodAre ==
    ASSUME NEW buf
    PROVE  \A w : w \in Good(buf) <=> w \in Words(buf) /\ \A e \in Errors(buf) : w[2] < e
BY Zenon DEF Good

LEMMA TextIs ==
    ASSUME NEW buf, NEW L, WholeLine(buf, L), NEW w \in Words(buf)
    PROVE  Text(buf, w) \in String
<1>1. /\ L \in Nat \ {0} /\ L = Len(buf) /\ Stop(buf) \in 1 .. L
      /\ \A p \in 1 .. L : buf[p] \in Char
  BY LineIs, StopIs
<1>2. w[1] \in 1 .. Stop(buf) /\ w[2] \in 1 .. Stop(buf)
  BY WordsAre
<1>3. PICK a \in Int : a = w[1]
  BY <1>2
<1>4. PICK z \in Int : z = w[2] - 1
  BY <1>2
<1>5. \A k \in a .. z : buf[k] \in Char
  BY <1>1, <1>2, <1>3, <1>4
<1>6. SubSeq(buf, a, z) \in Seq(Char)
  BY <1>5, SubSeqProperties
<1> QED
  BY <1>3, <1>4, <1>6 DEF Text, String

LEMMA AtIs ==
    ASSUME NEW buf, NEW L, WholeLine(buf, L), NEW p, Begins(buf, p)
    PROVE  At(buf, p) \in String
<1>1. \E w \in Good(buf) : w[1] = p
  BY DEF Begins
<1>2. PICK w \in Good(buf) : w = CHOOSE x \in Good(buf) : x[1] = p
  BY <1>1
<1>3. Text(buf, w) \in String
  BY <1>2, GoodAre, TextIs
<1> QED
  BY <1>2, <1>3 DEF At

LEMMA WrittenIs ==
    ASSUME NEW buf, NEW L, WholeLine(buf, L)
    PROVE  \E u : IsUpTo(buf, L, u) /\ Written(buf) = u[L]
<1>1. L \in Nat /\ L = Len(buf)
  BY LineIs
<1> DEFINE Up(f) == f = [p \in 0 .. Len(buf) |->
               IF p = 0 THEN <<>>
               ELSE IF Begins(buf, p) THEN Append(f[p - 1], At(buf, p)) ELSE f[p - 1]]
           f == CHOOSE g : Up(g)
           V == Seq(String)
           G == [q \in (1 .. L) \X V |->
                    IF Begins(buf, q[1]) THEN Append(q[2], At(buf, q[1])) ELSE q[2]]
<1>2. <<>> \in V
  OBVIOUS
<1>3. \A p \in 1 .. L, s \in V : G[<<p, s>>] = IF Begins(buf, p) THEN Append(s, At(buf, p)) ELSE s
  OBVIOUS
<1>4. \A p : Begins(buf, p) => At(buf, p) \in String
  BY AtIs
<1>5. G \in [(1 .. L) \X V -> V]
  <2>1. \A q \in (1 .. L) \X V :
            (IF Begins(buf, q[1]) THEN Append(q[2], At(buf, q[1])) ELSE q[2]) \in V
    <3> TAKE q \in (1 .. L) \X V
    <3>1. q[2] \in V
      OBVIOUS
    <3>2. Begins(buf, q[1]) => Append(q[2], At(buf, q[1])) \in V
      BY <1>4, <3>1, AppendProperties
    <3> QED
      BY <3>1, <3>2
  <2> QED
    BY <2>1
<1>6. PICK h \in [0 .. L -> V] : h[0] = <<>> /\ \A p \in 1 .. L : h[p] = G[<<p, h[p - 1]>>]
  <2>1. PICK v \in V : v = <<>>
    BY <1>2
  <2> HIDE DEF G, V
  <2>2. PICK h \in [0 .. L -> V] : IsRecursive(h, L, v, G)
    BY <1>1, <1>5, RecursionExists
  <2>3. h[0] = v /\ \A p \in 1 .. L : h[p] = G[<<p, h[p - 1]>>]
    BY <1>1, <2>2 DEF IsRecursive
  <2> QED
    BY <2>1, <2>2, <2>3
<1>7. \A p \in 1 .. L : h[p] = IF Begins(buf, p) THEN Append(h[p - 1], At(buf, p)) ELSE h[p - 1]
  <2> TAKE p \in 1 .. L
  <2>1. h[p - 1] \in V
    BY <1>1, <1>6
  <2> HIDE DEF G, V
  <2> QED
    BY <1>3, <1>6, <2>1
<1>8. Up(h)
  <2>1. h = [p \in 0 .. L |-> h[p]]
    BY <1>6
  <2>2. \A p \in 0 .. L : h[p] =
               IF p = 0 THEN <<>>
               ELSE IF Begins(buf, p) THEN Append(h[p - 1], At(buf, p)) ELSE h[p - 1]
    <3> TAKE p \in 0 .. L
    <3>1. p = 0 \/ p \in 1 .. L
      BY <1>1
    <3> QED
      BY <1>6, <1>7, <3>1
  <2> QED
    BY <1>1, <2>1, <2>2, Zenon
<1>9. Up(f)
  <2> HIDE DEF Up
  <2> QED
    BY <1>8
<1>10. Written(buf) = f[Len(buf)]
  BY Zenon DEF Written, Begins, At
<1> HIDE DEF f
<1>11. IsUpTo(buf, L, f)
  <2>1. f[0] = <<>>
    BY <1>1, <1>9
  <2>2. ASSUME NEW p \in 1 .. L
        PROVE  f[p] = IF Begins(buf, p) THEN Append(f[p - 1], At(buf, p)) ELSE f[p - 1]
    <3>1. p \in 0 .. Len(buf) /\ p # 0
      BY <1>1
    <3>2. Begins(buf, p) => f[p] = Append(f[p - 1], At(buf, p))
      BY <1>9, <3>1, Zenon
    <3>3. ~Begins(buf, p) => f[p] = f[p - 1]
      BY <1>9, <3>1, Zenon
    <3> QED
      BY <3>2, <3>3
  <2> QED
    BY <2>1, <2>2 DEF IsUpTo
<1> QED
  BY <1>1, <1>10, <1>11

LEMMA UpToKept ==
    ASSUME NEW buf, NEW L \in Nat, NEW u, IsUpTo(buf, L, u),
           NEW a \in 0 .. L, NEW b \in a .. L, \A p \in a + 1 .. b : ~Begins(buf, p)
    PROVE  u[b] = u[a]
<1> DEFINE N == b - a
           T == {k \in 0 .. N : u[a + k] = u[a]}
<1>1. N \in Nat /\ a + N = b /\ a + 0 = a
  OBVIOUS
<1>2. 0 \in T
  BY <1>1
<1>3. ASSUME NEW k \in 1 .. N, k - 1 \in T PROVE k \in T
  <2>1. PICK p \in 1 .. L : p = a + k
    OBVIOUS
  <2>2. p \in a + 1 .. b /\ a + (k - 1) = p - 1
    BY <2>1
  <2>3. u[p] = u[p - 1]
    BY <2>2 DEF IsUpTo
  <2>4. u[p - 1] = u[a]
    BY <1>3, <2>2
  <2> QED
    BY <2>1, <2>3, <2>4
<1> HIDE DEF T, N
<1>4. 0 .. N \subseteq T
  BY <1>1, <1>2, <1>3, BoundedInduction
<1>5. N \in T
  BY <1>1, <1>4
<1> QED
  BY <1>1, <1>5 DEF T

\* A token that is the first one from a place on is the next to be taken.
LEMMA UpToNext ==
    ASSUME NEW buf, NEW L, WholeLine(buf, L), NEW u, IsUpTo(buf, L, u),
           NEW from, Boundary(buf, from), NEW w, NEW next, First(buf, from, w, next),
           Boundary(buf, next), w[2] - w[1] < TokenMax,
           \A e \in Errors(buf) : e >= from
    PROVE  /\ w \in Good(buf) /\ Begins(buf, w[1])
           /\ u[next - 1] = Append(u[from - 1], Text(buf, w))
           /\ \A e \in Errors(buf) : e >= next
<1>1. /\ L \in Nat \ {0} /\ L \in Nat /\ Stop(buf) \in 1 .. L /\ TokenMax \in Nat
  BY LineIs, StopIs, TokenAssumption
<1>2. from \in 1 .. Stop(buf) /\ next \in 1 .. Stop(buf)
  BY DEF Boundary
<1>3. /\ w \in Words(buf) /\ w[1] >= from /\ w[1] < next /\ w[2] < next + 1
      /\ \A v \in Words(buf) : v[1] >= from => v = w \/ v[1] >= next
      /\ \A e \in Errors(buf) : e >= from =>
            (e > w[2] /\ e >= next) \/ (e = w[1] /\ w[2] - w[1] >= TokenMax)
  BY DEF First
<1>4. w[1] \in 1 .. Stop(buf) /\ w[2] \in 1 .. Stop(buf)
  BY <1>3, WordsAre
<1>5. ~(w[2] - w[1] >= TokenMax)
  BY <1>1, <1>4
<1>6. \A e \in Errors(buf) : e > w[2] /\ e >= next
  BY <1>3, <1>5
<1>7. Errors(buf) \subseteq 1 .. Stop(buf)
  BY <1>1, ErrorsAre, WordsAre
<1>8. w \in Good(buf)
  <2>1. \A e \in Errors(buf) : w[2] < e
    BY <1>1, <1>4, <1>6, <1>7
  <2> QED
    BY <1>3, <2>1, GoodAre
<1>9. \A p \in from .. next - 1 : Begins(buf, p) <=> p = w[1]
  <2> TAKE p \in from .. next - 1
  <2>1. ASSUME Begins(buf, p) PROVE p = w[1]
    <3>1. PICK v \in Good(buf) : v[1] = p
      BY <2>1 DEF Begins
    <3>2. v \in Words(buf)
      BY <3>1, GoodAre
    <3>3. v = w \/ v[1] >= next
      BY <1>2, <1>3, <3>1, <3>2
    <3> QED
      BY <1>2, <3>1, <3>3
  <2>2. Begins(buf, w[1])
    BY <1>8 DEF Begins
  <2> QED
    BY <2>1, <2>2
<1>10. At(buf, w[1]) = Text(buf, w)
  <2>1. PICK v \in Good(buf) : v[1] = w[1] /\ v = CHOOSE x \in Good(buf) : x[1] = w[1]
    BY <1>8
  <2>2. v \in Words(buf)
    BY <2>1, GoodAre
  <2>3. v = w
    BY <1>2, <1>3, <1>4, <2>1, <2>2
  <2> QED
    BY <2>1, <2>3 DEF At
<1>11. PICK a \in 1 .. L : a = w[1]
  BY <1>1, <1>4
<1>12. u[a - 1] = u[from - 1]
  <2>1. from - 1 \in 0 .. L /\ a - 1 \in from - 1 .. L
    BY <1>1, <1>2, <1>3, <1>11
  <2>2. \A p \in (from - 1) + 1 .. a - 1 : ~Begins(buf, p)
    BY <1>1, <1>2, <1>3, <1>9, <1>11
  <2> QED
    BY <1>1, <2>1, <2>2, UpToKept
<1>13. u[next - 1] = u[a]
  <2>1. a \in 0 .. L /\ next - 1 \in a .. L
    BY <1>1, <1>2, <1>3, <1>11
  <2>2. \A p \in a + 1 .. next - 1 : ~Begins(buf, p)
    <3>1. \A p \in a + 1 .. next - 1 : p \in from .. next - 1 /\ p # a
      BY <1>1, <1>2, <1>3, <1>11
    <3> QED
      BY <1>9, <1>11, <3>1
  <2> QED
    BY <1>1, <2>1, <2>2, UpToKept
<1>14. Begins(buf, a)
  BY <1>8, <1>11 DEF Begins
<1>15. u[a] = Append(u[a - 1], At(buf, a))
  BY <1>14 DEF IsUpTo
<1> QED
  BY <1>6, <1>8, <1>10, <1>11, <1>12, <1>13, <1>14, <1>15

\* Where nothing more is found or an error is met, all that is written has been taken.
LEMMA UpToEnd ==
    ASSUME NEW buf, NEW L, WholeLine(buf, L), NEW u, IsUpTo(buf, L, u),
           NEW from, Boundary(buf, from), Wrong(buf, from) \/ Gap(buf, from, Stop(buf)),
           \A e \in Errors(buf) : e >= from
    PROVE  u[L] = u[from - 1] /\ (Wrong(buf, from) <=> Errors(buf) # {})
<1>1. L \in Nat /\ Stop(buf) \in 1 .. L
  BY LineIs, StopIs
<1>2. from \in 1 .. Stop(buf)
  BY DEF Boundary
<1>3. Wrong(buf, from) <=> Errors(buf) # {}
  <2>1. Gap(buf, from, Stop(buf)) => Errors(buf) = {}
    BY NothingFound
  <2> QED
    BY <2>1 DEF Wrong
<1>4. ASSUME NEW p \in from .. L, Begins(buf, p) PROVE FALSE
  <2>1. PICK v \in Good(buf) : v[1] = p
    BY <1>4 DEF Begins
  <2>2. v \in Words(buf) /\ \A e \in Errors(buf) : v[2] < e
    BY <2>1, GoodAre
  <2>3. v[1] >= from
    BY <1>1, <1>2, <2>1
  <2>4. CASE Wrong(buf, from)
    <3>1. PICK e \in Errors(buf) : v[2] >= e
      BY <2>2, <2>3, <2>4 DEF Wrong
    <3>2. e \in 1 .. Stop(buf) /\ v[2] \in 1 .. Stop(buf)
      BY <1>1, <2>2, ErrorsAre, WordsAre
    <3> QED
      BY <1>1, <2>2, <3>1, <3>2
  <2>5. CASE Gap(buf, from, Stop(buf))
    BY <2>2, <2>3, <2>5, NothingFound
  <2> QED
    BY <2>4, <2>5
<1>5. u[L] = u[from - 1]
  <2>1. PICK a \in 0 .. L : a = from - 1
    BY <1>1, <1>2
  <2>2. a + 1 = from /\ L \in a .. L
    BY <1>1, <1>2, <2>1
  <2>3. \A p \in a + 1 .. L : ~Begins(buf, p)
    BY <1>4, <2>2
  <2>4. u[L] = u[a]
    BY <1>1, <2>1, <2>2, <2>3, UpToKept
  <2> QED
    BY <2>1, <2>4
<1> QED
  BY <1>3, <1>5

-----------------------------------------------------------------------------
(* Calls one after the other take what is written                           *)

\* What is known of a series of calls, whatever the line
Outcome(L) ==
    {c \in [ret : {"RET_OK", "RET_ERR", "RET_ENDLINE"}, next : 0 .. L + 1, taken : Seq(String)] :
        c.ret = "RET_OK" => c.next # 0}

LEMMA CallMakes ==
    ASSUME NEW buf, NEW c, c.ret = "RET_OK", NEW r, get_a_token_str(buf, c.next) = {r}
    PROVE  LET d == Call(buf, c) IN
           /\ d.ret = r.ret /\ d.next = r.next
           /\ d.taken = IF r.ret = "RET_OK" THEN Append(c.taken, r.token) ELSE c.taken
<1>1. PICK t : t = IF r.ret = "RET_OK" THEN Append(c.taken, r.token) ELSE c.taken
  OBVIOUS
<1>2. r = CHOOSE x \in get_a_token_str(buf, c.next) : TRUE
  OBVIOUS
<1>3. Call(buf, c) = [ret |-> r.ret, next |-> r.next, taken |-> t]
  BY <1>1, <1>2, Zenon DEF Call
<1> QED
  BY <1>1, <1>3

LEMMA CallTyped ==
    ASSUME NEW buf \in String, NEW L, L = Len(buf), NEW c \in Outcome(L)
    PROVE  Call(buf, c) \in Outcome(L)
<1>1. L \in Nat
  BY LenProperties DEF String
<1>2. /\ c.ret \in {"RET_OK", "RET_ERR", "RET_ENDLINE"} /\ c.next \in 0 .. L + 1 /\ c.taken \in Seq(String)
      /\ c.ret = "RET_OK" => c.next # 0
  BY DEF Outcome
<1>3. CASE c.ret # "RET_OK"
  BY <1>3 DEF Call
<1>4. CASE c.ret = "RET_OK"
  <2>1. c.next \in 1 .. Len(buf) + 1
    BY <1>1, <1>2, <1>4
  <2>2. get_a_token_str(buf, c.next) # {}
    BY DEF get_a_token_str
  <2>3. PICK r \in get_a_token_str(buf, c.next) : r = CHOOSE x \in get_a_token_str(buf, c.next) : TRUE
    BY <2>2
  <2>4. Fits(r, L)
    BY <2>1, <2>3, TokenIs
  <2>5. PICK t : t = IF r.ret = "RET_OK" THEN Append(c.taken, r.token) ELSE c.taken
    OBVIOUS
  <2>6. t \in Seq(String)
    BY <1>2, <2>4, <2>5, AppendProperties DEF Fits
  <2>7. Call(buf, c) = [ret |-> r.ret, next |-> r.next, taken |-> t]
    BY <1>4, <2>3, <2>5, Zenon DEF Call
  <2>8. r.next \in 0 .. L + 1 /\ r.ret \in {"RET_OK", "RET_ERR", "RET_ENDLINE"}
        /\ (r.ret = "RET_OK" => r.next # 0)
    BY <1>1, <2>4 DEF Fits
  <2> QED
    BY <2>6, <2>7, <2>8 DEF Outcome
<1> QED
  BY <1>3, <1>4

LEMMA FirstOutcome ==
    ASSUME NEW L \in Nat
    PROVE  [ret |-> "RET_OK", next |-> 1, taken |-> <<>>] \in Outcome(L)
<1>1. PICK one \in 0 .. L + 1 : one = 1
  OBVIOUS
<1>2. PICK none \in Seq(String) : none = <<>>
  BY EmptySeq
<1>3. [ret |-> "RET_OK", next |-> one, taken |-> none] \in Outcome(L)
  BY <1>1 DEF Outcome
<1> QED
  BY <1>1, <1>2, <1>3

LEMMA CallsAre ==
    ASSUME NEW buf \in String, NEW L, L = Len(buf)
    PROVE  \E f : /\ f[0] = [ret |-> "RET_OK", next |-> 1, taken |-> <<>>]
                  /\ \A k \in 1 .. L : f[k] = Call(buf, f[k - 1])
                  /\ Calls(buf) = f[L]
<1>1. L \in Nat
  BY LenProperties DEF String
<1> DEFINE MadeBy(f) == f = [k \in 0 .. Len(buf) |->
               IF k = 0 THEN [ret |-> "RET_OK", next |-> 1, taken |-> <<>>]
               ELSE Call(buf, f[k - 1])]
           f == CHOOSE g : MadeBy(g)
           V == Outcome(L)
           G == [q \in (1 .. L) \X V |-> Call(buf, q[2])]
<1>2. PICK v \in V : v = [ret |-> "RET_OK", next |-> 1, taken |-> <<>>]
  BY <1>1, FirstOutcome
<1>3. \A k \in 1 .. L, s \in V : G[<<k, s>>] = Call(buf, s)
  OBVIOUS
<1>4. G \in [(1 .. L) \X V -> V]
  <2>1. \A s \in V : Call(buf, s) \in V
    BY CallTyped
  <2> QED
    BY <2>1
<1>5. PICK h \in [0 .. L -> V] : h[0] = v /\ \A k \in 1 .. L : h[k] = G[<<k, h[k - 1]>>]
  <2> HIDE DEF G, V
  <2>1. PICK h \in [0 .. L -> V] : IsRecursive(h, L, v, G)
    BY <1>1, <1>2, <1>4, RecursionExists
  <2>2. h[0] = v /\ \A k \in 1 .. L : h[k] = G[<<k, h[k - 1]>>]
    BY <1>1, <2>1 DEF IsRecursive
  <2> QED
    BY <2>1, <2>2
<1>6. \A k \in 1 .. L : h[k] = Call(buf, h[k - 1])
  <2> TAKE k \in 1 .. L
  <2>1. h[k - 1] \in V
    BY <1>1, <1>5
  <2> HIDE DEF G, V
  <2> QED
    BY <1>3, <1>5, <2>1
<1>7. MadeBy(h)
  <2>1. h = [k \in 0 .. L |-> h[k]]
    BY <1>5
  <2>2. \A k \in 0 .. L : h[k] = IF k = 0 THEN v ELSE Call(buf, h[k - 1])
    <3> TAKE k \in 0 .. L
    <3>1. k = 0 \/ k \in 1 .. L
      BY <1>1
    <3> QED
      BY <1>1, <1>5, <1>6, <3>1
  <2> QED
    BY <1>2, <2>1, <2>2, Zenon
<1>8. MadeBy(f)
  <2> HIDE DEF MadeBy
  <2> QED
    BY <1>7
<1>9. Calls(buf) = f[Len(buf)]
  BY Zenon DEF Calls
<1> HIDE DEF f
<1>10. f[0] = [ret |-> "RET_OK", next |-> 1, taken |-> <<>>]
  BY <1>1, <1>8
<1>11. ASSUME NEW k \in 1 .. L PROVE f[k] = Call(buf, f[k - 1])
  <2>1. k \in 0 .. Len(buf) /\ k # 0
    BY <1>1
  <2> QED
    BY <1>8, <2>1, Zenon
<1> QED
  BY <1>9, <1>10, <1>11

\* After some calls: all that is written up to the next one has been taken, or all.
Follows(buf, u, L, k, c) ==
    /\ c.ret = "RET_OK" => /\ Boundary(buf, c.next) /\ c.next > k
                           /\ \A e \in Errors(buf) : e >= c.next
                           /\ c.taken = u[c.next - 1]
    /\ c.ret # "RET_OK" => /\ c.taken = u[L]
                           /\ c.ret = "RET_ERR" <=> Errors(buf) # {}

LEMMA CallFollows ==
    ASSUME NEW buf, NEW L, WholeLine(buf, L), NEW u, IsUpTo(buf, L, u),
           NEW k \in 1 .. L, NEW c, Follows(buf, u, L, k - 1, c)
    PROVE  Follows(buf, u, L, k, Call(buf, c))
<1>1. L \in Nat /\ Stop(buf) \in 1 .. L
  BY LineIs, StopIs
<1>2. CASE c.ret # "RET_OK"
  <2>1. Call(buf, c) = c
    BY <1>2 DEF Call
  <2> QED
    BY <1>2, <2>1 DEF Follows
<1>3. CASE c.ret = "RET_OK"
  <2>1. PICK from \in 1 .. Stop(buf) : from = c.next
    BY <1>3 DEF Follows, Boundary
  <2>2. /\ Boundary(buf, from) /\ from > k - 1 /\ c.taken = u[from - 1]
        /\ \A e \in Errors(buf) : e >= from
    BY <1>3, <2>1 DEF Follows
  <2>3. PICK r : /\ get_a_token_str(buf, from) = {r}
                 /\ FoundNext(buf, from, r) \/ FoundNone(buf, from, r) \/ FoundError(buf, from, r)
    BY <2>2, CallFinds
  <2>4. get_a_token_str(buf, c.next) = {r}
    BY <2>1, <2>3
  <2>5. PICK d : d = Call(buf, c)
    OBVIOUS
  <2>6. /\ d.ret = r.ret /\ d.next = r.next
        /\ d.taken = IF r.ret = "RET_OK" THEN Append(c.taken, r.token) ELSE c.taken
    BY <1>3, <2>4, <2>5, CallMakes
  <2>7. CASE FoundNext(buf, from, r)
    <3>1. PICK w : /\ First(buf, from, w, r.next) /\ w[2] - w[1] < TokenMax
                   /\ r.token = Text(buf, w) /\ Boundary(buf, r.next) /\ r.ret = "RET_OK"
      BY <2>7 DEF FoundNext
    <3>2. /\ u[r.next - 1] = Append(u[from - 1], Text(buf, w))
          /\ \A e \in Errors(buf) : e >= r.next
      BY <2>2, <3>1, UpToNext
    <3>3. d.taken = u[d.next - 1]
      BY <2>2, <2>6, <3>1, <3>2
    <3>4. d.next > k
      <4>1. w[1] \in 1 .. Stop(buf) /\ w[1] >= from /\ w[1] < r.next
        BY <3>1, WordsAre DEF First
      <4>2. r.next \in 1 .. Stop(buf)
        BY <3>1 DEF Boundary
      <4> QED
        BY <1>1, <2>1, <2>2, <2>6, <4>1, <4>2
    <3> QED
      BY <2>5, <2>6, <3>1, <3>2, <3>3, <3>4 DEF Follows
  <2>8. CASE FoundNone(buf, from, r) \/ FoundError(buf, from, r)
    <3>1. r.ret # "RET_OK" /\ (Wrong(buf, from) \/ Gap(buf, from, Stop(buf)))
      BY <2>8 DEF FoundNone, FoundError
    <3>2. u[L] = u[from - 1] /\ (Wrong(buf, from) <=> Errors(buf) # {})
      BY <2>2, <3>1, UpToEnd
    <3>3. r.ret = "RET_ERR" <=> Errors(buf) # {}
      <4>1. CASE FoundNone(buf, from, r)
        BY <2>2, <4>1, NothingFound DEF FoundNone
      <4>2. CASE FoundError(buf, from, r)
        BY <3>2, <4>2 DEF FoundError
      <4> QED
        BY <2>8, <4>1, <4>2
    <3> QED
      BY <2>2, <2>5, <2>6, <3>1, <3>2, <3>3 DEF Follows
  <2> QED
    BY <2>3, <2>7, <2>8
<1> QED
  BY <1>2, <1>3

\* The first call
LEMMA LineBegins ==
    ASSUME NEW buf, NEW L, WholeLine(buf, L)
    PROVE  Boundary(buf, 1) /\ \A e \in Errors(buf) : e >= 1
<1>1. L \in Nat /\ Stop(buf) \in 1 .. L /\ ~Quoted(buf, 1)
  BY LineIs, StopIs
<1>2. Errors(buf) \subseteq 1 .. Stop(buf)
  BY <1>1, ErrorsAre, WordsAre
<1> QED
  BY <1>1, <1>2 DEF Boundary

LEMMA TakenIsWritten ==
    ASSUME NEW buf, NEW L, WholeLine(buf, L)
    PROVE  Taken(buf) = Written(buf) /\ (Failed(buf) <=> Errors(buf) # {})
<1>1. L \in Nat /\ L = Len(buf) /\ Stop(buf) \in 1 .. L /\ buf \in String
  BY LineIs, StopIs DEF WholeLine
<1>2. PICK u : IsUpTo(buf, L, u) /\ Written(buf) = u[L]
  BY WrittenIs
<1>3. PICK f : /\ f[0] = [ret |-> "RET_OK", next |-> 1, taken |-> <<>>]
               /\ \A k \in 1 .. L : f[k] = Call(buf, f[k - 1])
               /\ Calls(buf) = f[L]
  BY <1>1, CallsAre
<1> DEFINE T == {k \in 0 .. L : Follows(buf, u, L, k, f[k])}
<1>4. 0 \in T
  <2>1. f[0].ret = "RET_OK" /\ f[0].next = 1 /\ f[0].taken = <<>>
    BY <1>3
  <2>2. 1 > 0 /\ f[0].next - 1 = 0 /\ 0 \in 0 .. L
    BY <1>1, <2>1
  <2>3. u[0] = <<>>
    BY <1>2 DEF IsUpTo
  <2> QED
    BY <2>1, <2>2, <2>3, LineBegins DEF Follows
<1>5. ASSUME NEW k \in 1 .. L, k - 1 \in T PROVE k \in T
  <2>1. Follows(buf, u, L, k, Call(buf, f[k - 1]))
    BY <1>2, <1>5, CallFollows
  <2> QED
    BY <1>1, <1>3, <2>1
<1>6. L \in T
  <2> HIDE DEF T
  <2>1. 0 .. L \subseteq T
    BY <1>1, <1>4, <1>5, BoundedInduction
  <2> QED
    BY <1>1, <2>1
<1>7. f[L].ret # "RET_OK"
  BY <1>1, <1>6 DEF Follows, Boundary
<1> QED
  BY <1>2, <1>3, <1>6, <1>7 DEF Follows, Taken, Failed

\* The lines of the configuration file
FilesInv ==
    /\ TypeInv
    /\ pc \notin {"options", "conf"} => file = <<>> \/ file \in Files
    /\ pc \in {"options", "conf"} => file = <<>>

LEMMA FilesInductive == FilesInv /\ [Next]_vars => FilesInv'
<1> SUFFICES ASSUME FilesInv, [Next]_vars PROVE FilesInv'
  OBVIOUS
<1>1. TypeInv'
  BY ReadOptionTyped, OpenConfTyped, ReadLineTyped, ConfEndsTyped, ParseZoneTyped, OthersTyped
     DEF Next, FilesInv
<1>2. CASE OpenConf
  <2>1. pc = "conf" /\ (pc' = "lines" \/ pc' = "exit") /\ (file' \in Files \/ file' = file)
    BY <1>2 DEF OpenConf, Exit
  <2> QED
    BY <1>1, <2>1 DEF FilesInv
<1>3. CASE UNCHANGED vars
  BY <1>1, <1>3 DEF FilesInv, vars, parser
<1>4. CASE ReadOption
  BY <1>1, <1>4 DEF FilesInv, ReadOption, Take, Exit
<1>5. CASE OptionsEnd
  BY <1>1, <1>5 DEF FilesInv, OptionsEnd, Exit, parser
<1>6. CASE ReadLine \/ ConfEnds \/ ReadList \/ ParseZone \/ ZonesEnd \/ Loaded
  <2>1. file' = file /\ pc \notin {"options", "conf"} /\ pc' \notin {"options", "conf"}
    BY <1>6 DEF ReadLine, SkipLine, HandleLine, SaveFails, ConfEnds, ReadList, ParseZone, ZonesEnd,
                Loaded, Exit, parser
  <2> QED
    BY <1>1, <2>1 DEF FilesInv
<1> QED
  BY <1>2, <1>3, <1>4, <1>5, <1>6 DEF Next

LEMMA LinesAre ==
    ASSUME FilesInv, NEW k \in DOMAIN file, Closed(file[k])
    PROVE  WholeLine(file[k], Len(file[k]))
<1>1. file \in Seq(String)
  BY DEF FilesInv, TypeInv, Place
<1>2. file \in Files
  <2>1. file # <<>>
    BY EmptySeq
  <2> QED
    BY <2>1 DEF FilesInv
<1>3. file[k] \in String
  BY <1>1, ElementOfSeq, LenProperties
<1>4. IsLine(file[k])
  BY <1>2, StartupAssumption
<1> QED
  BY <1>3, <1>4 DEF WholeLine

\* Whatever a line of master.conf holds whose quotes are closed, character by
\* character: calls of get_a_token_str() one after the other take out of it the tokens
\* that stand in it up to the first error, each from its first character to its last,
\* and they end in an error if and only if there is one.
THEOREM TokensAreTaken == Spec => []TokensAsDocumented
<1>1. Init => FilesInv
  BY StartTyped DEF FilesInv, Init
<1>2. FilesInv => TokensAsDocumented
  <2> SUFFICES ASSUME FilesInv, pc = "lines", n <= Len(file), Closed(file[n])
               PROVE  Taken(file[n]) = Written(file[n]) /\ (Failed(file[n]) <=> Errors(file[n]) # {})
    BY DEF TokensAsDocumented
  <2>1. n \in DOMAIN file
    BY LenProperties DEF FilesInv, TypeInv, Place
  <2>2. WholeLine(file[n], Len(file[n]))
    BY <2>1, LinesAre
  <2> QED
    BY <2>2, TakenIsWritten
<1> QED
  BY <1>1, FilesInductive, <1>2, PTL DEF Spec

-----------------------------------------------------------------------------
(* The two calls for a line of master.conf                                  *)

\* What has been taken stays in front of what is taken after it.
LEMMA UpToPrefix ==
    ASSUME NEW buf, NEW L, WholeLine(buf, L), NEW u, IsUpTo(buf, L, u), NEW a \in 0 .. L
    PROVE  /\ \A p \in 0 .. L : u[p] \in Seq(String)
           /\ Len(u[a]) <= Len(u[L])
           /\ \A j \in 1 .. Len(u[a]) : u[L][j] = u[a][j]
<1>1. L \in Nat
  BY LineIs
<1>2. \A p : Begins(buf, p) => At(buf, p) \in String
  BY AtIs
<1>3. u[0] = <<>> /\ \A p \in 1 .. L :
          u[p] = IF Begins(buf, p) THEN Append(u[p - 1], At(buf, p)) ELSE u[p - 1]
  BY DEF IsUpTo
<1> DEFINE S == {p \in 0 .. L : u[p] \in Seq(String)}
<1>4. 0 \in S
  <2>1. u[0] = <<>>
    BY DEF IsUpTo
  <2>2. <<>> \in Seq(String) /\ 0 \in 0 .. L
    BY <1>1, EmptySeq
  <2> QED
    BY <2>1, <2>2
<1>5. ASSUME NEW p \in 1 .. L, p - 1 \in S PROVE p \in S
  <2>1. u[p - 1] \in Seq(String) /\ p \in 0 .. L
    BY <1>1, <1>5
  <2>2. Begins(buf, p) => Append(u[p - 1], At(buf, p)) \in Seq(String)
    BY <1>2, <2>1, AppendProperties
  <2> QED
    BY <1>3, <2>1, <2>2
<1>6. \A p \in 0 .. L : u[p] \in Seq(String)
  <2>1. 0 .. L \subseteq S
    <3> HIDE DEF S
    <3> QED
      BY <1>1, <1>4, <1>5, BoundedInduction
  <2> QED
    BY <2>1
<1>7. ASSUME NEW p \in 1 .. L
      PROVE  /\ Len(u[p - 1]) \in Nat /\ Len(u[p]) \in Nat /\ Len(u[p - 1]) <= Len(u[p])
             /\ \A j \in 1 .. Len(u[p - 1]) : u[p][j] = u[p - 1][j]
  <2>1. PICK s \in Seq(String) : s = u[p - 1]
    BY <1>1, <1>6
  <2>2. Len(s) \in Nat
    BY LenProperties
  <2>3. CASE Begins(buf, p)
    <3>1. PICK t \in String : t = At(buf, p)
      BY <1>2, <2>3
    <3>2. u[p] = Append(s, t)
      BY <1>3, <2>1, <2>3, <3>1
    <3>3. Len(Append(s, t)) = Len(s) + 1 /\ \A j \in 1 .. Len(s) : Append(s, t)[j] = s[j]
      BY <2>2, AppendProperties
    <3> QED
      BY <2>1, <2>2, <3>2, <3>3
  <2>4. CASE ~Begins(buf, p)
    BY <1>3, <2>1, <2>2, <2>4
  <2> QED
    BY <2>3, <2>4
<1> DEFINE N == L - a
           T == {k \in 0 .. N : /\ Len(u[a]) <= Len(u[a + k])
                                /\ \A j \in 1 .. Len(u[a]) : u[a + k][j] = u[a][j]}
<1>8. N \in Nat /\ a + N = L /\ a + 0 = a /\ Len(u[a]) \in Nat
  BY <1>1, <1>6, LenProperties
<1>9. 0 \in T
  BY <1>8
<1>10. ASSUME NEW k \in 1 .. N, k - 1 \in T PROVE k \in T
  <2>1. PICK p \in 1 .. L : p = a + k
    BY <1>1
  <2>2. a + (k - 1) = p - 1
    BY <2>1
  <2>3. Len(u[a]) <= Len(u[p - 1]) /\ \A j \in 1 .. Len(u[a]) : u[p - 1][j] = u[a][j]
    BY <1>10, <2>2
  <2>4. /\ Len(u[p - 1]) \in Nat /\ Len(u[p]) \in Nat /\ Len(u[p - 1]) <= Len(u[p])
        /\ \A j \in 1 .. Len(u[p - 1]) : u[p][j] = u[p - 1][j]
    BY <1>7
  <2>5. Len(u[a]) <= Len(u[p]) /\ \A j \in 1 .. Len(u[a]) : u[p][j] = u[a][j]
    BY <1>8, <2>3, <2>4
  <2> QED
    BY <2>1, <2>5
<1>11. N \in T
  <2>1. 0 .. N \subseteq T
    <3> HIDE DEF T, N
    <3> QED
      BY <1>8, <1>9, <1>10, BoundedInduction
  <2> QED
    BY <1>8, <2>1
<1> QED
  BY <1>6, <1>8, <1>11

\* The second call for a line, for the value, and the first, for the key
Second(buf, v) ==
    \/ /\ v.ret = "RET_OK" /\ Len(Written(buf)) > 1 /\ v.token = Written(buf)[2]
    \/ v.ret = "RET_ERR" /\ Errors(buf) # {}
    \/ v.ret = "RET_ENDLINE" /\ ~(Len(Written(buf)) > 1)
FirstOf(buf, r) ==
    \/ /\ r.ret = "RET_OK" /\ r.multi = FALSE
       /\ Written(buf) # <<>> /\ r.token = Head(Written(buf))
       /\ \A v \in get_a_token_str(buf, r.next) : Second(buf, v)
    \/ r.ret = "RET_ERR" /\ Errors(buf) # {}
    \/ r.ret = "RET_ENDLINE" /\ Written(buf) = <<>> /\ (r.multi <=> MultiSign(buf))

LEMMA LineRead ==
    ASSUME NEW buf, NEW L, WholeLine(buf, L), NEW r \in get_a_token_str(buf, 1)
    PROVE  FirstOf(buf, r)
<1>1. L \in Nat /\ Stop(buf) \in 1 .. L
  BY LineIs, StopIs
<1>2. PICK u : IsUpTo(buf, L, u) /\ Written(buf) = u[L]
  BY WrittenIs
<1>3. Boundary(buf, 1) /\ \A e \in Errors(buf) : e >= 1
  BY LineBegins
<1>4. FoundNext(buf, 1, r) \/ FoundNone(buf, 1, r) \/ FoundError(buf, 1, r)
  BY <1>3, CallFinds
<1>5. u[1 - 1] = <<>> /\ u[0] = <<>>
  BY <1>2 DEF IsUpTo
<1>6. CASE FoundError(buf, 1, r)
  BY <1>6 DEF FoundError, Wrong, FirstOf
<1>7. CASE FoundNone(buf, 1, r)
  <2>1. u[L] = <<>>
    BY <1>2, <1>3, <1>5, <1>7, UpToEnd DEF FoundNone
  <2> QED
    BY <1>2, <1>7, <2>1 DEF FoundNone, FirstOf
<1>8. CASE FoundNext(buf, 1, r)
  <2>1. PICK w \in Words(buf) : /\ First(buf, 1, w, r.next) /\ w[2] - w[1] < TokenMax
                                /\ r.token = Text(buf, w) /\ Boundary(buf, r.next)
                                /\ r.ret = "RET_OK" /\ ~r.multi
    BY <1>8 DEF FoundNext
  <2>2. PICK from \in 1 .. Stop(buf) : from = r.next
    BY <2>1 DEF Boundary
  <2>3. PICK t \in String : t = Text(buf, w)
    BY TextIs
  <2>4. Boundary(buf, from) /\ u[from - 1] = Append(u[1 - 1], t) /\ \A e \in Errors(buf) : e >= from
    BY <1>2, <1>3, <2>1, <2>2, <2>3, UpToNext
  <2>5. PICK a \in 0 .. L : a = from - 1
    BY <1>1
  <2>6. Len(u[a]) = 1 /\ u[a][1] = t /\ u[a] \in Seq(String)
    <3>1. u[a] = Append(<<>>, t)
      BY <1>5, <2>4, <2>5
    <3>2. Len(<<>>) = 0 /\ <<>> \in Seq(String)
      BY EmptySeq
    <3> QED
      BY <3>1, <3>2, AppendProperties
  <2>7. u[L] \in Seq(String) /\ Len(u[a]) <= Len(u[L]) /\ \A j \in 1 .. Len(u[a]) : u[L][j] = u[a][j]
    <3>1. L \in 0 .. L
      BY <1>1
    <3> QED
      BY <1>2, <3>1, UpToPrefix
  <2>8. Written(buf) \in Seq(String) /\ Len(Written(buf)) \in Nat /\ Written(buf) # <<>>
        /\ Head(Written(buf)) = t
    <3>1. Len(u[L]) >= 1 /\ u[L][1] = t /\ Len(u[L]) \in Nat
      BY <2>6, <2>7, LenProperties
    <3>2. u[L] # <<>>
      BY <3>1, EmptySeq
    <3> QED
      BY <1>2, <2>7, <3>1, <3>2, HeadTailProperties
  <2>9. ASSUME NEW v \in get_a_token_str(buf, from) PROVE Second(buf, v)
    <3>1. FoundNext(buf, from, v) \/ FoundNone(buf, from, v) \/ FoundError(buf, from, v)
      BY <2>4, <2>9, CallFinds
    <3>2. CASE FoundError(buf, from, v)
      BY <3>2 DEF FoundError, Wrong, Second
    <3>3. CASE FoundNone(buf, from, v)
      <4>1. u[L] = u[from - 1]
        BY <1>2, <2>4, <3>3, UpToEnd DEF FoundNone
      <4>2. Len(Written(buf)) = 1
        BY <1>2, <2>5, <2>6, <4>1
      <4> QED
        BY <3>3, <4>2 DEF FoundNone, Second
    <3>4. CASE FoundNext(buf, from, v)
      <4>1. PICK x \in Words(buf) : /\ First(buf, from, x, v.next) /\ x[2] - x[1] < TokenMax
                                    /\ v.token = Text(buf, x) /\ Boundary(buf, v.next)
                                    /\ v.ret = "RET_OK"
        BY <3>4 DEF FoundNext
      <4>2. PICK t2 \in String : t2 = Text(buf, x)
        BY TextIs
      <4>3. PICK b \in 0 .. L : b = v.next - 1
        BY <1>1, <4>1 DEF Boundary
      <4>4. u[b] = Append(u[a], t2)
        BY <1>2, <2>4, <2>5, <4>1, <4>2, <4>3, UpToNext
      <4>5. Len(u[b]) = 2 /\ u[b][2] = t2
        BY <2>6, <4>4, AppendProperties
      <4>6. Len(u[b]) <= Len(u[L]) /\ \A j \in 1 .. Len(u[b]) : u[L][j] = u[b][j]
        BY <1>2, UpToPrefix
      <4>7. Len(u[L]) > 1 /\ u[L][2] = t2
        BY <1>2, <2>8, <4>5, <4>6
      <4> QED
        BY <1>2, <4>1, <4>2, <4>7 DEF Second
    <3> QED
      BY <3>1, <3>2, <3>3, <3>4
  <2> QED
    BY <2>1, <2>2, <2>3, <2>8, <2>9 DEF FirstOf
<1> QED
  BY <1>4, <1>6, <1>7, <1>8

-----------------------------------------------------------------------------
(* The zones of master.conf                                                 *)

LEMMA MaxIs ==
    ASSUME NEW S \in SUBSET Int, NEW m \in S, \A y \in S : y <= m
    PROVE  Max(S) = m
<1>1. \E x \in S : \A y \in S : x >= y
  <2>1. \A y \in S : m >= y
    OBVIOUS
  <2> QED
    BY <2>1
<1>2. PICK d \in S : d = Max(S) /\ \A y \in S : d >= y
  BY <1>1, Zenon DEF Max
<1>3. d >= m /\ d <= m /\ d \in Int /\ m \in Int
  BY <1>2
<1> QED
  BY <1>2, <1>3

\* The zones' lines before line m, and what the lines before it say of the zone at k
Before(m) == LinesOf(<<"zone">>) \intersect 1 .. m - 1
Own(k, key, m) == (LinesOf(key) \intersect Block(k)) \intersect 1 .. m - 1
ValueUpTo(k, key, m) ==
    IF Own(k, key, m) = {} THEN <<>> ELSE Written(file[Max(Own(k, key, m))])[2]
ZoneUpTo(k, m) ==
    [name |-> NameOf(k),
     dev_type |-> IF ValueUpTo(k, <<"type">>, m) = <<"master">> THEN 1 ELSE 0,
     file |-> ValueUpTo(k, <<"file">>, m)]

\* The last ones of their names among some zones
Latest(S) == {a \in S : \A b \in S : b > a => NameOf(b) # NameOf(a)}
Saved(S) == {ZoneAt(k) : k \in Latest(S)}

\* What the file says, it says before and after a step.
LEMMA FileKept ==
    ASSUME file' = file
    PROVE  /\ \A k : InComment(k)' <=> InComment(k)
           /\ \A key : LinesOf(key)' = LinesOf(key)
           /\ \A k, m : ZoneUpTo(k, m)' = ZoneUpTo(k, m)
           /\ \A S : Saved(S)' = Saved(S)
           /\ ZonesWritten' = ZonesWritten
           /\ Regular' <=> Regular
           /\ Correct' <=> Correct
           /\ Named' <=> Named
<1>1. \A k : InComment(k)' <=> InComment(k)
  BY DEF InComment, Opens, Closes
<1>2. \A k : Counts(k)' <=> Counts(k)
  BY <1>1 DEF Counts
<1>3. \A key : LinesOf(key)' = LinesOf(key)
  BY <1>2 DEF LinesOf
<1>4. \A k : Block(k)' = Block(k)
  BY <1>3 DEF Block
<1>5. \A k : NameOf(k)' = NameOf(k)
  BY Zenon DEF NameOf
<1>6. \A k, key, m : Own(k, key, m)' = Own(k, key, m)
  BY <1>3, <1>4 DEF Own
<1>7. \A k, key, m : ValueUpTo(k, key, m)' = ValueUpTo(k, key, m)
  BY <1>6 DEF ValueUpTo
<1>8. \A k, m : ZoneUpTo(k, m)' = ZoneUpTo(k, m)
  BY <1>5, <1>7 DEF ZoneUpTo
<1>9. \A k, key, default : ValueIn(k, key, default)' = ValueIn(k, key, default)
  BY <1>3, <1>4 DEF ValueIn
<1>10. \A k : ZoneAt(k)' = ZoneAt(k)
  BY <1>5, <1>9 DEF ZoneAt
<1>11. \A S : Saved(S)' = Saved(S)
  BY <1>5, <1>10 DEF Saved, Latest
<1>12. ZonesWritten' = ZonesWritten
  BY <1>3, <1>5, <1>10 DEF ZonesWritten
<1>13. Regular' <=> Regular
  BY <1>1 DEF Regular, Opens, Closes
<1>14. Correct' <=> Correct
  BY <1>2, <1>13 DEF Correct
<1>15. Named' <=> Named
  BY <1>3 DEF Named
<1> QED
  BY <1>1, <1>3, <1>8, <1>11, <1>12, <1>13, <1>14, <1>15

\* Comments over several lines
LEMMA CommentGoesOn ==
    /\ ~InComment(1)
    /\ \A k \in Nat \ {0} :
          InComment(k + 1) <=> Opens(file[k]) \/ (InComment(k) /\ ~Closes(file[k]))
<1>1. ~InComment(1)
  BY DEF InComment
<1>2. ASSUME NEW k \in Nat \ {0}
      PROVE  InComment(k + 1) <=> Opens(file[k]) \/ (InComment(k) /\ ~Closes(file[k]))
  <2>1. ASSUME InComment(k + 1), ~Opens(file[k]) PROVE InComment(k) /\ ~Closes(file[k])
    <3>1. PICK a \in 1 .. (k + 1) - 1 : Opens(file[a]) /\ \A b \in a + 1 .. (k + 1) - 1 : ~Closes(file[b])
      BY <2>1 DEF InComment
    <3>2. a # k
      BY <2>1, <3>1
    <3>3. a \in 1 .. k - 1 /\ k \in a + 1 .. (k + 1) - 1 /\ a + 1 .. k - 1 \subseteq a + 1 .. (k + 1) - 1
      BY <3>1, <3>2
    <3> QED
      BY <3>1, <3>3 DEF InComment
  <2>2. ASSUME Opens(file[k]) PROVE InComment(k + 1)
    <3>1. k \in 1 .. (k + 1) - 1 /\ k + 1 .. (k + 1) - 1 = {}
      OBVIOUS
    <3> QED
      BY <2>2, <3>1 DEF InComment
  <2>3. ASSUME InComment(k), ~Closes(file[k]) PROVE InComment(k + 1)
    <3>1. PICK a \in 1 .. k - 1 : Opens(file[a]) /\ \A b \in a + 1 .. k - 1 : ~Closes(file[b])
      BY <2>3 DEF InComment
    <3>2. a \in 1 .. (k + 1) - 1 /\ \A b \in a + 1 .. (k + 1) - 1 : b = k \/ b \in a + 1 .. k - 1
      BY <3>1
    <3>3. \A b \in a + 1 .. (k + 1) - 1 : ~Closes(file[b])
      BY <2>3, <3>1, <3>2
    <3> QED
      BY <3>1, <3>2, <3>3 DEF InComment
  <2> QED
    BY <2>1, <2>2, <2>3
<1> QED
  BY <1>1, <1>2

\* A zone is complete where the next one begins, and at the end of the file.
LEMMA ZoneComplete ==
    ASSUME NEW N \in Nat, DOMAIN file = 1 .. N, Len(file) = N,
           NEW z \in 1 .. N, NEW m \in 1 .. N + 1, z < m, m \in LinesOf(<<"zone">>) \/ m = N + 1
    PROVE  ZoneAt(z) = ZoneUpTo(z, m)
<1>1. Block(z) \subseteq 1 .. m - 1
  <2>1. ASSUME NEW b \in Block(z), b \notin 1 .. m - 1 PROVE FALSE
    <3>1. b \in z + 1 .. N /\ LinesOf(<<"zone">>) \intersect z + 1 .. b = {}
      BY DEF Block
    <3>2. m \in z + 1 .. b /\ m # N + 1
      BY <2>1, <3>1
    <3> QED
      BY <3>1, <3>2
  <2> QED
    BY <2>1
<1>2. \A key : Own(z, key, m) = LinesOf(key) \intersect Block(z)
  BY <1>1 DEF Own
<1>3. \A key : ValueUpTo(z, key, m) = ValueIn(z, key, <<>>)
  BY <1>2, Zenon DEF ValueUpTo, ValueIn
<1> QED
  BY <1>3, Zenon DEF ZoneUpTo, ZoneAt

\* A zone more
LEMMA SavedNext ==
    ASSUME NEW S \in SUBSET Nat, NEW z \in Nat, \A b \in S : b < z
    PROVE  {x \in Saved(S) : x.name # ZoneAt(z).name} \union {ZoneAt(z)} = Saved(S \union {z})
<1>1. \A k : ZoneAt(k).name = NameOf(k)
  BY DEF ZoneAt
<1>2. \A a : a \in Latest(S \union {z}) <=> a = z \/ (a \in Latest(S) /\ NameOf(a) # NameOf(z))
  <2> TAKE a
  <2>1. z \in Latest(S \union {z})
    <3>1. \A b \in S \union {z} : ~(b > z)
      OBVIOUS
    <3> QED
      BY <3>1 DEF Latest
  <2>2. ASSUME a \in S, a # z
        PROVE  a \in Latest(S \union {z}) <=> a \in Latest(S) /\ NameOf(a) # NameOf(z)
    <3>1. z > a
      BY <2>2
    <3> QED
      BY <2>2, <3>1 DEF Latest
  <2>3. a \in Latest(S) => a \in S /\ a # z
    BY DEF Latest
  <2>4. a \in Latest(S \union {z}) => a \in S \/ a = z
    BY DEF Latest
  <2> QED
    BY <2>1, <2>2, <2>3, <2>4
<1>3. ASSUME NEW x
      PROVE  x \in {y \in Saved(S) : y.name # ZoneAt(z).name} \union {ZoneAt(z)}
             <=> x \in Saved(S \union {z})
  <2>1. x \in Saved(S) <=> \E k \in Latest(S) : x = ZoneAt(k)
    BY Zenon DEF Saved
  <2>2. x \in Saved(S \union {z}) <=> \E k \in Latest(S \union {z}) : x = ZoneAt(k)
    BY Zenon DEF Saved
  <2> QED
    BY <1>1, <1>2, <2>1, <2>2
<1> QED
  BY <1>3

\* The list of zones and their ZONE_INFOs go together.
ListInv ==
    /\ Stored /\ IsFiniteSet(info)
    /\ Range(list) = {z.name : z \in info}
    /\ Len(list) = Cardinality(info)
    /\ \A x, y \in info : x.name = y.name => x = y

\* What has been read: the zone that is being read, if there is one yet, has what the
\* lines so far say of it, and the zones before it have been saved.
ReadUp(m, zone, infos) ==
    \/ Before(m) = {} /\ zone.name = <<>> /\ infos = {}
    \/ \E z \in Before(m) :
          /\ \A b \in Before(m) : b <= z
          /\ zone = ZoneUpTo(z, m) /\ zone.name # <<>>
          /\ infos = Saved(Before(m) \ {z})

ConfInv ==
    /\ FilesInv
    /\ pc # "exit" => error = "none"
    /\ error = "format" => ~Correct
    /\ pc \in {"options", "conf"} => /\ multi_comm = FALSE /\ zone_info = Cleared
                                     /\ info = {} /\ list = <<>>
    /\ pc \in {"lines", "list"} => ListInv
    /\ pc = "lines" /\ Regular => multi_comm = InComment(n)
    /\ pc = "lines" /\ Regular /\ Named => ReadUp(n, zone_info, info)
    /\ pc = "list" /\ Regular /\ Named => info = ZonesWritten

\* save_zone_info() puts a zone into the list if it was not in it.
LEMMA SaveLists ==
    ASSUME ListInv, Zone, info' = WithInfo, list' = WithName
    PROVE  ListInv'
<1> DEFINE Others == {z \in info : z.name # zone_info.name}
<1>1. /\ list \in Seq(String) /\ info \subseteq ZoneInfo /\ IsFiniteSet(info)
      /\ Range(list) = {z.name : z \in info} /\ Len(list) = Cardinality(info)
      /\ \A x, y \in info : x.name = y.name => x = y
      /\ zone_info \in ZoneInfo /\ zone_info.name \in String
  BY DEF ListInv, Stored, Zone, ZoneInfo
<1>2. info' = Others \union {zone_info} /\ zone_info \notin Others
  BY DEF WithInfo
<1>3. IsFiniteSet(Others)
  <2>1. Others \subseteq info
    OBVIOUS
  <2> QED
    BY <1>1, <2>1, FS_Subset
<1>4. IsFiniteSet(info') /\ Cardinality(info') = Cardinality(Others) + 1
  <2> HIDE DEF Others
  <2> QED
    BY <1>2, <1>3, FS_AddElement
<1>5. Stored'
  BY <1>1, Zenon, SavedTyped DEF ListInv
<1>6. \A x, y \in info' : x.name = y.name => x = y
  BY <1>1, <1>2
<1>7. CASE zone_info.name \in Range(list)
  <2>1. list' = list
    BY <1>7 DEF WithName
  <2>2. PICK z \in info : z.name = zone_info.name
    BY <1>1, <1>7
  <2>3. Others = info \ {z}
    BY <1>1, <2>2
  <2>4. Cardinality(Others) = Cardinality(info) - 1 /\ Cardinality(info) \in Nat
    <3> HIDE DEF Others
    <3> QED
      BY <1>1, <2>2, <2>3, FS_RemoveElement, FS_CardinalityType
  <2>5. Len(list') = Cardinality(info')
    BY <1>1, <1>4, <2>1, <2>4
  <2>6. {x.name : x \in info'} = {x.name : x \in info}
    <3>1. \A x \in info' : \E y \in info : y.name = x.name
      BY <1>2, <2>2
    <3>2. \A x \in info : \E y \in info' : y.name = x.name
      BY <1>2
    <3> QED
      BY <3>1, <3>2
  <2>7. Range(list') = {x.name : x \in info'}
    BY <1>1, <2>1, <2>6
  <2> QED
    BY <1>4, <1>5, <1>6, <2>5, <2>7 DEF ListInv
<1>8. CASE zone_info.name \notin Range(list)
  <2>1. list' = Append(list, zone_info.name)
    BY <1>8 DEF WithName
  <2>2. Others = info
    BY <1>1, <1>8
  <2>3. /\ Len(list') = Len(list) + 1 /\ Len(list) \in Nat
        /\ DOMAIN list' = 1 .. Len(list) + 1 /\ DOMAIN list = 1 .. Len(list)
        /\ \A k \in 1 .. Len(list) : list'[k] = list[k]
        /\ list'[Len(list) + 1] = zone_info.name
    BY <1>1, <2>1, AppendProperties, LenProperties
  <2>4. Len(list') = Cardinality(info')
    BY <1>1, <1>4, <2>2, <2>3
  <2>5. Range(list') = Range(list) \union {zone_info.name}
    <3>1. \A x : x \in Range(list') <=> \E k \in DOMAIN list' : list'[k] = x
      BY Zenon DEF Range
    <3>2. \A x : x \in Range(list) <=> \E k \in DOMAIN list : list[k] = x
      BY Zenon DEF Range
    <3>3. \A k \in DOMAIN list' : k = Len(list) + 1 \/ k \in DOMAIN list
      BY <2>3
    <3>4. Len(list) + 1 \in DOMAIN list' /\ DOMAIN list \subseteq DOMAIN list'
      BY <2>3
    <3> QED
      BY <2>3, <3>1, <3>2, <3>3, <3>4
  <2>6. {x.name : x \in info'} = {x.name : x \in info} \union {zone_info.name}
    BY <1>2, <2>2
  <2>7. Range(list') = {x.name : x \in info'}
    BY <1>1, <2>5, <2>6
  <2> QED
    BY <1>4, <1>5, <1>6, <2>4, <2>7 DEF ListInv
<1> QED
  BY <1>7, <1>8

\* The zone that has been read is saved with what the file says of it.
LEMMA SaveSaves ==
    ASSUME NEW m \in 1 .. Len(file) + 1, FilesInv, ReadUp(m, zone_info, info), SaveZone,
           m \in LinesOf(<<"zone">>) \/ m = Len(file) + 1
    PROVE  info' = Saved(Before(m))
<1>1. PICK N \in Nat : N = Len(file) /\ DOMAIN file = 1 .. N
  BY LenProperties DEF FilesInv, TypeInv, Place
<1>2. CASE Before(m) = {} /\ zone_info.name = <<>> /\ info = {}
  <2>1. info' = {}
    BY <1>2 DEF SaveZone, store
  <2>2. Saved({}) = {}
    BY DEF Saved, Latest
  <2> QED
    BY <1>2, <2>1, <2>2
<1>3. ASSUME NEW z \in Before(m), \A b \in Before(m) : b <= z,
             zone_info = ZoneUpTo(z, m), zone_info.name # <<>>, info = Saved(Before(m) \ {z})
      PROVE  info' = Saved(Before(m))
  <2>1. z \in 1 .. N /\ m \in 1 .. N + 1 /\ z < m /\ (m \in LinesOf(<<"zone">>) \/ m = N + 1)
    BY <1>1 DEF Before, LinesOf
  <2>2. ZoneAt(z) = zone_info
    <3>1. ZoneAt(z) = ZoneUpTo(z, m)
      BY <1>1, <2>1, ZoneComplete
    <3> QED
      BY <1>3, <3>1
  <2>3. PICK S \in SUBSET Nat : S = Before(m) \ {z}
    <3>1. Before(m) \subseteq Nat
      BY <1>1 DEF Before
    <3>2. Before(m) \ {z} \in SUBSET Nat
      BY <3>1
    <3> QED
      BY <3>2, Zenon
  <2>4. \A b \in S : b < z
    <3>1. \A b \in S : b \in Nat /\ b <= z /\ b # z
      BY <1>3, <2>3
    <3> QED
      BY <2>1, <3>1
  <2>5. {x \in Saved(S) : x.name # ZoneAt(z).name} \union {ZoneAt(z)} = Saved(S \union {z})
    BY <2>1, <2>4, SavedNext
  <2>6. info' = {x \in info : x.name # zone_info.name} \union {zone_info}
    BY <1>3 DEF SaveZone, WithInfo
  <2>7. S \union {z} = Before(m)
    BY <2>3
  <2> QED
    BY <1>3, <2>2, <2>3, <2>5, <2>6, <2>7
<1> QED
  BY <1>2, <1>3 DEF ReadUp

\* A line that is not one of a key's adds nothing to it, one that is is the last.
LEMMA BeforeNext ==
    ASSUME NEW m \in Nat \ {0}
    PROVE  /\ m \notin LinesOf(<<"zone">>) => Before(m + 1) = Before(m)
           /\ m \in LinesOf(<<"zone">>) => Before(m + 1) = Before(m) \union {m}
           /\ \A k, key : m \notin LinesOf(key) => Own(k, key, m + 1) = Own(k, key, m)
           /\ \A k, key : m \in LinesOf(key) \intersect Block(k) =>
                 ValueUpTo(k, key, m + 1) = Written(file[m])[2]
<1>1. 1 .. (m + 1) - 1 = (1 .. m - 1) \union {m} /\ m \notin 1 .. m - 1
  OBVIOUS
<1>2. m \notin LinesOf(<<"zone">>) => Before(m + 1) = Before(m)
  BY <1>1 DEF Before
<1>3. m \in LinesOf(<<"zone">>) => Before(m + 1) = Before(m) \union {m}
  BY <1>1 DEF Before
<1>4. \A k, key : m \notin LinesOf(key) => Own(k, key, m + 1) = Own(k, key, m)
  BY <1>1 DEF Own
<1>5. ASSUME NEW k, NEW key, m \in LinesOf(key) \intersect Block(k)
      PROVE  ValueUpTo(k, key, m + 1) = Written(file[m])[2]
  <2>1. PICK S : S = Own(k, key, m + 1)
    OBVIOUS
  <2>2. m \in S /\ S \in SUBSET Int /\ \A y \in S : y <= m
    BY <1>1, <1>5, <2>1 DEF Own
  <2>3. Max(S) = m
    BY <2>2, MaxIs
  <2>4. S # {}
    BY <2>2
  <2> QED
    BY <2>1, <2>3, <2>4, Zenon DEF ValueUpTo
<1> QED
  BY <1>2, <1>3, <1>4, <1>5

\* A line that does not count
LEMMA SkippedReads ==
    ASSUME NEW m \in Nat \ {0}, \A key : m \notin LinesOf(key),
           NEW zone, NEW infos, ReadUp(m, zone, infos)
    PROVE  ReadUp(m + 1, zone, infos)
<1>1. Before(m + 1) = Before(m) /\ \A k, key : Own(k, key, m + 1) = Own(k, key, m)
  BY BeforeNext
<1>2. \A k, key : ValueUpTo(k, key, m + 1) = ValueUpTo(k, key, m)
  BY <1>1, Zenon DEF ValueUpTo
<1>3. \A k : ZoneUpTo(k, m + 1) = ZoneUpTo(k, m)
  BY <1>2, Zenon DEF ZoneUpTo
<1> QED
  BY <1>1, <1>3, Zenon DEF ReadUp

LEMMA ReadKept ==
    ASSUME file' = file, NEW m, NEW zone, NEW infos
    PROVE  ReadUp(m, zone, infos)' <=> ReadUp(m, zone, infos)
<1>1. Before(m)' = Before(m)
  BY FileKept DEF Before
<1>2. \A k : ZoneUpTo(k, m)' = ZoneUpTo(k, m)
  BY FileKept
<1>3. \A S : Saved(S)' = Saved(S)
  BY FileKept
<1> QED
  BY <1>1, <1>2, <1>3, Zenon DEF ReadUp

\* A line of a type or a file belongs to the zone that is being read.
LEMMA OwnLine ==
    ASSUME NEW N \in Nat, DOMAIN file = 1 .. N, Len(file) = N, NEW m \in 1 .. N,
           m \notin LinesOf(<<"zone">>), NEW z \in Before(m), \A b \in Before(m) : b <= z
    PROVE  m \in Block(z)
<1>1. z \in 1 .. m - 1 /\ m \in z + 1 .. N
  BY DEF Before
<1>2. LinesOf(<<"zone">>) \intersect z + 1 .. m = {}
  <2>1. ASSUME NEW b \in LinesOf(<<"zone">>), b \in z + 1 .. m PROVE FALSE
    <3>1. b # m
      BY <2>1
    <3>2. b \in Before(m)
      BY <1>1, <2>1, <3>1 DEF Before
    <3> QED
      BY <1>1, <2>1, <3>2
  <2> QED
    BY <2>1
<1> QED
  BY <1>1, <1>2 DEF Block

LEMMA ValueReads ==
    ASSUME NEW N \in Nat, DOMAIN file = 1 .. N, Len(file) = N, NEW m \in 1 .. N,
           NEW key \in {<<"type">>, <<"file">>}, m \in LinesOf(key),
           NEW infos, ReadUp(m, zone_info, infos), zone_info \in ZoneInfo,
           NEW token, token = Written(file[m])[2], NEW zone \in Handled(key, token)
    PROVE  ReadUp(m + 1, zone, infos)
<1>1. <<"zone">> # <<"type">> /\ <<"zone">> # <<"file">> /\ <<"type">> # <<"file">>
  OBVIOUS
<1>2. \A other : other # key => m \notin LinesOf(other)
  BY DEF LinesOf
<1>3. m \notin LinesOf(<<"zone">>) /\ m \in Nat \ {0}
  BY <1>1, <1>2
<1>4. Before(m + 1) = Before(m)
  BY <1>3, BeforeNext
<1>5. /\ key = <<"type">> => zone = [zone_info EXCEPT !.dev_type = IF token = <<"master">> THEN 1 ELSE 0]
      /\ key = <<"file">> => zone = [zone_info EXCEPT !.file = token]
  <2>1. key = <<"type">> =>
          Handled(key, token) = {[zone_info EXCEPT !.dev_type = IF token = <<"master">> THEN 1 ELSE 0]}
    BY <1>1, Zenon DEF Handled
  <2>2. key = <<"file">> => Handled(key, token) = {[zone_info EXCEPT !.file = token]}
    BY <1>1, Zenon DEF Handled
  <2> QED
    BY <2>1, <2>2, Zenon
<1>6. PICK d \in {0, 1} : d = IF token = <<"master">> THEN 1 ELSE 0
  OBVIOUS
<1>7. /\ zone.name = zone_info.name
      /\ key = <<"type">> =>
            zone = [name |-> zone_info.name, dev_type |-> d, file |-> zone_info.file]
      /\ key = <<"file">> =>
            zone = [name |-> zone_info.name, dev_type |-> zone_info.dev_type, file |-> token]
  <2>1. CASE key = <<"type">>
    <3>1. zone = [zone_info EXCEPT !.dev_type = d]
      BY <1>5, <1>6, <2>1, Zenon
    <3> QED
      BY <1>1, <2>1, <3>1 DEF ZoneInfo
  <2>2. CASE key = <<"file">>
    BY <1>1, <1>5, <2>2 DEF ZoneInfo
  <2> QED
    BY <2>1, <2>2
<1>8. CASE Before(m) = {} /\ zone_info.name = <<>> /\ infos = {}
  BY <1>4, <1>7, <1>8 DEF ReadUp
<1>9. ASSUME NEW z \in Before(m), \A b \in Before(m) : b <= z,
             zone_info = ZoneUpTo(z, m), zone_info.name # <<>>, infos = Saved(Before(m) \ {z})
      PROVE  ReadUp(m + 1, zone, infos)
  <2>1. m \in LinesOf(key) \intersect Block(z)
    BY <1>3, <1>9, OwnLine
  <2>2. ValueUpTo(z, key, m + 1) = token
    BY <1>3, <2>1, BeforeNext
  <2>3. \A other : other # key => ValueUpTo(z, other, m + 1) = ValueUpTo(z, other, m)
    <3>1. ASSUME NEW other, other # key
          PROVE  ValueUpTo(z, other, m + 1) = ValueUpTo(z, other, m)
      <4>1. Own(z, other, m + 1) = Own(z, other, m)
        BY <1>2, <1>3, <3>1, BeforeNext
      <4> QED
        BY <4>1 DEF ValueUpTo
    <3> QED
      BY <3>1
  <2>4. /\ zone_info.name = NameOf(z)
        /\ zone_info.dev_type = IF ValueUpTo(z, <<"type">>, m) = <<"master">> THEN 1 ELSE 0
        /\ zone_info.file = ValueUpTo(z, <<"file">>, m)
    BY <1>9 DEF ZoneUpTo
  <2>5. CASE key = <<"type">>
    <3>1. ValueUpTo(z, <<"file">>, m + 1) = ValueUpTo(z, <<"file">>, m)
      BY <1>1, <2>3, <2>5
    <3>2. ZoneUpTo(z, m + 1) = [name |-> NameOf(z), dev_type |-> d, file |-> zone_info.file]
      BY <1>6, <2>2, <2>4, <2>5, <3>1, Zenon DEF ZoneUpTo
    <3>3. zone = ZoneUpTo(z, m + 1)
      BY <1>7, <2>4, <2>5, <3>2
    <3> QED
      BY <1>4, <1>7, <1>9, <3>3 DEF ReadUp
  <2>6. CASE key = <<"file">>
    <3>1. ValueUpTo(z, <<"type">>, m + 1) = ValueUpTo(z, <<"type">>, m)
      BY <1>1, <2>3, <2>6
    <3>2. ZoneUpTo(z, m + 1) = [name |-> NameOf(z), dev_type |-> zone_info.dev_type, file |-> token]
      BY <2>2, <2>4, <2>6, <3>1, Zenon DEF ZoneUpTo
    <3>3. zone = ZoneUpTo(z, m + 1)
      BY <1>7, <2>4, <2>6, <3>2
    <3> QED
      BY <1>4, <1>7, <1>9, <3>3 DEF ReadUp
  <2> QED
    BY <2>5, <2>6
<1> QED
  BY <1>8, <1>9 DEF ReadUp

\* The name of a zone that has one
LEMMA NameIs ==
    ASSUME NEW token \in String, token # <<>>
    PROVE  \E a : Absolute(token) = {a} /\ a # <<>>
<1>1. CASE Last(token) = "." \/ Len(token) >= TokenMax - 1
  BY <1>1 DEF Absolute
<1>2. CASE ~(Last(token) = "." \/ Len(token) >= TokenMax - 1)
  <2>1. Absolute(token) = {Append(token, ".")}
    BY <1>2, Zenon DEF Absolute
  <2>2. "." \in Char
    BY StartupAssumption
  <2>3. Append(token, ".") # <<>>
    BY <2>2, AppendProperties DEF String
  <2> QED
    BY <2>1, <2>3
<1> QED
  BY <1>1, <1>2

LEMMA ZoneReads ==
    ASSUME NEW N \in Nat, DOMAIN file = 1 .. N, Len(file) = N, NEW m \in 1 .. N,
           m \in LinesOf(<<"zone">>), NEW token \in String, token # <<>>,
           token = Written(file[m])[2], NEW zone \in Handled(<<"zone">>, token)
    PROVE  ReadUp(m + 1, zone, Saved(Before(m)))
<1>1. PICK a : Absolute(token) = {a} /\ a # <<>>
  BY NameIs
<1>2. NameOf(m) = a
  <2>1. a = CHOOSE b \in Absolute(token) : TRUE
    BY <1>1
  <2> QED
    BY <2>1, Zenon DEF NameOf
<1>3. zone = [name |-> a, dev_type |-> 0, file |-> <<>>]
  <2>1. Handled(<<"zone">>, token) = {[Cleared EXCEPT !.name = b] : b \in Absolute(token)}
    BY Zenon DEF Handled
  <2>2. zone = [Cleared EXCEPT !.name = a]
    BY <1>1, <2>1
  <2> QED
    BY <2>2 DEF Cleared
<1>4. Before(m + 1) = Before(m) \union {m} /\ m \notin Before(m) /\ \A b \in Before(m + 1) : b <= m
  <2>1. Before(m + 1) = Before(m) \union {m}
    BY BeforeNext
  <2>2. \A b \in Before(m) : b \in 1 .. m - 1
    BY DEF Before
  <2> QED
    BY <2>1, <2>2
<1>5. \A key : ValueUpTo(m, key, m + 1) = <<>>
  <2> TAKE key
  <2>1. Own(m, key, m + 1) = {}
    <3>1. \A b \in Block(m) : b \in m + 1 .. N
      BY DEF Block
    <3>2. \A b \in m + 1 .. N : b \notin 1 .. (m + 1) - 1
      OBVIOUS
    <3> QED
      BY <3>1, <3>2 DEF Own
  <2> QED
    BY <2>1, Zenon DEF ValueUpTo
<1>6. ZoneUpTo(m, m + 1) = [name |-> a, dev_type |-> 0, file |-> <<>>]
  <2>1. <<>> # <<"master">>
    OBVIOUS
  <2> QED
    BY <1>2, <1>5, <2>1, Zenon DEF ZoneUpTo
<1>7. zone = ZoneUpTo(m, m + 1) /\ zone.name # <<>>
  BY <1>1, <1>3, <1>6
<1>8. Before(m + 1) \ {m} = Before(m) /\ m \in Before(m + 1)
  BY <1>4
<1> QED
  BY <1>4, <1>7, <1>8, Zenon DEF ReadUp

\* A line and the comment it stands in, or begins, or ends
LEMMA CommentStep ==
    ASSUME Regular, NEW k \in DOMAIN file, k \in Nat \ {0}, NEW comment \in BOOLEAN,
           comment <=> InComment(k),
           NEW r, r.multi \in BOOLEAN, FirstOf(file[k], r), r.ret # "RET_ERR"
    PROVE  /\ (comment # r.multi) <=> InComment(k + 1)
           /\ Counts(k) <=> (r.ret = "RET_OK" /\ ~comment)
<1>1. PICK l : l = file[k]
  OBVIOUS
<1>2. (Opens(l) => ~InComment(k)) /\ (Closes(l) => InComment(k))
  BY <1>1 DEF Regular
<1>3. InComment(k + 1) <=> Opens(l) \/ (InComment(k) /\ ~Closes(l))
  BY <1>1, CommentGoesOn
<1>4. MultiSign(l) /\ Written(l) = <<>> <=> Opens(l) \/ Closes(l)
  BY DEF MultiSign, Opens, Closes
<1>5. Opens(l) => ~Closes(l)
  BY <1>2
<1>6. /\ Written(l) # <<>> <=> r.ret = "RET_OK"
      /\ r.multi <=> Opens(l) \/ Closes(l)
  BY <1>1, <1>4 DEF FirstOf, Opens, Closes
<1>7. Counts(k) <=> ~InComment(k) /\ Written(l) # <<>>
  BY <1>1 DEF Counts
<1> QED
  BY <1>2, <1>3, <1>5, <1>6, <1>7

LEMMA FilesNext == ConfInv /\ [Next]_vars => FilesInv'
BY FilesInductive DEF ConfInv

\* What a step from one line to the next has to show
LEMMA NextLine ==
    ASSUME FilesInv', file' = file, pc' = "lines", error' = "none", ListInv', NEW m, n' = m,
           Regular => multi_comm' = InComment(m),
           NEW zone, zone_info' = zone, NEW infos, info' = infos,
           Regular /\ Named => ReadUp(m, zone, infos)
    PROVE  ConfInv'
<1>1. Regular' => multi_comm' = InComment(n)'
  <2>1. InComment(m)' <=> InComment(m)
    BY FileKept
  <2>2. InComment(n)' <=> InComment(m)'
    OBVIOUS
  <2>3. InComment(n)' \in BOOLEAN /\ InComment(m) \in BOOLEAN
    BY DEF InComment
  <2>4. Regular' <=> Regular
    BY FileKept
  <2> QED
    BY <2>1, <2>2, <2>3, <2>4
<1>2. Regular' /\ Named' => ReadUp(n, zone_info, info)'
  <2>1. ReadUp(m, zone, infos)' <=> ReadUp(m, zone, infos)
    BY ReadKept
  <2>2. ReadUp(n, zone_info, info)' <=> ReadUp(m, zone, infos)'
    OBVIOUS
  <2> QED
    BY <2>1, <2>2, FileKept
<1> QED
  BY <1>1, <1>2 DEF ConfInv

\* And what an exit has to
LEMMA ExitConf ==
    ASSUME FilesInv', file' = file, NEW why, Exit(why), why = "format" => ~Correct
    PROVE  ConfInv'
<1>1. pc' = "exit" /\ error' = why
  BY DEF Exit
<1>2. Correct' <=> Correct
  BY FileKept
<1> QED
  BY <1>1, <1>2 DEF ConfInv

\* A line and the first call for it
LEMMA AtLine ==
    ASSUME ConfInv, pc = "lines", n <= Len(file), NEW r \in get_a_token_str(file[n], 1)
    PROVE  /\ n \in DOMAIN file /\ n \in Nat \ {0} /\ file[n] \in String
           /\ Fits(r, Len(file[n]))
           /\ Regular => FirstOf(file[n], r)
           /\ Regular /\ r.ret # "RET_ERR" =>
                 /\ (multi_comm # r.multi) <=> InComment(n + 1)
                 /\ Counts(n) <=> (r.ret = "RET_OK" /\ ~multi_comm)
<1>1. /\ FilesInv /\ file \in Seq(String) /\ n \in 1 .. Len(file) + 1 /\ multi_comm \in BOOLEAN
      /\ Regular => multi_comm = InComment(n)
  BY DEF ConfInv, FilesInv, TypeInv, Place
<1>2. n \in DOMAIN file /\ n \in Nat \ {0}
  BY <1>1, LenProperties
<1>3. PICK line \in String : line = file[n]
  BY <1>1, <1>2, ElementOfSeq, LenProperties
<1>4. Fits(r, Len(line))
  <2>1. Len(line) \in Nat
    BY LenProperties DEF String
  <2> QED
    BY <1>3, <2>1, TokenIs
<1>5. Regular => FirstOf(line, r)
  <2>1. Regular => WholeLine(line, Len(line))
    BY <1>1, <1>2, <1>3, LinesAre DEF Regular
  <2> QED
    BY <1>3, <2>1, LineRead
<1>6. Regular /\ r.ret # "RET_ERR" =>
          /\ (multi_comm # r.multi) <=> InComment(n + 1)
          /\ Counts(n) <=> (r.ret = "RET_OK" /\ ~multi_comm)
  <2>1. r.multi \in BOOLEAN
    BY <1>4 DEF Fits
  <2> QED
    BY <1>1, <1>2, <1>3, <1>5, <2>1, CommentStep
<1> QED
  BY <1>2, <1>3, <1>4, <1>5, <1>6

LEMMA SkipConf ==
    ASSUME ConfInv, pc = "lines", n <= Len(file), FilesInv', file' = file,
           NEW r \in get_a_token_str(file[n], 1), SkipLine(r)
    PROVE  ConfInv'
<1>1. /\ multi_comm \in BOOLEAN /\ error = "none" /\ ListInv
      /\ Regular /\ Named => ReadUp(n, zone_info, info)
  BY DEF ConfInv, FilesInv, TypeInv, Place
<1>2. /\ n \in DOMAIN file /\ n \in Nat \ {0}
      /\ r.multi \in BOOLEAN
      /\ Regular => FirstOf(file[n], r)
      /\ Regular /\ r.ret # "RET_ERR" =>
            /\ (multi_comm # r.multi) <=> InComment(n + 1)
            /\ Counts(n) <=> (r.ret = "RET_OK" /\ ~multi_comm)
  BY AtLine DEF Fits
<1>3. UNCHANGED <<zone_info, info, list>> /\ multi_comm' = (multi_comm # r.multi)
  BY DEF SkipLine, store
<1>4. CASE r.ret = "RET_ERR"
  <2>1. Exit("format")
    BY <1>4 DEF SkipLine
  <2>2. ~Correct
    BY <1>2, <1>4 DEF FirstOf, Correct
  <2> QED
    BY <2>1, <2>2, ExitConf
<1>5. CASE r.ret # "RET_ERR"
  <2>1. n' = n + 1 /\ pc' = pc /\ error' = error
    BY <1>5 DEF SkipLine
  <2>2. multi_comm' \/ r.ret = "RET_ENDLINE"
    BY <1>5, Zenon DEF SkipLine
  <2>3. Regular => multi_comm' = InComment(n + 1)
    BY <1>2, <1>3, <1>5, Zenon DEF InComment
  <2>4. Regular => ~Counts(n)
    <3>1. Regular /\ r.ret = "RET_OK" => multi_comm
      <4>1. Regular /\ r.ret = "RET_OK" => r.multi = FALSE
        BY <1>2 DEF FirstOf
      <4> QED
        BY <1>1, <1>3, <2>2, <4>1
    <3> QED
      BY <1>2, <1>5, <3>1
  <2>5. Regular /\ Named => ReadUp(n + 1, zone_info, info)
    <3>1. Regular => \A key : n \notin LinesOf(key)
      BY <2>4 DEF LinesOf
    <3> QED
      BY <1>1, <1>2, <3>1, SkippedReads
  <2>6. ListInv'
    BY <1>1, <1>3 DEF ListInv, Stored
  <2> QED
    BY <1>1, <1>3, <2>1, <2>3, <2>5, <2>6, NextLine
<1> QED
  BY <1>4, <1>5

LEMMA HandleConf ==
    ASSUME ConfInv, pc = "lines", n <= Len(file), FilesInv', file' = file,
           NEW r \in get_a_token_str(file[n], 1), HandleLine(r)
    PROVE  ConfInv'
<1>1. /\ multi_comm \in BOOLEAN /\ error = "none" /\ ListInv /\ FilesInv /\ Zone
      /\ file \in Seq(String) /\ zone_info \in ZoneInfo
      /\ Regular => multi_comm = InComment(n)
      /\ Regular /\ Named => ReadUp(n, zone_info, info)
  BY DEF ConfInv, FilesInv, TypeInv, Place, Zone
<1>2. /\ n \in DOMAIN file /\ n \in Nat \ {0}
      /\ Fits(r, Len(file[n]))
      /\ Regular => FirstOf(file[n], r)
      /\ Regular /\ r.ret # "RET_ERR" =>
            /\ (multi_comm # r.multi) <=> InComment(n + 1)
            /\ Counts(n) <=> (r.ret = "RET_OK" /\ ~multi_comm)
  BY AtLine
<1>3. r.ret = "RET_OK" /\ multi_comm = FALSE /\ multi_comm' = FALSE
  BY <1>1 DEF HandleLine
<1>4. Regular => /\ Counts(n) /\ ~InComment(n + 1)
                 /\ Written(file[n]) # <<>> /\ r.token = Head(Written(file[n]))
                 /\ \A v \in get_a_token_str(file[n], r.next) : Second(file[n], v)
  BY <1>2, <1>3 DEF FirstOf
<1>5. CASE Exit("format") /\ r.token \notin Keys
  <2>1. ~Correct
    BY <1>2, <1>4, <1>5 DEF Correct
  <2> QED
    BY <1>5, <2>1, ExitConf
<1>6. CASE SaveFails
  <2>1. Exit("store")
    BY <1>6 DEF SaveFails
  <2> QED
    BY <2>1, ExitConf
<1>7. ASSUME NEW v \in get_a_token_str(file[n], r.next), v.ret # "RET_OK", Exit("format")
      PROVE  ConfInv'
  <2>1. ~Correct
    BY <1>2, <1>4, <1>7 DEF Correct, Second
  <2> QED
    BY <1>7, <2>1, ExitConf
<1>8. ASSUME NEW v \in get_a_token_str(file[n], r.next), v.ret = "RET_OK", r.token \in Keys,
             IF r.token = <<"zone">> THEN SaveZone ELSE UNCHANGED store,
             zone_info' \in Handled(r.token, v.token), n' = n + 1, UNCHANGED <<pc, error>>
      PROVE  ConfInv'
  <2>1. PICK N \in Nat : N = Len(file) /\ DOMAIN file = 1 .. N
    BY <1>1, LenProperties
  <2>2. PICK m \in 1 .. N : m = n
    BY <1>2, <2>1
  <2>3. PICK token \in String : token = v.token
    <3>1. PICK line \in String : line = file[n]
      BY AtLine
    <3>2. Len(line) \in Nat /\ Len(line) = Len(file[n])
      BY <3>1, LenProperties DEF String
    <3>3. r.next \in 1 .. Len(line) + 1
      BY <1>2, <1>3, <3>2 DEF Fits
    <3>4. Fits(v, Len(line))
      BY <3>1, <3>2, <3>3, <1>8, TokenIs
    <3> QED
      BY <1>8, <3>4 DEF Fits
  <2>4. Regular => token = Written(file[m])[2] /\ m \in LinesOf(r.token)
    BY <1>4, <1>8, <2>1, <2>2, <2>3 DEF Second, LinesOf
  <2>5. PICK zone : zone = zone_info'
    OBVIOUS
  <2>6. PICK infos : infos = info'
    OBVIOUS
  <2>7. Regular => multi_comm' = InComment(n + 1)
    BY <1>3, <1>4, Zenon DEF InComment
  <2>8. CASE r.token = <<"zone">>
    <3>1. SaveZone
      BY <1>8, <2>8
    <3>2. ListInv'
      <4>1. CASE zone_info.name = <<>>
        BY <1>1, <3>1, <4>1 DEF SaveZone, ListInv, Stored, store
      <4>2. CASE zone_info.name # <<>>
        BY <1>1, <3>1, <4>2, SaveLists DEF SaveZone
      <4> QED
        BY <4>1, <4>2
    <3>3. Regular /\ Named => ReadUp(m + 1, zone, infos)
      <4> SUFFICES ASSUME Regular, Named PROVE ReadUp(m + 1, zone, infos)
        OBVIOUS
      <4>1. m \in LinesOf(<<"zone">>) /\ token = Written(file[m])[2] /\ token # <<>>
        BY <2>4, <2>8 DEF Named
      <4>2. ReadUp(m, zone_info, info)
        BY <1>1, <2>2
      <4>3. m \in 1 .. Len(file) + 1
        BY <2>1
      <4>4. infos = Saved(Before(m))
        BY <1>1, <2>6, <3>1, <4>1, <4>2, <4>3, SaveSaves
      <4>5. zone \in Handled(<<"zone">>, token)
        BY <1>8, <2>3, <2>5, <2>8
      <4> QED
        BY <2>1, <4>1, <4>4, <4>5, ZoneReads
    <3> QED
      BY <1>1, <1>8, <2>2, <2>5, <2>6, <2>7, <3>2, <3>3, NextLine
  <2>9. CASE r.token # <<"zone">>
    <3>1. UNCHANGED <<info, list>>
      BY <1>8, <2>9 DEF store
    <3>2. ListInv'
      BY <1>1, <3>1 DEF ListInv, Stored
    <3>3. Regular /\ Named => ReadUp(m + 1, zone, infos)
      <4> SUFFICES ASSUME Regular, Named PROVE ReadUp(m + 1, zone, infos)
        OBVIOUS
      <4>1. PICK key \in {<<"type">>, <<"file">>} : key = r.token
        BY <1>8, <2>9 DEF Keys
      <4>2. m \in LinesOf(key) /\ token = Written(file[m])[2]
        BY <2>4, <4>1
      <4>3. ReadUp(m, zone_info, infos)
        BY <1>1, <2>2, <2>6, <3>1
      <4>4. zone \in Handled(key, token)
        BY <1>8, <2>3, <2>5, <4>1
      <4> QED
        BY <1>1, <2>1, <4>2, <4>3, <4>4, ValueReads
    <3> QED
      BY <1>1, <1>8, <2>2, <2>5, <2>6, <2>7, <3>2, <3>3, NextLine
  <2> QED
    BY <2>8, <2>9
<1>9. \/ Exit("format") /\ r.token \notin Keys
      \/ SaveFails
      \/ \E v \in get_a_token_str(file[n], r.next) :
            \/ v.ret # "RET_OK" /\ Exit("format")
            \/ /\ v.ret = "RET_OK" /\ r.token \in Keys
               /\ IF r.token = <<"zone">> THEN SaveZone ELSE UNCHANGED store
               /\ zone_info' \in Handled(r.token, v.token) /\ n' = n + 1 /\ UNCHANGED <<pc, error>>
  BY Zenon DEF HandleLine
<1> QED
  BY <1>5, <1>6, <1>7, <1>8, <1>9, Zenon

LEMMA OpenConfConf == ASSUME ConfInv, OpenConf, FilesInv' PROVE ConfInv'
<1>1. /\ pc = "conf" /\ error = "none" /\ multi_comm = FALSE /\ zone_info = Cleared
      /\ info = {} /\ list = <<>> /\ file = <<>> /\ n \in 1 .. Len(file) + 1
  BY DEF OpenConf, ConfInv, FilesInv, TypeInv, Place
<1>2. UNCHANGED <<n, multi_comm, zone_info, info, list>>
  BY DEF OpenConf, store
<1>3. CASE Exit("open") /\ file' = file
  BY <1>3, ExitConf
<1>4. CASE pc' = "lines" /\ error' = error
  <2>1. n' = 1
    <3>1. Len(<<>>) = 0
      BY EmptySeq
    <3> QED
      BY <1>1, <1>2, <3>1
  <2>2. ListInv'
    <3>1. Stored'
      BY DEF FilesInv, TypeInv
    <3>2. Range(<<>>) = {} /\ Len(<<>>) = 0
      BY EmptySeq DEF Range
    <3>3. IsFiniteSet({}) /\ Cardinality({}) = 0
      BY FS_EmptySet
    <3> QED
      BY <1>1, <1>2, <3>1, <3>2, <3>3 DEF ListInv
  <2>3. ~InComment(n)'
    BY <2>1 DEF InComment
  <2>4. ReadUp(n, zone_info, info)'
    <3>1. Before(n)' = {}
      BY <2>1 DEF Before
    <3>2. zone_info.name' = <<>> /\ info' = {}
      BY <1>1, <1>2 DEF Cleared
    <3> QED
      BY <3>1, <3>2 DEF ReadUp
  <2>5. multi_comm' = InComment(n)'
    BY <1>1, <1>2, <2>3, Zenon DEF InComment
  <2> QED
    BY <1>1, <1>4, <2>2, <2>4, <2>5 DEF ConfInv
<1> QED
  BY <1>3, <1>4 DEF OpenConf

LEMMA ConfEndsConf == ASSUME ConfInv, ConfEnds, FilesInv' PROVE ConfInv'
<1>1. /\ pc = "lines" /\ n > Len(file) /\ error = "none" /\ ListInv /\ FilesInv /\ Zone
      /\ file \in Seq(String) /\ n \in 1 .. Len(file) + 1 /\ file' = file
      /\ Regular /\ Named => ReadUp(n, zone_info, info)
  BY DEF ConfEnds, ConfInv, FilesInv, TypeInv, Place, parser
<1>2. PICK N \in Nat : N = Len(file) /\ DOMAIN file = 1 .. N
  BY <1>1, LenProperties
<1>3. CASE SaveFails
  <2>1. Exit("store")
    BY <1>3 DEF SaveFails
  <2> QED
    BY <1>1, <2>1, ExitConf
<1>4. CASE SaveZone /\ pc' = "list" /\ UNCHANGED error
  <2>1. PICK m \in 1 .. N + 1 : m = n /\ m = N + 1
    BY <1>1, <1>2
  <2>2. ListInv'
    <3>1. CASE zone_info.name = <<>>
      BY <1>1, <1>4, <3>1 DEF SaveZone, ListInv, Stored, store
    <3>2. CASE zone_info.name # <<>>
      BY <1>1, <1>4, <3>2, SaveLists DEF SaveZone
    <3> QED
      BY <3>1, <3>2
  <2>3. Regular /\ Named => info' = ZonesWritten
    <3> SUFFICES ASSUME Regular, Named PROVE info' = ZonesWritten
      OBVIOUS
    <3>1. m \in 1 .. Len(file) + 1 /\ m = Len(file) + 1
      BY <1>2, <2>1
    <3>2. ReadUp(m, zone_info, info)
      BY <1>1, <2>1
    <3>3. info' = Saved(Before(m))
      BY <1>1, <1>4, <3>1, <3>2, SaveSaves
    <3>4. Before(m) = LinesOf(<<"zone">>)
      BY <1>2, <2>1 DEF Before, LinesOf
    <3>5. Saved(LinesOf(<<"zone">>)) = ZonesWritten
      BY Zenon DEF Saved, Latest, ZonesWritten
    <3> QED
      BY <3>3, <3>4, <3>5
  <2>4. Regular' /\ Named' => info' = ZonesWritten'
    BY <1>1, <2>3, FileKept
  <2> QED
    BY <1>1, <1>4, <2>2, <2>4 DEF ConfInv
<1> QED
  BY <1>3, <1>4 DEF ConfEnds

LEMMA ConfInductive == ConfInv /\ [Next]_vars => ConfInv'
<1> SUFFICES ASSUME ConfInv, [Next]_vars PROVE ConfInv'
  OBVIOUS
<1>1. FilesInv'
  BY FilesNext
<1>2. CASE ReadLine
  <2>1. pc = "lines" /\ n <= Len(file) /\ file' = file
    BY <1>2 DEF ReadLine
  <2>2. PICK r \in get_a_token_str(file[n], 1) : SkipLine(r) \/ HandleLine(r)
    BY <1>2 DEF ReadLine
  <2> QED
    BY <1>1, <2>1, <2>2, SkipConf, HandleConf
<1>3. CASE ReadOption \/ OptionsEnd
  <2>1. /\ pc = "options" /\ file' = file /\ UNCHANGED <<multi_comm, zone_info, info, list>>
        /\ \/ pc' \in {"options", "conf"} /\ error' = error
           \/ pc' = "exit" /\ error' \in {"none", "option", "monitor"}
    BY <1>3 DEF ReadOption, OptionsEnd, Take, Exit, parser, store
  <2> QED
    BY <1>1, <2>1 DEF ConfInv
<1>4. CASE ReadList \/ ParseZone \/ ZonesEnd \/ Loaded
  <2>1. /\ pc \in {"list", "zones", "loaded"} /\ pc' \in {"zones", "loaded", "serve", "exit"}
        /\ pc' # "exit" => error' = error
        /\ error' \in {error, "none", "store", "zone"}
    BY <1>4 DEF ReadList, ParseZone, ZonesEnd, Loaded, Exit
  <2> QED
    BY <1>1, <2>1 DEF ConfInv
<1>5. CASE UNCHANGED vars
  <2>1. UNCHANGED <<pc, file, n, multi_comm, zone_info, info, list, error>>
    BY <1>5 DEF vars, parser, store
  <2>2. PICK m : m = n
    OBVIOUS
  <2>3. PICK zone : zone = zone_info
    OBVIOUS
  <2>4. PICK infos : infos = info
    OBVIOUS
  <2>5. InComment(n)' <=> InComment(n)
    <3>1. InComment(m)' <=> InComment(m)
      BY <2>1, FileKept
    <3>2. (InComment(n)' <=> InComment(m)') /\ (InComment(n) <=> InComment(m))
      BY <2>1, <2>2
    <3> QED
      BY <3>1, <3>2
  <2>6. ReadUp(n, zone_info, info)' <=> ReadUp(n, zone_info, info)
    <3>1. ReadUp(m, zone, infos)' <=> ReadUp(m, zone, infos)
      BY <2>1, ReadKept
    <3>2. /\ ReadUp(n, zone_info, info)' <=> ReadUp(m, zone, infos)'
          /\ ReadUp(n, zone_info, info) <=> ReadUp(m, zone, infos)
      BY <2>1, <2>2, <2>3, <2>4
    <3> QED
      BY <3>1, <3>2
  <2>7. InComment(n)' \in BOOLEAN /\ InComment(n) \in BOOLEAN
    BY DEF InComment
  <2>8. (ListInv' <=> ListInv) /\ (Regular' <=> Regular) /\ (Named' <=> Named)
        /\ (Correct' <=> Correct) /\ ZonesWritten' = ZonesWritten
    BY <2>1, FileKept DEF ListInv, Stored
  <2> QED
    BY <1>1, <2>1, <2>5, <2>6, <2>7, <2>8 DEF ConfInv
<1> QED
  BY <1>1, <1>2, <1>3, <1>4, <1>5, OpenConfConf, ConfEndsConf DEF Next

\* Whatever master.conf holds, character by character: if it keeps to the rules at its
\* head as far as lines and comments go, and is accepted, then zone_cfg_parse() has put
\* into redis the zones that are written in it, the last one of each name, each with
\* its own type and file and nothing of its neighbours' or of a comment's, and has put
\* each of them into the list once; and it refuses no file that is correct.
THEOREM ZonesAreWritten == Spec => []ConfAsWritten
<1>1. Init => ConfInv
  <2> SUFFICES ASSUME Init PROVE ConfInv
    OBVIOUS
  <2>1. FilesInv
    BY StartTyped DEF FilesInv, Init
  <2> QED
    BY <2>1 DEF Init, ConfInv
<1>2. ConfInv => ConfAsWritten
  <2> SUFFICES ASSUME ConfInv PROVE ConfAsWritten
    OBVIOUS
  <2>1. pc = "list" => /\ Range(list) = {z.name : z \in info}
                       /\ Len(list) = Cardinality(info)
    BY DEF ConfInv, ListInv
  <2>2. error = "format" => ~Correct
    BY DEF ConfInv
  <2>3. pc = "list" /\ Regular /\ Named => info = ZonesWritten
    BY DEF ConfInv
  <2> QED
    BY <2>1, <2>2, <2>3 DEF ConfAsWritten
<1> QED
  BY <1>1, <1>2, ConfInductive, PTL DEF Spec
=============================================================================
