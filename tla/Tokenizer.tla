----------------------------- MODULE Tokenizer -----------------------------
(***************************************************************************)
(* get_a_token() and get_a_token_str() of zone.c: the machine that takes   *)
(* the tokens of master.conf and of the zone files out of a line, one per  *)
(* call, character by character.                                           *)
(*                                                                         *)
(* A buffer is the sequence of its characters, the terminating NUL last.   *)
(* A position is an index of it, 0 is the NULL pointer; `end' is the       *)
(* position behind a token.  Characters that mean nothing to the machine   *)
(* (Plain) may stand for whole words.                                      *)
(***************************************************************************)
EXTENDS Integers, Sequences, FiniteSets, SequencesExt, FiniteSetsExt

CONSTANTS Plain,    \* characters without a meaning of their own
          TokenMax  \* TOKEN_NAME_LEN_MAX

NUL == "NUL"
Newline == "\n"
Quote == "\""
Special == {";", "#", "'", "\\", "*", "/", Quote, "\r", " ", "\t", NUL, Newline,
            "{", "}", "(", ")"}
Char == Plain \union Special

ASSUME TokenAssumption == /\ Plain \intersect Special = {}
                          /\ TokenMax \in Nat \ {0, 1}

\* The flag a character raises.  The states of the machine have the same names.
Kind(ch) ==
    CASE ch \in {";", "#"}           -> "comment"
      [] ch \in {"'", "\\"}          -> "refused"
      [] ch = "*"                    -> "star"
      [] ch = "/"                    -> "slash"
      [] ch = Quote                  -> "d_quote"
      [] ch \in {"\r", " ", "\t"}    -> "separate"
      [] ch \in {NUL, Newline}       -> "line_end"
      [] ch \in {"{", "}", "(", ")"} -> "brace"
      [] OTHER                       -> "normal"

Start == [machine |-> "normal", beg |-> 0, end |-> 0, ret |-> "RET_OK"]
Invalid == [machine |-> "invalid", beg |-> 0, end |-> 0, ret |-> "RET_ERR"]

\* token_beg, set where it was NULL
From(s, p) == [s EXCEPT !.beg = IF @ = 0 THEN p ELSE @]

\* OPER_STATE_NORMAL: the character at p seen in the state "normal".  A quote in
\* the middle of a token is a format error.
Enter(s, kind, p) ==
    CASE kind = "normal"                 -> From(s, p)
      [] kind = "d_quote" /\ s.beg = 0   -> [s EXCEPT !.machine = kind, !.beg = p + 1]
      [] kind = "d_quote" /\ s.beg # 0   -> Invalid
      [] OTHER                           -> [s EXCEPT !.machine = kind]

\* The pairs of characters that are one sign.
Pair == [slash |-> [slash |-> "slash_slash", star |-> "slash_star"],
         star  |-> [slash |-> "star_slash"]]

\* The machine's jump.  A star or a slash that begins no pair was the beginning
\* of a token, or belongs to one; between quotes only the next quote counts.
Jump(s, kind, p) ==
    CASE s.machine = "normal" -> Enter(s, kind, p)
      [] s.machine \in DOMAIN Pair ->
            IF kind \in DOMAIN Pair[s.machine]
               THEN [s EXCEPT !.machine = Pair[s.machine][kind]]
               ELSE Enter(From([s EXCEPT !.machine = "normal"], p - 1), kind, p)
      [] s.machine = "d_quote" ->
            IF kind = "d_quote" THEN [s EXCEPT !.machine = "d_quote_d_quote"] ELSE s

\* What the states that end a call return when no token has been begun.
Returned == [slash_slash |-> "RET_COMMENT", slash_star |-> "RET_MULTI_COMMENT",
             star_slash |-> "RET_MULTI_COMMENT", brace |-> "RET_BRACE",
             comment |-> "RET_COMMENT", line_end |-> "RET_ENDLINE"]

\* Mutation: a token before a sign of two characters keeps the first of them.
Finish_OffByOne(s, p) ==
    CASE s.machine = "d_quote_d_quote" ->
            [s EXCEPT !.machine = "end", !.end = p, !.ret = "RET_DQUOTE"]
      [] s.machine = "separate" /\ s.beg = 0 -> [s EXCEPT !.machine = "normal"]
      [] s.machine \in DOMAIN Returned /\ s.beg = 0 ->
            [s EXCEPT !.machine = "end", !.ret = Returned[s.machine]]
      [] s.machine \in DOMAIN Returned \union {"separate"} /\ s.beg # 0 ->
            [s EXCEPT !.machine = "end", !.end = p]
      [] OTHER -> s

\* A token ends before the sign that ends it, which the next call begins with.
Finish(s, p) ==
    CASE s.machine = "d_quote_d_quote" ->
            [s EXCEPT !.machine = "end", !.end = p, !.ret = "RET_DQUOTE"]
      [] s.machine = "separate" /\ s.beg = 0 -> [s EXCEPT !.machine = "normal"]
      [] s.machine \in DOMAIN Returned /\ s.beg = 0 ->
            [s EXCEPT !.machine = "end", !.ret = Returned[s.machine]]
      [] s.machine \in {"slash_slash", "slash_star", "star_slash"} /\ s.beg # 0 ->
            [s EXCEPT !.machine = "end", !.end = p - 1]
      [] s.machine \in {"brace", "comment", "separate", "line_end"} /\ s.beg # 0 ->
            [s EXCEPT !.machine = "end", !.end = p]
      [] OTHER -> s

\* One turn of the loop.
ReadChar(s, ch, p) ==
    IF s.machine \in {"end", "invalid"} THEN s
    ELSE IF Kind(ch) = "refused" THEN Invalid ELSE Finish(Jump(s, Kind(ch), p), p)

\* A call for the buffer from a position on.  Between quotes the NUL is passed over
\* like anything else; "d_quote" as the last state stands for a scan that has left
\* the line.
get_a_token(buf, from) ==
    LET read[p \in from - 1 .. Len(buf)] ==
            IF p = from - 1 THEN Start ELSE ReadChar(read[p - 1], buf[p], p)
    IN  read[Len(buf)]

Result(ret, token, next, multi) ==
    [ret |-> ret, token |-> token, next |-> next, multi |-> multi]
Error == Result("RET_ERR", <<>>, 0, FALSE)

\* The outcomes of get_a_token_str(): the token, where `*buf' is then, and whether
\* a sign of a comment over several lines was met.  A scan that has left the line
\* goes on in what earlier lines, or others, have left in memory: it may meet a
\* refused character, or find the token too long, or meet a quote; then the token is
\* the rest of the line, since snprintf() stops at the NUL, but its length is not.
get_a_token_str(buf, from) ==
    LET s == get_a_token(buf, from) IN
    IF s.machine = "d_quote"
       THEN {Error} \union
            {r \in {Result("RET_OK", SubSeq(buf, s.beg, Len(buf) - 1), Len(buf) + 1, FALSE)} :
                Len(r.token) + 1 < TokenMax}
    ELSE IF s.machine = "invalid" \/ s.end - s.beg >= TokenMax
       THEN {Error}
    ELSE IF s.end = 0
       THEN {Result("RET_ENDLINE", <<>>, from, s.ret = "RET_MULTI_COMMENT")}
    ELSE {Result("RET_OK", SubSeq(buf, s.beg, s.end - 1),
                 IF s.ret = "RET_DQUOTE" THEN s.end + 1 ELSE s.end, FALSE)}

-----------------------------------------------------------------------------
(* What zone.h says of a line, read off the line as a whole.                *)

\* Is position p between quotes, or a closing one?
Quoted(buf, p) == Cardinality({q \in 1 .. p - 1 : buf[q] = Quote}) % 2 = 1

Closed(buf) == Cardinality({q \in DOMAIN buf : buf[q] = Quote}) % 2 = 0

\* The signs that end a line's tokens, those of two characters included
Sign(buf, p) ==
    \/ Kind(buf[p]) \in {"comment", "brace", "line_end"}
    \/ /\ p < Len(buf)
       /\ <<buf[p], buf[p + 1]>> \in {<<"/", "/">>, <<"/", "*">>, <<"*", "/">>}

Stop(buf) == Min({p \in DOMAIN buf : ~Quoted(buf, p) /\ Sign(buf, p)} \union {Len(buf)})

\* The positions that belong to a token without quotes
InWord(buf, p) ==
    ~Quoted(buf, p) /\ Kind(buf[p]) \in {"normal", "star", "slash"} /\ p < Stop(buf)

\* Tokens, as pairs of the first position and that behind the last
Words(buf) ==
    {w \in (1 .. Stop(buf)) \X (1 .. Stop(buf)) :
        /\ w[1] < w[2]
        /\ \A p \in w[1] .. w[2] - 1 : InWord(buf, p)
        /\ w[1] = 1 \/ ~InWord(buf, w[1] - 1)
        /\ ~InWord(buf, w[2])}
    \union
    {w \in (1 .. Stop(buf)) \X (1 .. Stop(buf)) :
        /\ 1 < w[1] /\ w[1] <= w[2]
        /\ buf[w[1] - 1] = Quote /\ ~Quoted(buf, w[1] - 1)
        /\ buf[w[2]] = Quote
        /\ \A p \in w[1] .. w[2] - 1 : buf[p] # Quote}

\* The positions at which a line is in error: characters that are refused, a quote
\* that touches a token, a token that is too long
Errors(buf) ==
    {p \in 1 .. Stop(buf) : Kind(buf[p]) = "refused"}
    \union {p \in 2 .. Stop(buf) : buf[p] = Quote /\ InWord(buf, p - 1)}
    \union {w[1] : w \in {x \in Words(buf) : x[2] - x[1] >= TokenMax}}

\* The tokens of a line before its first error, in their order
Good(buf) ==
    LET errors == Errors(buf)
    IN  {w \in Words(buf) : \A p \in errors : w[2] < p}
Text(buf, w) == SubSeq(buf, w[1], w[2] - 1)
Written(buf) ==
    LET good == Good(buf)
        first == {w[1] : w \in good}
        upto[p \in 0 .. Len(buf)] ==
            IF p = 0 THEN <<>>
            ELSE IF p \in first
                    THEN Append(upto[p - 1], Text(buf, CHOOSE w \in good : w[1] = p))
                    ELSE upto[p - 1]
    IN  upto[Len(buf)]

\* Calls of get_a_token_str() for a line, one after the other until one fails or finds
\* no token, and the tokens they take out of it.  Every token ends behind the one
\* before, so there are no more calls than characters.
Call(buf, c) ==
    LET r == CHOOSE r \in get_a_token_str(buf, c.next) : TRUE
    IN  IF c.ret # "RET_OK" THEN c
        ELSE [ret |-> r.ret, next |-> r.next,
              taken |-> IF r.ret = "RET_OK" THEN Append(c.taken, r.token) ELSE c.taken]
Calls(buf) ==
    LET calls[k \in 0 .. Len(buf)] ==
            IF k = 0 THEN [ret |-> "RET_OK", next |-> 1, taken |-> <<>>]
            ELSE Call(buf, calls[k - 1])
    IN  calls[Len(buf)]

Taken(buf) == Calls(buf).taken
Failed(buf) == Calls(buf).ret = "RET_ERR"
=============================================================================
