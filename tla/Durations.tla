----------------------------- MODULE Durations -----------------------------
(***************************************************************************)
(* translate_to_int() and is_digit() of zone_parse.c: what a zone file's   *)
(* times and numbers come to.  A string is a sequence of characters.  An   *)
(* int has 32 bits: strings are meant that stay below 2^31.                *)
(***************************************************************************)
EXTENDS Integers, Sequences, Functions

CONSTANT Other  \* characters that are neither digits nor units

Digits == <<"0", "1", "2", "3", "4", "5", "6", "7", "8", "9">>
Digit == Range(Digits)
Minute == {"m", "M"}
Hour == {"h", "H"}
Day == {"d", "D"}
Week == {"w", "W"}
Unit == Minute \union Hour \union Day \union Week

ASSUME OtherAssumption == Other \intersect (Digit \union Unit) = {}

RET_ERR == -1

DigitValue(ch) == (CHOOSE k \in DOMAIN Digits : Digits[k] = ch) - 1

Seconds(unit) ==
    CASE unit \in Week   -> 3600 * 24 * 7
      [] unit \in Day    -> 3600 * 24
      [] unit \in Hour   -> 3600
      [] unit \in Minute -> 60

is_digit(val) == \A k \in DOMAIN val : val[k] \in Digit

\* Mutation: the number in front of a unit is kept for the next one.
Turn_Kept(acc, ch) ==
    IF ch \in Unit THEN [acc EXCEPT !.res = @ + acc.tmp_res * Seconds(ch)]
    ELSE [acc EXCEPT !.tmp_res = @ * 10 + DigitValue(ch)]

\* One turn of the loop
Turn(acc, ch) ==
    IF ch \in Unit THEN [res |-> acc.res + acc.tmp_res * Seconds(ch), tmp_res |-> 0]
    ELSE [acc EXCEPT !.tmp_res = @ * 10 + DigitValue(ch)]

\* What is left without a unit counts as it is.
translate_to_int(val) ==
    LET loop[k \in 0 .. Len(val)] ==
            IF k = 0 THEN [res |-> 0, tmp_res |-> 0] ELSE Turn(loop[k - 1], val[k])
    IN  IF Range(val) \intersect Other # {} THEN RET_ERR
        ELSE loop[Len(val)].res + loop[Len(val)].tmp_res

-----------------------------------------------------------------------------
\* What a digit in front of each position counts for: the unit that stands there, ten
\* times as much as a digit one further on in front of another digit, 1 at the end.
Worth(val) ==
    LET worth[k \in 1 .. Len(val) + 1] ==
            IF k = Len(val) + 1 THEN 1
            ELSE IF val[k] \in Unit THEN Seconds(val[k]) ELSE 10 * worth[k + 1]
    IN  worth

\* The documented value: every digit for what it is worth
Documented(val) ==
    LET total[k \in 0 .. Len(val)] ==
            IF k = 0 THEN 0
            ELSE total[k - 1]
                 + (IF val[k] \in Digit THEN DigitValue(val[k]) * Worth(val)[k + 1] ELSE 0)
    IN  IF \E k \in DOMAIN val : val[k] \in Other THEN RET_ERR ELSE total[Len(val)]
=============================================================================
