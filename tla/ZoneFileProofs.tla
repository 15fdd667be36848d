--------------------------- MODULE ZoneFileProofs ---------------------------
(***************************************************************************)
(* Theorems about ZoneFile, for all tokens, names and files.               *)
(***************************************************************************)
EXTENDS ZoneFile, Inductions, TLAPS

\* Appending to a sequence, taking its first element off, and the empty one.
LEMMA AppendType ==
    ASSUME NEW S, NEW s \in Seq(S), NEW e \in S
    PROVE  Append(s, e) \in Seq(S)
OBVIOUS

LEMMA HeadTailType ==
    ASSUME NEW S, NEW s \in Seq(S), s # <<>>
    PROVE  Head(s) \in S /\ Tail(s) \in Seq(S)
OBVIOUS

LEMMA EmptyType == ASSUME NEW S PROVE <<>> \in Seq(S)
OBVIOUS

-----------------------------------------------------------------------------
(* Times: what the loop of translate_to_int() has after each turn           *)

LEMMA DigitIs ==
    /\ \A ch \in Digit : DigitValue(ch) \in Nat /\ ch \notin Unit
    /\ \A ch \in Unit : Seconds(ch) \in Nat
<1>0. PICK T \in Nat : T = 10
  OBVIOUS
<1>1. DOMAIN Digits = 1 .. T
  BY <1>0 DEF Digits
<1>2. ASSUME NEW ch \in Digit PROVE DigitValue(ch) \in Nat
  <2>1. \E k \in DOMAIN Digits : Digits[k] = ch
    BY DEF Digit, Range
  <2>2. PICK d \in DOMAIN Digits : d = CHOOSE k \in DOMAIN Digits : Digits[k] = ch
    BY <2>1, Zenon
  <2>3. DigitValue(ch) = d - 1
    BY <2>2, Zenon DEF DigitValue
  <2>4. d \in 1 .. T
    BY <1>1, <2>2
  <2>5. d - 1 \in Nat
    BY <1>0, <2>4
  <2> QED
    BY <2>3, <2>5
<1>3. ASSUME NEW ch \in Digit PROVE ch \notin Unit
  <2>1. PICK k \in 1 .. T : Digits[k] = ch
    BY <1>1 DEF Digit, Range
  <2>2. ch \in {"0", "1", "2", "3", "4", "5", "6", "7", "8", "9"}
    BY <1>0, <2>1 DEF Digits
  <2> QED
    BY <2>2 DEF Unit, Minute, Hour, Day, Week
<1>4. ASSUME NEW ch \in Unit PROVE Seconds(ch) \in Nat
  BY <1>4 DEF Seconds, Unit, Minute, Hour, Day, Week
<1> QED
  BY <1>2, <1>3, <1>4

\* The loop of translate_to_int()
Acc == [res : Nat, tmp_res : Nat]
Loops(f, val) == f = [k \in 0 .. Len(val) |->
    IF k = 0 THEN [res |-> 0, tmp_res |-> 0] ELSE Turn(f[k - 1], val[k])]
Loop(val) == CHOOSE f : Loops(f, val)

LEMMA TurnIs ==
    ASSUME NEW acc \in Acc, NEW ch \in Digit \union Unit
    PROVE  /\ Turn(acc, ch) \in Acc
           /\ ch \in Unit => /\ Turn(acc, ch).res = acc.res + acc.tmp_res * Seconds(ch)
                             /\ Turn(acc, ch).tmp_res = 0
           /\ ch \in Digit => /\ Turn(acc, ch).res = acc.res
                              /\ Turn(acc, ch).tmp_res = acc.tmp_res * 10 + DigitValue(ch)
<1>1. acc.res \in Nat /\ acc.tmp_res \in Nat
  BY DEF Acc
<1>2. CASE ch \in Unit
  <2>1. PICK w \in Nat : w = Seconds(ch)
    BY <1>2, DigitIs
  <2>2. acc.res + acc.tmp_res * w \in Nat
    BY <1>1
  <2>3. PICK r \in Nat : r = acc.res + acc.tmp_res * w
    BY <2>2
  <2>4. Turn(acc, ch) = [res |-> r, tmp_res |-> 0]
    BY <1>2, <2>1, <2>3, Zenon DEF Turn
  <2>5. ch \notin Digit
    BY <1>2, DigitIs
  <2> QED
    BY <2>1, <2>3, <2>4, <2>5 DEF Acc
<1>3. CASE ch \notin Unit
  <2>1. ch \in Digit
    BY <1>3
  <2>2. PICK d \in Nat : d = DigitValue(ch)
    BY <2>1, DigitIs
  <2>3. PICK t \in Nat : t = acc.tmp_res * 10 + d
    BY <1>1
  <2>4. Turn(acc, ch) = [acc EXCEPT !.tmp_res = t]
    BY <1>3, <2>2, <2>3, Zenon DEF Turn
  <2> QED
    BY <1>3, <2>1, <2>2, <2>3, <2>4 DEF Acc
<1> QED
  BY <1>2, <1>3

LEMMA LoopIs ==
    ASSUME NEW val \in Seq(Digit \union Unit), NEW L \in Nat, L = Len(val)
    PROVE  /\ Loops(Loop(val), val)
           /\ Loop(val) \in [0 .. L -> Acc]
           /\ Loop(val)[0] = [res |-> 0, tmp_res |-> 0]
           /\ \A k \in 1 .. L : Loop(val)[k] = Turn(Loop(val)[k - 1], val[k])
<1>1. \A k \in 1 .. L : val[k] \in Digit \union Unit
  BY ElementOfSeq
<1>2. PICK v \in Acc : v = [res |-> 0, tmp_res |-> 0]
  BY DEF Acc
<1> DEFINE G == [p \in (1 .. L) \X Acc |-> Turn(p[2], val[p[1]])]
<1>3. \A k \in 1 .. L, a \in Acc : G[<<k, a>>] = Turn(a, val[k])
  OBVIOUS
<1>4. \A k \in 1 .. L, a \in Acc : Turn(a, val[k]) \in Acc
  BY <1>1, TurnIs
<1>5. G \in [(1 .. L) \X Acc -> Acc]
  BY <1>4
<1> HIDE DEF G
<1>6. PICK g \in [0 .. L -> Acc] : IsRecursive(g, L, v, G)
  BY <1>5, RecursionExists
<1>7. ASSUME NEW k \in 0 .. L
      PROVE  (IF k = 0 THEN v ELSE G[<<k, g[k - 1]>>])
                = (IF k = 0 THEN [res |-> 0, tmp_res |-> 0] ELSE Turn(g[k - 1], val[k]))
  <2>1. k # 0 => k \in 1 .. L /\ g[k - 1] \in Acc
    BY <1>6
  <2> QED
    BY <1>2, <1>3, <2>1
<1>8. g = [k \in 0 .. L |-> IF k = 0 THEN [res |-> 0, tmp_res |-> 0] ELSE Turn(g[k - 1], val[k])]
  BY <1>6, <1>7, Zenon DEF IsRecursive
<1>9. Loops(g, val)
  BY <1>8, Zenon DEF Loops
<1> DEFINE f == Loop(val)
<1>10. Loops(f, val)
  BY <1>9, Zenon DEF Loop
<1> HIDE DEF f
<1>11. f[0] = v /\ \A k \in 1 .. L : f[k] = Turn(f[k - 1], val[k])
  BY <1>2, <1>10 DEF Loops
<1>12. f \in [0 .. L -> Acc]
  <2> DEFINE S == {k \in 0 .. L : f[k] \in Acc}
  <2>1. 0 \in S
    BY <1>11
  <2>2. \A k \in 1 .. L : k - 1 \in S => k \in S
    BY <1>4, <1>11
  <2>3. 0 .. L \subseteq S
    <3> HIDE DEF S
    <3> QED
      BY <2>1, <2>2, BoundedInduction
  <2>4. f = [k \in 0 .. L |-> IF k = 0 THEN [res |-> 0, tmp_res |-> 0] ELSE Turn(f[k - 1], val[k])]
    BY <1>10, Zenon DEF Loops
  <2> QED
    BY <2>3, <2>4
<1> QED
  BY <1>2, <1>10, <1>11, <1>12 DEF f

\* What the digits count for
Worths(f, val) == f = [k \in 1 .. Len(val) + 1 |->
    IF k = Len(val) + 1 THEN 1
    ELSE IF val[k] \in Unit THEN Seconds(val[k]) ELSE 10 * f[k + 1]]

LEMMA WorthIs ==
    ASSUME NEW val \in Seq(Digit \union Unit), NEW L \in Nat, L = Len(val)
    PROVE  /\ Worth(val) \in [1 .. L + 1 -> Nat]
           /\ Worth(val)[L + 1] = 1
           /\ \A k \in 1 .. L : Worth(val)[k] = IF val[k] \in Unit THEN Seconds(val[k])
                                                ELSE 10 * Worth(val)[k + 1]
<1>1. PICK v \in Nat : v = 1
  OBVIOUS
<1> DEFINE Next1(k, w) == IF val[k] \in Unit THEN Seconds(val[k]) ELSE 10 * w
           G == [p \in (1 .. L) \X Nat |-> Next1(L + 1 - p[1], p[2])]
<1>2. \A k \in 1 .. L, w \in Nat : G[<<k, w>>] = Next1(L + 1 - k, w)
  OBVIOUS
<1>3. \A k \in 1 .. L, w \in Nat : Next1(L + 1 - k, w) \in Nat
  BY DigitIs
<1>4. G \in [(1 .. L) \X Nat -> Nat]
  BY <1>3
<1> HIDE DEF G
<1>5. PICK g \in [0 .. L -> Nat] : IsRecursive(g, L, v, G)
  <2>1. PICK V : V = Nat
    OBVIOUS
  <2>2. G \in [(1 .. L) \X V -> V] /\ v \in V
    BY <1>4, <2>1
  <2>3. PICK g \in [0 .. L -> V] : IsRecursive(g, L, v, G)
    BY <2>2, RecursionExists
  <2> QED
    BY <2>1, <2>3
<1>6. g[0] = 1 /\ \A k \in 1 .. L : g[k] = Next1(L + 1 - k, g[k - 1])
  <2>1. g[0] = v /\ \A k \in 1 .. L : g[k] = G[<<k, g[k - 1]>>]
    <3>1. \A k \in 0 .. L : g[k] = IF k = 0 THEN v ELSE G[<<k, g[k - 1]>>]
      BY <1>5, Zenon DEF IsRecursive
    <3>2. 0 \in 0 .. L /\ \A k \in 1 .. L : k \in 0 .. L /\ k # 0
      OBVIOUS
    <3> QED
      BY <3>1, <3>2, Zenon
  <2>2. \A k \in 1 .. L : g[k - 1] \in Nat
    BY <1>5
  <2> HIDE DEF Next1
  <2> QED
    BY <1>1, <1>2, <2>1, <2>2
<1> DEFINE h == [k \in 1 .. L + 1 |-> g[L + 1 - k]]
<1>7. h[L + 1] = 1
  BY <1>6
<1>8. ASSUME NEW k \in 1 .. L PROVE h[k] = Next1(k, h[k + 1])
  <2>1. L + 1 - k \in 1 .. L /\ L + 1 - (L + 1 - k) = k /\ (L + 1 - k) - 1 = L + 1 - (k + 1)
        /\ k \in 1 .. L + 1 /\ k + 1 \in 1 .. L + 1
    OBVIOUS
  <2>2. h[k] = g[L + 1 - k] /\ h[k + 1] = g[L + 1 - (k + 1)]
    BY <2>1
  <2>3. g[L + 1 - k] = Next1(L + 1 - (L + 1 - k), g[(L + 1 - k) - 1])
    BY <1>6, <2>1
  <2> HIDE DEF Next1, h
  <2> QED
    BY <2>1, <2>2, <2>3
<1>9. Worths(h, val)
  <2>1. ASSUME NEW k \in 1 .. L + 1
        PROVE  h[k] = IF k = L + 1 THEN 1
                      ELSE IF val[k] \in Unit THEN Seconds(val[k]) ELSE 10 * h[k + 1]
    <3>1. CASE k = L + 1
      BY <1>7, <3>1
    <3>2. CASE k # L + 1
      <4>1. k \in 1 .. L
        BY <3>2
      <4>2. h[k] = Next1(k, h[k + 1])
        BY <1>8, <4>1
      <4> HIDE DEF h
      <4> QED
        BY <3>2, <4>2, Zenon
    <3> QED
      BY <3>1, <3>2
  <2>2. h = [k \in 1 .. L + 1 |-> h[k]]
    OBVIOUS
  <2> HIDE DEF h
  <2>3. h = [k \in 1 .. L + 1 |-> IF k = L + 1 THEN 1
                  ELSE IF val[k] \in Unit THEN Seconds(val[k]) ELSE 10 * h[k + 1]]
    BY <2>1, <2>2, Zenon
  <2> QED
    BY <2>3, Zenon DEF Worths
<1> DEFINE f == CHOOSE x : Worths(x, val)
<1>10. Worths(f, val)
  <2> HIDE DEF h
  <2> QED
    BY <1>9, Zenon
<1>11. Worth(val) = f
  BY Zenon DEF Worth, Worths
<1> HIDE DEF f
<1>12. f = [k \in 1 .. L + 1 |-> IF k = L + 1 THEN 1
                  ELSE IF val[k] \in Unit THEN Seconds(val[k]) ELSE 10 * f[k + 1]]
  BY <1>10, Zenon DEF Worths
<1>13. f[L + 1] = 1 /\ \A k \in 1 .. L : f[k] = IF val[k] \in Unit THEN Seconds(val[k])
                                                ELSE 10 * f[k + 1]
  <2>1. \A k \in 1 .. L + 1 : f[k] = IF k = L + 1 THEN 1
                  ELSE IF val[k] \in Unit THEN Seconds(val[k]) ELSE 10 * f[k + 1]
    BY <1>12, Zenon
  <2>2. L + 1 \in 1 .. L + 1 /\ \A k \in 1 .. L : k \in 1 .. L + 1 /\ k # L + 1
    OBVIOUS
  <2> QED
    BY <2>1, <2>2, Zenon
<1>14. f \in [1 .. L + 1 -> Nat]
  <2> DEFINE S == {k \in 0 .. L : f[L + 1 - k] \in Nat}
  <2>1. 0 \in S
    BY <1>13
  <2>2. ASSUME NEW k \in 1 .. L, k - 1 \in S PROVE k \in S
    <3>1. L + 1 - k \in 1 .. L /\ (L + 1 - k) + 1 = L + 1 - (k - 1)
      OBVIOUS
    <3>2. PICK w \in Nat : w = f[(L + 1 - k) + 1]
      BY <2>2, <3>1
    <3>3. f[L + 1 - k] = IF val[L + 1 - k] \in Unit THEN Seconds(val[L + 1 - k]) ELSE 10 * w
      BY <1>13, <3>1, <3>2
    <3>4. f[L + 1 - k] \in Nat
      BY <3>3, DigitIs
    <3> QED
      BY <3>4
  <2>3. 0 .. L \subseteq S
    <3> HIDE DEF S
    <3> QED
      BY <2>1, <2>2, BoundedInduction
  <2>4. ASSUME NEW k \in 1 .. L + 1 PROVE f[k] \in Nat
    <3>1. L + 1 - k \in 0 .. L /\ L + 1 - (L + 1 - k) = k
      OBVIOUS
    <3> QED
      BY <2>3, <3>1
  <2> QED
    BY <1>12, <2>4
<1> QED
  BY <1>11, <1>13, <1>14

\* The sum of what the digits are worth
Share(val, k) == IF val[k] \in Digit THEN DigitValue(val[k]) * Worth(val)[k + 1] ELSE 0
Totals(f, val) == f = [k \in 0 .. Len(val) |-> IF k = 0 THEN 0 ELSE f[k - 1] + Share(val, k)]

LEMMA TotalIs ==
    ASSUME NEW val \in Seq(Digit \union Unit), NEW L \in Nat, L = Len(val)
    PROVE  LET total == CHOOSE f : Totals(f, val)
           IN  /\ total \in [0 .. L -> Nat]
               /\ total[0] = 0
               /\ \A k \in 1 .. L : total[k] = total[k - 1] + Share(val, k)
<1> DEFINE total == CHOOSE f : Totals(f, val)
<1>1. \A k \in 1 .. L : Share(val, k) \in Nat
  <2> TAKE k \in 1 .. L
  <2>1. CASE val[k] \in Digit
    <3>1. PICK d \in Nat : d = DigitValue(val[k])
      BY <2>1, DigitIs
    <3>2. k + 1 \in 1 .. L + 1
      OBVIOUS
    <3>3. PICK w \in Nat : w = Worth(val)[k + 1]
      BY <3>2, WorthIs
    <3>4. Share(val, k) = d * w
      BY <2>1, <3>1, <3>3, Zenon DEF Share
    <3> QED
      BY <3>4
  <2>2. CASE val[k] \notin Digit
    BY <2>2 DEF Share
  <2> QED
    BY <2>1, <2>2
<1> DEFINE t == [k \in 1 .. L |-> Share(val, k)]
<1>2. t \in [1 .. L -> Nat] /\ \A k \in 1 .. L : t[k] = Share(val, k)
  BY <1>1
<1> HIDE DEF t
<1>3. PICK g : /\ g \in [0 .. L -> Nat]
               /\ g[0] = 0
               /\ \A k \in 1 .. L : g[k] = g[k - 1] + t[k]
               /\ AreSums(g, L, t)
  BY <1>2, SumsAre
<1>4. \E x : Totals(x, val)
  <2>1. \A k \in 0 .. L : (IF k = 0 THEN 0 ELSE g[k - 1] + t[k])
                             = (IF k = 0 THEN 0 ELSE g[k - 1] + Share(val, k))
    <3> TAKE k \in 0 .. L
    <3>1. k # 0 => k \in 1 .. L
      OBVIOUS
    <3> QED
      BY <1>2, <3>1
  <2>2. g = [k \in 0 .. L |-> IF k = 0 THEN 0 ELSE g[k - 1] + Share(val, k)]
    BY <1>3, <2>1, Zenon DEF AreSums
  <2> QED
    BY <2>2, Zenon DEF Totals
<1>5. Totals(total, val)
  BY <1>4, Zenon
<1> HIDE DEF total
<1>6. \A k \in 0 .. L : total[k] = IF k = 0 THEN 0 ELSE total[k - 1] + Share(val, k)
  BY <1>5, Zenon DEF Totals
<1>7. total[0] = 0 /\ \A k \in 1 .. L : total[k] = total[k - 1] + Share(val, k)
  <2>1. 0 \in 0 .. L /\ \A k \in 1 .. L : k \in 0 .. L /\ k # 0
    OBVIOUS
  <2> QED
    BY <1>6, <2>1, Zenon
<1>8. total \in [0 .. L -> Nat]
  <2> DEFINE S == {k \in 0 .. L : total[k] \in Nat}
  <2>1. 0 \in S
    BY <1>7
  <2>2. ASSUME NEW k \in 1 .. L, k - 1 \in S PROVE k \in S
    <3>1. PICK a \in Nat : a = total[k - 1]
      BY <2>2
    <3>2. PICK b \in Nat : b = Share(val, k)
      BY <1>1
    <3>3. total[k] = a + b
      BY <1>7, <3>1, <3>2
    <3> QED
      BY <3>3
  <2>3. 0 .. L \subseteq S
    <3> HIDE DEF S
    <3> QED
      BY <2>1, <2>2, BoundedInduction
  <2>4. total = [k \in 0 .. L |-> IF k = 0 THEN 0 ELSE total[k - 1] + Share(val, k)]
    BY <1>5, Zenon DEF Totals
  <2>5. \A k \in 0 .. L : total[k] \in Nat
    BY <2>3
  <2> QED
    BY <2>4, <2>5
<1> QED
  BY <1>7, <1>8 DEF total

\* After each turn: what the loop has and will have of the digits that it has read is
\* what they are worth.
LEMMA LoopTotals ==
    ASSUME NEW val \in Seq(Digit \union Unit), NEW L \in Nat, L = Len(val)
    PROVE  LET total == CHOOSE f : Totals(f, val)
           IN  Loop(val)[L].res + Loop(val)[L].tmp_res = total[L]
<1> DEFINE total == CHOOSE f : Totals(f, val)
<1>1. /\ total \in [0 .. L -> Nat] /\ total[0] = 0
      /\ \A k \in 1 .. L : total[k] = total[k - 1] + Share(val, k)
  BY TotalIs
<1> HIDE DEF total
<1>2. PICK f \in [0 .. L -> Acc] : /\ f = Loop(val)
                                   /\ f[0] = [res |-> 0, tmp_res |-> 0]
                                   /\ \A k \in 1 .. L : f[k] = Turn(f[k - 1], val[k])
  BY LoopIs
<1>3. PICK w \in [1 .. L + 1 -> Nat] :
          /\ w = Worth(val) /\ w[L + 1] = 1
          /\ \A k \in 1 .. L : w[k] = IF val[k] \in Unit THEN Seconds(val[k]) ELSE 10 * w[k + 1]
  BY WorthIs
<1> DEFINE S == {k \in 0 .. L : f[k].res + f[k].tmp_res * w[k + 1] = total[k]}
<1>4. 0 \in S
  <2>1. PICK x \in Nat : x = w[1]
    BY <1>3
  <2>2. f[0].res = 0 /\ f[0].tmp_res = 0
    BY <1>2
  <2>3. 0 + 0 * x = 0
    OBVIOUS
  <2>4. 0 + 1 = 1
    OBVIOUS
  <2>5. f[0].res + f[0].tmp_res * w[0 + 1] = total[0]
    BY <1>1, <2>1, <2>2, <2>3, <2>4, Zenon
  <2> QED
    BY <2>5
<1>5. ASSUME NEW k \in 1 .. L, k - 1 \in S PROVE k \in S
  <2>1. PICK a \in Acc : a = f[k - 1]
    BY <1>2
  <2>2. PICK x \in Nat : x = w[k]
    BY <1>3
  <2>3. PICK y \in Nat : y = w[k + 1]
    BY <1>3
  <2>4. PICK r \in Nat, m \in Nat : r = a.res /\ m = a.tmp_res
    BY DEF Acc
  <2>5. total[k - 1] = r + m * x
    BY <1>5, <2>1, <2>2, <2>4
  <2>6. f[k] = Turn(a, val[k]) /\ val[k] \in Digit \union Unit
    BY <1>2, <2>1, ElementOfSeq
  <2>7. f[k].res + f[k].tmp_res * y = total[k]
    <3>1. CASE val[k] \in Unit
      <4>1. PICK u \in Nat : u = Seconds(val[k])
        BY <3>1, DigitIs
      <4>2. f[k].res = r + m * u /\ f[k].tmp_res = 0
        BY <2>4, <2>6, <3>1, <4>1, TurnIs
      <4>3. x = u
        BY <1>3, <2>2, <3>1, <4>1
      <4>4. val[k] \notin Digit
        BY <3>1, DigitIs
      <4>5. Share(val, k) = 0
        BY <4>4 DEF Share
      <4>6. total[k] = (r + m * x) + 0
        BY <1>1, <2>5, <4>5, Zenon
      <4>7. (r + m * u) + 0 * y = (r + m * u) + 0
        OBVIOUS
      <4> QED
        BY <4>2, <4>3, <4>6, <4>7, Zenon
    <3>2. CASE val[k] \in Digit
      <4>1. PICK d \in Nat : d = DigitValue(val[k])
        BY <3>2, DigitIs
      <4>2. f[k].res = r /\ f[k].tmp_res = m * 10 + d
        BY <2>4, <2>6, <3>2, <4>1, TurnIs
      <4>3. val[k] \notin Unit
        BY <3>2, DigitIs
      <4>4. x = 10 * y
        BY <1>3, <2>2, <2>3, <4>3
      <4>5. Share(val, k) = d * y
        BY <1>3, <2>3, <3>2, <4>1, Zenon DEF Share
      <4>6. total[k] = (r + m * x) + d * y
        BY <1>1, <2>5, <4>5, Zenon
      <4>7. r + (m * 10 + d) * y = (r + m * (10 * y)) + d * y
        OBVIOUS
      <4> QED
        BY <4>2, <4>4, <4>6, <4>7, Zenon
    <3> QED
      BY <2>6, <3>1, <3>2
  <2> QED
    BY <2>3, <2>7
<1>6. 0 .. L \subseteq S
  <2> HIDE DEF S
  <2> QED
    BY <1>4, <1>5, BoundedInduction
<1>7. f[L].res + f[L].tmp_res * w[L + 1] = total[L]
  BY <1>6
<1>8. PICK r \in Nat, m \in Nat : r = f[L].res /\ m = f[L].tmp_res
  <2>1. f[L] \in Acc
    BY <1>2
  <2> QED
    BY <2>1 DEF Acc
<1>9. r + m * 1 = r + m
  OBVIOUS
<1>10. f[L].res + f[L].tmp_res = total[L]
  BY <1>3, <1>7, <1>8, <1>9, Zenon
<1> QED
  BY <1>2, <1>10 DEF total

\* Whatever the string: weeks, days, hours and minutes each for the digits in front
\* of them.
LEMMA TimeIs ==
    ASSUME NEW val \in Seq(Digit \union Unit \union Other)
    PROVE  /\ translate_to_int(val) = Documented(val)
           /\ translate_to_int(val) # RET_ERR => translate_to_int(val) \in Nat
           /\ (\A k \in DOMAIN val : val[k] \notin Other) => translate_to_int(val) \in Nat
<1>1. PICK L \in Nat : L = Len(val) /\ DOMAIN val = 1 .. L
  <2>1. Len(val) \in Nat /\ DOMAIN val = 1 .. Len(val)
    BY LenProperties
  <2> QED
    BY <2>1, Zenon
<1>2. Range(val) \intersect Other # {} <=> \E k \in DOMAIN val : val[k] \in Other
  BY DEF Range
<1>3. CASE \E k \in DOMAIN val : val[k] \in Other
  BY <1>2, <1>3, Zenon DEF translate_to_int, Documented
<1>4. CASE ~\E k \in DOMAIN val : val[k] \in Other
  <2>1. val \in Seq(Digit \union Unit)
    <3>1. \A k \in 1 .. L : val[k] \in Digit \union Unit
      BY <1>1, <1>4, ElementOfSeq
    <3>2. val = [k \in 1 .. L |-> val[k]]
      BY <1>1, SeqDef
    <3> QED
      BY <3>1, <3>2, SeqDef
  <2> DEFINE total == CHOOSE f : Totals(f, val)
             loop == Loop(val)
  <2>2. translate_to_int(val) = loop[Len(val)].res + loop[Len(val)].tmp_res
    BY <1>2, <1>4, Zenon DEF translate_to_int, Loop, Loops
  <2>3. Documented(val) = total[Len(val)]
    BY <1>4, Zenon DEF Documented, Totals, Share
  <2>4. loop[L].res + loop[L].tmp_res = total[L]
    BY <1>1, <2>1, LoopTotals
  <2>5. total[L] \in Nat
    <3>1. total \in [0 .. L -> Nat]
      BY <1>1, <2>1, TotalIs, Zenon
    <3> HIDE DEF total
    <3> QED
      BY <1>1, <3>1
  <2> HIDE DEF total, loop
  <2> QED
    BY <1>1, <2>2, <2>3, <2>4, <2>5
<1> QED
  BY <1>3, <1>4

\* The numbers and times of a zone file are natural numbers.
LEMMA NumbersAre ==
    /\ DOMAIN Number \subseteq DOMAIN Spelling /\ DOMAIN Duration \subseteq DOMAIN Spelling
    /\ \A t \in DOMAIN Duration : Duration[t] \in Nat
    /\ \A t \in DOMAIN Number : Number[t] \in Nat
<1>1. DOMAIN Number \subseteq DOMAIN Spelling /\ DOMAIN Duration \subseteq DOMAIN Spelling
  BY DEF Number, Duration
<1>2. \A t \in DOMAIN Spelling : Spelling[t] \in Seq(Digit \union Unit \union Other)
  BY TokenAssumption
<1>3. ASSUME NEW t \in DOMAIN Duration PROVE Duration[t] \in Nat
  <2>1. /\ t \in DOMAIN Spelling /\ translate_to_int(Spelling[t]) # RET_ERR
        /\ Duration[t] = translate_to_int(Spelling[t])
    BY <1>3, Zenon DEF Duration
  <2> QED
    BY <1>2, <2>1, TimeIs
<1>4. ASSUME NEW t \in DOMAIN Number PROVE Number[t] \in Nat
  <2>1. t \in DOMAIN Spelling /\ is_digit(Spelling[t]) /\ Number[t] = Duration[t]
    BY <1>4, Zenon DEF Number
  <2>2. \A k \in DOMAIN Spelling[t] : Spelling[t][k] \notin Other
    BY <2>1, DigitIs, OtherAssumption DEF is_digit
  <2>3. translate_to_int(Spelling[t]) \in Nat
    BY <1>2, <2>1, <2>2, TimeIs
  <2>4. translate_to_int(Spelling[t]) # RET_ERR
    BY <2>3 DEF RET_ERR
  <2>5. t \in DOMAIN Duration
    BY <2>1, <2>4, Zenon DEF Duration
  <2> QED
    BY <1>3, <2>1, <2>5
<1> QED
  BY <1>1, <1>3, <1>4

-----------------------------------------------------------------------------
(* The TTL, as the code has it                                              *)

\* TTL is the last one given in a record line, else the default.
TtlOf(i) ==
    LET j == Last({k \in 1 .. i : GivesTtl(k)})
    IN  IF j = 0 THEN zone.default_ttl
        ELSE IF OwnTtl(j) = 0 THEN zone.default_ttl ELSE OwnTtl(j)

\* What is served is the record of a line, with that TTL.
ServedAsRead ==
    \A r \in served : \E i \in DOMAIN lines : IsRecordOf(r, i) /\ r.ttl = TtlOf(i)

-----------------------------------------------------------------------------
(* The types                                                                *)

\* At most MaxLines lines are read.
LEMMA CountType ==
    ASSUME TypeOK, NEW line \in Line, Fgets(line)
    PROVE  count' \in 0 .. MaxLines /\ read' \subseteq Line
<1>1. count \in 0 .. MaxLines
  BY DEF TypeOK
<1>2. count' = count + 1 /\ count < MaxLines
  BY DEF Fgets
<1>3. read' \subseteq Line
  BY DEF Fgets, TypeOK
<1> QED
  BY <1>1, <1>2, <1>3, MaxLinesAssumption

\* The header leaves the zone's information well typed.
LEMMA HeaderType ==
    ASSUME TypeOK, NEW line \in Line, ReadHeader(line)
    PROVE  TypeOK'
<1>1. zone' \in [default_ttl : Nat, soa : [Field -> Nat]]
  <2>1. CASE UNCHANGED zone
    BY <2>1 DEF TypeOK
  <2>2. CASE line[2] \in DOMAIN Number /\ zone' = [zone EXCEPT !.default_ttl = Number[line[2]]]
    <3>1. Number[line[2]] \in Nat
      BY <2>2, NumbersAre
    <3> QED
      BY <2>2, <3>1 DEF TypeOK
  <2> QED
    BY <2>1, <2>2 DEF ReadHeader
<1>2. state' \in {BEFORE_SOA, SERIAL}
  BY DEF ReadHeader
<1>3. SERIAL \in Field
  BY DEF Field, SERIAL, MINIMUM
<1>4. pc' \in {"fgets", "done"} /\ ret' \in {"RET_OK", "RET_ERR"}
  BY DEF ReadHeader, TypeOK, Fgets, Return
<1>5. count' \in 0 .. MaxLines /\ read' \subseteq Line
  BY CountType DEF ReadHeader
<1>6. UNCHANGED <<tokens, need_data, rr, redis, lines>>
  BY DEF ReadHeader
<1> QED
  BY <1>1, <1>2, <1>3, <1>4, <1>5, <1>6 DEF TypeOK, redis

\* So do the numbers of the SOA record, and the machine ends behind the last.
LEMMA SoaType ==
    ASSUME TypeOK, NEW line \in Line, ReadSoa(line)
    PROVE  TypeOK'
<1>1. zone' \in [default_ttl : Nat, soa : [Field -> Nat]]
  <2>1. CASE UNCHANGED zone
    BY <2>1 DEF TypeOK
  <2>2. CASE /\ Key(line) \intersect DOMAIN Duration # {}
             /\ zone' = [zone EXCEPT !.soa[state] = Duration[line[1]]]
    <3>1. line[1] \in DOMAIN Duration
      BY <2>2 DEF Key
    <3>2. Duration[line[1]] \in Nat
      BY <3>1, NumbersAre
    <3> QED
      BY <2>2, <3>2 DEF TypeOK
  <2> QED
    BY <2>1, <2>2 DEF ReadSoa
<1>2. state' \in {SOA_RR_END} \union Field
  <2>1. state \in Field /\ state' \in {state, state + 1}
    BY DEF ReadSoa
  <2> QED
    BY <2>1 DEF Field, SERIAL, MINIMUM, SOA_RR_END
<1>3. pc' \in {"fgets", "done"} /\ ret' \in {"RET_OK", "RET_ERR"}
  BY DEF ReadSoa, TypeOK, Fgets, Return
<1>4. count' \in 0 .. MaxLines /\ read' \subseteq Line
  BY CountType DEF ReadSoa
<1>5. UNCHANGED <<tokens, need_data, rr, redis, lines>>
  BY DEF ReadSoa
<1> QED
  BY <1>1, <1>2, <1>3, <1>4, <1>5 DEF TypeOK, redis

\* A record line starts with a record that is well typed but for its name.
LEMMA RecordType ==
    ASSUME TypeOK, NEW line \in Line, ReadRR(line)
    PROVE  TypeOK'
<1>1. line \in Seq(Token)
  BY TokenAssumption
<1>2. rr' \in RecordWith(Token \union Absolute \union {""})
  BY DEF ReadRR, Cleared, RecordWith, TypeOK
<1>3. lines' \in Seq(Seq(Token))
  <2>1. Append(lines, line) \in Seq(Seq(Token))
    BY <1>1, AppendType DEF TypeOK
  <2> QED
    BY <2>1 DEF ReadRR, TypeOK
<1>4. count' \in 0 .. MaxLines /\ read' \subseteq Line
  BY CountType DEF ReadRR
<1>5. /\ state' = NORMAL_RR /\ tokens' = line /\ need_data' = FALSE /\ pc' = "token"
      /\ UNCHANGED <<zone, served, listed, ret>> /\ saved' \in {saved, zone}
  BY DEF ReadRR
<1> QED
  BY <1>1, <1>2, <1>3, <1>4, <1>5 DEF TypeOK, redis

\* A token leaves the record well typed.
LEMMA TokenType ==
    ASSUME TypeOK, ReadToken
    PROVE  TypeOK'
<1> USE DEF TypeOK, redis, Return
<1> DEFINE token == Head(tokens)
<1>1. token \in Token /\ tokens' \in Seq(Token)
  <2>1. tokens \in Seq(Token) /\ tokens # <<>> /\ tokens' = Tail(tokens)
    BY DEF ReadToken
  <2> QED
    BY <2>1, HeadTailType
<1>2. rr' \in RecordWith(Token \union Absolute \union {""})
  <2>1. ASSUME token \in DOMAIN Number PROVE Number[token] \in Nat
    BY <2>1, NumbersAre
  <2>2. \/ rr' = rr
        \/ rr' = [rr EXCEPT !.type = "A"]
        \/ rr' = [rr EXCEPT !.rr_class = "IN"]
        \/ rr' = [rr EXCEPT !.name = token]
        \/ token \in DOMAIN Number /\ rr' = [rr EXCEPT !.ttl = Number[token]]
        \/ token \in Address /\ rr' = [rr EXCEPT !.data = token]
    BY DEF ReadToken
  <2> QED
    BY <1>1, <2>1, <2>2 DEF RecordWith
<1>3. pc' \in {"token", "done"} /\ ret' \in {"RET_OK", "RET_ERR"}
  BY DEF ReadToken
<1> QED
  BY <1>1, <1>2, <1>3 DEF ReadToken

\* The name under which a record is stored ends in a dot.
LEMMA ExpandedType ==
    ASSUME TypeOK, NEW name \in Expanded, name # ""
    PROVE  name \in Absolute
BY TokenAssumption DEF Expanded, TypeOK, RecordWith

\* The end of a line leaves the record well typed.
LEMMA EndType ==
    ASSUME TypeOK, EndOfLine
    PROVE  TypeOK'
<1>1. CASE UNCHANGED rr /\ pc' = "fgets"
  BY <1>1 DEF EndOfLine, TypeOK, redis
<1>2. ASSUME NEW name \in Expanded,
             rr' = [rr EXCEPT !.name = name,
                              !.ttl = IF @ = 0 THEN zone.default_ttl ELSE @],
             pc' = IF name = "" THEN "fgets" ELSE "append"
      PROVE  TypeOK'
  <2>1. name \in Token \union Absolute \union {""}
    BY ExpandedType
  <2>2. rr' \in RecordWith({name})
    BY <1>2 DEF TypeOK, RecordWith
  <2>3. rr' \in RecordWith(Token \union Absolute \union {""})
    BY <2>1, <2>2 DEF RecordWith
  <2>4. name # "" => rr' \in RR
    BY <2>2, ExpandedType DEF RR, RecordWith
  <2> QED
    BY <1>2, <2>3, <2>4 DEF EndOfLine, TypeOK, redis
<1> QED
  BY <1>1, <1>2 DEF EndOfLine

\* The inductive step.
LEMMA TypeStep == TypeOK /\ [Next]_vars => TypeOK'
<1> SUFFICES ASSUME TypeOK, [Next]_vars PROVE TypeOK'
  OBVIOUS
<1>1. CASE AppendRR
  BY <1>1 DEF AppendRR, TypeOK, parser, Return
<1>2. CASE ListName
  BY <1>2 DEF ListName, TypeOK, parser, Return, RR, RecordWith
<1>3. CASE Open \/ EndOfFile
  BY <1>3 DEF Open, EndOfFile, TypeOK, parser, redis, Return
<1>4. CASE UNCHANGED vars
  BY <1>4 DEF vars, redis, TypeOK, RR, RecordWith
<1> QED
  BY <1>1, <1>2, <1>3, <1>4, HeaderType, SoaType, RecordType, TokenType, EndType DEF Next

\* The parser starts in a well-typed state.
LEMMA TypeInit == Init => TypeOK
<1> SUFFICES ASSUME Init PROVE TypeOK
  OBVIOUS
<1>1. tokens \in Seq(Token)
  BY EmptyType DEF Init
<1>2. lines \in Seq(Seq(Token))
  BY EmptyType DEF Init
<1>3. rr \in RecordWith(Token \union Absolute \union {""})
  BY DEF Init, RecordWith
<1>4. {zone, saved} \subseteq [default_ttl : Nat, soa : [Field -> Nat]]
  <2>1. zone \in [default_ttl : Nat, soa : [Field -> Nat]]
    BY DEF Init
  <2>2. saved = zone
    BY DEF Init
  <2> QED
    BY <2>1, <2>2
<1>5. count \in 0 .. MaxLines
  <2>1. count = 0
    BY DEF Init
  <2> QED
    BY <2>1, MaxLinesAssumption
<1>6. pc = "fopen" /\ state = BEFORE_SOA /\ need_data = FALSE /\ ret = "RET_ERR"
  BY DEF Init
<1>7. served = {} /\ listed = {} /\ read = {}
  BY DEF Init
<1> QED
  BY <1>1, <1>2, <1>3, <1>4, <1>5, <1>6, <1>7 DEF TypeOK

\* Every variable keeps its type: what is stored has an absolute name, whatever
\* the file, and the machine of parse_zone_file() keeps to its states.
THEOREM TypeCorrect == Spec => []TypeOK
BY TypeInit, TypeStep, PTL DEF Spec

-----------------------------------------------------------------------------
\* The name that is to be listed is that of a record that has been stored.
Stored == pc = "list" => rr \in served

\* The inductive step.
LEMMA StoredStep ==
    Stored /\ ListedIsServed /\ [Next]_vars => Stored' /\ ListedIsServed'
<1> SUFFICES ASSUME Stored, ListedIsServed, [Next]_vars PROVE Stored' /\ ListedIsServed'
  OBVIOUS
<1> USE DEF Stored, ListedIsServed, parser, redis, Return
<1>1. CASE Open \/ EndOfFile
  BY <1>1 DEF Open, EndOfFile
<1>2. ASSUME NEW line \in Line, ReadHeader(line) \/ ReadSoa(line) \/ ReadRR(line)
      PROVE  Stored' /\ ListedIsServed'
  BY <1>2 DEF ReadHeader, ReadSoa, ReadRR, Fgets
<1>3. CASE ReadToken \/ EndOfLine
  BY <1>3 DEF ReadToken, EndOfLine
<1>4. CASE AppendRR
  BY <1>4 DEF AppendRR
<1>5. CASE ListName
  BY <1>5 DEF ListName
<1>6. CASE UNCHANGED vars
  BY <1>6 DEF vars
<1> QED
  BY <1>1, <1>2, <1>3, <1>4, <1>5, <1>6 DEF Next

\* No name is listed before a record is served under it, whichever call of the
\* store fails and whether the one that fails has had its effect or not.
THEOREM ListedNamesAreServed == Spec => []ListedIsServed
<1>1. Init => Stored /\ ListedIsServed
  BY DEF Init, Stored, ListedIsServed
<1> QED
  BY <1>1, StoredStep, PTL DEF Spec

-----------------------------------------------------------------------------
(* That a record which is served is the record of a line: what one RR_INFO  *)
(* holds, between the lines and inside one, is what the lines so far give.  *)

\* The name that a token comes to
Abs(name) == IF name \in DOMAIN Full THEN Full[name] ELSE name

\* What rr has from the first m lines: name, class and TTL, which lines inherit
Eff(ttl) == IF ttl = 0 THEN zone.default_ttl ELSE ttl
Carries(m) ==
    /\ Abs(rr.name) = NameOf(m)
    /\ rr.rr_class = ClassOf(m)
    /\ Eff(rr.ttl) = TtlOf(m)

\* The line that is being read, and how many of its tokens have been
n == Len(lines)
Consumed == Len(lines[n]) - Len(tokens)

\* Of the first c tokens of that line, those that are not its name, and the numbers
Seen(c) == {lines[n][k] : k \in 2 .. c} \union (RRKey \intersect {lines[n][1]})
SeenNumbers(c) == {k \in 2 .. c : lines[n][k] \in DOMAIN Number}

\* What rr has after c tokens, the first one among them
Half(c) ==
    /\ Abs(rr.name) = NameOf(n)
    /\ rr.rr_class = IF "IN" \in Seen(c) THEN "IN" ELSE ClassOf(n - 1)
    /\ Eff(rr.ttl) = IF SeenNumbers(c) = {} THEN TtlOf(n - 1)
                     ELSE Eff(Number[lines[n][Last(SeenNumbers(c))]])
    /\ rr.type = IF "A" \in Seen(c) THEN "A" ELSE None
    /\ rr.data \in Address => rr.data \in Seen(c)
    /\ rr.data \notin Address => Seen(c) \intersect Address = {}

\* The maximum of a set of numbers is Last of it.
LEMMA LastIs ==
    ASSUME NEW S \in SUBSET Nat, NEW i \in S, \A j \in S : j <= i
    PROVE  Last(S) = i
<1>1. \A k \in S : (\A j \in S : j <= k) => k = i
  OBVIOUS
<1>2. Last(S) = CHOOSE k \in S : \A j \in S : j <= k
  BY DEF Last
<1> QED
  BY <1>1, <1>2

\* Of finitely many numbers one is the greatest: where the numbers from x on are as
\* few as they can be, it is x.
LEMMA LastExists ==
    ASSUME NEW m \in Nat, NEW S \in SUBSET (1 .. m), S # {}
    PROVE  Last(S) \in S /\ \A j \in S : j <= Last(S)
<1> DEFINE From(x) == {y \in S : x <= y}
           T == {From(x) : x \in S}
<1>1. IsFiniteSet(S)
  <2>1. \A s \in S : s <= m
    OBVIOUS
  <2>2. S \in SUBSET Nat
    OBVIOUS
  <2> QED
    BY <2>1, <2>2, FS_BoundedSetOfNaturals
<1>2. T \subseteq FiniteSubsetsOf(S) /\ T # {}
  <2>1. FiniteSubsetsOf(S) = SUBSET S
    BY <1>1, FS_FiniteSubsetsOfFinite
  <2>2. T \subseteq SUBSET S
    OBVIOUS
  <2>3. PICK x \in S : TRUE
    OBVIOUS
  <2>4. From(x) \in T
    OBVIOUS
  <2> QED
    BY <2>1, <2>2, <2>4
<1>3. PICK U \in T : \A V \in T : ~(<<V, U>> \in StrictSubsetOrdering(S))
  <2>1. IsWellFoundedOn(StrictSubsetOrdering(S), FiniteSubsetsOf(S))
    BY FS_StrictSubsetOrderingWellFounded
  <2> HIDE DEF T
  <2> DEFINE R == StrictSubsetOrdering(S)
             F == FiniteSubsetsOf(S)
  <2>2. IsWellFoundedOn(R, F) /\ T \subseteq F /\ T # {}
    BY <2>1, <1>2
  <2> HIDE DEF R, F
  <2>3. \E U \in T : \A V \in T : ~(<<V, U>> \in R)
    BY <2>2, WFMin
  <2> QED
    BY <2>3 DEF R
<1>4. PICK x \in S : U = From(x)
  BY <1>3
<1>5. ASSUME NEW y \in S PROVE y <= x
  <2>1. SUFFICES ASSUME ~(y <= x) PROVE FALSE
    OBVIOUS
  <2>2. x <= y /\ ~(y <= x) /\ \A z \in S : y <= z => x <= z
    BY <2>1
  <2>3. From(y) \subseteq From(x) /\ x \in From(x) /\ x \notin From(y)
    <3>1. From(y) \subseteq From(x)
      BY <2>2
    <3>2. x <= x
      OBVIOUS
    <3>3. x \in From(x)
      BY <3>2
    <3>4. x \notin From(y)
      BY <2>2
    <3> QED
      BY <3>1, <3>3, <3>4
  <2>4. From(y) \in T /\ From(x) \in SUBSET S /\ From(y) \in SUBSET S
    OBVIOUS
  <2>5. <<From(y), From(x)>> \in StrictSubsetOrdering(S)
    <3> HIDE DEF From
    <3> QED
      BY <2>3, <2>4 DEF StrictSubsetOrdering
  <2> HIDE DEF T, From
  <2> QED
    BY <1>3, <1>4, <2>4, <2>5
<1> QED
  <2>1. S \in SUBSET Nat
    OBVIOUS
  <2> QED
    BY <1>5, <2>1, LastIs

\* Of the first m lines, those with a property: the last one is m or one before.
LEMMA LastUpTo ==
    ASSUME NEW m \in Nat \ {0}, NEW T \in SUBSET Nat
    PROVE  /\ m \in T => Last({k \in 1 .. m : k \in T}) = m
           /\ m \notin T => {k \in 1 .. m : k \in T} = {k \in 1 .. m - 1 : k \in T}
<1>1. ASSUME m \in T PROVE Last({k \in 1 .. m : k \in T}) = m
  <2> DEFINE S == {k \in 1 .. m : k \in T}
  <2>1. S \in SUBSET Nat /\ m \in S /\ \A j \in S : j <= m
    BY <1>1
  <2> HIDE DEF S
  <2>2. Last(S) = m
    BY <2>1, LastIs
  <2> QED
    BY <2>2 DEF S
<1>2. ASSUME m \notin T PROVE {k \in 1 .. m : k \in T} = {k \in 1 .. m - 1 : k \in T}
  BY <1>2
<1> QED
  BY <1>1, <1>2

\* What the first m lines give, by the m-th and what the lines before give
LEMMA NameOfNext ==
    ASSUME NEW m \in Nat \ {0}
    PROVE  NameOf(m) = IF lines[m][1] \notin RRKey THEN Abs(lines[m][1]) ELSE NameOf(m - 1)
<1> DEFINE T == {k \in Nat : lines[k][1] \notin RRKey}
           S(i) == {k \in 1 .. i : lines[k][1] \notin RRKey}
<1>1. \A i \in Nat : S(i) = {k \in 1 .. i : k \in T}
  OBVIOUS
<1>2. m \in T <=> lines[m][1] \notin RRKey
  OBVIOUS
<1>3. m - 1 \in Nat /\ T \in SUBSET Nat
  OBVIOUS
<1>4. CASE lines[m][1] \notin RRKey
  <2>1. Last(S(m)) = m
    BY <1>1, <1>2, <1>3, <1>4, LastUpTo
  <2> QED
    BY <2>1, <1>4 DEF NameOf, Abs
<1>5. CASE lines[m][1] \in RRKey
  <2>1. S(m) = S(m - 1)
    BY <1>1, <1>2, <1>3, <1>5, LastUpTo
  <2> QED
    BY <2>1, <1>5 DEF NameOf
<1> QED
  BY <1>4, <1>5

LEMMA ClassOfNext ==
    ASSUME NEW m \in Nat \ {0}
    PROVE  ClassOf(m) = IF "IN" \in Rest(m) THEN "IN" ELSE ClassOf(m - 1)
<1>1. \A k \in 1 .. m : k = m \/ k \in 1 .. m - 1
  OBVIOUS
<1>2. 1 .. m - 1 \subseteq 1 .. m /\ m \in 1 .. m
  OBVIOUS
<1> QED
  BY <1>1, <1>2 DEF ClassOf

LEMMA TtlOfNext ==
    ASSUME NEW m \in Nat \ {0}
    PROVE  TtlOf(m) = IF GivesTtl(m) THEN Eff(OwnTtl(m)) ELSE TtlOf(m - 1)
<1> DEFINE T == {k \in Nat : GivesTtl(k)}
           S(i) == {k \in 1 .. i : GivesTtl(k)}
<1>1. \A i \in Nat : S(i) = {k \in 1 .. i : k \in T}
  OBVIOUS
<1>2. m \in T <=> GivesTtl(m)
  OBVIOUS
<1>3. m - 1 \in Nat /\ T \in SUBSET Nat
  OBVIOUS
<1>4. CASE GivesTtl(m)
  <2>1. Last(S(m)) = m
    BY <1>1, <1>2, <1>3, <1>4, LastUpTo
  <2> QED
    BY <2>1, <1>4 DEF TtlOf, Eff
<1>5. CASE ~GivesTtl(m)
  <2>1. S(m) = S(m - 1)
    BY <1>1, <1>2, <1>3, <1>5, LastUpTo
  <2> QED
    BY <2>1, <1>5 DEF TtlOf
<1> QED
  BY <1>4, <1>5

\* Lines are only added at the end: what the lines up to the i-th give stays.
LEMMA LinesStay ==
    ASSUME \A k \in 1 .. Len(lines) : lines'[k] = lines[k],
           Len(lines) \in Nat, NEW i \in 0 .. Len(lines)
    PROVE  /\ NameOf(i)' = NameOf(i)
           /\ ClassOf(i)' = ClassOf(i)
           /\ zone'.default_ttl = zone.default_ttl => TtlOf(i)' = TtlOf(i)
           /\ i # 0 => Rest(i)' = Rest(i)
<1>1. \A k \in 1 .. i : lines'[k] = lines[k] /\ Rest(k)' = Rest(k)
  <2>1. \A k \in 1 .. i : lines'[k] = lines[k]
    OBVIOUS
  <2> QED
    BY <2>1 DEF Rest
<1>2. NameOf(i)' = NameOf(i)
  <2> DEFINE S == {k \in 1 .. i : lines[k][1] \notin RRKey}
  <2>1. S' = S
    BY <1>1
  <2>2. Last(S)' = Last(S)
    <3> HIDE DEF S
    <3> QED
      BY <2>1 DEF Last
  <2>3. S # {} => Last(S) \in 1 .. i
    <3>1. S \in SUBSET (1 .. i) /\ i \in Nat
      OBVIOUS
    <3> HIDE DEF S
    <3> QED
      BY <3>1, LastExists
  <2>4. S = {} => Last(S) = 0
    BY DEF Last
  <2>5. CASE Last(S) = 0
    BY <2>2, <2>5 DEF NameOf
  <2>6. CASE Last(S) # 0
    <3>1. lines'[Last(S)] = lines[Last(S)]
      BY <1>1, <2>3, <2>4, <2>6
    <3> QED
      BY <2>2, <2>6, <3>1 DEF NameOf
  <2> QED
    BY <2>5, <2>6
<1>3. ClassOf(i)' = ClassOf(i)
  BY <1>1 DEF ClassOf
<1>4. ASSUME zone'.default_ttl = zone.default_ttl PROVE TtlOf(i)' = TtlOf(i)
  <2>1. \A k \in 1 .. i : Numbers(k)' = Numbers(k)
    BY <1>1 DEF Numbers
  <2>2. \A k \in 1 .. i : GivesTtl(k)' = GivesTtl(k) /\ OwnTtl(k)' = OwnTtl(k)
    <3>1. TAKE k \in 1 .. i
    <3>2. Numbers(k)' = Numbers(k)
      BY <2>1
    <3>3. Last(Numbers(k))' = Last(Numbers(k))
      BY <3>2 DEF Last
    <3> QED
      BY <1>1, <3>2, <3>3 DEF GivesTtl, OwnTtl
  <2> DEFINE S == {k \in 1 .. i : GivesTtl(k)}
  <2>3. S' = S
    BY <2>2
  <2>4. Last(S)' = Last(S)
    <3> HIDE DEF S
    <3> QED
      BY <2>3 DEF Last
  <2>5. S # {} => Last(S) \in 1 .. i
    <3>1. S \in SUBSET (1 .. i) /\ i \in Nat
      OBVIOUS
    <3> HIDE DEF S
    <3> QED
      BY <3>1, LastExists
  <2>6. S = {} => Last(S) = 0
    BY DEF Last
  <2>7. CASE Last(S) = 0
    BY <1>4, <2>4, <2>7 DEF TtlOf
  <2>8. CASE Last(S) # 0
    <3>1. OwnTtl(Last(S))' = OwnTtl(Last(S))
      BY <2>2, <2>4, <2>5, <2>6, <2>8
    <3> QED
      BY <1>4, <2>4, <2>8, <3>1 DEF TtlOf
  <2> QED
    BY <2>7, <2>8
<1> QED
  BY <1>1, <1>2, <1>3, <1>4

\* Where parse_rr() and the loop around it are, and what rr has there: between two
\* lines, before the first token of one, inside one, and with the finished record.
Header ==
    state = BEFORE_SOA =>
        lines = <<>> /\ served = {} /\ rr.ttl = 0 /\ pc \in {"fopen", "fgets", "done"}
Blank == pc = "token" /\ tokens = <<>> /\ ~need_data
Between == pc \in {"fopen", "fgets"} \/ Blank => Carries(n)
Begun ==
    pc = "token" /\ tokens # <<>> /\ ~need_data =>
        n # 0 /\ tokens = lines[n] /\ Carries(n - 1) /\ rr.type = None /\ rr.data = None
Within ==
    pc = "token" /\ need_data =>
        /\ n # 0
        /\ Len(tokens) < Len(lines[n])
        /\ \A k \in 1 .. Len(tokens) : tokens[k] = lines[n][Consumed + k]
        /\ Half(Consumed)
Finished ==
    pc \in {"append", "list"} =>
        n # 0 /\ Carries(n) /\ IsRecordOf(rr, n) /\ rr.ttl = TtlOf(n)

\* The lines are sequences of tokens.
LEMMA ElementType ==
    ASSUME NEW S, NEW s \in Seq(S)
    PROVE  Len(s) \in Nat /\ DOMAIN s = 1 .. Len(s) /\ \A i \in 1 .. Len(s) : s[i] \in S
OBVIOUS

LEMMA LineTypes ==
    ASSUME TypeOK
    PROVE  /\ n \in Nat /\ DOMAIN lines = 1 .. n
           /\ \A i \in 1 .. n : lines[i] \in Seq(Token) /\ Len(lines[i]) \in Nat
<1>1. lines \in Seq(Seq(Token))
  BY DEF TypeOK
<1>2. n \in Nat /\ DOMAIN lines = 1 .. n /\ \A i \in 1 .. n : lines[i] \in Seq(Token)
  BY <1>1, ElementType DEF n
<1>3. \A i \in 1 .. n : Len(lines[i]) \in Nat
  BY <1>2, ElementType
<1> QED
  BY <1>2, <1>3

\* As long as neither changes, lines and zone give the same.
LEMMA SameLines ==
    ASSUME UNCHANGED <<lines, zone>>
    PROVE  /\ n' = n
           /\ \A i : /\ NameOf(i)' = NameOf(i) /\ ClassOf(i)' = ClassOf(i)
                     /\ TtlOf(i)' = TtlOf(i) /\ Rest(i)' = Rest(i)
           /\ \A c : Seen(c)' = Seen(c) /\ SeenNumbers(c)' = SeenNumbers(c)
           /\ \A t : Eff(t)' = Eff(t)
<1>1. n' = n
  BY DEF n
<1>2. ASSUME NEW i PROVE Rest(i)' = Rest(i) /\ NameOf(i)' = NameOf(i)
  BY DEF Rest, NameOf, Last
<1>3. ASSUME NEW i PROVE ClassOf(i)' = ClassOf(i)
  BY <1>2 DEF ClassOf
<1>4. ASSUME NEW i PROVE TtlOf(i)' = TtlOf(i)
  BY DEF TtlOf, GivesTtl, OwnTtl, Numbers, Last
<1>5. ASSUME NEW c PROVE Seen(c)' = Seen(c) /\ SeenNumbers(c)' = SeenNumbers(c)
  BY <1>1 DEF Seen, SeenNumbers
<1>6. ASSUME NEW t PROVE Eff(t)' = Eff(t)
  BY DEF Eff
<1> QED
  BY <1>1, <1>2, <1>3, <1>4, <1>5, <1>6

\* The head of the tokens, and where the others are afterwards
LEMMA HeadAndTail ==
    ASSUME NEW s \in Seq(Token), s # <<>>
    PROVE  /\ Head(s) = s[1]
           /\ Len(Tail(s)) = Len(s) - 1
           /\ \A k \in 1 .. Len(Tail(s)) : Tail(s)[k] = s[k + 1]
           /\ Len(s) \in Nat \ {0}
OBVIOUS

\* A type, a class or an address is no key's name but its own: what the constants say
LEMMA Disjoint ==
    /\ RRKey \intersect Address = {} /\ RRKey \intersect DOMAIN Number = {}
    /\ DOMAIN Number \intersect Address = {}
    /\ Invalid \notin DOMAIN Number \union Address \union RRKey
    /\ None \notin Address
BY TokenAssumption, NumbersAre DEF RRKey, Invalid, None

\* A name that has been made absolute stays as it is.
LEMMA AbsTwice ==
    ASSUME TypeOK, NEW name \in Expanded
    PROVE  Abs(name) = Abs(rr.name) /\ (name # "" => name = Abs(name))
<1>1. \A t \in DOMAIN Full : Full[t] \in Absolute \ {""}
  BY TokenAssumption
<1>2. DOMAIN Full = (Token \ Absolute) \union {""}
  BY TokenAssumption
<1> QED
  BY <1>1, <1>2 DEF Expanded, Abs

\* The first token of a line
LEMMA FirstToken ==
    ASSUME TypeOK, Begun, ReadToken, ~need_data, pc' = "token"
    PROVE  Within'
<1>1. /\ n # 0 /\ tokens = lines[n] /\ tokens # <<>> /\ Carries(n - 1)
      /\ rr.type = None /\ rr.data = None
  BY DEF Begun, ReadToken
<1>2. n \in Nat \ {0} /\ lines[n] \in Seq(Token)
  BY <1>1, LineTypes
<1>3. tokens' = Tail(lines[n]) /\ need_data' = TRUE /\ UNCHANGED <<lines, zone>>
  BY <1>1 DEF ReadToken
<1>4. n' = n
  BY <1>3, SameLines
<1>5. /\ Len(tokens') = Len(lines[n]) - 1 /\ Len(lines[n]) \in Nat \ {0}
      /\ \A k \in 1 .. Len(tokens') : tokens'[k] = lines[n][1 + k]
  BY <1>1, <1>2, <1>3, HeadAndTail
<1>6. Consumed' = 1
  BY <1>3, <1>4, <1>5 DEF Consumed
<1> DEFINE token == lines[n][1]
<1>7. Head(tokens) = token
  BY <1>1, <1>2, HeadAndTail
<1>8. Seen(1) = RRKey \intersect {token} /\ SeenNumbers(1) = {}
  BY DEF Seen, SeenNumbers
<1>9. /\ Seen(1)' = Seen(1) /\ SeenNumbers(1)' = SeenNumbers(1)
      /\ NameOf(n)' = NameOf(n) /\ ClassOf(n - 1)' = ClassOf(n - 1)
      /\ TtlOf(n - 1)' = TtlOf(n - 1) /\ \A t : Eff(t)' = Eff(t)
  BY <1>3, SameLines
<1>10. /\ Abs(rr.name) = NameOf(n - 1) /\ rr.rr_class = ClassOf(n - 1)
       /\ Eff(rr.ttl) = TtlOf(n - 1)
  BY <1>1 DEF Carries
<1>11. \/ token = "A" /\ rr' = [rr EXCEPT !.type = "A"]
       \/ token = "IN" /\ rr' = [rr EXCEPT !.rr_class = "IN"]
       \/ token \notin RRKey /\ rr' = [rr EXCEPT !.name = token]
  BY <1>7 DEF ReadToken, Return
<1>12. NameOf(n) = IF token \notin RRKey THEN Abs(token) ELSE NameOf(n - 1)
  BY <1>2, NameOfNext
<1>13. Half(1)'
  <2>1. /\ Abs(rr'.name) = NameOf(n)
        /\ rr'.rr_class = IF "IN" \in Seen(1) THEN "IN" ELSE ClassOf(n - 1)
        /\ Eff(rr'.ttl) = TtlOf(n - 1)
        /\ rr'.type = IF "A" \in Seen(1) THEN "A" ELSE None
        /\ rr'.data = None
    BY <1>1, <1>8, <1>10, <1>11, <1>12 DEF RRKey, TypeOK, RecordWith
  <2>2. Abs(rr.name)' = Abs(rr'.name)
    BY DEF Abs
  <2>3. Eff(rr.ttl)' = Eff(rr'.ttl)
    BY <1>3 DEF Eff
  <2>4. Seen(1) \intersect Address = {} /\ None \notin Address
    BY <1>8, Disjoint
  <2> QED
    BY <1>4, <1>8, <1>9, <2>1, <2>2, <2>3, <2>4 DEF Half
<1> QED
  BY <1>1, <1>4, <1>3, <1>5, <1>6, <1>13 DEF Within

\* One more number in a line: it is the last one.
LEMMA SeenNext ==
    ASSUME NEW c \in Nat \ {0}, n \in Nat
    PROVE  LET token == lines[n][c + 1] IN
           /\ Seen(c + 1) = Seen(c) \union {token}
           /\ token \in DOMAIN Number =>
                 SeenNumbers(c + 1) # {} /\ Last(SeenNumbers(c + 1)) = c + 1
           /\ token \notin DOMAIN Number => SeenNumbers(c + 1) = SeenNumbers(c)
<1> DEFINE token == lines[n][c + 1]
<1>1. 2 .. c + 1 = (2 .. c) \union {c + 1}
  OBVIOUS
<1>2. Seen(c + 1) = Seen(c) \union {token}
  BY <1>1 DEF Seen
<1>3. ASSUME token \in DOMAIN Number
      PROVE  SeenNumbers(c + 1) # {} /\ Last(SeenNumbers(c + 1)) = c + 1
  <2> DEFINE S == SeenNumbers(c + 1)
  <2>1. S \in SUBSET Nat /\ c + 1 \in S /\ \A j \in S : j <= c + 1
    BY <1>3 DEF SeenNumbers
  <2> HIDE DEF S
  <2>2. Last(S) = c + 1
    BY <2>1, LastIs
  <2> QED
    BY <2>1, <2>2 DEF S
<1>4. ASSUME token \notin DOMAIN Number PROVE SeenNumbers(c + 1) = SeenNumbers(c)
  BY <1>1, <1>4 DEF SeenNumbers
<1> QED
  BY <1>2, <1>3, <1>4

\* A token behind the first
LEMMA NextToken ==
    ASSUME TypeOK, Within, ReadToken, need_data, pc' = "token"
    PROVE  Within'
<1>0. PICK c : c = Consumed
  OBVIOUS
<1> DEFINE token == lines[n][c + 1]
<1>1. /\ n # 0 /\ pc = "token" /\ tokens # <<>> /\ Len(tokens) < Len(lines[n])
      /\ \A k \in 1 .. Len(tokens) : tokens[k] = lines[n][c + k]
      /\ Half(c)
  BY <1>0 DEF Within, ReadToken
<1>2. n \in Nat \ {0} /\ Len(lines[n]) \in Nat /\ tokens \in Seq(Token)
  <2>1. n \in Nat \ {0} /\ n \in 1 .. n
    BY <1>1, LineTypes
  <2>2. Len(lines[n]) \in Nat
    BY <2>1, LineTypes
  <2> QED
    BY <2>1, <2>2 DEF TypeOK
<1>3. tokens' = Tail(tokens) /\ need_data' = TRUE /\ UNCHANGED <<lines, zone>>
  BY DEF ReadToken
<1>4. n' = n
  BY <1>3, SameLines
<1>5. /\ Head(tokens) = tokens[1]
      /\ Len(tokens') = Len(tokens) - 1
      /\ \A k \in 1 .. Len(tokens') : tokens'[k] = tokens[k + 1]
      /\ Len(tokens) \in Nat \ {0}
  BY <1>1, <1>2, <1>3, HeadAndTail
<1>6. c \in Nat \ {0} /\ Consumed' = c + 1
  BY <1>0, <1>1, <1>2, <1>3, <1>4, <1>5 DEF Consumed
<1>7. Head(tokens) = token
  BY <1>1, <1>5
<1>8. \A k \in 1 .. Len(tokens') : tokens'[k] = lines[n][(c + 1) + k]
  <2>1. TAKE k \in 1 .. Len(tokens')
  <2>2. k + 1 \in 1 .. Len(tokens) /\ c + (k + 1) = (c + 1) + k
    BY <1>5, <1>6
  <2> QED
    BY <1>1, <1>5, <2>2
<1>9. /\ Seen(c + 1)' = Seen(c + 1) /\ SeenNumbers(c + 1)' = SeenNumbers(c + 1)
      /\ NameOf(n)' = NameOf(n) /\ ClassOf(n - 1)' = ClassOf(n - 1)
      /\ TtlOf(n - 1)' = TtlOf(n - 1) /\ \A t : Eff(t)' = Eff(t)
  BY <1>3, SameLines
<1>10. /\ Seen(c + 1) = Seen(c) \union {token}
       /\ token \in DOMAIN Number =>
             SeenNumbers(c + 1) # {} /\ Last(SeenNumbers(c + 1)) = c + 1
       /\ token \notin DOMAIN Number => SeenNumbers(c + 1) = SeenNumbers(c)
  BY <1>2, <1>6, SeenNext
<1>11. \/ token = "A" /\ rr' = [rr EXCEPT !.type = "A"]
       \/ token = "IN" /\ rr' = [rr EXCEPT !.rr_class = "IN"]
       \/ /\ token \in DOMAIN Number /\ token \notin RRKey
          /\ rr' = [rr EXCEPT !.ttl = Number[token]]
       \/ /\ token \notin DOMAIN Number \union RRKey /\ token \in Address
          /\ rr' = [rr EXCEPT !.data = token]
  BY <1>7 DEF ReadToken, Return
<1>12. lines'[n'][Last(SeenNumbers(c + 1))'] = lines[n][Last(SeenNumbers(c + 1))]
  <2> DEFINE S == SeenNumbers(c + 1)
  <2>1. S' = S
    BY <1>9
  <2>2. Last(S)' = Last(S)
    <3> HIDE DEF S
    <3> QED
      BY <2>1 DEF Last
  <2> QED
    BY <1>3, <1>4, <2>2
<1>13. Half(c + 1)'
  <2>1. /\ rr'.name = rr.name
        /\ rr'.rr_class = IF "IN" \in Seen(c + 1) THEN "IN" ELSE ClassOf(n - 1)
        /\ rr'.type = IF "A" \in Seen(c + 1) THEN "A" ELSE None
    BY <1>1, <1>10, <1>11, Disjoint DEF Half, RRKey, TypeOK, RecordWith
  <2>2. Eff(rr'.ttl) = IF SeenNumbers(c + 1) = {} THEN TtlOf(n - 1)
                       ELSE Eff(Number[lines[n][Last(SeenNumbers(c + 1))]])
    <3>1. CASE token \in DOMAIN Number
      <4>1. rr'.ttl = Number[token]
        BY <1>11, <3>1, Disjoint DEF RRKey, TypeOK, RecordWith
      <4> QED
        BY <1>10, <3>1, <4>1
    <3>2. CASE token \notin DOMAIN Number
      <4>1. rr'.ttl = rr.ttl
        BY <1>11, <3>2 DEF TypeOK, RecordWith
      <4> QED
        BY <1>1, <1>10, <3>2, <4>1 DEF Half
    <3> QED
      BY <3>1, <3>2
  <2>3. /\ rr'.data \in Address => rr'.data \in Seen(c + 1)
        /\ rr'.data \notin Address => Seen(c + 1) \intersect Address = {}
    <3>1. CASE token \in Address
      <4>1. rr'.data = token
        BY <1>11, <3>1, Disjoint DEF RRKey, TypeOK, RecordWith
      <4> QED
        BY <1>10, <3>1, <4>1
    <3>2. CASE token \notin Address
      <4>1. rr'.data = rr.data
        BY <1>11, <3>2 DEF TypeOK, RecordWith
      <4> QED
        BY <1>1, <1>10, <3>2, <4>1 DEF Half
    <3> QED
      BY <3>1, <3>2
  <2>4. Abs(rr.name)' = Abs(rr'.name) /\ Eff(rr.ttl)' = Eff(rr'.ttl)
    BY <1>3 DEF Abs, Eff
  <2>5. Abs(rr'.name) = NameOf(n)
    BY <1>1, <2>1 DEF Half
  <2>6. Eff(Number[lines[n][Last(SeenNumbers(c + 1))]])' =
            Eff(Number[lines[n][Last(SeenNumbers(c + 1))]])
    BY <1>3, <1>4, <1>12 DEF Eff
  <2> QED
    BY <1>4, <1>9, <2>1, <2>2, <2>3, <2>4, <2>5, <2>6 DEF Half
<1>14. Len(tokens') < Len(lines[n])
  BY <1>1, <1>2, <1>5
<1> QED
  BY <1>1, <1>3, <1>4, <1>6, <1>8, <1>13, <1>14 DEF Within

\* When the tokens of a line are used up, rr has what the line gives.
LEMMA WholeLine ==
    ASSUME TypeOK, Within, pc = "token", need_data, tokens = <<>>
    PROVE  /\ n \in Nat \ {0} /\ Carries(n)
           /\ rr.type = IF "A" \in Rest(n) THEN "A" ELSE None
           /\ rr.data \in Address => rr.data \in Rest(n)
           /\ rr.data \notin Address => Rest(n) \intersect Address = {}
<1>1. n # 0 /\ Half(Consumed)
  BY DEF Within
<1>2. n \in Nat \ {0} /\ n \in 1 .. n
  BY <1>1, LineTypes
<1>3. Consumed = Len(lines[n])
  <2>1. Len(lines[n]) \in Nat
    BY <1>2, LineTypes
  <2> QED
    BY <2>1 DEF Consumed
<1>4. Seen(Consumed) = Rest(n) /\ SeenNumbers(Consumed) = Numbers(n)
  BY <1>3 DEF Seen, Rest, SeenNumbers, Numbers
<1>5. Half(Len(lines[n]))
  BY <1>1, <1>3
<1>6. TtlOf(n) = IF GivesTtl(n) THEN Eff(OwnTtl(n)) ELSE TtlOf(n - 1)
  BY <1>2, TtlOfNext
<1>7. ClassOf(n) = IF "IN" \in Rest(n) THEN "IN" ELSE ClassOf(n - 1)
  BY <1>2, ClassOfNext
<1>8. Eff(rr.ttl) = IF Numbers(n) = {} THEN TtlOf(n - 1)
                    ELSE Eff(Number[lines[n][Last(Numbers(n))]])
  BY <1>3, <1>4, <1>5 DEF Half
<1>9. Eff(rr.ttl) = TtlOf(n)
  BY <1>6, <1>8 DEF GivesTtl, OwnTtl
<1> QED
  BY <1>2, <1>3, <1>4, <1>5, <1>7, <1>9 DEF Half, Carries

\* The end of a line finishes its record, or finds none: then the line is blank, or
\* no line so far has had a name.
LEMMA LineEnds ==
    ASSUME TypeOK, Between, Within, EndOfLine
    PROVE  /\ pc' \in {"fgets", "append"}
           /\ pc' = "append" => n # 0 /\ Finished'
           /\ pc' = "fgets" => Between'
           /\ pc' = "fgets" => ~need_data \/ NameOf(n) = Full[""]
<1>1. UNCHANGED <<lines, zone>> /\ pc = "token" /\ tokens = <<>>
  BY DEF EndOfLine
<1>2. n' = n /\ Carries(n)' = (/\ Abs(rr'.name) = NameOf(n)
                               /\ rr'.rr_class = ClassOf(n)
                               /\ Eff(rr'.ttl) = TtlOf(n))
  <2>1. /\ n' = n /\ NameOf(n)' = NameOf(n) /\ ClassOf(n)' = ClassOf(n)
        /\ TtlOf(n)' = TtlOf(n)
    BY <1>1, SameLines
  <2>2. Abs(rr.name)' = Abs(rr'.name) /\ Eff(rr.ttl)' = Eff(rr'.ttl)
    BY <1>1 DEF Abs, Eff
  <2> QED
    BY <2>1, <2>2 DEF Carries
<1>3. CASE ~need_data
  <2>1. pc' = "fgets" /\ rr' = rr /\ Carries(n)
    BY <1>1, <1>3 DEF EndOfLine, Between, Blank
  <2>2. Carries(n)'
    BY <1>2, <2>1 DEF Carries
  <2> QED
    BY <1>3, <2>1, <2>2 DEF Between, Blank
<1>4. CASE need_data
  <2>1. PICK name \in Expanded :
           /\ rr' = [rr EXCEPT !.name = name,
                               !.ttl = IF @ = 0 THEN zone.default_ttl ELSE @]
           /\ pc' = IF name = "" THEN "fgets" ELSE "append"
    BY <1>4 DEF EndOfLine
  <2>2. /\ n \in Nat \ {0} /\ Carries(n)
        /\ rr.type = IF "A" \in Rest(n) THEN "A" ELSE None
        /\ rr.data \in Address => rr.data \in Rest(n)
        /\ rr.data \notin Address => Rest(n) \intersect Address = {}
    BY <1>1, <1>4, WholeLine
  <2>3. Abs(name) = Abs(rr.name) /\ (name # "" => name = Abs(name))
    BY AbsTwice
  <2>4. /\ rr'.name = name /\ rr'.ttl = Eff(rr.ttl) /\ rr'.type = rr.type
        /\ rr'.rr_class = rr.rr_class /\ rr'.data = rr.data
    BY <2>1 DEF Eff, TypeOK, RecordWith
  <2>5. Eff(rr'.ttl) = rr'.ttl
    BY <2>4 DEF Eff
  <2>6. Carries(n)'
    BY <1>2, <2>2, <2>3, <2>4, <2>5 DEF Carries
  <2>7. name # "" => Finished'
    <3>1. SUFFICES ASSUME name # "" PROVE Finished'
      OBVIOUS
    <3>2. /\ Rest(n)' = Rest(n) /\ ClassOf(n)' = ClassOf(n) /\ NameOf(n)' = NameOf(n)
          /\ TtlOf(n)' = TtlOf(n)
      BY <1>1, SameLines
    <3>3. /\ rr'.name = NameOf(n) /\ rr'.rr_class = ClassOf(n) /\ rr'.ttl = TtlOf(n)
      BY <2>2, <2>3, <2>4, <3>1 DEF Carries
    <3>4. IsRecordOf(rr, n)' /\ (rr.ttl = TtlOf(n))'
      BY <1>2, <2>2, <2>4, <3>2, <3>3 DEF IsRecordOf
    <3> QED
      BY <1>2, <2>2, <2>6, <3>4 DEF Finished
  <2>8. name = "" => NameOf(n) = Full[""]
    BY <2>2, <2>3, TokenAssumption DEF Abs, Carries
  <2> QED
    BY <1>2, <2>1, <2>2, <2>6, <2>7, <2>8 DEF Between
<1> QED
  BY <1>3, <1>4

\* The lines whose records have been dealt with
Done == IF pc \in {"append", "list"} \/ (pc = "token" /\ (need_data \/ tokens # <<>>))
           THEN n - 1
           ELSE n

\* The record of a line is served and its name listed.
IsServed(i) == \E r \in served : IsRecordOf(r, i) /\ r.ttl = TtlOf(i)
Loaded(i) == IsServed(i) /\ NameOf(i) \in listed
LoadedUpTo(m) == \A i \in 1 .. m : NameOf(i) # Full[""] => Loaded(i)
LoadedSoFar ==
    /\ pc = "done" \/ ret = "RET_ERR"
    /\ pc = "done" => ret \in {"RET_OK", "RET_ERR"}
    /\ pc # "done" \/ ret = "RET_OK" => LoadedUpTo(Done)

\* What rr has at every place
RecordInv == Header /\ Between /\ Begun /\ Within /\ Finished

\* What the lines so far give stays, as long as $TTL does.
LEMMA RecordsStay ==
    ASSUME TypeOK, \A k \in 1 .. n : lines'[k] = lines[k],
           zone'.default_ttl = zone.default_ttl
    PROVE  \A i \in 1 .. n :
              /\ NameOf(i)' = NameOf(i) /\ TtlOf(i)' = TtlOf(i)
              /\ \A r : IsRecordOf(r, i)' = IsRecordOf(r, i)
<1>1. n \in Nat
  BY LineTypes
<1>2. ASSUME NEW i \in 1 .. n
      PROVE  /\ NameOf(i)' = NameOf(i) /\ ClassOf(i)' = ClassOf(i)
             /\ TtlOf(i)' = TtlOf(i) /\ Rest(i)' = Rest(i)
  BY <1>1, LinesStay DEF n
<1>3. ASSUME NEW i \in 1 .. n, NEW r PROVE IsRecordOf(r, i)' = IsRecordOf(r, i)
  BY <1>2 DEF IsRecordOf
<1> QED
  BY <1>2, <1>3

\* What is served stays the record of a line, and what has been loaded stays loaded.
LEMMA ServedStay ==
    ASSUME TypeOK, ServedAsRead, \A k \in 1 .. n : lines'[k] = lines[k],
           zone'.default_ttl = zone.default_ttl, n' \in Nat, n <= n',
           DOMAIN lines' = 1 .. n', served \subseteq served', listed \subseteq listed'
    PROVE  /\ \A r \in served : \E i \in DOMAIN lines' : (IsRecordOf(r, i) /\ r.ttl = TtlOf(i))'
           /\ \A m \in Int : m <= n /\ LoadedUpTo(m) => LoadedUpTo(m)'
<1>1. n \in Nat /\ DOMAIN lines = 1 .. n
  BY LineTypes
<1>2. \A i \in 1 .. n : /\ NameOf(i)' = NameOf(i) /\ TtlOf(i)' = TtlOf(i)
                        /\ \A r : IsRecordOf(r, i)' = IsRecordOf(r, i)
  BY RecordsStay
<1>3. \A r \in served : \E i \in 1 .. n : IsRecordOf(r, i) /\ r.ttl = TtlOf(i)
  BY <1>1 DEF ServedAsRead
<1>4. \A i \in 1 .. n : i \in DOMAIN lines'
  BY <1>1
<1>5. \A i \in 1 .. n : Loaded(i) => Loaded(i)'
  BY <1>2 DEF Loaded, IsServed
<1>6. \A i \in 1 .. n : (NameOf(i) # Full[""])' = (NameOf(i) # Full[""])
  BY <1>2
<1>7. ASSUME NEW m \in Int, m <= n, LoadedUpTo(m) PROVE LoadedUpTo(m)'
  <2>1. \A i \in 1 .. m : i \in 1 .. n
    BY <1>1, <1>7
  <2> QED
    BY <1>5, <1>6, <1>7, <2>1 DEF LoadedUpTo
<1> QED
  BY <1>2, <1>3, <1>4, <1>7

\* What lines and zone give is carried on while rr keeps what is inherited.
LEMMA CarriedOn ==
    ASSUME TypeOK, UNCHANGED lines, zone'.default_ttl = zone.default_ttl,
           rr'.name = rr.name, rr'.rr_class = rr.rr_class, rr'.ttl = rr.ttl
    PROVE  n' = n /\ Carries(n)' = Carries(n)
<1>1. n' = n /\ n \in Nat
  BY LineTypes DEF n
<1>2. NameOf(n)' = NameOf(n) /\ ClassOf(n)' = ClassOf(n) /\ TtlOf(n)' = TtlOf(n)
  BY <1>1, LinesStay DEF n
<1>3. Abs(rr.name)' = Abs(rr.name) /\ Eff(rr.ttl)' = Eff(rr.ttl)
  BY DEF Abs, Eff
<1> QED
  BY <1>1, <1>2, <1>3 DEF Carries

\* What is assumed of a step, and what is shown of it
Good == RecordInv /\ ServedAsRead /\ LoadedSoFar

Nameless == NameOf(n) = Full[""]

\* A step that reads no line and stores nothing: it fails, or goes on to lines that
\* have been dealt with, the one without a name among them.
LEMMA NothingNew ==
    ASSUME TypeOK, TypeOK', Good, UNCHANGED <<lines, served, listed>>,
           zone'.default_ttl = zone.default_ttl,
           pc' = "done" \/ ret' = "RET_ERR",
           \/ pc' = "done" /\ ret' = "RET_ERR"
           \/ /\ pc # "done" \/ ret = "RET_OK"
              /\ Done' = Done \/ (Done' = n /\ Nameless)
    PROVE  ServedAsRead' /\ LoadedSoFar'
<1>0. n \in Nat /\ n' = n
  BY LineTypes DEF n
<1>1. DOMAIN lines' = 1 .. n' /\ \A k \in 1 .. n : lines'[k] = lines[k]
  BY <1>0, LineTypes
<1>2. /\ n <= n' /\ served \subseteq served' /\ listed \subseteq listed'
      /\ n' \in Nat /\ ServedAsRead
  BY <1>0 DEF Good
<1>3. /\ \A r \in served : \E i \in DOMAIN lines' : (IsRecordOf(r, i) /\ r.ttl = TtlOf(i))'
      /\ \A m \in Int : m <= n /\ LoadedUpTo(m) => LoadedUpTo(m)'
  BY <1>0, <1>1, <1>2, ServedStay
<1>4. ServedAsRead'
  BY <1>3 DEF ServedAsRead
<1>5. Done \in {n - 1, n} /\ Done \in Int /\ Done <= n
  BY <1>0 DEF Done
<1>6. ret' \in {"RET_OK", "RET_ERR"}
  BY DEF TypeOK
<1>7. CASE pc' = "done" /\ ret' = "RET_ERR"
  BY <1>4, <1>7 DEF LoadedSoFar
<1>8. CASE /\ pc # "done" \/ ret = "RET_OK"
           /\ Done' = Done \/ (Done' = n /\ Nameless)
  <2>1. LoadedUpTo(Done)
    BY <1>8 DEF LoadedSoFar, Good
  <2>2. PICK m \in Int : m = Done' /\ m <= n /\ LoadedUpTo(m)
    <3>1. CASE Done' = Done
      BY <1>5, <2>1, <3>1
    <3>2. CASE Done' = n /\ Nameless
      <4>1. \A i \in 1 .. n : i = n \/ i \in 1 .. Done
        BY <1>0, <1>5
      <4>2. LoadedUpTo(n)
        BY <2>1, <3>2, <4>1 DEF LoadedUpTo, Nameless
      <4> QED
        BY <1>0, <3>2, <4>2
    <3> QED
      BY <1>8, <3>1, <3>2
  <2>3. LoadedUpTo(m)'
    BY <1>3, <2>2
  <2>4. LoadedUpTo(Done)'
    BY <2>2, <2>3
  <2> QED
    BY <1>4, <1>6, <2>4 DEF LoadedSoFar
<1> QED
  BY <1>7, <1>8

\* The header: no line has been read, and rr waits for the default TTL.
LEMMA HeaderStep ==
    ASSUME TypeOK, TypeOK', Good, NEW line \in Line, ReadHeader(line)
    PROVE  Good'
<1>1. /\ state = BEFORE_SOA /\ lines = <<>> /\ served = {} /\ rr.ttl = 0
      /\ pc = "fgets" /\ pc' \in {"fgets", "done"} /\ state' \in {BEFORE_SOA, SERIAL}
      /\ (pc' = "done" /\ ret' = "RET_ERR") \/ (pc' = "fgets" /\ ret' = ret)
      /\ UNCHANGED <<lines, served, rr>>
  BY DEF Good, RecordInv, Header, ReadHeader, Fgets, Return, redis
<1>2. n = 0 /\ n' = 0
  BY <1>1 DEF n
<1>3. Header'
  BY <1>1 DEF Header
<1>4. Carries(0)'
  <2>1. Carries(0)
    BY <1>1, <1>2 DEF Good, RecordInv, Between
  <2>2. NameOf(0)' = NameOf(0) /\ ClassOf(0)' = ClassOf(0)
    BY <1>1, <1>2, LinesStay DEF n
  <2>3. TtlOf(0)' = zone'.default_ttl /\ Eff(rr.ttl)' = zone'.default_ttl
    BY <1>1 DEF TtlOf, Last, Eff
  <2>4. Abs(rr.name)' = Abs(rr.name)
    BY <1>1 DEF Abs
  <2> QED
    BY <1>1, <2>1, <2>2, <2>3, <2>4 DEF Carries
<1>5. RecordInv'
  BY <1>1, <1>2, <1>3, <1>4 DEF RecordInv, Between, Blank, Begun, Within, Finished
<1>6. ServedAsRead'
  BY <1>1 DEF ServedAsRead
<1>7. LoadedSoFar'
  <2>1. ret = "RET_ERR"
    BY <1>1 DEF Good, LoadedSoFar
  <2>2. Done' = 0
    BY <1>1, <1>2 DEF Done
  <2>3. LoadedUpTo(0)'
    <3>1. 1 .. 0 = {}
      OBVIOUS
    <3> QED
      BY <3>1 DEF LoadedUpTo
  <2>4. LoadedUpTo(Done)'
    BY <2>2, <2>3
  <2> QED
    BY <1>1, <2>1, <2>4 DEF LoadedSoFar
<1> QED
  BY <1>5, <1>6, <1>7 DEF Good

\* The numbers of the SOA record leave the default TTL alone.
LEMMA SoaStep ==
    ASSUME TypeOK, TypeOK', Good, NEW line \in Line, ReadSoa(line)
    PROVE  Good'
<1>1. /\ pc = "fgets" /\ pc' \in {"fgets", "done"}
      /\ (pc' = "done" /\ ret' = "RET_ERR") \/ (pc' = "fgets" /\ ret' = ret)
      /\ UNCHANGED <<lines, served, listed, rr>>
  BY DEF ReadSoa, Fgets, Return, redis
<1>2. zone'.default_ttl = zone.default_ttl
  BY DEF ReadSoa, TypeOK
<1>3. state' # BEFORE_SOA
  BY DEF ReadSoa, Field, SERIAL, MINIMUM, BEFORE_SOA
<1>4. n' = n /\ Carries(n)'
  <2>1. Carries(n)
    BY <1>1 DEF Good, RecordInv, Between
  <2> QED
    BY <1>1, <1>2, <2>1, CarriedOn
<1>5. RecordInv'
  BY <1>1, <1>3, <1>4 DEF RecordInv, Header, Between, Blank, Begun, Within, Finished
<1>6. ret = "RET_ERR"
  BY <1>1 DEF Good, LoadedSoFar
<1>7. Done = n /\ Done' = n'
  BY <1>1 DEF Done
<1> QED
  BY <1>1, <1>2, <1>4, <1>5, <1>6, <1>7, NothingNew DEF Good

\* A record line begins with what the lines before it give.
LEMMA RecordStep ==
    ASSUME TypeOK, TypeOK', Good, NEW line \in Line, ReadRR(line)
    PROVE  Good'
<1>1. /\ pc = "fgets" /\ pc' = "token" /\ tokens' = line /\ need_data' = FALSE
      /\ state' = NORMAL_RR /\ rr' = Cleared
      /\ lines' = IF line = <<>> THEN lines ELSE Append(lines, line)
      /\ UNCHANGED <<zone, served, listed, ret>>
  BY DEF ReadRR, Fgets
<1>2. /\ rr'.name = rr.name /\ rr'.rr_class = rr.rr_class /\ rr'.ttl = rr.ttl
      /\ rr'.type = None /\ rr'.data = None
  BY <1>1 DEF Cleared, TypeOK, RecordWith
<1>3. Carries(n) /\ Header'
  BY <1>1 DEF Good, RecordInv, Between, Header, NORMAL_RR, BEFORE_SOA
<1>4. n \in Nat /\ ret = "RET_ERR" /\ Done = n
  BY <1>1, LineTypes DEF Good, LoadedSoFar, Done
<1>5. CASE line = <<>>
  <2>1. n' = n /\ Carries(n)'
    BY <1>1, <1>2, <1>3, <1>5, CarriedOn
  <2>2. RecordInv'
    BY <1>1, <1>3, <1>5, <2>1 DEF RecordInv, Between, Begun, Within, Finished
  <2>3. Done' = n'
    BY <1>1, <1>5 DEF Done
  <2> QED
    BY <1>1, <1>4, <1>5, <2>1, <2>2, <2>3, NothingNew DEF Good
<1>6. CASE line # <<>>
  <2>1. /\ n' = n + 1 /\ lines'[n + 1] = line /\ DOMAIN lines' = 1 .. n'
        /\ \A k \in 1 .. n : lines'[k] = lines[k]
    <3>1. line \in Seq(Token) /\ lines \in Seq(Seq(Token)) /\ lines' = Append(lines, line)
      BY <1>1, <1>6, TokenAssumption DEF TypeOK
    <3> QED
      BY <3>1 DEF n
  <2>2. PICK m \in Nat : m = n
    BY <1>4
  <2>3. /\ NameOf(m)' = NameOf(m) /\ ClassOf(m)' = ClassOf(m) /\ TtlOf(m)' = TtlOf(m)
    BY <1>1, <2>1, <2>2, LinesStay DEF n
  <2>4. Abs(rr.name)' = Abs(rr.name) /\ Eff(rr.ttl)' = Eff(rr.ttl)
    BY <1>1, <1>2 DEF Abs, Eff
  <2>5. Carries(m)'
    BY <1>2, <1>3, <2>2, <2>3, <2>4 DEF Carries
  <2>6. n' - 1 = m /\ n' # 0
    BY <2>1, <2>2
  <2>7. Carries(n - 1)'
    BY <2>5, <2>6
  <2>8. RecordInv'
    BY <1>1, <1>2, <1>3, <1>6, <2>1, <2>6, <2>7
       DEF RecordInv, Between, Blank, Begun, Within, Finished
  <2>9. /\ \A r \in served : \E i \in DOMAIN lines' : (IsRecordOf(r, i) /\ r.ttl = TtlOf(i))'
        /\ \A k \in Int : k <= n /\ LoadedUpTo(k) => LoadedUpTo(k)'
    <3>1. n' \in Nat /\ n <= n' /\ ServedAsRead
      BY <1>4, <2>1 DEF Good
    <3>2. served \subseteq served' /\ listed \subseteq listed'
      BY <1>1
    <3>3. zone'.default_ttl = zone.default_ttl
      BY <1>1
    <3> QED
      BY <2>1, <3>1, <3>2, <3>3, ServedStay
  <2>10. Done' = m
    BY <1>1, <1>6, <2>6 DEF Done
  <2>11. LoadedUpTo(m)'
    <3>1. LoadedUpTo(m) /\ m <= n
      BY <1>1, <1>4, <2>2 DEF Good, LoadedSoFar
    <3> QED
      BY <2>2, <2>9, <3>1
  <2>12. LoadedUpTo(Done)'
    BY <2>10, <2>11
  <2> QED
    BY <1>1, <1>4, <2>8, <2>9, <2>12 DEF Good, ServedAsRead, LoadedSoFar
<1> QED
  BY <1>5, <1>6

\* A token, the first of its line or not
LEMMA TokenStep ==
    ASSUME TypeOK, TypeOK', Good, ReadToken
    PROVE  Good'
<1>1. /\ pc = "token" /\ tokens # <<>> /\ need_data' = TRUE
      /\ (pc' = "done" /\ ret' = "RET_ERR") \/ (pc' = "token" /\ ret' = ret)
      /\ UNCHANGED <<state, lines, zone, served, listed>>
  BY DEF ReadToken, Return, redis
<1>2. state # BEFORE_SOA
  BY <1>1 DEF Good, RecordInv, Header
<1>3. Within'
  <2>1. CASE pc' = "done"
    BY <2>1 DEF Within
  <2>2. CASE pc' = "token"
    BY <2>2, FirstToken, NextToken DEF Good, RecordInv
  <2> QED
    BY <1>1, <2>1, <2>2
<1>4. RecordInv'
  BY <1>1, <1>2, <1>3 DEF RecordInv, Header, Between, Blank, Begun, Finished
<1>5. ret = "RET_ERR" /\ n' = n
  BY <1>1, SameLines DEF Good, LoadedSoFar
<1>6. pc' = "token" => Done' = Done
  BY <1>1, <1>5 DEF Done
<1>7. pc # "done"
  BY <1>1
<1>8. ServedAsRead' /\ LoadedSoFar'
  BY <1>1, <1>5, <1>6, <1>7, NothingNew
<1> QED
  BY <1>4, <1>8 DEF Good

\* The end of a line
LEMMA EndStep ==
    ASSUME TypeOK, TypeOK', Good, EndOfLine
    PROVE  Good'
<1>1. /\ pc = "token" /\ tokens = <<>> /\ tokens' = <<>>
      /\ UNCHANGED <<state, need_data, lines, zone, served, listed, ret>>
  BY DEF EndOfLine, redis
<1>2. /\ pc' \in {"fgets", "append"}
      /\ pc' = "append" => n # 0 /\ Finished'
      /\ pc' = "fgets" => Between'
      /\ pc' = "fgets" => ~need_data \/ Nameless
      /\ pc' = "append" => need_data
  <2>1. pc' = "append" => need_data
    BY DEF EndOfLine
  <2> QED
    BY <2>1, LineEnds DEF Good, RecordInv, Nameless
<1>3. state # BEFORE_SOA
  BY <1>1 DEF Good, RecordInv, Header
<1>4. RecordInv'
  BY <1>1, <1>2, <1>3 DEF RecordInv, Header, Between, Blank, Begun, Within, Finished
<1>5. ret = "RET_ERR" /\ n' = n
  BY <1>1, SameLines DEF Good, LoadedSoFar
<1>6. Done = IF need_data THEN n - 1 ELSE n
  BY <1>1 DEF Done
<1>7. Done' = IF pc' = "append" THEN n - 1 ELSE n
  BY <1>2, <1>5 DEF Done
<1>8. Done' = Done \/ (Done' = n /\ Nameless)
  BY <1>2, <1>6, <1>7
<1>9. ServedAsRead' /\ LoadedSoFar'
  BY <1>1, <1>5, <1>8, NothingNew
<1> QED
  BY <1>4, <1>9 DEF Good

\* Storing the record and its name: the store may fail, and have had the effect.
LEMMA StoreStep ==
    ASSUME TypeOK, TypeOK', Good, Stored, AppendRR \/ ListName
    PROVE  Good'
<1>1. /\ pc \in {"append", "list"} /\ UNCHANGED <<state, tokens, need_data, rr, zone, lines>>
      /\ served' \in {served, served \union {rr}} /\ listed' \in {listed, listed \union {rr.name}}
  BY DEF AppendRR, ListName, parser
<1>2. \/ pc' = "done" /\ ret' = "RET_ERR"
      \/ pc = "append" /\ pc' = "list" /\ ret' = ret
      \/ /\ pc = "list" /\ pc' = "fgets" /\ ret' = ret
         /\ rr \in served /\ listed' = listed \union {rr.name} /\ served' = served
  BY DEF AppendRR, ListName, Return, Stored
<1>3. n # 0 /\ Carries(n) /\ IsRecordOf(rr, n) /\ rr.ttl = TtlOf(n)
  BY <1>1 DEF Good, RecordInv, Finished
<1>4. n' = n /\ n \in Nat \ {0}
  BY <1>1, <1>3, LineTypes, SameLines
<1>5. n \in 1 .. n
  BY <1>4
<1>6. /\ DOMAIN lines' = 1 .. n' /\ \A k \in 1 .. n : lines'[k] = lines[k]
      /\ zone'.default_ttl = zone.default_ttl
  BY <1>1, <1>4, LineTypes
<1>7. \A i \in 1 .. n : /\ NameOf(i)' = NameOf(i) /\ TtlOf(i)' = TtlOf(i)
                        /\ \A r : IsRecordOf(r, i)' = IsRecordOf(r, i)
  BY <1>6, RecordsStay
<1>8. Carries(n)' /\ (IsRecordOf(rr, n) /\ rr.ttl = TtlOf(n))'
  <2>1. Carries(n)'
    BY <1>1, <1>3, <1>6, CarriedOn
  <2>2. IsRecordOf(rr, n)'
    <3>0. PICK r : r = rr
      OBVIOUS
    <3>1. PICK i \in 1 .. n : r = rr /\ i = n
      BY <1>5, <3>0
    <3>2. IsRecordOf(r, i)'
      BY <1>3, <1>7, <3>1
    <3> QED
      BY <1>1, <1>4, <3>1, <3>2
  <2>3. TtlOf(n)' = TtlOf(n)
    BY <1>1, SameLines
  <2> QED
    BY <1>1, <1>3, <2>1, <2>2, <2>3
<1>9. state # BEFORE_SOA
  BY <1>1 DEF Good, RecordInv, Header
<1>10. RecordInv'
  BY <1>1, <1>2, <1>3, <1>4, <1>8, <1>9
     DEF RecordInv, Header, Between, Blank, Begun, Within, Finished
<1>11. /\ n <= n' /\ served \subseteq served' /\ listed \subseteq listed' /\ n' \in Nat
       /\ ServedAsRead
  BY <1>1, <1>4 DEF Good
<1>12. /\ \A r \in served : \E i \in DOMAIN lines' : (IsRecordOf(r, i) /\ r.ttl = TtlOf(i))'
       /\ \A m \in Int : m <= n /\ LoadedUpTo(m) => LoadedUpTo(m)'
  BY <1>6, <1>11, ServedStay
<1>13. ServedAsRead'
  <2>1. n \in DOMAIN lines'
    BY <1>4, <1>5, <1>6
  <2>2. PICK i \in DOMAIN lines' : i = n
    BY <2>1
  <2>3. (IsRecordOf(rr, i) /\ rr.ttl = TtlOf(i))'
    BY <1>4, <1>8, <2>2
  <2> QED
    BY <1>1, <1>12, <2>3 DEF ServedAsRead
<1>14. ret = "RET_ERR" /\ Done = n - 1 /\ LoadedUpTo(Done)
  BY <1>1 DEF Good, LoadedSoFar, Done
<1>15. PICK m \in Int : m = n - 1 /\ m <= n /\ LoadedUpTo(m)
  BY <1>4, <1>14
<1>16. LoadedUpTo(m)'
  BY <1>12, <1>15
<1>17. CASE pc' = "done" /\ ret' = "RET_ERR"
  BY <1>10, <1>13, <1>17 DEF Good, LoadedSoFar
<1>18. CASE pc' = "list" /\ ret' = ret
  <2>1. Done' = m
    BY <1>4, <1>15, <1>18 DEF Done
  <2> QED
    BY <1>10, <1>13, <1>14, <1>16, <1>18, <2>1 DEF Good, LoadedSoFar
<1>19. CASE /\ pc' = "fgets" /\ ret' = ret
            /\ rr \in served /\ listed' = listed \union {rr.name} /\ served' = served
  <2>1. Done' = n
    BY <1>4, <1>19 DEF Done
  <2>2. Loaded(n)'
    <3>1. rr.name = NameOf(n)
      BY <1>3 DEF IsRecordOf
    <3>2. NameOf(n)' \in listed'
      BY <1>1, <1>19, <3>1, SameLines
    <3> QED
      BY <1>1, <1>4, <1>8, <1>19, <3>2 DEF Loaded, IsServed
  <2>3. PICK k \in Int : k = n /\ k' = k
    BY <1>4
  <2>4. Loaded(k)' /\ k = m + 1
    BY <1>4, <1>15, <2>2, <2>3
  <2>5. \A i \in 1 .. k : i = k \/ i \in 1 .. m
    BY <2>4
  <2>6. LoadedUpTo(k)'
    BY <1>16, <2>4, <2>5 DEF LoadedUpTo
  <2> QED
    BY <1>4, <1>10, <1>13, <1>14, <1>19, <2>1, <2>3, <2>6 DEF Good, LoadedSoFar
<1> QED
  BY <1>2, <1>17, <1>18, <1>19

\* The inductive step.
LEMMA RecordsStep ==
    TypeOK /\ Stored /\ ListedIsServed /\ Good /\ [Next]_vars => Good'
<1> SUFFICES ASSUME TypeOK, Stored, Good, [Next]_vars, TypeOK' PROVE Good'
  BY TypeStep
<1>1. CASE Open
  <2>1. /\ pc = "fopen" /\ UNCHANGED <<state, tokens, need_data, rr, zone, served, listed, lines>>
        /\ (pc' = "done" /\ ret' = "RET_ERR") \/ (pc' = "fgets" /\ ret' = ret)
    BY <1>1 DEF Open, parser, redis, Return
  <2>2. n' = n /\ Carries(n)'
    BY <2>1, CarriedOn DEF Good, RecordInv, Between
  <2>3. RecordInv'
    BY <2>1, <2>2 DEF Good, RecordInv, Header, Between, Blank, Begun, Within, Finished
  <2>4. Done' = n' /\ Done = n /\ pc # "done" /\ ret = "RET_ERR"
    BY <2>1 DEF Done, Good, LoadedSoFar
  <2> QED
    BY <2>1, <2>2, <2>3, <2>4, NothingNew DEF Good
<1>2. CASE EndOfFile
  <2>1. /\ pc = "fgets" /\ pc' = "done" /\ ret' = "RET_OK"
        /\ UNCHANGED <<state, tokens, need_data, rr, zone, served, listed, lines>>
    BY <1>2 DEF EndOfFile, parser, redis, Return
  <2>2. n' = n
    BY <2>1, SameLines
  <2>3. RecordInv'
    BY <2>1 DEF Good, RecordInv, Header, Between, Blank, Begun, Within, Finished
  <2>4. Done' = n' /\ Done = n
    BY <2>1 DEF Done
  <2> QED
    BY <2>1, <2>2, <2>3, <2>4, NothingNew DEF Good
<1>3. CASE UNCHANGED vars
  <2>1. UNCHANGED <<pc, state, tokens, need_data, rr, zone, served, listed, lines, ret>>
    BY <1>3 DEF vars, redis
  <2>2. /\ n' = n
        /\ \A i : /\ NameOf(i)' = NameOf(i) /\ ClassOf(i)' = ClassOf(i)
                  /\ TtlOf(i)' = TtlOf(i) /\ Rest(i)' = Rest(i)
        /\ \A c : Seen(c)' = Seen(c) /\ SeenNumbers(c)' = SeenNumbers(c)
        /\ \A t : Eff(t)' = Eff(t)
    BY <2>1, SameLines
  <2>3. ASSUME NEW m PROVE Carries(m)' = Carries(m)
    BY <2>1, <2>2 DEF Carries, Abs, Eff
  <2>4. ASSUME NEW i PROVE IsRecordOf(rr, i)' = IsRecordOf(rr, i)
    BY <2>1, <2>2 DEF IsRecordOf
  <2>5. Consumed' = Consumed /\ Half(Consumed)' = Half(Consumed)
    <3>1. Consumed' = Consumed
      BY <2>1, <2>2 DEF Consumed
    <3>2. PICK c : c = Consumed
      OBVIOUS
    <3>3. Last(SeenNumbers(c))' = Last(SeenNumbers(c))
      <4> DEFINE S == SeenNumbers(c)
      <4>1. S' = S
        BY <2>2
      <4> HIDE DEF S
      <4>2. Last(S)' = Last(S)
        BY <4>1 DEF Last
      <4> QED
        BY <4>2 DEF S
    <3>4. Half(c)' = Half(c)
      BY <2>1, <2>2, <3>3 DEF Half, Abs, Eff
    <3> QED
      BY <3>1, <3>2, <3>4
  <2>6. Header' /\ Between' /\ Begun'
    <3>1. PICK m : m = n
      OBVIOUS
    <3>2. Carries(m)' = Carries(m) /\ Carries(m - 1)' = Carries(m - 1)
      BY <2>3
    <3>3. Carries(n)' = Carries(n) /\ Carries(n - 1)' = Carries(n - 1)
      BY <2>2, <3>1, <3>2
    <3> QED
      BY <2>1, <2>2, <3>3 DEF Good, RecordInv, Header, Between, Blank, Begun
  <2>7. Within'
    BY <2>1, <2>2, <2>5 DEF Good, RecordInv, Within
  <2>8. Finished'
    <3>1. PICK m : m = n
      OBVIOUS
    <3>2. Carries(m)' = Carries(m) /\ IsRecordOf(rr, m)' = IsRecordOf(rr, m)
      BY <2>3, <2>4
    <3> QED
      BY <2>1, <2>2, <3>1, <3>2 DEF Good, RecordInv, Finished
  <2>9. Done' = Done
    BY <2>1, <2>2 DEF Done
  <2>10. ServedAsRead' /\ LoadedSoFar'
    <3>1. pc = "done" \/ ret = "RET_ERR"
      BY DEF Good, LoadedSoFar
    <3>2. ret \in {"RET_OK", "RET_ERR"}
      BY DEF TypeOK
    <3> QED
      BY <2>1, <2>9, <3>1, <3>2, NothingNew
  <2> QED
    BY <2>6, <2>7, <2>8, <2>10 DEF Good, RecordInv
<1> QED
  BY <1>1, <1>2, <1>3, HeaderStep, SoaStep, RecordStep, TokenStep, EndStep, StoreStep DEF Next

\* Before the file is opened, nothing has been read and nothing is stored.
LEMMA RecordsInit == Init => Good
<1> SUFFICES ASSUME Init PROVE Good
  OBVIOUS
<1>1. n = 0 /\ Done = 0
  BY DEF Init, n, Done
<1>2. 1 .. 0 = {}
  OBVIOUS
<1>3. Carries(0)
  BY <1>2 DEF Init, Carries, NameOf, ClassOf, TtlOf, Last, Abs, Eff
<1>4. RecordInv
  BY <1>1, <1>3 DEF Init, RecordInv, Header, Between, Begun, Within, Finished, Blank
<1>5. ServedAsRead
  BY DEF Init, ServedAsRead
<1>6. LoadedUpTo(0)
  BY <1>2 DEF LoadedUpTo
<1>7. LoadedSoFar
  BY <1>1, <1>6 DEF Init, LoadedSoFar
<1> QED
  BY <1>4, <1>5, <1>7 DEF Good

\* All that is known of the parser and the store
RecordsInv == TypeOK /\ Stored /\ ListedIsServed /\ Good

LEMMA RecordsAlways == Spec => []RecordsInv
<1>1. Init => RecordsInv
  BY TypeInit, RecordsInit DEF Init, Stored, ListedIsServed, RecordsInv
<1>2. RecordsInv /\ [Next]_vars => RecordsInv'
  BY TypeStep, StoredStep, RecordsStep DEF RecordsInv
<1> QED
  BY <1>1, <1>2, PTL DEF Spec

\* A line that gives a TTL has that one, and what is served as the code has it is
\* served as it is written.
LEMMA OwnTtlIsTtl ==
    ASSUME TypeOK, NEW i \in DOMAIN lines, NEW r, IsRecordOf(r, i), r.ttl = TtlOf(i)
    PROVE  AsWritten(r, i)
<1>1. DOMAIN lines = 1 .. n /\ n \in Nat
  BY LineTypes
<1>2. PICK m \in Nat : m = i /\ m # 0
  BY <1>1
<1>3. TtlOf(m) = IF GivesTtl(m) THEN Eff(OwnTtl(m)) ELSE TtlOf(m - 1)
  BY <1>1, <1>2, TtlOfNext
<1>4. ASSUME \A k \in 1 .. i : ~GivesTtl(k)
      PROVE  TtlOf(i) = zone.default_ttl
  <2>1. {k \in 1 .. i : GivesTtl(k)} = {}
    BY <1>4
  <2> QED
    BY <2>1 DEF TtlOf, Last
<1> QED
  BY <1>2, <1>3, <1>4 DEF AsWritten, Eff

\* Every record that is served is that of a line of the file, with that line's type,
\* address and TTL, and the name and class it gives or inherits, though one RR_INFO is
\* filled for all of them and the store may fail, with or without effect, at any call.
\* The TTL of a line that gives none is that of $TTL if no line before gives one; else
\* nothing is said of it.
THEOREM RecordsAreAsWritten == Spec => []ServedAsWritten
<1>1. RecordsInv => ServedAsWritten
  BY OwnTtlIsTtl DEF RecordsInv, Good, ServedAsRead, ServedAsWritten
<1> QED
  BY <1>1, RecordsAlways, PTL

\* A line that names an address has come to parse_rr(), or begins with a number, or
\* the file has been refused.
Accounted ==
    ~(pc = "done" /\ ret = "RET_ERR") =>
        \A line \in read : IsAddressLine(line) =>
            line \in Range(lines) \/ Key(line) \subseteq DOMAIN Duration

LEMMA AccountedStep == TypeOK /\ Accounted /\ [Next]_vars => Accounted'
<1> SUFFICES ASSUME TypeOK, Accounted, [Next]_vars PROVE Accounted'
  OBVIOUS
<1>1. ASSUME NEW line \in Line, ReadHeader(line)
      PROVE  Accounted'
  <2>1. pc = "fgets" /\ lines' = lines /\ read' = read \union {line}
    BY <1>1 DEF ReadHeader, Fgets
  <2>2. CASE Key(line) \subseteq HeaderKey
    <3>1. ~IsAddressLine(line)
      <4>1. CASE Key(line) = {}
        <5>1. line \in Seq(Token)
          BY TokenAssumption
        <5>2. DOMAIN line = {}
          BY <4>1, <5>1 DEF Key
        <5> QED
          BY <5>2 DEF IsAddressLine, Range
      <4>2. CASE Key(line) # {}
        BY <2>2, <4>2 DEF IsAddressLine
      <4> QED
        BY <4>1, <4>2
    <3> QED
      BY <2>1, <3>1 DEF Accounted
  <2>3. CASE ~(Key(line) \subseteq HeaderKey) /\ IsSoa(line)
    <3>1. line \in Seq(Token) /\ Len(line) >= 6 /\ line[4] = "SOA"
      BY <2>3, TokenAssumption DEF IsSoa
    <3>2. "SOA" \in Range(line)
      BY <3>1 DEF Range
    <3> QED
      BY <2>1, <3>2 DEF Accounted, IsAddressLine
  <2>4. CASE ~(Key(line) \subseteq HeaderKey) /\ ~IsSoa(line)
    BY <1>1, <2>4 DEF ReadHeader, Return, Accounted
  <2> QED
    BY <2>2, <2>3, <2>4
<1>2. ASSUME NEW line \in Line, ReadSoa(line)
      PROVE  Accounted'
  <2>1. pc = "fgets" /\ lines' = lines /\ read' = read \union {line}
    BY <1>2 DEF ReadSoa, Fgets
  <2>2. CASE Key(line) \intersect DOMAIN Duration # {}
    <3>1. Key(line) \subseteq DOMAIN Duration
      BY <2>2 DEF Key
    <3> QED
      BY <2>1, <3>1 DEF Accounted
  <2>3. CASE Key(line) \intersect DOMAIN Duration = {}
    BY <1>2, <2>3 DEF ReadSoa, Return, Accounted
  <2> QED
    BY <2>2, <2>3
<1>3. ASSUME NEW line \in Line, ReadRR(line)
      PROVE  Accounted'
  <2>1. /\ pc = "fgets" /\ read' = read \union {line}
        /\ lines' = IF line = <<>> THEN lines ELSE Append(lines, line)
    BY <1>3 DEF ReadRR, Fgets
  <2>2. CASE line = <<>>
    <3>1. ~IsAddressLine(line)
      BY <2>2 DEF IsAddressLine, Range
    <3> QED
      BY <2>1, <2>2, <3>1 DEF Accounted
  <2>3. CASE line # <<>>
    <3>1. lines \in Seq(Seq(Token)) /\ line \in Seq(Token)
      BY TokenAssumption DEF TypeOK
    <3>2. PICK N \in Nat : N = Len(lines) /\ DOMAIN lines = 1 .. N
      BY <3>1
    <3>3. /\ lines' = Append(lines, line) /\ DOMAIN lines' = 1 .. N + 1
          /\ lines'[N + 1] = line /\ \A k \in 1 .. N : lines'[k] = lines[k]
      BY <2>1, <2>3, <3>1, <3>2
    <3>4. Range(lines) \subseteq Range(lines') /\ line \in Range(lines')
      BY <3>2, <3>3 DEF Range
    <3> QED
      BY <2>1, <3>4 DEF Accounted
  <2> QED
    BY <2>2, <2>3
<1>4. CASE Open \/ EndOfFile \/ ReadToken \/ EndOfLine \/ AppendRR \/ ListName
  <2>1. pc # "done" /\ UNCHANGED <<lines, read>>
    BY <1>4 DEF Open, EndOfFile, ReadToken, EndOfLine, AppendRR, ListName, parser
  <2> QED
    BY <2>1 DEF Accounted
<1>5. CASE UNCHANGED vars
  BY <1>5 DEF vars, Accounted
<1> QED
  BY <1>1, <1>2, <1>3, <1>4, <1>5 DEF Next

LEMMA AccountedAlways == Spec => []Accounted
<1>1. Init => Accounted
  BY DEF Init, Accounted
<1>2. RecordsInv /\ Accounted /\ [Next]_vars => Accounted'
  BY AccountedStep DEF RecordsInv
<1> QED
  BY <1>1, <1>2, RecordsAlways, PTL DEF Spec

\* When parse_zone_file() returns RET_OK, every line of the file that names an address
\* has come to parse_rr() or begins with what the SOA record may take for a number, and
\* every line that has come there and has a name has its record served and its name in
\* the zone's list.
THEOREM AcceptedIsLoaded == Spec => []LoadedIfAccepted
<1>1. RecordsInv /\ Accounted => LoadedIfAccepted
  <2> SUFFICES ASSUME RecordsInv, Accounted, pc = "done", ret = "RET_OK"
               PROVE  \A i \in DOMAIN lines : NameOf(i) # Full[""] =>
                        /\ \E r \in served : AsWritten(r, i)
                        /\ NameOf(i) \in listed
    BY DEF LoadedIfAccepted, Accounted
  <2> SUFFICES ASSUME NEW i \in DOMAIN lines, NameOf(i) # Full[""]
               PROVE  /\ \E r \in served : AsWritten(r, i)
                      /\ NameOf(i) \in listed
    OBVIOUS
  <2>1. Done = n /\ LoadedUpTo(Done) /\ DOMAIN lines = 1 .. n
    BY LineTypes DEF RecordsInv, Good, LoadedSoFar, Done
  <2>2. Loaded(i)
    BY <2>1 DEF LoadedUpTo
  <2>3. TypeOK
    BY DEF RecordsInv
  <2> QED
    BY <2>2, <2>3, OwnTtlIsTtl DEF Loaded, IsServed
<1> QED
  BY <1>1, RecordsAlways, AccountedAlways, PTL

\* Whatever the string, as long as its value fits into an int: every digit counts for
\* what the unit that follows it says, and for its place in front of that; nothing else
\* is accepted (translate_to_int()).
THEOREM TimesAreAsDocumented == Spec => []TimesAsDocumented
<1>1. \A val \in Texts : translate_to_int(val) = Documented(val)
  BY TokenAssumption, TimeIs
<1>2. TimesAsDocumented
  BY <1>1, Zenon DEF TimesAsDocumented
<1> QED
  BY <1>2, PTL
=============================================================================
