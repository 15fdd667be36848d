----------------------------- MODULE MCLoading -----------------------------
(* Loading with two zones, one of which has a record under the other's name  *)
(* and both under one host name, and a later configuration.                  *)
EXTENDS Loading

L(n, rr) == [name |-> n, rr |-> rr]

MCConfig ==
    {[conf |-> <<"a", "b">>,
      file |-> [z \in Zone |-> IF z = "a" THEN <<L("w", "r"), L("w", "s"), L("b", "r")>>
                                          ELSE <<L("w", "r"), L("v", "s")>>]],
     [conf |-> <<"b", "b">>,
      file |-> [z \in Zone |-> IF z = "a" THEN <<>> ELSE <<L("w", "s"), L("v", "s")>>]]}
=============================================================================
