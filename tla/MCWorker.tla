------------------------------ MODULE MCWorker ------------------------------
(* Instances of Worker: one label for the length and the buffer, two where  *)
(* names must differ in more than their length.                             *)
EXTENDS Worker

CONSTANTS a, A, d1, d2

MCData == {d1, d2}
MCType == {"A", "SOA"}
MCLabel == {a, A}
MCZone == {<<a>>}

rr(type, data) == [type |-> type, data |-> data]

\* Two records under one name, one under its extension and one at the zone.
MCConfig == {<< <<a, a>>, rr("A", d1)>>, << <<a, a>>, rr("A", d2)>>,
             << <<a, A>>, rr("A", d2)>>, << <<a>>, rr("A", d1)>>}

\* Names of up to one label too many.
Sent(form, names, types) ==
    {[form |-> form, name |-> n, type |-> t] : n \in names, t \in types}
MCDatagram ==
    Sent("whole", {<<>>, <<a>>, <<a, a>>, <<a, A>>, <<a, a, A>>}, {"A"})
    \union Sent("whole", {<<a, a>>}, {"SOA"})
    \union Sent("cut", {<<A>>, <<a, A>>}, {"A"})
    \union Sent("overlong", {<<>>, <<A>>, <<A, A, a>>}, {"A"})
    \union Sent("short", {<<>>}, {"A"}) \union Sent("counts", {<<a>>}, {"A"})
=============================================================================
