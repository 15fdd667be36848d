----------------------------- MODULE MCStartup -----------------------------
(* Startup over all lines of up to MaxLine characters of the kinds that      *)
(* zone.h tells apart, all files of up to MaxLines of some lines, or MaxCore *)
(* of fewer, and two longer ones; and all command lines of up to MaxArgs of  *)
(* some arguments, and a few more.                                           *)
EXTENDS Startup

CONSTANTS MaxLine, MaxLines, MaxCore, MaxArgs

Strings(S, max) == UNION {[1 .. k -> S] : k \in 0 .. max}
Line(s) == s \o <<"\n", NUL>>

Zone(name) == Line(<<"zone", " ", Quote>> \o name \o <<Quote, " ", "{">>)
File(name) == Line(<<" ", "file", " ", Quote, name, Quote, ";">>)
Type(type) == Line(<<" ", "type", " ", type, ";">>)
End == Line(<<"}", ";">>)
Open == Line(<<"/", "*">>)
Close == Line(<<" ", "*", "/">>)

\* Two zones, two names for one, a name that leaves no room for its dot, and none;
\* lines that are in error.
Core == {Zone(<<"a">>), Zone(<<"a", ".">>), File("f"), Type("master"), Open, Close}
Lines == Core \union
    {Zone(<<"a", "a", "a">>), Zone(<<>>), Line(<<"zone", " ", Quote, "a">>),
     Line(<<"file", ";">>), Type("a"), End, Line(<<"a">>)}

MCFiles ==
    {<<Line(l)>> : l \in Strings({"a", " ", ";", Quote, "/", "*", "'", "{"}, MaxLine)}
    \union Strings(Lines, MaxLines) \union Strings(Core, MaxCore)
    \union {<<Open, File("f"), Close, Zone(<<"a">>), Type("master"), File("f"), End,
              Zone(<<"a", "a", "a">>), File("g"), End>>,
            <<Zone(<<"a">>), File("f"), Open, Zone(<<"a", "a">>), Close, Type("master"),
              End, Zone(<<"a", ".">>), File("g")>>}

Arg(s) == <<"-", s>>
MCCommands ==
    Strings({Arg("f"), Arg("s"), Arg("t"), Arg("h"), Arg("a"), <<"stop">>}, MaxArgs)
    \union {<<Arg("f"), <<"/", "a">>>>, <<Arg("f"), <<"d", "/", "d", "/", "a">>, Arg("t")>>,
            <<Arg("f"), <<"a">>, Arg("f"), <<"d", "/", "a">>>>,
            <<Arg("f"), <<"d", "/", "d", "/", "a", "a", "a">>>>, <<Arg("f"), <<>>>>,
            <<Arg("f"), <<"d", "/", "/", "a">>>>, <<Arg("f"), <<"a", "d">>>>}
=============================================================================
