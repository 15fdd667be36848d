----------------------------- MODULE MCZoneFile -----------------------------
(* ZoneFile on the lines of conf/example.zone, cut down, and on lines that   *)
(* leave something out or are wrong; and its times on all short strings.     *)
EXTENDS ZoneFile, TLC

CONSTANTS TextLen, TextChar

MCZoneName == "example.com."
MCAbsolute == {"example.com.", "www.example.com.", "ftp.example.com.",
               ".example.com.", "900.example.com.", "other.example.com."}
MCAddress == {"10.0.0.1", "10.0.0.2"}
MCSpelling == ("1D" :> <<"1", "D">>) @@ ("900" :> <<"9", "0", "0">>) @@ ("0" :> <<"0">>)
                  @@ ("1h30m" :> <<"1", "h", "3", "0", "m">>) @@ ("600" :> <<"6", "0", "0">>)
                  @@ ("www" :> <<"w", "w", "w">>)
MCTexts == UNION {[1 .. n -> TextChar] : n \in 0 .. TextLen} \union Range(MCSpelling)
MCToken == {"A", "IN", "SOA", "@", "$TTL", "$ORIGIN", "'", "www", "ftp", "example.com.",
            "ftp.example.com."} \union MCAddress \union DOMAIN MCSpelling
MCFull == [t \in (MCToken \ MCAbsolute) \union {""} |->
              IF t = "" THEN ".example.com."
              ELSE IF t = "www" THEN "www.example.com."
              ELSE IF t = "ftp" THEN "ftp.example.com."
              ELSE IF t = "900" THEN "900.example.com." ELSE "other.example.com."]

MCHeader == {<<"$TTL", "600">>, <<"$TTL">>, <<"$ORIGIN", "example.com.">>}
MCSoa == {<<"@", "1D", "IN", "SOA", "example.com.", "example.com.">>, <<"1h30m">>}
MCRecords ==
    {<<"www", "IN", "A", "10.0.0.1">>, <<"A", "10.0.0.2">>, <<"ftp", "A", "600", "900", "10.0.0.1">>,
     <<"IN", "A", "0", "10.0.0.2">>, <<"ftp.example.com.">>, <<"ftp", "'">>,
     <<"ftp", "10.0.0.1">>}
MCLine == MCHeader \union MCSoa \union MCRecords \union {<<>>}
=============================================================================
