------------------------------ MODULE MCConfig ------------------------------
(* parse_app_config on files that hold every parameter, in three orders of   *)
(* the sections, all parts switched on or all off, with at most one line     *)
(* dropped, emptied or given another value.  One order repeats a section;    *)
(* in one, sections of other programs come first and MAX_SECTIONS is passed. *)
(* parse_sensor_config on files that hold every parameter: each field that   *)
(* takes a name with each of the names, and the same file with any one line  *)
(* dropped.                                                                  *)
EXTENDS SensorConfig, AppParams

MCNumeral == ("0" :> 0) @@ ("1" :> 1) @@ ("2" :> 2) @@ ("0x10" :> 16) @@ ("7f" :> 127)
             @@ ("64" :> 64) @@ ("640" :> 640) @@ ("0x4000" :> 16384)
Good(p, on) == CASE p.kind = "bool" -> on
                 [] p.kind = "text" -> "word"
                 [] OTHER -> IF p.min > 640 THEN "0x4000" ELSE IF p.min > 64 THEN "640" ELSE "64"
HeadLine(s) == [section |-> s, key |-> "", value |-> ""]

Known == <<"system", "night_mode", "isp", "rtsp", "mp4", "jpeg", "mjpeg", "http_post">>
Orders == {Known, Reverse(Known) \o <<"system">>, [q \in 1 .. 10 |-> "other"] \o Known}

\* A section with its parameters, each once.
Lines(s, on) ==
    LET own == SelectSeq(AppConfigParams, LAMBDA p : p.section = s /\ ~(p.kind = "enum"))
    IN  <<HeadLine(s)>> \o [q \in DOMAIN own |->
                          [section |-> "", key |-> own[q].key, value |-> Good(own[q], on)]]
Whole(order, on) == FlattenSeq([q \in DOMAIN order |-> Lines(order[q], on)])

Edits(file0) ==
    LET keys == {l \in DOMAIN file0 : file0[l].section = ""}
    IN  {file0}
        \cup {RemoveAt(file0, l) : l \in keys}
        \cup {[file0 EXCEPT ![l].value = v] : l \in keys, v \in {"", "0", "7f", "true", "word"}}

AppFiles == UNION {Edits(Whole(order, on)) : order \in Orders, on \in {"yes", "0"}}

SectionNames == <<"sensor", "mode", "mipi", "lvds", "isp_image", "vi_dev", "vi_chn">>
Line(section, key, value) == [section |-> section, key |-> key, value |-> value]
SensorLines(s) == LET own == SelectSeq(SensorConfigParams, LAMBDA p : p.section = s)
                  IN  <<Line(s, "", "")>> \o [q \in DOMAIN own |-> Line("", own[q].key, "0")]
WholeSensor == FlattenSeq([q \in DOMAIN SectionNames |-> SensorLines(SectionNames[q])])

SensorLineOf(p) ==
    LET whole == WholeSensor
    IN  CHOOSE l \in DOMAIN whole :
            /\ whole[l].key = p.key
            /\ \E h \in 1 .. l : /\ whole[h].section = p.section
                                 /\ \A g \in h + 1 .. l : whole[g].section = ""
EnumPlaces == {q \in DOMAIN SensorConfigParams : SensorConfigParams[q].kind = "enum"}

Named(p) == LET whole == WholeSensor
                l == SensorLineOf(p)
            IN  {[whole EXCEPT ![l].value = v] : v \in DOMAIN p.names}
SensorFiles == LET whole == WholeSensor
               IN  {whole} \cup {RemoveAt(whole, l) : l \in DOMAIN whole}
                   \cup UNION {Named(SensorConfigParams[q]) : q \in EnumPlaces}

MCTables == [app |-> AppConfigParams, sensor |-> SensorConfigParams]
MCBefore == [app |-> AppConfigDefaults, sensor |-> SensorConfigDefaults]
MCFiles == [app |-> AppFiles, sensor |-> SensorFiles]
=============================================================================
