----------------------------- MODULE ConfigFile -----------------------------
(***************************************************************************)
(* Reading a configuration file: the searches of src/config/config.c, and  *)
(* the run of parse_app_config (src/config/app_config.c) and of            *)
(* parse_sensor_config (src/config/sensor_config.c) over their parameters, *)
(* which stops at the first that cannot be read.  What each of the two     *)
(* asks for is a table, given by AppParams and by SensorParams; a          *)
(* behaviour is a call of one of them on one file.                         *)
(*                                                                         *)
(* A file is the sequence of its lines, blank and comment lines left out:  *)
(* the head of a section, or a key with its value ("" when nothing         *)
(* follows the equals sign).  A position in the text is the number of its  *)
(* line.  The expression that finds a key disregards case, so keys stand   *)
(* here in the spelling of the code.  Names of sections and of values are  *)
(* compared as they are.  The expression itself is taken to compile.       *)
(***************************************************************************)
EXTENDS Integers, Sequences, FiniteSets, TLC

CONSTANTS
    Tables,          \* by the name of the table: what is read, in order, as
                     \* records of ParamTable
    Before,          \* what each field holds before, by table and <<section, key>>
    Files,           \* the files that may be there, by table
    MAX_SECTIONS,    \* sections that IniConfig remembers (16); with one alone,
                     \* StrayOnlyFromSecondHalf would not hold
    Numeral          \* the words strtol reads whole, in base 10 or 16: their number

FieldOf(p) == <<p.section, p.key>>
FieldsOf(params) == {FieldOf(params[q]) : q \in DOMAIN params}

FileLine == [section : STRING, key : STRING, value : STRING]

ASSUME ConfigFileAssumption ==
    /\ MAX_SECTIONS \in Nat \ {0, 1}
    /\ DOMAIN Before = DOMAIN Tables /\ DOMAIN Files = DOMAIN Tables
    /\ \A t \in DOMAIN Tables :
          /\ Before[t] = [f \in FieldsOf(Tables[t]) |-> Before[t][f]]
          /\ \A text \in Files[t] :
                /\ text \in Seq(FileLine)
                /\ \A l \in DOMAIN text : text[l].section = "" <=> text[l].key # ""

VARIABLES
    table,           \* the table of the function called
    file,            \* ini.str
    next,            \* the parameter to read next
    config,          \* app_config or *config
    err,             \* "reading", then what the function returns
    keyLine          \* ghost: the line whose key gave each field, or 0

vars == <<table, file, next, config, err, keyLine>>

Params == Tables[table]
Defaults == Before[table]
Fields == FieldsOf(Params)

Init == /\ table \in DOMAIN Tables
        /\ file \in Files[table]
        /\ next = 1
        /\ config = Defaults
        /\ err = "reading"
        /\ keyLine = [f \in Fields |-> 0]

-----------------------------------------------------------------------------
(* config.c *)

Least(S) == CHOOSE x \in S : \A y \in S : x <= y

Heads == {l \in DOMAIN file : file[l].section # ""}
IndexOf(h) == Cardinality({g \in Heads : g < h})

\* the lines of the sections array, which has room for MAX_SECTIONS
find_sections == {h \in Heads : IndexOf(h) < MAX_SECTIONS}

\* Faulty variant of EndOf: sections are not bounded at all.
EndOf_Never(h, beyond) == Len(file) + 1
\* Where section h is held to end; Len(file) + 1 stands for no end.  The test
\* looks at sections[i + i] where sections[i + 1] is meant; beyond is what it
\* finds past the end of the array.
EndOf(h, beyond) ==
    LET i == IndexOf(h)
        looked == IF 2 * i < MAX_SECTIONS THEN 2 * i < Cardinality(find_sections) ELSE beyond
        after == {g \in find_sections : g > h}
    IN  IF looked /\ after # {} THEN Least(after) ELSE Len(file) + 1

NextLinesWord == "the first word of the next line"
OK(value, line) == [err |-> "CONFIG_OK", value |-> value, line |-> line]
Fail(error) == [err |-> error]

\* The first line below head h with this key.  A value that is missing is the
\* first word of the next line; what lies beyond end is refused.
ValueBelow(h, end, key) ==
    LET found == {l \in h + 1 .. Len(file) : file[l].key = key}
        l == Least(found)
        at == IF file[l].value # "" THEN l ELSE l + 1
    IN  IF found # {} /\ at <= Len(file) /\ at <= end
        THEN OK(IF at = l THEN file[l].value ELSE NextLinesWord, l)
        ELSE Fail("CONFIG_PARAM_NOT_FOUND")

\* Faulty variant of parse_param_value: the search starts at the top of the file.
parse_param_value_FromTop(section, key, beyond) ==
    LET named == {h \in find_sections : file[h].section = section}
    IN  IF named = {} THEN Fail("CONFIG_SECTION_NOT_FOUND")
        ELSE ValueBelow(0, EndOf(Least(named), beyond), key)
\* in the first section of the name
parse_param_value(section, key, beyond) ==
    LET named == {h \in find_sections : file[h].section = section}
        h == Least(named)
    IN  IF named = {} THEN Fail("CONFIG_SECTION_NOT_FOUND")
        ELSE ValueBelow(h, EndOf(h, beyond), key)

\* A number is taken as it is; a name has the value the table gives it.
parse_enum(r, names) ==
    IF r.value \in DOMAIN Numeral THEN OK(Numeral[r.value], r.line)
    ELSE IF r.value \in DOMAIN names THEN OK(names[r.value], r.line)
    ELSE Fail("CONFIG_ENUM_INCORRECT_STRING")

BoolNames == ("0" :> 0) @@ ("1" :> 1) @@ ("false" :> 2) @@ ("true" :> 3)
             @@ ("n" :> 4) @@ ("y" :> 5) @@ ("no" :> 6) @@ ("yes" :> 7)
parse_bool(r) == LET val == parse_enum(r, BoolNames)
                 IN  IF val.err = "CONFIG_OK" THEN OK(val.value \in {1, 3, 5, 7}, r.line) ELSE val

IntNames == [w \in {"true", "TRUE", "false", "FALSE"} |-> IF w \in {"true", "TRUE"} THEN 1 ELSE 0]
\* Faulty variant of parse_int: the range is not looked at.
parse_int_AnyRange(r, min, max) ==
    IF r.value \in DOMAIN Numeral THEN OK(Numeral[r.value], r.line)
    ELSE IF r.value \in DOMAIN IntNames THEN OK(IntNames[r.value], r.line)
    ELSE Fail("CONFIG_PARAM_ISNT_NUMBER")
parse_int(r, min, max) ==
    IF r.value \in DOMAIN Numeral
    THEN IF Numeral[r.value] \in min .. max THEN OK(Numeral[r.value], r.line)
         ELSE Fail("CONFIG_PARAM_ISNT_IN_RANGE")
    ELSE IF r.value \in DOMAIN IntNames THEN OK(IntNames[r.value], r.line)
    ELSE Fail("CONFIG_PARAM_ISNT_NUMBER")

\* One parameter of the table.  parse_array finds its value and stores nothing.
Parse(p, beyond) ==
    LET r == parse_param_value(p.section, p.key, beyond)
    IN  IF r.err # "CONFIG_OK" THEN r
        ELSE CASE p.kind = "text" -> r
               [] p.kind = "bool" -> parse_bool(r)
               [] p.kind = "int" -> parse_int(r, p.min, p.max)
               [] p.kind = "enum" -> parse_enum(r, p.names)
               [] p.kind = "array" -> OK(Defaults[FieldOf(p)], r.line)

-----------------------------------------------------------------------------
(* parse_app_config, parse_sensor_config *)

Kinds == {"text", "bool", "int", "enum", "array"}

\* The switch of a part is read before the part, and not again later.
SwitchFirst(params) ==
    \A q \in DOMAIN params : params[q].gate # <<>> =>
        /\ \E x \in 1 .. q - 1 : FieldOf(params[x]) = params[q].gate
        /\ \A x \in q .. Len(params) : FieldOf(params[x]) # params[q].gate

\* A field that is read twice is read as a name first and as a number then,
\* and no name is one of the words that numbers know.
TwiceAsNumber(params) ==
    \A q, x \in DOMAIN params : q < x /\ FieldOf(params[q]) = FieldOf(params[x]) =>
        /\ params[q].kind = "enum" /\ params[x].kind = "int"
        /\ params[q].gate = <<>> /\ params[x].gate = <<>>
        /\ DOMAIN params[q].names \cap DOMAIN IntNames = {}

ASSUME TablesAssumption ==
    \A t \in DOMAIN Tables :
        /\ Len(Tables[t]) \in Nat /\ DOMAIN Tables[t] = 1 .. Len(Tables[t])
        /\ \A q \in DOMAIN Tables[t] :
              LET p == Tables[t][q]
              IN  /\ p.key # "" /\ p.kind \in Kinds
                  /\ p.kind = "int" => p.min \in Int /\ p.max \in Int
        /\ SwitchFirst(Tables[t])
        /\ TwiceAsNumber(Tables[t])

\* The file cannot be opened, or not read, or there is no memory for it.
LoadFails == /\ next = 1
             /\ err = "reading"
             /\ err' = "-1"
             /\ UNCHANGED <<table, file, next, config, keyLine>>

\* A parameter of a part that is switched on, or of none.
Wanted(p) == p.gate # <<>> => config[p.gate]

Skip == /\ err = "reading"
        /\ next <= Len(Params)
        /\ ~Wanted(Params[next])
        /\ next' = next + 1
        /\ UNCHANGED <<table, file, config, err, keyLine>>

Store(f, r) == /\ config' = [config EXCEPT ![f] = r.value]
               /\ keyLine' = [keyLine EXCEPT ![f] = r.line]

Read == /\ err = "reading"
        /\ next <= Len(Params)
        /\ Wanted(Params[next])
        /\ \E beyond \in BOOLEAN :
              LET p == Params[next]
                  r == Parse(p, beyond)
              IN  IF r.err = "CONFIG_OK"
                  THEN /\ Store(FieldOf(p), r)
                       /\ next' = next + 1
                       /\ UNCHANGED err
                  ELSE /\ UNCHANGED <<config, keyLine>>
                       /\ IF p.checked THEN err' = r.err /\ UNCHANGED next
                                       ELSE next' = next + 1 /\ UNCHANGED err
        /\ UNCHANGED <<table, file>>

Return == /\ err = "reading"
          /\ next = Len(Params) + 1
          /\ err' = "CONFIG_OK"
          /\ UNCHANGED <<table, file, next, config, keyLine>>

Next == LoadFails \/ Skip \/ Read \/ Return
Spec == Init /\ [][Next]_vars

-----------------------------------------------------------------------------
(* Properties *)

\* The section a field is named after: its first head, and the lines up to the
\* next head, which are its own.
HeadOf(f) == Least({h \in Heads : file[h].section = f[1]})
OwnKeys(f) == {l \in DOMAIN file : /\ l > HeadOf(f)
                                   /\ file[l].key = f[2]
                                   /\ \A g \in Heads : g > HeadOf(f) => l < g}

\* A key that stands in the field's own section is the one that gave the value,
\* the first of them when there are several, whatever keys of the same name the
\* other sections hold (section_pos and parse_param_value, config.c:37-80).
OwnKeyWins ==
    err # "reading" =>
        \A f \in Fields : keyLine[f] > 0 /\ OwnKeys(f) # {} => keyLine[f] = Least(OwnKeys(f))

\* A field takes its value from a foreign section only when that one comes
\* later, and only when the field's own section is in the second half of the
\* file's: the test of sections[i + i] holds for the sections of the first
\* half, and no value is ever taken from above (config.c:41-45, 70-72).
StrayOnlyFromSecondHalf ==
    err # "reading" =>
        \A f \in Fields : keyLine[f] > 0 /\ keyLine[f] \notin OwnKeys(f) =>
            /\ keyLine[f] > HeadOf(f)
            /\ 2 * IndexOf(HeadOf(f)) >= Cardinality(find_sections)

\* What a parameter of the table may hold once it has been read: an int is in
\* its range, or 0 or 1, which the words of IntNames stand for.
Suits(p, v) == CASE p.kind = "int" -> (p.min <= v /\ v <= p.max) \/ v \in {0, 1}
                 [] p.kind = "bool" -> v \in BOOLEAN
                 [] p.kind = "enum" -> \/ \E n \in DOMAIN p.names : v = p.names[n]
                                       \/ \E n \in DOMAIN Numeral : v = Numeral[n]
                 [] OTHER -> TRUE

\* CONFIG_OK means a complete configuration: every parameter whose part is
\* switched on was read and holds something that suits it, and one of a part
\* that is switched off has its default (app_config.c:75-150).
OkMeansComplete ==
    err = "CONFIG_OK" =>
        \A q \in DOMAIN Params :
            LET p == Params[q]
                f == FieldOf(p)
            IN  /\ Wanted(p) /\ p.checked => keyLine[f] > 0 /\ Suits(p, config[f])
                /\ ~Wanted(p) => config[f] = Defaults[f]
=============================================================================
