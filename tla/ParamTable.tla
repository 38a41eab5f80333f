----------------------------- MODULE ParamTable -----------------------------
(***************************************************************************)
(* How a parameter of a configuration file is described: one call of       *)
(* src/config/config.c with its arguments.  An enumeration's names are a   *)
(* function to the values that parse_enum gives them.                      *)
(***************************************************************************)
EXTENDS Integers, Sequences, SequencesExt, TLC

INT_MAX == 2147483647
INT_MIN == -INT_MAX - 1

Param(section, key, kind) ==
    [section |-> section, key |-> key, kind |-> kind, min |-> 0, max |-> 0,
     names |-> <<>>, gate |-> <<>>, checked |-> TRUE]
TextParam(section, key) == Param(section, key, "text")
BoolParam(section, key) == Param(section, key, "bool")
ArrayParam(section, key) == Param(section, key, "array")
IntParam(section, key, min, max) == [Param(section, key, "int") EXCEPT !.min = min, !.max = max]
EnumParam(section, key, names) == [Param(section, key, "enum") EXCEPT !.names = names]

\* Faulty variant of Values: the place alone counts.
Values_NoOffset(names, offset) ==
    [n \in ToSet(names) |-> (CHOOSE q \in DOMAIN names : names[q] = n) - 1]
\* The names of an enumeration: each stands for offset and its place.
Values(names, offset) == [n \in ToSet(names) |-> offset + (CHOOSE q \in DOMAIN names : names[q] = n) - 1]

Zero(kind) == CASE kind = "text" -> "" [] kind = "bool" -> FALSE [] OTHER -> 0

\* a configuration cleared with memset
Cleared(params) ==
    [f \in {<<params[q].section, params[q].key>> : q \in DOMAIN params} |->
        Zero((CHOOSE p \in ToSet(params) : <<p.section, p.key>> = f).kind)]
=============================================================================
