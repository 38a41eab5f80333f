------------------------- MODULE ConfigFile_proofs -------------------------
(***************************************************************************)
(* What the parsers of app_config.c and sensor_config.c read, for every    *)
(* file, every bound on the sections above 1, and every table in which a   *)
(* switch is read before its part: where a value is taken from, and what   *)
(* CONFIG_OK means.  The proof follows the search of config.c from the     *)
(* heads of the sections to the line a value is found on, and the parser   *)
(* over its table with one inductive invariant.  The last part compares    *)
(* the names of the sensor's table with the enumerations of the headers,   *)
(* list by list, and carries the result through the parser: what a name in *)
(* the file means to the SDK is what the configuration holds.              *)
(***************************************************************************)
EXTENDS SensorConfig, FiniteSetTheorems, WellFoundedInduction, TLAPS

\* A set of naturals that is not empty has a least element.
LEMMA LeastElement ==
  ASSUME NEW S, S \subseteq Nat, S # {}
  PROVE  Least(S) \in S /\ \A y \in S : Least(S) <= y
<1> DEFINE R == OpToRel(<, Nat)
<1>1. IsWellFoundedOn(R, Nat)
  BY NatLessThanWellFounded
<1> HIDE DEF R
<1>2. PICK x \in S : \A y \in S : ~(<<y, x>> \in R)
  BY <1>1, WFMin
<1>3. \A y \in S : x <= y
  <2> SUFFICES ASSUME NEW y \in S PROVE x <= y
    OBVIOUS
  <2>1. ~(y < x)
    BY <1>2 DEF R, OpToRel
  <2>2. QED
    BY <2>1
<1>4. QED
  BY <1>3 DEF Least

\* An element below all others is the least.
LEMMA LeastIs ==
  ASSUME NEW S, S \subseteq Nat, NEW x \in S, \A y \in S : x <= y
  PROVE  Least(S) = x
<1>1. PICK m \in S : m = Least(S) /\ m <= x
  BY LeastElement
<1>2. x <= m /\ x \in Nat /\ m \in Nat
  OBVIOUS
<1>3. QED
  BY <1>1, <1>2

-----------------------------------------------------------------------------
(* The sections of a file. *)

\* There is room for two sections at least.
LEMMA MaxSections == MAX_SECTIONS \in Nat /\ MAX_SECTIONS >= 2
<1>1. MAX_SECTIONS \in Nat /\ MAX_SECTIONS # 0 /\ MAX_SECTIONS # 1
  BY ConfigFileAssumption
<1>2. QED
  BY <1>1

\* The lines of a file are numbered.
FileOK == /\ Len(file) \in Nat /\ DOMAIN file = 1 .. Len(file)
          /\ \A l \in DOMAIN file : file[l].section = "" <=> file[l].key # ""

\* A line's number is a natural.
LEMMA LinesAreNat ==
  ASSUME FileOK
  PROVE  DOMAIN file \subseteq Nat
<1>1. Len(file) \in Nat /\ DOMAIN file = 1 .. Len(file)
  BY DEF FileOK
<1>2. QED
  BY <1>1

\* A file that may be there is one.
LEMMA FileIsOK ==
  ASSUME table \in DOMAIN Tables, file \in Files[table]
  PROVE  FileOK
<1>1. file \in Seq(FileLine)
  BY ConfigFileAssumption
<1>2. Len(file) \in Nat /\ DOMAIN file = 1 .. Len(file)
  BY <1>1
<1>3. \A l \in DOMAIN file : file[l].section = "" <=> file[l].key # ""
  BY ConfigFileAssumption
<1>4. QED
  BY <1>2, <1>3 DEF FileOK

\* The heads before a line are finitely many.
LEMMA HeadsFinite ==
  ASSUME FileOK
  PROVE  /\ Heads \subseteq Nat /\ IsFiniteSet(Heads)
         /\ \A h : IsFiniteSet({g \in Heads : g < h}) /\ IndexOf(h) \in Nat
         /\ find_sections \subseteq Heads /\ IsFiniteSet(find_sections)
<1>1. Heads \subseteq 1 .. Len(file) /\ Len(file) \in Nat
  BY DEF FileOK, Heads
<1>2. IsFiniteSet(1 .. Len(file))
  BY <1>1, FS_Interval
<1>3. Heads \subseteq Nat /\ IsFiniteSet(Heads)
  <2>1. Heads \subseteq Nat
    BY <1>1
  <2>2. IsFiniteSet(Heads)
    BY <1>1, <1>2, FS_Subset
  <2>3. QED
    BY <2>1, <2>2
<1>4. ASSUME NEW h PROVE IsFiniteSet({g \in Heads : g < h}) /\ IndexOf(h) \in Nat
  <2>1. {g \in Heads : g < h} \subseteq Heads
    OBVIOUS
  <2>2. IsFiniteSet({g \in Heads : g < h})
    BY <1>3, <2>1, FS_Subset
  <2>3. QED
    BY <2>2, FS_CardinalityType DEF IndexOf
<1>5. find_sections \subseteq Heads /\ IsFiniteSet(find_sections)
  BY <1>3, FS_Subset DEF find_sections
<1>6. QED
  BY <1>3, <1>4, <1>5

\* A head above another one has no larger index.
LEMMA IndexGrows ==
  ASSUME FileOK, NEW g \in Heads, NEW h \in Heads, g <= h
  PROVE  IndexOf(g) <= IndexOf(h)
<1>1. {x \in Heads : x < g} \subseteq {x \in Heads : x < h}
  BY HeadsFinite
<1>2. QED
  BY <1>1, HeadsFinite, FS_Subset DEF IndexOf

\* The next head has the next index.
LEMMA NextIndex ==
  ASSUME FileOK, NEW h \in Heads, NEW g \in Heads, h < g,
         \A x \in Heads : x > h => g <= x
  PROVE  IndexOf(g) = IndexOf(h) + 1
<1> DEFINE S == {x \in Heads : x < h}
<1>1. IsFiniteSet(S) /\ h \notin S /\ h \in Nat /\ g \in Nat
  BY HeadsFinite
<1>2. {x \in Heads : x < g} = S \cup {h}
  BY HeadsFinite
<1> HIDE DEF S
<1>3. Cardinality(S \cup {h}) = Cardinality(S) + 1
  BY <1>1, FS_AddElement
<1>4. QED
  BY <1>2, <1>3 DEF IndexOf, S

\* No more than MAX_SECTIONS sections are remembered.
LEMMA SectionsBound ==
  ASSUME FileOK
  PROVE  /\ Cardinality(find_sections) \in Nat
         /\ Cardinality(find_sections) <= MAX_SECTIONS
<1>0. MAX_SECTIONS \in Nat /\ MAX_SECTIONS >= 1
  BY MaxSections
<1>1. Cardinality(find_sections) \in Nat
  BY HeadsFinite, FS_CardinalityType
<1>2. CASE find_sections = {}
  BY <1>0, <1>2, FS_EmptySet
<1>3. CASE find_sections # {}
  <2> DEFINE T == {Len(file) - h : h \in find_sections}
  <2>0. Len(file) \in Nat /\ \A h \in find_sections : h \in Nat /\ h <= Len(file)
    <3>1. Len(file) \in Nat /\ DOMAIN file = 1 .. Len(file)
      BY DEF FileOK
    <3>2. \A h \in find_sections : h \in 1 .. Len(file)
      BY <3>1, HeadsFinite DEF Heads
    <3>3. QED
      BY <3>1, <3>2
  <2>1. T \subseteq Nat /\ T # {}
    BY <1>3, <2>0
  <2>2. PICK h \in find_sections : \A g \in find_sections : Len(file) - h <= Len(file) - g
    <3> HIDE DEF T
    <3>1. Least(T) \in T /\ \A y \in T : Least(T) <= y
      BY <2>1, LeastElement
    <3>2. QED
      BY <3>1 DEF T
  <2>3. \A g \in find_sections : g <= h
    BY <2>0, <2>2
  <2> DEFINE S == {g \in Heads : g < h}
  <2>4. find_sections \subseteq S \cup {h}
    BY <2>0, <2>3, HeadsFinite
  <2>5. IsFiniteSet(S) /\ h \notin S /\ Cardinality(S) = IndexOf(h) /\ IndexOf(h) \in Nat
    <3>1. IsFiniteSet(S) /\ IndexOf(h) \in Nat
      BY HeadsFinite
    <3>2. h \notin S
      BY <2>0
    <3>3. QED
      BY <3>1, <3>2 DEF IndexOf
  <2> HIDE DEF S
  <2>6. IsFiniteSet(S \cup {h}) /\ Cardinality(S \cup {h}) = IndexOf(h) + 1
    BY <2>5, FS_AddElement
  <2>7. Cardinality(find_sections) <= IndexOf(h) + 1
    BY <2>4, <2>6, FS_Subset
  <2>8. IndexOf(h) < MAX_SECTIONS
    BY DEF find_sections
  <2>9. QED
    BY <1>0, <1>1, <2>5, <2>7, <2>8
<1>4. QED
  BY <1>2, <1>3

-----------------------------------------------------------------------------
(* Where a value is found. *)

\* A value that is found comes from the first line with its key below the first
\* head of the section's name, which is one of those remembered, and from no
\* line beyond the section's end, as far as the code knows that.
LEMMA FoundBelow ==
  ASSUME FileOK, NEW f, NEW beyond \in BOOLEAN,
         parse_param_value(f[1], f[2], beyond).err = "CONFIG_OK",
         NEW l, l = parse_param_value(f[1], f[2], beyond).line
  PROVE  /\ HeadOf(f) \in find_sections /\ file[HeadOf(f)].section = f[1]
         /\ l \in DOMAIN file /\ l > HeadOf(f) /\ file[l].key = f[2]
         /\ \A x \in DOMAIN file : x > HeadOf(f) /\ file[x].key = f[2] => l <= x
         /\ l <= EndOf(HeadOf(f), beyond)
<1> DEFINE named == {h \in find_sections : file[h].section = f[1]}
           r == parse_param_value(f[1], f[2], beyond)
<1>0. /\ \A e : Fail(e).err = e
      /\ \A v, x : OK(v, x).err = "CONFIG_OK" /\ OK(v, x).line = x
  BY DEF Fail, OK
<1>1. named # {} /\ r = ValueBelow(Least(named), EndOf(Least(named), beyond), f[2])
  BY <1>0 DEF parse_param_value
<1>2. Least(named) \in named /\ \A y \in named : Least(named) <= y
  BY <1>1, HeadsFinite, LeastElement
<1>3. PICK h \in named : h = Least(named) /\ h \in Nat /\ h \in Heads
  BY <1>2, HeadsFinite
<1>4. HeadOf(f) = h
  <2> DEFINE S == {g \in Heads : file[g].section = f[1]}
  <2>1. S \subseteq Nat /\ h \in S
    BY <1>3, HeadsFinite
  <2>2. ASSUME NEW g \in S PROVE h <= g
    <3>1. g \in Heads /\ g \in Nat /\ h \in Nat /\ h \in Heads /\ file[g].section = f[1]
      BY <1>3, HeadsFinite
    <3> HIDE DEF S
    <3> SUFFICES ASSUME g < h PROVE FALSE
      BY <3>1
    <3>2. IndexOf(g) <= IndexOf(h) /\ IndexOf(g) \in Nat /\ IndexOf(h) \in Nat
      <4>1. g <= h
        BY <3>1
      <4>2. QED
        BY <3>1, <4>1, IndexGrows, HeadsFinite
    <3>3. IndexOf(h) < MAX_SECTIONS /\ MAX_SECTIONS \in Nat
      BY <1>3, MaxSections DEF find_sections
    <3>4. IndexOf(g) < MAX_SECTIONS
      BY <3>2, <3>3
    <3>5. g \in named
      BY <3>1, <3>4 DEF find_sections
    <3>6. h <= g
      BY <1>2, <1>3, <3>5
    <3>7. QED
      BY <3>1, <3>6
  <2> HIDE DEF S
  <2>3. Least(S) = h
    BY <2>1, <2>2, LeastIs
  <2>4. QED
    BY <2>3 DEF HeadOf, S
<1> DEFINE found == {x \in h + 1 .. Len(file) : file[x].key = f[2]}
           at == IF file[Least(found)].value # "" THEN Least(found) ELSE Least(found) + 1
           end == EndOf(h, beyond)
<1> HIDE DEF named, r
<1>5. found # {} /\ at <= Len(file) /\ at <= end /\ r.line = Least(found)
  <2>1. r = IF found # {} /\ at <= Len(file) /\ at <= end
            THEN OK(IF at = Least(found) THEN file[Least(found)].value ELSE NextLinesWord,
                    Least(found))
            ELSE Fail("CONFIG_PARAM_NOT_FOUND")
    BY <1>1, <1>3 DEF ValueBelow
  <2>2. r.err = "CONFIG_OK"
    BY DEF r
  <2> HIDE DEF found, at, end
  <2>3. QED
    BY <1>0, <2>1, <2>2
<1>6. Len(file) \in Nat /\ DOMAIN file = 1 .. Len(file)
  BY DEF FileOK
<1>7. PICK k \in found : k = Least(found) /\ \A y \in found : k <= y
  <2>1. found \subseteq Nat
    BY <1>3, <1>6
  <2> HIDE DEF found
  <2>2. Least(found) \in found /\ \A y \in found : Least(found) <= y
    BY <1>5, <2>1, LeastElement
  <2>3. QED
    BY <2>2
<1>8. l = k
  BY <1>5, <1>7 DEF r
<1>9. l \in DOMAIN file /\ l > h /\ file[l].key = f[2]
  <2>1. k \in h + 1 .. Len(file) /\ file[k].key = f[2]
    OBVIOUS
  <2>2. k \in Nat /\ k > h /\ 1 <= k /\ k <= Len(file)
    BY <1>3, <1>6, <2>1
  <2>3. QED
    BY <1>6, <1>8, <2>1, <2>2
<1>10. ASSUME NEW x \in DOMAIN file, x > h, file[x].key = f[2] PROVE l <= x
  <2>1. x \in h + 1 .. Len(file)
    BY <1>3, <1>6, <1>10
  <2>2. QED
    BY <1>7, <1>8, <1>10, <2>1
<1>11. l <= end
  <2>1. end \in Int
    <3> DEFINE after == {g \in find_sections : g > h}
    <3>1. after # {} => Least(after) \in Nat
      <4>1. after \subseteq Nat
        BY HeadsFinite
      <4> HIDE DEF after
      <4>2. QED
        BY <4>1, LeastElement
    <3>2. Len(file) + 1 \in Nat
      BY <1>6
    <3>3. QED
      BY <3>1, <3>2 DEF EndOf
  <2>2. at = k \/ at = k + 1
    BY <1>7
  <2>3. k \in Nat
    BY <1>3, <1>6
  <2> HIDE DEF at, end
  <2>4. QED
    BY <1>5, <1>8, <2>1, <2>2, <2>3
<1>12. QED
  BY <1>3, <1>4, <1>9, <1>10, <1>11 DEF named

\* The value of a key is looked up the same, whatever is beyond the array.
LEMMA SameValue ==
  ASSUME NEW section, NEW key, NEW a \in BOOLEAN, NEW b \in BOOLEAN,
         parse_param_value(section, key, a).err = "CONFIG_OK",
         parse_param_value(section, key, b).err = "CONFIG_OK"
  PROVE  parse_param_value(section, key, a) = parse_param_value(section, key, b)
<1>1. \A e : Fail(e).err = e
  BY DEF Fail
<1>2. ASSUME NEW h, NEW x, NEW y, ValueBelow(h, x, key).err = "CONFIG_OK",
             ValueBelow(h, y, key).err = "CONFIG_OK"
      PROVE  ValueBelow(h, x, key) = ValueBelow(h, y, key)
  BY <1>1, <1>2 DEF ValueBelow
<1>3. QED
  BY <1>1, <1>2 DEF parse_param_value

-----------------------------------------------------------------------------
(* A value and the section it stands in. *)

\* What the parsers are given for field f.
Got(f, beyond) == parse_param_value(f[1], f[2], beyond)

\* Line l is the first with the key of f below the head of its section, and not
\* beyond the end that the section is held to have.
Below(f, l, beyond) ==
    /\ HeadOf(f) \in find_sections
    /\ l \in DOMAIN file /\ l > HeadOf(f) /\ file[l].key = f[2]
    /\ \A x \in DOMAIN file : x > HeadOf(f) /\ file[x].key = f[2] => l <= x
    /\ l <= EndOf(HeadOf(f), beyond)

\* FoundBelow in these words.
LEMMA GotBelow ==
  ASSUME FileOK, NEW f, NEW beyond \in BOOLEAN, Got(f, beyond).err = "CONFIG_OK"
  PROVE  Below(f, Got(f, beyond).line, beyond)
<1>1. PICK l : l = Got(f, beyond).line
  OBVIOUS
<1>2. /\ HeadOf(f) \in find_sections
      /\ l \in DOMAIN file /\ l > HeadOf(f) /\ file[l].key = f[2]
      /\ \A x \in DOMAIN file : x > HeadOf(f) /\ file[x].key = f[2] => l <= x
      /\ l <= EndOf(HeadOf(f), beyond)
  BY <1>1, FoundBelow DEF Got
<1>3. QED
  BY <1>1, <1>2 DEF Below

\* The first line with the key below the head is the field's own, if it has any.
LEMMA OwnFirst ==
  ASSUME FileOK, NEW f, NEW beyond \in BOOLEAN, NEW l, Below(f, l, beyond), OwnKeys(f) # {}
  PROVE  l = Least(OwnKeys(f))
<1>1. OwnKeys(f) \subseteq DOMAIN file /\ DOMAIN file \subseteq Nat
  BY LinesAreNat DEF OwnKeys
<1>2. \A x \in OwnKeys(f) : l <= x
  BY DEF Below, OwnKeys
<1>3. l \in OwnKeys(f)
  <2>1. PICK k \in OwnKeys(f) : TRUE
    OBVIOUS
  <2>2. k \in Nat /\ l \in Nat /\ l <= k
    BY <1>1, <1>2, <2>1 DEF Below
  <2>3. ASSUME NEW g \in Heads, g > HeadOf(f) PROVE l < g
    <3>1. k < g
      BY <2>1, <2>3 DEF OwnKeys
    <3>2. g \in Nat
      BY HeadsFinite
    <3>3. QED
      BY <2>2, <3>1, <3>2
  <2>4. QED
    BY <2>3 DEF Below, OwnKeys
<1>4. QED
  BY <1>1, <1>2, <1>3, LeastIs

\* A head that has another one below it has a next one.
LEMMA NextHead ==
  ASSUME FileOK, NEW h, {g \in Heads : g > h} # {}
  PROVE  /\ Least({g \in Heads : g > h}) \in Heads
         /\ Least({g \in Heads : g > h}) > h
         /\ \A x \in Heads : x > h => Least({g \in Heads : g > h}) <= x
<1> DEFINE S == {g \in Heads : g > h}
<1>1. S \subseteq Nat /\ S # {}
  BY HeadsFinite
<1> HIDE DEF S
<1>2. Least(S) \in S /\ \A x \in S : Least(S) <= x
  BY <1>1, LeastElement
<1>3. QED
  BY <1>2 DEF S

\* A section of the first half ends at the next head.
LEMMA EndIsNext ==
  ASSUME FileOK, NEW h \in find_sections, NEW g \in Heads, g > h,
         \A x \in Heads : x > h => g <= x,
         2 * IndexOf(h) < Cardinality(find_sections), NEW beyond \in BOOLEAN
  PROVE  EndOf(h, beyond) = g
<1>1. /\ h \in Heads /\ h \in Nat /\ g \in Nat /\ IndexOf(h) \in Nat
      /\ Cardinality(find_sections) \in Nat /\ Cardinality(find_sections) <= MAX_SECTIONS
      /\ MAX_SECTIONS \in Nat /\ MAX_SECTIONS >= 2
  <2>1. h \in Heads /\ h \in Nat /\ g \in Nat
    BY HeadsFinite
  <2>2. IndexOf(h) \in Nat
    BY HeadsFinite
  <2>3. QED
    BY <2>1, <2>2, SectionsBound, MaxSections
<1>2. IndexOf(g) = IndexOf(h) + 1
  BY <1>1, NextIndex
<1>3. IndexOf(g) < MAX_SECTIONS /\ 2 * IndexOf(h) < MAX_SECTIONS
  BY <1>1, <1>2
<1>4. g \in find_sections
  BY <1>3 DEF find_sections
<1> DEFINE after == {x \in find_sections : x > h}
<1>5. after \subseteq Nat /\ g \in after
  BY <1>4, HeadsFinite
<1>6. \A x \in after : g <= x
  BY HeadsFinite
<1>7. after # {}
  BY <1>5
<1> HIDE DEF after
<1>8. Least(after) = g
  BY <1>5, <1>6, LeastIs
<1>9. QED
  BY <1>3, <1>7, <1>8 DEF EndOf, after

\* A line that is not in the field's own section comes after a section of the
\* second half.
LEMMA StrayIsLate ==
  ASSUME FileOK, NEW f, NEW beyond \in BOOLEAN, NEW l, Below(f, l, beyond),
         l \notin Heads, l \notin OwnKeys(f)
  PROVE  2 * IndexOf(HeadOf(f)) >= Cardinality(find_sections)
<1> DEFINE h == HeadOf(f)
           g == Least({x \in Heads : x > h})
<1>1. h \in find_sections /\ h \in Nat /\ l \in DOMAIN file /\ l \in Nat
  <2>1. h \in find_sections /\ l \in DOMAIN file
    BY DEF Below
  <2>2. h \in Nat
    BY <2>1, HeadsFinite
  <2>3. QED
    BY <2>1, <2>2, LinesAreNat
<1>2. PICK x \in Heads : x > h /\ ~(l < x)
  BY DEF Below, OwnKeys
<1>3. g \in Heads /\ g > h /\ \A y \in Heads : y > h => g <= y
  <2>1. {y \in Heads : y > h} # {}
    BY <1>2
  <2>2. QED
    BY <2>1, NextHead
<1> HIDE DEF h, g
<1>4. g \in Nat /\ x \in Nat /\ g <= x
  BY <1>2, <1>3, HeadsFinite
<1>5. IndexOf(h) \in Nat /\ Cardinality(find_sections) \in Nat
  BY HeadsFinite, SectionsBound
<1>6. CASE 2 * IndexOf(h) < Cardinality(find_sections)
  <2>1. l <= g
    BY <1>1, <1>3, <1>6, EndIsNext DEF Below, h
  <2>2. l = g
    BY <1>1, <1>2, <1>4, <2>1
  <2>3. QED
    BY <1>1, <1>3, <2>2
<1>7. CASE ~(2 * IndexOf(h) < Cardinality(find_sections))
  BY <1>5, <1>7 DEF h
<1>8. QED
  BY <1>6, <1>7

-----------------------------------------------------------------------------
(* What a parser accepts. *)

\* The two kinds of outcome.
LEMMA Outcomes ==
  /\ \A e : Fail(e).err = e
  /\ \A v, l : OK(v, l).err = "CONFIG_OK" /\ OK(v, l).value = v /\ OK(v, l).line = l
  BY DEF Fail, OK

\* The parameters of a table.
ParamOK(p) == /\ p.kind \in Kinds
              /\ p.kind = "int" => p.min \in Int /\ p.max \in Int

\* Parse looks up the field of its parameter.
LEMMA ParseIs ==
  ASSUME NEW p, NEW beyond \in BOOLEAN, ParamOK(p), NEW r, r = Got(FieldOf(p), beyond)
  PROVE  /\ r.err # "CONFIG_OK" => Parse(p, beyond) = r
         /\ r.err = "CONFIG_OK" =>
              /\ p.kind = "text" => Parse(p, beyond) = r
              /\ p.kind = "bool" => Parse(p, beyond) = parse_bool(r)
              /\ p.kind = "int" => Parse(p, beyond) = parse_int(r, p.min, p.max)
              /\ p.kind = "enum" => Parse(p, beyond) = parse_enum(r, p.names)
              /\ p.kind = "array" => Parse(p, beyond) = OK(Defaults[FieldOf(p)], r.line)
<1>1. r = parse_param_value(p.section, p.key, beyond)
  BY DEF Got, FieldOf
<1>2. QED
  BY <1>1 DEF Parse, ParamOK, Kinds

\* A value that is stored comes from the line where the field was found.
LEMMA ParseReads ==
  ASSUME NEW p, NEW beyond \in BOOLEAN, ParamOK(p), Parse(p, beyond).err = "CONFIG_OK"
  PROVE  /\ Got(FieldOf(p), beyond).err = "CONFIG_OK"
         /\ Parse(p, beyond).line = Got(FieldOf(p), beyond).line
<1>1. PICK r : r = Got(FieldOf(p), beyond)
  OBVIOUS
<1>2. r.err = "CONFIG_OK"
  BY <1>1, ParseIs
<1>3. p.kind \in {"text", "bool", "int", "enum", "array"}
  BY DEF ParamOK, Kinds
<1>4. CASE p.kind = "text"
  BY <1>1, <1>2, <1>4, ParseIs
<1>5. CASE p.kind = "array"
  BY <1>1, <1>2, <1>5, ParseIs, Outcomes
<1>6. CASE p.kind = "enum"
  <2>1. Parse(p, beyond) = parse_enum(r, p.names)
    BY <1>1, <1>2, <1>6, ParseIs
  <2>2. QED
    BY <1>1, <1>2, <2>1, Outcomes DEF parse_enum
<1>7. CASE p.kind = "int"
  <2>1. Parse(p, beyond) = parse_int(r, p.min, p.max)
    BY <1>1, <1>2, <1>7, ParseIs
  <2>2. QED
    BY <1>1, <1>2, <2>1, Outcomes DEF parse_int
<1>8. CASE p.kind = "bool"
  <2>1. Parse(p, beyond) = parse_bool(r)
    BY <1>1, <1>2, <1>8, ParseIs
  <2>2. QED
    BY <1>1, <1>2, <2>1, Outcomes DEF parse_bool
<1>9. QED
  BY <1>3, <1>4, <1>5, <1>6, <1>7, <1>8

\* The words that numbers know are 0 and 1.
LEMMA IntNamesAreBits == \A w \in DOMAIN IntNames : IntNames[w] \in {0, 1}
  BY DEF IntNames

\* A value that is stored suits its parameter.
LEMMA ParseSuits ==
  ASSUME NEW p, NEW beyond \in BOOLEAN, ParamOK(p), Parse(p, beyond).err = "CONFIG_OK"
  PROVE  Suits(p, Parse(p, beyond).value)
<1>1. PICK r : r = Got(FieldOf(p), beyond)
  OBVIOUS
<1>2. r.err = "CONFIG_OK"
  BY <1>1, ParseIs
<1>3. p.kind \in {"text", "bool", "int", "enum", "array"}
  BY DEF ParamOK, Kinds
<1>4. CASE p.kind \in {"text", "array"}
  BY <1>4 DEF Suits
<1>5. CASE p.kind = "enum"
  <2>1. Parse(p, beyond) = parse_enum(r, p.names)
    BY <1>1, <1>2, <1>5, ParseIs
  <2>2. \/ \E n \in DOMAIN p.names : Parse(p, beyond).value = p.names[n]
        \/ \E n \in DOMAIN Numeral : Parse(p, beyond).value = Numeral[n]
    BY <2>1, Outcomes DEF parse_enum
  <2>3. QED
    BY <1>5, <2>2 DEF Suits
<1>6. CASE p.kind = "int"
  <2>1. Parse(p, beyond) = parse_int(r, p.min, p.max)
    BY <1>1, <1>2, <1>6, ParseIs
  <2>2. p.min \in Int /\ p.max \in Int
    BY <1>6 DEF ParamOK
  <2>3. Parse(p, beyond).value \in p.min .. p.max \/ Parse(p, beyond).value \in {0, 1}
    BY <2>1, Outcomes, IntNamesAreBits DEF parse_int
  <2>4. QED
    BY <1>6, <2>2, <2>3 DEF Suits
<1>7. CASE p.kind = "bool"
  <2>1. Parse(p, beyond) = parse_bool(r)
    BY <1>1, <1>2, <1>7, ParseIs
  <2>2. PICK v : v = parse_enum(r, BoolNames)
    OBVIOUS
  <2>3. v.err = "CONFIG_OK" /\ Parse(p, beyond) = OK(v.value \in {1, 3, 5, 7}, r.line)
    BY <2>1, <2>2, Zenon DEF parse_bool
  <2>4. Parse(p, beyond).value = (v.value \in {1, 3, 5, 7})
    BY <2>3, Outcomes, Zenon
  <2>5. (v.value \in {1, 3, 5, 7}) \in BOOLEAN
    OBVIOUS
  <2>6. QED
    BY <1>7, <2>4, <2>5 DEF Suits
<1>8. QED
  BY <1>3, <1>4, <1>5, <1>6, <1>7

\* A field that was read as a name and is read again as a number keeps a value
\* that its names or the numerals have.
LEMMA EnumThenInt ==
  ASSUME NEW p, NEW q, ParamOK(p), ParamOK(q), FieldOf(p) = FieldOf(q),
         p.kind = "enum", q.kind = "int", DOMAIN p.names \cap DOMAIN IntNames = {},
         NEW a \in BOOLEAN, NEW b \in BOOLEAN,
         Parse(p, a).err = "CONFIG_OK", Parse(q, b).err = "CONFIG_OK"
  PROVE  Suits(p, Parse(q, b).value)
<1>1. PICK r : r = Got(FieldOf(p), a)
  OBVIOUS
<1>2. r.err = "CONFIG_OK" /\ r = Got(FieldOf(q), b)
  <2>1. Got(FieldOf(p), a).err = "CONFIG_OK" /\ Got(FieldOf(q), b).err = "CONFIG_OK"
    BY ParseReads
  <2>2. QED
    BY <1>1, <2>1, SameValue DEF Got
<1>3. Parse(p, a) = parse_enum(r, p.names) /\ Parse(q, b) = parse_int(r, q.min, q.max)
  BY <1>1, <1>2, ParseIs
<1>4. r.value \in DOMAIN Numeral \/ r.value \in DOMAIN p.names
  BY <1>3, Outcomes DEF parse_enum
<1>5. r.value \in DOMAIN Numeral /\ Parse(q, b).value = Numeral[r.value]
  BY <1>3, <1>4, Outcomes DEF parse_int
<1>6. QED
  BY <1>5 DEF Suits

-----------------------------------------------------------------------------
(* The run over a table. *)

\* What has been read by parameter q, once it is passed.
PassedOK(q) ==
    LET p == Params[q]
        f == FieldOf(p)
    IN  /\ Wanted(p) /\ p.checked => keyLine[f] > 0 /\ Suits(p, config[f])
        /\ ~Wanted(p) => config[f] = Defaults[f]
        /\ Wanted(p) /\ p.checked /\ p.kind = "enum" =>
               \E beyond \in BOOLEAN : Parse(p, beyond).err = "CONFIG_OK"

TypeInv == /\ table \in DOMAIN Tables /\ file \in Files[table]
           /\ next \in 1 .. Len(Params) + 1
           /\ config = [f \in Fields |-> config[f]]
           /\ keyLine \in [Fields -> Nat]
\* what field f holds is what parameter q reads for it
StoredBy(q, beyond, f) ==
    LET r == Parse(Params[q], beyond)
    IN  /\ FieldOf(Params[q]) = f
        /\ r.err = "CONFIG_OK" /\ r.line = keyLine[f] /\ r.value = config[f]
KeyInv == \A f \in Fields : keyLine[f] > 0 =>
              \E q \in DOMAIN Params, beyond \in BOOLEAN : StoredBy(q, beyond, f)
PassedInv == \A q \in 1 .. next - 1 : PassedOK(q)
FreshInv == \A f \in Fields :
                (\A q \in 1 .. next - 1 : FieldOf(Params[q]) # f) => config[f] = Defaults[f]
EndInv == err = "CONFIG_OK" => next = Len(Params) + 1

\* The inductive invariant: what every passed parameter left behind, where every
\* value came from, and that a field no passed parameter names has its default.
Inv == TypeInv /\ KeyInv /\ PassedInv /\ FreshInv /\ EndInv

\* A table lists its parameters.
LEMMA ParamsAre ==
  ASSUME table \in DOMAIN Tables
  PROVE  /\ Len(Params) \in Nat /\ DOMAIN Params = 1 .. Len(Params)
         /\ \A q \in DOMAIN Params : /\ ParamOK(Params[q]) /\ Params[q].key # ""
                                     /\ FieldOf(Params[q]) \in Fields
         /\ DOMAIN Defaults = Fields
<1>1. Len(Params) \in Nat /\ DOMAIN Params = 1 .. Len(Params)
  BY TablesAssumption DEF Params
<1>2. ASSUME NEW q \in DOMAIN Params PROVE ParamOK(Params[q]) /\ Params[q].key # ""
  BY TablesAssumption DEF Params, ParamOK
<1>3. \A q \in DOMAIN Params : FieldOf(Params[q]) \in Fields
  BY DEF Fields, FieldsOf
<1>4. DOMAIN Defaults = Fields
  BY ConfigFileAssumption DEF Defaults, Fields, Params
<1>5. QED
  BY <1>1, <1>2, <1>3, <1>4

\* A switch is the field of a parameter, but of none from its part on.
LEMMA GateIsBefore ==
  ASSUME table \in DOMAIN Tables, NEW q \in DOMAIN Params, Params[q].gate # <<>>
  PROVE  /\ Params[q].gate \in Fields
         /\ \A x \in DOMAIN Params : q <= x => FieldOf(Params[x]) # Params[q].gate
<1>1. SwitchFirst(Params)
  BY TablesAssumption DEF Params
<1>2. Len(Params) \in Nat /\ DOMAIN Params = 1 .. Len(Params)
  BY ParamsAre
<1>3. /\ \E x \in 1 .. q - 1 : FieldOf(Params[x]) = Params[q].gate
      /\ \A x \in q .. Len(Params) : FieldOf(Params[x]) # Params[q].gate
  BY <1>1 DEF SwitchFirst
<1>4. Params[q].gate \in Fields
  <2>1. PICK x \in 1 .. q - 1 : FieldOf(Params[x]) = Params[q].gate
    BY <1>3
  <2>2. x \in DOMAIN Params
    BY <1>2, <2>1
  <2>3. QED
    BY <2>1, <2>2, ParamsAre
<1>5. ASSUME NEW x \in DOMAIN Params, q <= x PROVE x \in q .. Len(Params)
  BY <1>2, <1>5
<1>6. QED
  BY <1>3, <1>4, <1>5

\* Neither the file nor the table changes, nor what they determine.
LEMMA SameFile ==
  ASSUME table' = table, file' = file
  PROVE  /\ Params' = Params /\ Fields' = Fields /\ Defaults' = Defaults
         /\ \A f, b : Got(f, b)' = Got(f, b)
         /\ \A p, b : Parse(p, b)' = Parse(p, b)
<1>1. Params' = Params /\ Fields' = Fields /\ Defaults' = Defaults
  BY DEF Params, Fields, Defaults
<1>2. Heads' = Heads /\ \A h : IndexOf(h)' = IndexOf(h)
  BY DEF Heads, IndexOf
<1>3. find_sections' = find_sections
  BY <1>2 DEF find_sections
<1>4. \A h, b : EndOf(h, b)' = EndOf(h, b)
  BY <1>2, <1>3 DEF EndOf
<1>5. \A h, e, k : ValueBelow(h, e, k)' = ValueBelow(h, e, k)
  BY DEF ValueBelow
<1>6. \A s, k, b : parse_param_value(s, k, b)' = parse_param_value(s, k, b)
  BY <1>3, <1>4, <1>5 DEF parse_param_value
<1>7. \A f, b : Got(f, b)' = Got(f, b)
  BY <1>6 DEF Got
<1>8. \A p, b : Parse(p, b)' = Parse(p, b)
  <2> SUFFICES ASSUME NEW p, NEW b PROVE Parse(p, b)' = Parse(p, b)
    OBVIOUS
  <2>1. /\ parse_param_value(p.section, p.key, b)' = parse_param_value(p.section, p.key, b)
        /\ Defaults' = Defaults
    BY <1>1, <1>6
  <2>2. QED
    BY <2>1 DEF Parse, parse_enum, parse_bool, parse_int
<1>9. QED
  BY <1>1, <1>7, <1>8

\* Init is before the first parameter.
LEMMA InitInv == Init => Inv
<1> SUFFICES ASSUME Init PROVE Inv
  OBVIOUS
<1>1. Len(Params) \in Nat /\ DOMAIN Defaults = Fields
  BY ParamsAre DEF Init
<1>2. next \in 1 .. Len(Params) + 1 /\ 1 .. next - 1 = {}
  BY <1>1 DEF Init
<1>3. keyLine \in [Fields -> Nat] /\ \A f \in Fields : keyLine[f] = 0
  BY DEF Init
<1>4. config = [f \in Fields |-> config[f]]
  BY ConfigFileAssumption DEF Init, Defaults, Fields, Params
<1>5. TypeInv
  BY <1>2, <1>3, <1>4 DEF Init, TypeInv
<1>6. KeyInv
  BY <1>3 DEF KeyInv
<1>7. PassedInv /\ FreshInv /\ EndInv
  BY <1>2 DEF Init, PassedInv, FreshInv, EndInv
<1>8. QED
  BY <1>5, <1>6, <1>7 DEF Inv

\* Nothing is stored and no parameter is passed.
LEMMA StopKeeps ==
  ASSUME Inv, UNCHANGED <<table, file, next, config, keyLine>>, EndInv'
  PROVE  Inv'
<1>1. /\ Params' = Params /\ Fields' = Fields /\ Defaults' = Defaults
      /\ \A f, b : Got(f, b)' = Got(f, b)
      /\ \A p, b : Parse(p, b)' = Parse(p, b)
  BY SameFile
<1>2. TypeInv'
  BY <1>1 DEF Inv, TypeInv
<1>3. KeyInv'
  BY <1>1 DEF Inv, KeyInv, StoredBy
<1>4. PassedInv'
  <2>1. \A q : PassedOK(q)' = PassedOK(q)
    BY <1>1 DEF PassedOK, Wanted, Suits
  <2>2. QED
    BY <2>1 DEF Inv, PassedInv
<1>5. FreshInv'
  BY <1>1 DEF Inv, FreshInv
<1>6. QED
  BY <1>2, <1>3, <1>4, <1>5 DEF Inv

\* A parameter is passed over: its part is off, or it need not be there.
LEMMA PassKeeps ==
  ASSUME Inv, next <= Len(Params), next' = next + 1,
         UNCHANGED <<table, file, config, err, keyLine>>, err = "reading",
         Wanted(Params[next]) => ~Params[next].checked
  PROVE  Inv'
<1>1. /\ Params' = Params /\ Fields' = Fields /\ Defaults' = Defaults
      /\ \A f, b : Got(f, b)' = Got(f, b)
      /\ \A p, b : Parse(p, b)' = Parse(p, b)
  BY SameFile
<1>2. /\ table \in DOMAIN Tables /\ next \in Nat /\ next \in DOMAIN Params
      /\ Len(Params) \in Nat /\ DOMAIN Params = 1 .. Len(Params)
  <2>1. table \in DOMAIN Tables /\ file \in Files[table] /\ next \in 1 .. Len(Params) + 1
    BY DEF Inv, TypeInv
  <2>2. Len(Params) \in Nat /\ DOMAIN Params = 1 .. Len(Params)
    BY <2>1, ParamsAre
  <2>3. next \in 1 .. Len(Params) /\ next \in Nat
    BY <2>1, <2>2
  <2>4. QED
    BY <2>1, <2>2, <2>3
<1>3. TypeInv'
  BY <1>1, <1>2 DEF Inv, TypeInv
<1>4. KeyInv'
  BY <1>1 DEF Inv, KeyInv, StoredBy
<1>5. PassedOK(next)
  <2>1. CASE Wanted(Params[next])
    BY <2>1 DEF PassedOK
  <2>2. CASE ~Wanted(Params[next])
    <3>1. ASSUME NEW q \in 1 .. next - 1 PROVE FieldOf(Params[q]) # FieldOf(Params[next])
      <4>1. q \in DOMAIN Params /\ q < next
        BY <1>2
      <4>2. TwiceAsNumber(Params)
        BY <1>2, TablesAssumption DEF Params
      <4>3. FieldOf(Params[q]) = FieldOf(Params[next]) => Params[next].gate = <<>>
        BY <1>2, <4>1, <4>2 DEF TwiceAsNumber
      <4>4. QED
        BY <2>2, <4>3 DEF Wanted
    <3>2. FieldOf(Params[next]) \in Fields
      BY <1>2, ParamsAre
    <3>3. config[FieldOf(Params[next])] = Defaults[FieldOf(Params[next])]
      BY <3>1, <3>2 DEF Inv, FreshInv
    <3>4. QED
      BY <2>2, <3>3 DEF PassedOK
  <2>3. QED
    BY <2>1, <2>2
<1>6. PassedInv'
  <2>1. \A q : PassedOK(q)' = PassedOK(q)
    BY <1>1 DEF PassedOK, Wanted, Suits
  <2>2. \A q \in 1 .. next' - 1 : q \in 1 .. next - 1 \/ q = next
    BY <1>2
  <2>3. QED
    BY <1>5, <2>1, <2>2 DEF Inv, PassedInv
<1>7. FreshInv'
  <2>1. \A q \in 1 .. next - 1 : q \in 1 .. next' - 1
    BY <1>2
  <2>2. QED
    BY <1>1, <2>1 DEF Inv, FreshInv
<1>8. EndInv'
  BY DEF EndInv
<1>9. QED
  BY <1>3, <1>4, <1>6, <1>7, <1>8 DEF Inv

\* The value of the next parameter is stored.
LEMMA StoreKeeps ==
  ASSUME Inv, next <= Len(Params), next' = next + 1, UNCHANGED <<table, file, err>>,
         err = "reading", Wanted(Params[next]), NEW b \in BOOLEAN,
         Parse(Params[next], b).err = "CONFIG_OK",
         Store(FieldOf(Params[next]), Parse(Params[next], b))
  PROVE  Inv'
<1>0. /\ Params' = Params /\ Fields' = Fields /\ Defaults' = Defaults
      /\ \A f, y : Got(f, y)' = Got(f, y)
      /\ \A y, z : Parse(y, z)' = Parse(y, z)
  BY SameFile
<1>1. PICK p, f0, v, l : /\ p = Params[next] /\ f0 = FieldOf(p)
                         /\ v = Parse(p, b).value /\ l = Parse(p, b).line
  OBVIOUS
<1>2. /\ table \in DOMAIN Tables /\ file \in Files[table]
      /\ next \in Nat /\ next \in DOMAIN Params
      /\ Len(Params) \in Nat /\ DOMAIN Params = 1 .. Len(Params)
  <2>1. table \in DOMAIN Tables /\ file \in Files[table] /\ next \in 1 .. Len(Params) + 1
    BY DEF Inv, TypeInv
  <2>2. Len(Params) \in Nat /\ DOMAIN Params = 1 .. Len(Params)
    BY <2>1, ParamsAre
  <2>3. next \in 1 .. Len(Params) /\ next \in Nat
    BY <2>1, <2>2
  <2>4. QED
    BY <2>1, <2>2, <2>3
<1>3. /\ f0 \in Fields /\ ParamOK(p) /\ Wanted(p) /\ Parse(p, b).err = "CONFIG_OK"
  BY <1>1, <1>2, ParamsAre
<1>4. l \in Nat /\ l > 0 /\ Got(f0, b).err = "CONFIG_OK" /\ Got(f0, b).line = l
  <2>1. FileOK
    BY <1>2, FileIsOK
  <2>2. Got(f0, b).err = "CONFIG_OK" /\ Got(f0, b).line = l
    BY <1>1, <1>3, ParseReads
  <2>3. l \in DOMAIN file
    BY <2>1, <2>2, GotBelow DEF Below
  <2>4. Len(file) \in Nat /\ DOMAIN file = 1 .. Len(file)
    BY <2>1 DEF FileOK
  <2>5. l \in Nat /\ l > 0
    BY <2>3, <2>4
  <2>6. QED
    BY <2>2, <2>5
<1>5. Suits(p, v)
  BY <1>1, <1>3, ParseSuits
<1>6. /\ config' = [config EXCEPT ![f0] = v] /\ keyLine' = [keyLine EXCEPT ![f0] = l]
      /\ DOMAIN config = Fields /\ keyLine \in [Fields -> Nat]
  BY <1>1 DEF Store, Inv, TypeInv
<1>7. /\ config'[f0] = v /\ keyLine'[f0] = l
      /\ \A f \in Fields : f # f0 => config'[f] = config[f] /\ keyLine'[f] = keyLine[f]
  BY <1>3, <1>6
<1>8. TypeInv'
  <2>1. next' \in 1 .. Len(Params) + 1
    BY <1>2
  <2>2. keyLine' \in [Fields -> Nat]
    BY <1>4, <1>6
  <2>3. config' = [f \in Fields |-> config'[f]]
    BY <1>6
  <2>4. QED
    BY <1>0, <1>2, <2>1, <2>2, <2>3 DEF TypeInv
<1>9. KeyInv'
  <2> SUFFICES ASSUME NEW f \in Fields, keyLine'[f] > 0
               PROVE  \E q \in DOMAIN Params, y \in BOOLEAN : StoredBy(q, y, f)'
    BY <1>0 DEF KeyInv
  <2>1. CASE f = f0
    <3>1. /\ Parse(p, b).line = keyLine'[f] /\ Parse(p, b).value = config'[f]
          /\ Params[next] = p /\ Params' = Params /\ FieldOf(p) = f
      BY <1>0, <1>1, <1>7, <2>1
    <3>2. Parse(p, b)' = Parse(p, b)
      BY <1>0
    <3>3. PICK q : q = next
      OBVIOUS
    <3>4. StoredBy(q, b, f)'
      BY <1>3, <3>1, <3>2, <3>3 DEF StoredBy
    <3>5. QED
      BY <1>2, <3>3, <3>4
  <2>2. CASE f # f0
    <3>1. config'[f] = config[f] /\ keyLine'[f] = keyLine[f]
      BY <1>7, <2>2
    <3>2. PICK q \in DOMAIN Params, y \in BOOLEAN : StoredBy(q, y, f)
      BY <3>1 DEF Inv, KeyInv
    <3>3. StoredBy(q, y, f)'
      BY <1>0, <3>1, <3>2 DEF StoredBy
    <3>4. QED
      BY <3>3
  <2>3. QED
    BY <2>1, <2>2
\* The switch of a parameter passed so far, or of this one, is not what is stored.
<1>10. ASSUME NEW q \in 1 .. next PROVE Wanted(Params[q])' <=> Wanted(Params[q])
  <2>1. q \in DOMAIN Params /\ q <= next
    BY <1>2
  <2>2. CASE Params[q].gate = <<>>
    BY <1>0, <2>2 DEF Wanted
  <2>3. CASE Params[q].gate # <<>>
    <3>1. Params[q].gate \in Fields /\ Params[q].gate # f0
      BY <1>1, <1>2, <2>1, <2>3, GateIsBefore
    <3>2. config'[Params[q].gate] = config[Params[q].gate]
      BY <1>7, <3>1
    <3>3. QED
      BY <1>0, <3>2 DEF Wanted
  <2>4. QED
    BY <2>2, <2>3
<1>11. ASSUME NEW q, q = next PROVE PassedOK(q)'
  <2>1. Wanted(Params[q])'
    BY <1>2, <1>10, <1>11
  <2>2. /\ Params[q]' = p /\ FieldOf(p) = f0
        /\ keyLine'[f0] > 0 /\ Suits(p, config'[f0])
    BY <1>0, <1>1, <1>4, <1>5, <1>7, <1>11
  <2>3. Parse(p, b)'.err = "CONFIG_OK"
    BY <1>0, <1>3
  <2>4. QED
    BY <2>1, <2>2, <2>3 DEF PassedOK
<1>12. ASSUME NEW q \in 1 .. next - 1 PROVE PassedOK(q)'
  <2>1. q \in DOMAIN Params /\ q \in 1 .. next /\ q < next
    BY <1>2
  <2>2. PassedOK(q)
    BY DEF Inv, PassedInv
  <2>3. PICK g : g = Params[q]
    OBVIOUS
  <2>4. FieldOf(g) \in Fields /\ ParamOK(g)
    BY <1>2, <2>1, <2>3, ParamsAre
  <2>5. CASE FieldOf(g) # f0
    <3>1. config'[FieldOf(g)] = config[FieldOf(g)] /\ keyLine'[FieldOf(g)] = keyLine[FieldOf(g)]
      BY <1>7, <2>4, <2>5
    <3>2. QED
      BY <1>0, <1>10, <2>1, <2>2, <2>3, <3>1 DEF PassedOK
  <2>6. CASE FieldOf(g) = f0
    <3>1. TwiceAsNumber(Params)
      BY <1>2, TablesAssumption DEF Params
    <3>2. /\ g.kind = "enum" /\ p.kind = "int" /\ g.gate = <<>>
          /\ DOMAIN g.names \cap DOMAIN IntNames = {}
      BY <1>1, <1>2, <2>1, <2>3, <2>6, <3>1 DEF TwiceAsNumber
    <3>3. Wanted(g)
      BY <3>2 DEF Wanted
    <3>4. g.checked => \E a \in BOOLEAN : Parse(g, a).err = "CONFIG_OK"
      BY <2>2, <2>3, <3>2, <3>3 DEF PassedOK
    <3>5. g.checked => Suits(g, v)
      BY <1>1, <1>3, <2>4, <2>6, <3>2, <3>4, EnumThenInt
    <3>6. Wanted(Params[q])'
      BY <1>10, <2>1, <2>3, <3>3
    <3>7. QED
      BY <1>0, <1>4, <1>7, <2>3, <2>6, <3>4, <3>5, <3>6 DEF PassedOK
  <2>7. QED
    BY <2>5, <2>6
<1>13. PassedInv'
  <2>1. \A q \in 1 .. next' - 1 : q \in 1 .. next - 1 \/ q = next
    BY <1>2
  <2>2. QED
    BY <1>11, <1>12, <2>1 DEF PassedInv
<1>14. FreshInv'
  <2>1. (\A q \in 1 .. next - 1 : q \in 1 .. next' - 1) /\ next \in 1 .. next' - 1
    BY <1>2
  <2>2. QED
    BY <1>0, <1>1, <1>7, <2>1 DEF Inv, FreshInv
<1>15. EndInv'
  BY DEF EndInv
<1>16. QED
  BY <1>8, <1>9, <1>13, <1>14, <1>15 DEF Inv

\* Every step keeps the invariant.
LEMMA NextInv == Inv /\ [Next]_vars => Inv'
<1> SUFFICES ASSUME Inv, [Next]_vars PROVE Inv'
  OBVIOUS
<1>1. CASE LoadFails
  BY <1>1, StopKeeps DEF LoadFails, EndInv
<1>2. CASE Skip
  BY <1>2, PassKeeps DEF Skip
<1>3. CASE Read
  <2>1. PICK b \in BOOLEAN :
           LET p == Params[next]
               r == Parse(p, b)
           IN  IF r.err = "CONFIG_OK"
               THEN /\ Store(FieldOf(p), r)
                    /\ next' = next + 1
                    /\ UNCHANGED err
               ELSE /\ UNCHANGED <<config, keyLine>>
                    /\ IF p.checked THEN err' = r.err /\ UNCHANGED next
                                    ELSE next' = next + 1 /\ UNCHANGED err
    BY <1>3 DEF Read
  <2>2. /\ err = "reading" /\ next <= Len(Params) /\ Wanted(Params[next])
        /\ UNCHANGED <<table, file>>
    BY <1>3 DEF Read
  <2>3. CASE Parse(Params[next], b).err = "CONFIG_OK"
    BY <2>1, <2>2, <2>3, StoreKeeps
  <2>4. CASE Parse(Params[next], b).err # "CONFIG_OK" /\ Params[next].checked
    <3>1. EndInv'
      BY <2>1, <2>4 DEF EndInv
    <3>2. QED
      BY <2>1, <2>2, <2>4, <3>1, StopKeeps
  <2>5. CASE Parse(Params[next], b).err # "CONFIG_OK" /\ ~Params[next].checked
    BY <2>1, <2>2, <2>5, PassKeeps
  <2>6. QED
    BY <2>3, <2>4, <2>5
<1>4. CASE Return
  <2>1. Params' = Params
    BY <1>4 DEF Return, Params
  <2>2. EndInv'
    BY <1>4, <2>1 DEF Return, EndInv
  <2>3. QED
    BY <1>4, <2>2, StopKeeps DEF Return
<1>5. CASE UNCHANGED vars
  <2>1. Params' = Params
    BY <1>5 DEF vars, Params
  <2>2. EndInv'
    BY <1>5, <2>1 DEF vars, Inv, EndInv
  <2>3. QED
    BY <1>5, <2>2, StopKeeps DEF vars
<1>6. QED
  BY <1>1, <1>2, <1>3, <1>4, <1>5 DEF Next

\* The invariant holds throughout.
LEMMA SpecInv == Spec => []Inv
  BY InitInv, NextInv, PTL DEF Spec

-----------------------------------------------------------------------------
(* The properties. *)

\* A field that has a value has it from a line of the file with its key.
LEMMA KeyIsBelow ==
  ASSUME Inv, NEW f \in Fields, keyLine[f] > 0
  PROVE  FileOK /\ keyLine[f] \notin Heads /\ \E beyond \in BOOLEAN : Below(f, keyLine[f], beyond)
<1>1. FileOK
  BY FileIsOK DEF Inv, TypeInv
<1>2. PICK beyond \in BOOLEAN :
         Got(f, beyond).err = "CONFIG_OK" /\ Got(f, beyond).line = keyLine[f]
  <2>1. PICK q \in DOMAIN Params, beyond \in BOOLEAN : StoredBy(q, beyond, f)
    BY DEF Inv, KeyInv
  <2>2. ParamOK(Params[q])
    BY ParamsAre DEF Inv, TypeInv
  <2>3. Got(f, beyond).err = "CONFIG_OK" /\ Got(f, beyond).line = keyLine[f]
    BY <2>1, <2>2, ParseReads DEF StoredBy
  <2>4. QED
    BY <2>3
<1>3. Below(f, keyLine[f], beyond)
  BY <1>1, <1>2, GotBelow
<1>4. keyLine[f] \notin Heads
  <2>1. PICK q \in DOMAIN Params : f = FieldOf(Params[q])
    BY DEF Fields, FieldsOf
  <2>2. Params[q].key # ""
    BY <2>1, ParamsAre DEF Inv, TypeInv
  <2>3. keyLine[f] \in DOMAIN file /\ file[keyLine[f]].key = Params[q].key
    BY <1>3, <2>1 DEF Below, FieldOf
  <2>4. QED
    BY <1>1, <2>2, <2>3 DEF FileOK, Heads
<1>5. QED
  BY <1>1, <1>3, <1>4

\* A key in the field's own section gives the value, for every file and table.
THEOREM OwnKeyIsTaken == Spec => []OwnKeyWins
<1>1. Inv => OwnKeyWins
  <2> SUFFICES ASSUME Inv, NEW f \in Fields, keyLine[f] > 0, OwnKeys(f) # {}
               PROVE  keyLine[f] = Least(OwnKeys(f))
    BY DEF OwnKeyWins
  <2>1. QED
    BY KeyIsBelow, OwnFirst
<1>2. QED
  BY <1>1, SpecInv, PTL

\* A value from a foreign section comes from below, and for a section of the
\* second half, for every file, table and bound above 1.
THEOREM StrayIsFromSecondHalf == Spec => []StrayOnlyFromSecondHalf
<1>1. Inv => StrayOnlyFromSecondHalf
  <2> SUFFICES ASSUME Inv, NEW f \in Fields, keyLine[f] > 0, keyLine[f] \notin OwnKeys(f)
               PROVE  /\ keyLine[f] > HeadOf(f)
                      /\ 2 * IndexOf(HeadOf(f)) >= Cardinality(find_sections)
    BY DEF StrayOnlyFromSecondHalf
  <2>1. PICK beyond \in BOOLEAN : Below(f, keyLine[f], beyond)
    BY KeyIsBelow
  <2>2. keyLine[f] > HeadOf(f)
    BY <2>1 DEF Below
  <2>3. 2 * IndexOf(HeadOf(f)) >= Cardinality(find_sections)
    BY <2>1, KeyIsBelow, StrayIsLate
  <2>4. QED
    BY <2>2, <2>3
<1>2. QED
  BY <1>1, SpecInv, PTL

\* CONFIG_OK is a complete configuration, for every file and table.
THEOREM OkIsComplete == Spec => []OkMeansComplete
<1>1. Inv => OkMeansComplete
  <2> SUFFICES ASSUME Inv, err = "CONFIG_OK", NEW q \in DOMAIN Params
               PROVE  LET p == Params[q]
                          f == FieldOf(p)
                      IN  /\ Wanted(p) /\ p.checked => keyLine[f] > 0 /\ Suits(p, config[f])
                          /\ ~Wanted(p) => config[f] = Defaults[f]
    BY DEF OkMeansComplete
  <2>1. q \in 1 .. next - 1
    <3>1. Len(Params) \in Nat /\ DOMAIN Params = 1 .. Len(Params) /\ next = Len(Params) + 1
      BY ParamsAre DEF Inv, TypeInv, EndInv
    <3>2. QED
      BY <3>1
  <2>2. QED
    BY <2>1 DEF Inv, PassedInv, PassedOK
<1>2. QED
  BY <1>1, SpecInv, PTL

-----------------------------------------------------------------------------
(* The names of the sensor's table against the types of the SDK. *)

\* No name is listed twice.
Distinct(names) == \A i, j \in DOMAIN names : names[i] = names[j] => i = j

\* The place of a name in a list without repetition.
LEMMA PlaceOf ==
  ASSUME NEW names, Distinct(names), NEW q \in DOMAIN names
  PROVE  (CHOOSE i \in DOMAIN names : names[i] = names[q]) = q
<1>1. \E i \in DOMAIN names : names[i] = names[q]
  OBVIOUS
<1>2. QED
  BY <1>1 DEF Distinct

\* Names listed as those of an enumeration are, from the number of its first,
\* have the values they have in the enumeration.
Follow(names, type) ==
    \A q \in DOMAIN names : q \in DOMAIN type /\ type[q] = SdkName(names[q])
LEMMA SameNames ==
  ASSUME NEW names, NEW type, NEW first, Distinct(names), Distinct(type), Follow(names, type),
         NEW n \in DOMAIN Values(names, first)
  PROVE  /\ SdkName(n) \in DOMAIN Enum(first, type)
         /\ Values(names, first)[n] = Enum(first, type)[SdkName(n)]
<1>0. DOMAIN Values(names, first) = ToSet(names)
  BY DEF Values
<1>1. PICK q \in DOMAIN names : n = names[q]
  BY <1>0 DEF ToSet
<1> DEFINE m == SdkName(n)
<1>2. q \in DOMAIN type /\ type[q] = m
  BY <1>1 DEF Follow
<1> HIDE DEF m
<1>3. (CHOOSE i \in DOMAIN names : names[i] = n) = q
  BY <1>1, PlaceOf
<1>4. (CHOOSE i \in DOMAIN type : type[i] = m) = q
  BY <1>2, PlaceOf
<1>5. m \in {type[i] : i \in DOMAIN type}
  BY <1>2
<1>6. Values(names, first)[n] = first + q - 1
  BY <1>0, <1>3 DEF Values
<1>7. m \in DOMAIN Enum(first, type) /\ Enum(first, type)[m] = first + q - 1
  BY <1>4, <1>5 DEF Enum
<1> USE DEF m
<1>8. QED
  BY <1>6, <1>7

\* What the declared types say of a parameter.
Agrees(p) ==
    \A t \in FieldTypes : t.field = FieldOf(p) =>
        /\ p.kind = "enum"
        /\ \A n \in DOMAIN p.names : SdkName(n) \in DOMAIN t.type /\ p.names[n] = ValueFor(t, n)
AgreeingList(params) == \E S : params \in Seq(S) /\ \A p \in S : Agrees(p)

\* Two such lists are one.
LEMMA ConcatAgrees ==
  ASSUME NEW s, NEW t, AgreeingList(s), AgreeingList(t)
  PROVE  AgreeingList(s \o t) /\ FieldsOf(s) \cup FieldsOf(t) \subseteq FieldsOf(s \o t)
<1>1. PICK S : s \in Seq(S) /\ \A p \in S : Agrees(p)
  BY DEF AgreeingList
<1>2. PICK T : t \in Seq(T) /\ \A p \in T : Agrees(p)
  BY DEF AgreeingList
<1>3. s \in Seq(S \cup T) /\ t \in Seq(S \cup T)
  BY <1>1, <1>2
<1>4. s \o t \in Seq(S \cup T)
  BY <1>3
<1>5. AgreeingList(s \o t)
  BY <1>1, <1>2, <1>4 DEF AgreeingList
<1>6. /\ Len(s) \in Nat /\ DOMAIN s = 1 .. Len(s) /\ Len(t) \in Nat /\ DOMAIN t = 1 .. Len(t)
      /\ DOMAIN (s \o t) = 1 .. Len(s) + Len(t)
  BY <1>3
<1>7. ASSUME NEW q \in DOMAIN s PROVE q \in DOMAIN (s \o t) /\ (s \o t)[q] = s[q]
  BY <1>3, <1>6
<1>8. ASSUME NEW q \in DOMAIN t
      PROVE  Len(s) + q \in DOMAIN (s \o t) /\ (s \o t)[Len(s) + q] = t[q]
  BY <1>3, <1>6
<1>9. FieldsOf(s) \cup FieldsOf(t) \subseteq FieldsOf(s \o t)
  BY <1>7, <1>8 DEF FieldsOf
<1>10. QED
  BY <1>5, <1>9

\* A field without a declared type of names, and one with such a type, other
\* than the byte orders.
Untyped(section, key) == \A t \in FieldTypes : t.field # <<section, key>>
TypeIs(section, key, type) ==
    /\ <<section, key>> \notin ByteOrders
    /\ \A t \in FieldTypes : t.field = <<section, key>> => t.type = type

\* A parameter of an untyped field agrees.
LEMMA UntypedAgrees ==
  ASSUME NEW section, NEW key, Untyped(section, key), NEW p, p.section = section, p.key = key
  PROVE  Agrees(p)
BY DEF Agrees, Untyped, FieldOf

\* A parameter that takes names agrees when its values do.
LEMMA EnumAgrees ==
  ASSUME NEW section, NEW key, NEW names, NEW type, TypeIs(section, key, type),
         \A n \in DOMAIN names : SdkName(n) \in DOMAIN type /\ names[n] = type[SdkName(n)]
  PROVE  Agrees(EnumParam(section, key, names))
<1>1. PICK p : p = EnumParam(section, key, names)
  OBVIOUS
<1>2. p.section = section /\ p.key = key /\ p.kind = "enum" /\ p.names = names
  BY <1>1 DEF EnumParam, Param
<1>3. Agrees(p)
  BY <1>2 DEF Agrees, TypeIs, FieldOf, ValueFor
<1>4. QED
  BY <1>1, <1>3

\* A list of numbers agrees when its fields are untyped.
LEMMA IntsAgree ==
  ASSUME NEW section, NEW K, NEW keys \in Seq(K), NEW min, NEW max,
         \A k \in K : Untyped(section, k)
  PROVE  AgreeingList(Ints(section, keys, min, max))
<1> DEFINE S == {IntParam(section, keys[q], min, max) : q \in DOMAIN keys}
<1>1. Ints(section, keys, min, max) \in Seq(S)
  <2>1. Len(keys) \in Nat /\ DOMAIN keys = 1 .. Len(keys)
    OBVIOUS
  <2>2. QED
    BY <2>1 DEF Ints
<1>2. ASSUME NEW q \in DOMAIN keys PROVE Agrees(IntParam(section, keys[q], min, max))
  <2>1. PICK p : p = IntParam(section, keys[q], min, max)
    OBVIOUS
  <2>2. p.section = section /\ p.key = keys[q]
    BY <2>1 DEF IntParam, Param
  <2>3. QED
    BY <2>1, <2>2, UntypedAgrees
<1>3. QED
  BY <1>1, <1>2 DEF AgreeingList

\* So does a list of arrays.
LEMMA ArraysAgree ==
  ASSUME NEW section, NEW K, NEW keys \in Seq(K), \A k \in K : Untyped(section, k)
  PROVE  AgreeingList(Arrays(section, keys))
<1> DEFINE S == {ArrayParam(section, keys[q]) : q \in DOMAIN keys}
<1>1. Arrays(section, keys) \in Seq(S)
  <2>1. Len(keys) \in Nat /\ DOMAIN keys = 1 .. Len(keys)
    OBVIOUS
  <2>2. QED
    BY <2>1 DEF Arrays
<1>2. ASSUME NEW q \in DOMAIN keys PROVE Agrees(ArrayParam(section, keys[q]))
  <2>1. PICK p : p = ArrayParam(section, keys[q])
    OBVIOUS
  <2>2. p.section = section /\ p.key = keys[q]
    BY <2>1 DEF ArrayParam, Param
  <2>3. QED
    BY <2>1, <2>2, UntypedAgrees
<1>3. QED
  BY <1>1, <1>2 DEF AgreeingList

\* Parameter p takes the first names of an SDK type, in their order.
Lists(p, section, key, sdk) ==
    \E names, type, first :
        /\ p = EnumParam(section, key, Values(names, first)) /\ sdk = Enum(first, type)
        /\ Distinct(names) /\ Distinct(type) /\ Follow(names, type)

\* Such a parameter agrees with its declared type.
LEMMA ListedAgrees ==
  ASSUME NEW p, NEW section, NEW key, NEW sdk, TypeIs(section, key, sdk), Lists(p, section, key, sdk)
  PROVE  Agrees(p) /\ FieldOf(p) = <<section, key>>
<1>1. PICK names, type, first :
         /\ p = EnumParam(section, key, Values(names, first)) /\ sdk = Enum(first, type)
         /\ Distinct(names) /\ Distinct(type) /\ Follow(names, type)
  BY DEF Lists
<1>2. \A n \in DOMAIN Values(names, first) :
         /\ SdkName(n) \in DOMAIN Enum(first, type)
         /\ Values(names, first)[n] = Enum(first, type)[SdkName(n)]
  BY <1>1, SameNames
<1>3. Agrees(p)
  BY <1>1, <1>2, EnumAgrees
<1>4. FieldOf(p) = <<section, key>>
  BY <1>1 DEF EnumParam, Param, FieldOf
<1>5. QED
  BY <1>3, <1>4

\* A list agrees when each of its elements does.
LEMMA ElementsAgree ==
  ASSUME NEW s, NEW S, s \in Seq(S), \A q \in 1 .. Len(s) : Agrees(s[q])
  PROVE  AgreeingList(s)
<1>1. s \in Seq({s[q] : q \in 1 .. Len(s)})
  OBVIOUS
<1>2. QED
  BY <1>1 DEF AgreeingList

\* [sensor], [mode] and [mipi].
LEMMA HeadAgrees ==
  /\ AgreeingList(SensorHead)
  /\ {<<"sensor", "mode">>, <<"mode", "input_mode">>, <<"mipi", "data_type">>}
     \subseteq FieldsOf(SensorHead)
<1>1. Agrees(SensorHead[1])
  <2>1. Untyped("sensor", "sensor_type")
    BY DEF Untyped, FieldTypes, Typed
  <2>2. SensorHead[1].section = "sensor" /\ SensorHead[1].key = "sensor_type"
    BY DEF SensorHead, TextParam, Param
  <2>3. QED
    BY <2>1, <2>2, UntypedAgrees
<1>2. Agrees(SensorHead[2]) /\ FieldOf(SensorHead[2]) = <<"sensor", "mode">>
  <2>1. TypeIs("sensor", "mode", WDR_MODE_E)
    BY DEF TypeIs, FieldTypes, Typed, ByteOrders
  <2>2. Lists(SensorHead[2], "sensor", "mode", WDR_MODE_E)
    BY DEF SensorHead, WDR_MODE_E, Lists, Distinct, Follow, SdkName
  <2>3. QED
    BY <2>1, <2>2, ListedAgrees
<1>3. Agrees(SensorHead[3])
  <2>1. Untyped("sensor", "DllFile")
    BY DEF Untyped, FieldTypes, Typed
  <2>2. SensorHead[3].section = "sensor" /\ SensorHead[3].key = "DllFile"
    BY DEF SensorHead, TextParam, Param
  <2>3. QED
    BY <2>1, <2>2, UntypedAgrees
<1>4. Agrees(SensorHead[4]) /\ FieldOf(SensorHead[4]) = <<"mode", "input_mode">>
  <2>1. TypeIs("mode", "input_mode", input_mode_t)
    BY DEF TypeIs, FieldTypes, Typed, ByteOrders
  <2>2. Lists(SensorHead[4], "mode", "input_mode", input_mode_t)
    BY DEF SensorHead, input_mode_t, Lists, Distinct, Follow, SdkName
  <2>3. QED
    BY <2>1, <2>2, ListedAgrees
<1>5. Agrees(SensorHead[5])
  <2>1. Untyped("mode", "dev_attr")
    BY DEF Untyped, FieldTypes, Typed
  <2>2. SensorHead[5].section = "mode" /\ SensorHead[5].key = "dev_attr"
    BY DEF SensorHead, IntParam, Param
  <2>3. QED
    BY <2>1, <2>2, UntypedAgrees
<1>6. Agrees(SensorHead[6]) /\ FieldOf(SensorHead[6]) = <<"mipi", "data_type">>
  <2>1. TypeIs("mipi", "data_type", raw_data_type_e)
    BY DEF TypeIs, FieldTypes, Typed, ByteOrders
  <2>2. Lists(SensorHead[6], "mipi", "data_type", raw_data_type_e)
    BY DEF SensorHead, RawDataNames, raw_data_type_e, Lists, Distinct, Follow, SdkName
  <2>3. QED
    BY <2>1, <2>2, ListedAgrees
<1>7. Agrees(SensorHead[7])
  <2>1. Untyped("mipi", "lane_id")
    BY DEF Untyped, FieldTypes, Typed
  <2>2. SensorHead[7].section = "mipi" /\ SensorHead[7].key = "lane_id"
    BY DEF SensorHead, ArrayParam, Param
  <2>3. QED
    BY <2>1, <2>2, UntypedAgrees
<1>8. Len(SensorHead) = 7 /\ SensorHead \in Seq({SensorHead[q] : q \in 1 .. 7})
  BY DEF SensorHead
<1>9. ASSUME NEW q \in 1 .. 7 PROVE Agrees(SensorHead[q])
  <2>1. q = 1 \/ q = 2 \/ q = 3 \/ q = 4 \/ q = 5 \/ q = 6 \/ q = 7
    OBVIOUS
  <2>2. QED
    BY <2>1, <1>1, <1>2, <1>3, <1>4, <1>5, <1>6, <1>7
<1>10. AgreeingList(SensorHead)
  BY <1>8, <1>9, ElementsAgree
<1>11. DOMAIN SensorHead = 1 .. 7
  BY <1>8
<1>12. QED
  BY <1>2, <1>4, <1>6, <1>10, <1>11 DEF FieldsOf

\* The names of the byte orders have one more than the SDK gives them.
LEMMA EndianValues ==
  \A n \in DOMAIN Values(EndianNames, 1) :
      /\ SdkName(n) \in DOMAIN lvds_bit_endian
      /\ Values(EndianNames, 1)[n] = lvds_bit_endian[SdkName(n)] + 1
<1> DEFINE type == <<"LVDS_ENDIAN_LITTLE", "LVDS_ENDIAN_BIG", "LVDS_ENDIAN_BUTT">>
<1>1. lvds_bit_endian = Enum(0, type)
  BY DEF lvds_bit_endian
<1>2. /\ Distinct(EndianNames) /\ Distinct(type)
      /\ DOMAIN EndianNames = 1 .. 2 /\ DOMAIN type = 1 .. 3
      /\ \A q \in 1 .. 2 : type[q] = EndianNames[q] /\ SdkName(EndianNames[q]) = EndianNames[q]
  BY DEF EndianNames, Distinct, SdkName
<1> HIDE DEF type
<1>3. DOMAIN Values(EndianNames, 1) = ToSet(EndianNames)
  BY DEF Values
<1> SUFFICES ASSUME NEW q \in 1 .. 2
             PROVE  /\ EndianNames[q] \in DOMAIN Enum(0, type)
                    /\ Values(EndianNames, 1)[EndianNames[q]] = Enum(0, type)[EndianNames[q]] + 1
  BY <1>1, <1>2, <1>3 DEF ToSet
<1>4. (CHOOSE k \in DOMAIN EndianNames : EndianNames[k] = EndianNames[q]) = q
  BY <1>2, PlaceOf
<1>5. (CHOOSE k \in DOMAIN type : type[k] = EndianNames[q]) = q
  BY <1>2, PlaceOf
<1>6. EndianNames[q] \in {type[k] : k \in DOMAIN type}
  BY <1>2
<1>7. EndianNames[q] \in DOMAIN Enum(0, type) /\ Enum(0, type)[EndianNames[q]] = 0 + q - 1
  BY <1>5, <1>6 DEF Enum
<1>8. Values(EndianNames, 1)[EndianNames[q]] = 1 + q - 1
  BY <1>2, <1>3, <1>4 DEF Values, ToSet
<1>9. QED
  BY <1>7, <1>8

\* So a byte order agrees, one above the SDK.
LEMMA EndianAgrees ==
  ASSUME NEW key, <<"lvds", key>> \in ByteOrders,
         \A t \in FieldTypes : t.field = <<"lvds", key>> => t.type = lvds_bit_endian,
         NEW p, p = EnumParam("lvds", key, Values(EndianNames, 1))
  PROVE  Agrees(p) /\ FieldOf(p) = <<"lvds", key>>
<1>1. /\ p.section = "lvds" /\ p.key = key /\ p.kind = "enum"
      /\ p.names = Values(EndianNames, 1)
  BY DEF EnumParam, Param
<1>2. FieldOf(p) = <<"lvds", key>>
  BY <1>1 DEF FieldOf
<1>3. Agrees(p)
  BY <1>1, <1>2, EndianValues DEF Agrees, ValueFor
<1>4. QED
  BY <1>2, <1>3

\* The names of [lvds].
LEMMA LvdsModesAgree ==
  /\ AgreeingList(LvdsModes)
  /\ {<<"lvds", "wdr_mode">>, <<"lvds", "sync_mode">>, <<"lvds", "raw_data_type">>,
      <<"lvds", "data_endian">>, <<"lvds", "sync_code_endian">>}
     \subseteq FieldsOf(LvdsModes)
<1>1. Agrees(LvdsModes[1]) /\ FieldOf(LvdsModes[1]) = <<"lvds", "wdr_mode">>
  <2>1. TypeIs("lvds", "wdr_mode", wdr_mode_e)
    BY DEF TypeIs, FieldTypes, Typed, ByteOrders
  <2>2. Lists(LvdsModes[1], "lvds", "wdr_mode", wdr_mode_e)
    BY DEF LvdsModes, wdr_mode_e, Lists, Distinct, Follow, SdkName
  <2>3. QED
    BY <2>1, <2>2, ListedAgrees
<1>2. Agrees(LvdsModes[2]) /\ FieldOf(LvdsModes[2]) = <<"lvds", "sync_mode">>
  <2>1. TypeIs("lvds", "sync_mode", lvds_sync_mode_e)
    BY DEF TypeIs, FieldTypes, Typed, ByteOrders
  <2>2. Lists(LvdsModes[2], "lvds", "sync_mode", lvds_sync_mode_e)
    BY DEF LvdsModes, lvds_sync_mode_e, Lists, Distinct, Follow, SdkName
  <2>3. QED
    BY <2>1, <2>2, ListedAgrees
<1>3. Agrees(LvdsModes[3]) /\ FieldOf(LvdsModes[3]) = <<"lvds", "raw_data_type">>
  <2>1. TypeIs("lvds", "raw_data_type", raw_data_type_e)
    BY DEF TypeIs, FieldTypes, Typed, ByteOrders
  <2>2. Lists(LvdsModes[3], "lvds", "raw_data_type", raw_data_type_e)
    BY DEF LvdsModes, RawDataNames, raw_data_type_e, Lists, Distinct, Follow, SdkName
  <2>3. QED
    BY <2>1, <2>2, ListedAgrees
<1>4. Agrees(LvdsModes[4]) /\ FieldOf(LvdsModes[4]) = <<"lvds", "data_endian">>
  <2>1. LvdsModes[4] = EnumParam("lvds", "data_endian", Values(EndianNames, 1))
    BY DEF LvdsModes
  <2>2. \A t \in FieldTypes : t.field = <<"lvds", "data_endian">> => t.type = lvds_bit_endian
    BY DEF FieldTypes, Typed
  <2>3. <<"lvds", "data_endian">> \in ByteOrders
    BY DEF ByteOrders
  <2>4. QED
    BY <2>1, <2>2, <2>3, EndianAgrees
<1>5. Agrees(LvdsModes[5]) /\ FieldOf(LvdsModes[5]) = <<"lvds", "sync_code_endian">>
  <2>1. LvdsModes[5] = EnumParam("lvds", "sync_code_endian", Values(EndianNames, 1))
    BY DEF LvdsModes
  <2>2. \A t \in FieldTypes : t.field = <<"lvds", "sync_code_endian">> => t.type = lvds_bit_endian
    BY DEF FieldTypes, Typed
  <2>3. <<"lvds", "sync_code_endian">> \in ByteOrders
    BY DEF ByteOrders
  <2>4. QED
    BY <2>1, <2>2, <2>3, EndianAgrees
<1>6. Agrees(LvdsModes[6])
  <2>1. Untyped("lvds", "lane_id")
    BY DEF Untyped, FieldTypes, Typed
  <2>2. LvdsModes[6].section = "lvds" /\ LvdsModes[6].key = "lane_id"
    BY DEF LvdsModes, ArrayParam, Param
  <2>3. QED
    BY <2>1, <2>2, UntypedAgrees
<1>7. Len(LvdsModes) = 6 /\ LvdsModes \in Seq({LvdsModes[q] : q \in 1 .. 6})
  BY DEF LvdsModes
<1>8. ASSUME NEW q \in 1 .. 6 PROVE Agrees(LvdsModes[q])
  <2>1. q = 1 \/ q = 2 \/ q = 3 \/ q = 4 \/ q = 5 \/ q = 6
    OBVIOUS
  <2>2. QED
    BY <2>1, <1>1, <1>2, <1>3, <1>4, <1>5, <1>6
<1>9. AgreeingList(LvdsModes)
  BY <1>7, <1>8, ElementsAgree
<1>10. DOMAIN LvdsModes = 1 .. 6
  BY <1>7
<1>11. QED
  BY <1>1, <1>2, <1>3, <1>4, <1>5, <1>9, <1>10 DEF FieldsOf

\* The order of the data has two lists, and so has its type.
LEMMA DataSeqAgrees == Agrees(EnumParam("vi_dev", "Data_seq", DataSeq))
<1>1. TypeIs("vi_dev", "Data_seq", VI_DATA_YUV_SEQ_E)
  BY DEF TypeIs, FieldTypes, Typed, ByteOrders
<1> DEFINE uvNames == <<"VI_INPUT_DATA_VUVU", "VI_INPUT_DATA_UVUV">>
           yuvNames == <<"VI_INPUT_DATA_UYVY", "VI_INPUT_DATA_VYUY",
                         "VI_INPUT_DATA_YUYV", "VI_INPUT_DATA_YVYU">>
           yuvType == <<"VI_INPUT_DATA_UYVY", "VI_INPUT_DATA_VYUY",
                        "VI_INPUT_DATA_YUYV", "VI_INPUT_DATA_YVYU", "VI_DATA_YUV_BUTT">>
<1>2. /\ Distinct(uvNames) /\ Distinct(yuvNames) /\ Distinct(yuvType)
      /\ Follow(uvNames, uvNames) /\ Follow(yuvNames, yuvType)
  BY DEF Distinct, Follow, SdkName
<1>0. \A n \in DOMAIN Values(uvNames, 0) \cup DOMAIN Values(yuvNames, 0) : SdkName(n) = n
  BY DEF Values, ToSet, SdkName
<1>3. /\ DOMAIN Values(uvNames, 0) = {uvNames[1], uvNames[2]}
      /\ DOMAIN Enum(0, uvNames) = {uvNames[1], uvNames[2]}
  BY DEF Values, Enum, ToSet
<1>4. DataSeq = [n \in DOMAIN Values(uvNames, 0) \cup DOMAIN Values(yuvNames, 0) |->
                    IF n \in DOMAIN Values(uvNames, 0) THEN Values(uvNames, 0)[n] ELSE Values(yuvNames, 0)[n]]
  BY DEF DataSeq
<1>5. VI_DATA_YUV_SEQ_E =
         [n \in DOMAIN Enum(0, uvNames) \cup DOMAIN Enum(0, yuvType) |->
             IF n \in DOMAIN Enum(0, uvNames) THEN Enum(0, uvNames)[n] ELSE Enum(0, yuvType)[n]]
  BY DEF VI_DATA_YUV_SEQ_E
<1>6. \A n \in DOMAIN Values(uvNames, 0) :
         n \in DOMAIN Enum(0, uvNames) /\ Values(uvNames, 0)[n] = Enum(0, uvNames)[n]
  <2> HIDE DEF uvNames, yuvNames
  <2>1. QED
    BY <1>0, <1>2, SameNames
<1>7. \A n \in DOMAIN Values(yuvNames, 0) :
         n \in DOMAIN Enum(0, yuvType) /\ Values(yuvNames, 0)[n] = Enum(0, yuvType)[n]
  <2> HIDE DEF uvNames, yuvNames, yuvType
  <2>1. QED
    BY <1>0, <1>2, SameNames
<1> HIDE DEF uvNames, yuvNames, yuvType
<1>8. \A n \in DOMAIN DataSeq : /\ SdkName(n) \in DOMAIN VI_DATA_YUV_SEQ_E
                               /\ DataSeq[n] = VI_DATA_YUV_SEQ_E[SdkName(n)]
  BY <1>0, <1>3, <1>4, <1>5, <1>6, <1>7
<1>9. QED
  BY <1>1, <1>8, EnumAgrees

\* The modes of [vi_dev].
LEMMA ViDevModesAgree ==
  /\ AgreeingList(ViDevModes)
  /\ {<<"vi_dev", "Input_mod">>, <<"vi_dev", "Work_mod">>, <<"vi_dev", "Combine_mode">>,
     <<"vi_dev", "Comp_mode">>, <<"vi_dev", "Clock_edge">>}
     \subseteq FieldsOf(ViDevModes)
<1>1. Agrees(ViDevModes[1]) /\ FieldOf(ViDevModes[1]) = <<"vi_dev", "Input_mod">>
  <2>1. TypeIs("vi_dev", "Input_mod", VI_INPUT_MODE_E)
    BY DEF TypeIs, FieldTypes, Typed, ByteOrders
  <2>2. Lists(ViDevModes[1], "vi_dev", "Input_mod", VI_INPUT_MODE_E)
    BY DEF ViDevModes, ViDev, VI_INPUT_MODE_E, Lists, Distinct, Follow, SdkName
  <2>3. QED
    BY <2>1, <2>2, ListedAgrees
<1>2. Agrees(ViDevModes[2]) /\ FieldOf(ViDevModes[2]) = <<"vi_dev", "Work_mod">>
  <2>1. TypeIs("vi_dev", "Work_mod", VI_WORK_MODE_E)
    BY DEF TypeIs, FieldTypes, Typed, ByteOrders
  <2>2. Lists(ViDevModes[2], "vi_dev", "Work_mod", VI_WORK_MODE_E)
    BY DEF ViDevModes, ViDev, VI_WORK_MODE_E, Lists, Distinct, Follow, SdkName
  <2>3. QED
    BY <2>1, <2>2, ListedAgrees
<1>3. Agrees(ViDevModes[3]) /\ FieldOf(ViDevModes[3]) = <<"vi_dev", "Combine_mode">>
  <2>1. TypeIs("vi_dev", "Combine_mode", VI_COMBINE_MODE_E)
    BY DEF TypeIs, FieldTypes, Typed, ByteOrders
  <2>2. Lists(ViDevModes[3], "vi_dev", "Combine_mode", VI_COMBINE_MODE_E)
    BY DEF ViDevModes, ViDev, VI_COMBINE_MODE_E, Lists, Distinct, Follow, SdkName
  <2>3. QED
    BY <2>1, <2>2, ListedAgrees
<1>4. Agrees(ViDevModes[4]) /\ FieldOf(ViDevModes[4]) = <<"vi_dev", "Comp_mode">>
  <2>1. TypeIs("vi_dev", "Comp_mode", VI_COMP_MODE_E)
    BY DEF TypeIs, FieldTypes, Typed, ByteOrders
  <2>2. Lists(ViDevModes[4], "vi_dev", "Comp_mode", VI_COMP_MODE_E)
    BY DEF ViDevModes, ViDev, VI_COMP_MODE_E, Lists, Distinct, Follow, SdkName
  <2>3. QED
    BY <2>1, <2>2, ListedAgrees
<1>5. Agrees(ViDevModes[5]) /\ FieldOf(ViDevModes[5]) = <<"vi_dev", "Clock_edge">>
  <2>1. TypeIs("vi_dev", "Clock_edge", VI_CLK_EDGE_E)
    BY DEF TypeIs, FieldTypes, Typed, ByteOrders
  <2>2. Lists(ViDevModes[5], "vi_dev", "Clock_edge", VI_CLK_EDGE_E)
    BY DEF ViDevModes, ViDev, VI_CLK_EDGE_E, Lists, Distinct, Follow, SdkName
  <2>3. QED
    BY <2>1, <2>2, ListedAgrees
<1>6. Agrees(ViDevModes[6])
  <2>1. Untyped("vi_dev", "Mask_num")
    BY DEF Untyped, FieldTypes, Typed
  <2>2. ViDevModes[6].section = "vi_dev" /\ ViDevModes[6].key = "Mask_num"
    BY DEF ViDevModes, IntParam, Param
  <2>3. QED
    BY <2>1, <2>2, UntypedAgrees
<1>7. Len(ViDevModes) = 6 /\ ViDevModes \in Seq({ViDevModes[q] : q \in 1 .. 6})
  BY DEF ViDevModes
<1>8. ASSUME NEW q \in 1 .. 6 PROVE Agrees(ViDevModes[q])
  <2>1. q = 1 \/ q = 2 \/ q = 3 \/ q = 4 \/ q = 5 \/ q = 6
    OBVIOUS
  <2>2. QED
    BY <2>1, <1>1, <1>2, <1>3, <1>4, <1>5, <1>6
<1>9. AgreeingList(ViDevModes)
  BY <1>7, <1>8, ElementsAgree
<1>10. DOMAIN ViDevModes = 1 .. 6
  BY <1>7
<1>11. QED
  BY <1>1, <1>2, <1>3, <1>4, <1>5, <1>9, <1>10 DEF FieldsOf

\* The scan, the order of the data and the synchronisation of [vi_dev].
LEMMA ViDevSyncAgrees ==
  /\ AgreeingList(ViDevSync)
  /\ {<<"vi_dev", "Scan_mode">>, <<"vi_dev", "Data_seq">>, <<"vi_dev", "Vsync">>,
     <<"vi_dev", "VsyncNeg">>, <<"vi_dev", "Hsync">>, <<"vi_dev", "HsyncNeg">>,
     <<"vi_dev", "VsyncValid">>, <<"vi_dev", "VsyncValidNeg">>}
     \subseteq FieldsOf(ViDevSync)
<1>1. Agrees(ViDevSync[1]) /\ FieldOf(ViDevSync[1]) = <<"vi_dev", "Scan_mode">>
  <2>1. TypeIs("vi_dev", "Scan_mode", VI_SCAN_MODE_E)
    BY DEF TypeIs, FieldTypes, Typed, ByteOrders
  <2>2. Lists(ViDevSync[1], "vi_dev", "Scan_mode", VI_SCAN_MODE_E)
    BY DEF ViDevSync, ViDev, VI_SCAN_MODE_E, Lists, Distinct, Follow, SdkName
  <2>3. QED
    BY <2>1, <2>2, ListedAgrees
<1>2. Agrees(ViDevSync[2]) /\ FieldOf(ViDevSync[2]) = <<"vi_dev", "Data_seq">>
  <2>1. ViDevSync[2] = EnumParam("vi_dev", "Data_seq", DataSeq)
    BY DEF ViDevSync
  <2>2. QED
    BY <2>1, DataSeqAgrees DEF EnumParam, Param, FieldOf
<1>3. Agrees(ViDevSync[3]) /\ FieldOf(ViDevSync[3]) = <<"vi_dev", "Vsync">>
  <2>1. TypeIs("vi_dev", "Vsync", VI_VSYNC_E)
    BY DEF TypeIs, FieldTypes, Typed, ByteOrders
  <2>2. Lists(ViDevSync[3], "vi_dev", "Vsync", VI_VSYNC_E)
    BY DEF ViDevSync, ViDev, VI_VSYNC_E, Lists, Distinct, Follow, SdkName
  <2>3. QED
    BY <2>1, <2>2, ListedAgrees
<1>4. Agrees(ViDevSync[4]) /\ FieldOf(ViDevSync[4]) = <<"vi_dev", "VsyncNeg">>
  <2>1. TypeIs("vi_dev", "VsyncNeg", VI_VSYNC_NEG_E)
    BY DEF TypeIs, FieldTypes, Typed, ByteOrders
  <2>2. Lists(ViDevSync[4], "vi_dev", "VsyncNeg", VI_VSYNC_NEG_E)
    BY DEF ViDevSync, ViDev, VI_VSYNC_NEG_E, Lists, Distinct, Follow, SdkName
  <2>3. QED
    BY <2>1, <2>2, ListedAgrees
<1>5. Agrees(ViDevSync[5]) /\ FieldOf(ViDevSync[5]) = <<"vi_dev", "Hsync">>
  <2>1. TypeIs("vi_dev", "Hsync", VI_HSYNC_E)
    BY DEF TypeIs, FieldTypes, Typed, ByteOrders
  <2>2. Lists(ViDevSync[5], "vi_dev", "Hsync", VI_HSYNC_E)
    BY DEF ViDevSync, ViDev, VI_HSYNC_E, Lists, Distinct, Follow, SdkName
  <2>3. QED
    BY <2>1, <2>2, ListedAgrees
<1>6. Agrees(ViDevSync[6]) /\ FieldOf(ViDevSync[6]) = <<"vi_dev", "HsyncNeg">>
  <2>1. TypeIs("vi_dev", "HsyncNeg", VI_HSYNC_NEG_E)
    BY DEF TypeIs, FieldTypes, Typed, ByteOrders
  <2>2. Lists(ViDevSync[6], "vi_dev", "HsyncNeg", VI_HSYNC_NEG_E)
    BY DEF ViDevSync, ViDev, VI_HSYNC_NEG_E, Lists, Distinct, Follow, SdkName
  <2>3. QED
    BY <2>1, <2>2, ListedAgrees
<1>7. Agrees(ViDevSync[7]) /\ FieldOf(ViDevSync[7]) = <<"vi_dev", "VsyncValid">>
  <2>1. TypeIs("vi_dev", "VsyncValid", VI_VSYNC_VALID_E)
    BY DEF TypeIs, FieldTypes, Typed, ByteOrders
  <2>2. Lists(ViDevSync[7], "vi_dev", "VsyncValid", VI_VSYNC_VALID_E)
    BY DEF ViDevSync, ViDev, VI_VSYNC_VALID_E, Lists, Distinct, Follow, SdkName
  <2>3. QED
    BY <2>1, <2>2, ListedAgrees
<1>8. Agrees(ViDevSync[8]) /\ FieldOf(ViDevSync[8]) = <<"vi_dev", "VsyncValidNeg">>
  <2>1. TypeIs("vi_dev", "VsyncValidNeg", VI_VSYNC_VALID_NEG_E)
    BY DEF TypeIs, FieldTypes, Typed, ByteOrders
  <2>2. Lists(ViDevSync[8], "vi_dev", "VsyncValidNeg", VI_VSYNC_VALID_NEG_E)
    BY DEF ViDevSync, ViDev, VI_VSYNC_VALID_NEG_E, Lists, Distinct, Follow, SdkName
  <2>3. QED
    BY <2>1, <2>2, ListedAgrees
<1>9. Len(ViDevSync) = 8 /\ ViDevSync \in Seq({ViDevSync[q] : q \in 1 .. 8})
  BY DEF ViDevSync
<1>10. ASSUME NEW q \in 1 .. 8 PROVE Agrees(ViDevSync[q])
  <2>1. q = 1 \/ q = 2 \/ q = 3 \/ q = 4 \/ q = 5 \/ q = 6 \/ q = 7 \/ q = 8
    OBVIOUS
  <2>2. QED
    BY <2>1, <1>1, <1>2, <1>3, <1>4, <1>5, <1>6, <1>7, <1>8
<1>11. AgreeingList(ViDevSync)
  BY <1>9, <1>10, ElementsAgree
<1>12. DOMAIN ViDevSync = 1 .. 8
  BY <1>9
<1>13. QED
  BY <1>1, <1>2, <1>3, <1>4, <1>5, <1>6, <1>7, <1>8, <1>11, <1>12 DEF FieldsOf

\* The data of [vi_dev].
LEMMA ViDevDataAgrees ==
  /\ AgreeingList(ViDevData)
  /\ {<<"vi_dev", "FixCode">>, <<"vi_dev", "FieldPolar">>, <<"vi_dev", "DataPath">>,
     <<"vi_dev", "InputDataType">>}
     \subseteq FieldsOf(ViDevData)
<1>1. Agrees(ViDevData[1]) /\ FieldOf(ViDevData[1]) = <<"vi_dev", "FixCode">>
  <2>1. TypeIs("vi_dev", "FixCode", BT656_FIXCODE_E)
    BY DEF TypeIs, FieldTypes, Typed, ByteOrders
  <2>2. Lists(ViDevData[1], "vi_dev", "FixCode", BT656_FIXCODE_E)
    BY DEF ViDevData, ViDev, BT656_FIXCODE_E, Lists, Distinct, Follow, SdkName
  <2>3. QED
    BY <2>1, <2>2, ListedAgrees
<1>2. Agrees(ViDevData[2]) /\ FieldOf(ViDevData[2]) = <<"vi_dev", "FieldPolar">>
  <2>1. TypeIs("vi_dev", "FieldPolar", BT656_FIELD_POLAR_E)
    BY DEF TypeIs, FieldTypes, Typed, ByteOrders
  <2>2. Lists(ViDevData[2], "vi_dev", "FieldPolar", BT656_FIELD_POLAR_E)
    BY DEF ViDevData, ViDev, BT656_FIELD_POLAR_E, Lists, Distinct, Follow, SdkName
  <2>3. QED
    BY <2>1, <2>2, ListedAgrees
<1>3. Agrees(ViDevData[3]) /\ FieldOf(ViDevData[3]) = <<"vi_dev", "DataPath">>
  <2>1. TypeIs("vi_dev", "DataPath", VI_DATA_PATH_E)
    BY DEF TypeIs, FieldTypes, Typed, ByteOrders
  <2>2. Lists(ViDevData[3], "vi_dev", "DataPath", VI_DATA_PATH_E)
    BY DEF ViDevData, ViDev, VI_DATA_PATH_E, Lists, Distinct, Follow, SdkName
  <2>3. QED
    BY <2>1, <2>2, ListedAgrees
<1>4. Agrees(ViDevData[4]) /\ FieldOf(ViDevData[4]) = <<"vi_dev", "InputDataType">>
  <2>1. TypeIs("vi_dev", "InputDataType", VI_DATA_TYPE_E)
    BY DEF TypeIs, FieldTypes, Typed, ByteOrders
  <2>2. Lists(ViDevData[4], "vi_dev", "InputDataType", VI_DATA_TYPE_E)
    BY DEF ViDevData, ViDev, VI_DATA_TYPE_E, Lists, Distinct, Follow, SdkName
  <2>3. QED
    BY <2>1, <2>2, ListedAgrees
<1>5. Len(ViDevData) = 4 /\ ViDevData \in Seq({ViDevData[q] : q \in 1 .. 4})
  BY DEF ViDevData
<1>6. ASSUME NEW q \in 1 .. 4 PROVE Agrees(ViDevData[q])
  <2>1. q = 1 \/ q = 2 \/ q = 3 \/ q = 4
    OBVIOUS
  <2>2. QED
    BY <2>1, <1>1, <1>2, <1>3, <1>4
<1>7. AgreeingList(ViDevData)
  BY <1>5, <1>6, ElementsAgree
<1>8. DOMAIN ViDevData = 1 .. 4
  BY <1>5
<1>9. QED
  BY <1>1, <1>2, <1>3, <1>4, <1>7, <1>8 DEF FieldsOf

\* The names of [vi_chn].
LEMMA ViChnModesAgree ==
  /\ AgreeingList(ViChnModes)
  /\ {<<"vi_chn", "CapSel">>, <<"vi_chn", "PixFormat">>, <<"vi_chn", "CompressMode">>}
     \subseteq FieldsOf(ViChnModes)
<1>1. Agrees(ViChnModes[1]) /\ FieldOf(ViChnModes[1]) = <<"vi_chn", "CapSel">>
  <2>1. TypeIs("vi_chn", "CapSel", VI_CAPSEL_E)
    BY DEF TypeIs, FieldTypes, Typed, ByteOrders
  <2>2. Lists(ViChnModes[1], "vi_chn", "CapSel", VI_CAPSEL_E)
    BY DEF ViChnModes, VI_CAPSEL_E, Lists, Distinct, Follow, SdkName
  <2>3. QED
    BY <2>1, <2>2, ListedAgrees
<1>2. Agrees(ViChnModes[2]) /\ FieldOf(ViChnModes[2]) = <<"vi_chn", "PixFormat">>
  <2>1. TypeIs("vi_chn", "PixFormat", PIXEL_FORMAT_E)
    BY DEF TypeIs, FieldTypes, Typed, ByteOrders
  <2>2. Lists(ViChnModes[2], "vi_chn", "PixFormat", PIXEL_FORMAT_E)
    BY DEF ViChnModes, PixelFormats, PIXEL_FORMAT_E, Lists, Distinct, Follow, SdkName
  <2>3. QED
    BY <2>1, <2>2, ListedAgrees
<1>3. Agrees(ViChnModes[3]) /\ FieldOf(ViChnModes[3]) = <<"vi_chn", "CompressMode">>
  <2>1. TypeIs("vi_chn", "CompressMode", COMPRESS_MODE_E)
    BY DEF TypeIs, FieldTypes, Typed, ByteOrders
  <2>2. Lists(ViChnModes[3], "vi_chn", "CompressMode", COMPRESS_MODE_E)
    BY DEF ViChnModes, COMPRESS_MODE_E, Lists, Distinct, Follow, SdkName
  <2>3. QED
    BY <2>1, <2>2, ListedAgrees
<1>4. Len(ViChnModes) = 3 /\ ViChnModes \in Seq({ViChnModes[q] : q \in 1 .. 3})
  BY DEF ViChnModes
<1>5. ASSUME NEW q \in 1 .. 3 PROVE Agrees(ViChnModes[q])
  <2>1. q = 1 \/ q = 2 \/ q = 3
    OBVIOUS
  <2>2. QED
    BY <2>1, <1>1, <1>2, <1>3
<1>6. AgreeingList(ViChnModes)
  BY <1>4, <1>5, ElementsAgree
<1>7. DOMAIN ViChnModes = 1 .. 3
  BY <1>4
<1>8. QED
  BY <1>1, <1>2, <1>3, <1>6, <1>7 DEF FieldsOf

\* All of [lvds].
LEMMA LvdsAgrees ==
  AgreeingList(LvdsParams) /\ FieldsOf(LvdsModes) \subseteq FieldsOf(LvdsParams)
<1> DEFINE keys1 == <<"img_size_w", "img_size_h">>
<1>1. AgreeingList(Ints("lvds", keys1, INT_MIN, INT_MAX))
  <2> DEFINE K == {"img_size_w", "img_size_h"}
  <2>1. keys1 \in Seq(K)
    OBVIOUS
  <2>2. \A k \in K : Untyped("lvds", k)
    BY DEF Untyped, FieldTypes, Typed
  <2> HIDE DEF keys1, K
  <2>3. QED
    BY <2>1, <2>2, IntsAgree
<1> DEFINE keys2 == <<"lvds_lane_num", "wdr_vc_num", "sync_code_num">>
<1>2. AgreeingList(Ints("lvds", keys2, INT_MIN, INT_MAX))
  <2> DEFINE K == {"lvds_lane_num", "wdr_vc_num", "sync_code_num"}
  <2>1. keys2 \in Seq(K)
    OBVIOUS
  <2>2. \A k \in K : Untyped("lvds", k)
    BY DEF Untyped, FieldTypes, Typed
  <2> HIDE DEF keys2, K
  <2>3. QED
    BY <2>1, <2>2, IntsAgree
<1> DEFINE keys3 == <<"sync_code_0", "sync_code_1", "sync_code_2", "sync_code_3", "sync_code_4",
                      "sync_code_5", "sync_code_6", "sync_code_7">>
<1>3. AgreeingList(Arrays("lvds", keys3))
  <2> DEFINE K == {"sync_code_0", "sync_code_1", "sync_code_2", "sync_code_3", "sync_code_4",
                   "sync_code_5", "sync_code_6", "sync_code_7"}
  <2>1. keys3 \in Seq(K)
    OBVIOUS
  <2>2. \A k \in K : Untyped("lvds", k)
    BY DEF Untyped, FieldTypes, Typed
  <2> HIDE DEF keys3, K
  <2>3. QED
    BY <2>1, <2>2, ArraysAgree
<1>4. QED
  BY <1>1, <1>2, <1>3, LvdsModesAgree, ConcatAgrees DEF LvdsParams

\* All of [isp_image].
LEMMA IspImageAgrees ==
  AgreeingList(IspImageParams) /\ <<"isp_image", "isp_bayer">> \in FieldsOf(IspImageParams)
<1> DEFINE keys1 == <<"Isp_x", "Isp_y", "Isp_W", "Isp_H", "Isp_FrameRate">>
<1>1. AgreeingList(Ints("isp_image", keys1, 0, INT_MAX))
  <2> DEFINE K == {"Isp_x", "Isp_y", "Isp_W", "Isp_H", "Isp_FrameRate"}
  <2>1. keys1 \in Seq(K)
    OBVIOUS
  <2>2. \A k \in K : Untyped("isp_image", k)
    BY DEF Untyped, FieldTypes, Typed
  <2> HIDE DEF keys1, K
  <2>3. QED
    BY <2>1, <2>2, IntsAgree
<1>2. PICK bayer : bayer = EnumParam("isp_image", "isp_bayer",
                         Values(<<"BAYER_RGGB", "BAYER_GRBG", "BAYER_GBRG", "BAYER_BGGR">>, 0))
  OBVIOUS
<1>3. Agrees(bayer) /\ FieldOf(bayer) = <<"isp_image", "isp_bayer">>
  <2>1. TypeIs("isp_image", "isp_bayer", ISP_BAYER_FORMAT_E)
    BY DEF TypeIs, FieldTypes, Typed, ByteOrders
  <2>2. Lists(bayer, "isp_image", "isp_bayer", ISP_BAYER_FORMAT_E)
    BY <1>2 DEF ISP_BAYER_FORMAT_E, Lists, Distinct, Follow, SdkName
  <2>3. QED
    BY <2>1, <2>2, ListedAgrees
<1>4. AgreeingList(<<bayer>>) /\ <<"isp_image", "isp_bayer">> \in FieldsOf(<<bayer>>)
  <2>1. PICK one : one = <<bayer>>
    OBVIOUS
  <2>2. one \in Seq({bayer}) /\ Len(one) = 1 /\ DOMAIN one = 1 .. 1 /\ one[1] = bayer
    BY <2>1
  <2>3. AgreeingList(one)
    BY <1>3, <2>2, ElementsAgree
  <2>4. <<"isp_image", "isp_bayer">> \in FieldsOf(one)
    BY <1>3, <2>2 DEF FieldsOf
  <2>5. QED
    BY <2>1, <2>3, <2>4
<1>5. QED
  BY <1>1, <1>2, <1>4, ConcatAgrees DEF IspImageParams

\* All of [vi_dev].
LEMMA ViDevAgrees ==
  /\ AgreeingList(ViDevParams)
  /\ FieldsOf(ViDevModes) \cup FieldsOf(ViDevSync) \cup FieldsOf(ViDevData) \subseteq FieldsOf(ViDevParams)
<1> DEFINE keys1 == <<"Mask_0", "Mask_1">>
<1>1. AgreeingList(Ints("vi_dev", keys1, 0, INT_MAX))
  <2> DEFINE K == {"Mask_0", "Mask_1"}
  <2>1. keys1 \in Seq(K)
    OBVIOUS
  <2>2. \A k \in K : Untyped("vi_dev", k)
    BY DEF Untyped, FieldTypes, Typed
  <2> HIDE DEF keys1, K
  <2>3. QED
    BY <2>1, <2>2, IntsAgree
<1> DEFINE keys2 == <<"Timingblank_HsyncHfb", "Timingblank_HsyncAct", "Timingblank_HsyncHbb",
                      "Timingblank_VsyncVfb", "Timingblank_VsyncVact", "Timingblank_VsyncVbb",
                      "Timingblank_VsyncVbfb", "Timingblank_VsyncVbact",
                      "Timingblank_VsyncVbbb">>
<1>2. AgreeingList(Ints("vi_dev", keys2, 0, INT_MAX))
  <2> DEFINE K == {"Timingblank_HsyncHfb", "Timingblank_HsyncAct", "Timingblank_HsyncHbb",
                   "Timingblank_VsyncVfb", "Timingblank_VsyncVact", "Timingblank_VsyncVbb",
                   "Timingblank_VsyncVbfb", "Timingblank_VsyncVbact", "Timingblank_VsyncVbbb"}
  <2>1. keys2 \in Seq(K)
    OBVIOUS
  <2>2. \A k \in K : Untyped("vi_dev", k)
    BY DEF Untyped, FieldTypes, Typed
  <2> HIDE DEF keys2, K
  <2>3. QED
    BY <2>1, <2>2, IntsAgree
<1> DEFINE keys3 == <<"DataRev", "DevRect_x", "DevRect_y", "DevRect_w", "DevRect_h">>
<1>3. AgreeingList(Ints("vi_dev", keys3, 0, INT_MAX))
  <2> DEFINE K == {"DataRev", "DevRect_x", "DevRect_y", "DevRect_w", "DevRect_h"}
  <2>1. keys3 \in Seq(K)
    OBVIOUS
  <2>2. \A k \in K : Untyped("vi_dev", k)
    BY DEF Untyped, FieldTypes, Typed
  <2> HIDE DEF keys3, K
  <2>3. QED
    BY <2>1, <2>2, IntsAgree
<1>4. QED
  BY <1>1, <1>2, <1>3, ViDevModesAgree, ViDevSyncAgrees, ViDevDataAgrees, ConcatAgrees DEF ViDevParams

\* All of [vi_chn].
LEMMA ViChnAgrees ==
  AgreeingList(ViChnParams) /\ FieldsOf(ViChnModes) \subseteq FieldsOf(ViChnParams)
<1> DEFINE keys1 == <<"CapRect_X", "CapRect_Y", "CapRect_Width", "CapRect_Height",
                      "DestSize_Width", "DestSize_Height">>
<1>1. AgreeingList(Ints("vi_chn", keys1, 0, INT_MAX))
  <2> DEFINE K == {"CapRect_X", "CapRect_Y", "CapRect_Width", "CapRect_Height",
                   "DestSize_Width", "DestSize_Height"}
  <2>1. keys1 \in Seq(K)
    OBVIOUS
  <2>2. \A k \in K : Untyped("vi_chn", k)
    BY DEF Untyped, FieldTypes, Typed
  <2> HIDE DEF keys1, K
  <2>3. QED
    BY <2>1, <2>2, IntsAgree
<1> DEFINE keys2 == <<"SrcFrameRate", "FrameRate">>
<1>2. AgreeingList(Ints("vi_chn", keys2, INT_MIN, INT_MAX))
  <2> DEFINE K == {"SrcFrameRate", "FrameRate"}
  <2>1. keys2 \in Seq(K)
    OBVIOUS
  <2>2. \A k \in K : Untyped("vi_chn", k)
    BY DEF Untyped, FieldTypes, Typed
  <2> HIDE DEF keys2, K
  <2>3. QED
    BY <2>1, <2>2, IntsAgree
<1>3. QED
  BY <1>1, <1>2, ViChnModesAgree, ConcatAgrees DEF ViChnParams

\* Every field of an SDK type is read as a name, and each list of
\* sensor_config.c gives each of its names the number of the headers, but for
\* the two differences that ValueFor states: the byte orders are one above, and
\* VI_CLK_EDGE_DOUBLE is the bound of its type.
THEOREM SensorTableAgrees ==
  /\ \A q \in DOMAIN SensorConfigParams : Agrees(SensorConfigParams[q])
  /\ \A t \in FieldTypes : t.field \in FieldsOf(SensorConfigParams)
<1>1. /\ AgreeingList(SensorConfigParams)
      /\ FieldsOf(SensorHead) \cup FieldsOf(LvdsParams) \cup FieldsOf(IspImageParams)
         \cup FieldsOf(ViDevParams) \cup FieldsOf(ViChnParams) \subseteq FieldsOf(SensorConfigParams)
  <2>1. PICK a : a = SensorHead \o LvdsParams
    OBVIOUS
  <2>2. AgreeingList(a) /\ FieldsOf(SensorHead) \cup FieldsOf(LvdsParams) \subseteq FieldsOf(a)
    BY <2>1, HeadAgrees, LvdsAgrees, ConcatAgrees
  <2>3. PICK b : b = a \o IspImageParams
    OBVIOUS
  <2>4. AgreeingList(b) /\ FieldsOf(a) \cup FieldsOf(IspImageParams) \subseteq FieldsOf(b)
    BY <2>2, <2>3, IspImageAgrees, ConcatAgrees
  <2>5. PICK c : c = b \o ViDevParams
    OBVIOUS
  <2>6. AgreeingList(c) /\ FieldsOf(b) \cup FieldsOf(ViDevParams) \subseteq FieldsOf(c)
    BY <2>4, <2>5, ViDevAgrees, ConcatAgrees
  <2>7. SensorConfigParams = c \o ViChnParams
    BY <2>1, <2>3, <2>5 DEF SensorConfigParams
  <2>8. /\ AgreeingList(SensorConfigParams)
        /\ FieldsOf(c) \cup FieldsOf(ViChnParams) \subseteq FieldsOf(SensorConfigParams)
    BY <2>6, <2>7, ViChnAgrees, ConcatAgrees
  <2>9. QED
    BY <2>2, <2>4, <2>6, <2>8
<1>2. \A q \in DOMAIN SensorConfigParams : Agrees(SensorConfigParams[q])
  BY <1>1 DEF AgreeingList
<1>3. ASSUME NEW t \in FieldTypes
      PROVE  t.field \in FieldsOf(SensorConfigParams)
  <2>1. \/ t.field \in {<<"sensor", "mode">>, <<"mode", "input_mode">>, <<"mipi", "data_type">>}
        \/ t.field \in {<<"lvds", "wdr_mode">>, <<"lvds", "sync_mode">>, <<"lvds", "raw_data_type">>,
                        <<"lvds", "data_endian">>, <<"lvds", "sync_code_endian">>}
        \/ t.field = <<"isp_image", "isp_bayer">>
        \/ t.field \in FieldsOf(ViDevModes) \cup FieldsOf(ViDevSync) \cup FieldsOf(ViDevData)
        \/ t.field \in FieldsOf(ViChnModes)
    BY <1>3, ViDevModesAgree, ViDevSyncAgrees, ViDevDataAgrees, ViChnModesAgree
       DEF FieldTypes, Typed
  <2>2. QED
    BY <1>1, <2>1, HeadAgrees, LvdsModesAgree, LvdsAgrees, IspImageAgrees, ViDevAgrees, ViChnAgrees
<1>4. QED
  BY <1>2, <1>3

\* A line has a word after its equals sign.
HasWord(l) == ~(file[l].value = "")

\* A value is the word of the line it is found on, when there is one.
LEMMA GotWord ==
  ASSUME NEW f, NEW beyond \in BOOLEAN, NEW r, r = Got(f, beyond), r.err = "CONFIG_OK",
         HasWord(r.line)
  PROVE  r.value = file[r.line].value
<1>1. PICK h, end : r = ValueBelow(h, end, f[2])
  BY Outcomes DEF Got, parse_param_value
<1>2. PICK l, at : /\ r = OK(IF at = l THEN file[l].value ELSE NextLinesWord, l)
                   /\ HasWord(l) => at = l
  BY <1>1, Outcomes DEF ValueBelow, HasWord
<1>3. r.line = l /\ r.value = IF at = l THEN file[l].value ELSE NextLinesWord
  BY <1>2, Outcomes
<1>4. QED
  BY <1>2, <1>3

\* A name of the SDK in the sensor's file has the SDK's value, but for the byte
\* orders, which have one more, and VI_CLK_EDGE_DOUBLE, for every file.
THEOREM NamesAreSdkValues == Spec => []NamesMeanSdkValues
<1>1. Inv => NamesMeanSdkValues
  <2> SUFFICES ASSUME Inv, table = "sensor", NEW t \in FieldTypes
               PROVE  MeansTheName(t)
    BY DEF NamesMeanSdkValues
  <2>1. PICK f, word : f = t.field /\ word = file[keyLine[f]].value
    OBVIOUS
  <2>0. SUFFICES ASSUME keyLine[f] > 0, HasWord(keyLine[f]),
                        word \notin DOMAIN Numeral
                 PROVE  SdkName(word) \in DOMAIN t.type /\ config[f] = ValueFor(t, word)
    BY <2>1 DEF MeansTheName, HasWord
  <2>2. Params = SensorConfigParams
    BY SensorAssumption DEF Inv, TypeInv, Params
  <2>3. f \in Fields
    BY <2>1, <2>2, SensorTableAgrees DEF Fields
  <2>4. PICK q \in DOMAIN Params, beyond \in BOOLEAN : StoredBy(q, beyond, f)
    BY <2>0, <2>3 DEF Inv, KeyInv
  <2>5. PICK p, r : p = Params[q] /\ r = Got(f, beyond)
    OBVIOUS
  <2>6. /\ FieldOf(p) = f /\ Parse(p, beyond).err = "CONFIG_OK"
        /\ Parse(p, beyond).line = keyLine[f] /\ Parse(p, beyond).value = config[f]
    BY <2>4, <2>5 DEF StoredBy
  <2>7. /\ p.kind = "enum"
        /\ \A n \in DOMAIN p.names : SdkName(n) \in DOMAIN t.type /\ p.names[n] = ValueFor(t, n)
    BY <2>1, <2>2, <2>5, <2>6, SensorTableAgrees DEF Agrees
  <2>8. ParamOK(p)
    BY <2>5, ParamsAre DEF Inv, TypeInv
  <2>9. r.err = "CONFIG_OK" /\ r.line = keyLine[f]
    BY <2>5, <2>6, <2>8, ParseReads
  <2>10. Parse(p, beyond) = parse_enum(r, p.names)
    BY <2>5, <2>6, <2>7, <2>8, <2>9, ParseIs
  <2>11. r.value = word
    BY <2>0, <2>1, <2>5, <2>9, GotWord
  <2>12. r.value \in DOMAIN p.names /\ config[f] = p.names[r.value]
    BY <2>0, <2>6, <2>10, <2>11, Outcomes DEF parse_enum
  <2>13. QED
    BY <2>0, <2>7, <2>11, <2>12
<1>2. QED
  BY <1>1, SpecInv, PTL
=============================================================================
