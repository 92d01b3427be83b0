----------------------- MODULE ChartTemplatesProofs ------------------------
(***************************************************************************)
(* What one migration makes of a template, for every template: no line is  *)
(* lost unaccounted for, what is left needs no second migration but for a  *)
(* doubled annotation, and the keys stay distinct.                         *)
(*                                                                         *)
(* FlattenSeq is a recursive function.  What it returns is proved by       *)
(* induction in the form of a least counterexample, which the library's    *)
(* theorem WFMin gives without an operator for a parameter.                *)
(***************************************************************************)
EXTENDS ChartTemplates, WellFoundedInduction, TLAPS

-----------------------------------------------------------------------------
(* Induction *)

LEMMA Least ==
    ASSUME NEW T, T \subseteq Nat, T # {}
    PROVE  \E x \in T : \A y \in T : x <= y
  <1> DEFINE R == {ss \in Nat \X Nat : ss[1] < ss[2]}
  <1>1. IsWellFoundedOn(R, Nat)
    BY NatLessThanWellFounded DEF OpToRel
  <1>2. PICK x \in T : \A y \in T : ~ (<<y, x>> \in R)
    <2> HIDE DEF R
    <2>1. QED
      BY <1>1, WFMin
  <1>3. ASSUME NEW y \in T PROVE x <= y
    <2>1. <<y, x>> \notin R /\ <<y, x>> \in Nat \X Nat
      BY <1>2
    <2>2. ~ (y < x)
      BY <2>1
    <2>3. QED
      BY <2>2
  <1>4. QED
    BY <1>3

LEMMA SetInduction ==
    ASSUME NEW S, 0 \in S, \A n \in Nat : n \in S => n + 1 \in S
    PROVE  Nat \subseteq S
  <1> DEFINE T == Nat \ S
  <1>1. SUFFICES ASSUME T # {} PROVE FALSE
    OBVIOUS
  <1>2. PICK x \in T : \A y \in T : x <= y
    BY <1>1, Least
  <1>3. x # 0 /\ x - 1 \in Nat
    OBVIOUS
  <1>4. x - 1 \in S
    BY <1>2, <1>3
  <1>5. QED
    BY <1>3, <1>4

-----------------------------------------------------------------------------
(* FlattenSeq, of sequences of one element at most *)

FlattenStep(g, seqs, i) == IF i = 1 THEN seqs[i] ELSE g[i - 1] \o seqs[i]
Solves(g, seqs, n) == g = [i \in 1 .. n |-> FlattenStep(g, seqs, i)]

\* The recursion of FlattenSeq has a solution.
LEMMA Solvable ==
    ASSUME NEW seqs
    PROVE  \A n \in Nat : \E g : Solves(g, seqs, n)
  <1> DEFINE S == {n \in Nat : \E g : Solves(g, seqs, n)}
  <1>1. 0 \in S
    <2>1. Solves(<<>>, seqs, 0)
      BY DEF Solves
    <2>2. QED
      BY <2>1
  <1>2. ASSUME NEW n \in Nat, n \in S PROVE n + 1 \in S
    <2>1. PICK g : Solves(g, seqs, n)
      BY <1>2
    <2> DEFINE h == [i \in 1 .. n + 1 |->
                        IF i \in 1 .. n THEN g[i]
                        ELSE IF n = 0 THEN seqs[1] ELSE g[n] \o seqs[n + 1]]
    <2>2. ASSUME NEW i \in 1 .. n + 1 PROVE h[i] = FlattenStep(h, seqs, i)
      <3>1. CASE i = n + 1 /\ n = 0
        BY <3>1 DEF FlattenStep
      <3>2. CASE i = n + 1 /\ n # 0
        <4>1. n + 1 \in 1 .. n + 1 /\ n + 1 \notin 1 .. n /\ n \in 1 .. n
          BY <3>2
        <4>2. h[n + 1] = g[n] \o seqs[n + 1]
          BY <3>2, <4>1
        <4>3. h[n] = g[n]
          BY <4>1
        <4>4. (n + 1) - 1 = n /\ n + 1 # 1
          BY <3>2
        <4> HIDE DEF h
        <4>5. QED
          BY <3>2, <4>2, <4>3, <4>4 DEF FlattenStep
      <3>3. CASE i \in 1 .. n
        <4>1. h[i] = FlattenStep(g, seqs, i)
          BY <2>1, <3>3 DEF Solves
        <4>2. i # 1 => h[i - 1] = g[i - 1]
          BY <3>3
        <4> HIDE DEF h
        <4>3. QED
          BY <4>1, <4>2, <3>3 DEF FlattenStep
      <3>4. QED
        <4> HIDE DEF h
        <4>1. QED
          BY <3>1, <3>2, <3>3
    <2>3. Solves(h, seqs, n + 1)
      BY <2>2 DEF Solves
    <2>4. QED
      BY <2>3
  <1>3. QED
    <2> HIDE DEF S
    <2>1. Nat \subseteq S
      BY <1>1, <1>2, SetInduction
    <2>2. QED
      BY <2>1 DEF S

\* A flattened sequence is its parts' elements in their order: element k comes from
\* the part src[k].
FlattenedBy(flat, seqs, n, m, src) ==
    /\ src \in [1 .. m -> 1 .. n]
    /\ flat = [k \in 1 .. m |-> seqs[src[k]][1]]
    /\ \A k \in 1 .. m : seqs[src[k]] # <<>>
    /\ \A k, l \in 1 .. m : src[k] = src[l] => k = l
    /\ \A i \in 1 .. n : seqs[i] # <<>> => \E k \in 1 .. m : src[k] = i
Flattened(flat, seqs, n) == \E m \in Nat : \E src : FlattenedBy(flat, seqs, n, m, src)

Short(seqs, n) == \A i \in 1 .. n : seqs[i] = <<>> \/ seqs[i] = <<seqs[i][1]>>

LEMMA FlattenMore ==
    ASSUME NEW seqs, NEW n \in Nat, Short(seqs, n + 1), NEW flat, Flattened(flat, seqs, n)
    PROVE  Flattened(flat \o seqs[n + 1], seqs, n + 1)
  <1>0. PICK m \in Nat : \E src : FlattenedBy(flat, seqs, n, m, src)
    BY DEF Flattened
  <1>1. PICK src : FlattenedBy(flat, seqs, n, m, src)
    BY <1>0
  <1>2. CASE seqs[n + 1] = <<>>
    <2>1. flat \o seqs[n + 1] = flat
      BY <1>1, <1>2 DEF FlattenedBy
    <2>2. FlattenedBy(flat, seqs, n + 1, m, src)
      BY <1>1, <1>2 DEF FlattenedBy
    <2>3. QED
      BY <2>1, <2>2 DEF Flattened
  <1>3. CASE seqs[n + 1] = <<seqs[n + 1][1]>>
    <2> DEFINE more == [k \in 1 .. m + 1 |-> IF k \in 1 .. m THEN src[k] ELSE n + 1]
    <2>1. more \in [1 .. m + 1 -> 1 .. n + 1]
      BY <1>1 DEF FlattenedBy
    <2>2. flat \o seqs[n + 1] = [k \in 1 .. m + 1 |-> seqs[more[k]][1]]
      <3>1. flat = [k \in 1 .. m |-> seqs[src[k]][1]]
        BY <1>1 DEF FlattenedBy
      <3>2. Len(flat) = m /\ flat \in Seq({seqs[i][1] : i \in 1 .. n + 1})
        BY <1>1, <3>1 DEF FlattenedBy
      <3> DEFINE x == seqs[n + 1][1]
      <3>3. flat \o <<x>> = [k \in 1 .. m + 1 |-> IF k \in 1 .. m THEN flat[k] ELSE x]
        <4> HIDE DEF x
        <4>1. QED
          BY <3>2
      <3>4. QED
        BY <1>3, <3>1, <3>3
    <2>3. \A k \in 1 .. m + 1 : seqs[more[k]] # <<>>
      BY <1>1, <1>3 DEF FlattenedBy
    <2>4. ASSUME NEW k \in 1 .. m + 1, NEW l \in 1 .. m + 1, more[k] = more[l] PROVE k = l
      BY <1>1, <2>4 DEF FlattenedBy
    <2>5. ASSUME NEW i \in 1 .. n + 1, seqs[i] # <<>> PROVE \E k \in 1 .. m + 1 : more[k] = i
      <3>1. CASE i = n + 1
        <4>1. more[m + 1] = i
          BY <3>1
        <4>2. QED
          BY <4>1
      <3>2. CASE i \in 1 .. n
        <4>1. PICK k \in 1 .. m : src[k] = i
          BY <1>1, <2>5, <3>2 DEF FlattenedBy
        <4>2. more[k] = i /\ k \in 1 .. m + 1
          BY <4>1
        <4>3. QED
          BY <4>2
      <3>3. QED
        BY <3>1, <3>2
    <2>6. FlattenedBy(flat \o seqs[n + 1], seqs, n + 1, m + 1, more)
      <3> HIDE DEF more
      <3>1. QED
        BY <2>1, <2>2, <2>3, <2>4, <2>5 DEF FlattenedBy
    <2>7. QED
      BY <2>6 DEF Flattened
  <1>4. QED
    BY <1>2, <1>3 DEF Short

LEMMA FlattenShort ==
    ASSUME NEW seqs, NEW n \in Nat, DOMAIN seqs = 1 .. n, Len(seqs) = n, Short(seqs, n)
    PROVE  Flattened(FlattenSeq(seqs), seqs, n)
  <1>1. CASE n = 0
    <2>1. FlattenSeq(seqs) = seqs
      BY <1>1 DEF FlattenSeq
    <2>2. FlattenedBy(seqs, seqs, 0, 0, seqs)
      BY <1>1 DEF FlattenedBy
    <2>3. QED
      BY <1>1, <2>1, <2>2 DEF Flattened
  <1>2. CASE n # 0
    <2> DEFINE g == CHOOSE h : h = [i \in 1 .. n |-> IF i = 1 THEN seqs[i] ELSE h[i - 1] \o seqs[i]]
    <2>1. FlattenSeq(seqs) = g[n]
      BY <1>2 DEF FlattenSeq
    <2>2. g = [i \in 1 .. n |-> IF i = 1 THEN seqs[i] ELSE g[i - 1] \o seqs[i]]
      BY Solvable DEF Solves, FlattenStep
    <2> HIDE DEF g
    <2> DEFINE S == {j \in Nat : j + 1 \in 1 .. n => Flattened(g[j + 1], seqs, j + 1)}
    <2>3. 0 \in S
      <3>1. Flattened(<<>>, seqs, 0)
        <4>1. FlattenedBy(<<>>, seqs, 0, 0, <<>>)
          BY DEF FlattenedBy
        <4>2. QED
          BY <4>1 DEF Flattened
      <3>2. seqs[1] = <<>> \/ seqs[1] = <<seqs[1][1]>>
        BY <1>2 DEF Short
      <3>3. <<>> \o seqs[1] = seqs[1]
        BY <3>2
      <3>4. Short(seqs, 0 + 1)
        BY <3>2 DEF Short
      <3>5. Flattened(<<>> \o seqs[0 + 1], seqs, 0 + 1)
        BY <3>1, <3>4, FlattenMore
      <3>6. g[1] = seqs[1]
        BY <1>2, <2>2
      <3>7. QED
        BY <3>3, <3>5, <3>6
    <2>4. ASSUME NEW j \in Nat, j \in S PROVE j + 1 \in S
      <3>1. SUFFICES ASSUME j + 2 \in 1 .. n PROVE Flattened(g[j + 2], seqs, j + 2)
        OBVIOUS
      <3>2. Flattened(g[j + 1], seqs, j + 1)
        BY <2>4, <3>1
      <3>3. g[j + 2] = g[j + 1] \o seqs[j + 2]
        <4> DEFINE i == j + 2
        <4>1. i \in 1 .. n /\ i # 1 /\ i - 1 = j + 1
          BY <3>1
        <4>2. g[i] = g[i - 1] \o seqs[i]
          <5> HIDE DEF i
          <5>1. QED
            BY <2>2, <4>1
        <4>3. QED
          BY <4>1, <4>2
      <3>4. Short(seqs, (j + 1) + 1) /\ (j + 1) + 1 = j + 2 /\ j + 1 \in Nat
        BY <3>1 DEF Short
      <3>5. QED
        BY <3>2, <3>3, <3>4, FlattenMore
    <2>5. n - 1 \in S
      <3> HIDE DEF S
      <3>1. Nat \subseteq S
        BY <2>3, <2>4, SetInduction
      <3>2. QED
        BY <1>2, <3>1
    <2>6. QED
      BY <1>2, <2>1, <2>5
  <1>3. QED
    BY <1>1, <1>2

-----------------------------------------------------------------------------
(* The tables of annotations *)

LEMMA KeyClasses ==
    /\ Redirects \cap DOMAIN Renamed = {}
    /\ DOMAIN ToPlugin \cap (DOMAIN Renamed \cup Redirects) = {}
    /\ "configuration-snippet" \notin DOMAIN Renamed \cup Redirects \cup DOMAIN ToPlugin
    /\ Limits \subseteq DOMAIN ToPlugin
  <1>1. DOMAIN ToPlugin = Limits \cup {"proxy-cookie-path"}
    BY DEF ToPlugin, Limits, Table
  <1>2. DOMAIN Renamed \subseteq KeptNames \cup {p[1] : p \in NewNames}
    <2>1. DOMAIN Renamed = {p[1] : p \in {<<s, s>> : s \in KeptNames} \cup NewNames}
      BY DEF Table, Renamed
    <2>2. SUFFICES ASSUME NEW p \in {<<s, s>> : s \in KeptNames} \cup NewNames
                   PROVE  p[1] \in KeptNames \cup {q[1] : q \in NewNames}
      BY <2>1
    <2>3. CASE p \in NewNames
      BY <2>3
    <2>4. CASE p \in {<<s, s>> : s \in KeptNames}
      BY <2>4
    <2>5. QED
      BY <2>3, <2>4
  <1>3. QED
    BY <1>1, <1>2 DEF Redirects, Limits, KeptNames, NewNames

LEMMA SnippetKeys == DOMAIN SnippetPlugins = {"rewrites", "flags"}
  BY DEF SnippetPlugins, Table

\* What stands for a line, by the class of its key.
LEMMA ReplacementCases ==
    ASSUME NEW c, NEW l
    PROVE  /\ l.key \in DOMAIN Renamed =>
                /\ Replacement(c, l) = <<Line("apisix", Target(l), Transformed(l))>>
                /\ PluginsOf(l) = {}
           /\ l.key \in Redirects =>
                /\ Replacement(c, l) =
                     IF l.key = "proxy-redirect-from" /\ Sets(c, "proxy-redirect-to")
                     THEN <<Line("apisix", "http-to-https", "true")>> ELSE <<>>
                /\ PluginsOf(l) = {}
           /\ l.key \in DOMAIN ToPlugin =>
                Replacement(c, l) = <<>> /\ PluginsOf(l) = {Made(l)}
           /\ l.key = "configuration-snippet" =>
                /\ Replacement(c, l) = Rest(l.value)
                /\ PluginsOf(l) =
                     {Entry(SnippetPlugins[d], l) : d \in Directives[l.value] \cap DOMAIN SnippetPlugins}
           /\ l.key \notin DOMAIN Renamed \cup Redirects \cup DOMAIN ToPlugin \cup {"configuration-snippet"} =>
                Replacement(c, l) = <<l>> /\ PluginsOf(l) = {}
  <1>1. CASE l.key \in DOMAIN Renamed
    BY <1>1, KeyClasses DEF Replacement, PluginsOf
  <1>2. CASE l.key \in Redirects
    BY <1>2, KeyClasses DEF Replacement, PluginsOf
  <1>3. CASE l.key \in DOMAIN ToPlugin
    BY <1>3, KeyClasses DEF Replacement, PluginsOf
  <1>4. CASE l.key = "configuration-snippet"
    BY <1>4, KeyClasses DEF Replacement, PluginsOf, SnippetLeft
  <1>5. CASE l.key \notin DOMAIN Renamed \cup Redirects \cup DOMAIN ToPlugin \cup {"configuration-snippet"}
    BY <1>5 DEF Replacement, PluginsOf
  <1>6. QED
    BY <1>1, <1>2, <1>3, <1>4, <1>5

\* What stays of a snippet has only what the migrator does not know.
LEMMA RestOfSnippet ==
    ASSUME NEW v
    PROVE  /\ "other" \notin Directives[v] => Rest(v) = <<>>
           /\ "other" \in Directives[v] =>
                \E w : /\ Rest(v) = <<Line("nginx", "configuration-snippet", w)>>
                       /\ Directives[w] = {"other"}
                       /\ Rest(w) = Rest(v)
  <1>1. CASE "other" \notin Directives[v]
    BY <1>1 DEF Rest, Remaining
  <1>2. CASE "other" \in Directives[v]
    <2> DEFINE w == SnippetOf({"other"})
    <2>1. Directives[w] = {"other"}
      BY SnippetAssumption DEF SnippetOf
    <2>2. Remaining(v) = {"other"} /\ Remaining(w) = {"other"}
      BY <1>2, <2>1 DEF Remaining
    <2>3. Rest(v) = <<Line("nginx", "configuration-snippet", w)>> /\ Rest(w) = Rest(v)
      BY <2>2 DEF Rest
    <2> HIDE DEF w
    <2>4. QED
      BY <1>2, <2>1, <2>3
  <1>3. QED
    BY <1>1, <1>2

LEMMA ReplacementShort ==
    ASSUME NEW c, NEW l
    PROVE  Replacement(c, l) = <<>> \/ Replacement(c, l) = <<Replacement(c, l)[1]>>
  <1>1. CASE l.key = "configuration-snippet"
    BY <1>1, ReplacementCases, RestOfSnippet
  <1>2. CASE l.key # "configuration-snippet"
    BY <1>2, ReplacementCases
  <1>3. QED
    BY <1>1, <1>2

-----------------------------------------------------------------------------
(* The lines that are looked at *)

LEMMA TemplateLines ==
    ASSUME NEW c, IsTemplate(c)
    PROVE  /\ Len(c.lines) \in Nat
           /\ DOMAIN c.lines = 1 .. Len(c.lines)
           /\ \A i \in DOMAIN c.lines : c.lines[i] \in Range(c.lines)
  BY DEF IsTemplate, Range

\* Of the lines that set one annotation only one is looked at.
LEMMA LookedOnce ==
    ASSUME NEW c, IsTemplate(c), NEW i \in Looked(c), NEW j \in Looked(c),
           c.lines[i].key = c.lines[j].key
    PROVE  i = j
  <1>1. i \in Nat /\ j \in Nat
    BY TemplateLines DEF Looked
  <1>2. Before(c.lines, i, j) /\ Before(c.lines, j, i)
    BY DEF Looked, IsEntry
  <1>3. QED
    BY <1>1, <1>2 DEF Before

\* An annotation that is set is looked at.
LEMMA LookedSome ==
    ASSUME NEW c, IsTemplate(c), NEW i \in DOMAIN c.lines, c.lines[i].prefix \in NginxPrefixes
    PROVE  Sets(c, c.lines[i].key)
  <1> DEFINE k == c.lines[i].key
             Those(P) == {j \in DOMAIN c.lines : c.lines[j].prefix \in P /\ c.lines[j].key = k}
  <1>1. Those({"nginx"}) \subseteq Nat /\ Those({"plain"}) \subseteq Nat
    BY TemplateLines
  <1>2. CASE Those({"nginx"}) # {}
    <2>1. PICK x \in Those({"nginx"}) : \A y \in Those({"nginx"}) : x <= y
      <3> HIDE DEF Those
      <3>1. QED
        BY <1>1, <1>2, Least
    <2>2. \A j \in DOMAIN c.lines : c.lines[j].prefix \in NginxPrefixes /\ c.lines[j].key = k =>
              Before(c.lines, x, j)
      BY <2>1 DEF Before
    <2>3. x \in Looked(c)
      BY <2>1, <2>2 DEF Looked, IsEntry, NginxPrefixes
    <2>4. QED
      BY <2>1, <2>3 DEF Sets
  <1>3. CASE Those({"nginx"}) = {}
    <2>1. PICK x \in Those({"plain"}) : \A y \in Those({"plain"}) : x <= y
      <3>1. Those({"plain"}) # {}
        BY <1>3 DEF NginxPrefixes
      <3> HIDE DEF Those
      <3>2. QED
        BY <1>1, <3>1, Least
    <2>2. \A j \in DOMAIN c.lines : c.lines[j].prefix \in NginxPrefixes /\ c.lines[j].key = k =>
              Before(c.lines, x, j)
      BY <1>3, <2>1 DEF Before, NginxPrefixes
    <2>3. x \in Looked(c)
      BY <2>1, <2>2 DEF Looked, IsEntry, NginxPrefixes
    <2>4. QED
      BY <2>1, <2>3 DEF Sets
  <1>4. QED
    BY <1>2, <1>3

-----------------------------------------------------------------------------
(* The new text of a template *)

Body(c) == FlattenSeq([i \in DOMAIN c.lines |-> Part(c, i)])

LEMMA MigratedRecord ==
    ASSUME NEW c, IsTemplate(c)
    PROVE  /\ Migrated(c).lines = Body(c) \o (IF HasPlugins(c) THEN <<Link(c)>> ELSE <<>>)
           /\ Migrated(c).name = c.name
           /\ Migrated(c).class = FixedClass(c)
           /\ Migrated(c) = [name |-> c.name, class |-> FixedClass(c), lines |-> Migrated(c).lines,
                             todos |-> Migrated(c).todos, newline |-> FALSE]
  BY DEF Migrated, Body

LEMMA BodyFlattened ==
    ASSUME NEW c, IsTemplate(c)
    PROVE  Flattened(Body(c), [i \in DOMAIN c.lines |-> Part(c, i)], Len(c.lines))
  <1> DEFINE parts == [i \in DOMAIN c.lines |-> Part(c, i)]
             n == Len(c.lines)
  <1>1. n \in Nat /\ DOMAIN parts = 1 .. n /\ Len(parts) = n
    BY TemplateLines
  <1>2. \A i \in 1 .. n : Part(c, i) = <<>> \/ Part(c, i) = <<Part(c, i)[1]>>
    BY ReplacementShort DEF Part
  <1>3. Short(parts, n)
    BY <1>1, <1>2 DEF Short
  <1> HIDE DEF parts, n
  <1>4. Flattened(FlattenSeq(parts), parts, n)
    BY <1>1, <1>3, FlattenShort
  <1>5. QED
    BY <1>4 DEF Body, parts, n

\* Each line of the new text but the link comes from one line of the old, and each
\* old line for which something stands is in the new text.
Origin(c, new, src) ==
    /\ \A k \in DOMAIN new : new[k] # Link(c) =>
           /\ src[k] \in DOMAIN c.lines
           /\ Part(c, src[k]) # <<>>
           /\ new[k] = Part(c, src[k])[1]
    /\ \A k, l \in DOMAIN new : new[k] # Link(c) /\ new[l] # Link(c) /\ src[k] = src[l] => k = l
    /\ \A i \in DOMAIN c.lines : Part(c, i) # <<>> => Part(c, i)[1] \in Range(new)

LEMMA MigratedLines ==
    ASSUME NEW c, IsTemplate(c)
    PROVE  /\ Migrated(c).lines \in Seq(Range(Migrated(c).lines))
           /\ HasPlugins(c) => Link(c) \in Range(Migrated(c).lines)
           /\ \E src : Origin(c, Migrated(c).lines, src)
  <1> DEFINE parts == [i \in DOMAIN c.lines |-> Part(c, i)]
             n == Len(c.lines)
             new == Migrated(c).lines
  <1>0. PICK m \in Nat : \E src : FlattenedBy(Body(c), parts, n, m, src)
    BY BodyFlattened DEF Flattened
  <1>1. PICK src : FlattenedBy(Body(c), parts, n, m, src)
    BY <1>0
  <1>2. DOMAIN c.lines = 1 .. n /\ n \in Nat
    BY TemplateLines
  <1>3. Body(c) = [k \in 1 .. m |-> Part(c, src[k])[1]]
    BY <1>1, <1>2 DEF FlattenedBy
  <1>4. /\ src \in [1 .. m -> 1 .. n]
        /\ \A k \in 1 .. m : Part(c, src[k]) # <<>>
        /\ \A k, l \in 1 .. m : src[k] = src[l] => k = l
        /\ \A i \in 1 .. n : Part(c, i) # <<>> => \E k \in 1 .. m : src[k] = i
    BY <1>1, <1>2 DEF FlattenedBy
  <1> HIDE DEF parts, n
  <1>5. Body(c) \in Seq(Range(Body(c))) /\ Len(Body(c)) = m
    BY <1>3 DEF Range
  <1>6. CASE HasPlugins(c)
    <2>1. new = Body(c) \o <<Link(c)>>
      BY <1>6, MigratedRecord
    <2> HIDE DEF new
    <2>2. /\ DOMAIN new = 1 .. m + 1 /\ new[m + 1] = Link(c)
          /\ \A k \in 1 .. m : new[k] = Body(c)[k]
          /\ new \in Seq(Range(Body(c)) \cup {Link(c)}) /\ Len(new) = m + 1
      BY <1>5, <2>1
    <2>3. new \in Seq(Range(new))
      BY <2>2 DEF Range
    <2>4. Link(c) \in Range(new)
      BY <2>2 DEF Range
    <2>5. Origin(c, new, src)
      <3>1. \A k \in DOMAIN new : new[k] # Link(c) => k \in 1 .. m
        BY <2>2
      <3>2. \A i \in 1 .. n : Part(c, i) # <<>> => Part(c, i)[1] \in Range(new)
        BY <1>3, <1>4, <2>2 DEF Range
      <3>3. QED
        BY <1>2, <1>3, <1>4, <2>2, <3>1, <3>2 DEF Origin, n
    <2>6. QED
      BY <2>3, <2>4, <2>5 DEF new
  <1>7. CASE ~HasPlugins(c)
    <2>1. new = Body(c)
      <3>1. Body(c) \o <<>> = Body(c)
        BY <1>5
      <3>2. QED
        BY <3>1, <1>7, MigratedRecord
    <2> HIDE DEF new
    <2>2. Origin(c, new, src)
      <3>1. \A i \in 1 .. n : Part(c, i) # <<>> => Part(c, i)[1] \in Range(new)
        BY <1>3, <1>4, <2>1 DEF Range
      <3>2. QED
        BY <1>2, <1>3, <1>4, <2>1, <3>1 DEF Origin, n
    <2>3. QED
      BY <1>5, <1>7, <2>1, <2>2 DEF new
  <1>8. QED
    BY <1>6, <1>7

LEMMA NginxLooked ==
    ASSUME NEW c, IsTemplate(c), NEW i \in DOMAIN c.lines, c.lines[i].prefix = "nginx"
    PROVE  i \in Looked(c)
  <1>1. \A j \in DOMAIN c.lines :
            c.lines[j].prefix \in NginxPrefixes /\ c.lines[j].key = c.lines[i].key =>
                Before(c.lines, i, j)
    BY TemplateLines DEF Before, IsTemplate, DistinctKeys
  <1>2. QED
    BY <1>1 DEF Looked, IsEntry, NginxPrefixes

\* A line of nginx's that stands for another has its key.  It was passed over, or needs
\* no other to stand for it.
LEMMA NginxPart ==
    ASSUME NEW c, IsTemplate(c), NEW i \in DOMAIN c.lines, Part(c, i) # <<>>,
           Part(c, i)[1].prefix \in NginxPrefixes
    PROVE  /\ Part(c, i)[1].key = c.lines[i].key
           /\ \/ i \notin Looked(c) /\ Part(c, i)[1] = c.lines[i]
              \/ /\ i \in Looked(c)
                 /\ \A d : Replacement(d, Part(c, i)[1]) = <<Part(c, i)[1]>>
                 /\ PluginsOf(Part(c, i)[1]) = {}
                 /\ Part(c, i)[1] = c.lines[i] \/ Part(c, i)[1].prefix = "nginx"
  <1> DEFINE l == c.lines[i]
             new == Part(c, i)[1]
  <1>1. CASE i \notin Looked(c)
    BY <1>1 DEF Part
  <1>2. ASSUME i \in Looked(c)
        PROVE  Part(c, i) = Replacement(c, l)
    BY <1>2 DEF Part
  <1>2a. CASE i \in Looked(c)
    <2>1. Part(c, i) = Replacement(c, l)
      BY <1>2, <1>2a
    <2>2. "apisix" \notin NginxPrefixes
      BY DEF NginxPrefixes
    <2>3. l.key \notin DOMAIN Renamed
      BY <2>1, <2>2, ReplacementCases DEF Line
    <2>4. l.key \notin Redirects
      BY <2>1, <2>2, ReplacementCases DEF Line
    <2>5. l.key \notin DOMAIN ToPlugin
      BY <2>1, ReplacementCases
    <2>6. CASE l.key = "configuration-snippet"
      <3>1. Part(c, i) = Rest(l.value)
        BY <2>1, <2>6, ReplacementCases
      <3>2. PICK w : /\ Rest(l.value) = <<Line("nginx", "configuration-snippet", w)>>
                     /\ Directives[w] = {"other"}
                     /\ Rest(w) = Rest(l.value)
        BY <3>1, RestOfSnippet
      <3>3. new = Line("nginx", "configuration-snippet", w)
        BY <3>1, <3>2
      <3>4. new.key = "configuration-snippet" /\ new.value = w /\ new.prefix = "nginx"
        BY <3>3 DEF Line
      <3> HIDE DEF new
      <3>5. \A d : Replacement(d, new) = <<new>>
        BY <3>2, <3>3, <3>4, ReplacementCases
      <3>6. PluginsOf(new) = {}
        <4>1. Directives[new.value] \cap DOMAIN SnippetPlugins = {}
          BY <3>2, <3>4, SnippetKeys
        <4>2. QED
          BY <3>4, <4>1, ReplacementCases
      <3>7. QED
        BY <1>2a, <2>6, <3>4, <3>5, <3>6 DEF new
    <2>7. CASE l.key # "configuration-snippet"
      <3>1. \A d : Replacement(d, l) = <<l>> /\ PluginsOf(l) = {}
        BY <2>3, <2>4, <2>5, <2>7, ReplacementCases
      <3>2. new = l
        BY <2>1, <3>1
      <3>3. QED
        BY <1>2a, <3>1, <3>2
    <2>8. QED
      BY <2>6, <2>7
  <1>3. QED
    BY <1>1, <1>2a

-----------------------------------------------------------------------------
(* The lemmas *)

\* What migrateFileContent makes of a template is one again: of the lines that stand
\* for others no two are nginx's and have one key.
LEMMA MigratedTemplate ==
    ASSUME NEW c, IsTemplate(c)
    PROVE  IsTemplate(Migrated(c))
  <1> DEFINE m == Migrated(c)
  <1>1. PICK src : Origin(c, m.lines, src)
    BY MigratedLines
  <1>2. m.lines \in Seq(Range(m.lines))
    BY MigratedLines
  <1>3. m = [name |-> m.name, class |-> m.class, lines |-> m.lines,
             todos |-> m.todos, newline |-> m.newline]
    BY DEF Migrated
  <1>4. Link(c).prefix = "apisix"
    BY DEF Link, Line
  <1>5. DistinctKeys(m)
    <2>1. SUFFICES ASSUME NEW i \in DOMAIN m.lines, NEW j \in DOMAIN m.lines,
                          m.lines[i].prefix \in NginxPrefixes,
                          m.lines[i].prefix = m.lines[j].prefix,
                          m.lines[i].key = m.lines[j].key
                   PROVE  i = j
      BY DEF DistinctKeys
    <2>2. m.lines[i] # Link(c) /\ m.lines[j] # Link(c)
      BY <2>1, <1>4 DEF NginxPrefixes
    <2> DEFINE x == src[i]
               y == src[j]
    <2>3. /\ x \in DOMAIN c.lines /\ y \in DOMAIN c.lines
          /\ Part(c, x) # <<>> /\ Part(c, y) # <<>>
          /\ m.lines[i] = Part(c, x)[1] /\ m.lines[j] = Part(c, y)[1]
          /\ x = y => i = j
      BY <1>1, <2>2 DEF Origin
    <2> DEFINE p == Part(c, x)[1]
               q == Part(c, y)[1]
    <2>4. p.prefix \in NginxPrefixes /\ p.prefix = q.prefix /\ p.key = q.key
      BY <2>1, <2>3
    <2> HIDE DEF x, y, m
    <2>5. /\ p.key = c.lines[x].key /\ q.key = c.lines[y].key
          /\ p = c.lines[x] \/ (x \in Looked(c) /\ p.prefix = "nginx")
          /\ q = c.lines[y] \/ (y \in Looked(c) /\ q.prefix = "nginx")
      BY <2>3, <2>4, NginxPart
    <2> HIDE DEF p, q
    <2>6. CASE p = c.lines[x] /\ q = c.lines[y]
      BY <2>3, <2>4, <2>6 DEF IsTemplate, DistinctKeys
    <2>7. CASE ~(p = c.lines[x] /\ q = c.lines[y])
      <3>1. p.prefix = "nginx" /\ q.prefix = "nginx"
        BY <2>4, <2>5, <2>7
      <3>2. x \in Looked(c)
        BY <2>3, <2>5, <3>1, NginxLooked
      <3>3. y \in Looked(c)
        BY <2>3, <2>5, <3>1, NginxLooked
      <3>4. x = y
        BY <2>4, <2>5, <3>2, <3>3, LookedOnce
      <3>5. QED
        BY <2>3, <3>4
    <2>8. QED
      BY <2>6, <2>7
  <1>6. ASSUME NEW k \in DOMAIN m.lines, ClassLine(m.lines[k]) PROVE FALSE
    <2>1. m.lines[k] # Link(c)
      BY <1>4, <1>6 DEF ClassLine
    <2>2. /\ src[k] \in DOMAIN c.lines /\ Part(c, src[k]) # <<>>
          /\ m.lines[k] = Part(c, src[k])[1]
      BY <1>1, <2>1 DEF Origin
    <2> DEFINE l == c.lines[src[k]]
    <2>3. ~ClassLine(l)
      BY <2>2 DEF Part
    <2>4. src[k] \in Looked(c) /\ Part(c, src[k]) = Replacement(c, l)
      BY <1>6, <2>2, <2>3 DEF Part
    <2>5. l.key # "configuration-snippet"
      BY <1>6, <2>2, <2>4, ReplacementCases, RestOfSnippet DEF Line, ClassLine
    <2>6. QED
      BY <1>6, <2>2, <2>3, <2>4, <2>5, ReplacementCases DEF Line, ClassLine
  <1>7. \A l \in Range(m.lines) : ClassLine(l) => l.key = "ingress.class"
    BY <1>6 DEF Range
  <1> HIDE DEF m
  <1>8. QED
    BY <1>2, <1>3, <1>5, <1>7 DEF IsTemplate, m

\* A migrated template has nothing left to migrate (migrator.go:307-362): no class of
\* nginx's, and no line that would change or make a plugin, but for the second lines of
\* what was migrated.  Each of those set an annotation that a line under the other prefix
\* sets, which was looked at instead (migrator.go:455-473).
THEOREM MigratedIsSettled ==
    ASSUME NEW c, IsTemplate(c)
    PROVE  /\ Migrated(c).class # "nginx"
           /\ \A k \in Looked(Migrated(c)) :
                  LET l == Migrated(c).lines[k]
                  IN  \/ l \in Seconds(c)
                      \/ Replacement(Migrated(c), l) = <<l>> /\ PluginsOf(l) = {}
           /\ \A l \in Seconds(c) :
                  \E j \in Looked(c) : c.lines[j].key = l.key /\ c.lines[j].prefix # l.prefix
  <1> DEFINE m == Migrated(c)
  <1>1. m.class # "nginx"
    BY MigratedRecord DEF FixedClass
  <1>2. ASSUME NEW k \in Looked(m)
        PROVE  \/ m.lines[k] \in Seconds(c)
               \/ Replacement(m, m.lines[k]) = <<m.lines[k]>> /\ PluginsOf(m.lines[k]) = {}
    <2>1. k \in DOMAIN m.lines /\ m.lines[k].prefix \in NginxPrefixes
      BY <1>2 DEF Looked, IsEntry
    <2>2. PICK src : Origin(c, m.lines, src)
      BY MigratedLines
    <2>3. m.lines[k] # Link(c)
      BY <2>1 DEF Link, Line, NginxPrefixes
    <2> DEFINE x == src[k]
    <2>4. x \in DOMAIN c.lines /\ Part(c, x) # <<>> /\ m.lines[k] = Part(c, x)[1]
      BY <2>1, <2>2, <2>3 DEF Origin
    <2> HIDE DEF m, x
    <2>5. CASE x \notin Looked(c) /\ m.lines[k] = c.lines[x]
      BY <2>1, <2>4, <2>5 DEF Seconds
    <2>6. QED
      BY <2>1, <2>4, <2>5, NginxPart
  <1>3. ASSUME NEW l \in Seconds(c)
        PROVE  \E j \in Looked(c) : c.lines[j].key = l.key /\ c.lines[j].prefix # l.prefix
    <2>1. PICK i \in DOMAIN c.lines :
            l = c.lines[i] /\ l.prefix \in NginxPrefixes /\ i \notin Looked(c)
      BY DEF Seconds
    <2>2. Sets(c, l.key)
      BY <2>1, LookedSome
    <2>3. PICK j \in Looked(c) : c.lines[j].key = l.key
      BY <2>2 DEF Sets
    <2>4. j # i /\ j \in DOMAIN c.lines /\ c.lines[j].prefix \in NginxPrefixes
      BY <2>1 DEF Looked, IsEntry
    <2>5. c.lines[j].prefix # l.prefix
      BY <2>1, <2>3, <2>4 DEF IsTemplate, DistinctKeys
    <2>6. QED
      BY <2>3, <2>5
  <1>4. QED
    BY <1>1, <1>2, <1>3

\* A template that its migration leaves as it is had nothing to migrate.
LEMMA UnchangedIsSettled ==
    ASSUME NEW c, IsTemplate(c), Migrated(c) = c
    PROVE  /\ c.class # "nginx"
           /\ \A k \in Looked(c) :
                  Replacement(c, c.lines[k]) = <<c.lines[k]>> /\ PluginsOf(c.lines[k]) = {}
  <1> SUFFICES ASSUME NEW k \in Looked(c), c.lines[k] \in Seconds(c)
               PROVE  FALSE
    BY MigratedIsSettled
  <1>1. PICK j \in Looked(c) : c.lines[j].key = c.lines[k].key /\ c.lines[j].prefix # c.lines[k].prefix
    BY MigratedIsSettled
  <1>2. QED
    BY <1>1, LookedOnce

\* A line that is neither looked at nor the class stays.
LEMMA OthersKept ==
    ASSUME NEW c, IsTemplate(c), NEW l \in Range(c.lines),
           ~ClassLine(l), l.prefix \notin NginxPrefixes
    PROVE  l \in Range(Migrated(c).lines)
  <1>1. PICK i \in DOMAIN c.lines : l = c.lines[i]
    BY DEF Range
  <1>2. i \notin Looked(c)
    BY <1>1 DEF Looked, IsEntry
  <1>3. Part(c, i) = <<l>>
    BY <1>1, <1>2 DEF Part
  <1>4. PICK src : Origin(c, Migrated(c).lines, src)
    BY MigratedLines
  <1>5. QED
    BY <1>3, <1>4 DEF Origin

\* What becomes of a line in one migration (migrator.go:531-759): it stays, or one converted
\* stands for it, or a plugin is made of it, or it goes (the class, and the redirects,
\* which are one together).
THEOREM LineKept ==
    ASSUME NEW c, IsTemplate(c), NEW l \in Range(c.lines)
    PROVE  LET new == Range(Migrated(c).lines)
           IN  \/ l \in new
               \/ ClassLine(l)
               \/ l.key \in DOMAIN Renamed /\ Line("apisix", Target(l), Transformed(l)) \in new
               \/ l.key \in Redirects
               \/ l.key \in DOMAIN ToPlugin /\ Made(l) \in Plugins(c)
               \/ /\ l.key = "configuration-snippet"
                  /\ "other" \in Directives[l.value] =>
                        \E m \in new : m.key = l.key /\ "other" \in Directives[m.value]
                  /\ \A d \in Directives[l.value] \cap DOMAIN SnippetPlugins :
                        Entry(SnippetPlugins[d], l) \in Plugins(c)
  <1> DEFINE new == Range(Migrated(c).lines)
  <1>1. PICK i \in DOMAIN c.lines : l = c.lines[i]
    BY DEF Range
  <1>2. PICK src : Origin(c, Migrated(c).lines, src)
    BY MigratedLines
  <1>3. Part(c, i) # <<>> => Part(c, i)[1] \in new
    BY <1>2 DEF Origin
  <1> HIDE DEF new
  <1>4. CASE ClassLine(l)
    BY <1>4
  <1>5. CASE ~ClassLine(l) /\ i \notin Looked(c)
    <2>1. Part(c, i) = <<l>>
      BY <1>1, <1>5 DEF Part
    <2>2. l \in new
      BY <1>3, <2>1
    <2>3. QED
      BY <2>2 DEF new
  <1>6. CASE ~ClassLine(l) /\ i \in Looked(c)
    <2>1. Part(c, i) = Replacement(c, l)
      BY <1>1, <1>6 DEF Part
    <2>2. PluginsOf(l) \subseteq Plugins(c)
      BY <1>1, <1>6 DEF Plugins
    <2>3. CASE l.key \in DOMAIN Renamed
      <3>1. Line("apisix", Target(l), Transformed(l)) \in new
        BY <1>3, <2>1, <2>3, ReplacementCases
      <3>2. QED
        BY <2>3, <3>1 DEF new
    <2>4. CASE l.key \in Redirects
      BY <2>4
    <2>5. CASE l.key \in DOMAIN ToPlugin
      BY <2>2, <2>5, ReplacementCases
    <2>6. CASE l.key = "configuration-snippet"
      <3>1. \A d \in Directives[l.value] \cap DOMAIN SnippetPlugins :
                Entry(SnippetPlugins[d], l) \in Plugins(c)
        BY <2>2, <2>6, ReplacementCases
      <3>2. ASSUME "other" \in Directives[l.value]
            PROVE  \E m \in new : m.key = l.key /\ "other" \in Directives[m.value]
        <4>1. PICK w : /\ Rest(l.value) = <<Line("nginx", "configuration-snippet", w)>>
                       /\ Directives[w] = {"other"}
          BY <3>2, RestOfSnippet
        <4>2. Line("nginx", "configuration-snippet", w) \in new
          BY <1>3, <2>1, <2>6, <4>1, ReplacementCases
        <4>3. QED
          BY <2>6, <4>1, <4>2 DEF Line
      <3>3. QED
        BY <2>6, <3>1, <3>2 DEF new
    <2>7. CASE l.key \notin DOMAIN Renamed \cup Redirects \cup DOMAIN ToPlugin \cup {"configuration-snippet"}
      <3>1. l \in new
        BY <1>3, <2>1, <2>7, ReplacementCases
      <3>2. QED
        BY <3>1 DEF new
    <2>8. QED
      BY <2>3, <2>4, <2>5, <2>6, <2>7
  <1>7. QED
    BY <1>4, <1>5, <1>6

\* What is not known of a snippet stays in a snippet.
LEMMA SnippetKept ==
    ASSUME NEW c, IsTemplate(c), NEW l \in Range(c.lines),
           l.key = "configuration-snippet", "other" \in Directives[l.value]
    PROVE  \E m \in Range(Migrated(c).lines) :
               m.key = "configuration-snippet" /\ "other" \in Directives[m.value]
  <1>1. ~ClassLine(l)
    BY DEF IsTemplate
  <1>2. l.key \notin DOMAIN Renamed \cup Redirects \cup DOMAIN ToPlugin
    BY KeyClasses
  <1>3. QED
    BY <1>1, <1>2, LineKept

\* Two redirects become one annotation.
LEMMA RedirectsPaired ==
    ASSUME NEW c, IsTemplate(c),
           Sets(c, "proxy-redirect-from"), Sets(c, "proxy-redirect-to")
    PROVE  Line("apisix", "http-to-https", "true") \in Range(Migrated(c).lines)
  <1>1. PICK i \in Looked(c) : c.lines[i].key = "proxy-redirect-from"
    BY DEF Sets
  <1>2. ~ClassLine(c.lines[i]) /\ i \in DOMAIN c.lines
    BY DEF Looked, IsEntry, ClassLine, NginxPrefixes
  <1>3. Part(c, i) = <<Line("apisix", "http-to-https", "true")>>
    BY <1>1, <1>2, ReplacementCases DEF Part, Redirects
  <1>4. PICK src : Origin(c, Migrated(c).lines, src)
    BY MigratedLines
  <1>5. QED
    BY <1>2, <1>3, <1>4 DEF Origin

\* The value of a limit in values.yaml is the one of its line.
LEMMA NewValuesMatch ==
    ASSUME NEW c, IsTemplate(c), NEW e \in Plugins(c), FromValues(e)
    PROVE  e.key \in DOMAIN NewValues(c) /\ NewValues(c)[e.key] = e.value
  <1> DEFINE made == {x \in Plugins(c) : FromValues(x)}
  <1>1. ASSUME NEW x \in made
        PROVE  \E i \in Looked(c) : x.key = c.lines[i].key /\ x.value = c.lines[i].value
    <2>1. PICK i \in Looked(c) : x \in PluginsOf(c.lines[i])
      BY DEF Plugins
    <2> DEFINE l == c.lines[i]
    <2>2. CASE l.key \in DOMAIN ToPlugin
      <3>1. PluginsOf(l) = {Made(l)}
        BY <2>2, ReplacementCases
      <3>2. x = Made(l) /\ FromValues(x)
        BY <2>1, <3>1
      <3>3. x = Entry(ToPlugin[l.key], l)
        <4>1. ~PathUnread(l)
          BY <3>2 DEF Made, Placeholder, PathUnread, FromValues, Limits
        <4>2. QED
          BY <3>2, <4>1 DEF Made
      <3>4. x.key = l.key /\ x.value = l.value
        BY <3>3 DEF Entry
      <3>5. QED
        BY <3>4
    <2>3. CASE l.key = "configuration-snippet"
      BY <2>1, <2>3, ReplacementCases DEF Entry
    <2>4. CASE l.key \notin DOMAIN ToPlugin \cup {"configuration-snippet"}
      BY <2>1, <2>4, ReplacementCases
    <2>5. QED
      BY <2>2, <2>3, <2>4
  <1>2. ASSUME NEW x \in made, NEW y \in made, x.key = y.key PROVE x.value = y.value
    BY <1>1, <1>2, LookedOnce
  <1>3. e \in made
    OBVIOUS
  <1>4. NewValues(c) = [k \in {x.key : x \in made} |-> (CHOOSE x \in made : x.key = k).value]
    BY DEF NewValues
  <1> HIDE DEF made
  <1>5. NewValues(c)[e.key] = (CHOOSE x \in made : x.key = e.key).value
    BY <1>3, <1>4
  <1>6. (CHOOSE x \in made : x.key = e.key) \in made /\ (CHOOSE x \in made : x.key = e.key).key = e.key
    BY <1>3
  <1>7. QED
    BY <1>2, <1>3, <1>4, <1>5, <1>6

=============================================================================
