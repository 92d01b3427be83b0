-------------------------- MODULE ConverterProofs --------------------------
(***************************************************************************)
(* Proofs about Converter, for any lists of Ingresses and any of what the  *)
(* constants say: type correctness, that links resolve, that cookie        *)
(* affinity works, that what is reported as lost makes no difference, that *)
(* to convert what was converted changes nothing, and that but for the     *)
(* cases Dropped names no annotation that asks for something is lost with  *)
(* no word.                                                                *)
(***************************************************************************)
EXTENDS Converter, SequenceTheorems, TLAPS

-----------------------------------------------------------------------------
(* Annotations *)

IsFcn(f) == f = [k \in DOMAIN f |-> f[k]]
Prefixed(a) == \A k \in DOMAIN a : k[1] \in Prefixes

IsOver(h, f, g) ==
    /\ IsFcn(h)
    /\ DOMAIN h = DOMAIN f \cup DOMAIN g
    /\ \A k \in DOMAIN h : /\ k \in DOMAIN f => h[k] = f[k]
                           /\ k \notin DOMAIN f => h[k] = g[k]

LEMMA OverTwo ==
    ASSUME NEW f, NEW g
    PROVE  IsOver(Over(f, g), f, g)
  BY DEF Over, IsFcn, IsOver

\* What convertAnnotations writes is never a link to a plugin config.
LEMMA WrittenKeys ==
    ASSUME NEW a, NEW n \in Written(a)
    PROVE  n[1] # "plugin-config-name"
  <1>1. CASE \E r \in Renamed : n = <<r[2], Get(a, r[1])>>
    BY <1>1 DEF Renamed
  <1>2. CASE \E r \in Timeouts : n = <<r[2], WithUnit(Get(a, r[1]))>>
    BY <1>2 DEF Timeouts
  <1> DEFINE websocket == IF IsSet(a, "websocket-services") THEN "true" ELSE ""
             regex == IF Get(a, "use-regex") = "true" THEN "true" ELSE ""
             others ==
               {<<"http-to-https", HttpToHttps(a)>>,
                <<"http-redirect", HttpRedirect(a)>>,
                <<"http-redirect-code", HttpRedirectCode(a)>>,
                <<"auth-type", AuthType(a)>>,
                <<"enable-access-log", AccessLog(a)>>,
                <<"enable-websocket", websocket>>,
                <<"use-regex", regex>>}
  <1> HIDE DEF websocket, regex
  <1>3. CASE n \in others
    BY <1>3
  <1> USE DEF websocket, regex
  <1>4. \/ \E r \in Renamed : n = <<r[2], Get(a, r[1])>>
        \/ \E r \in Timeouts : n = <<r[2], WithUnit(Get(a, r[1]))>>
        \/ n \in others
    BY DEF Written
  <1>5. QED
    BY <1>1, <1>2, <1>3, <1>4

LEMMA NativeKeys ==
    ASSUME NEW a
    PROVE  \A k \in DOMAIN Native(a) : k[1] = "apisix" /\ k[2] # "plugin-config-name"
  BY WrittenKeys DEF Native, Annotated

-----------------------------------------------------------------------------
(* The annotations of a converted Ingress *)

Name == <<"apisix", "plugin-config-name">>
Class == <<"kubernetes", "ingress.class">>
Regex == <<"apisix", "use-regex">>
Https == <<"apisix", "http-to-https">>

\* What is true of them, whatever they were made of.
AreOut(out, ing, s, link) ==
    /\ IsFcn(out) /\ Prefixed(out)
    /\ \A k \in DOMAIN out : ~IsNginx(k) /\ ~(k = Class /\ out[k] = "nginx")
    /\ link # "" => Name \in DOMAIN out /\ out[Name] = link
    /\ link = "" => ValueOf(out, Name) = ValueOf(ing.anns, Name)
    /\ NeedsRegex(ing) => Regex \in DOMAIN out /\ out[Regex] = "true"
    /\ s /\ ing.tls # <<>> => Https \in DOMAIN out

LEMMA OutKeys ==
    ASSUME NEW ing, Prefixed(ing.anns), NEW s \in BOOLEAN, NEW link
    PROVE  AreOut(OutAnnotations(ing, s, link), ing, s, link)
  <1> DEFINE A == At(link # "", "plugin-config-name", link)
             B == At(NeedsRegex(ing), "use-regex", "true")
             C == Native(ing.anns)
             D == Restricted(ing.anns, Kept(ing))
             E == At(s /\ ing.tls # <<>>, "http-to-https", "true")
             out == OutAnnotations(ing, s, link)
  <1>1. out = Over(A, Over(B, Over(C, Over(D, E))))
    BY DEF OutAnnotations
  <1>2. /\ \A k \in DOMAIN A : k = Name /\ A[k] = link /\ link # ""
        /\ link # "" => Name \in DOMAIN A
    BY DEF At, Name
  <1>3. /\ \A k \in DOMAIN B : k = Regex /\ B[k] = "true"
        /\ NeedsRegex(ing) => Regex \in DOMAIN B
    BY DEF At, Regex
  <1>4. \A k \in DOMAIN C : k[1] = "apisix" /\ k[2] # "plugin-config-name"
    BY NativeKeys
  <1>5. /\ DOMAIN D = Kept(ing)
        /\ \A k \in DOMAIN D : k \in DOMAIN ing.anns /\ D[k] = ing.anns[k]
        /\ Name \in DOMAIN ing.anns => Name \in DOMAIN D
        /\ \A k \in DOMAIN D : ~IsNginx(k) /\ ~(k = Class /\ D[k] = "nginx")
    BY DEF Restricted, Kept, Name, Class, IsNginx, NginxPrefixes
  <1>6. /\ \A k \in DOMAIN E : k = Https
        /\ s /\ ing.tls # <<>> => Https \in DOMAIN E
    BY DEF At, Https
  <1> HIDE DEF A, B, C, D, E, out
  <1>7. /\ IsFcn(out)
        /\ DOMAIN out = DOMAIN A \cup DOMAIN B \cup DOMAIN C \cup DOMAIN D \cup DOMAIN E
        /\ \A k \in DOMAIN A : out[k] = A[k]
        /\ \A k \in DOMAIN B \ DOMAIN A : out[k] = B[k]
        /\ \A k \in DOMAIN D \ (DOMAIN A \cup DOMAIN B \cup DOMAIN C) : out[k] = D[k]
    <2>1. PICK X : X = Over(D, E)
      OBVIOUS
    <2>2. PICK Y : Y = Over(C, X)
      OBVIOUS
    <2>3. PICK Z : Z = Over(B, Y)
      OBVIOUS
    <2>4. IsOver(X, D, E)
      BY <2>1, OverTwo
    <2>5. IsOver(Y, C, X)
      BY <2>2, OverTwo
    <2>6. IsOver(Z, B, Y)
      BY <2>3, OverTwo
    <2>7. out = Over(A, Z)
      BY <1>1, <2>1, <2>2, <2>3
    <2>8. IsOver(out, A, Z)
      BY <2>7, OverTwo
    <2>9. QED
      BY <2>4, <2>5, <2>6, <2>8 DEF IsOver
  <1>8. /\ Name[1] = "apisix" /\ Regex[1] = "apisix" /\ Https[1] = "apisix"
        /\ Class[1] = "kubernetes" /\ Name[2] = "plugin-config-name"
        /\ Regex # Name /\ Https # Name
    BY DEF Name, Regex, Https, Class
  <1>9. Prefixed(out)
    <2>1. \A k \in DOMAIN D : k[1] \in Prefixes
      BY <1>5 DEF Prefixed
    <2>2. "apisix" \in Prefixes
      BY DEF Prefixes
    <2>3. QED
      BY <1>2, <1>3, <1>4, <1>6, <1>7, <1>8, <2>1, <2>2 DEF Prefixed
  <1>10. ASSUME NEW k \in DOMAIN out
         PROVE  ~IsNginx(k) /\ ~(k = Class /\ out[k] = "nginx")
    <2>1. CASE k[1] = "apisix"
      BY <1>8, <2>1 DEF IsNginx, NginxPrefixes
    <2>2. CASE k[1] # "apisix"
      <3>1. k \notin DOMAIN A \cup DOMAIN B \cup DOMAIN C \cup DOMAIN E
        BY <1>2, <1>3, <1>4, <1>6, <1>8, <2>2
      <3>2. k \in DOMAIN D /\ out[k] = D[k]
        BY <1>7, <3>1
      <3>3. QED
        BY <1>5, <3>2
    <2>3. QED
      BY <2>1, <2>2
  <1>11. link # "" => Name \in DOMAIN out /\ out[Name] = link
    BY <1>2, <1>7
  <1>12. ASSUME link = ""
         PROVE  ValueOf(out, Name) = ValueOf(ing.anns, Name)
    <2>1. Name \notin DOMAIN A \cup DOMAIN B \cup DOMAIN C \cup DOMAIN E
      BY <1>2, <1>3, <1>4, <1>6, <1>8, <1>12
    <2>2. Name \in DOMAIN out <=> Name \in DOMAIN ing.anns
      BY <1>5, <1>7, <2>1
    <2>3. Name \in DOMAIN out => out[Name] = ing.anns[Name]
      BY <1>5, <1>7, <2>1
    <2>4. QED
      BY <2>2, <2>3 DEF ValueOf
  <1>13. ASSUME NeedsRegex(ing)
         PROVE  Regex \in DOMAIN out /\ out[Regex] = "true"
    <2>1. Regex \in DOMAIN B /\ Regex \notin DOMAIN A
      BY <1>2, <1>3, <1>8, <1>13
    <2>2. QED
      BY <1>3, <1>7, <2>1
  <1>14. s /\ ing.tls # <<>> => Https \in DOMAIN out
    BY <1>6, <1>7
  <1>15. QED
    BY <1>7, <1>9, <1>10, <1>11, <1>12, <1>13, <1>14 DEF out, AreOut

-----------------------------------------------------------------------------
(* Sequences *)

Elements(s) == {s[i] : i \in DOMAIN s}
IsSequence(s) == s \in Seq(Elements(s))

LEMMA SequenceOf ==
    ASSUME NEW S, NEW s \in Seq(S)
    PROVE  /\ IsSequence(s) /\ Elements(s) \subseteq S
           /\ Len(s) \in Nat /\ DOMAIN s = 1 .. Len(s)
  <1>1. /\ Len(s) \in Nat /\ DOMAIN s = 1 .. Len(s)
        /\ \A i \in 1 .. Len(s) : s[i] \in S
        /\ s = [i \in 1 .. Len(s) |-> s[i]]
    OBVIOUS
  <1>2. [i \in 1 .. Len(s) |-> s[i]] \in Seq(Elements(s))
    <2>1. \A i \in 1 .. Len(s) : s[i] \in Elements(s)
      BY <1>1 DEF Elements
    <2>2. QED
      BY <1>1, <2>1
  <1>3. QED
    BY <1>1, <1>2 DEF IsSequence, Elements

LEMMA Concatenated ==
    ASSUME NEW s, NEW t, IsSequence(s), IsSequence(t)
    PROVE  /\ IsSequence(s \o t)
           /\ Elements(s \o t) = Elements(s) \cup Elements(t)
           /\ Len(s \o t) = Len(s) + Len(t)
           /\ \A i \in 1 .. Len(s) : (s \o t)[i] = s[i]
           /\ \A i \in 1 .. Len(t) : (s \o t)[Len(s) + i] = t[i]
  <1> DEFINE S == Elements(s) \cup Elements(t)
  <1>1. s \in Seq(S) /\ t \in Seq(S)
    <2>1. Elements(s) \subseteq S /\ Elements(t) \subseteq S
      OBVIOUS
    <2> HIDE DEF S
    <2>2. QED
      BY <2>1 DEF IsSequence
  <1> HIDE DEF S
  <1>2. /\ s \o t \in Seq(S)
        /\ Len(s \o t) = Len(s) + Len(t)
        /\ \A i \in 1 .. Len(s) + Len(t) :
              (s \o t)[i] = IF i <= Len(s) THEN s[i] ELSE t[i - Len(s)]
    BY <1>1
  <1>3. /\ Len(s) \in Nat /\ DOMAIN s = 1 .. Len(s)
        /\ Len(t) \in Nat /\ DOMAIN t = 1 .. Len(t)
        /\ DOMAIN (s \o t) = 1 .. Len(s \o t)
        /\ IsSequence(s \o t)
    BY <1>1, <1>2, SequenceOf
  <1>4. \A i \in 1 .. Len(s) : i \in 1 .. Len(s) + Len(t) /\ (s \o t)[i] = s[i]
    BY <1>2, <1>3
  <1>5. \A i \in 1 .. Len(t) : /\ Len(s) + i \in 1 .. Len(s) + Len(t)
                               /\ (s \o t)[Len(s) + i] = t[i]
    <2> SUFFICES ASSUME NEW i \in 1 .. Len(t)
                 PROVE  /\ Len(s) + i \in 1 .. Len(s) + Len(t)
                        /\ (s \o t)[Len(s) + i] = t[i]
      OBVIOUS
    <2>1. Len(s) + i \in 1 .. Len(s) + Len(t) /\ ~(Len(s) + i <= Len(s)) /\ Len(s) + i - Len(s) = i
      BY <1>3
    <2>2. QED
      BY <1>2, <2>1
  <1>6. Elements(s \o t) = Elements(s) \cup Elements(t)
    <2>1. ASSUME NEW x \in Elements(s \o t)
          PROVE  x \in Elements(s) \cup Elements(t)
      <3>1. PICK i \in 1 .. Len(s) + Len(t) : x = (s \o t)[i]
        BY <1>2, <1>3 DEF Elements
      <3>2. CASE i <= Len(s)
        <4>1. i \in 1 .. Len(s) /\ x = s[i]
          BY <1>3, <1>4, <3>1, <3>2
        <4>2. QED
          BY <1>3, <4>1 DEF Elements
      <3>3. CASE ~(i <= Len(s))
        <4>1. i - Len(s) \in 1 .. Len(t) /\ x = t[i - Len(s)]
          BY <1>2, <1>3, <3>1, <3>3
        <4>2. QED
          BY <1>3, <4>1 DEF Elements
      <3>4. QED
        BY <3>2, <3>3
    <2>2. ASSUME NEW x \in Elements(s)
          PROVE  x \in Elements(s \o t)
      BY <1>2, <1>3, <1>4, <2>2 DEF Elements
    <2>3. ASSUME NEW x \in Elements(t)
          PROVE  x \in Elements(s \o t)
      <3>1. PICK i \in 1 .. Len(t) : x = t[i]
        BY <1>3, <2>3 DEF Elements
      <3>2. Len(s) + i \in DOMAIN (s \o t) /\ x = (s \o t)[Len(s) + i]
        BY <1>2, <1>3, <1>5, <3>1
      <3>3. QED
        BY <3>2 DEF Elements
    <2>4. QED
      BY <2>1, <2>2, <2>3
  <1>7. QED
    BY <1>2, <1>3, <1>4, <1>5, <1>6

LEMMA WhenSequence ==
    ASSUME NEW c \in BOOLEAN, NEW x
    PROVE  /\ IsSequence(When(c, x))
           /\ Elements(When(c, x)) = IF c THEN {x} ELSE {}
           /\ Len(When(c, x)) = IF c THEN 1 ELSE 0
  <1>1. CASE c
    <2>1. When(c, x) = <<x>>
      BY <1>1 DEF When
    <2>2. <<x>> \in Seq({x}) /\ DOMAIN <<x>> = {1} /\ <<x>>[1] = x
      OBVIOUS
    <2>3. Elements(<<x>>) = {x}
      BY <2>2 DEF Elements
    <2>4. QED
      BY <1>1, <2>1, <2>2, <2>3 DEF IsSequence
  <1>2. CASE ~c
    <2>1. When(c, x) = <<>>
      BY <1>2 DEF When
    <2>2. <<>> \in Seq({}) /\ DOMAIN <<>> = {}
      OBVIOUS
    <2>3. Elements(<<>>) = {}
      BY <2>2 DEF Elements
    <2>4. QED
      BY <1>2, <2>1, <2>2, <2>3 DEF IsSequence
  <1>3. QED
    BY <1>1, <1>2

-----------------------------------------------------------------------------
(* An Ingress whose paths are fixed *)

Whole(ing) == IsIngress(ing) /\ IsWhole(ing)

LEMMA WholeRecord ==
    ASSUME NEW ing, Whole(ing)
    PROVE  ing = [ns |-> ing.ns, name |-> ing.name, class |-> ing.class, anns |-> ing.anns,
                  paths |-> ing.paths, backend |-> ing.backend, tls |-> ing.tls]
  <1>1. IsWhole(ing)
    BY DEF Whole
  <1>2. QED
    BY <1>1 DEF IsWhole

LEMMA PathRecord ==
    ASSUME NEW p, NEW x, NEW y, NEW z, p = [path |-> x, type |-> y, service |-> z]
    PROVE  /\ p.path = x /\ p.type = y /\ p.service = z
           /\ p = [path |-> p.path, type |-> p.type, service |-> p.service]
  OBVIOUS

LEMMA FixedFields ==
    ASSUME NEW ing, Whole(ing)
    PROVE  Fixed(ing) = [ns |-> ing.ns, name |-> ing.name, class |-> ing.class, anns |-> ing.anns,
                         paths |-> FixedPaths(ing), backend |-> ing.backend, tls |-> ing.tls]
  <1>1. ing = [ns |-> ing.ns, name |-> ing.name, class |-> ing.class, anns |-> ing.anns,
               paths |-> ing.paths, backend |-> ing.backend, tls |-> ing.tls]
    BY WholeRecord
  <1>2. PICK n, m, c, a, p, b, t :
            ing = [ns |-> n, name |-> m, class |-> c, anns |-> a, paths |-> p, backend |-> b, tls |-> t]
    BY <1>1
  <1>3. QED
    BY <1>2 DEF Fixed

\* fixPathTypes, done twice, does what it does once.
LEMMA FixedTypeTwice ==
    ASSUME NEW p, NEW q, p.type \in PathTypes, q.path = p.path, q.type = FixedType(p)
    PROVE  /\ FixedType(q) = FixedType(p)
           /\ FixedType(p) \in PathTypes
           /\ FixedType(p) = "none" <=> p.type = "none"
  <1> DEFINE r == p.path \in RegexPaths
  <1>1. HasRegex(p) = r /\ HasRegex(q) = r /\ r \in BOOLEAN
    BY DEF HasRegex
  <1> HIDE DEF r
  <1>2. QED
    BY <1>1 DEF FixedType, PathTypes

LEMMA FixedPath ==
    ASSUME NEW ing, Whole(ing)
    PROVE  /\ FixedPaths(ing) = [i \in DOMAIN ing.paths |-> FixedPaths(ing)[i]]
           /\ \A i \in DOMAIN ing.paths :
                FixedPaths(ing)[i] =
                    [path |-> ing.paths[i].path, type |-> FixedType(ing.paths[i]),
                     service |-> ing.paths[i].service]
  <1> SUFFICES ASSUME NEW i \in DOMAIN ing.paths
               PROVE  FixedPaths(ing)[i] =
                        [path |-> ing.paths[i].path, type |-> FixedType(ing.paths[i]),
                         service |-> ing.paths[i].service]
    BY DEF FixedPaths
  <1>1. FixedPaths(ing)[i] = [ing.paths[i] EXCEPT !.type = FixedType(ing.paths[i])]
    BY DEF FixedPaths
  <1>2. ing.paths[i] = [path |-> ing.paths[i].path, type |-> ing.paths[i].type,
                        service |-> ing.paths[i].service]
    <2>1. IsWhole(ing)
      BY DEF Whole
    <2>2. QED
      BY <2>1 DEF IsWhole
  <1>3. PICK q, t, v : ing.paths[i] = [path |-> q, type |-> t, service |-> v]
    BY <1>2
  <1>4. QED
    BY <1>1, <1>3

LEMMA FixedWhole ==
    ASSUME NEW ing, Whole(ing)
    PROVE  /\ Whole(Fixed(ing))
           /\ FixedPaths(Fixed(ing)) = FixedPaths(ing)
           /\ Fixed(Fixed(ing)) = Fixed(ing)
           /\ IsSequence(FixedPaths(ing))
           /\ \A i \in DOMAIN FixedPaths(ing) :
                /\ FixedPaths(ing)[i].type \in PathTypes
                /\ FixedPaths(ing)[i] =
                     [path |-> FixedPaths(ing)[i].path, type |-> FixedPaths(ing)[i].type,
                      service |-> FixedPaths(ing)[i].service]
  <1> DEFINE f == Fixed(ing)
             P == FixedPaths(ing)
  <1>1. f = [ns |-> ing.ns, name |-> ing.name, class |-> ing.class, anns |-> ing.anns,
             paths |-> P, backend |-> ing.backend, tls |-> ing.tls]
    BY FixedFields
  <1>2. /\ P = [i \in DOMAIN ing.paths |-> P[i]]
        /\ \A i \in DOMAIN ing.paths :
              P[i] = [path |-> ing.paths[i].path, type |-> FixedType(ing.paths[i]),
                      service |-> ing.paths[i].service]
    BY FixedPath
  <1>3. \A i \in DOMAIN ing.paths : ing.paths[i].type \in PathTypes
    BY DEF Whole, IsIngress
  <1> HIDE DEF f, P
  <1>4. DOMAIN P = DOMAIN ing.paths
    BY <1>2
  <1>5. ASSUME NEW i \in DOMAIN P
        PROVE  /\ P[i].path = ing.paths[i].path
               /\ P[i].type = FixedType(ing.paths[i]) /\ P[i].type \in PathTypes
               /\ P[i] = [path |-> P[i].path, type |-> P[i].type, service |-> P[i].service]
               /\ FixedType(P[i]) = P[i].type
    <2>1. /\ P[i].path = ing.paths[i].path /\ P[i].type = FixedType(ing.paths[i])
          /\ P[i] = [path |-> P[i].path, type |-> P[i].type, service |-> P[i].service]
      <3>1. P[i] = [path |-> ing.paths[i].path, type |-> FixedType(ing.paths[i]),
                    service |-> ing.paths[i].service]
        BY <1>2, <1>4
      <3>2. QED
        BY <3>1, PathRecord
    <2>2. ing.paths[i].type \in PathTypes
      BY <1>3, <1>4
    <2>3. /\ FixedType(P[i]) = FixedType(ing.paths[i])
          /\ FixedType(ing.paths[i]) \in PathTypes
      BY <2>1, <2>2, FixedTypeTwice
    <2>4. QED
      BY <2>1, <2>3
  <1>6. IsSequence(P)
    <2>1. /\ Len(ing.paths) \in Nat /\ DOMAIN ing.paths = 1 .. Len(ing.paths)
      <3>1. ing.paths \in Seq(Elements(ing.paths))
        BY DEF Whole, IsWhole, Elements
      <3>2. QED
        BY <3>1, SequenceOf
    <2>2. \A i \in 1 .. Len(ing.paths) : P[i] \in Elements(P)
      BY <1>4, <2>1 DEF Elements
    <2>3. [i \in 1 .. Len(ing.paths) |-> P[i]] \in Seq(Elements(P))
      BY <2>1, <2>2
    <2>4. QED
      BY <1>2, <2>1, <2>3 DEF IsSequence
  <1>7. Whole(f)
    <2>1. IsIngress(f)
      BY <1>1, <1>5 DEF Whole, IsIngress
    <2>2. P \in Seq({P[i] : i \in DOMAIN P})
      BY <1>6 DEF IsSequence, Elements
    <2>3. IsWhole(f)
      <3>1. f.paths = P /\ f.name = ing.name /\ f.anns = ing.anns
        BY <1>1
      <3>2. /\ ing.anns = [k \in DOMAIN ing.anns |-> ing.anns[k]]
            /\ \A k \in DOMAIN ing.anns : IsNginx(k) => k = <<k[1], k[2]>>
            /\ Cut[<<ing.name, "plugins">>] # ""
        BY DEF Whole, IsWhole
      <3>3. f = [ns |-> f.ns, name |-> f.name, class |-> f.class, anns |-> f.anns,
                 paths |-> f.paths, backend |-> f.backend, tls |-> f.tls]
        BY <1>1
      <3>4. /\ f.anns = [k \in DOMAIN f.anns |-> f.anns[k]]
            /\ \A k \in DOMAIN f.anns : IsNginx(k) => k = <<k[1], k[2]>>
            /\ Cut[<<f.name, "plugins">>] # ""
        BY <3>1, <3>2
      <3>5. f.paths \in Seq({f.paths[i] : i \in DOMAIN f.paths})
        BY <2>2, <3>1
      <3>6. \A i \in DOMAIN f.paths :
                f.paths[i] = [path |-> f.paths[i].path, type |-> f.paths[i].type,
                              service |-> f.paths[i].service]
        BY <1>5, <3>1
      <3>7. QED
        BY <3>3, <3>4, <3>5, <3>6 DEF IsWhole
    <2>4. QED
      BY <2>1, <2>3 DEF Whole
  <1>8. FixedPaths(f) = P
    <2>1. f.paths = P
      BY <1>1
    <2>2. /\ FixedPaths(f) = [i \in DOMAIN P |-> FixedPaths(f)[i]]
          /\ \A i \in DOMAIN P :
                FixedPaths(f)[i] = [path |-> P[i].path, type |-> FixedType(P[i]),
                                    service |-> P[i].service]
      BY <1>7, <2>1, FixedPath
    <2>3. \A i \in DOMAIN P : FixedPaths(f)[i] = P[i]
      BY <1>5, <2>2
    <2>4. QED
      BY <1>2, <1>4, <2>2, <2>3
  <1>9. Fixed(f) = f
    <2>1. Fixed(f) = [ns |-> f.ns, name |-> f.name, class |-> f.class, anns |-> f.anns,
                      paths |-> P, backend |-> f.backend, tls |-> f.tls]
      BY <1>7, <1>8, FixedFields
    <2>2. QED
      BY <1>1, <2>1
  <1>10. QED
    BY <1>5, <1>6, <1>7, <1>8, <1>9 DEF f, P

-----------------------------------------------------------------------------
(* What is made of an Ingress does not depend on the types of its paths *)

\* But for the types of its paths and its class, f is the Ingress.
Alike(f, ing) ==
    /\ f.ns = ing.ns /\ f.name = ing.name /\ f.anns = ing.anns
    /\ f.backend = ing.backend /\ f.tls = ing.tls
    /\ DOMAIN f.paths = DOMAIN ing.paths
    /\ \A i \in DOMAIN ing.paths :
        /\ f.paths[i].path = ing.paths[i].path /\ f.paths[i].service = ing.paths[i].service
        /\ f.paths[i].type = "none" <=> ing.paths[i].type = "none"

LEMMA FixedAlike ==
    ASSUME NEW ing, Whole(ing)
    PROVE  Alike(Fixed(ing), ing)
  <1>1. \A i \in DOMAIN ing.paths : ing.paths[i].type \in PathTypes
    BY DEF Whole, IsIngress
  <1>2. \A i \in DOMAIN ing.paths :
            FixedPaths(ing)[i] = [path |-> ing.paths[i].path, type |-> FixedType(ing.paths[i]),
                                  service |-> ing.paths[i].service]
    BY FixedPath
  <1>3. ASSUME NEW i \in DOMAIN ing.paths
        PROVE  /\ FixedPaths(ing)[i].path = ing.paths[i].path
               /\ FixedPaths(ing)[i].service = ing.paths[i].service
               /\ FixedPaths(ing)[i].type = "none" <=> ing.paths[i].type = "none"
    <2>1. ing.paths[i].type \in PathTypes
      BY <1>1
    <2>2. FixedPaths(ing)[i] = [path |-> ing.paths[i].path, type |-> FixedType(ing.paths[i]),
                                service |-> ing.paths[i].service]
      BY <1>2
    <2>3. /\ FixedPaths(ing)[i].path = ing.paths[i].path
          /\ FixedPaths(ing)[i].type = FixedType(ing.paths[i])
          /\ FixedPaths(ing)[i].service = ing.paths[i].service
      BY <2>2, PathRecord
    <2>4. FixedType(ing.paths[i]) = "none" <=> ing.paths[i].type = "none"
      BY <2>1, <2>3, FixedTypeTwice
    <2>5. QED
      BY <2>3, <2>4
  <1>4. DOMAIN FixedPaths(ing) = DOMAIN ing.paths
    BY DEF FixedPaths
  <1>5. PICK f : f = Fixed(ing)
    OBVIOUS
  <1>6. f = [ns |-> ing.ns, name |-> ing.name, class |-> ing.class, anns |-> ing.anns,
             paths |-> FixedPaths(ing), backend |-> ing.backend, tls |-> ing.tls]
    BY <1>5, FixedFields
  <1>7. /\ f.ns = ing.ns /\ f.name = ing.name /\ f.anns = ing.anns
        /\ f.backend = ing.backend /\ f.tls = ing.tls /\ f.paths = FixedPaths(ing)
    BY <1>6
  <1>8. Alike(f, ing)
    BY <1>3, <1>4, <1>7 DEF Alike
  <1>9. QED
    BY <1>5, <1>8

LEMMA AlikeRegex ==
    ASSUME NEW f, NEW ing, Alike(f, ing)
    PROVE  NeedsRegex(f) <=> NeedsRegex(ing)
  BY DEF NeedsRegex, HasRegex, Alike

LEMMA AlikeMakes ==
    ASSUME NEW f, NEW ing, Alike(f, ing)
    PROVE  /\ Services(f) = Services(ing)
           /\ LinkTo(f) = LinkTo(ing) /\ PluginConfigs(f) = PluginConfigs(ing)
           /\ Policies(f) = Policies(ing) /\ Upstreams(f) = Upstreams(ing) /\ Tls(f) = Tls(ing)
           /\ Warnings(f) = Warnings(ing)
  <1>1. Services(f) = Services(ing)
    <2>1. ASSUME NEW x
          PROVE  x \in Services(f) <=> x \in Services(ing)
      BY DEF Services, Alike
    <2>2. QED
      BY <2>1 DEF Services
  <1>3. RewrittenPaths(f) = RewrittenPaths(ing)
    <2>1. {f.paths[i].path : i \in DOMAIN f.paths} = {ing.paths[i].path : i \in DOMAIN ing.paths}
      BY DEF Alike
    <2>2. f.anns = ing.anns
      BY DEF Alike
    <2>3. QED
      BY <2>1, <2>2 DEF RewrittenPaths
  <1>4. f.ns = ing.ns /\ f.name = ing.name /\ f.anns = ing.anns /\ f.tls = ing.tls
    BY DEF Alike
  <1>5. ProxyRewrite(f) = ProxyRewrite(ing)
    BY <1>3, <1>4 DEF ProxyRewrite
  <1>6. Plugins(f) = Plugins(ing)
    BY <1>4, <1>5 DEF Plugins
  <1>7. NamespaceOf(f) = NamespaceOf(ing) /\ \A s : NameOf(f, s) = NameOf(ing, s)
    BY <1>4 DEF NamespaceOf, NameOf
  <1>8. LinkTo(f) = LinkTo(ing)
    BY <1>6, <1>7 DEF LinkTo
  <1>9. PluginConfigs(f) = PluginConfigs(ing)
    BY <1>4, <1>6, <1>7 DEF PluginConfigs
  <1>10. Policies(f) = Policies(ing)
    <2>1. \A s, on, key : Policy(f, s, on, key) = Policy(ing, s, on, key)
      BY <1>1, <1>4, <1>7 DEF Policy
    <2>2. QED
      BY <1>1, <1>4, <2>1 DEF Policies
  <1>11. Upstreams(f) = Upstreams(ing)
    BY <1>4, <1>7 DEF Upstreams
  <1>12. Tls(f) = Tls(ing)
    BY <1>4, <1>7 DEF Tls
  <1>13. Warnings(f) = Warnings(ing)
    BY <1>1, <1>4 DEF Warnings
  <1>14. QED
    BY <1>1, <1>8, <1>9, <1>10, <1>11, <1>12, <1>13

-----------------------------------------------------------------------------
(* An Ingress that was converted before *)

\* Nothing that converting it would change.
Settled(ing, s) ==
    /\ Whole(ing) /\ IsConverted(ing)
    /\ ~(Class \in DOMAIN ing.anns /\ ing.anns[Class] = "nginx")
    /\ Fixed(ing) = ing
    /\ NeedsRegex(ing) => Regex \in DOMAIN ing.anns /\ ing.anns[Regex] = "true"
    /\ s /\ ing.tls # <<>> => Https \in DOMAIN ing.anns

LEMMA OutSettled ==
    ASSUME NEW ing, Whole(ing), NEW s \in BOOLEAN
    PROVE  /\ Settled(OutIngress(ing, s), s)
           /\ Tls(OutIngress(ing, s)) = Tls(ing)
  <1> DEFINE a == OutAnnotations(ing, s, LinkTo(ing))
             P == FixedPaths(ing)
  <1>1. PICK out : out = OutIngress(ing, s)
    OBVIOUS
  <1>2. out = [ns |-> NamespaceOf(ing), name |-> ing.name, class |-> "apisix", anns |-> a,
               paths |-> P, backend |-> ing.backend, tls |-> ing.tls]
    BY <1>1 DEF OutIngress
  <1>3. /\ IsFcn(a) /\ Prefixed(a)
        /\ \A k \in DOMAIN a : ~IsNginx(k) /\ ~(k = Class /\ a[k] = "nginx")
        /\ NeedsRegex(ing) => Regex \in DOMAIN a /\ a[Regex] = "true"
        /\ s /\ ing.tls # <<>> => Https \in DOMAIN a
    <2>1. Prefixed(ing.anns)
      BY DEF Whole, IsIngress, Prefixed
    <2>2. AreOut(a, ing, s, LinkTo(ing))
      BY <2>1, OutKeys
    <2> HIDE DEF a
    <2>3. QED
      BY <2>2 DEF AreOut
  <1>4. PICK f : f = Fixed(ing)
    OBVIOUS
  <1>5. f = [ns |-> ing.ns, name |-> ing.name, class |-> ing.class, anns |-> ing.anns,
             paths |-> P, backend |-> ing.backend, tls |-> ing.tls]
    BY <1>4, FixedFields
  <1>6. Whole(f) /\ FixedPaths(f) = P /\ Alike(f, ing)
    BY <1>4, FixedWhole, FixedAlike
  <1>7. NamespaceOf(ing) # "" /\ ing.tls = f.tls
    BY <1>5, NamespaceAssumption DEF NamespaceOf
  <1> HIDE DEF a, P
  <1>8. /\ out.ns = NamespaceOf(ing) /\ out.name = f.name /\ out.class = "apisix"
        /\ out.anns = a /\ out.paths = P /\ out.backend = f.backend /\ out.tls = f.tls
        /\ f.paths = P /\ f.name = ing.name
    BY <1>2, <1>5
  <1>9. IsIngress(out)
    <2>1. \A i \in DOMAIN f.paths : f.paths[i].type \in PathTypes
      BY <1>6 DEF Whole, IsIngress
    <2>2. QED
      BY <1>3, <1>8, <2>1 DEF IsIngress, Prefixed
  <1>10. IsConverted(out)
    BY <1>3, <1>7, <1>8, <1>9 DEF IsConverted
  <1>11. Whole(out)
    <2>1. IsWhole(f)
      BY <1>6 DEF Whole
    <2>2. /\ f.paths \in Seq({f.paths[i] : i \in DOMAIN f.paths})
          /\ \A i \in DOMAIN f.paths :
                f.paths[i] = [path |-> f.paths[i].path, type |-> f.paths[i].type,
                              service |-> f.paths[i].service]
          /\ Cut[<<f.name, "plugins">>] # ""
      BY <2>1 DEF IsWhole
    <2>3. out = [ns |-> out.ns, name |-> out.name, class |-> out.class, anns |-> out.anns,
                 paths |-> out.paths, backend |-> out.backend, tls |-> out.tls]
      BY <1>2
    <2>4. /\ out.anns = [k \in DOMAIN out.anns |-> out.anns[k]]
          /\ \A k \in DOMAIN out.anns : IsNginx(k) => k = <<k[1], k[2]>>
      BY <1>3, <1>8 DEF IsFcn
    <2>5. /\ out.paths \in Seq({out.paths[i] : i \in DOMAIN out.paths})
          /\ \A i \in DOMAIN out.paths :
                out.paths[i] = [path |-> out.paths[i].path, type |-> out.paths[i].type,
                                service |-> out.paths[i].service]
          /\ Cut[<<out.name, "plugins">>] # ""
      BY <1>8, <2>2
    <2>6. IsWhole(out)
      BY <2>3, <2>4, <2>5 DEF IsWhole
    <2>7. QED
      BY <1>9, <2>6 DEF Whole
  <1>12. Fixed(out) = out
    <2>1. FixedPaths(out) = FixedPaths(f)
      BY <1>8 DEF FixedPaths
    <2>2. Fixed(out) = [ns |-> out.ns, name |-> out.name, class |-> out.class, anns |-> out.anns,
                        paths |-> P, backend |-> out.backend, tls |-> out.tls]
      BY <1>6, <1>11, <2>1, FixedFields
    <2>3. QED
      BY <1>2, <1>8, <2>2
  <1>13. NeedsRegex(out) <=> NeedsRegex(ing)
    <2>1. NeedsRegex(out) <=> NeedsRegex(f)
      BY <1>8 DEF NeedsRegex
    <2>2. QED
      BY <1>6, <2>1, AlikeRegex
  <1>14. Tls(out) = Tls(ing)
    <2>1. NamespaceOf(out) = NamespaceOf(ing)
      BY <1>7, <1>8 DEF NamespaceOf
    <2>2. out.tls = ing.tls /\ out.name = ing.name /\ \A x : NameOf(out, x) = NameOf(ing, x)
      BY <1>7, <1>8 DEF NameOf
    <2>3. QED
      BY <2>1, <2>2 DEF Tls
  <1>15. Settled(out, s)
    BY <1>3, <1>7, <1>8, <1>10, <1>11, <1>12, <1>13 DEF Settled
  <1>16. QED
    BY <1>1, <1>14, <1>15

\* The lookups find nothing where there is no annotation of nginx's.
Unannotated(a) == \A s : Get(a, s) = "" /\ ~IsSet(a, s) /\ ~Has(a, s)

LEMMA NoNginx ==
    ASSUME NEW a, \A k \in DOMAIN a : ~IsNginx(k)
    PROVE  Unannotated(a)
  <1> SUFFICES ASSUME NEW s
               PROVE  Get(a, s) = "" /\ ~IsSet(a, s) /\ ~Has(a, s)
    BY DEF Unannotated
  <1>1. \A p \in NginxPrefixes : <<p, s>> \notin DOMAIN a
    BY DEF IsNginx
  <1>2. "nginx" \in NginxPrefixes /\ "plain" \in NginxPrefixes
    BY DEF NginxPrefixes
  <1>3. ValueOf(a, <<"nginx", s>>) = "" /\ ValueOf(a, <<"plain", s>>) = ""
    BY <1>1, <1>2 DEF ValueOf
  <1>4. Get(a, s) = ""
    BY <1>3 DEF Get
  <1>5. QED
    BY <1>1, <1>4 DEF IsSet, Has

LEMMA NothingWritten ==
    ASSUME NEW a, Unannotated(a)
    PROVE  DOMAIN Native(a) = {}
  <1>1. WithUnit("") = ""
    BY NumeralAssumption DEF WithUnit
  <1>2. \A s : Get(a, s) = "" /\ ~IsSet(a, s) /\ ~Has(a, s)
    BY DEF Unannotated
  <1>3. HttpToHttps(a) = "" /\ HttpRedirect(a) = "" /\ HttpRedirectCode(a) = ""
    <2>1. ~IsSSLRedirect(a)
      BY <1>2 DEF IsSSLRedirect
    <2>2. QED
      BY <1>2, <2>1 DEF HttpToHttps, HttpRedirect, HttpRedirectCode
  <1>4. AuthType(a) = "" /\ AccessLog(a) = ""
    BY <1>2 DEF AuthType, AccessLog
  <1> DEFINE websocket == IF IsSet(a, "websocket-services") THEN "true" ELSE ""
             regex == IF Get(a, "use-regex") = "true" THEN "true" ELSE ""
  <1>5. websocket = "" /\ regex = ""
    BY <1>2
  <1> HIDE DEF websocket, regex
  <1>6. ASSUME NEW n \in Written(a)
        PROVE  FALSE
    <2>1. n[2] # ""
      BY DEF Written
    <2>2. \A s : Get(a, s) = ""
      BY <1>2
    <2>3. CASE \E r \in Renamed : n = <<r[2], Get(a, r[1])>>
      <3>1. PICK r \in Renamed : n = <<r[2], Get(a, r[1])>>
        BY <2>3
      <3>2. Get(a, r[1]) = ""
        BY <2>2
      <3>3. n = <<r[2], "">>
        BY <3>1, <3>2
      <3>4. QED
        BY <2>1, <3>3
    <2>4. CASE \E r \in Timeouts : n = <<r[2], WithUnit(Get(a, r[1]))>>
      <3>1. PICK r \in Timeouts : n = <<r[2], WithUnit(Get(a, r[1]))>>
        BY <2>4
      <3>2. Get(a, r[1]) = ""
        BY <2>2
      <3>3. n = <<r[2], "">>
        BY <1>1, <3>1, <3>2
      <3>4. QED
        BY <2>1, <3>3
    <2>5. CASE n \in {<<"http-to-https", HttpToHttps(a)>>,
                      <<"http-redirect", HttpRedirect(a)>>,
                      <<"http-redirect-code", HttpRedirectCode(a)>>,
                      <<"auth-type", AuthType(a)>>,
                      <<"enable-access-log", AccessLog(a)>>,
                      <<"enable-websocket", websocket>>,
                      <<"use-regex", regex>>}
      <3>1. PICK x : n = <<x, "">>
        BY <1>3, <1>4, <1>5, <2>5
      <3>2. QED
        BY <2>1, <3>1
    <2>6. QED
      BY <2>3, <2>4, <2>5 DEF Written, websocket, regex
  <1>7. QED
    BY <1>6 DEF Native, Annotated

LEMMA NothingBuilt ==
    ASSUME NEW ing, Unannotated(ing.anns)
    PROVE  /\ Plugins(ing) = <<>> /\ PluginConfigs(ing) = <<>> /\ LinkTo(ing) = ""
           /\ Policies(ing) = <<>> /\ Upstreams(ing) = <<>>
  <1>1. PICK a : a = ing.anns
    OBVIOUS
  <1>2. \A s : Get(a, s) = "" /\ ~IsSet(a, s) /\ ~Has(a, s)
    BY <1>1 DEF Unannotated
  <1>3. /\ SnippetOf(a).rewrites = <<>> /\ SnippetOf(a).add = {} /\ SnippetOf(a).more = {}
        /\ SnippetOf(a).flags = {}
    BY <1>2, SnippetAssumption DEF SnippetOf
  <1>4. \A x : When(FALSE, x) = <<>>
    BY DEF When
  <1>5. LimitReq(a) = <<>>
    <2>1. ParsedLimits(a) = {}
      BY <1>2, NumeralAssumption DEF ParsedLimits, IsNumber
    <2>2. QED
      BY <2>1 DEF LimitReq, When
  <1>6. LimitConn(a) = <<>> /\ UpstreamVhost(a) = <<>> /\ ProxyCookiePath(a) = <<>>
    BY <1>2 DEF LimitConn, UpstreamVhost, ProxyCookiePath, When
  <1>7. ClientControl(a) = <<>>
    BY <1>2, NumeralAssumption DEF ClientControl, When
  <1>8. ProxyControl(a) = <<>>
    BY <1>2 DEF ProxyControl, When
  <1>9. ProxyRewrite(ing) = <<>>
    <2>1. RewrittenPaths(ing) = {}
      BY <1>1, <1>2 DEF RewrittenPaths
    <2>2. QED
      BY <1>1, <1>3, <2>1 DEF ProxyRewrite, When
  <1>10. ProxyCookieFlags(a) = <<>>
    BY <1>3 DEF ProxyCookieFlags, When
  <1>11. ResponseRewrite(a) = <<>>
    BY <1>3 DEF ResponseRewrite, When
  <1>12. ~CookieAffinity(a)
    BY <1>2 DEF CookieAffinity
  <1>13. SessionCookieHash(a) = <<>>
    <2>1. Hash(a) = ""
      BY <1>2, <1>12 DEF Hash, HashIsDefault
    <2>2. ~HashIsSupported(a)
      BY <2>1 DEF HashIsSupported
    <2>3. QED
      BY <2>2 DEF SessionCookieHash, When
  <1>14. Cors(a) = <<>>
    <2>1. ~CorsIsOn(a)
      BY <1>2 DEF CorsIsOn
    <2>2. QED
      BY <2>1 DEF Cors, When
  <1>15. RealIP(a) = <<>>
    <2>1. ~RealIPIsOn(a)
      BY <1>2 DEF RealIPIsOn
    <2>2. QED
      BY <2>1 DEF RealIP, When
  <1>16. <<>> \o <<>> = <<>>
    OBVIOUS
  <1>17. Plugins(ing) = <<>>
    BY <1>1, <1>5, <1>6, <1>7, <1>8, <1>9, <1>10, <1>11, <1>13, <1>14, <1>15, <1>16 DEF Plugins
  <1>18. PluginConfigs(ing) = <<>> /\ LinkTo(ing) = ""
    BY <1>17 DEF PluginConfigs, LinkTo, When
  <1>19. Policies(ing) = <<>>
    <2>1. Get(a, "upstream-hash-by") = ""
      BY <1>2
    <2>2. QED
      BY <1>1, <1>12, <1>16, <2>1 DEF Policies, When
  <1>20. Upstreams(ing) = <<>>
    <2>1. ~HealthChecked(a)
      BY <1>2 DEF HealthChecked
    <2>2. QED
      BY <1>1, <2>1 DEF Upstreams, When
  <1>21. QED
    BY <1>17, <1>18, <1>19, <1>20

LEMMA NothingNoted ==
    ASSUME NEW a, NEW services, Unannotated(a)
    PROVE  Noted(a, services) = {}
  <1>1. \A s : Get(a, s) = "" /\ ~IsSet(a, s) /\ ~Has(a, s)
    BY DEF Unannotated
  <1>2. ParsedLimits(a) = {} /\ Limits # {}
    BY <1>1, NumeralAssumption DEF ParsedLimits, IsNumber, Limits
  <1>3. /\ ~CookieAffinity(a) /\ Hash(a) = "" /\ ~HashIsDefault(a) /\ ~HashIsSupported(a)
        /\ ~RealIPIsOn(a) /\ ~HealthChecked(a)
    BY <1>1 DEF CookieAffinity, Hash, HashIsDefault, HashIsSupported, RealIPIsOn, HealthChecked
  <1>4. ~SnippetOf(a).errors
    BY <1>1, SnippetAssumption DEF SnippetOf
  <1>5. \A m : ~Unparsed(a, m)
    BY <1>1 DEF Unparsed
  <1>6. Get(a, "auth-type") = "" /\ Get(a, "proxy-body-size") = "" /\ Get(a, "proxy-cookie-path") = ""
    BY <1>1
  <1>7. /\ If(Get(a, "auth-type") = "digest", {"auth-type"}) = {}
        /\ {l[1] : l \in {m \in Limits : Unparsed(a, m[1])}} = {}
        /\ If(ParsedLimits(a) = Limits, {"limit-rps", "limit-rpm"}) = {}
        /\ If(Get(a, "proxy-body-size") \notin DOMAIN BodySize \cup {""}, {"proxy-body-size"}) = {}
    BY <1>2, <1>5, <1>6 DEF If
  <1>8. /\ If((IsSet(a, "proxy-redirect-from") /\ IsSet(a, "proxy-redirect-to")) /\ ~IsSSLRedirect(a),
              {"proxy-redirect-from", "proxy-redirect-to"}) = {}
        /\ If(Get(a, "proxy-cookie-path") = "unparsable", {"proxy-cookie-path"}) = {}
        /\ If(HashIsDefault(a) \/ (Hash(a) # "" /\ ~HashIsSupported(a)), {"session-cookie-hash"}) = {}
        /\ If(HashIsSupported(a) /\ ~Has(a, "session-cookie-name"), {"session-cookie-name"}) = {}
        /\ If(HashIsSupported(a) /\ IsSet(a, "session-cookie-conditional-samesite-none"),
              {"session-cookie-conditional-samesite-none"}) = {}
    BY <1>1, <1>3, <1>6 DEF If
  <1>9. /\ If(RealIPIsOn(a) /\ Get(a, "compute-full-forwarded-for") = "true",
              {"compute-full-forwarded-for"}) = {}
        /\ If(RealIPIsOn(a) /\ ~IsSet(a, "enable-real-ip"), {"enable-real-ip"}) = {}
        /\ If(IsSet(a, "ssl-verify"), {"ssl-verify"}) = {}
        /\ If(CookieAffinity(a) /\ (services = {}), {"affinity"}) = {}
        /\ If(CookieAffinity(a) /\ ~(services = {}) /\ ~Has(a, "session-cookie-name"),
              {"session-cookie-name"}) = {}
    BY <1>1, <1>3 DEF If
  <1>10. /\ If(IsSet(a, "upstream-hash-by") /\ (services = {}), {"upstream-hash-by"}) = {}
         /\ If(HealthChecked(a) /\ ~IsSet(a, "health-check-path"), {"health-check-path"}) = {}
         /\ {s \in KeepAlive : Has(a, s)} = {}
         /\ If(SnippetOf(a).errors, {"configuration-snippet"}) = {}
    BY <1>1, <1>3, <1>4 DEF If
  <1>11. QED
    BY <1>7, <1>8, <1>9, <1>10 DEF Noted

\* Converting what was converted gives it back, the entries of spec.tls, and nothing else.
Again(ing) == [ingresses |-> <<ing>>, plugins |-> <<>>, policies |-> <<>>, upstreams |-> <<>>,
               tls |-> Tls(ing), warnings |-> {}]

LEMMA SettledConvert ==
    ASSUME NEW ing, NEW s \in BOOLEAN, Settled(ing, s)
    PROVE  /\ Convert(ing, s) = Again(ing)
           /\ OutIngress(ing, s) = ing
           /\ PluginConfigs(ing) = <<>> /\ Policies(ing) = <<>> /\ Upstreams(ing) = <<>>
           /\ Warnings(ing) = {}
  <1>1. PICK a : a = ing.anns
    OBVIOUS
  <1>2. /\ Whole(ing) /\ ing.class = "apisix" /\ ing.ns # ""
        /\ \A k \in DOMAIN a : ~IsNginx(k)
        /\ ~(Class \in DOMAIN a /\ a[Class] = "nginx")
        /\ Fixed(ing) = ing
        /\ NeedsRegex(ing) => Regex \in DOMAIN a /\ a[Regex] = "true"
        /\ s /\ ing.tls # <<>> => Https \in DOMAIN a
    BY <1>1 DEF Settled, IsConverted
  <1>3. Unannotated(a)
    BY <1>2, NoNginx
  <1>4. IsFcn(a)
    <2>1. IsWhole(ing)
      BY <1>2 DEF Whole
    <2>2. ing.anns = [k \in DOMAIN ing.anns |-> ing.anns[k]]
      BY <2>1 DEF IsWhole
    <2>3. QED
      BY <1>1, <2>2 DEF IsFcn
  <1>5. /\ PluginConfigs(ing) = <<>> /\ LinkTo(ing) = "" /\ Policies(ing) = <<>>
        /\ Upstreams(ing) = <<>>
    BY <1>1, <1>3, NothingBuilt
  <1>6. OutAnnotations(ing, s, "") = a
    <2> DEFINE A == At("" # "", "plugin-config-name", "")
               B == At(NeedsRegex(ing), "use-regex", "true")
               C == Native(a)
               D == Restricted(a, Kept(ing))
               E == At(s /\ ing.tls # <<>>, "http-to-https", "true")
               out == OutAnnotations(ing, s, "")
    <2>1. out = Over(A, Over(B, Over(C, Over(D, E))))
      BY <1>1 DEF OutAnnotations
    <2>2. DOMAIN A = {}
      BY DEF At
    <2>3. /\ \A k \in DOMAIN B : k \in DOMAIN a /\ B[k] = a[k]
      <3>1. \A k \in DOMAIN B : NeedsRegex(ing) /\ k = Regex /\ B[k] = "true"
        BY DEF At, Regex
      <3>2. QED
        BY <1>2, <3>1
    <2>4. DOMAIN C = {}
      BY <1>3, NothingWritten
    <2>5. DOMAIN D = DOMAIN a /\ \A k \in DOMAIN D : D[k] = a[k]
      <3>1. Kept(ing) = DOMAIN a
        BY <1>1, <1>2 DEF Kept, Class
      <3>2. QED
        BY <3>1 DEF Restricted
    <2>6. \A k \in DOMAIN E : k \in DOMAIN a
      <3>1. \A k \in DOMAIN E : s /\ ing.tls # <<>> /\ k = Https
        BY DEF At, Https
      <3>2. QED
        BY <1>2, <3>1
    <2> HIDE DEF A, B, C, D, E, out
    <2>7. PICK X : X = Over(D, E)
      OBVIOUS
    <2>8. PICK Y : Y = Over(C, X)
      OBVIOUS
    <2>9. PICK Z : Z = Over(B, Y)
      OBVIOUS
    <2>10. IsOver(X, D, E)
      BY <2>7, OverTwo
    <2>11. IsOver(Y, C, X)
      BY <2>8, OverTwo
    <2>12. IsOver(Z, B, Y)
      BY <2>9, OverTwo
    <2>13. IsOver(out, A, Z)
      BY <2>1, <2>7, <2>8, <2>9, OverTwo
    <2>14. DOMAIN X = DOMAIN a /\ \A k \in DOMAIN X : X[k] = a[k]
      BY <2>5, <2>6, <2>10 DEF IsOver
    <2>15. DOMAIN Y = DOMAIN a /\ \A k \in DOMAIN Y : Y[k] = a[k]
      BY <2>4, <2>11, <2>14 DEF IsOver
    <2>16. DOMAIN Z = DOMAIN a /\ \A k \in DOMAIN Z : Z[k] = a[k]
      BY <2>3, <2>12, <2>15 DEF IsOver
    <2>17. IsFcn(out) /\ DOMAIN out = DOMAIN a /\ \A k \in DOMAIN out : out[k] = a[k]
      BY <2>2, <2>13, <2>16 DEF IsOver
    <2>18. out = a
      BY <1>4, <2>17 DEF IsFcn
    <2>19. QED
      BY <2>18 DEF out
  <1>7. FixedPaths(ing) = ing.paths
    <2>1. PICK f : f = Fixed(ing)
      OBVIOUS
    <2>2. f = [ns |-> ing.ns, name |-> ing.name, class |-> ing.class, anns |-> ing.anns,
               paths |-> FixedPaths(ing), backend |-> ing.backend, tls |-> ing.tls]
      BY <1>2, <2>1, FixedFields
    <2>3. f.paths = FixedPaths(ing)
      BY <2>2
    <2>4. QED
      BY <1>2, <2>1, <2>3
  <1>8. NamespaceOf(ing) = ing.ns
    BY <1>2 DEF NamespaceOf
  <1>9. OutIngress(ing, s) = ing
    <2>1. OutIngress(ing, s) =
            [ns |-> ing.ns, name |-> ing.name, class |-> ing.class, anns |-> ing.anns,
             paths |-> ing.paths, backend |-> ing.backend, tls |-> ing.tls]
      BY <1>1, <1>2, <1>5, <1>6, <1>7, <1>8 DEF OutIngress
    <2>2. QED
      BY <1>2, <2>1, WholeRecord
  <1>10. Warnings(ing) = {}
    <2>1. Lost(a) = {}
      BY <1>2 DEF Lost
    <2>2. Noted(a, Services(ing)) = {}
      BY <1>3, NothingNoted
    <2>3. QED
      BY <1>1, <2>1, <2>2 DEF Warnings
  <1>11. Convert(ing, s) = Again(ing)
    BY <1>5, <1>9, <1>10 DEF Convert, Again
  <1>12. QED
    BY <1>5, <1>9, <1>10, <1>11

-----------------------------------------------------------------------------
(* What is collected from the Ingresses before one *)

\* Of the sets c[1] to c[n], the elements of which Q has, each at most as often as it is in them.
Collects(Q, c, n) ==
    /\ IsSequence(Q)
    /\ \A j \in DOMAIN Q : \E i \in 1 .. n : Q[j] \in c[i]
    /\ \A j, h \in DOMAIN Q : j # h => \E i, k \in 1 .. n : i # k /\ Q[j] \in c[i] /\ Q[h] \in c[k]
    /\ \A i \in 1 .. n : c[i] \subseteq Elements(Q)

LEMMA CollectsNone ==
    ASSUME NEW c
    PROVE  Collects(<<>>, c, 0)
  <1>1. <<>> \in Seq({}) /\ DOMAIN <<>> = {}
    OBVIOUS
  <1>2. Elements(<<>>) = {}
    BY <1>1 DEF Elements
  <1>3. QED
    BY <1>1, <1>2 DEF Collects, IsSequence

LEMMA CollectsMore ==
    ASSUME NEW n \in Nat, NEW P, NEW c, Collects(P, c, n),
           NEW Q, IsSequence(Q), Len(Q) <= 1,
           NEW d, \A i \in 1 .. n : d[i] = c[i], d[n + 1] = Elements(Q)
    PROVE  Collects(P \o Q, d, n + 1)
  <1>1. IsSequence(P)
    BY DEF Collects
  <1>2. /\ IsSequence(P \o Q) /\ Elements(P \o Q) = Elements(P) \cup Elements(Q)
        /\ Len(P \o Q) = Len(P) + Len(Q)
        /\ \A i \in 1 .. Len(P) : (P \o Q)[i] = P[i]
        /\ \A i \in 1 .. Len(Q) : (P \o Q)[Len(P) + i] = Q[i]
    BY <1>1, Concatenated
  <1>3. /\ Len(P) \in Nat /\ DOMAIN P = 1 .. Len(P)
        /\ Len(Q) \in Nat /\ DOMAIN Q = 1 .. Len(Q)
        /\ DOMAIN (P \o Q) = 1 .. Len(P \o Q)
    BY <1>1, <1>2, SequenceOf DEF IsSequence
  <1>4. ASSUME NEW j \in DOMAIN (P \o Q)
        PROVE  \/ j \in DOMAIN P /\ (P \o Q)[j] = P[j]
               \/ j = Len(P) + 1 /\ (P \o Q)[j] \in d[n + 1]
    <2>1. CASE j \in 1 .. Len(P)
      BY <1>2, <1>3, <2>1
    <2>2. CASE j \notin 1 .. Len(P)
      <3>1. j = Len(P) + 1 /\ 1 \in DOMAIN Q
        BY <1>2, <1>3, <2>2
      <3>2. (P \o Q)[j] = Q[1]
        BY <1>2, <1>3, <3>1
      <3>3. QED
        BY <3>1, <3>2 DEF Elements
    <2>3. QED
      BY <2>1, <2>2
  <1>5. ASSUME NEW j \in DOMAIN P
        PROVE  \E i \in 1 .. n : P[j] \in d[i]
    BY DEF Collects
  <1>6. \A i \in 1 .. n : i \in 1 .. n + 1 /\ i # n + 1
    OBVIOUS
  <1>7. n + 1 \in 1 .. n + 1
    OBVIOUS
  <1>8. \A j \in DOMAIN (P \o Q) : \E i \in 1 .. n + 1 : (P \o Q)[j] \in d[i]
    BY <1>4, <1>5, <1>6, <1>7
  <1>9. ASSUME NEW j \in DOMAIN (P \o Q), NEW h \in DOMAIN (P \o Q), j # h
        PROVE  \E i, k \in 1 .. n + 1 : i # k /\ (P \o Q)[j] \in d[i] /\ (P \o Q)[h] \in d[k]
    <2>1. CASE j \in DOMAIN P /\ (P \o Q)[j] = P[j] /\ h \in DOMAIN P /\ (P \o Q)[h] = P[h]
      <3>1. PICK i \in 1 .. n, k \in 1 .. n : i # k /\ P[j] \in c[i] /\ P[h] \in c[k]
        BY <1>9, <2>1 DEF Collects
      <3>2. QED
        BY <1>6, <2>1, <3>1
    <2>2. CASE j \in DOMAIN P /\ (P \o Q)[j] = P[j] /\ h = Len(P) + 1 /\ (P \o Q)[h] \in d[n + 1]
      BY <1>5, <1>6, <1>7, <2>2
    <2>3. CASE h \in DOMAIN P /\ (P \o Q)[h] = P[h] /\ j = Len(P) + 1 /\ (P \o Q)[j] \in d[n + 1]
      BY <1>5, <1>6, <1>7, <2>3
    <2>4. QED
      BY <1>4, <1>9, <2>1, <2>2, <2>3
  <1>10. ASSUME NEW i \in 1 .. n + 1
         PROVE  d[i] \subseteq Elements(P \o Q)
    <2>1. CASE i = n + 1
      BY <1>2, <2>1
    <2>2. CASE i # n + 1
      <3>1. i \in 1 .. n
        BY <2>2
      <3>2. QED
        BY <1>2, <3>1 DEF Collects
    <2>3. QED
      BY <2>1, <2>2
  <1>11. QED
    BY <1>2, <1>8, <1>9, <1>10 DEF Collects

Union(c, n) == UNION {c[i] : i \in 1 .. n}

LEMMA UnionMore ==
    ASSUME NEW n \in Nat, NEW c, NEW d, \A i \in 1 .. n : d[i] = c[i]
    PROVE  Union(d, n + 1) = Union(c, n) \cup d[n + 1]
  <1>1. \A i : i \in 1 .. n + 1 <=> i \in 1 .. n \/ i = n + 1
    OBVIOUS
  <1>2. ASSUME NEW x
        PROVE  x \in Union(d, n + 1) <=> x \in Union(c, n) \cup d[n + 1]
    BY <1>1 DEF Union
  <1>3. QED
    BY <1>2

LEMMA FixedMakes ==
    ASSUME NEW ing, Whole(ing), NEW s \in BOOLEAN
    PROVE  LET f == Fixed(ing)
           IN  /\ PluginConfigs(f) = PluginConfigs(ing) /\ Policies(f) = Policies(ing)
               /\ Tls(f) = Tls(ing) /\ Warnings(f) = Warnings(ing)
               /\ OutIngress(f, s) = OutIngress(ing, s)
  <1>1. PICK f : f = Fixed(ing)
    OBVIOUS
  <1>2. Alike(f, ing) /\ FixedPaths(f) = FixedPaths(ing)
    BY <1>1, FixedAlike, FixedWhole
  <1>3. /\ PluginConfigs(f) = PluginConfigs(ing) /\ Policies(f) = Policies(ing)
        /\ Tls(f) = Tls(ing) /\ Warnings(f) = Warnings(ing) /\ LinkTo(f) = LinkTo(ing)
    BY <1>2, AlikeMakes
  <1>4. /\ f.ns = ing.ns /\ f.name = ing.name /\ f.anns = ing.anns /\ f.tls = ing.tls
        /\ f.backend = ing.backend
    BY <1>2 DEF Alike
  <1>5. NamespaceOf(f) = NamespaceOf(ing)
    BY <1>4 DEF NamespaceOf
  <1>6. At(NeedsRegex(f), "use-regex", "true") = At(NeedsRegex(ing), "use-regex", "true")
    <2>1. NeedsRegex(f) <=> NeedsRegex(ing)
      BY <1>2, AlikeRegex
    <2>2. QED
      BY <2>1 DEF At
  <1>7. Kept(f) = Kept(ing)
    BY <1>4 DEF Kept
  <1>8. \A link : OutAnnotations(f, s, link) = OutAnnotations(ing, s, link)
    BY <1>4, <1>6, <1>7 DEF OutAnnotations
  <1>9. OutIngress(f, s) = OutIngress(ing, s)
    BY <1>2, <1>3, <1>4, <1>5, <1>8 DEF OutIngress
  <1>10. QED
    BY <1>1, <1>3, <1>9

LEMMA MakesSequences ==
    ASSUME NEW ing
    PROVE  /\ IsSequence(PluginConfigs(ing)) /\ Len(PluginConfigs(ing)) <= 1
           /\ IsSequence(Policies(ing))
  <1>1. IsSequence(PluginConfigs(ing)) /\ Len(PluginConfigs(ing)) <= 1
    <2>1. PICK x : PluginConfigs(ing) = When(Plugins(ing) # <<>>, x)
      BY DEF PluginConfigs
    <2>2. /\ IsSequence(When(Plugins(ing) # <<>>, x))
          /\ Len(When(Plugins(ing) # <<>>, x)) = IF Plugins(ing) # <<>> THEN 1 ELSE 0
      BY WhenSequence
    <2>3. QED
      BY <2>1, <2>2
  <1>2. IsSequence(Policies(ing))
    <2>1. CASE Services(ing) = {}
      <3>1. Policies(ing) = <<>>
        BY <2>1 DEF Policies
      <3>2. QED
        BY <3>1 DEF IsSequence
    <2>2. CASE Services(ing) # {}
      <3> DEFINE by == Get(ing.anns, "upstream-hash-by")
                 P == When(CookieAffinity(ing.anns),
                           Policy(ing, "cookie-affinity", "cookie", CookieName(ing.anns)))
                 Q == When(by # "", Policy(ing, "hash-by", HashKey[by].hashOn, HashKey[by].key))
      <3>1. Policies(ing) = P \o Q
        BY <2>2 DEF Policies
      <3>2. CookieAffinity(ing.anns) \in BOOLEAN /\ (by # "") \in BOOLEAN
        BY DEF CookieAffinity
      <3>3. IsSequence(P) /\ IsSequence(Q)
        BY <3>2, WhenSequence
      <3> HIDE DEF P, Q
      <3>4. QED
        BY <3>1, <3>3, Concatenated
    <2>3. QED
      BY <2>1, <2>2
  <1>3. QED
    BY <1>1, <1>2

-----------------------------------------------------------------------------
(* The inductive invariant *)

\* The list, of which those before at have had their paths fixed.
ListInv ==
    /\ sslRedirect \in BOOLEAN
    /\ IsSequence(ingresses)
    /\ \A i \in DOMAIN ingresses : Whole(ingresses[i])
    /\ at \in 1 .. Len(ingresses) + 1
    /\ \A i \in 1 .. at - 1 : Fixed(ingresses[i]) = ingresses[i]

\* What was made of them.
PluginsOf == [i \in 1 .. at - 1 |-> Elements(PluginConfigs(ingresses[i]))]
PoliciesOf == [i \in 1 .. at - 1 |-> Elements(Policies(ingresses[i]))]
TlsOf == [i \in 1 .. at - 1 |-> Tls(ingresses[i])]
WarningsOf == [i \in 1 .. at - 1 |-> Warnings(ingresses[i])]

\* The result has what was made of them, and but for policies nothing else.
ResultInv ==
    /\ IsSequence(result.ingresses) /\ Len(result.ingresses) = at - 1
    /\ \A i \in 1 .. at - 1 : result.ingresses[i] = OutIngress(ingresses[i], sslRedirect)
    /\ Collects(result.plugins, PluginsOf, at - 1)
    /\ IsSequence(result.policies)
    /\ \A i \in 1 .. at - 1 : PoliciesOf[i] \subseteq Elements(result.policies)
    /\ result.tls = Union(TlsOf, at - 1)
    /\ result.warnings = Union(WarningsOf, at - 1)

\* In a second run every Ingress is one that converting leaves alone.
RerunInv ==
    /\ first = <<>> \/ \E r : first = <<r>>
    /\ first # <<>> =>
        /\ first[1].ingresses = ingresses
        /\ first[1].tls = UNION {Tls(ingresses[i]) : i \in DOMAIN ingresses}
        /\ \A i \in DOMAIN ingresses : Settled(ingresses[i], sslRedirect)
        /\ result.plugins = <<>> /\ result.policies = <<>> /\ result.upstreams = <<>>

Inv == ListInv /\ ResultInv /\ RerunInv

LEMMA NothingCollected == at = 1 /\ result = Nothing => ResultInv
  <1> SUFFICES ASSUME at = 1, result = Nothing
               PROVE  ResultInv
    OBVIOUS
  <1>1. at - 1 = 0 /\ 1 .. 0 = {}
    BY SMT
  <1>2. <<>> \in Seq({}) /\ Len(<<>>) = 0
    OBVIOUS
  <1>3. Elements(<<>>) = {}
    BY DEF Elements
  <1>4. IsSequence(<<>>)
    BY <1>2, <1>3 DEF IsSequence
  <1>5. /\ result.ingresses = <<>> /\ result.plugins = <<>> /\ result.policies = <<>>
        /\ result.tls = {} /\ result.warnings = {}
    BY DEF Nothing
  <1>6. Union(TlsOf, 0) = {} /\ Union(WarningsOf, 0) = {}
    BY <1>1 DEF Union
  <1>7. Collects(<<>>, PluginsOf, 0)
    BY CollectsNone
  <1>8. QED
    BY <1>1, <1>2, <1>4, <1>5, <1>6, <1>7 DEF ResultInv

LEMMA InitInv == Init => Inv
  <1> SUFFICES ASSUME Init
               PROVE  Inv
    OBVIOUS
  <1>1. PICK l \in Lists : ingresses = l
    BY DEF Init
  <1>2. /\ l \in Seq({l[i] : i \in DOMAIN l})
        /\ \A i \in DOMAIN l : IsIngress(l[i]) /\ IsWhole(l[i])
    BY ListAssumption
  <1>3. IsSequence(l) /\ Len(l) \in Nat
    BY <1>2, SequenceOf DEF IsSequence, Elements
  <1>4. at = 1 /\ result = Nothing /\ first = <<>> /\ sslRedirect \in BOOLEAN
    BY DEF Init
  <1>5. ListInv
    <2>1. at \in 1 .. Len(ingresses) + 1 /\ 1 .. at - 1 = {}
      BY <1>1, <1>3, <1>4
    <2>2. QED
      BY <1>1, <1>2, <1>3, <1>4, <2>1 DEF ListInv, Whole
  <1>6. ResultInv
    BY <1>4, NothingCollected
  <1>7. RerunInv
    BY <1>4 DEF RerunInv
  <1>8. QED
    BY <1>5, <1>6, <1>7 DEF Inv

LEMMA ConvertNextInv ==
    ASSUME Inv, ConvertNext
    PROVE  Inv'
  <1>1. ListInv /\ ResultInv /\ RerunInv
    BY DEF Inv
  <1>2. /\ sslRedirect \in BOOLEAN /\ IsSequence(ingresses)
        /\ \A i \in DOMAIN ingresses : Whole(ingresses[i])
        /\ at \in 1 .. Len(ingresses) + 1
        /\ \A i \in 1 .. at - 1 : Fixed(ingresses[i]) = ingresses[i]
    BY <1>1 DEF ListInv
  <1>3. Len(ingresses) \in Nat /\ DOMAIN ingresses = 1 .. Len(ingresses)
    BY <1>2, SequenceOf DEF IsSequence
  <1>4. /\ at <= Len(ingresses) /\ at' = at + 1
        /\ ingresses' = [ingresses EXCEPT ![at] = Fixed(ingresses[at])]
        /\ result' = Joined(result, Convert(ingresses[at], sslRedirect))
        /\ sslRedirect' = sslRedirect /\ first' = first
    BY DEF ConvertNext
  <1>5. PICK n : n = at - 1
    OBVIOUS
  <1>6. /\ n \in Nat /\ at = n + 1 /\ at' - 1 = n + 1 /\ at \in DOMAIN ingresses
        /\ \A i \in 1 .. n : i \in DOMAIN ingresses /\ i # at
    BY <1>2, <1>3, <1>4, <1>5
  <1>7. PICK o : o = ingresses[at]
    OBVIOUS
  <1>8. PICK f : f = Fixed(o)
    OBVIOUS
  <1>9. /\ Whole(o) /\ Whole(f) /\ Fixed(f) = f
        /\ PluginConfigs(f) = PluginConfigs(o) /\ Policies(f) = Policies(o) /\ Tls(f) = Tls(o)
        /\ Warnings(f) = Warnings(o)
        /\ OutIngress(f, sslRedirect) = OutIngress(o, sslRedirect)
    BY <1>2, <1>6, <1>7, <1>8, FixedWhole, FixedMakes
  <1>10. /\ DOMAIN ingresses' = DOMAIN ingresses /\ ingresses'[at] = f
         /\ \A i \in DOMAIN ingresses : i # at => ingresses'[i] = ingresses[i]
    BY <1>4, <1>6, <1>7, <1>8
  <1>11. /\ result'.ingresses = result.ingresses \o <<OutIngress(o, sslRedirect)>>
         /\ result'.plugins = result.plugins \o PluginConfigs(o)
         /\ result'.policies = result.policies \o Policies(o)
         /\ result'.upstreams = result.upstreams \o Upstreams(o)
         /\ result'.tls = result.tls \cup Tls(o)
         /\ result'.warnings = result.warnings \cup Warnings(o)
    BY <1>4, <1>7 DEF Joined, Convert
  <1>12. ListInv'
    <2>1. IsSequence(ingresses') /\ Len(ingresses') = Len(ingresses)
      <3>1. Elements(ingresses) \subseteq Elements(ingresses) \cup {f}
        OBVIOUS
      <3>2. ingresses \in Seq(Elements(ingresses) \cup {f})
        BY <1>2 DEF IsSequence
      <3>3. ingresses' \in Seq(Elements(ingresses) \cup {f}) /\ Len(ingresses') = Len(ingresses)
        BY <1>3, <1>4, <1>6, <1>7, <1>8, <3>2
      <3>4. QED
        BY <3>3, SequenceOf
    <2>2. \A i \in DOMAIN ingresses' : Whole(ingresses'[i])
      BY <1>2, <1>9, <1>10
    <2>3. at' \in 1 .. Len(ingresses') + 1
      BY <1>3, <1>4, <1>6, <2>1
    <2>4. ASSUME NEW i \in 1 .. at' - 1
          PROVE  Fixed(ingresses'[i]) = ingresses'[i]
      <3>1. CASE i = at
        BY <1>9, <1>10, <3>1
      <3>2. CASE i # at
        <4>1. i \in 1 .. n /\ i \in 1 .. at - 1
          BY <1>5, <1>6, <3>2
        <4>2. QED
          BY <1>2, <1>6, <1>10, <3>2, <4>1
      <3>3. QED
        BY <3>1, <3>2
    <2>5. QED
      BY <1>2, <1>4, <2>1, <2>2, <2>3, <2>4 DEF ListInv
  <1>13. /\ IsSequence(result.ingresses) /\ Len(result.ingresses) = n
         /\ \A i \in 1 .. n : result.ingresses[i] = OutIngress(ingresses[i], sslRedirect)
         /\ Collects(result.plugins, PluginsOf, n)
         /\ IsSequence(result.policies)
         /\ \A i \in 1 .. n : PoliciesOf[i] \subseteq Elements(result.policies)
         /\ result.tls = Union(TlsOf, n) /\ result.warnings = Union(WarningsOf, n)
    BY <1>1, <1>5 DEF ResultInv
  <1>14. /\ \A i \in 1 .. n : i \in 1 .. n + 1 /\ ingresses'[i] = ingresses[i]
         /\ n + 1 \in 1 .. n + 1 /\ ingresses'[n + 1] = f
    BY <1>6, <1>10
  <1>15. /\ IsSequence(result'.ingresses) /\ Len(result'.ingresses) = n + 1
         /\ \A i \in 1 .. n + 1 : result'.ingresses[i] = OutIngress(ingresses'[i], sslRedirect)
    <2> DEFINE out == OutIngress(o, sslRedirect)
    <2>1. <<out>> \in Seq({out}) /\ Len(<<out>>) = 1 /\ <<out>>[1] = out /\ 1 \in 1 .. 1
      OBVIOUS
    <2>2. IsSequence(<<out>>)
      BY <2>1, SequenceOf
    <2> HIDE DEF out
    <2>3. /\ IsSequence(result.ingresses \o <<out>>)
          /\ Len(result.ingresses \o <<out>>) = n + 1
          /\ \A i \in 1 .. n : (result.ingresses \o <<out>>)[i] = result.ingresses[i]
          /\ (result.ingresses \o <<out>>)[n + 1] = out
      BY <1>13, <2>1, <2>2, Concatenated
    <2>4. result'.ingresses = result.ingresses \o <<out>>
      BY <1>11 DEF out
    <2>5. ASSUME NEW i \in 1 .. n + 1
          PROVE  result'.ingresses[i] = OutIngress(ingresses'[i], sslRedirect)
      <3>1. CASE i = n + 1
        BY <1>9, <1>14, <2>3, <2>4, <3>1 DEF out
      <3>2. CASE i # n + 1
        <4>1. i \in 1 .. n
          BY <1>6, <3>2
        <4>2. QED
          BY <1>13, <1>14, <2>3, <2>4, <4>1
      <3>3. QED
        BY <3>1, <3>2
    <2>6. QED
      BY <2>3, <2>4, <2>5
  <1>16. Collects(result'.plugins, PluginsOf', n + 1)
    <2>1. PICK c : c = PluginsOf
      OBVIOUS
    <2>2. PICK d : d = PluginsOf'
      OBVIOUS
    <2>3. \A i \in 1 .. n : c[i] = Elements(PluginConfigs(ingresses[i]))
      BY <1>5, <2>1 DEF PluginsOf
    <2>4. \A i \in 1 .. n + 1 : d[i] = Elements(PluginConfigs(ingresses'[i]))
      BY <1>6, <2>2 DEF PluginsOf
    <2>5. (\A i \in 1 .. n : d[i] = c[i]) /\ d[n + 1] = Elements(PluginConfigs(o))
      BY <1>9, <1>14, <2>3, <2>4
    <2>6. IsSequence(PluginConfigs(o)) /\ Len(PluginConfigs(o)) <= 1
      BY MakesSequences
    <2>7. Collects(result.plugins, c, n)
      BY <1>13, <2>1
    <2>8. Collects(result.plugins \o PluginConfigs(o), d, n + 1)
      BY <1>6, <2>5, <2>6, <2>7, CollectsMore
    <2>9. QED
      BY <1>11, <2>2, <2>8
  <1>17. /\ IsSequence(result'.policies)
         /\ \A i \in 1 .. n + 1 : PoliciesOf'[i] \subseteq Elements(result'.policies)
    <2>1. IsSequence(Policies(o))
      BY MakesSequences
    <2>2. /\ IsSequence(result'.policies)
          /\ Elements(result'.policies) = Elements(result.policies) \cup Elements(Policies(o))
      BY <1>11, <1>13, <2>1, Concatenated
    <2>3. ASSUME NEW i \in 1 .. n + 1
          PROVE  PoliciesOf'[i] \subseteq Elements(result'.policies)
      <3>1. PoliciesOf'[i] = Elements(Policies(ingresses'[i]))
        BY <1>6 DEF PoliciesOf
      <3>2. CASE i = n + 1
        BY <1>9, <1>14, <2>2, <3>1, <3>2
      <3>3. CASE i # n + 1
        <4>1. i \in 1 .. n
          BY <1>6, <3>3
        <4>2. PoliciesOf[i] = Elements(Policies(ingresses[i]))
          BY <1>5, <4>1 DEF PoliciesOf
        <4>3. QED
          BY <1>13, <1>14, <2>2, <3>1, <4>1, <4>2
      <3>4. QED
        BY <3>2, <3>3
    <2>4. QED
      BY <2>2, <2>3
  <1>18. result'.tls = Union(TlsOf', n + 1)
    <2>1. PICK c : c = TlsOf
      OBVIOUS
    <2>2. PICK d : d = TlsOf'
      OBVIOUS
    <2>3. \A i \in 1 .. n : c[i] = Tls(ingresses[i])
      BY <1>5, <2>1 DEF TlsOf
    <2>4. \A i \in 1 .. n + 1 : d[i] = Tls(ingresses'[i])
      BY <1>6, <2>2 DEF TlsOf
    <2>5. (\A i \in 1 .. n : d[i] = c[i]) /\ d[n + 1] = Tls(o)
      BY <1>9, <1>14, <2>3, <2>4
    <2>6. Union(d, n + 1) = Union(c, n) \cup d[n + 1]
      BY <1>6, <2>5, UnionMore
    <2>7. QED
      BY <1>11, <1>13, <2>1, <2>2, <2>5, <2>6
  <1>19. result'.warnings = Union(WarningsOf', n + 1)
    <2>1. PICK c : c = WarningsOf
      OBVIOUS
    <2>2. PICK d : d = WarningsOf'
      OBVIOUS
    <2>3. \A i \in 1 .. n : c[i] = Warnings(ingresses[i])
      BY <1>5, <2>1 DEF WarningsOf
    <2>4. \A i \in 1 .. n + 1 : d[i] = Warnings(ingresses'[i])
      BY <1>6, <2>2 DEF WarningsOf
    <2>5. (\A i \in 1 .. n : d[i] = c[i]) /\ d[n + 1] = Warnings(o)
      BY <1>9, <1>14, <2>3, <2>4
    <2>6. Union(d, n + 1) = Union(c, n) \cup d[n + 1]
      BY <1>6, <2>5, UnionMore
    <2>7. QED
      BY <1>11, <1>13, <2>1, <2>2, <2>5, <2>6
  <1>20. ResultInv'
    BY <1>4, <1>6, <1>15, <1>16, <1>17, <1>18, <1>19 DEF ResultInv
  <1>21. RerunInv'
    <2>1. CASE first = <<>>
      BY <1>4, <2>1 DEF RerunInv
    <2>2. CASE first # <<>>
      <3>1. /\ \E r : first = <<r>>
            /\ first[1].ingresses = ingresses
            /\ first[1].tls = UNION {Tls(ingresses[i]) : i \in DOMAIN ingresses}
            /\ \A i \in DOMAIN ingresses : Settled(ingresses[i], sslRedirect)
            /\ result.plugins = <<>> /\ result.policies = <<>> /\ result.upstreams = <<>>
        BY <1>1, <2>2 DEF RerunInv
      <3>2. Settled(o, sslRedirect)
        BY <1>6, <1>7, <3>1
      <3>3. f = o
        BY <1>8, <3>2 DEF Settled
      <3>4. ingresses' = ingresses
        <4>1. ingresses = [i \in 1 .. Len(ingresses) |-> ingresses[i]]
          BY <1>2 DEF IsSequence
        <4>2. QED
          BY <1>3, <1>4, <1>6, <1>7, <1>8, <3>3, <4>1
      <3>5. PluginConfigs(o) = <<>> /\ Policies(o) = <<>> /\ Upstreams(o) = <<>>
        BY <1>2, <3>2, SettledConvert
      <3>6. result'.plugins = <<>> /\ result'.policies = <<>> /\ result'.upstreams = <<>>
        BY <1>11, <3>1, <3>5
      <3>7. QED
        BY <1>4, <3>1, <3>4, <3>6 DEF RerunInv
    <2>3. QED
      BY <2>1, <2>2
  <1>22. QED
    BY <1>12, <1>20, <1>21 DEF Inv

LEMMA RerunStepInv ==
    ASSUME Inv, Rerun
    PROVE  Inv'
  <1>1. ListInv /\ ResultInv /\ RerunInv
    BY DEF Inv
  <1>2. /\ sslRedirect \in BOOLEAN /\ IsSequence(ingresses)
        /\ \A i \in DOMAIN ingresses : Whole(ingresses[i])
        /\ at \in 1 .. Len(ingresses) + 1
    BY <1>1 DEF ListInv
  <1>3. /\ ~(at <= Len(ingresses)) /\ first = <<>>
        /\ ingresses' = result.ingresses /\ at' = 1 /\ result' = Nothing
        /\ first' = <<result>> /\ sslRedirect' = sslRedirect
    BY <1>2, SequenceOf DEF Rerun, Done, IsSequence
  <1>4. /\ Len(ingresses) \in Nat /\ DOMAIN ingresses = 1 .. Len(ingresses)
        /\ at - 1 = Len(ingresses)
    BY <1>2, <1>3, SequenceOf DEF IsSequence
  <1>5. PICK l : l = result.ingresses
    OBVIOUS
  <1>6. /\ IsSequence(l) /\ Len(l) = Len(ingresses)
        /\ \A i \in DOMAIN ingresses : l[i] = OutIngress(ingresses[i], sslRedirect)
        /\ result.tls = Union(TlsOf, Len(ingresses))
    BY <1>1, <1>4, <1>5 DEF ResultInv
  <1>7. DOMAIN l = DOMAIN ingresses
    BY <1>4, <1>6, SequenceOf DEF IsSequence
  <1>8. \A i \in DOMAIN l : Settled(l[i], sslRedirect) /\ Tls(l[i]) = Tls(ingresses[i])
    BY <1>2, <1>6, <1>7, OutSettled
  <1>9. ListInv'
    <2>1. \A i \in DOMAIN l : Whole(l[i])
      BY <1>8 DEF Settled
    <2>2. at' \in 1 .. Len(ingresses') + 1 /\ 1 .. at' - 1 = {}
      BY <1>3, <1>4, <1>5, <1>6
    <2>3. QED
      BY <1>2, <1>3, <1>5, <1>6, <2>1, <2>2 DEF ListInv
  <1>10. ResultInv'
    <2>1. (at = 1 /\ result = Nothing)'
      BY <1>3 DEF Nothing
    <2>2. QED
      BY <2>1, NothingCollected, PTL
  <1>11. RerunInv'
    <2>1. /\ first'[1] = result /\ \E r : first' = <<r>>
      BY <1>3
    <2>2. result.tls = UNION {Tls(l[i]) : i \in DOMAIN l}
      <3>1. \A i \in DOMAIN ingresses : TlsOf[i] = Tls(l[i])
        BY <1>4, <1>7, <1>8 DEF TlsOf
      <3>2. QED
        BY <1>4, <1>6, <1>7, <3>1 DEF Union
    <2>3. result'.plugins = <<>> /\ result'.policies = <<>> /\ result'.upstreams = <<>>
      BY <1>3 DEF Nothing
    <2>4. QED
      BY <1>3, <1>5, <1>8, <2>1, <2>2, <2>3 DEF RerunInv
  <1>12. QED
    BY <1>9, <1>10, <1>11 DEF Inv

LEMMA NextInv == Inv /\ [Next]_vars => Inv'
  <1> SUFFICES ASSUME Inv, [Next]_vars
               PROVE  Inv'
    OBVIOUS
  <1>1. CASE ConvertNext
    BY <1>1, ConvertNextInv
  <1>2. CASE Rerun
    BY <1>2, RerunStepInv
  <1>3. CASE UNCHANGED vars
    <2>1. ListInv' /\ ResultInv' /\ RerunInv'
      BY <1>3 DEF vars, Inv, ListInv, ResultInv, RerunInv, PluginsOf, PoliciesOf, TlsOf, WarningsOf
    <2>2. QED
      BY <2>1 DEF Inv
  <1>4. QED
    BY <1>1, <1>2, <1>3 DEF Next

LEMMA Invariance == Spec => []Inv
  BY InitInv, NextInv, PTL DEF Spec

-----------------------------------------------------------------------------
(* What follows from it *)

LEMMA Shape ==
    ASSUME Inv
    PROVE  /\ Len(ingresses) \in Nat /\ DOMAIN ingresses = 1 .. Len(ingresses)
           /\ DOMAIN result.ingresses = 1 .. at - 1 /\ at \in 1 .. Len(ingresses) + 1
           /\ sslRedirect \in BOOLEAN
           /\ \A i \in DOMAIN ingresses : Whole(ingresses[i])
  <1>1. ListInv /\ ResultInv
    BY DEF Inv
  <1>2. /\ IsSequence(ingresses) /\ at \in 1 .. Len(ingresses) + 1
        /\ sslRedirect \in BOOLEAN /\ \A i \in DOMAIN ingresses : Whole(ingresses[i])
    BY <1>1 DEF ListInv
  <1>3. IsSequence(result.ingresses) /\ Len(result.ingresses) = at - 1
    BY <1>1 DEF ResultInv
  <1>4. QED
    BY <1>2, <1>3, SequenceOf DEF IsSequence

\* Every converted Ingress, and its source, when all have been converted.
LEMMA AllDone ==
    ASSUME Inv, Done
    PROVE  /\ at - 1 = Len(ingresses) /\ DOMAIN ingresses = 1 .. Len(ingresses)
           /\ DOMAIN result.ingresses = DOMAIN ingresses
           /\ \A i \in DOMAIN ingresses :
                /\ Whole(ingresses[i])
                /\ result.ingresses[i] = OutIngress(ingresses[i], sslRedirect)
                /\ Warnings(ingresses[i]) \subseteq result.warnings
                /\ Elements(PluginConfigs(ingresses[i])) \subseteq Elements(result.plugins)
                /\ Elements(Policies(ingresses[i])) \subseteq Elements(result.policies)
  <1>1. ResultInv
    BY DEF Inv
  <1>2. /\ Len(ingresses) \in Nat /\ DOMAIN ingresses = 1 .. Len(ingresses)
        /\ DOMAIN result.ingresses = 1 .. at - 1 /\ at \in 1 .. Len(ingresses) + 1
        /\ \A i \in DOMAIN ingresses : Whole(ingresses[i])
    BY Shape
  <1>3. at - 1 = Len(ingresses)
    BY <1>2 DEF Done
  <1>4. ASSUME NEW i \in DOMAIN ingresses
        PROVE  /\ result.ingresses[i] = OutIngress(ingresses[i], sslRedirect)
               /\ Warnings(ingresses[i]) \subseteq result.warnings
               /\ Elements(PluginConfigs(ingresses[i])) \subseteq Elements(result.plugins)
               /\ Elements(Policies(ingresses[i])) \subseteq Elements(result.policies)
    <2>1. i \in 1 .. at - 1
      BY <1>2, <1>3
    <2>2. /\ WarningsOf[i] = Warnings(ingresses[i])
          /\ PluginsOf[i] = Elements(PluginConfigs(ingresses[i]))
          /\ PoliciesOf[i] = Elements(Policies(ingresses[i]))
      BY <2>1 DEF WarningsOf, PluginsOf, PoliciesOf
    <2>3. result.ingresses[i] = OutIngress(ingresses[i], sslRedirect)
      BY <1>1, <2>1 DEF ResultInv
    <2>4. Warnings(ingresses[i]) \subseteq result.warnings
      BY <1>1, <2>1, <2>2 DEF ResultInv, Union
    <2>5. Elements(PluginConfigs(ingresses[i])) \subseteq Elements(result.plugins)
      <3>1. Collects(result.plugins, PluginsOf, at - 1)
        BY <1>1 DEF ResultInv
      <3>2. QED
        BY <2>1, <2>2, <3>1 DEF Collects
    <2>6. Elements(Policies(ingresses[i])) \subseteq Elements(result.policies)
      BY <1>1, <2>1, <2>2 DEF ResultInv
    <2>7. QED
      BY <2>3, <2>4, <2>5, <2>6
  <1>5. QED
    BY <1>2, <1>3, <1>4

LEMMA InvTypeOK == Inv => TypeOK
  <1> SUFFICES ASSUME Inv
               PROVE  TypeOK
    OBVIOUS
  <1>1. ListInv /\ ResultInv /\ RerunInv
    BY DEF Inv
  <1>2. /\ Len(ingresses) \in Nat /\ DOMAIN ingresses = 1 .. Len(ingresses)
        /\ DOMAIN result.ingresses = 1 .. at - 1 /\ at \in 1 .. Len(ingresses) + 1
        /\ sslRedirect \in BOOLEAN
        /\ \A i \in DOMAIN ingresses : Whole(ingresses[i])
    BY Shape
  <1>3. \A i \in DOMAIN ingresses : IsIngress(ingresses[i])
    BY <1>2 DEF Whole
  <1>4. Len(result.ingresses) = at - 1
    BY <1>1 DEF ResultInv
  <1>5. ASSUME NEW i \in DOMAIN result.ingresses
        PROVE  IsConverted(result.ingresses[i])
    <2>1. i \in 1 .. at - 1 /\ i \in DOMAIN ingresses
      BY <1>2
    <2>2. result.ingresses[i] = OutIngress(ingresses[i], sslRedirect)
      BY <1>1, <2>1 DEF ResultInv
    <2>3. Settled(OutIngress(ingresses[i], sslRedirect), sslRedirect)
      BY <1>2, <2>1, OutSettled
    <2>4. QED
      BY <2>2, <2>3 DEF Settled
  <1>6. Len(first) <= 1
    <2>1. Len(<<>>) <= 1 /\ \A r : Len(<<r>>) <= 1
      OBVIOUS
    <2>2. QED
      BY <1>1, <2>1 DEF RerunInv
  <1>7. QED
    BY <1>2, <1>3, <1>4, <1>5, <1>6 DEF TypeOK

\* What the variables hold: every converted Ingress has a namespace, the class of APISIX
\* and nothing of nginx's left (converter.go:323-377), for lists of any length.
THEOREM TypeCorrect == Spec => []TypeOK
  BY Invariance, InvTypeOK, PTL

LEMMA InvConvertsOnce == Inv => ConvertsOnce
  <1> SUFFICES ASSUME Inv, first # <<>>, Done
               PROVE  /\ result.ingresses = first[1].ingresses /\ result.tls = first[1].tls
                      /\ result.plugins = <<>> /\ result.policies = <<>> /\ result.upstreams = <<>>
                      /\ result.warnings = {}
    BY DEF ConvertsOnce
  <1>1. ListInv /\ ResultInv /\ RerunInv
    BY DEF Inv
  <1>2. /\ first[1].ingresses = ingresses
        /\ first[1].tls = UNION {Tls(ingresses[i]) : i \in DOMAIN ingresses}
        /\ \A i \in DOMAIN ingresses : Settled(ingresses[i], sslRedirect)
        /\ result.plugins = <<>> /\ result.policies = <<>> /\ result.upstreams = <<>>
    BY <1>1 DEF RerunInv
  <1>3. /\ at - 1 = Len(ingresses) /\ DOMAIN ingresses = 1 .. Len(ingresses)
        /\ DOMAIN result.ingresses = DOMAIN ingresses
        /\ \A i \in DOMAIN ingresses : result.ingresses[i] = OutIngress(ingresses[i], sslRedirect)
    BY AllDone
  <1>4. \A i \in DOMAIN ingresses :
            OutIngress(ingresses[i], sslRedirect) = ingresses[i] /\ Warnings(ingresses[i]) = {}
    BY <1>2, Shape, SettledConvert
  <1>5. result.ingresses = ingresses
    <2>1. IsSequence(result.ingresses) /\ IsSequence(ingresses)
      BY <1>1 DEF ListInv, ResultInv
    <2>2. /\ result.ingresses = [i \in DOMAIN result.ingresses |-> result.ingresses[i]]
          /\ ingresses = [i \in DOMAIN ingresses |-> ingresses[i]]
      BY <2>1 DEF IsSequence
    <2>3. \A i \in DOMAIN ingresses : result.ingresses[i] = ingresses[i]
      BY <1>3, <1>4
    <2>4. QED
      BY <1>3, <2>2, <2>3
  <1>6. result.tls = UNION {Tls(ingresses[i]) : i \in DOMAIN ingresses}
    <2>1. \A i \in DOMAIN ingresses : TlsOf[i] = Tls(ingresses[i])
      BY <1>3 DEF TlsOf
    <2>2. result.tls = Union(TlsOf, Len(ingresses))
      BY <1>1, <1>3 DEF ResultInv
    <2>3. QED
      BY <1>3, <2>1, <2>2 DEF Union
  <1>7. result.warnings = {}
    <2>1. \A i \in DOMAIN ingresses : WarningsOf[i] = {}
      BY <1>3, <1>4 DEF WarningsOf
    <2>2. result.warnings = Union(WarningsOf, Len(ingresses))
      BY <1>1, <1>3 DEF ResultInv
    <2>3. QED
      BY <1>3, <2>1, <2>2 DEF Union
  <1>8. QED
    BY <1>2, <1>5, <1>6, <1>7

\* The output given to the converter again comes out as it was, with the entries of
\* spec.tls once more, no other resource and no warning.
THEOREM OnceTheorem == Spec => []ConvertsOnce
  BY Invariance, InvConvertsOnce, PTL

-----------------------------------------------------------------------------
(* Links *)

\* The plugin config of an Ingress that has plugins.
ConfigOf(ing) ==
    [ns |-> NamespaceOf(ing), name |-> NameOf(ing, "plugins"), of |-> ing.name,
     plugins |-> Plugins(ing)]

LEMMA ConfigElements ==
    ASSUME NEW ing
    PROVE  /\ Plugins(ing) # <<>> => Elements(PluginConfigs(ing)) = {ConfigOf(ing)}
           /\ \A c \in Elements(PluginConfigs(ing)) : c.name = Cut[<<ing.name, "plugins">>]
  <1>1. PluginConfigs(ing) = When(Plugins(ing) # <<>>, ConfigOf(ing))
    BY DEF PluginConfigs, ConfigOf
  <1>2. Elements(PluginConfigs(ing)) = IF Plugins(ing) # <<>> THEN {ConfigOf(ing)} ELSE {}
    BY <1>1, WhenSequence
  <1>3. ConfigOf(ing).name = Cut[<<ing.name, "plugins">>]
    BY DEF ConfigOf, NameOf
  <1>4. QED
    BY <1>2, <1>3

\* The link of a converted Ingress.
LEMMA OutLink ==
    ASSUME NEW ing, Whole(ing), NEW s \in BOOLEAN, NEW out, out = OutIngress(ing, s)
    PROVE  /\ out.ns = NamespaceOf(ing)
           /\ Plugins(ing) = <<>> => ValueOf(out.anns, Name) = ValueOf(ing.anns, Name)
           /\ Plugins(ing) # <<>> => ValueOf(out.anns, Name) = NameOf(ing, "plugins")
  <1> DEFINE a == OutAnnotations(ing, s, LinkTo(ing))
  <1>1. out.ns = NamespaceOf(ing) /\ out.anns = a
    BY DEF OutIngress
  <1>2. AreOut(a, ing, s, LinkTo(ing))
    <2>1. Prefixed(ing.anns)
      BY DEF Whole, IsIngress, Prefixed
    <2>2. QED
      BY <2>1, OutKeys
  <1> HIDE DEF a
  <1>3. ASSUME Plugins(ing) = <<>>
        PROVE  ValueOf(out.anns, Name) = ValueOf(ing.anns, Name)
    <2>1. LinkTo(ing) = ""
      BY <1>3 DEF LinkTo
    <2>2. QED
      BY <1>1, <1>2, <2>1 DEF AreOut
  <1>4. ASSUME Plugins(ing) # <<>>
        PROVE  ValueOf(out.anns, Name) = NameOf(ing, "plugins")
    <2>1. LinkTo(ing) = NameOf(ing, "plugins")
      BY <1>4 DEF LinkTo
    <2>2. IsWhole(ing)
      BY DEF Whole
    <2>3. NameOf(ing, "plugins") # ""
      BY <2>2 DEF IsWhole, NameOf
    <2>4. QED
      BY <1>1, <1>2, <2>1, <2>3 DEF AreOut, ValueOf
  <1>5. QED
    BY <1>1, <1>3, <1>4

LEMMA InvLinksResolve == Inv => LinksResolve
  <1> SUFFICES ASSUME Inv, FirstRun, NEW i \in DOMAIN ingresses
               PROVE  LET link == ValueOf(result.ingresses[i].anns, Name)
                          own == {j \in DOMAIN result.plugins :
                                    /\ result.plugins[j].name = link
                                    /\ result.plugins[j].ns = result.ingresses[i].ns}
                      IN  \/ link = ValueOf(ingresses[i].anns, Name)
                          \/ \E j \in own :
                                /\ result.plugins[j].of = ingresses[i].name
                                /\ own = {j} \/ \E h \in DOMAIN ingresses : h # i /\ ~CutApart(h, i)
    BY DEF LinksResolve, Name
  <1> DEFINE link == ValueOf(result.ingresses[i].anns, Name)
             own == {j \in DOMAIN result.plugins :
                        /\ result.plugins[j].name = link
                        /\ result.plugins[j].ns = result.ingresses[i].ns}
  <1>1. PICK o : o = ingresses[i]
    OBVIOUS
  <1>2. PICK out : out = result.ingresses[i]
    OBVIOUS
  <1>3. /\ Whole(o) /\ out = OutIngress(o, sslRedirect)
        /\ Elements(PluginConfigs(o)) \subseteq Elements(result.plugins)
        /\ DOMAIN ingresses = 1 .. at - 1
    BY <1>1, <1>2, AllDone DEF FirstRun
  <1>4. /\ out.ns = NamespaceOf(o)
        /\ Plugins(o) = <<>> => ValueOf(out.anns, Name) = ValueOf(o.anns, Name)
        /\ Plugins(o) # <<>> => ValueOf(out.anns, Name) = NameOf(o, "plugins")
    BY <1>3, Shape, OutLink
  <1>5. CASE Plugins(o) = <<>>
    BY <1>1, <1>2, <1>4, <1>5
  <1>6. CASE Plugins(o) # <<>>
    <2>1. link = Cut[<<o.name, "plugins">>] /\ link = NameOf(o, "plugins")
      BY <1>2, <1>4, <1>6 DEF NameOf
    <2>2. PICK c : c = ConfigOf(o)
      OBVIOUS
    <2>3. c.ns = out.ns /\ c.name = link /\ c.of = o.name
      BY <1>4, <2>1, <2>2 DEF ConfigOf
    <2>4. c \in Elements(result.plugins)
      BY <1>3, <1>6, <2>2, ConfigElements
    <2>5. PICK j \in DOMAIN result.plugins : result.plugins[j] = c
      BY <2>4 DEF Elements
    <2>6. j \in own
      BY <1>2, <2>3, <2>5
    <2>7. ASSUME own # {j}
          PROVE  \E h \in DOMAIN ingresses : h # i /\ ~CutApart(h, i)
      <3>1. PICK k \in own : k # j
        BY <2>6, <2>7
      <3>2. Collects(result.plugins, PluginsOf, at - 1)
        BY DEF Inv, ResultInv
      <3>3. PICK h1 \in 1 .. at - 1, h2 \in 1 .. at - 1 :
                /\ h1 # h2
                /\ result.plugins[j] \in PluginsOf[h1] /\ result.plugins[k] \in PluginsOf[h2]
        BY <2>6, <3>1, <3>2 DEF Collects
      <3>4. /\ result.plugins[j] \in Elements(PluginConfigs(ingresses[h1]))
            /\ result.plugins[k] \in Elements(PluginConfigs(ingresses[h2]))
        BY <3>3 DEF PluginsOf
      <3>5. /\ result.plugins[j].name = Cut[<<ingresses[h1].name, "plugins">>]
            /\ result.plugins[k].name = Cut[<<ingresses[h2].name, "plugins">>]
        BY <3>4, ConfigElements
      <3>6. result.plugins[j].name = link /\ result.plugins[k].name = link
        BY <2>6, <3>1
      <3>7. ~CutApart(h1, i) /\ ~CutApart(h2, i)
        BY <1>1, <2>1, <3>5, <3>6 DEF CutApart
      <3>8. QED
        BY <1>3, <3>3, <3>7
    <2>8. QED
      BY <1>1, <2>3, <2>5, <2>6, <2>7
  <1>7. QED
    BY <1>5, <1>6

\* A converted Ingress links to a plugin config made of itself, in the namespace it will be
\* looked up in, and no other one of the list takes that name unless cutting made two names
\* equal (converter.go:38-52, 1217-1229), however many Ingresses there are and whatever a
\* name is cut to, as long as it is not cut to nothing.
THEOREM LinksTheorem == Spec => []LinksResolve
  BY Invariance, InvLinksResolve, PTL

-----------------------------------------------------------------------------
(* Cookie affinity *)

\* At most one plugin, of what a builder makes.
AtMostOne(s) == s = <<>> \/ \E x : s = <<x>>

LEMMA AtMostOneSequence ==
    ASSUME NEW s, AtMostOne(s)
    PROVE  IsSequence(s)
  <1>1. CASE s = <<>>
    BY <1>1 DEF IsSequence
  <1>2. CASE s # <<>>
    <2>1. PICK x : s = <<x>>
      BY <1>2 DEF AtMostOne
    <2>2. <<x>> \in Seq({x})
      OBVIOUS
    <2>3. QED
      BY <2>1, <2>2, SequenceOf
  <1>3. QED
    BY <1>1, <1>2

LEMMA BuildersSequences ==
    ASSUME NEW ing, NEW a, a = ing.anns
    PROVE  /\ IsSequence(LimitReq(a))
           /\ IsSequence(LimitConn(a))
           /\ IsSequence(ClientControl(a))
           /\ IsSequence(ProxyControl(a))
           /\ IsSequence(ProxyRewrite(ing))
           /\ IsSequence(ProxyCookiePath(a))
           /\ IsSequence(ProxyCookieFlags(a))
           /\ IsSequence(ResponseRewrite(a))
           /\ IsSequence(SessionCookieHash(a))
           /\ IsSequence(Cors(a))
           /\ IsSequence(UpstreamVhost(a))
           /\ IsSequence(RealIP(a))
  <1>1. IsSequence(LimitReq(a))
    <2>1. AtMostOne(LimitReq(a))
      BY DEF AtMostOne, LimitReq, When
    <2>2. QED
      BY <2>1, AtMostOneSequence
  <1>2. IsSequence(LimitConn(a))
    <2>1. AtMostOne(LimitConn(a))
      BY DEF AtMostOne, LimitConn, When
    <2>2. QED
      BY <2>1, AtMostOneSequence
  <1>3. IsSequence(ClientControl(a))
    <2>1. AtMostOne(ClientControl(a))
      BY DEF AtMostOne, ClientControl, When
    <2>2. QED
      BY <2>1, AtMostOneSequence
  <1>4. IsSequence(ProxyControl(a))
    <2>1. AtMostOne(ProxyControl(a))
      BY DEF AtMostOne, ProxyControl, When
    <2>2. QED
      BY <2>1, AtMostOneSequence
  <1>5. IsSequence(ProxyRewrite(ing))
    <2>1. AtMostOne(ProxyRewrite(ing))
      BY DEF AtMostOne, ProxyRewrite, When
    <2>2. QED
      BY <2>1, AtMostOneSequence
  <1>6. IsSequence(ProxyCookiePath(a))
    <2>1. AtMostOne(ProxyCookiePath(a))
      BY DEF AtMostOne, ProxyCookiePath, When
    <2>2. QED
      BY <2>1, AtMostOneSequence
  <1>7. IsSequence(ProxyCookieFlags(a))
    <2>1. AtMostOne(ProxyCookieFlags(a))
      BY DEF AtMostOne, ProxyCookieFlags, When
    <2>2. QED
      BY <2>1, AtMostOneSequence
  <1>8. IsSequence(ResponseRewrite(a))
    <2>1. AtMostOne(ResponseRewrite(a))
      BY DEF AtMostOne, ResponseRewrite, When
    <2>2. QED
      BY <2>1, AtMostOneSequence
  <1>9. IsSequence(SessionCookieHash(a))
    <2>1. AtMostOne(SessionCookieHash(a))
      BY DEF AtMostOne, SessionCookieHash, When
    <2>2. QED
      BY <2>1, AtMostOneSequence
  <1>10. IsSequence(Cors(a))
    <2>1. AtMostOne(Cors(a))
      BY DEF AtMostOne, Cors, When
    <2>2. QED
      BY <2>1, AtMostOneSequence
  <1>11. IsSequence(UpstreamVhost(a))
    <2>1. AtMostOne(UpstreamVhost(a))
      BY DEF AtMostOne, UpstreamVhost, When
    <2>2. QED
      BY <2>1, AtMostOneSequence
  <1>12. IsSequence(RealIP(a))
    <2>1. AtMostOne(RealIP(a))
      BY DEF AtMostOne, RealIP, When
    <2>2. QED
      BY <2>1, AtMostOneSequence
  <1>13. QED
    BY <1>1, <1>2, <1>3, <1>4, <1>5, <1>6, <1>7, <1>8, <1>9, <1>10, <1>11, <1>12

\* The plugins are those of the builders.
LEMMA PluginElements ==
    ASSUME NEW ing, NEW a, a = ing.anns
    PROVE  Elements(Plugins(ing)) =
              Elements(LimitReq(a))
              \cup Elements(LimitConn(a))
              \cup Elements(ClientControl(a))
              \cup Elements(ProxyControl(a))
              \cup Elements(ProxyRewrite(ing))
              \cup Elements(ProxyCookiePath(a))
              \cup Elements(ProxyCookieFlags(a))
              \cup Elements(ResponseRewrite(a))
              \cup Elements(SessionCookieHash(a))
              \cup Elements(Cors(a))
              \cup Elements(UpstreamVhost(a))
              \cup Elements(RealIP(a))
  <1>1. PICK b1 : b1 = LimitReq(a)
    OBVIOUS
  <1>2. PICK b2 : b2 = b1 \o LimitConn(a)
    OBVIOUS
  <1>3. PICK b3 : b3 = b2 \o ClientControl(a)
    OBVIOUS
  <1>4. PICK b4 : b4 = b3 \o ProxyControl(a)
    OBVIOUS
  <1>5. PICK b5 : b5 = b4 \o ProxyRewrite(ing)
    OBVIOUS
  <1>6. PICK b6 : b6 = b5 \o ProxyCookiePath(a)
    OBVIOUS
  <1>7. PICK b7 : b7 = b6 \o ProxyCookieFlags(a)
    OBVIOUS
  <1>8. PICK b8 : b8 = b7 \o ResponseRewrite(a)
    OBVIOUS
  <1>9. PICK b9 : b9 = b8 \o SessionCookieHash(a)
    OBVIOUS
  <1>10. PICK b10 : b10 = b9 \o Cors(a)
    OBVIOUS
  <1>11. PICK b11 : b11 = b10 \o UpstreamVhost(a)
    OBVIOUS
  <1>12. PICK b12 : b12 = b11 \o RealIP(a)
    OBVIOUS
  <1>13. IsSequence(b1)
    BY <1>1, BuildersSequences
  <1>14. IsSequence(b2) /\ Elements(b2) = Elements(b1) \cup Elements(LimitConn(a))
    BY <1>2, <1>13, BuildersSequences, Concatenated
  <1>15. IsSequence(b3) /\ Elements(b3) = Elements(b2) \cup Elements(ClientControl(a))
    BY <1>3, <1>14, BuildersSequences, Concatenated
  <1>16. IsSequence(b4) /\ Elements(b4) = Elements(b3) \cup Elements(ProxyControl(a))
    BY <1>4, <1>15, BuildersSequences, Concatenated
  <1>17. IsSequence(b5) /\ Elements(b5) = Elements(b4) \cup Elements(ProxyRewrite(ing))
    BY <1>5, <1>16, BuildersSequences, Concatenated
  <1>18. IsSequence(b6) /\ Elements(b6) = Elements(b5) \cup Elements(ProxyCookiePath(a))
    BY <1>6, <1>17, BuildersSequences, Concatenated
  <1>19. IsSequence(b7) /\ Elements(b7) = Elements(b6) \cup Elements(ProxyCookieFlags(a))
    BY <1>7, <1>18, BuildersSequences, Concatenated
  <1>20. IsSequence(b8) /\ Elements(b8) = Elements(b7) \cup Elements(ResponseRewrite(a))
    BY <1>8, <1>19, BuildersSequences, Concatenated
  <1>21. IsSequence(b9) /\ Elements(b9) = Elements(b8) \cup Elements(SessionCookieHash(a))
    BY <1>9, <1>20, BuildersSequences, Concatenated
  <1>22. IsSequence(b10) /\ Elements(b10) = Elements(b9) \cup Elements(Cors(a))
    BY <1>10, <1>21, BuildersSequences, Concatenated
  <1>23. IsSequence(b11) /\ Elements(b11) = Elements(b10) \cup Elements(UpstreamVhost(a))
    BY <1>11, <1>22, BuildersSequences, Concatenated
  <1>24. IsSequence(b12) /\ Elements(b12) = Elements(b11) \cup Elements(RealIP(a))
    BY <1>12, <1>23, BuildersSequences, Concatenated
  <1>25. Plugins(ing) = b12
    BY <1>1, <1>2, <1>3, <1>4, <1>5, <1>6, <1>7, <1>8, <1>9, <1>10, <1>11, <1>12 DEF Plugins
  <1>26. QED
    BY <1>1, <1>14, <1>15, <1>16, <1>17, <1>18, <1>19, <1>20, <1>21, <1>22, <1>23, <1>24, <1>25

LEMMA SessionPlugin ==
    ASSUME NEW ing, NEW a, a = ing.anns, HashIsSupported(a)
    PROVE  \E x \in DOMAIN Plugins(ing) :
              /\ Plugins(ing)[x].name = "session-cookie-hash"
              /\ Plugins(ing)[x].config.cookie_name = CookieName(a)
  <1>1. PICK c : SessionCookieHash(a) = <<Plugin("session-cookie-hash", c)>> /\ c.cookie_name = CookieName(a)
    BY DEF SessionCookieHash, When
  <1>2. PICK q : q = Plugin("session-cookie-hash", c)
    OBVIOUS
  <1>3. q \in Elements(SessionCookieHash(a))
    BY <1>1, <1>2 DEF Elements
  <1>4. q \in Elements(Plugins(ing))
    BY <1>3, PluginElements
  <1>5. q.name = "session-cookie-hash" /\ q.config.cookie_name = CookieName(a)
    BY <1>1, <1>2 DEF Plugin
  <1>6. QED
    BY <1>4, <1>5 DEF Elements

\* The policy that cookie affinity makes, if there is a service to make it for.
AffinityPolicy(ing) == Policy(ing, "cookie-affinity", "cookie", CookieName(ing.anns))

LEMMA PolicyMade ==
    ASSUME NEW ing, CookieAffinity(ing.anns), Services(ing) # {}
    PROVE  AffinityPolicy(ing) \in Elements(Policies(ing))
  <1> DEFINE by == Get(ing.anns, "upstream-hash-by")
  <1>1. PICK P : P = When(CookieAffinity(ing.anns), AffinityPolicy(ing))
    OBVIOUS
  <1>2. PICK Q : Q = When(by # "", Policy(ing, "hash-by", HashKey[by].hashOn, HashKey[by].key))
    OBVIOUS
  <1>3. Policies(ing) = P \o Q
    BY <1>1, <1>2 DEF Policies, AffinityPolicy
  <1>4. P = <<AffinityPolicy(ing)>>
    BY <1>1 DEF When
  <1>5. IsSequence(P) /\ IsSequence(Q)
    <2>1. AtMostOne(P)
      BY <1>4 DEF AtMostOne
    <2>2. AtMostOne(Q)
      BY <1>2 DEF AtMostOne, When
    <2>3. QED
      BY <2>1, <2>2, AtMostOneSequence
  <1>6. AffinityPolicy(ing) \in Elements(P)
    BY <1>4 DEF Elements
  <1>7. QED
    BY <1>3, <1>5, <1>6, Concatenated

\* What the warnings say of the names and hashes of cookies.
LEMMA AffinityNoted ==
    ASSUME NEW ing, NEW a, a = ing.anns, CookieAffinity(a), Services(ing) # {}
    PROVE  /\ ~HashIsSupported(a) =>
                IsSet(a, "session-cookie-hash") /\ "session-cookie-hash" \in Noted(a, Services(ing))
           /\ ~Has(a, "session-cookie-hash") => "session-cookie-hash" \in Noted(a, Services(ing))
           /\ ~Has(a, "session-cookie-name") =>
                /\ CookieName(a) = "INGRESSCOOKIE"
                /\ "session-cookie-name" \in Noted(a, Services(ing))
  <1>1. \A s : ~Has(a, s) => Get(a, s) = "" /\ ~IsSet(a, s)
    <2> SUFFICES ASSUME NEW s, ~Has(a, s)
                 PROVE  Get(a, s) = "" /\ ~IsSet(a, s)
      OBVIOUS
    <2>1. <<"nginx", s>> \notin DOMAIN a /\ <<"plain", s>> \notin DOMAIN a
      BY DEF Has, NginxPrefixes
    <2>2. ValueOf(a, <<"nginx", s>>) = "" /\ ValueOf(a, <<"plain", s>>) = ""
      BY <2>1 DEF ValueOf
    <2>3. Get(a, s) = ""
      BY <2>2 DEF Get
    <2>4. QED
      BY <2>3 DEF IsSet
  <1>2. ASSUME HashIsDefault(a) \/ (Hash(a) # "" /\ ~HashIsSupported(a))
        PROVE  "session-cookie-hash" \in Noted(a, Services(ing))
    <2>1. If(HashIsDefault(a) \/ (Hash(a) # "" /\ ~HashIsSupported(a)), {"session-cookie-hash"})
            = {"session-cookie-hash"}
      BY <1>2 DEF If
    <2>2. QED
      BY <2>1 DEF Noted
  <1>3. ASSUME ~Has(a, "session-cookie-name")
        PROVE  "session-cookie-name" \in Noted(a, Services(ing))
    <2>1. If(CookieAffinity(a) /\ ~(Services(ing) = {}) /\ ~Has(a, "session-cookie-name"),
             {"session-cookie-name"}) = {"session-cookie-name"}
      BY <1>3 DEF If
    <2>2. QED
      BY <2>1 DEF Noted
  <1>4. ASSUME ~HashIsSupported(a)
        PROVE  IsSet(a, "session-cookie-hash") /\ Hash(a) # ""
    <2>1. ~HashIsDefault(a)
      BY <1>4 DEF HashIsSupported, Hash
    <2>2. IsSet(a, "session-cookie-hash")
      BY <2>1 DEF HashIsDefault
    <2>3. Hash(a) = Get(a, "session-cookie-hash")
      BY <2>1 DEF Hash
    <2>4. QED
      BY <2>2, <2>3 DEF IsSet
  <1>5. ASSUME ~Has(a, "session-cookie-hash")
        PROVE  HashIsDefault(a)
    BY <1>1, <1>5 DEF HashIsDefault
  <1>6. ASSUME ~Has(a, "session-cookie-name")
        PROVE  CookieName(a) = "INGRESSCOOKIE"
    BY <1>1, <1>6 DEF CookieName
  <1>7. QED
    BY <1>2, <1>3, <1>4, <1>5, <1>6

LEMMA NotedWarned ==
    ASSUME NEW ing, NEW s \in Noted(ing.anns, Services(ing)), Warnings(ing) \subseteq result.warnings
    PROVE  Warned(ing, s)
  <1>1. PICK w : w = [ingress |-> <<ing.ns, ing.name>>, kind |-> "note", about |-> s]
    OBVIOUS
  <1>2. w \in Warnings(ing)
    BY <1>1 DEF Warnings
  <1>3. w.ingress = Of(ing) /\ w.about = s
    BY <1>1 DEF Of
  <1>4. QED
    BY <1>2, <1>3 DEF Warned

LEMMA InvAffinityWorks == Inv => AffinityWorks
  <1> SUFFICES ASSUME Inv, FirstRun, NEW i \in DOMAIN ingresses, NEW ing, ing = ingresses[i],
                      NEW out, out = result.ingresses[i],
                      CookieAffinity(ing.anns), Services(ing) # {}
               PROVE  \E p \in Elements(result.policies) :
                        /\ p.of = ing.name /\ p.ns = out.ns
                        /\ p.hashOn = "cookie" /\ p.services = Services(ing)
                        /\ \/ \E j \in DOMAIN result.plugins :
                                LET pc == result.plugins[j]
                                IN  /\ pc.ns = out.ns /\ pc.of = ing.name
                                    /\ pc.name = ValueOf(out.anns, Name)
                                    /\ \E x \in DOMAIN pc.plugins :
                                        /\ pc.plugins[x].name = "session-cookie-hash"
                                        /\ pc.plugins[x].config.cookie_name = p.key
                           \/ IsSet(ing.anns, "session-cookie-hash") /\ Warned(ing, "session-cookie-hash")
                        /\ ~Has(ing.anns, "session-cookie-hash") => Warned(ing, "session-cookie-hash")
                        /\ ~Has(ing.anns, "session-cookie-name") =>
                               p.key = "INGRESSCOOKIE" /\ Warned(ing, "session-cookie-name")
    BY DEF AffinityWorks, Elements, Name
  <1>1. /\ Whole(ing) /\ out = OutIngress(ing, sslRedirect)
        /\ Warnings(ing) \subseteq result.warnings
        /\ Elements(PluginConfigs(ing)) \subseteq Elements(result.plugins)
        /\ Elements(Policies(ing)) \subseteq Elements(result.policies)
    BY AllDone DEF FirstRun
  <1>2. PICK p : p = AffinityPolicy(ing)
    OBVIOUS
  <1>3. /\ p.ns = NamespaceOf(ing) /\ p.of = ing.name /\ p.services = Services(ing)
        /\ p.hashOn = "cookie" /\ p.key = CookieName(ing.anns)
    BY <1>2 DEF AffinityPolicy, Policy
  <1>4. p \in Elements(result.policies)
    BY <1>1, <1>2, PolicyMade
  <1>5. /\ out.ns = NamespaceOf(ing)
        /\ Plugins(ing) # <<>> => ValueOf(out.anns, Name) = NameOf(ing, "plugins")
    BY <1>1, Shape, OutLink
  <1>6. ~Has(ing.anns, "session-cookie-hash") => Warned(ing, "session-cookie-hash")
    BY <1>1, AffinityNoted, NotedWarned
  <1>7. ~Has(ing.anns, "session-cookie-name") =>
            p.key = "INGRESSCOOKIE" /\ Warned(ing, "session-cookie-name")
    BY <1>1, <1>3, AffinityNoted, NotedWarned
  <1>8. CASE ~HashIsSupported(ing.anns)
    <2>1. IsSet(ing.anns, "session-cookie-hash") /\ Warned(ing, "session-cookie-hash")
      BY <1>1, <1>8, AffinityNoted, NotedWarned
    <2>2. QED
      BY <1>3, <1>4, <1>5, <1>6, <1>7, <2>1
  <1>9. CASE HashIsSupported(ing.anns)
    <2>1. PICK x \in DOMAIN Plugins(ing) :
              /\ Plugins(ing)[x].name = "session-cookie-hash"
              /\ Plugins(ing)[x].config.cookie_name = p.key
      BY <1>3, <1>9, SessionPlugin
    <2>2. Plugins(ing) # <<>>
      BY <2>1
    <2>3. PICK c : c = ConfigOf(ing)
      OBVIOUS
    <2>4. /\ c.ns = out.ns /\ c.of = ing.name /\ c.name = ValueOf(out.anns, Name)
          /\ c.plugins = Plugins(ing)
      BY <1>5, <2>2, <2>3 DEF ConfigOf
    <2>5. c \in Elements(result.plugins)
      BY <1>1, <2>2, <2>3, ConfigElements
    <2>6. PICK j \in DOMAIN result.plugins : result.plugins[j] = c
      BY <2>5 DEF Elements
    <2>7. QED
      BY <1>3, <1>4, <1>5, <1>6, <1>7, <2>1, <2>4, <2>6
  <1>10. QED
    BY <1>8, <1>9

\* For cookie affinity the cookie that the policy hashes on is the one that the linked plugin
\* sets, and defaults are reported; only a hash that is not supported, which is reported too,
\* leaves the cookie to nobody (README.md:82-88, against converter.go:943-1000, 1255-1290).
THEOREM AffinityTheorem == Spec => []AffinityWorks
  BY Invariance, InvAffinityWorks, PTL

-----------------------------------------------------------------------------
(* False alarms *)

\* b is a without what nginx's annotation s says.
IsLess(b, a, s) == b = Restricted(a, DOMAIN a \ (NginxPrefixes \X {s}))

LEMMA LessReads ==
    ASSUME NEW a, NEW b, NEW s, IsLess(b, a, s)
    PROVE  /\ \A t : t # s => Get(b, t) = Get(a, t) /\ (IsSet(b, t) <=> IsSet(a, t))
                              /\ (Has(b, t) <=> Has(a, t))
           /\ Get(b, s) = ""
  <1>1. /\ DOMAIN b = DOMAIN a \ (NginxPrefixes \X {s})
        /\ \A k \in DOMAIN b : b[k] = a[k]
    BY DEF IsLess, Restricted
  <1>2. ASSUME NEW t, t # s
        PROVE  Get(b, t) = Get(a, t) /\ (IsSet(b, t) <=> IsSet(a, t)) /\ (Has(b, t) <=> Has(a, t))
    <2>1. \A p : <<p, t>> \in DOMAIN b <=> <<p, t>> \in DOMAIN a
      BY <1>1, <1>2
    <2>2. \A p : ValueOf(b, <<p, t>>) = ValueOf(a, <<p, t>>)
      BY <1>1, <2>1 DEF ValueOf
    <2>3. Get(b, t) = Get(a, t)
      BY <2>2 DEF Get
    <2>4. Has(b, t) <=> Has(a, t)
      BY <2>1 DEF Has
    <2>5. QED
      BY <2>3, <2>4 DEF IsSet
  <1>3. Get(b, s) = ""
    <2>1. <<"nginx", s>> \notin DOMAIN b /\ <<"plain", s>> \notin DOMAIN b
      BY <1>1 DEF NginxPrefixes
    <2>2. QED
      BY <2>1 DEF Get, ValueOf
  <1>4. QED
    BY <1>2, <1>3

\* Both say the same of everything that the table of handled annotations has, and of
\* cookies, unless nobody asks for one.
SameReads(b, a) ==
    /\ \A t \in Handled : /\ Get(b, t) = Get(a, t) /\ (IsSet(b, t) <=> IsSet(a, t))
                          /\ (Has(b, t) <=> Has(a, t))
    /\ CookieAffinity(b) <=> CookieAffinity(a)
    /\ CookieAffinity(a) \/ HashIsSupported(a) => CookieName(b) = CookieName(a)

LEMMA LostReads ==
    ASSUME NEW a, NEW b, NEW s, IsLess(b, a, s), s \notin Handled \cup Consumed(a)
    PROVE  SameReads(b, a)
  <1>1. /\ \A t : t # s => Get(b, t) = Get(a, t) /\ (IsSet(b, t) <=> IsSet(a, t))
                           /\ (Has(b, t) <=> Has(a, t))
        /\ Get(b, s) = ""
    BY LessReads
  <1>2. CookieAffinity(b) <=> CookieAffinity(a)
    <2>1. CASE s = "affinity"
      <3>1. ~CookieAffinity(a)
        BY <2>1 DEF Consumed
      <3>2. QED
        BY <1>1, <2>1, <3>1 DEF CookieAffinity
    <2>2. CASE s # "affinity"
      BY <1>1, <2>2 DEF CookieAffinity
    <2>3. QED
      BY <2>1, <2>2
  <1>3. ASSUME CookieAffinity(a) \/ HashIsSupported(a)
        PROVE  CookieName(b) = CookieName(a)
    <2>1. s # "session-cookie-name"
      <3>1. CASE CookieAffinity(a)
        BY <3>1 DEF Consumed
      <3>2. CASE ~CookieAffinity(a)
        <4>1. HashIsSupported(a) /\ Hash(a) = Get(a, "session-cookie-hash")
          BY <1>3, <3>2 DEF Hash, HashIsDefault
        <4>2. Get(a, "session-cookie-hash") # ""
          BY <4>1 DEF HashIsSupported
        <4>3. Has(a, "session-cookie-hash")
          BY <4>2 DEF Get, ValueOf, Has, NginxPrefixes
        <4>4. QED
          BY <4>3 DEF Consumed
      <3>3. QED
        BY <3>1, <3>2
    <2>2. QED
      BY <1>1, <2>1 DEF CookieName
  <1>4. QED
    BY <1>1, <1>2, <1>3 DEF SameReads

LEMMA SameGet ==
    ASSUME NEW a, NEW b, SameReads(b, a), NEW T, T \subseteq Handled
    PROVE  \A t \in T : /\ Get(b, t) = Get(a, t) /\ (IsSet(b, t) <=> IsSet(a, t))
                        /\ (Has(b, t) <=> Has(a, t))
  BY DEF SameReads

LEMMA SameNative ==
    ASSUME NEW a, NEW b, SameReads(b, a)
    PROVE  Native(b) = Native(a)
  <1>1. {"backend-protocol", "whitelist-source-range", "denylist-source-range", "auth-url",
         "auth-method", "auth-request-headers", "auth-response-headers", "auth-signin",
         "auth-realm", "custom-http-errors", "proxy-connect-timeout", "proxy-send-timeout",
         "proxy-read-timeout"} \subseteq Handled
    BY DEF Handled
  <1>2. {"proxy-redirect-from", "proxy-redirect-to", "force-ssl-redirect", "ssl-redirect",
         "app-root", "temporal-redirect", "permanent-redirect", "auth-type",
         "enable-access-log", "websocket-services", "use-regex"} \subseteq Handled
    BY DEF Handled
  <1>3. \A r \in Renamed : Get(b, r[1]) = Get(a, r[1])
    BY <1>1, SameGet DEF Renamed
  <1>4. \A r \in Timeouts : WithUnit(Get(b, r[1])) = WithUnit(Get(a, r[1]))
    BY <1>1, SameGet DEF Timeouts
  <1>5. IsSSLRedirect(b) <=> IsSSLRedirect(a)
    BY <1>2, SameGet DEF IsSSLRedirect
  <1>6. HttpToHttps(b) = HttpToHttps(a)
    BY <1>2, <1>5, SameGet DEF HttpToHttps
  <1>7. HttpRedirect(b) = HttpRedirect(a) /\ HttpRedirectCode(b) = HttpRedirectCode(a)
    BY <1>2, SameGet DEF HttpRedirect, HttpRedirectCode
  <1>8. AuthType(b) = AuthType(a)
    BY <1>2, SameGet DEF AuthType
  <1>9. AccessLog(b) = AccessLog(a)
    BY <1>2, SameGet DEF AccessLog
  <1>10. (IF IsSet(b, "websocket-services") THEN "true" ELSE "")
            = (IF IsSet(a, "websocket-services") THEN "true" ELSE "")
    BY <1>2, SameGet
  <1>11. (IF Get(b, "use-regex") = "true" THEN "true" ELSE "")
            = (IF Get(a, "use-regex") = "true" THEN "true" ELSE "")
    BY <1>2, SameGet
  <1>12. {<<r[2], Get(b, r[1])>> : r \in Renamed} = {<<r[2], Get(a, r[1])>> : r \in Renamed}
    BY <1>3
  <1>13. {<<r[2], WithUnit(Get(b, r[1]))>> : r \in Timeouts}
            = {<<r[2], WithUnit(Get(a, r[1]))>> : r \in Timeouts}
    BY <1>4
  <1>14. Written(b) = Written(a)
    BY <1>6, <1>7, <1>8, <1>9, <1>10, <1>11, <1>12, <1>13 DEF Written
  <1>15. QED
    BY <1>14 DEF Native

LEMMA SameLimits ==
    ASSUME NEW a, NEW b, SameReads(b, a)
    PROVE  LimitReq(b) = LimitReq(a)
  <1>1. {"limit-rps", "limit-rpm", "limit-multiplier", "limit-burst-multiplier",
         "configuration-snippet"} \subseteq Handled
    BY DEF Handled
  <1>2. \A l \in Limits : Get(b, l[1]) = Get(a, l[1])
    BY <1>1, SameGet DEF Limits
  <1>3. ParsedLimits(b) = ParsedLimits(a)
    BY <1>2 DEF ParsedLimits
  <1>4. Scale(b) = Scale(a)
    BY <1>1, SameGet DEF Scale
  <1>5. \A l \in ParsedLimits(a) : PerMinute(b, l) = PerMinute(a, l)
    BY <1>2, <1>4 DEF PerMinute, ParsedLimits
  <1>6. {PerMinute(b, l) : l \in ParsedLimits(b)} = {PerMinute(a, l) : l \in ParsedLimits(a)}
    BY <1>3, <1>5
  <1>7. Rate(b) = Rate(a)
    BY <1>6 DEF Rate
  <1>8. Burst(b) = Burst(a)
    BY <1>1, <1>7, SameGet DEF Burst
  <1>9. SnippetOf(b) = SnippetOf(a)
    BY <1>1, SameGet DEF SnippetOf
  <1>10. QED
    BY <1>3, <1>7, <1>8, <1>9 DEF LimitReq

LEMMA SameSessions ==
    ASSUME NEW a, NEW b, SameReads(b, a)
    PROVE  SessionCookieHash(b) = SessionCookieHash(a)
  <1>1. {"session-cookie-hash", "session-cookie-max-age", "session-cookie-expires",
         "session-cookie-path"} \subseteq Handled
    BY DEF Handled
  <1>2. HashIsDefault(b) <=> HashIsDefault(a)
    BY <1>1, SameGet DEF HashIsDefault, SameReads
  <1>3. Hash(b) = Hash(a)
    BY <1>1, <1>2, SameGet DEF Hash
  <1>4. HashIsSupported(b) <=> HashIsSupported(a)
    BY <1>3 DEF HashIsSupported
  <1>5. CookieAge(b) = CookieAge(a)
    BY <1>1, SameGet DEF CookieAge
  <1>6. Get(b, "session-cookie-path") = Get(a, "session-cookie-path")
    BY <1>1, SameGet
  <1>7. CASE HashIsSupported(a)
    <2>1. CookieName(b) = CookieName(a)
      BY <1>7 DEF SameReads
    <2>2. QED
      BY <1>3, <1>4, <1>5, <1>6, <1>7, <2>1 DEF SessionCookieHash, When
  <1>8. CASE ~HashIsSupported(a)
    BY <1>4, <1>8 DEF SessionCookieHash, When
  <1>9. QED
    BY <1>7, <1>8

LEMMA SameCors ==
    ASSUME NEW a, NEW b, SameReads(b, a)
    PROVE  Cors(b) = Cors(a)
  <1>1. {"enable-cors", "cors-allow-origin", "cors-allow-methods", "cors-allow-headers",
         "cors-allow-credentials", "cors-max-age", "cors-expose-headers"} \subseteq Handled
    BY DEF Handled
  <1>2. CorsIsOn(b) <=> CorsIsOn(a)
    BY <1>1, SameGet DEF CorsIsOn
  <1>3. /\ Get(b, "cors-allow-origin") = Get(a, "cors-allow-origin")
        /\ Get(b, "cors-allow-methods") = Get(a, "cors-allow-methods")
        /\ Get(b, "cors-allow-headers") = Get(a, "cors-allow-headers")
        /\ Get(b, "cors-max-age") = Get(a, "cors-max-age")
        /\ Get(b, "cors-expose-headers") = Get(a, "cors-expose-headers")
    BY <1>1, SameGet
  <1>4. Credentials(b) = Credentials(a)
    BY <1>1, SameGet DEF Credentials
  <1>5. CorsConfig(b) = CorsConfig(a)
    <2>1. Origin(b) = Origin(a)
      BY <1>3 DEF Origin
    <2>2. CorsAge(b) = CorsAge(a)
      BY <1>3 DEF CorsAge
    <2>3. AnyOrigin(b) = AnyOrigin(a)
      BY <1>4, <2>1 DEF AnyOrigin
    <2>4. ListedOrigins(b) = ListedOrigins(a)
      BY <2>1, <2>3 DEF ListedOrigins
    <2>5. RegexOrigins(b) = RegexOrigins(a)
      BY <2>3, Zenon DEF RegexOrigins
    <2>6. QED
      BY <1>3, <1>4, <2>2, <2>4, <2>5 DEF CorsConfig
  <1>6. QED
    BY <1>2, <1>5 DEF Cors, When

LEMMA SameSnippet ==
    ASSUME NEW a, NEW b, SameReads(b, a)
    PROVE  SnippetOf(b) = SnippetOf(a)
  <1>1. {"configuration-snippet"} \subseteq Handled
    BY DEF Handled
  <1>2. QED
    BY <1>1, SameGet DEF SnippetOf

LEMMA SameSingles ==
    ASSUME NEW a, NEW b, SameReads(b, a)
    PROVE  /\ LimitConn(b) = LimitConn(a)
           /\ ClientControl(b) = ClientControl(a)
           /\ ProxyControl(b) = ProxyControl(a)
           /\ UpstreamVhost(b) = UpstreamVhost(a)
           /\ ProxyCookiePath(b) = ProxyCookiePath(a)
  <1>1. {"limit-connections", "proxy-body-size", "proxy-request-buffering", "upstream-vhost",
         "proxy-cookie-path"} \subseteq Handled
    BY DEF Handled
  <1>2. LimitConn(b) = LimitConn(a)
    BY <1>1, SameGet DEF LimitConn, When
  <1>3. ClientControl(b) = ClientControl(a)
    BY <1>1, SameGet DEF ClientControl, When
  <1>4. ProxyControl(b) = ProxyControl(a)
    BY <1>1, SameGet DEF ProxyControl, When
  <1>5. UpstreamVhost(b) = UpstreamVhost(a)
    BY <1>1, SameGet DEF UpstreamVhost, When
  <1>6. ProxyCookiePath(b) = ProxyCookiePath(a)
    BY <1>1, SameGet DEF ProxyCookiePath, When
  <1>7. QED
    BY <1>2, <1>3, <1>4, <1>5, <1>6

LEMMA SameRealIP ==
    ASSUME NEW a, NEW b, SameReads(b, a)
    PROVE  RealIP(b) = RealIP(a)
  <1>1. {"enable-real-ip", "forwarded-for-header", "use-forwarded-headers"} \subseteq Handled
    BY DEF Handled
  <1>2. RealIPIsOn(b) <=> RealIPIsOn(a)
    BY <1>1, SameGet DEF RealIPIsOn
  <1>3. /\ Get(b, "forwarded-for-header") = Get(a, "forwarded-for-header")
        /\ IsSet(b, "forwarded-for-header") <=> IsSet(a, "forwarded-for-header")
        /\ Get(b, "use-forwarded-headers") = Get(a, "use-forwarded-headers")
    BY <1>1, SameGet
  <1>4. CASE RealIPIsOn(a)
    BY <1>2, <1>3, <1>4 DEF RealIP, When
  <1>5. CASE ~RealIPIsOn(a)
    BY <1>2, <1>5 DEF RealIP, When
  <1>6. QED
    BY <1>4, <1>5

\* v is an Ingress that differs from ing in its annotations only.
OnlyAnnotated(v, ing) ==
    /\ v.ns = ing.ns /\ v.name = ing.name /\ v.paths = ing.paths
    /\ v.backend = ing.backend /\ v.tls = ing.tls

LEMMA SamePlugins ==
    ASSUME NEW v, NEW ing, OnlyAnnotated(v, ing), SameReads(v.anns, ing.anns)
    PROVE  Plugins(v) = Plugins(ing)
  <1> PICK a : a = ing.anns
    OBVIOUS
  <1> PICK b : b = v.anns
    OBVIOUS
  <1>1. SameReads(b, a)
    OBVIOUS
  <1>2. SnippetOf(b) = SnippetOf(a)
    BY <1>1, SameSnippet
  <1>3. RewrittenPaths(v) = RewrittenPaths(ing)
    <2>1. {"rewrite-target"} \subseteq Handled
      BY DEF Handled
    <2>2. IsSet(v.anns, "rewrite-target") <=> IsSet(ing.anns, "rewrite-target")
      BY <1>1, <2>1, SameGet
    <2>3. v.paths = ing.paths
      BY DEF OnlyAnnotated
    <2>4. QED
      BY <2>2, <2>3 DEF RewrittenPaths
  <1>4. Get(v.anns, "rewrite-target") = Get(ing.anns, "rewrite-target")
    <2>1. {"rewrite-target"} \subseteq Handled
      BY DEF Handled
    <2>2. QED
      BY <1>1, <2>1, SameGet
  <1>5. ProxyRewrite(v) = ProxyRewrite(ing)
    <2>1. SnippetOf(v.anns) = SnippetOf(ing.anns)
      BY <1>2
    <2>2. QED
      BY <1>3, <1>4, <2>1 DEF ProxyRewrite, When
  <1>6. ProxyCookieFlags(b) = ProxyCookieFlags(a)
    BY <1>2 DEF ProxyCookieFlags, When
  <1>7. ResponseRewrite(b) = ResponseRewrite(a)
    BY <1>2 DEF ResponseRewrite, When
  <1>8. LimitReq(b) = LimitReq(a) /\ SessionCookieHash(b) = SessionCookieHash(a)
        /\ Cors(b) = Cors(a) /\ RealIP(b) = RealIP(a)
    BY <1>1, SameLimits, SameSessions, SameCors, SameRealIP
  <1>9. /\ LimitConn(b) = LimitConn(a) /\ ClientControl(b) = ClientControl(a)
        /\ ProxyControl(b) = ProxyControl(a) /\ UpstreamVhost(b) = UpstreamVhost(a)
        /\ ProxyCookiePath(b) = ProxyCookiePath(a)
    BY <1>1, SameSingles
  <1>10. QED
    BY <1>5, <1>6, <1>7, <1>8, <1>9, Zenon DEF Plugins

LEMMA SamePolicies ==
    ASSUME NEW v, NEW ing, OnlyAnnotated(v, ing), SameReads(v.anns, ing.anns)
    PROVE  Policies(v) = Policies(ing)
  <1>1. {"upstream-hash-by"} \subseteq Handled
    BY DEF Handled
  <1>2. Get(v.anns, "upstream-hash-by") = Get(ing.anns, "upstream-hash-by")
    BY <1>1, SameGet
  <1>3. Services(v) = Services(ing)
    BY DEF Services, OnlyAnnotated
  <1>4. v.name = ing.name /\ NamespaceOf(v) = NamespaceOf(ing)
    BY DEF OnlyAnnotated, NamespaceOf
  <1>5. \A suffix : NameOf(v, suffix) = NameOf(ing, suffix)
    BY <1>4 DEF NameOf
  <1>6. \A suffix, on, key : Policy(v, suffix, on, key) = Policy(ing, suffix, on, key)
    BY <1>3, <1>4, <1>5 DEF Policy
  <1>7. CookieAffinity(v.anns) <=> CookieAffinity(ing.anns)
    BY DEF SameReads
  <1>8. When(CookieAffinity(v.anns), Policy(v, "cookie-affinity", "cookie", CookieName(v.anns)))
            = When(CookieAffinity(ing.anns),
                   Policy(ing, "cookie-affinity", "cookie", CookieName(ing.anns)))
    <2>1. CASE CookieAffinity(ing.anns)
      <3>1. CookieName(v.anns) = CookieName(ing.anns)
        BY <2>1 DEF SameReads
      <3>2. QED
        BY <1>6, <1>7, <2>1, <3>1 DEF When
    <2>2. CASE ~CookieAffinity(ing.anns)
      BY <1>7, <2>2 DEF When
    <2>3. QED
      BY <2>1, <2>2
  <1>9. PICK by : by = Get(ing.anns, "upstream-hash-by")
    OBVIOUS
  <1>10. When(by # "", Policy(v, "hash-by", HashKey[by].hashOn, HashKey[by].key))
            = When(by # "", Policy(ing, "hash-by", HashKey[by].hashOn, HashKey[by].key))
    BY <1>6 DEF When
  <1>11. QED
    BY <1>2, <1>3, <1>8, <1>9, <1>10 DEF Policies

LEMMA SameUpstreams ==
    ASSUME NEW v, NEW ing, OnlyAnnotated(v, ing), SameReads(v.anns, ing.anns)
    PROVE  Upstreams(v) = Upstreams(ing)
  <1>1. HealthChecks \subseteq Handled
    BY DEF Handled
  <1>2. \A t \in HealthChecks : /\ Get(v.anns, t) = Get(ing.anns, t)
                                 /\ (Has(v.anns, t) <=> Has(ing.anns, t))
    BY <1>1, SameGet
  <1>3. /\ Get(v.anns, "health-check-path") = Get(ing.anns, "health-check-path")
        /\ Get(v.anns, "health-check-interval") = Get(ing.anns, "health-check-interval")
        /\ Get(v.anns, "health-check-timeout") = Get(ing.anns, "health-check-timeout")
        /\ Get(v.anns, "health-check-retries") = Get(ing.anns, "health-check-retries")
    BY <1>2 DEF HealthChecks
  <1>4. HealthChecked(v.anns) <=> HealthChecked(ing.anns)
    BY <1>2 DEF HealthChecked
  <1>5. v.name = ing.name /\ NamespaceOf(v) = NamespaceOf(ing)
    BY DEF OnlyAnnotated, NamespaceOf
  <1>6. NameOf(v, "upstream") = NameOf(ing, "upstream")
    BY <1>5 DEF NameOf
  <1>7. CASE HealthChecked(ing.anns)
    BY <1>3, <1>4, <1>5, <1>6, <1>7, Zenon DEF Upstreams, When
  <1>8. CASE ~HealthChecked(ing.anns)
    BY <1>4, <1>8 DEF Upstreams, When
  <1>9. QED
    BY <1>7, <1>8

LEMMA SameOut ==
    ASSUME NEW v, NEW ing, OnlyAnnotated(v, ing), NEW s, NEW option,
           IsLess(v.anns, ing.anns, s), SameReads(v.anns, ing.anns), NEW link
    PROVE  OutAnnotations(v, option, link) = OutAnnotations(ing, option, link)
  <1>1. Native(v.anns) = Native(ing.anns)
    BY SameNative
  <1>2. NeedsRegex(v) <=> NeedsRegex(ing)
    BY DEF NeedsRegex, OnlyAnnotated
  <1>3. v.tls = ing.tls
    BY DEF OnlyAnnotated
  <1>4. /\ DOMAIN v.anns = DOMAIN ing.anns \ (NginxPrefixes \X {s})
        /\ \A k \in DOMAIN v.anns : v.anns[k] = ing.anns[k]
    BY DEF IsLess, Restricted
  <1>5. \A k \in NginxPrefixes \X {s} : IsNginx(k)
    BY DEF IsNginx
  <1>6. Kept(v) = Kept(ing)
    BY <1>4, <1>5 DEF Kept
  <1>7. Kept(v) \subseteq DOMAIN v.anns /\ Kept(ing) \subseteq DOMAIN ing.anns
    BY DEF Kept
  <1>8. Restricted(v.anns, Kept(v)) = Restricted(ing.anns, Kept(ing))
    BY <1>4, <1>6, <1>7 DEF Restricted
  <1>9. At(NeedsRegex(v), "use-regex", "true") = At(NeedsRegex(ing), "use-regex", "true")
    BY <1>2 DEF At
  <1>10. At(option /\ v.tls # <<>>, "http-to-https", "true")
            = At(option /\ ing.tls # <<>>, "http-to-https", "true")
    BY <1>3
  <1>11. QED
    BY <1>1, <1>8, <1>9, <1>10 DEF OutAnnotations

\* An Ingress without an annotation reported as lost is converted to the same resources.
LEMMA SameResources ==
    ASSUME NEW ing, Whole(ing), NEW s \in Lost(ing.anns), NEW option
    PROVE  Resources(Convert(Without(ing, s), option)) = Resources(Convert(ing, option))
  <1>1. PICK v : v = Without(ing, s)
    OBVIOUS
  <1>2. PICK b : b = Restricted(ing.anns, DOMAIN ing.anns \ (NginxPrefixes \X {s}))
    OBVIOUS
  <1>3. v = [ns |-> ing.ns, name |-> ing.name, class |-> ing.class, anns |-> b,
             paths |-> ing.paths, backend |-> ing.backend, tls |-> ing.tls]
    <2>1. ing = [ns |-> ing.ns, name |-> ing.name, class |-> ing.class, anns |-> ing.anns,
                 paths |-> ing.paths, backend |-> ing.backend, tls |-> ing.tls]
      BY WholeRecord
    <2>2. PICK n, m, c, a, p, e, t :
              ing = [ns |-> n, name |-> m, class |-> c, anns |-> a, paths |-> p, backend |-> e,
                     tls |-> t]
      BY <2>1
    <2>3. v = [ing EXCEPT !.anns = b]
      BY <1>1, <1>2 DEF Without
    <2>4. QED
      BY <2>2, <2>3
  <1>4. OnlyAnnotated(v, ing) /\ v.anns = b
    BY <1>3 DEF OnlyAnnotated
  <1>5. IsLess(v.anns, ing.anns, s)
    BY <1>2, <1>4 DEF IsLess
  <1>6. SameReads(v.anns, ing.anns)
    <2>1. s \notin Handled \cup Consumed(ing.anns)
      BY DEF Lost
    <2>2. QED
      BY <1>5, <2>1, LostReads
  <1>7. Plugins(v) = Plugins(ing)
    BY <1>4, <1>6, SamePlugins
  <1>8. v.name = ing.name /\ NamespaceOf(v) = NamespaceOf(ing) /\ v.paths = ing.paths
        /\ v.tls = ing.tls /\ v.backend = ing.backend
    BY <1>4 DEF OnlyAnnotated, NamespaceOf
  <1>9. \A suffix : NameOf(v, suffix) = NameOf(ing, suffix)
    BY <1>8 DEF NameOf
  <1>10. PluginConfigs(v) = PluginConfigs(ing)
    BY <1>7, <1>8, <1>9 DEF PluginConfigs, When
  <1>11. LinkTo(v) = LinkTo(ing)
    BY <1>7, <1>9 DEF LinkTo
  <1>12. OutAnnotations(v, option, LinkTo(v)) = OutAnnotations(ing, option, LinkTo(ing))
    BY <1>4, <1>5, <1>6, <1>11, SameOut
  <1>13. FixedPaths(v) = FixedPaths(ing)
    BY <1>8 DEF FixedPaths
  <1>14. OutIngress(v, option) = OutIngress(ing, option)
    BY <1>8, <1>12, <1>13 DEF OutIngress
  <1>15. Tls(v) = Tls(ing)
    BY <1>8, <1>9 DEF Tls
  <1>16. Policies(v) = Policies(ing) /\ Upstreams(v) = Upstreams(ing)
    BY <1>4, <1>6, SamePolicies, SameUpstreams
  <1>17. \A x : Resources(Convert(x, option)) =
            [ingresses |-> <<OutIngress(x, option)>>, plugins |-> PluginConfigs(x),
             policies |-> Policies(x), upstreams |-> Upstreams(x), tls |-> Tls(x),
             warnings |-> {}]
    BY DEF Resources, Convert
  <1>18. QED
    BY <1>1, <1>10, <1>14, <1>15, <1>16, <1>17

LEMMA InvNoFalseAlarm == Inv => NoFalseAlarm
  <1> SUFFICES ASSUME Inv, FirstRun, NEW w \in result.warnings, w.kind = "lost"
               PROVE  \E i \in DOMAIN ingresses :
                        /\ w.ingress = Of(ingresses[i])
                        /\ Resources(Convert(Without(ingresses[i], w.about), sslRedirect))
                               = Resources(Convert(ingresses[i], sslRedirect))
    BY DEF NoFalseAlarm
  <1>1. ResultInv
    BY DEF Inv
  <1>2. result.warnings = Union(WarningsOf, at - 1)
    BY <1>1 DEF ResultInv
  <1>3. PICK i \in 1 .. at - 1 : w \in Warnings(ingresses[i])
    BY <1>2 DEF Union, WarningsOf
  <1>4. i \in DOMAIN ingresses /\ Whole(ingresses[i])
    <2>1. /\ Len(ingresses) \in Nat /\ DOMAIN ingresses = 1 .. Len(ingresses)
          /\ at \in 1 .. Len(ingresses) + 1 /\ \A j \in DOMAIN ingresses : Whole(ingresses[j])
      BY Shape
    <2>2. i \in 1 .. Len(ingresses)
      BY <2>1
    <2>3. QED
      BY <2>1, <2>2
  <1>5. PICK ing : ing = ingresses[i]
    OBVIOUS
  <1>6. PICK s \in Lost(ing.anns) :
            w = [ingress |-> <<ing.ns, ing.name>>, kind |-> "lost", about |-> s]
    BY <1>3, <1>5 DEF Warnings
  <1>7. w.ingress = Of(ing) /\ w.about = s
    BY <1>6 DEF Of
  <1>8. Resources(Convert(Without(ing, s), sslRedirect)) = Resources(Convert(ing, sslRedirect))
    BY <1>4, <1>5, SameResources
  <1>9. QED
    BY <1>4, <1>5, <1>7, <1>8

\* What is reported as impossible to convert made no difference to anything but the warnings
\* (converter.go:402-425).
THEOREM AlarmTheorem == Spec => []NoFalseAlarm
  BY Invariance, InvNoFalseAlarm, PTL

-----------------------------------------------------------------------------
(* The Ingresses that NothingSilentlyLost compares *)

\* w is ing without nginx's annotation s.
Variant(w, ing, s) ==
    /\ OnlyAnnotated(w, ing)
    /\ \A t : t # s => /\ Get(w.anns, t) = Get(ing.anns, t)
                       /\ IsSet(w.anns, t) <=> IsSet(ing.anns, t)
                       /\ Has(w.anns, t) <=> Has(ing.anns, t)
    /\ Get(w.anns, s) = ""
    /\ ~Has(w.anns, s)
    /\ \A k : ~IsNginx(k) => /\ k \in DOMAIN w.anns <=> k \in DOMAIN ing.anns
                             /\ k \in DOMAIN ing.anns => w.anns[k] = ing.anns[k]
    /\ \A k \in DOMAIN w.anns : IsNginx(k) => k = <<k[1], k[2]>>

LEMMA Reannotated ==
    ASSUME NEW ing, Whole(ing), NEW b, NEW w, w = [ing EXCEPT !.anns = b]
    PROVE  OnlyAnnotated(w, ing) /\ w.anns = b
  <1>1. PICK n, m, c, a, p, e, t :
            ing = [ns |-> n, name |-> m, class |-> c, anns |-> a, paths |-> p, backend |-> e, tls |-> t]
    BY WholeRecord
  <1>2. w = [ns |-> n, name |-> m, class |-> c, anns |-> b, paths |-> p, backend |-> e, tls |-> t]
    BY <1>1
  <1>3. /\ w.ns = n /\ w.name = m /\ w.anns = b /\ w.paths = p /\ w.backend = e /\ w.tls = t
        /\ ing.ns = n /\ ing.name = m /\ ing.paths = p /\ ing.backend = e /\ ing.tls = t
    BY <1>1, <1>2
  <1>4. QED
    BY <1>3 DEF OnlyAnnotated

LEMMA WithoutVaries ==
    ASSUME NEW ing, Whole(ing), NEW s
    PROVE  Variant(Without(ing, s), ing, s)
  <1>1. PICK w : w = Without(ing, s)
    OBVIOUS
  <1>2. PICK b : b = Restricted(ing.anns, DOMAIN ing.anns \ (NginxPrefixes \X {s}))
    OBVIOUS
  <1>3. OnlyAnnotated(w, ing) /\ w.anns = b
    <2>1. w = [ing EXCEPT !.anns = b]
      BY <1>1, <1>2 DEF Without
    <2>2. QED
      BY <2>1, Reannotated
  <1>4. IsLess(b, ing.anns, s)
    BY <1>2 DEF IsLess
  <1>5. /\ \A t : t # s => Get(b, t) = Get(ing.anns, t) /\ (IsSet(b, t) <=> IsSet(ing.anns, t))
                           /\ (Has(b, t) <=> Has(ing.anns, t))
        /\ Get(b, s) = ""
    BY <1>4, LessReads
  <1>6. /\ DOMAIN b = DOMAIN ing.anns \ (NginxPrefixes \X {s})
        /\ \A k \in DOMAIN b : b[k] = ing.anns[k]
    BY <1>4 DEF IsLess, Restricted
  <1>7. ~Has(b, s)
    BY <1>6 DEF Has, NginxPrefixes
  <1>8. ASSUME NEW k, ~IsNginx(k)
        PROVE  /\ k \in DOMAIN b <=> k \in DOMAIN ing.anns
               /\ k \in DOMAIN ing.anns => b[k] = ing.anns[k]
    <2>1. k \notin NginxPrefixes \X {s}
      BY <1>8 DEF IsNginx
    <2>2. QED
      BY <1>6, <2>1
  <1>9. \A k \in DOMAIN b : IsNginx(k) => k = <<k[1], k[2]>>
    BY <1>6 DEF Whole, IsWhole
  <1>10. QED
    BY <1>1, <1>3, <1>5, <1>7, <1>8, <1>9 DEF Variant

-----------------------------------------------------------------------------
(* Which builder made a plugin *)

Kind(p) == IF p.name = "proxy-rewrite" /\ "host" \in DOMAIN p.config THEN "upstream-vhost" ELSE p.name

Made(s, k) == AtMostOne(s) /\ \A p \in Elements(s) : Kind(p) = k

LEMMA KindOf ==
    ASSUME NEW s, NEW name, name # "proxy-rewrite",
           s = <<>> \/ \E config : s = <<Plugin(name, config)>>
    PROVE  Made(s, name)
  <1>1. CASE s = <<>>
    BY <1>1 DEF Made, AtMostOne, Elements
  <1>2. CASE s # <<>>
    <2>1. PICK config : s = <<Plugin(name, config)>>
      BY <1>2
    <2>2. Plugin(name, config).name = name
      BY DEF Plugin
    <2>3. Kind(Plugin(name, config)) = name
      BY <2>2 DEF Kind
    <2>4. QED
      BY <2>1, <2>3 DEF Made, AtMostOne, Elements
  <1>3. QED
    BY <1>1, <1>2

LEMMA KindRewrite ==
    ASSUME NEW s, NEW config, s = <<>> \/ s = <<Plugin("proxy-rewrite", config)>>
    PROVE  /\ "host" \in DOMAIN config => Made(s, "upstream-vhost")
           /\ "host" \notin DOMAIN config => Made(s, "proxy-rewrite")
  <1>1. CASE s = <<>>
    BY <1>1 DEF Made, AtMostOne, Elements
  <1>2. CASE s # <<>>
    <2>1. s = <<Plugin("proxy-rewrite", config)>>
      BY <1>2
    <2>2. PICK p : p = Plugin("proxy-rewrite", config)
      OBVIOUS
    <2>3. p.name = "proxy-rewrite" /\ p.config = config
      BY <2>2 DEF Plugin
    <2>4. Kind(p) = IF "host" \in DOMAIN config THEN "upstream-vhost" ELSE "proxy-rewrite"
      BY <2>3 DEF Kind
    <2>5. QED
      BY <2>1, <2>2, <2>4 DEF Made, AtMostOne, Elements
  <1>3. QED
    BY <1>1, <1>2

LEMMA KindsMade ==
    ASSUME NEW ing, NEW a, a = ing.anns
    PROVE  /\ Made(LimitReq(a), "limit-req")
           /\ Made(LimitConn(a), "limit-conn")
           /\ Made(ClientControl(a), "client-control")
           /\ Made(ProxyControl(a), "proxy-control")
           /\ Made(ProxyRewrite(ing), "proxy-rewrite")
           /\ Made(ProxyCookiePath(a), "proxy-cookie-path")
           /\ Made(ProxyCookieFlags(a), "proxy-cookie-flags")
           /\ Made(ResponseRewrite(a), "response-rewrite")
           /\ Made(SessionCookieHash(a), "session-cookie-hash")
           /\ Made(Cors(a), "cors")
           /\ Made(UpstreamVhost(a), "upstream-vhost")
           /\ Made(RealIP(a), "real-ip")
  <1>1. Made(LimitReq(a), "limit-req")
    <2>1. LimitReq(a) = <<>> \/ \E config : LimitReq(a) = <<Plugin("limit-req", config)>>
      BY DEF LimitReq, When
    <2>2. QED
      BY <2>1, KindOf
  <1>2. Made(LimitConn(a), "limit-conn")
    <2>1. LimitConn(a) = <<>> \/ \E config : LimitConn(a) = <<Plugin("limit-conn", config)>>
      BY DEF LimitConn, When
    <2>2. QED
      BY <2>1, KindOf
  <1>3. Made(ClientControl(a), "client-control")
    <2>1. ClientControl(a) = <<>> \/ \E config : ClientControl(a) = <<Plugin("client-control", config)>>
      BY DEF ClientControl, When
    <2>2. QED
      BY <2>1, KindOf
  <1>4. Made(ProxyControl(a), "proxy-control")
    <2>1. ProxyControl(a) = <<>> \/ \E config : ProxyControl(a) = <<Plugin("proxy-control", config)>>
      BY DEF ProxyControl, When
    <2>2. QED
      BY <2>1, KindOf
  <1>5. Made(ProxyRewrite(ing), "proxy-rewrite")
    <2>1. \/ ProxyRewrite(ing) = <<>>
          \/ \E x, y, z : ProxyRewrite(ing) =
                <<Plugin("proxy-rewrite", [paths |-> x, target |-> y, rewrites |-> z])>>
      BY DEF ProxyRewrite, When
    <2>2. \A x, y, z : "host" \notin DOMAIN [paths |-> x, target |-> y, rewrites |-> z]
      OBVIOUS
    <2>3. ProxyRewrite(ing) = <<>>
          \/ \E config : /\ "host" \notin DOMAIN config
                         /\ ProxyRewrite(ing) = <<Plugin("proxy-rewrite", config)>>
      BY <2>1, <2>2, Zenon
    <2>4. CASE ProxyRewrite(ing) = <<>>
      BY <2>4, KindRewrite DEF Made, AtMostOne, Elements
    <2>5. CASE ProxyRewrite(ing) # <<>>
      BY <2>3, <2>5, KindRewrite
    <2>6. QED
      BY <2>4, <2>5
  <1>6. Made(ProxyCookiePath(a), "proxy-cookie-path")
    <2>1. ProxyCookiePath(a) = <<>> \/ \E config : ProxyCookiePath(a) = <<Plugin("proxy-cookie-path", config)>>
      BY DEF ProxyCookiePath, When
    <2>2. QED
      BY <2>1, KindOf
  <1>7. Made(ProxyCookieFlags(a), "proxy-cookie-flags")
    <2>1. ProxyCookieFlags(a) = <<>> \/ \E config : ProxyCookieFlags(a) = <<Plugin("proxy-cookie-flags", config)>>
      BY DEF ProxyCookieFlags, When
    <2>2. QED
      BY <2>1, KindOf
  <1>8. Made(ResponseRewrite(a), "response-rewrite")
    <2>1. ResponseRewrite(a) = <<>> \/ \E config : ResponseRewrite(a) = <<Plugin("response-rewrite", config)>>
      BY DEF ResponseRewrite, When
    <2>2. QED
      BY <2>1, KindOf
  <1>9. Made(SessionCookieHash(a), "session-cookie-hash")
    <2>1. SessionCookieHash(a) = <<>> \/ \E config : SessionCookieHash(a) = <<Plugin("session-cookie-hash", config)>>
      BY DEF SessionCookieHash, When
    <2>2. QED
      BY <2>1, KindOf
  <1>10. Made(Cors(a), "cors")
    <2>1. Cors(a) = <<>> \/ \E config : Cors(a) = <<Plugin("cors", config)>>
      BY DEF Cors, When
    <2>2. QED
      BY <2>1, KindOf
  <1>11. Made(UpstreamVhost(a), "upstream-vhost")
    <2>1. CASE IsSet(a, "upstream-vhost")
      <3>1. PICK config : config = [host |-> Get(a, "upstream-vhost")]
        OBVIOUS
      <3>2. "host" \in DOMAIN config
        BY <3>1
      <3>3. UpstreamVhost(a) = <<Plugin("proxy-rewrite", config)>>
        BY <2>1, <3>1 DEF UpstreamVhost, When
      <3>4. QED
        BY <3>2, <3>3, KindRewrite
    <2>2. CASE ~IsSet(a, "upstream-vhost")
      <3>1. UpstreamVhost(a) = <<>>
        BY <2>2 DEF UpstreamVhost, When
      <3>2. QED
        BY <3>1 DEF Made, AtMostOne, Elements
    <2>3. QED
      BY <2>1, <2>2
  <1>12. Made(RealIP(a), "real-ip")
    <2>1. RealIP(a) = <<>> \/ \E config : RealIP(a) = <<Plugin("real-ip", config)>>
      BY DEF RealIP, When
    <2>2. QED
      BY <2>1, KindOf
  <1>13. QED
    BY <1>1, <1>2, <1>3, <1>4, <1>5, <1>6, <1>7, <1>8, <1>9, <1>10, <1>11, <1>12


\* The plugins of a kind are those of its builder.
OfKind(ing, k) == {p \in Elements(Plugins(ing)) : Kind(p) = k}

LEMMA KindElements ==
    ASSUME NEW ing, NEW a, a = ing.anns
    PROVE  /\ Elements(LimitReq(a)) = OfKind(ing, "limit-req")
           /\ Elements(LimitConn(a)) = OfKind(ing, "limit-conn")
           /\ Elements(ClientControl(a)) = OfKind(ing, "client-control")
           /\ Elements(ProxyControl(a)) = OfKind(ing, "proxy-control")
           /\ Elements(ProxyRewrite(ing)) = OfKind(ing, "proxy-rewrite")
           /\ Elements(ProxyCookiePath(a)) = OfKind(ing, "proxy-cookie-path")
           /\ Elements(ProxyCookieFlags(a)) = OfKind(ing, "proxy-cookie-flags")
           /\ Elements(ResponseRewrite(a)) = OfKind(ing, "response-rewrite")
           /\ Elements(SessionCookieHash(a)) = OfKind(ing, "session-cookie-hash")
           /\ Elements(Cors(a)) = OfKind(ing, "cors")
           /\ Elements(UpstreamVhost(a)) = OfKind(ing, "upstream-vhost")
           /\ Elements(RealIP(a)) = OfKind(ing, "real-ip")
  <1> DEFINE E == Elements(Plugins(ing))
  <1>1. PICK e1 : e1 = Elements(LimitReq(a))
    OBVIOUS
  <1>2. PICK e2 : e2 = Elements(LimitConn(a))
    OBVIOUS
  <1>3. PICK e3 : e3 = Elements(ClientControl(a))
    OBVIOUS
  <1>4. PICK e4 : e4 = Elements(ProxyControl(a))
    OBVIOUS
  <1>5. PICK e5 : e5 = Elements(ProxyRewrite(ing))
    OBVIOUS
  <1>6. PICK e6 : e6 = Elements(ProxyCookiePath(a))
    OBVIOUS
  <1>7. PICK e7 : e7 = Elements(ProxyCookieFlags(a))
    OBVIOUS
  <1>8. PICK e8 : e8 = Elements(ResponseRewrite(a))
    OBVIOUS
  <1>9. PICK e9 : e9 = Elements(SessionCookieHash(a))
    OBVIOUS
  <1>10. PICK e10 : e10 = Elements(Cors(a))
    OBVIOUS
  <1>11. PICK e11 : e11 = Elements(UpstreamVhost(a))
    OBVIOUS
  <1>12. PICK e12 : e12 = Elements(RealIP(a))
    OBVIOUS
  <1>13. E = e1 \cup e2 \cup e3 \cup e4 \cup e5 \cup e6
               \cup e7 \cup e8 \cup e9 \cup e10 \cup e11 \cup e12
    BY <1>1, <1>2, <1>3, <1>4, <1>5, <1>6, <1>7, <1>8, <1>9, <1>10, <1>11, <1>12, PluginElements
  <1>14. /\ \A p \in e1 : Kind(p) = "limit-req"
         /\ \A p \in e2 : Kind(p) = "limit-conn"
         /\ \A p \in e3 : Kind(p) = "client-control"
         /\ \A p \in e4 : Kind(p) = "proxy-control"
         /\ \A p \in e5 : Kind(p) = "proxy-rewrite"
         /\ \A p \in e6 : Kind(p) = "proxy-cookie-path"
         /\ \A p \in e7 : Kind(p) = "proxy-cookie-flags"
         /\ \A p \in e8 : Kind(p) = "response-rewrite"
         /\ \A p \in e9 : Kind(p) = "session-cookie-hash"
         /\ \A p \in e10 : Kind(p) = "cors"
         /\ \A p \in e11 : Kind(p) = "upstream-vhost"
         /\ \A p \in e12 : Kind(p) = "real-ip"
    BY <1>1, <1>2, <1>3, <1>4, <1>5, <1>6, <1>7, <1>8, <1>9, <1>10, <1>11, <1>12, KindsMade DEF Made
  <1> HIDE DEF E
  <1>15. e1 = {p \in E : Kind(p) = "limit-req"}
    BY <1>13, <1>14
  <1>16. e2 = {p \in E : Kind(p) = "limit-conn"}
    BY <1>13, <1>14
  <1>17. e3 = {p \in E : Kind(p) = "client-control"}
    BY <1>13, <1>14
  <1>18. e4 = {p \in E : Kind(p) = "proxy-control"}
    BY <1>13, <1>14
  <1>19. e5 = {p \in E : Kind(p) = "proxy-rewrite"}
    BY <1>13, <1>14
  <1>20. e6 = {p \in E : Kind(p) = "proxy-cookie-path"}
    BY <1>13, <1>14
  <1>21. e7 = {p \in E : Kind(p) = "proxy-cookie-flags"}
    BY <1>13, <1>14
  <1>22. e8 = {p \in E : Kind(p) = "response-rewrite"}
    BY <1>13, <1>14
  <1>23. e9 = {p \in E : Kind(p) = "session-cookie-hash"}
    BY <1>13, <1>14
  <1>24. e10 = {p \in E : Kind(p) = "cors"}
    BY <1>13, <1>14
  <1>25. e11 = {p \in E : Kind(p) = "upstream-vhost"}
    BY <1>13, <1>14
  <1>26. e12 = {p \in E : Kind(p) = "real-ip"}
    BY <1>13, <1>14
  <1>27. QED
    BY <1>1, <1>2, <1>3, <1>4, <1>5, <1>6, <1>7, <1>8, <1>9, <1>10, <1>11, <1>12, <1>15, <1>16, <1>17, <1>18, <1>19, <1>20, <1>21, <1>22, <1>23, <1>24, <1>25, <1>26 DEF E, OfKind

LEMMA SameElements ==
    ASSUME NEW s, NEW t, NEW k, Made(s, k), Made(t, k), Elements(s) = Elements(t)
    PROVE  s = t
  <1>1. (s = <<>> \/ \E x : s = <<x>>) /\ (t = <<>> \/ \E x : t = <<x>>)
    BY DEF Made, AtMostOne
  <1>2. Elements(<<>>) = {}
    BY DEF Elements
  <1>3. \A x : Elements(<<x>>) = {x}
    BY DEF Elements
  <1>4. QED
    BY <1>1, <1>2, <1>3

\* Two Ingresses of which the same plugins are made agree on every builder.
SameBuilders(b, a, w, ing) ==
    /\ LimitReq(b) = LimitReq(a)
    /\ LimitConn(b) = LimitConn(a)
    /\ ClientControl(b) = ClientControl(a)
    /\ ProxyControl(b) = ProxyControl(a)
    /\ ProxyRewrite(w) = ProxyRewrite(ing)
    /\ ProxyCookiePath(b) = ProxyCookiePath(a)
    /\ ProxyCookieFlags(b) = ProxyCookieFlags(a)
    /\ ResponseRewrite(b) = ResponseRewrite(a)
    /\ SessionCookieHash(b) = SessionCookieHash(a)
    /\ Cors(b) = Cors(a)
    /\ UpstreamVhost(b) = UpstreamVhost(a)
    /\ RealIP(b) = RealIP(a)

LEMMA PluginsApart ==
    ASSUME NEW w, NEW ing, Plugins(w) = Plugins(ing)
    PROVE  SameBuilders(w.anns, ing.anns, w, ing)
  <1>1. PICK a : a = ing.anns
    OBVIOUS
  <1>2. PICK b : b = w.anns
    OBVIOUS
  <1>3. \A k : OfKind(w, k) = OfKind(ing, k)
    BY DEF OfKind
  <1>4. /\ Elements(LimitReq(b)) = Elements(LimitReq(a))
        /\ Elements(LimitConn(b)) = Elements(LimitConn(a))
        /\ Elements(ClientControl(b)) = Elements(ClientControl(a))
        /\ Elements(ProxyControl(b)) = Elements(ProxyControl(a))
        /\ Elements(ProxyRewrite(w)) = Elements(ProxyRewrite(ing))
        /\ Elements(ProxyCookiePath(b)) = Elements(ProxyCookiePath(a))
        /\ Elements(ProxyCookieFlags(b)) = Elements(ProxyCookieFlags(a))
        /\ Elements(ResponseRewrite(b)) = Elements(ResponseRewrite(a))
        /\ Elements(SessionCookieHash(b)) = Elements(SessionCookieHash(a))
        /\ Elements(Cors(b)) = Elements(Cors(a))
        /\ Elements(UpstreamVhost(b)) = Elements(UpstreamVhost(a))
        /\ Elements(RealIP(b)) = Elements(RealIP(a))
    BY <1>1, <1>2, <1>3, KindElements
  <1>5. LimitReq(b) = LimitReq(a)
    <2>1. Made(LimitReq(b), "limit-req") /\ Made(LimitReq(a), "limit-req")
      BY <1>1, <1>2, KindsMade
    <2>2. QED
      BY <1>4, <2>1, SameElements
  <1>6. LimitConn(b) = LimitConn(a)
    <2>1. Made(LimitConn(b), "limit-conn") /\ Made(LimitConn(a), "limit-conn")
      BY <1>1, <1>2, KindsMade
    <2>2. QED
      BY <1>4, <2>1, SameElements
  <1>7. ClientControl(b) = ClientControl(a)
    <2>1. Made(ClientControl(b), "client-control") /\ Made(ClientControl(a), "client-control")
      BY <1>1, <1>2, KindsMade
    <2>2. QED
      BY <1>4, <2>1, SameElements
  <1>8. ProxyControl(b) = ProxyControl(a)
    <2>1. Made(ProxyControl(b), "proxy-control") /\ Made(ProxyControl(a), "proxy-control")
      BY <1>1, <1>2, KindsMade
    <2>2. QED
      BY <1>4, <2>1, SameElements
  <1>9. ProxyRewrite(w) = ProxyRewrite(ing)
    <2>1. Made(ProxyRewrite(w), "proxy-rewrite") /\ Made(ProxyRewrite(ing), "proxy-rewrite")
      BY <1>1, <1>2, KindsMade
    <2>2. QED
      BY <1>4, <2>1, SameElements
  <1>10. ProxyCookiePath(b) = ProxyCookiePath(a)
    <2>1. Made(ProxyCookiePath(b), "proxy-cookie-path") /\ Made(ProxyCookiePath(a), "proxy-cookie-path")
      BY <1>1, <1>2, KindsMade
    <2>2. QED
      BY <1>4, <2>1, SameElements
  <1>11. ProxyCookieFlags(b) = ProxyCookieFlags(a)
    <2>1. Made(ProxyCookieFlags(b), "proxy-cookie-flags") /\ Made(ProxyCookieFlags(a), "proxy-cookie-flags")
      BY <1>1, <1>2, KindsMade
    <2>2. QED
      BY <1>4, <2>1, SameElements
  <1>12. ResponseRewrite(b) = ResponseRewrite(a)
    <2>1. Made(ResponseRewrite(b), "response-rewrite") /\ Made(ResponseRewrite(a), "response-rewrite")
      BY <1>1, <1>2, KindsMade
    <2>2. QED
      BY <1>4, <2>1, SameElements
  <1>13. SessionCookieHash(b) = SessionCookieHash(a)
    <2>1. Made(SessionCookieHash(b), "session-cookie-hash") /\ Made(SessionCookieHash(a), "session-cookie-hash")
      BY <1>1, <1>2, KindsMade
    <2>2. QED
      BY <1>4, <2>1, SameElements
  <1>14. Cors(b) = Cors(a)
    <2>1. Made(Cors(b), "cors") /\ Made(Cors(a), "cors")
      BY <1>1, <1>2, KindsMade
    <2>2. QED
      BY <1>4, <2>1, SameElements
  <1>15. UpstreamVhost(b) = UpstreamVhost(a)
    <2>1. Made(UpstreamVhost(b), "upstream-vhost") /\ Made(UpstreamVhost(a), "upstream-vhost")
      BY <1>1, <1>2, KindsMade
    <2>2. QED
      BY <1>4, <2>1, SameElements
  <1>16. RealIP(b) = RealIP(a)
    <2>1. Made(RealIP(b), "real-ip") /\ Made(RealIP(a), "real-ip")
      BY <1>1, <1>2, KindsMade
    <2>2. QED
      BY <1>4, <2>1, SameElements
  <1>17. QED
    BY <1>1, <1>2, <1>5, <1>6, <1>7, <1>8, <1>9, <1>10, <1>11, <1>12, <1>13, <1>14, <1>15, <1>16 DEF SameBuilders

-----------------------------------------------------------------------------
(* What two Ingresses have in common that are converted to the same *)

Indistinct(w, ing) ==
    /\ SameBuilders(w.anns, ing.anns, w, ing)
    /\ Lost(w.anns) = Lost(ing.anns)
    /\ Noted(w.anns, Services(ing)) = Noted(ing.anns, Services(ing))
    /\ Policies(w) = Policies(ing)
    /\ Upstreams(w) = Upstreams(ing)
    /\ OutAnnotations(w, sslRedirect, LinkTo(w)) = OutAnnotations(ing, sslRedirect, LinkTo(ing))

LEMMA PluginsOfConfigs ==
    ASSUME NEW w, NEW ing, PluginConfigs(w) = PluginConfigs(ing)
    PROVE  Plugins(w) = Plugins(ing)
  <1>1. \A x : Plugins(x) = <<>> => PluginConfigs(x) = <<>>
    BY DEF PluginConfigs, When
  <1>2. ASSUME NEW x, Plugins(x) # <<>>
        PROVE  PluginConfigs(x) # <<>> /\ PluginConfigs(x)[1].plugins = Plugins(x)
    <2>1. PICK c : c = [ns |-> NamespaceOf(x), name |-> NameOf(x, "plugins"), of |-> x.name,
                        plugins |-> Plugins(x)]
      OBVIOUS
    <2>2. PluginConfigs(x) = <<c>>
      BY <1>2, <2>1 DEF PluginConfigs, When
    <2>3. c.plugins = Plugins(x)
      BY <2>1
    <2>4. QED
      BY <2>2, <2>3
  <1>3. QED
    BY <1>1, <1>2

LEMMA WarningsApart ==
    ASSUME NEW w, NEW ing, OnlyAnnotated(w, ing), Warnings(w) = Warnings(ing)
    PROVE  /\ Lost(w.anns) = Lost(ing.anns)
           /\ Noted(w.anns, Services(ing)) = Noted(ing.anns, Services(ing))
  <1> DEFINE Warn(k, s) == [ingress |-> <<ing.ns, ing.name>>, kind |-> k, about |-> s]
  <1>1. \A k, s : Warn(k, s).kind = k /\ Warn(k, s).about = s
    OBVIOUS
  <1>2. Services(w) = Services(ing) /\ w.ns = ing.ns /\ w.name = ing.name
    BY DEF Services, OnlyAnnotated
  <1>3. Warnings(ing) = {Warn("lost", s) : s \in Lost(ing.anns)}
                           \cup {Warn("note", s) : s \in Noted(ing.anns, Services(ing))}
    BY DEF Warnings
  <1>4. Warnings(w) = {Warn("lost", s) : s \in Lost(w.anns)}
                         \cup {Warn("note", s) : s \in Noted(w.anns, Services(ing))}
    BY <1>2 DEF Warnings
  <1> HIDE DEF Warn
  <1>5. \A s : s \in Lost(ing.anns) <=> Warn("lost", s) \in Warnings(ing)
    BY <1>1, <1>3
  <1>6. \A s : s \in Lost(w.anns) <=> Warn("lost", s) \in Warnings(w)
    BY <1>1, <1>4
  <1>7. \A s : s \in Noted(ing.anns, Services(ing)) <=> Warn("note", s) \in Warnings(ing)
    BY <1>1, <1>3
  <1>8. \A s : s \in Noted(w.anns, Services(ing)) <=> Warn("note", s) \in Warnings(w)
    BY <1>1, <1>4
  <1>9. QED
    BY <1>5, <1>6, <1>7, <1>8

LEMMA SameConversion ==
    ASSUME NEW w, NEW ing, OnlyAnnotated(w, ing),
           Convert(w, sslRedirect) = Convert(ing, sslRedirect)
    PROVE  Indistinct(w, ing)
  <1>1. ASSUME NEW x
        PROVE  /\ Convert(x, sslRedirect).ingresses = <<OutIngress(x, sslRedirect)>>
               /\ Convert(x, sslRedirect).plugins = PluginConfigs(x)
               /\ Convert(x, sslRedirect).policies = Policies(x)
               /\ Convert(x, sslRedirect).upstreams = Upstreams(x)
               /\ Convert(x, sslRedirect).warnings = Warnings(x)
    BY DEF Convert
  <1>2. PICK c : c = Convert(ing, sslRedirect)
    OBVIOUS
  <1>3. /\ PluginConfigs(w) = PluginConfigs(ing)
        /\ Policies(w) = Policies(ing)
        /\ Upstreams(w) = Upstreams(ing)
        /\ Warnings(w) = Warnings(ing)
        /\ <<OutIngress(w, sslRedirect)>> = <<OutIngress(ing, sslRedirect)>>
    BY <1>1, Zenon
  <1>4. OutIngress(w, sslRedirect) = OutIngress(ing, sslRedirect)
    BY <1>3
  <1>5. \A x : OutIngress(x, sslRedirect).anns = OutAnnotations(x, sslRedirect, LinkTo(x))
    BY DEF OutIngress
  <1>6. OutAnnotations(w, sslRedirect, LinkTo(w)) = OutAnnotations(ing, sslRedirect, LinkTo(ing))
    BY <1>4, <1>5
  <1>7. SameBuilders(w.anns, ing.anns, w, ing)
    BY <1>3, PluginsOfConfigs, PluginsApart
  <1>8. QED
    BY <1>3, <1>6, <1>7, WarningsApart DEF Indistinct

\* Without annotation s ing is converted to the same.
Silent(ing, s) == \E w : Variant(w, ing, s) /\ Indistinct(w, ing)

LEMMA Silence ==
    ASSUME NEW ing, Whole(ing), NEW s, ~Matters(ing, s)
    PROVE  Silent(ing, s)
  <1>1. PICK w : w = Without(ing, s)
    OBVIOUS
  <1>2. Variant(w, ing, s)
    BY <1>1, WithoutVaries
  <1>3. Indistinct(w, ing)
    BY <1>1, <1>2, SameConversion DEF Matters, Variant
  <1>4. QED
    BY <1>2, <1>3 DEF Silent

-----------------------------------------------------------------------------
(* What a converted Ingress has of an annotation of APISIX's *)

\* x is what the conversion writes as APISIX's annotation n, nothing if x is "".
Writes(a, n, x) ==
    /\ x # "" => <<"apisix", n>> \in DOMAIN Native(a) /\ Native(a)[<<"apisix", n>>] = x
    /\ x = "" => <<"apisix", n>> \notin DOMAIN Native(a)

Others(a) ==
    {<<"http-to-https", HttpToHttps(a)>>,
     <<"http-redirect", HttpRedirect(a)>>,
     <<"http-redirect-code", HttpRedirectCode(a)>>,
     <<"auth-type", AuthType(a)>>,
     <<"enable-access-log", AccessLog(a)>>,
     <<"enable-websocket", IF IsSet(a, "websocket-services") THEN "true" ELSE "">>,
     <<"use-regex", IF Get(a, "use-regex") = "true" THEN "true" ELSE "">>}
Pairs(a) ==
    {<<r[2], Get(a, r[1])>> : r \in Renamed}
    \cup {<<r[2], WithUnit(Get(a, r[1]))>> : r \in Timeouts} \cup Others(a)

\* No annotation of APISIX's is written by two of them.
LEMMA OneWriter ==
    ASSUME NEW a, NEW n \in Pairs(a), NEW m \in Pairs(a), n[1] = m[1]
    PROVE  n = m
  <1>1. \A r \in Renamed, q \in Renamed : r[2] = q[2] => r = q
    BY DEF Renamed
  <1>2. \A r \in Timeouts, q \in Timeouts : r[2] = q[2] => r = q
    BY DEF Timeouts
  <1>3. \A r \in Renamed, q \in Timeouts : r[2] # q[2]
    BY DEF Renamed, Timeouts
  <1> DEFINE names == {"http-to-https", "http-redirect", "http-redirect-code", "auth-type",
                       "enable-access-log", "enable-websocket", "use-regex"}
  <1>4. \A r \in Renamed \cup Timeouts : r[2] \notin names
    BY DEF Renamed, Timeouts
  <1>5. /\ \A p \in Others(a) : p[1] \in names
        /\ \A p \in Others(a), q \in Others(a) : p[1] = q[1] => p = q
    <2>1. PICK x1, x2, x3, x4, x5, x6, x7 :
              Others(a) = {<<"http-to-https", x1>>, <<"http-redirect", x2>>,
                           <<"http-redirect-code", x3>>, <<"auth-type", x4>>,
                           <<"enable-access-log", x5>>, <<"enable-websocket", x6>>, <<"use-regex", x7>>}
      BY DEF Others
    <2>2. QED
      BY <2>1
  <1> HIDE DEF names
  <1>6. \/ \E r \in Renamed : n = <<r[2], Get(a, r[1])>>
        \/ \E r \in Timeouts : n = <<r[2], WithUnit(Get(a, r[1]))>>
        \/ n \in Others(a)
    BY DEF Pairs
  <1>7. \/ \E r \in Renamed : m = <<r[2], Get(a, r[1])>>
        \/ \E r \in Timeouts : m = <<r[2], WithUnit(Get(a, r[1]))>>
        \/ m \in Others(a)
    BY DEF Pairs
  <1>8. CASE \E r \in Renamed : n = <<r[2], Get(a, r[1])>>
    BY <1>1, <1>3, <1>4, <1>5, <1>7, <1>8
  <1>9. CASE \E r \in Timeouts : n = <<r[2], WithUnit(Get(a, r[1]))>>
    BY <1>2, <1>3, <1>4, <1>5, <1>7, <1>9
  <1>10. CASE n \in Others(a)
    BY <1>4, <1>5, <1>7, <1>10
  <1>11. QED
    BY <1>6, <1>8, <1>9, <1>10

LEMMA PairWritten ==
    ASSUME NEW a, NEW n, NEW x, <<n, x>> \in Pairs(a)
    PROVE  Writes(a, n, x)
  <1>1. Written(a) = {p \in Pairs(a) : p[2] # ""}
    BY Zenon DEF Written, Pairs, Others
  <1>2. \A p \in Pairs(a) : p[1] = n => p = <<n, x>>
    BY OneWriter
  <1>3. CASE x # ""
    <2>1. <<n, x>> \in Written(a)
      BY <1>1, <1>3
    <2>2. \A p \in Written(a) : p[1] = n => p = <<n, x>>
      BY <1>1, <1>2
    <2>3. (CHOOSE p \in Written(a) : p[1] = n) = <<n, x>>
      BY <2>1, <2>2
    <2>4. <<"apisix", n>> \in DOMAIN Native(a) /\ <<"apisix", n>>[2] = n
      BY <2>1 DEF Native, Annotated
    <2>5. Native(a)[<<"apisix", n>>] = x
      BY <2>3, <2>4 DEF Native, Annotated
    <2>6. QED
      BY <1>3, <2>4, <2>5 DEF Writes
  <1>4. CASE x = ""
    <2>1. \A p \in Written(a) : p[1] # n
      BY <1>1, <1>2, <1>4
    <2>2. <<"apisix", n>> \notin DOMAIN Native(a)
      BY <2>1 DEF Native, Annotated
    <2>3. QED
      BY <1>4, <2>2 DEF Writes
  <1>5. QED
    BY <1>3, <1>4

LEMMA AllWritten ==
    ASSUME NEW a
    PROVE  /\ \A r \in Renamed : Writes(a, r[2], Get(a, r[1]))
           /\ \A r \in Timeouts : Writes(a, r[2], WithUnit(Get(a, r[1])))
           /\ Writes(a, "http-to-https", HttpToHttps(a))
           /\ Writes(a, "http-redirect", HttpRedirect(a))
           /\ Writes(a, "http-redirect-code", HttpRedirectCode(a))
           /\ Writes(a, "auth-type", AuthType(a))
           /\ Writes(a, "enable-access-log", AccessLog(a))
           /\ Writes(a, "enable-websocket", IF IsSet(a, "websocket-services") THEN "true" ELSE "")
           /\ Writes(a, "use-regex", IF Get(a, "use-regex") = "true" THEN "true" ELSE "")
  <1>1. \A r \in Renamed : <<r[2], Get(a, r[1])>> \in Pairs(a)
    BY DEF Pairs
  <1>2. \A r \in Timeouts : <<r[2], WithUnit(Get(a, r[1]))>> \in Pairs(a)
    BY DEF Pairs
  <1>3. /\ <<"http-to-https", HttpToHttps(a)>> \in Pairs(a)
        /\ <<"http-redirect", HttpRedirect(a)>> \in Pairs(a)
        /\ <<"http-redirect-code", HttpRedirectCode(a)>> \in Pairs(a)
        /\ <<"auth-type", AuthType(a)>> \in Pairs(a)
        /\ <<"enable-access-log", AccessLog(a)>> \in Pairs(a)
        /\ <<"enable-websocket", IF IsSet(a, "websocket-services") THEN "true" ELSE "">> \in Pairs(a)
        /\ <<"use-regex", IF Get(a, "use-regex") = "true" THEN "true" ELSE "">> \in Pairs(a)
    BY Zenon DEF Pairs, Others
  <1>4. QED
    BY <1>1, <1>2, <1>3, PairWritten, Zenon

\* What it has in the end, of an Ingress that had what Otherwise says.
WouldBe(ing, n, x) == IF x # "" THEN x ELSE Otherwise(ing, n)

\* Annotation n is written by convertAnnotations only.
Plainly(ing, n) == n # "plugin-config-name" /\ (n = "use-regex" => ~NeedsRegex(ing))

LEMMA OutValue ==
    ASSUME NEW ing, NEW link, NEW n, NEW x, Plainly(ing, n), Writes(ing.anns, n, x)
    PROVE  ValueOf(OutAnnotations(ing, sslRedirect, link), <<"apisix", n>>) = WouldBe(ing, n, x)
  <1> DEFINE k == <<"apisix", n>>
             A == At(link # "", "plugin-config-name", link)
             B == At(NeedsRegex(ing), "use-regex", "true")
             C == Native(ing.anns)
             D == Restricted(ing.anns, Kept(ing))
             E == At(sslRedirect /\ ing.tls # <<>>, "http-to-https", "true")
             out == OutAnnotations(ing, sslRedirect, link)
  <1>1. out = Over(A, Over(B, Over(C, Over(D, E))))
    BY DEF OutAnnotations
  <1>2. k \notin DOMAIN A
    BY DEF At, Plainly
  <1>3. k \notin DOMAIN B
    BY DEF At, Plainly
  <1>4. /\ x # "" => k \in DOMAIN C /\ C[k] = x
        /\ x = "" => k \notin DOMAIN C
    BY DEF Writes
  <1>5. /\ k \in DOMAIN D <=> k \in DOMAIN ing.anns
        /\ k \in DOMAIN ing.anns => D[k] = ing.anns[k]
    <2>1. k[1] = "apisix" /\ k # <<"kubernetes", "ingress.class">>
      OBVIOUS
    <2>2. ~IsNginx(k)
      BY <2>1 DEF IsNginx, NginxPrefixes
    <2>3. k \in DOMAIN ing.anns => k \in Kept(ing)
      BY <2>1, <2>2 DEF Kept
    <2>4. QED
      BY <2>3 DEF Restricted, Kept
  <1>6. /\ k \in DOMAIN E <=> n = "http-to-https" /\ sslRedirect /\ ing.tls # <<>>
        /\ k \in DOMAIN E => E[k] = "true"
    BY DEF At
  <1>7. Otherwise(ing, n) = IF k \in DOMAIN ing.anns THEN ing.anns[k]
                            ELSE IF n = "http-to-https" /\ sslRedirect /\ ing.tls # <<>> THEN "true"
                            ELSE ""
    BY DEF Otherwise
  <1> HIDE DEF k, A, B, C, D, E, out
  <1>8. PICK X : X = Over(D, E)
    OBVIOUS
  <1>9. PICK Y : Y = Over(C, X)
    OBVIOUS
  <1>10. PICK Z : Z = Over(B, Y)
    OBVIOUS
  <1>11. out = Over(A, Z)
    BY <1>1, <1>8, <1>9, <1>10
  <1>12. IsOver(X, D, E) /\ IsOver(Y, C, X) /\ IsOver(Z, B, Y) /\ IsOver(out, A, Z)
    BY <1>8, <1>9, <1>10, <1>11, OverTwo
  <1>13. ValueOf(out, k) = ValueOf(Y, k)
    BY <1>2, <1>3, <1>12 DEF IsOver, ValueOf
  <1>14. CASE x # ""
    <2>1. k \in DOMAIN Y /\ Y[k] = x
      BY <1>4, <1>12, <1>14 DEF IsOver
    <2>2. QED
      BY <1>13, <1>14, <2>1 DEF ValueOf, WouldBe, k, out
  <1>15. CASE x = ""
    <2>1. ValueOf(Y, k) = ValueOf(X, k)
      BY <1>4, <1>12, <1>15 DEF IsOver, ValueOf
    <2>2. ValueOf(X, k) = Otherwise(ing, n)
      <3>1. CASE k \in DOMAIN ing.anns
        BY <1>5, <1>7, <1>12, <3>1 DEF IsOver, ValueOf
      <3>2. CASE k \notin DOMAIN ing.anns /\ k \in DOMAIN E
        BY <1>5, <1>6, <1>7, <1>12, <3>2 DEF IsOver, ValueOf
      <3>3. CASE k \notin DOMAIN ing.anns /\ k \notin DOMAIN E
        BY <1>5, <1>6, <1>7, <1>12, <3>3 DEF IsOver, ValueOf
      <3>4. QED
        BY <3>1, <3>2, <3>3
    <2>3. QED
      BY <1>13, <1>15, <2>1, <2>2 DEF WouldBe, k, out
  <1>16. QED
    BY <1>14, <1>15

\* It is the same in both.
Agree(w, ing, n) ==
    \A x, y : Writes(ing.anns, n, x) /\ Writes(w.anns, n, y) => WouldBe(ing, n, y) = WouldBe(ing, n, x)

LEMMA OutApart ==
    ASSUME NEW w, NEW ing, NEW s, Variant(w, ing, s), Indistinct(w, ing), NEW n, Plainly(ing, n)
    PROVE  Agree(w, ing, n)
  <1> SUFFICES ASSUME NEW x, NEW y, Writes(ing.anns, n, x), Writes(w.anns, n, y)
               PROVE  WouldBe(ing, n, y) = WouldBe(ing, n, x)
    BY DEF Agree
  <1>1. OnlyAnnotated(w, ing)
    BY DEF Variant
  <1>2. NeedsRegex(w) <=> NeedsRegex(ing)
    BY <1>1 DEF NeedsRegex, OnlyAnnotated
  <1>3. Plainly(w, n)
    BY <1>2 DEF Plainly
  <1>4. ValueOf(OutAnnotations(ing, sslRedirect, LinkTo(ing)), <<"apisix", n>>) = WouldBe(ing, n, x)
    BY OutValue
  <1>5. ValueOf(OutAnnotations(w, sslRedirect, LinkTo(w)), <<"apisix", n>>) = WouldBe(w, n, y)
    BY <1>3, OutValue
  <1>6. Otherwise(w, n) = Otherwise(ing, n)
    <2>1. <<"apisix", n>>[1] = "apisix"
      OBVIOUS
    <2>2. ~IsNginx(<<"apisix", n>>)
      BY <2>1 DEF IsNginx, NginxPrefixes
    <2>3. /\ <<"apisix", n>> \in DOMAIN w.anns <=> <<"apisix", n>> \in DOMAIN ing.anns
          /\ <<"apisix", n>> \in DOMAIN ing.anns => w.anns[<<"apisix", n>>] = ing.anns[<<"apisix", n>>]
      BY <2>2 DEF Variant
    <2>4. w.tls = ing.tls
      BY <1>1 DEF OnlyAnnotated
    <2>5. QED
      BY <2>3, <2>4 DEF Otherwise
  <1>7. OutAnnotations(w, sslRedirect, LinkTo(w)) = OutAnnotations(ing, sslRedirect, LinkTo(ing))
    BY DEF Indistinct
  <1>8. WouldBe(w, n, y) = WouldBe(ing, n, y)
    BY <1>6 DEF WouldBe
  <1>9. QED
    BY <1>4, <1>5, <1>7, <1>8

-----------------------------------------------------------------------------
(* Annotations that are written as APISIX's *)

LEMMA TakenNames == \A r \in Renamed \cup Timeouts : r[2] \notin {"plugin-config-name", "use-regex"}
  BY DEF Renamed, Timeouts

\* One that is taken over as it is says what the Ingress would have without it.
LEMMA RenamedTells ==
    ASSUME NEW ing, NEW r \in Renamed, IsSet(ing.anns, r[1]), Silent(ing, r[1])
    PROVE  Get(ing.anns, r[1]) = Otherwise(ing, r[2])
  <1>1. PICK w : Variant(w, ing, r[1]) /\ Indistinct(w, ing)
    BY DEF Silent
  <1>2. Get(w.anns, r[1]) = ""
    BY <1>1 DEF Variant
  <1>3. Writes(w.anns, r[2], "") /\ Writes(ing.anns, r[2], Get(ing.anns, r[1]))
    BY <1>2, AllWritten
  <1>4. Plainly(ing, r[2])
    <2>1. r[2] # "plugin-config-name" /\ r[2] # "use-regex"
      BY TakenNames
    <2>2. QED
      BY <2>1 DEF Plainly
  <1>5. WouldBe(ing, r[2], "") = WouldBe(ing, r[2], Get(ing.anns, r[1]))
    <2>1. Agree(w, ing, r[2])
      BY <1>1, <1>4, OutApart
    <2>2. QED
      BY <1>3, <2>1 DEF Agree
  <1>6. QED
    BY <1>5 DEF WouldBe, IsSet

LEMMA UnitKept ==
    ASSUME NEW v
    PROVE  WithUnit(v) = "" <=> v = ""
  BY NumeralAssumption DEF WithUnit

LEMMA TimeoutTells ==
    ASSUME NEW ing, NEW r \in Timeouts, IsSet(ing.anns, r[1]), Silent(ing, r[1])
    PROVE  WithUnit(Get(ing.anns, r[1])) = Otherwise(ing, r[2])
  <1>1. PICK w : Variant(w, ing, r[1]) /\ Indistinct(w, ing)
    BY DEF Silent
  <1>2. WithUnit(Get(w.anns, r[1])) = "" /\ WithUnit(Get(ing.anns, r[1])) # ""
    BY <1>1, UnitKept DEF Variant, IsSet
  <1>3. Writes(w.anns, r[2], "") /\ Writes(ing.anns, r[2], WithUnit(Get(ing.anns, r[1])))
    BY <1>2, AllWritten
  <1>4. Plainly(ing, r[2])
    <2>1. r[2] # "plugin-config-name" /\ r[2] # "use-regex"
      BY TakenNames
    <2>2. QED
      BY <2>1 DEF Plainly
  <1>5. WouldBe(ing, r[2], "") = WouldBe(ing, r[2], WithUnit(Get(ing.anns, r[1])))
    <2>1. Agree(w, ing, r[2])
      BY <1>1, <1>4, OutApart
    <2>2. QED
      BY <1>3, <2>1 DEF Agree
  <1>6. QED
    BY <1>2, <1>5 DEF WouldBe

\* The same of those that are computed.
SameComputed(b, a, ing) ==
    /\ WouldBe(ing, "http-to-https", HttpToHttps(b)) = WouldBe(ing, "http-to-https", HttpToHttps(a))
    /\ WouldBe(ing, "http-redirect", HttpRedirect(b)) = WouldBe(ing, "http-redirect", HttpRedirect(a))
    /\ WouldBe(ing, "http-redirect-code", HttpRedirectCode(b))
          = WouldBe(ing, "http-redirect-code", HttpRedirectCode(a))
    /\ WouldBe(ing, "auth-type", AuthType(b)) = WouldBe(ing, "auth-type", AuthType(a))
    /\ WouldBe(ing, "enable-access-log", AccessLog(b)) = WouldBe(ing, "enable-access-log", AccessLog(a))

LEMMA ComputedApart ==
    ASSUME NEW w, NEW ing, NEW s, NEW a, NEW b, a = ing.anns, b = w.anns,
           Variant(w, ing, s), Indistinct(w, ing)
    PROVE  SameComputed(b, a, ing)
  <1>1. /\ Plainly(ing, "http-to-https") /\ Plainly(ing, "http-redirect")
        /\ Plainly(ing, "http-redirect-code") /\ Plainly(ing, "enable-access-log")
        /\ Plainly(ing, "auth-type")
    BY DEF Plainly
  <1>2. /\ Writes(a, "http-to-https", HttpToHttps(a)) /\ Writes(b, "http-to-https", HttpToHttps(b))
        /\ Writes(a, "http-redirect", HttpRedirect(a)) /\ Writes(b, "http-redirect", HttpRedirect(b))
        /\ Writes(a, "http-redirect-code", HttpRedirectCode(a))
        /\ Writes(b, "http-redirect-code", HttpRedirectCode(b))
        /\ Writes(a, "auth-type", AuthType(a)) /\ Writes(b, "auth-type", AuthType(b))
        /\ Writes(a, "enable-access-log", AccessLog(a)) /\ Writes(b, "enable-access-log", AccessLog(b))
    BY AllWritten
  <1>3. /\ Agree(w, ing, "http-to-https") /\ Agree(w, ing, "http-redirect")
        /\ Agree(w, ing, "http-redirect-code") /\ Agree(w, ing, "enable-access-log")
        /\ Agree(w, ing, "auth-type")
    BY <1>1, OutApart
  <1>4. QED
    BY <1>2, <1>3 DEF Agree, SameComputed

\* What an Ingress without s says, and what has to be the same of what is made of it.
Reads(b, a, s) ==
    /\ \A t : t # s => /\ Get(b, t) = Get(a, t)
                       /\ IsSet(b, t) <=> IsSet(a, t)
                       /\ Has(b, t) <=> Has(a, t)
    /\ Get(b, s) = ""
    /\ ~IsSet(b, s)
    /\ ~Has(b, s)
Echo(w, b, a, ing, s) ==
    /\ Reads(b, a, s)
    /\ SameBuilders(b, a, w, ing)
    /\ SameComputed(b, a, ing)
    /\ Lost(b) = Lost(a)
    /\ Noted(b, Services(ing)) = Noted(a, Services(ing))
    /\ Policies(w) = Policies(ing)
    /\ Upstreams(w) = Upstreams(ing)
    /\ b = w.anns
    /\ OnlyAnnotated(w, ing)

LEMMA Echoes ==
    ASSUME NEW ing, NEW a, a = ing.anns, NEW s, Silent(ing, s)
    PROVE  \E w, b : Echo(w, b, a, ing, s)
  <1>1. PICK w : Variant(w, ing, s) /\ Indistinct(w, ing)
    BY DEF Silent
  <1>2. PICK b : b = w.anns
    OBVIOUS
  <1>3. Reads(b, a, s) /\ OnlyAnnotated(w, ing)
    BY <1>1, <1>2 DEF Variant, Reads, IsSet
  <1>4. SameComputed(b, a, ing)
    <2>1. SameComputed(w.anns, ing.anns, ing)
      BY <1>1, ComputedApart
    <2>2. QED
      BY <1>2, <2>1
  <1>5. /\ SameBuilders(b, a, w, ing)
        /\ Lost(b) = Lost(a) /\ Noted(b, Services(ing)) = Noted(a, Services(ing))
        /\ Policies(w) = Policies(ing) /\ Upstreams(w) = Upstreams(ing)
    BY <1>1, <1>2 DEF Indistinct
  <1>6. QED
    BY <1>2, <1>3, <1>4, <1>5 DEF Echo

LEMMA SwitchApart ==
    ASSUME NEW w, NEW ing, NEW s, Variant(w, ing, s), Indistinct(w, ing)
    PROVE  /\ IsSet(ing.anns, "websocket-services") /\ ~IsSet(w.anns, "websocket-services")
                 => Otherwise(ing, "enable-websocket") = "true"
           /\ ~NeedsRegex(ing) =>
                 WouldBe(ing, "use-regex", IF Get(w.anns, "use-regex") = "true" THEN "true" ELSE "")
                    = WouldBe(ing, "use-regex", IF Get(ing.anns, "use-regex") = "true" THEN "true" ELSE "")
  <1>1. ASSUME IsSet(ing.anns, "websocket-services"), ~IsSet(w.anns, "websocket-services")
        PROVE  Otherwise(ing, "enable-websocket") = "true"
    <2>1. Writes(w.anns, "enable-websocket", "") /\ Writes(ing.anns, "enable-websocket", "true")
      BY <1>1, AllWritten
    <2>2. Plainly(ing, "enable-websocket")
      BY DEF Plainly
    <2>3. WouldBe(ing, "enable-websocket", "") = WouldBe(ing, "enable-websocket", "true")
      <3>1. Agree(w, ing, "enable-websocket")
        BY <2>2, OutApart
      <3>2. QED
        BY <2>1, <3>1 DEF Agree
    <2>4. QED
      BY <2>3 DEF WouldBe
  <1>2. ASSUME ~NeedsRegex(ing)
        PROVE  WouldBe(ing, "use-regex", IF Get(w.anns, "use-regex") = "true" THEN "true" ELSE "")
                  = WouldBe(ing, "use-regex", IF Get(ing.anns, "use-regex") = "true" THEN "true" ELSE "")
    <2>1. PICK y : y = IF Get(w.anns, "use-regex") = "true" THEN "true" ELSE ""
      OBVIOUS
    <2>2. PICK x : x = IF Get(ing.anns, "use-regex") = "true" THEN "true" ELSE ""
      OBVIOUS
    <2>3. Writes(w.anns, "use-regex", y) /\ Writes(ing.anns, "use-regex", x)
      BY <2>1, <2>2, AllWritten
    <2>4. Plainly(ing, "use-regex")
      BY <1>2 DEF Plainly
    <2>5. Agree(w, ing, "use-regex")
      BY <2>4, OutApart
    <2>6. WouldBe(ing, "use-regex", y) = WouldBe(ing, "use-regex", x)
      BY <2>3, <2>5 DEF Agree
    <2>7. QED
      BY <2>1, <2>2, <2>6, Zenon
  <1>3. QED
    BY <1>1, <1>2

LEMMA SetIsThere ==
    ASSUME NEW a, NEW s, IsSet(a, s)
    PROVE  Has(a, s)
  BY DEF IsSet, Get, ValueOf, Has, NginxPrefixes

LEMMA RedirectTells ==
    ASSUME NEW ing, NEW a, a = ing.anns
    PROVE  /\ Silent(ing, "app-root") /\ IsSet(a, "app-root") => Get(a, "app-root") = Landing(ing)
           /\ \A s \in {"temporal-redirect", "permanent-redirect"} :
                 /\ Silent(ing, s) /\ IsSet(a, s)
                 /\ \A t \in {"app-root", "temporal-redirect", "permanent-redirect"} \ {s} : ~IsSet(a, t)
                 => /\ Get(a, s) = Otherwise(ing, "http-redirect")
                    /\ HttpRedirectCode(a) = Otherwise(ing, "http-redirect-code")
  <1>1. ASSUME Silent(ing, "app-root"), IsSet(a, "app-root")
        PROVE  Get(a, "app-root") = Landing(ing)
    <2>1. PICK w, b : Echo(w, b, a, ing, "app-root")
      BY <1>1, Echoes
    <2>2. WouldBe(ing, "http-redirect", HttpRedirect(b)) = WouldBe(ing, "http-redirect", HttpRedirect(a))
      BY <2>1 DEF Echo, SameComputed
    <2>3. /\ ~IsSet(b, "app-root")
          /\ IsSet(b, "temporal-redirect") <=> IsSet(a, "temporal-redirect")
          /\ Get(b, "temporal-redirect") = Get(a, "temporal-redirect")
          /\ Get(b, "permanent-redirect") = Get(a, "permanent-redirect")
      BY <2>1 DEF Echo, Reads
    <2>4. HttpRedirect(b) = IF IsSet(a, "temporal-redirect") THEN Get(a, "temporal-redirect")
                            ELSE Get(a, "permanent-redirect")
      BY <2>3 DEF HttpRedirect
    <2>5. WouldBe(ing, "http-redirect", HttpRedirect(b)) = Landing(ing)
      BY <2>4 DEF WouldBe, Landing, IsSet
    <2>6. HttpRedirect(a) = Get(a, "app-root")
      BY <1>1 DEF HttpRedirect
    <2>7. QED
      BY <1>1, <2>2, <2>5, <2>6 DEF WouldBe, IsSet
  <1>2. ASSUME NEW s \in {"temporal-redirect", "permanent-redirect"}, Silent(ing, s), IsSet(a, s),
               \A t \in {"app-root", "temporal-redirect", "permanent-redirect"} \ {s} : ~IsSet(a, t)
        PROVE  /\ Get(a, s) = Otherwise(ing, "http-redirect")
               /\ HttpRedirectCode(a) = Otherwise(ing, "http-redirect-code")
    <2>1. PICK w, b : Echo(w, b, a, ing, s)
      BY <1>2, Echoes
    <2>2. /\ WouldBe(ing, "http-redirect", HttpRedirect(b)) = WouldBe(ing, "http-redirect", HttpRedirect(a))
          /\ WouldBe(ing, "http-redirect-code", HttpRedirectCode(b))
                = WouldBe(ing, "http-redirect-code", HttpRedirectCode(a))
      BY <2>1 DEF Echo, SameComputed
    <2>3. \A t \in {"app-root", "temporal-redirect", "permanent-redirect"} : ~IsSet(b, t)
      BY <1>2, <2>1 DEF Echo, Reads
    <2>4. HttpRedirect(b) = "" /\ HttpRedirectCode(b) = ""
      BY <2>3 DEF HttpRedirect, HttpRedirectCode, IsSet
    <2>5. HttpRedirect(a) = Get(a, s) /\ HttpRedirectCode(a) # ""
      BY <1>2 DEF HttpRedirect, HttpRedirectCode
    <2>6. QED
      BY <1>2, <2>2, <2>4, <2>5 DEF WouldBe, IsSet
  <1>3. QED
    BY <1>1, <1>2

LEMMA SslRedirectTells ==
    ASSUME NEW ing, NEW a, a = ing.anns, Silent(ing, "ssl-redirect"), IsSet(a, "ssl-redirect"),
           ~IsSSLRedirect(a), ~Has(a, "force-ssl-redirect")
    PROVE  Get(a, "ssl-redirect") = Otherwise(ing, "http-to-https")
  <1>1. PICK w, b : Echo(w, b, a, ing, "ssl-redirect")
    BY Echoes
  <1>2. WouldBe(ing, "http-to-https", HttpToHttps(b)) = WouldBe(ing, "http-to-https", HttpToHttps(a))
    BY <1>1 DEF Echo, SameComputed
  <1>3. /\ Get(b, "proxy-redirect-from") = Get(a, "proxy-redirect-from")
        /\ Get(b, "proxy-redirect-to") = Get(a, "proxy-redirect-to")
        /\ ~Has(b, "force-ssl-redirect") /\ Get(b, "ssl-redirect") = ""
    BY <1>1 DEF Echo, Reads
  <1>4. HttpToHttps(b) = "" /\ HttpToHttps(a) = Get(a, "ssl-redirect")
    BY <1>3 DEF HttpToHttps, IsSSLRedirect
  <1>5. QED
    BY <1>2, <1>4 DEF WouldBe, IsSet

LEMMA ForceTells ==
    ASSUME NEW ing, NEW a, a = ing.anns, Silent(ing, "force-ssl-redirect"),
           IsSet(a, "force-ssl-redirect"), ~IsSSLRedirect(a), ~SaysHttps(ing)
    PROVE  FALSE
  <1>1. PICK w, b : Echo(w, b, a, ing, "force-ssl-redirect")
    BY Echoes
  <1>2. WouldBe(ing, "http-to-https", HttpToHttps(b)) = WouldBe(ing, "http-to-https", HttpToHttps(a))
    BY <1>1 DEF Echo, SameComputed
  <1>3. /\ Get(b, "proxy-redirect-from") = Get(a, "proxy-redirect-from")
        /\ Get(b, "proxy-redirect-to") = Get(a, "proxy-redirect-to")
        /\ ~Has(b, "force-ssl-redirect") /\ Get(b, "ssl-redirect") = Get(a, "ssl-redirect")
    BY <1>1 DEF Echo, Reads
  <1>4. HttpToHttps(b) = Get(a, "ssl-redirect")
    BY <1>3 DEF HttpToHttps, IsSSLRedirect
  <1>5. HttpToHttps(a) = "true"
    BY SetIsThere DEF HttpToHttps
  <1>6. QED
    BY <1>2, <1>4, <1>5 DEF WouldBe, IsSet, SaysHttps

LEMMA CodeTells ==
    ASSUME NEW ing, NEW a, a = ing.anns
    PROVE  /\ ~(/\ Silent(ing, "temporal-redirect") /\ IsSet(a, "temporal-redirect")
                /\ IsSet(a, "permanent-redirect") \/ Otherwise(ing, "http-redirect-code") # "302")
           /\ ~(/\ Silent(ing, "permanent-redirect") /\ IsSet(a, "permanent-redirect")
                /\ ~IsSet(a, "temporal-redirect") /\ Otherwise(ing, "http-redirect-code") # "308")
  <1>1. ASSUME NEW s, Silent(ing, s)
        PROVE  \E b : /\ \A t : t # s => (IsSet(b, t) <=> IsSet(a, t))
                      /\ ~IsSet(b, s)
                      /\ WouldBe(ing, "http-redirect-code", HttpRedirectCode(b))
                            = WouldBe(ing, "http-redirect-code", HttpRedirectCode(a))
    <2>1. PICK w, b : Echo(w, b, a, ing, s)
      BY <1>1, Echoes
    <2>2. QED
      BY <2>1 DEF Echo, Reads, SameComputed
  <1>2. ASSUME Silent(ing, "temporal-redirect"), IsSet(a, "temporal-redirect")
        PROVE  ~IsSet(a, "permanent-redirect") /\ Otherwise(ing, "http-redirect-code") = "302"
    <2>1. PICK b : /\ IsSet(b, "permanent-redirect") <=> IsSet(a, "permanent-redirect")
                   /\ ~IsSet(b, "temporal-redirect")
                   /\ WouldBe(ing, "http-redirect-code", HttpRedirectCode(b))
                         = WouldBe(ing, "http-redirect-code", HttpRedirectCode(a))
      BY <1>1, <1>2
    <2>2. HttpRedirectCode(a) = "302"
      BY <1>2 DEF HttpRedirectCode
    <2>3. HttpRedirectCode(b) = IF IsSet(a, "permanent-redirect") THEN "308" ELSE ""
      BY <2>1 DEF HttpRedirectCode
    <2>4. QED
      BY <2>1, <2>2, <2>3 DEF WouldBe
  <1>3. ASSUME Silent(ing, "permanent-redirect"), IsSet(a, "permanent-redirect"),
               ~IsSet(a, "temporal-redirect")
        PROVE  Otherwise(ing, "http-redirect-code") = "308"
    <2>1. PICK b : /\ IsSet(b, "temporal-redirect") <=> IsSet(a, "temporal-redirect")
                   /\ ~IsSet(b, "permanent-redirect")
                   /\ WouldBe(ing, "http-redirect-code", HttpRedirectCode(b))
                         = WouldBe(ing, "http-redirect-code", HttpRedirectCode(a))
      BY <1>1, <1>3
    <2>2. HttpRedirectCode(a) = "308" /\ HttpRedirectCode(b) = ""
      BY <1>3, <2>1 DEF HttpRedirectCode
    <2>3. QED
      BY <2>1, <2>2 DEF WouldBe
  <1>4. QED
    BY <1>2, <1>3

LEMMA AccessLogTells ==
    ASSUME NEW ing, NEW a, a = ing.anns, Silent(ing, "enable-access-log"), IsSet(a, "enable-access-log")
    PROVE  AccessLog(a) = Otherwise(ing, "enable-access-log")
  <1>1. PICK w, b : Echo(w, b, a, ing, "enable-access-log")
    BY Echoes
  <1>2. WouldBe(ing, "enable-access-log", AccessLog(b)) = WouldBe(ing, "enable-access-log", AccessLog(a))
    BY <1>1 DEF Echo, SameComputed
  <1>3. AccessLog(b) = "" /\ AccessLog(a) # ""
    BY <1>1 DEF Echo, Reads, AccessLog
  <1>4. QED
    BY <1>2, <1>3 DEF WouldBe

LEMMA EmptyApart ==
    ASSUME NEW e, e = ""
    PROVE  e # "digest" /\ e # "true" /\ e # "false" /\ e # "off" /\ e # "cookie"
           /\ e # "basic" /\ e # "http" /\ e # "http://" /\ e # "https" /\ e # "https://"
  BY Zenon

LEMMA SwitchTells ==
    ASSUME NEW ing
    PROVE  /\ ~(/\ Silent(ing, "websocket-services") /\ IsSet(ing.anns, "websocket-services")
                /\ Otherwise(ing, "enable-websocket") # "true")
           /\ ~(/\ Silent(ing, "use-regex") /\ Get(ing.anns, "use-regex") = "true"
                /\ ~NeedsRegex(ing) /\ Otherwise(ing, "use-regex") # "true")
  <1>1. ASSUME Silent(ing, "websocket-services"), IsSet(ing.anns, "websocket-services")
        PROVE  Otherwise(ing, "enable-websocket") = "true"
    <2>1. PICK w : Variant(w, ing, "websocket-services") /\ Indistinct(w, ing)
      BY <1>1 DEF Silent
    <2>2. ~IsSet(w.anns, "websocket-services")
      BY <2>1 DEF Variant, IsSet
    <2>3. QED
      BY <1>1, <2>1, <2>2, SwitchApart
  <1>2. ASSUME Silent(ing, "use-regex"), Get(ing.anns, "use-regex") = "true", ~NeedsRegex(ing)
        PROVE  Otherwise(ing, "use-regex") = "true"
    <2>1. PICK w : Variant(w, ing, "use-regex") /\ Indistinct(w, ing)
      BY <1>2 DEF Silent
    <2>2. Get(w.anns, "use-regex") # "true"
      BY <2>1, EmptyApart DEF Variant
    <2>3. WouldBe(ing, "use-regex", "") = WouldBe(ing, "use-regex", "true")
      BY <1>2, <2>1, <2>2, SwitchApart
    <2>4. QED
      BY <2>3 DEF WouldBe
  <1>3. QED
    BY <1>1, <1>2

-----------------------------------------------------------------------------
(* What is noted *)

LEMMA NotedIs ==
    ASSUME NEW a, NEW S
    PROVE  /\ "auth-type" \in Noted(a, S) <=> Get(a, "auth-type") = "digest"
           /\ "limit-rps" \in Noted(a, S) <=> Unparsed(a, "limit-rps") \/ ParsedLimits(a) = Limits
           /\ "limit-rpm" \in Noted(a, S) <=> Unparsed(a, "limit-rpm") \/ ParsedLimits(a) = Limits
           /\ "proxy-body-size" \in Noted(a, S) <=> Get(a, "proxy-body-size") \notin DOMAIN BodySize \cup {""}
           /\ "proxy-redirect-from" \in Noted(a, S) <=>
                 IsSet(a, "proxy-redirect-from") /\ IsSet(a, "proxy-redirect-to") /\ ~IsSSLRedirect(a)
           /\ "proxy-cookie-path" \in Noted(a, S) <=> Get(a, "proxy-cookie-path") = "unparsable"
           /\ "session-cookie-hash" \in Noted(a, S) <=>
                 HashIsDefault(a) \/ (Hash(a) # "" /\ ~HashIsSupported(a))
           /\ "session-cookie-name" \in Noted(a, S) <=>
                 /\ HashIsSupported(a) \/ (CookieAffinity(a) /\ S # {})
                 /\ ~Has(a, "session-cookie-name")
           /\ "session-cookie-conditional-samesite-none" \in Noted(a, S) <=>
                 HashIsSupported(a) /\ IsSet(a, "session-cookie-conditional-samesite-none")
           /\ "compute-full-forwarded-for" \in Noted(a, S) <=>
                 RealIPIsOn(a) /\ Get(a, "compute-full-forwarded-for") = "true"
           /\ "enable-real-ip" \in Noted(a, S) <=> RealIPIsOn(a) /\ ~IsSet(a, "enable-real-ip")
           /\ "ssl-verify" \in Noted(a, S) <=> IsSet(a, "ssl-verify")
           /\ "affinity" \in Noted(a, S) <=> CookieAffinity(a) /\ S = {}
           /\ "upstream-hash-by" \in Noted(a, S) <=> IsSet(a, "upstream-hash-by") /\ S = {}
           /\ "configuration-snippet" \in Noted(a, S) <=> SnippetOf(a).errors
           /\ "health-check-path" \in Noted(a, S) <=> HealthChecked(a) /\ ~IsSet(a, "health-check-path")
  <1>1. "auth-type" \in Noted(a, S) <=> Get(a, "auth-type") = "digest"
    BY DEF Noted, If, Limits, KeepAlive
  <1> DEFINE rates == {l[1] : l \in {m \in Limits : Unparsed(a, m[1])}}
  <1>a. /\ "limit-rps" \in rates <=> Unparsed(a, "limit-rps")
        /\ "limit-rpm" \in rates <=> Unparsed(a, "limit-rpm")
        /\ \A t : t \in rates => t \in {"limit-rps", "limit-rpm"}
    <2>1. \A t : t \in rates <=> \E m \in Limits : Unparsed(a, m[1]) /\ t = m[1]
      OBVIOUS
    <2>2. PICK e, f : e = <<"limit-rps", 60>> /\ f = <<"limit-rpm", 1>>
      OBVIOUS
    <2>3. Limits = {e, f} /\ e[1] = "limit-rps" /\ f[1] = "limit-rpm"
      BY <2>2 DEF Limits
    <2>4. \A t : t \in rates <=> (Unparsed(a, "limit-rps") /\ t = "limit-rps")
                                \/ (Unparsed(a, "limit-rpm") /\ t = "limit-rpm")
      <3> HIDE DEF rates
      <3>1. QED
        BY <2>1, <2>3
    <2> HIDE DEF rates
    <2>5. QED
      BY <2>4
  <1>2. "limit-rps" \in Noted(a, S) <=> Unparsed(a, "limit-rps") \/ ParsedLimits(a) = Limits
    BY <1>a DEF Noted, If, KeepAlive
  <1>3. "limit-rpm" \in Noted(a, S) <=> Unparsed(a, "limit-rpm") \/ ParsedLimits(a) = Limits
    BY <1>a DEF Noted, If, KeepAlive
  <1>4. "proxy-body-size" \in Noted(a, S) <=> Get(a, "proxy-body-size") \notin DOMAIN BodySize \cup {""}
    <2>1. CASE Get(a, "proxy-body-size") \in DOMAIN BodySize \cup {""}
      <3>1. "proxy-body-size" \notin rates
        BY <1>a
      <3>2. QED
        BY <2>1, <3>1, ZenonT(60) DEF Noted, If, KeepAlive
    <2>2. CASE Get(a, "proxy-body-size") \notin DOMAIN BodySize \cup {""}
      BY <2>2, Zenon DEF Noted, If
    <2>3. QED
      BY <2>1, <2>2
  <1>5. "proxy-redirect-from" \in Noted(a, S) <=>
           IsSet(a, "proxy-redirect-from") /\ IsSet(a, "proxy-redirect-to") /\ ~IsSSLRedirect(a)
    BY DEF Noted, If, Limits, KeepAlive
  <1>6. "proxy-cookie-path" \in Noted(a, S) <=> Get(a, "proxy-cookie-path") = "unparsable"
    BY DEF Noted, If, Limits, KeepAlive
  <1>7. "session-cookie-hash" \in Noted(a, S) <=>
           HashIsDefault(a) \/ (Hash(a) # "" /\ ~HashIsSupported(a))
    <2>1. CASE HashIsDefault(a) \/ (Hash(a) # "" /\ ~HashIsSupported(a))
      BY <2>1, Zenon DEF Noted, If
    <2>2. CASE ~HashIsDefault(a) /\ Hash(a) = ""
      <3>1. "session-cookie-hash" \notin rates
        BY <1>a
      <3>2. QED
        BY <2>2, <3>1, ZenonT(60) DEF Noted, If, KeepAlive
    <2>3. CASE ~HashIsDefault(a) /\ HashIsSupported(a)
      BY <2>3 DEF Noted, If, Limits, KeepAlive
    <2>4. QED
      BY <2>1, <2>2, <2>3
  <1>8. "session-cookie-name" \in Noted(a, S) <=>
           /\ HashIsSupported(a) \/ (CookieAffinity(a) /\ S # {})
           /\ ~Has(a, "session-cookie-name")
    BY DEF Noted, If, Limits, KeepAlive
  <1>9. "session-cookie-conditional-samesite-none" \in Noted(a, S) <=>
           HashIsSupported(a) /\ IsSet(a, "session-cookie-conditional-samesite-none")
    BY DEF Noted, If, Limits, KeepAlive
  <1>10. "compute-full-forwarded-for" \in Noted(a, S) <=>
           RealIPIsOn(a) /\ Get(a, "compute-full-forwarded-for") = "true"
    BY DEF Noted, If, Limits, KeepAlive
  <1>11. "enable-real-ip" \in Noted(a, S) <=> RealIPIsOn(a) /\ ~IsSet(a, "enable-real-ip")
    BY DEF Noted, If, Limits, KeepAlive
  <1>12. "ssl-verify" \in Noted(a, S) <=> IsSet(a, "ssl-verify")
    BY DEF Noted, If, Limits, KeepAlive
  <1>13. "affinity" \in Noted(a, S) <=> CookieAffinity(a) /\ S = {}
    BY DEF Noted, If, Limits, KeepAlive
  <1>14. "upstream-hash-by" \in Noted(a, S) <=> IsSet(a, "upstream-hash-by") /\ S = {}
    BY DEF Noted, If, Limits, KeepAlive
  <1>15. "configuration-snippet" \in Noted(a, S) <=> SnippetOf(a).errors
    BY DEF Noted, If, Limits, KeepAlive
  <1>16. "health-check-path" \in Noted(a, S) <=> HealthChecked(a) /\ ~IsSet(a, "health-check-path")
    BY DEF Noted, If, Limits, KeepAlive
  <1>17. QED
    BY <1>1, <1>2, <1>3, <1>4, <1>5, <1>6, <1>7, <1>8, <1>9, <1>10, <1>11, <1>12, <1>13, <1>14, <1>15, <1>16

LEMMA AuthTypeTells ==
    ASSUME NEW ing, NEW a, a = ing.anns, Silent(ing, "auth-type"), IsSet(a, "auth-type")
    PROVE  Get(a, "auth-type") # "digest" /\ AuthType(a) = Otherwise(ing, "auth-type")
  <1>1. PICK w, b : Echo(w, b, a, ing, "auth-type")
    BY Echoes
  <1>2. Get(b, "auth-type") = "" /\ Get(b, "auth-type") # "digest" /\ Get(b, "auth-type") # "basic"
    BY <1>1, EmptyApart DEF Echo, Reads
  <1>3. Get(a, "auth-type") # "digest"
    <2>1. "auth-type" \notin Noted(b, Services(ing))
      BY <1>2, NotedIs
    <2>2. "auth-type" \notin Noted(a, Services(ing))
      BY <1>1, <2>1 DEF Echo
    <2>3. QED
      BY <2>2, NotedIs
  <1>4. AuthType(b) = ""
    BY <1>2 DEF AuthType
  <1>5. AuthType(a) # ""
    BY <1>3 DEF AuthType, IsSet
  <1>6. WouldBe(ing, "auth-type", AuthType(b)) = WouldBe(ing, "auth-type", AuthType(a))
    BY <1>1 DEF Echo, SameComputed
  <1>7. QED
    BY <1>3, <1>4, <1>5, <1>6 DEF WouldBe

LEMMA ProxyRedirectTells ==
    ASSUME NEW ing, NEW a, a = ing.anns, NEW s \in {"proxy-redirect-from", "proxy-redirect-to"},
           Silent(ing, s), IsSet(a, "proxy-redirect-from"), IsSet(a, "proxy-redirect-to")
    PROVE  IsSSLRedirect(a) /\ (Has(a, "force-ssl-redirect") \/ SaysHttps(ing))
  <1>1. PICK w, b : Echo(w, b, a, ing, s)
    BY Echoes
  <1>2. IsSSLRedirect(a)
    <2>1. ~(IsSet(b, "proxy-redirect-from") /\ IsSet(b, "proxy-redirect-to"))
      BY <1>1 DEF Echo, Reads
    <2>2. "proxy-redirect-from" \notin Noted(b, Services(ing))
      BY <2>1, NotedIs
    <2>3. "proxy-redirect-from" \notin Noted(a, Services(ing))
      BY <1>1, <2>2 DEF Echo
    <2>4. QED
      BY <2>3, NotedIs
  <1>3. ASSUME ~Has(a, "force-ssl-redirect")
        PROVE  SaysHttps(ing)
    <2>1. Get(b, s) \notin {"http://", "http", "https://", "https"}
      BY <1>1, EmptyApart DEF Echo, Reads
    <2>2. ~IsSSLRedirect(b)
      BY <2>1 DEF IsSSLRedirect
    <2>3. ~Has(b, "force-ssl-redirect") /\ Get(b, "ssl-redirect") = Get(a, "ssl-redirect")
      BY <1>1, <1>3 DEF Echo, Reads
    <2>4. HttpToHttps(b) = Get(a, "ssl-redirect") /\ HttpToHttps(a) = "true"
      BY <1>2, <2>2, <2>3 DEF HttpToHttps
    <2>5. WouldBe(ing, "http-to-https", HttpToHttps(b)) = WouldBe(ing, "http-to-https", HttpToHttps(a))
      BY <1>1 DEF Echo, SameComputed
    <2>6. QED
      BY <2>4, <2>5 DEF WouldBe, SaysHttps, IsSet
  <1>4. QED
    BY <1>2, <1>3

\* Those that are noted whenever they are there, and what asks for them is.
LEMMA PresenceTells ==
    ASSUME NEW ing, NEW a, a = ing.anns
    PROVE  /\ ~(Silent(ing, "ssl-verify") /\ IsSet(a, "ssl-verify"))
           /\ ~(/\ Silent(ing, "session-cookie-conditional-samesite-none")
                /\ IsSet(a, "session-cookie-conditional-samesite-none") /\ HashIsSupported(a))
  <1>1. ASSUME Silent(ing, "ssl-verify")
        PROVE  ~IsSet(a, "ssl-verify")
    <2>1. PICK w, b : Echo(w, b, a, ing, "ssl-verify")
      BY <1>1, Echoes
    <2>2. ~IsSet(b, "ssl-verify") /\ Noted(b, Services(ing)) = Noted(a, Services(ing))
      BY <2>1 DEF Echo, Reads
    <2>3. QED
      BY <2>2, NotedIs
  <1>2. ASSUME Silent(ing, "session-cookie-conditional-samesite-none"), HashIsSupported(a)
        PROVE  ~IsSet(a, "session-cookie-conditional-samesite-none")
    <2>1. PICK w, b : Echo(w, b, a, ing, "session-cookie-conditional-samesite-none")
      BY <1>2, Echoes
    <2>2. /\ ~IsSet(b, "session-cookie-conditional-samesite-none")
          /\ Noted(b, Services(ing)) = Noted(a, Services(ing))
      BY <2>1 DEF Echo, Reads
    <2>3. "session-cookie-conditional-samesite-none" \notin Noted(b, Services(ing))
      BY <2>2, NotedIs
    <2>4. QED
      BY <1>2, <2>2, <2>3, NotedIs
  <1>3. QED
    BY <1>1, <1>2

LEMMA FullForwardedTells ==
    ASSUME NEW ing, NEW a, a = ing.anns, RealIPIsOn(a), Silent(ing, "compute-full-forwarded-for")
    PROVE  Get(a, "compute-full-forwarded-for") # "true"
  <1>1. PICK w, b : Echo(w, b, a, ing, "compute-full-forwarded-for")
    BY Echoes
  <1>2. Get(b, "compute-full-forwarded-for") # "true"
    BY <1>1, EmptyApart DEF Echo, Reads
  <1>3. "compute-full-forwarded-for" \notin Noted(b, Services(ing))
    BY <1>2, NotedIs
  <1>4. "compute-full-forwarded-for" \notin Noted(a, Services(ing))
    BY <1>1, <1>3 DEF Echo
  <1>5. QED
    BY <1>4, NotedIs

-----------------------------------------------------------------------------
(* One builder, one annotation *)

\* Those whose builder makes a plugin whenever they are there.
LEMMA BuiltTells ==
    ASSUME NEW ing, NEW a, a = ing.anns
    PROVE  /\ ~(Silent(ing, "limit-connections") /\ IsSet(a, "limit-connections"))
           /\ ~(Silent(ing, "upstream-vhost") /\ IsSet(a, "upstream-vhost"))
           /\ ~(Silent(ing, "enable-cors") /\ IsSet(a, "enable-cors"))
  <1>1. ASSUME Silent(ing, "limit-connections")
        PROVE  ~IsSet(a, "limit-connections")
    <2>1. PICK w, b : Echo(w, b, a, ing, "limit-connections")
      BY <1>1, Echoes
    <2>2. ~IsSet(b, "limit-connections") /\ LimitConn(b) = LimitConn(a)
      BY <2>1 DEF Echo, Reads, SameBuilders
    <2>3. QED
      BY <2>2 DEF LimitConn, When
  <1>2. ASSUME Silent(ing, "upstream-vhost")
        PROVE  ~IsSet(a, "upstream-vhost")
    <2>1. PICK w, b : Echo(w, b, a, ing, "upstream-vhost")
      BY <1>2, Echoes
    <2>2. ~IsSet(b, "upstream-vhost") /\ UpstreamVhost(b) = UpstreamVhost(a)
      BY <2>1 DEF Echo, Reads, SameBuilders
    <2>3. QED
      BY <2>2 DEF UpstreamVhost, When
  <1>3. ASSUME Silent(ing, "enable-cors")
        PROVE  ~IsSet(a, "enable-cors")
    <2>1. PICK w, b : Echo(w, b, a, ing, "enable-cors")
      BY <1>3, Echoes
    <2>2. ~IsSet(b, "enable-cors") /\ Cors(b) = Cors(a)
      BY <2>1 DEF Echo, Reads, SameBuilders
    <2>3. QED
      BY <2>2 DEF Cors, CorsIsOn, When
  <1>4. QED
    BY <1>1, <1>2, <1>3

LEMMA BodySizeTells ==
    ASSUME NEW ing, Silent(ing, "proxy-body-size"), IsSet(ing.anns, "proxy-body-size")
    PROVE  FALSE
  <1>1. PICK a : a = ing.anns
    OBVIOUS
  <1>2. PICK w, b : Echo(w, b, a, ing, "proxy-body-size")
    BY <1>1, Echoes
  <1>3. Get(b, "proxy-body-size") = "" /\ Get(a, "proxy-body-size") # ""
    BY <1>1, <1>2 DEF Echo, Reads, IsSet
  <1>4. CASE Get(a, "proxy-body-size") \in DOMAIN BodySize
    <2>1. ClientControl(a) # <<>>
      BY <1>4 DEF ClientControl, When
    <2>2. ClientControl(b) = <<>>
      BY <1>3, NumeralAssumption DEF ClientControl, When
    <2>3. QED
      BY <1>2, <2>1, <2>2 DEF Echo, SameBuilders
  <1>5. CASE Get(a, "proxy-body-size") \notin DOMAIN BodySize
    <2>1. "proxy-body-size" \in Noted(a, Services(ing))
      BY <1>3, <1>5, NotedIs
    <2>2. "proxy-body-size" \notin Noted(b, Services(ing))
      BY <1>3, NotedIs
    <2>3. QED
      BY <1>2, <2>1, <2>2 DEF Echo
  <1>6. QED
    BY <1>4, <1>5

LEMMA BufferingTells ==
    ASSUME NEW ing, NEW a, a = ing.anns, Silent(ing, "proxy-request-buffering")
    PROVE  Get(a, "proxy-request-buffering") \notin {"off", "false"}
  <1>1. PICK w, b : Echo(w, b, a, ing, "proxy-request-buffering")
    BY Echoes
  <1>2. Get(b, "proxy-request-buffering") \notin {"off", "false"}
    BY <1>1, EmptyApart DEF Echo, Reads
  <1>3. ProxyControl(b) = <<>> /\ ProxyControl(b) = ProxyControl(a)
    BY <1>1, <1>2 DEF Echo, SameBuilders, ProxyControl, When
  <1>4. QED
    BY <1>3 DEF ProxyControl, When

LEMMA CookiePathTells ==
    ASSUME NEW ing, Silent(ing, "proxy-cookie-path"), IsSet(ing.anns, "proxy-cookie-path")
    PROVE  FALSE
  <1>1. PICK a : a = ing.anns
    OBVIOUS
  <1>2. PICK w, b : Echo(w, b, a, ing, "proxy-cookie-path")
    BY <1>1, Echoes
  <1>3. Get(b, "proxy-cookie-path") = "" /\ Get(a, "proxy-cookie-path") # ""
    BY <1>1, <1>2 DEF Echo, Reads, IsSet
  <1>4. CASE Get(a, "proxy-cookie-path") # "unparsable"
    <2>1. ProxyCookiePath(a) # <<>> /\ ProxyCookiePath(b) = <<>>
      BY <1>3, <1>4 DEF ProxyCookiePath, When
    <2>2. QED
      BY <1>2, <2>1 DEF Echo, SameBuilders
  <1>5. CASE Get(a, "proxy-cookie-path") = "unparsable"
    <2>1. "proxy-cookie-path" \in Noted(a, Services(ing))
      BY <1>5, NotedIs
    <2>2. "proxy-cookie-path" \notin Noted(b, Services(ing))
      BY <1>3, NotedIs
    <2>3. QED
      BY <1>2, <2>1, <2>2 DEF Echo
  <1>6. QED
    BY <1>4, <1>5

LEMMA RewriteTargetTells ==
    ASSUME NEW ing, Silent(ing, "rewrite-target"), IsSet(ing.anns, "rewrite-target"),
           \E i \in DOMAIN ing.paths : ing.paths[i].path # ""
    PROVE  FALSE
  <1>1. PICK w, b : Echo(w, b, ing.anns, ing, "rewrite-target")
    BY Echoes
  <1>2. ~IsSet(w.anns, "rewrite-target")
    BY <1>1 DEF Echo, Reads
  <1>3. RewrittenPaths(w) = {} /\ RewrittenPaths(ing) # {}
    BY <1>2 DEF RewrittenPaths
  <1>4. PICK p, q, c, d : /\ p = RewrittenPaths(w) /\ q = RewrittenPaths(ing)
                          /\ c = Get(ing.anns, "rewrite-target") /\ d = SnippetOf(ing.anns).rewrites
    OBVIOUS
  <1>5. PICK y : y = Plugin("proxy-rewrite", [paths |-> q, target |-> c, rewrites |-> d])
    OBVIOUS
  <1>6. ProxyRewrite(ing) = <<y>> /\ y.config.paths = q
    <2>1. ProxyRewrite(ing) = <<y>>
      BY <1>3, <1>4, <1>5 DEF ProxyRewrite, When
    <2>2. y.config.paths = q
      BY <1>5 DEF Plugin
    <2>3. QED
      BY <2>1, <2>2
  <1>7. CASE SnippetOf(w.anns).rewrites # <<>>
    <2>1. PICK e : e = SnippetOf(w.anns).rewrites
      OBVIOUS
    <2>2. PICK x : x = Plugin("proxy-rewrite", [paths |-> p, target |-> "", rewrites |-> e])
      OBVIOUS
    <2>3. ProxyRewrite(w) = <<x>>
      BY <1>3, <1>4, <1>7, <2>1, <2>2 DEF ProxyRewrite, When
    <2>4. x.config.paths = p
      BY <2>2 DEF Plugin
    <2>5. <<x>> = <<y>>
      BY <1>1, <1>6, <2>3 DEF Echo, SameBuilders
    <2>6. x = y
      BY <2>5
    <2>7. QED
      BY <1>3, <1>4, <1>6, <2>4, <2>6
  <1>8. CASE SnippetOf(w.anns).rewrites = <<>>
    <2>1. ProxyRewrite(w) = <<>>
      BY <1>3, <1>8 DEF ProxyRewrite, When
    <2>2. <<y>> = <<>>
      BY <1>1, <1>6, <2>1 DEF Echo, SameBuilders
    <2>3. QED
      BY <2>2
  <1>9. QED
    BY <1>7, <1>8

-----------------------------------------------------------------------------
(* One builder, several annotations *)

LEMMA RealIPMade ==
    ASSUME NEW a
    PROVE  /\ ~RealIPIsOn(a) => RealIP(a) = <<>>
           /\ RealIPIsOn(a) =>
                \E x : /\ RealIP(a) = <<x>>
                       /\ ~IsSet(a, "forwarded-for-header") => x.config.source = "http_x_forwarded_for"
                       /\ IsSet(a, "forwarded-for-header") =>
                             x.config.source = HeaderVar[Get(a, "forwarded-for-header")]
                       /\ x.config.recursive = (Get(a, "use-forwarded-headers") = "true")
  <1>1. ~RealIPIsOn(a) => RealIP(a) = <<>>
    BY DEF RealIP, When
  <1>2. ASSUME RealIPIsOn(a)
        PROVE  \E x : /\ RealIP(a) = <<x>>
                      /\ ~IsSet(a, "forwarded-for-header") => x.config.source = "http_x_forwarded_for"
                      /\ IsSet(a, "forwarded-for-header") =>
                            x.config.source = HeaderVar[Get(a, "forwarded-for-header")]
                      /\ x.config.recursive = (Get(a, "use-forwarded-headers") = "true")
    <2>1. PICK c, r : /\ c = (IF IsSet(a, "forwarded-for-header") THEN HeaderVar[Get(a, "forwarded-for-header")]
                              ELSE "http_x_forwarded_for")
                      /\ r = (Get(a, "use-forwarded-headers") = "true")
      OBVIOUS
    <2>2. PICK x : x = Plugin("real-ip", [source |-> c, recursive |-> r])
      OBVIOUS
    <2>3. x.config.source = c /\ x.config.recursive = r
      BY <2>2 DEF Plugin
    <2>4. RealIP(a) = <<x>>
      BY <1>2, <2>1, <2>2, Zenon DEF RealIP, When
    <2>5. QED
      BY <2>1, <2>3, <2>4
  <1>3. QED
    BY <1>1, <1>2

LEMMA EnableRealIPTells ==
    ASSUME NEW ing, NEW a, a = ing.anns, IsSet(a, "enable-real-ip"), Silent(ing, "enable-real-ip")
    PROVE  ~RealIPIsOn(a)
  <1>1. PICK w, b : Echo(w, b, a, ing, "enable-real-ip")
    BY Echoes
  <1>2. "enable-real-ip" \notin Noted(b, Services(ing))
    <2>1. "enable-real-ip" \notin Noted(a, Services(ing))
      BY NotedIs
    <2>2. QED
      BY <1>1, <2>1 DEF Echo
  <1>3. ~RealIPIsOn(b)
    <2>1. ~IsSet(b, "enable-real-ip")
      BY <1>1 DEF Echo, Reads
    <2>2. QED
      BY <1>2, <2>1, NotedIs
  <1>4. RealIP(a) = <<>>
    BY <1>1, <1>3, RealIPMade DEF Echo, SameBuilders
  <1>5. \A x : <<x>> # <<>>
    OBVIOUS
  <1>6. QED
    BY <1>4, <1>5, RealIPMade

LEMMA ForwardedTells ==
    ASSUME NEW ing, NEW a, a = ing.anns, NEW s \in {"use-forwarded-headers", "forwarded-for-header"},
           IsSet(a, s), Silent(ing, s)
    PROVE  /\ SwitchesOnRealIP(a, {"enable-real-ip", "use-forwarded-headers", "forwarded-for-header"} \ {s})
           /\ s = "use-forwarded-headers" => Get(a, s) # "true"
           /\ s = "forwarded-for-header" => HeaderVar[Get(a, s)] = "http_x_forwarded_for"
  <1>1. PICK w, b : Echo(w, b, a, ing, s)
    BY Echoes
  <1>2. Reads(b, a, s) /\ RealIP(b) = RealIP(a)
    BY <1>1 DEF Echo, SameBuilders
  <1>3. RealIPIsOn(a)
    BY DEF RealIPIsOn
  <1>4. PICK x : /\ RealIP(a) = <<x>>
                 /\ IsSet(a, "forwarded-for-header") =>
                       x.config.source = HeaderVar[Get(a, "forwarded-for-header")]
                 /\ x.config.recursive = (Get(a, "use-forwarded-headers") = "true")
    BY <1>3, RealIPMade
  <1>5. RealIPIsOn(b)
    <2>1. <<x>> # <<>>
      OBVIOUS
    <2>2. QED
      BY <1>2, <1>4, <2>1, RealIPMade
  <1>6. PICK y : /\ RealIP(b) = <<y>>
                 /\ ~IsSet(b, "forwarded-for-header") => y.config.source = "http_x_forwarded_for"
                 /\ y.config.recursive = (Get(b, "use-forwarded-headers") = "true")
    BY <1>5, RealIPMade
  <1>7. x = y
    <2>1. <<x>> = <<y>>
      BY <1>2, <1>4, <1>6
    <2>2. QED
      BY <2>1
  <1>8. SwitchesOnRealIP(a, {"enable-real-ip", "use-forwarded-headers", "forwarded-for-header"} \ {s})
    <2>1. CASE s = "use-forwarded-headers"
      BY <1>2, <1>5, <2>1 DEF Reads, RealIPIsOn, SwitchesOnRealIP
    <2>2. CASE s = "forwarded-for-header"
      BY <1>2, <1>5, <2>2 DEF Reads, RealIPIsOn, SwitchesOnRealIP
    <2>3. QED
      BY <2>1, <2>2
  <1>9. ASSUME s = "use-forwarded-headers"
        PROVE  Get(a, s) # "true"
    <2>1. Get(b, s) # "true"
      BY <1>2, EmptyApart DEF Reads
    <2>2. QED
      BY <1>4, <1>6, <1>7, <1>9, <2>1
  <1>10. ASSUME s = "forwarded-for-header"
         PROVE  HeaderVar[Get(a, s)] = "http_x_forwarded_for"
    <2>1. ~IsSet(b, s)
      BY <1>2 DEF Reads
    <2>2. QED
      BY <1>4, <1>6, <1>7, <1>10, <2>1
  <1>11. QED
    BY <1>8, <1>9, <1>10

\* What the cors plugin says of each of its annotations.
CorsSays(a, c) ==
    /\ c.allow_methods = OrDefault(Get(a, "cors-allow-methods"), "default")
    /\ c.allow_headers = OrDefault(Get(a, "cors-allow-headers"), "default")
    /\ c.allow_credential = Credentials(a)
    /\ c.max_age = CorsAge(a)
    /\ c.allow_origins_by_regex = RegexOrigins(a)
    /\ c.allow_origins = ListedOrigins(a)
    /\ c.expose_headers = Get(a, "cors-expose-headers")

LEMMA CorsMade ==
    ASSUME NEW a, CorsIsOn(a)
    PROVE  \E x : Cors(a) = <<x>> /\ CorsSays(a, x.config)
  <1>1. PICK c : c = CorsConfig(a)
    OBVIOUS
  <1>2. PICK m, h, d, g, r, o, e :
            /\ m = OrDefault(Get(a, "cors-allow-methods"), "default")
            /\ h = OrDefault(Get(a, "cors-allow-headers"), "default")
            /\ d = Credentials(a) /\ g = CorsAge(a) /\ r = RegexOrigins(a)
            /\ o = ListedOrigins(a) /\ e = Get(a, "cors-expose-headers")
    OBVIOUS
  <1>3. c = [allow_methods |-> m, allow_headers |-> h, allow_credential |-> d, max_age |-> g,
             allow_origins_by_regex |-> r, allow_origins |-> o, expose_headers |-> e]
    BY <1>1, <1>2 DEF CorsConfig
  <1>4. /\ c.allow_methods = m /\ c.allow_headers = h /\ c.allow_credential = d /\ c.max_age = g
        /\ c.allow_origins_by_regex = r /\ c.allow_origins = o /\ c.expose_headers = e
    BY <1>3
  <1>5. CorsSays(a, c)
    BY <1>2, <1>4 DEF CorsSays
  <1>6. PICK x : x = Plugin("cors", c)
    OBVIOUS
  <1>7. x.config = c /\ Cors(a) = <<x>>
    BY <1>1, <1>6 DEF Plugin, Cors, When
  <1>8. QED
    BY <1>5, <1>7

\* Without one of the options that makes no difference the plugin is the same.
LEMMA CorsApart ==
    ASSUME NEW ing, NEW a, a = ing.anns, CorsIsOn(a), NEW s, s # "enable-cors", Silent(ing, s)
    PROVE  \E b, c : /\ Reads(b, a, s)
                     /\ CorsSays(b, c) /\ CorsSays(a, c)
  <1>1. PICK w, b : Echo(w, b, a, ing, s)
    BY Echoes
  <1>2. CorsIsOn(b)
    BY <1>1 DEF Echo, Reads, CorsIsOn
  <1>3. PICK x : Cors(a) = <<x>> /\ CorsSays(a, x.config)
    BY CorsMade
  <1>4. PICK y : Cors(b) = <<y>> /\ CorsSays(b, y.config)
    BY <1>2, CorsMade
  <1>5. <<y>> = <<x>>
    BY <1>1, <1>3, <1>4 DEF Echo, SameBuilders
  <1>6. y = x
    BY <1>5
  <1>7. QED
    BY <1>1, <1>3, <1>4, <1>6 DEF Echo

LEMMA CorsWordTells ==
    ASSUME NEW ing, NEW a, a = ing.anns, CorsIsOn(a), NEW s, IsSet(a, s), Silent(ing, s)
    PROVE  /\ s \in {"cors-allow-methods", "cors-allow-headers"} => Get(a, s) = "default"
           /\ s = "cors-allow-origin" => Get(a, s) = "*"
           /\ s = "cors-allow-credentials" => Get(a, s) = "true"
           /\ s = "cors-max-age" /\ IsNumber(Get(a, s)) => Number[Get(a, s)] = DefaultAge
  <1> SUFFICES ASSUME s \in {"cors-allow-methods", "cors-allow-headers", "cors-allow-origin",
                             "cors-allow-credentials", "cors-max-age"}
               PROVE  /\ s \in {"cors-allow-methods", "cors-allow-headers"} => Get(a, s) = "default"
                      /\ s = "cors-allow-origin" => Get(a, s) = "*"
                      /\ s = "cors-allow-credentials" => Get(a, s) = "true"
                      /\ s = "cors-max-age" /\ IsNumber(Get(a, s)) => Number[Get(a, s)] = DefaultAge
    OBVIOUS
  <1>1. PICK b, c : Reads(b, a, s) /\ CorsSays(b, c) /\ CorsSays(a, c)
    BY CorsApart
  <1>2. Get(b, s) = "" /\ Get(a, s) # ""
    BY <1>1 DEF Reads, IsSet
  <1>3. ASSUME s = "cors-allow-methods"
        PROVE  Get(a, s) = "default"
    <2>1. OrDefault(Get(b, s), "default") = OrDefault(Get(a, s), "default")
      BY <1>1, <1>3 DEF CorsSays
    <2>2. QED
      BY <1>2, <2>1 DEF OrDefault
  <1>4. ASSUME s = "cors-allow-headers"
        PROVE  Get(a, s) = "default"
    <2>1. OrDefault(Get(b, s), "default") = OrDefault(Get(a, s), "default")
      BY <1>1, <1>4 DEF CorsSays
    <2>2. QED
      BY <1>2, <2>1 DEF OrDefault
  <1>5. ASSUME s = "cors-allow-origin"
        PROVE  Get(a, s) = "*"
    <2>1. Origin(b) = "*" /\ Origin(a) = Get(a, s)
      BY <1>2, <1>5 DEF Origin, OrDefault
    <2>2. ListedOrigins(b) = ListedOrigins(a)
      BY <1>1 DEF CorsSays
    <2>3. Credentials(b) = Credentials(a)
      BY <1>1 DEF CorsSays
    <2>4. QED
      BY <1>2, <2>1, <2>2, <2>3 DEF ListedOrigins, AnyOrigin
  <1>6. ASSUME s = "cors-allow-credentials"
        PROVE  Get(a, s) = "true"
    <2>1. Credentials(b) = Credentials(a)
      BY <1>1 DEF CorsSays
    <2>2. QED
      BY <1>2, <1>6, <2>1 DEF Credentials
  <1>7. ASSUME s = "cors-max-age", IsNumber(Get(a, s))
        PROVE  Number[Get(a, s)] = DefaultAge
    <2>1. CorsAge(b) = CorsAge(a)
      BY <1>1 DEF CorsSays
    <2>2. CorsAge(b) = DefaultAge
      BY <1>2, <1>7, NumeralAssumption DEF CorsAge, IsNumber
    <2>3. CorsAge(a) = Number[Get(a, s)]
      BY <1>7 DEF CorsAge
    <2>4. QED
      BY <2>1, <2>2, <2>3
  <1>8. QED
    BY <1>3, <1>4, <1>5, <1>6, <1>7

LEMMA ExposeTells ==
    ASSUME NEW ing, NEW a, a = ing.anns, CorsIsOn(a),
           Silent(ing, "cors-expose-headers"), IsSet(a, "cors-expose-headers")
    PROVE  FALSE
  <1>1. PICK b, c : Reads(b, a, "cors-expose-headers") /\ CorsSays(b, c) /\ CorsSays(a, c)
    BY CorsApart
  <1>2. QED
    BY <1>1 DEF Reads, CorsSays, IsSet

\* What the session-cookie-hash plugin says of each of its annotations.
MaxAge(a) == IF IsNumber(CookieAge(a)) THEN {Number[CookieAge(a)]} ELSE {}
SessionSays(a, c) ==
    /\ c.cookie_name = CookieName(a)
    /\ c.algorithm = Hash(a)
    /\ c.max_age = MaxAge(a)
    /\ c.cookie_path = Get(a, "session-cookie-path")

LEMMA SessionMade ==
    ASSUME NEW a
    PROVE  /\ ~HashIsSupported(a) => SessionCookieHash(a) = <<>>
           /\ HashIsSupported(a) => \E x : SessionCookieHash(a) = <<x>> /\ SessionSays(a, x.config)
  <1>1. ~HashIsSupported(a) => SessionCookieHash(a) = <<>>
    BY DEF SessionCookieHash, When
  <1>2. ASSUME HashIsSupported(a)
        PROVE  \E x : SessionCookieHash(a) = <<x>> /\ SessionSays(a, x.config)
    <2>1. PICK n, h, g, p : /\ n = CookieName(a) /\ h = Hash(a) /\ g = MaxAge(a)
                            /\ p = Get(a, "session-cookie-path")
      OBVIOUS
    <2>2. PICK c : c = [cookie_name |-> n, algorithm |-> h, max_age |-> g, cookie_path |-> p]
      OBVIOUS
    <2>3. PICK x : x = Plugin("session-cookie-hash", c)
      OBVIOUS
    <2>4. SessionCookieHash(a) = <<x>>
      BY <1>2, <2>1, <2>2, <2>3 DEF SessionCookieHash, When, MaxAge
    <2>5. x.config = c
      BY <2>3 DEF Plugin
    <2>6. SessionSays(a, c)
      BY <2>1, <2>2 DEF SessionSays
    <2>7. QED
      BY <2>4, <2>5, <2>6
  <1>3. QED
    BY <1>1, <1>2

\* What the hash of a cookie is depends on two annotations.
HashReads == {"session-cookie-hash", "affinity"}

LEMMA HashApart ==
    ASSUME NEW a, NEW b, NEW s, s \notin HashReads, Reads(b, a, s)
    PROVE  Hash(b) = Hash(a) /\ (HashIsSupported(b) <=> HashIsSupported(a))
  <1>1. /\ Get(b, "session-cookie-hash") = Get(a, "session-cookie-hash")
        /\ IsSet(b, "session-cookie-hash") <=> IsSet(a, "session-cookie-hash")
        /\ Get(b, "affinity") = Get(a, "affinity")
    BY DEF Reads, HashReads
  <1>2. HashIsDefault(b) <=> HashIsDefault(a)
    BY <1>1 DEF HashIsDefault, CookieAffinity
  <1>3. Hash(b) = Hash(a)
    BY <1>1, <1>2 DEF Hash
  <1>4. QED
    BY <1>3 DEF HashIsSupported

LEMMA SessionApart ==
    ASSUME NEW ing, NEW a, a = ing.anns, HashIsSupported(a), NEW s, s \notin HashReads,
           Silent(ing, s)
    PROVE  \E b, c : Reads(b, a, s) /\ SessionSays(b, c) /\ SessionSays(a, c)
  <1>1. PICK w, b : Echo(w, b, a, ing, s)
    BY Echoes
  <1>2. Reads(b, a, s) /\ SessionCookieHash(b) = SessionCookieHash(a)
    BY <1>1 DEF Echo, SameBuilders
  <1>3. HashIsSupported(b)
    BY <1>2, HashApart
  <1>4. PICK x : SessionCookieHash(a) = <<x>> /\ SessionSays(a, x.config)
    BY SessionMade
  <1>5. PICK y : SessionCookieHash(b) = <<y>> /\ SessionSays(b, y.config)
    BY <1>3, SessionMade
  <1>6. <<y>> = <<x>>
    BY <1>2, <1>4, <1>5
  <1>7. y = x
    BY <1>6
  <1>8. QED
    BY <1>2, <1>4, <1>5, <1>7

LEMMA CookieAgeTells ==
    ASSUME NEW ing, NEW a, a = ing.anns, HashIsSupported(a), NEW s, IsSet(a, s), Silent(ing, s)
    PROVE  /\ s = "session-cookie-max-age" => Repeats(ing, s) \/ Dropped(ing, s)
           /\ s = "session-cookie-expires" => Dropped(ing, s)
  <1> SUFFICES ASSUME s \in {"session-cookie-max-age", "session-cookie-expires"}
               PROVE  /\ s = "session-cookie-max-age" => Repeats(ing, s) \/ Dropped(ing, s)
                      /\ s = "session-cookie-expires" => Dropped(ing, s)
    OBVIOUS
  <1>1. s \notin HashReads
    BY DEF HashReads
  <1>2. PICK b, c : Reads(b, a, s) /\ SessionSays(b, c) /\ SessionSays(a, c)
    BY <1>1, SessionApart
  <1>3. MaxAge(b) = MaxAge(a)
    BY <1>2 DEF SessionSays
  <1>4. ASSUME s = "session-cookie-max-age"
        PROVE  Repeats(ing, s) \/ Dropped(ing, s)
    <2>1. CookieAge(a) = Get(a, s) /\ CookieAge(b) = Get(a, "session-cookie-expires")
      BY <1>2, <1>4 DEF Reads, CookieAge
    <2>2. CASE IsNumber(Get(a, s))
      <3>1. IsNumber(CookieAge(b)) /\ Number[CookieAge(b)] = Number[Get(a, s)]
        BY <1>3, <2>1, <2>2 DEF MaxAge
      <3>2. QED
        BY <1>4, <2>1, <2>2, <3>1 DEF Repeats
    <2>3. CASE ~IsNumber(Get(a, s))
      <3>1. ~IsNumber(CookieAge(b))
        BY <1>3, <2>1, <2>3 DEF MaxAge
      <3>2. QED
        BY <1>4, <2>1, <2>3, <3>1 DEF Dropped
    <2>4. QED
      BY <2>2, <2>3
  <1>5. ASSUME s = "session-cookie-expires", ~IsSet(a, "session-cookie-max-age")
        PROVE  ~IsNumber(Get(a, s))
    <2>1. CookieAge(a) = Get(a, s) /\ CookieAge(b) = ""
      BY <1>2, <1>5 DEF Reads, CookieAge
    <2>2. ~IsNumber(CookieAge(b))
      BY <2>1, NumeralAssumption DEF IsNumber
    <2>3. QED
      BY <1>3, <2>1, <2>2 DEF MaxAge
  <1>6. s = "session-cookie-expires" => Dropped(ing, s)
    BY <1>5 DEF Dropped
  <1>7. QED
    BY <1>4, <1>6

LEMMA CookieOptionTells ==
    ASSUME NEW ing, NEW a, a = ing.anns
    PROVE  /\ ~(/\ Silent(ing, "session-cookie-path") /\ IsSet(a, "session-cookie-path")
                /\ HashIsSupported(a))
           /\ ~(/\ Silent(ing, "session-cookie-name") /\ IsSet(a, "session-cookie-name")
                /\ HashIsSupported(a) \/ (CookieAffinity(a) /\ Services(ing) # {}))
  <1>1. ASSUME Silent(ing, "session-cookie-path"), HashIsSupported(a)
        PROVE  ~IsSet(a, "session-cookie-path")
    <2>1. "session-cookie-path" \notin HashReads
      BY DEF HashReads
    <2>2. PICK b, c : Reads(b, a, "session-cookie-path") /\ SessionSays(b, c) /\ SessionSays(a, c)
      BY <1>1, <2>1, SessionApart
    <2>3. QED
      BY <2>2 DEF Reads, SessionSays, IsSet
  <1>2. ASSUME Silent(ing, "session-cookie-name"), IsSet(a, "session-cookie-name"),
               HashIsSupported(a) \/ (CookieAffinity(a) /\ Services(ing) # {})
        PROVE  FALSE
    <2>1. PICK w, b : Echo(w, b, a, ing, "session-cookie-name")
      BY <1>2, Echoes
    <2>2. Reads(b, a, "session-cookie-name")
      BY <2>1 DEF Echo
    <2>3. HashIsSupported(b) <=> HashIsSupported(a)
      <3>1. "session-cookie-name" \notin HashReads
        BY DEF HashReads
      <3>2. QED
        BY <2>2, <3>1, HashApart
    <2>4. CookieAffinity(b) <=> CookieAffinity(a)
      BY <2>2 DEF Reads, CookieAffinity
    <2>5. ~Has(b, "session-cookie-name") /\ Has(a, "session-cookie-name")
      BY <1>2, <2>2, SetIsThere DEF Reads
    <2>6. "session-cookie-name" \in Noted(b, Services(ing))
      BY <1>2, <2>3, <2>4, <2>5, NotedIs
    <2>7. "session-cookie-name" \notin Noted(a, Services(ing))
      BY <2>5, NotedIs
    <2>8. QED
      BY <2>1, <2>6, <2>7 DEF Echo
  <1>3. QED
    BY <1>1, <1>2

LEMMA CookieHashTells ==
    ASSUME NEW ing, NEW a, a = ing.anns, Silent(ing, "session-cookie-hash"),
           IsSet(a, "session-cookie-hash")
    PROVE  FALSE
  <1>1. PICK w, b : Echo(w, b, a, ing, "session-cookie-hash")
    BY Echoes
  <1>2. /\ Noted(b, Services(ing)) = Noted(a, Services(ing))
        /\ SessionCookieHash(b) = SessionCookieHash(a)
        /\ ~IsSet(b, "session-cookie-hash") /\ Get(b, "session-cookie-hash") = ""
    BY <1>1 DEF Echo, Reads, SameBuilders
  <1>3. ~HashIsDefault(a) /\ Hash(a) # ""
    BY DEF HashIsDefault, Hash, IsSet
  <1>4. CASE CookieAffinity(b)
    <2>1. HashIsDefault(b) /\ Hash(b) = "sha1"
      BY <1>2, <1>4 DEF HashIsDefault, Hash
    <2>2. HashIsSupported(b)
      BY <2>1 DEF HashIsSupported
    <2>3. PICK x : SessionCookieHash(b) = <<x>>
      BY <2>2, SessionMade
    <2>4. <<x>> # <<>>
      OBVIOUS
    <2>5. HashIsSupported(a)
      BY <1>2, <2>3, <2>4, SessionMade
    <2>6. "session-cookie-hash" \notin Noted(a, Services(ing))
      BY <1>3, <2>5, NotedIs
    <2>7. "session-cookie-hash" \in Noted(b, Services(ing))
      BY <2>1, NotedIs
    <2>8. QED
      BY <1>2, <2>6, <2>7
  <1>5. CASE ~CookieAffinity(b)
    <2>1. ~HashIsDefault(b) /\ Hash(b) = ""
      BY <1>2, <1>5 DEF HashIsDefault, Hash
    <2>2. ~HashIsSupported(b)
      <3>1. \A e : e = "" => e # "sha1" /\ e # "md5" /\ e # "sha256"
        BY Zenon
      <3>2. QED
        BY <2>1, <3>1 DEF HashIsSupported
    <2>3. "session-cookie-hash" \notin Noted(b, Services(ing))
      BY <2>1, NotedIs
    <2>4. HashIsSupported(a)
      <3>1. "session-cookie-hash" \notin Noted(a, Services(ing))
        BY <1>2, <2>3
      <3>2. HashIsDefault(a) \/ (Hash(a) # "" /\ ~HashIsSupported(a)) => "session-cookie-hash" \in Noted(a, Services(ing))
        BY NotedIs, Zenon
      <3>3. QED
        BY <1>3, <3>1, <3>2
    <2>5. PICK x : SessionCookieHash(a) = <<x>>
      BY <2>4, SessionMade
    <2>6. <<x>> # <<>>
      OBVIOUS
    <2>7. QED
      BY <1>2, <2>2, <2>5, <2>6, SessionMade
  <1>6. QED
    BY <1>4, <1>5

-----------------------------------------------------------------------------
(* Annotations that make another resource, or that are lost *)

LEMMA LostTells ==
    ASSUME NEW ing, NEW a, a = ing.anns, NEW s, s \notin Handled \cup Consumed(a), IsSet(a, s),
           Silent(ing, s)
    PROVE  FALSE
  <1>1. PICK w : Variant(w, ing, s) /\ Indistinct(w, ing)
    BY DEF Silent
  <1>2. PICK b : b = w.anns
    OBVIOUS
  <1>3. ~Has(b, s) /\ Lost(b) = Lost(a) /\ \A k \in DOMAIN b : IsNginx(k) => k = <<k[1], k[2]>>
    BY <1>1, <1>2 DEF Variant, Indistinct
  <1>4. s \in Lost(a)
    <2>1. PICK p \in NginxPrefixes : <<p, s>> \in DOMAIN a
      BY SetIsThere DEF Has
    <2>2. IsNginx(<<p, s>>) /\ <<p, s>>[2] = s
      BY <2>1 DEF IsNginx
    <2>3. s \in {k[2] : k \in {l \in DOMAIN a : IsNginx(l)}}
      BY <2>1, <2>2
    <2>4. QED
      BY <2>3 DEF Lost
  <1>5. PICK k \in DOMAIN b : IsNginx(k) /\ k[2] = s
    BY <1>3, <1>4 DEF Lost
  <1>6. k = <<k[1], s>> /\ k[1] \in NginxPrefixes
    BY <1>3, <1>5 DEF IsNginx
  <1>7. QED
    BY <1>3, <1>5, <1>6 DEF Has

\* There are as many policies as annotations that ask for one.
LEMMA PoliciesMade ==
    ASSUME NEW ing, NEW a, a = ing.anns, Services(ing) # {}
    PROVE  Len(Policies(ing)) = (IF CookieAffinity(a) THEN 1 ELSE 0)
                                + (IF IsSet(a, "upstream-hash-by") THEN 1 ELSE 0)
  <1> DEFINE by == Get(a, "upstream-hash-by")
  <1>1. PICK x : x = Policy(ing, "cookie-affinity", "cookie", CookieName(a))
    OBVIOUS
  <1>2. PICK y : y = Policy(ing, "hash-by", HashKey[by].hashOn, HashKey[by].key)
    OBVIOUS
  <1>3. PICK P : P = When(CookieAffinity(a), x)
    OBVIOUS
  <1>4. PICK Q : Q = When(by # "", y)
    OBVIOUS
  <1>5. Policies(ing) = P \o Q
    BY <1>1, <1>2, <1>3, <1>4 DEF Policies
  <1>6. \/ CookieAffinity(a) /\ P = <<x>>
        \/ ~CookieAffinity(a) /\ P = <<>>
    BY <1>3 DEF When
  <1>7. \/ IsSet(a, "upstream-hash-by") /\ Q = <<y>>
        \/ ~IsSet(a, "upstream-hash-by") /\ Q = <<>>
    BY <1>4 DEF When, IsSet
  <1>8. Len(P \o Q) = Len(P) + Len(Q)
    <2>1. PICK T : T = {x, y}
      OBVIOUS
    <2>2. <<x>> \in Seq(T) /\ <<y>> \in Seq(T) /\ <<>> \in Seq(T)
      BY <2>1
    <2>3. P \in Seq(T)
      BY <1>6, <2>2
    <2>4. Q \in Seq(T)
      BY <1>7, <2>2
    <2>5. QED
      BY <2>3, <2>4, ConcatProperties
  <1>9. Len(P) = IF CookieAffinity(a) THEN 1 ELSE 0
    BY <1>6
  <1>10. Len(Q) = IF IsSet(a, "upstream-hash-by") THEN 1 ELSE 0
    BY <1>7
  <1>11. QED
    BY <1>5, <1>8, <1>9, <1>10

LEMMA PolicyTells ==
    ASSUME NEW ing, NEW a, a = ing.anns
    PROVE  /\ ~(Silent(ing, "upstream-hash-by") /\ IsSet(a, "upstream-hash-by"))
           /\ ~(Silent(ing, "affinity") /\ CookieAffinity(a))
  <1>1. ASSUME NEW w, OnlyAnnotated(w, ing)
        PROVE  Services(w) = Services(ing)
    BY <1>1 DEF OnlyAnnotated, Services
  <1>2. ASSUME Silent(ing, "upstream-hash-by"), IsSet(a, "upstream-hash-by")
        PROVE  FALSE
    <2>1. PICK w, b : Echo(w, b, a, ing, "upstream-hash-by")
      BY <1>2, Echoes
    <2>2. /\ ~IsSet(b, "upstream-hash-by") /\ (CookieAffinity(b) <=> CookieAffinity(a))
          /\ b = w.anns /\ Policies(w) = Policies(ing)
          /\ Noted(b, Services(ing)) = Noted(a, Services(ing))
      BY <2>1 DEF Echo, Reads, CookieAffinity
    <2>3. Services(w) = Services(ing)
      BY <1>1, <2>1 DEF Echo
    <2>4. CASE Services(ing) = {}
      <3>1. "upstream-hash-by" \in Noted(a, Services(ing)) /\ "upstream-hash-by" \notin Noted(b, Services(ing))
        BY <1>2, <2>2, <2>4, NotedIs
      <3>2. QED
        BY <2>2, <3>1
    <2>5. CASE Services(ing) # {}
      <3>1. Len(Policies(ing)) = (IF CookieAffinity(a) THEN 1 ELSE 0) + 1
        BY <1>2, <2>5, PoliciesMade
      <3>2. Len(Policies(w)) = (IF CookieAffinity(b) THEN 1 ELSE 0) + 0
        BY <2>2, <2>3, <2>5, PoliciesMade
      <3>3. QED
        BY <2>2, <3>1, <3>2
    <2>6. QED
      BY <2>4, <2>5
  <1>3. ASSUME Silent(ing, "affinity"), CookieAffinity(a)
        PROVE  FALSE
    <2>1. PICK w, b : Echo(w, b, a, ing, "affinity")
      BY <1>3, Echoes
    <2>2. /\ IsSet(b, "upstream-hash-by") <=> IsSet(a, "upstream-hash-by")
          /\ b = w.anns /\ Policies(w) = Policies(ing)
          /\ Noted(b, Services(ing)) = Noted(a, Services(ing))
      BY <2>1 DEF Echo, Reads
    <2>3. Services(w) = Services(ing)
      BY <1>1, <2>1 DEF Echo
    <2>4. ~CookieAffinity(b)
      BY <2>1, EmptyApart DEF Echo, Reads, CookieAffinity
    <2>5. CASE Services(ing) = {}
      <3>1. "affinity" \in Noted(a, Services(ing)) /\ "affinity" \notin Noted(b, Services(ing))
        BY <1>3, <2>4, <2>5, NotedIs
      <3>2. QED
        BY <2>2, <3>1
    <2>6. CASE Services(ing) # {}
      <3>1. Len(Policies(ing)) = 1 + (IF IsSet(a, "upstream-hash-by") THEN 1 ELSE 0)
        BY <1>3, <2>6, PoliciesMade
      <3>2. Len(Policies(w)) = 0 + (IF IsSet(b, "upstream-hash-by") THEN 1 ELSE 0)
        BY <2>2, <2>3, <2>4, <2>6, PoliciesMade
      <3>3. QED
        BY <2>2, <3>1, <3>2
    <2>7. QED
      BY <2>5, <2>6
  <1>4. QED
    BY <1>2, <1>3

\* What an ApisixUpstream says of each of the annotations of health checks.
Successes(a) ==
    LET retries == Get(a, "health-check-retries")
    IN  IF IsNumber(retries) /\ Number[retries] > 0 THEN {Number[retries]} ELSE {}
UpstreamSays(a, u) ==
    /\ u.httpPath = OrDefault(Get(a, "health-check-path"), "/")
    /\ u.interval = WithUnit(Get(a, "health-check-interval"))
    /\ u.timeout = WithUnit(Get(a, "health-check-timeout"))
    /\ u.successes = Successes(a)

LEMMA UpstreamMade ==
    ASSUME NEW ing, NEW a, a = ing.anns, HealthChecked(a)
    PROVE  \E u : Upstreams(ing) = <<u>> /\ UpstreamSays(a, u)
  <1>1. PICK n, m, o, p, i, t, s :
            /\ n = NamespaceOf(ing) /\ m = NameOf(ing, "upstream") /\ o = ing.name
            /\ p = OrDefault(Get(a, "health-check-path"), "/")
            /\ i = WithUnit(Get(a, "health-check-interval"))
            /\ t = WithUnit(Get(a, "health-check-timeout"))
            /\ s = Successes(a)
    OBVIOUS
  <1>2. PICK u : u = [ns |-> n, name |-> m, of |-> o, httpPath |-> p, interval |-> i, timeout |-> t,
                      successes |-> s]
    OBVIOUS
  <1>3. Upstreams(ing) = <<u>>
    BY <1>1, <1>2 DEF Upstreams, Successes, When
  <1>4. u.httpPath = p /\ u.interval = i /\ u.timeout = t /\ u.successes = s
    BY <1>2
  <1>5. UpstreamSays(a, u)
    BY <1>1, <1>4 DEF UpstreamSays
  <1>6. QED
    BY <1>3, <1>5

\* If none is left there is no resource; if there is, it is the same.
LEMMA UpstreamApart ==
    ASSUME NEW ing, NEW a, a = ing.anns, NEW s \in HealthChecks, IsSet(a, s), Silent(ing, s)
    PROVE  /\ \E t \in HealthChecks \ {s} : Has(a, t)
           /\ \E b, u : /\ Reads(b, a, s) /\ HealthChecked(b)
                        /\ UpstreamSays(b, u) /\ UpstreamSays(a, u)
                        /\ Noted(b, Services(ing)) = Noted(a, Services(ing))
  <1>1. PICK w, b : Echo(w, b, a, ing, s)
    BY Echoes
  <1>2. Reads(b, a, s) /\ b = w.anns /\ Upstreams(w) = Upstreams(ing)
    BY <1>1 DEF Echo
  <1>3. HealthChecked(a)
    BY SetIsThere DEF HealthChecked
  <1>4. PICK u : Upstreams(ing) = <<u>> /\ UpstreamSays(a, u)
    BY <1>3, UpstreamMade
  <1>5. HealthChecked(b)
    <2>1. ~HealthChecked(b) => Upstreams(w) = <<>>
      BY <1>2 DEF Upstreams, When
    <2>2. <<u>> # <<>>
      OBVIOUS
    <2>3. QED
      BY <1>2, <1>4, <2>1, <2>2
  <1>6. PICK x : Upstreams(w) = <<x>> /\ UpstreamSays(b, x)
    BY <1>2, <1>5, UpstreamMade
  <1>7. u = x
    <2>1. <<u>> = <<x>>
      BY <1>2, <1>4, <1>6
    <2>2. QED
      BY <2>1
  <1>8. \E t \in HealthChecks \ {s} : Has(a, t)
    BY <1>2, <1>5 DEF Reads, HealthChecked
  <1>9. QED
    BY <1>1, <1>2, <1>4, <1>5, <1>6, <1>7, <1>8 DEF Echo

LEMMA HealthTells ==
    ASSUME NEW ing, NEW a, a = ing.anns, NEW s \in HealthChecks, IsSet(a, s), Silent(ing, s)
    PROVE  Dropped(ing, s)
  <1>1. PICK b, u : /\ Reads(b, a, s) /\ HealthChecked(b)
                    /\ UpstreamSays(b, u) /\ UpstreamSays(a, u)
                    /\ Noted(b, Services(ing)) = Noted(a, Services(ing))
    BY UpstreamApart
  <1>2. Get(b, s) = "" /\ ~IsSet(b, s)
    BY <1>1 DEF Reads
  <1>3. s # "health-check-path"
    <2>1. s = "health-check-path" => "health-check-path" \in Noted(b, Services(ing))
      BY <1>1, <1>2, NotedIs
    <2>2. s = "health-check-path" => "health-check-path" \notin Noted(a, Services(ing))
      BY NotedIs
    <2>3. QED
      BY <1>1, <2>1, <2>2
  <1>4. WithUnit(Get(b, s)) # WithUnit(Get(a, s))
    BY <1>2, UnitKept DEF IsSet
  <1>5. s # "health-check-interval" /\ s # "health-check-timeout"
    BY <1>1, <1>4 DEF UpstreamSays
  <1>6. s = "health-check-retries"
    BY <1>3, <1>5 DEF HealthChecks
  <1>7. ~IsPositive(Get(a, s))
    <2>1. Successes(b) = {}
      BY <1>2, <1>6, NumeralAssumption DEF Successes, IsNumber
    <2>2. Successes(a) = {}
      BY <1>1, <2>1 DEF UpstreamSays
    <2>3. QED
      BY <1>6, <2>2 DEF Successes, IsPositive
  <1>8. QED
    BY <1>6, <1>7, UpstreamApart DEF Dropped

-----------------------------------------------------------------------------
(* Limits of the rate of requests *)

\* What a limit would be were there no multiplier, and its rate with one.
Base(a, l) == Number[Get(a, l[1])] * l[2]

LEMMA PerMinuteIs ==
    ASSUME NEW a, NEW l \in ParsedLimits(a)
    PROVE  /\ Base(a, l) \in Nat /\ Scale(a) \in Nat \ {0}
           /\ PerMinute(a, l) = Base(a, l) * Scale(a)
           /\ PerMinute(a, l) \in Nat
  <1>1. l \in Limits /\ Get(a, l[1]) \in DOMAIN Number
    BY DEF ParsedLimits, IsNumber
  <1>2. l[2] = 60 \/ l[2] = 1
    <2>1. l = <<"limit-rps", 60>> \/ l = <<"limit-rpm", 1>>
      BY <1>1 DEF Limits
    <2>2. QED
      BY <2>1
  <1>3. PICK n : n = Number[Get(a, l[1])] /\ n \in Nat
    BY <1>1, NumeralAssumption
  <1>4. PICK c : c = Scale(a) /\ c \in Nat \ {0}
    <2>1. PICK v : v = Get(a, "limit-multiplier")
      OBVIOUS
    <2>2. Scale(a) = IF v \in DOMAIN Number /\ Number[v] > 0 THEN Number[v] ELSE 1
      BY <2>1 DEF Scale, IsNumber
    <2>3. v \in DOMAIN Number => Number[v] \in Nat
      BY NumeralAssumption
    <2>4. Scale(a) \in Nat \ {0}
      BY <2>2, <2>3
    <2>5. QED
      BY <2>4
  <1>5. PerMinute(a, l) = n * c * l[2] /\ Base(a, l) = n * l[2]
    BY <1>3, <1>4 DEF PerMinute, Base
  <1>6. n * c \in Nat /\ n * l[2] \in Nat
    BY <1>2, <1>3, <1>4
  <1>7. n * c * l[2] = (n * l[2]) * c /\ n * c * l[2] \in Nat
    <2>1. CASE l[2] = 1
      BY <1>3, <1>4, <1>6, <2>1
    <2>2. CASE l[2] = 60
      <3>1. (n * 60) * c = (n * c) * 60
        BY <1>3, <1>4
      <3>2. QED
        BY <1>3, <1>4, <1>6, <2>2, <3>1
    <2>3. QED
      BY <1>2, <2>1, <2>2
  <1>8. QED
    BY <1>4, <1>5, <1>6, <1>7

LEMMA LowestIs ==
    ASSUME NEW S, NEW p \in Nat, NEW q \in Nat, S \subseteq {p, q}, S # {}
    PROVE  Lowest(S) \in S /\ \A r \in S : Lowest(S) <= r
  <1>1. \E r \in S : \A t \in S : r <= t
    <2>1. CASE p \in S /\ q \in S
      <3>1. CASE p <= q
        BY <2>1, <3>1
      <3>2. CASE ~(p <= q)
        BY <2>1, <3>2
      <3>3. QED
        BY <3>1, <3>2
    <2>2. CASE p \notin S
      <3>1. q \in S /\ \A t \in S : t = q
        BY <2>2
      <3>2. q <= q
        OBVIOUS
      <3>3. QED
        BY <3>1, <3>2
    <2>3. CASE q \notin S
      <3>1. p \in S /\ \A t \in S : t = p
        BY <2>3
      <3>2. p <= p
        OBVIOUS
      <3>3. QED
        BY <3>1, <3>2
    <2>4. QED
      BY <2>1, <2>2, <2>3
  <1>2. QED
    BY <1>1 DEF Lowest

\* The rate is that of one of the limits, and no other one has a lower rate.
LEMMA RateIs ==
    ASSUME NEW a, ParsedLimits(a) # {}
    PROVE  /\ \E l \in ParsedLimits(a) : Rate(a) = PerMinute(a, l)
           /\ \A l \in ParsedLimits(a) : Rate(a) <= PerMinute(a, l)
           /\ Rate(a) \in Nat
  <1> DEFINE S == {PerMinute(a, l) : l \in ParsedLimits(a)}
  <1>1. PICK e, f : e = <<"limit-rps", 60>> /\ f = <<"limit-rpm", 1>>
    OBVIOUS
  <1>2. ParsedLimits(a) \subseteq {e, f}
    BY <1>1 DEF ParsedLimits, Limits
  <1>3. PICK p \in Nat : e \in ParsedLimits(a) => p = PerMinute(a, e)
    BY PerMinuteIs
  <1>4. PICK q \in Nat : f \in ParsedLimits(a) => q = PerMinute(a, f)
    BY PerMinuteIs
  <1>5. S \subseteq {p, q} /\ S # {}
    BY <1>2, <1>3, <1>4
  <1>6. Lowest(S) \in S /\ \A r \in S : Lowest(S) <= r
    BY <1>5, LowestIs
  <1>7. Rate(a) = Lowest(S)
    BY DEF Rate
  <1> HIDE DEF S
  <1>8. Rate(a) \in S /\ \A r \in S : Rate(a) <= r
    BY <1>6, <1>7
  <1>9. Rate(a) \in Nat
    BY <1>5, <1>8
  <1>10. QED
    BY <1>8, <1>9 DEF S

\* What the limit-req plugin says.
Rejected(a) == IF SnippetOf(a).status = "" THEN "429" ELSE SnippetOf(a).status

LEMMA LimitMade ==
    ASSUME NEW a
    PROVE  /\ ParsedLimits(a) = {} => LimitReq(a) = <<>>
           /\ ParsedLimits(a) # {} =>
                 \E x : /\ LimitReq(a) = <<x>>
                       /\ x.config.rate = Rate(a) /\ x.config.burst = Burst(a)
                       /\ x.config.rejected_code = Rejected(a)
  <1>1. ParsedLimits(a) = {} => LimitReq(a) = <<>>
    BY DEF LimitReq, When
  <1>2. ASSUME ParsedLimits(a) # {}
        PROVE  \E x : /\ LimitReq(a) = <<x>>
                      /\ x.config.rate = Rate(a) /\ x.config.burst = Burst(a)
                      /\ x.config.rejected_code = Rejected(a)
    <2>1. PICK r, d, c : /\ r = Rate(a) /\ d = Burst(a)
                         /\ c = Rejected(a)
      OBVIOUS
    <2>2. PICK g : g = [rate |-> r, burst |-> d, rejected_code |-> c]
      OBVIOUS
    <2>3. PICK x : x = Plugin("limit-req", g)
      OBVIOUS
    <2>4. LimitReq(a) = <<x>>
      BY <1>2, <2>1, <2>2, <2>3 DEF LimitReq, When, Rejected
    <2>5. x.config = g /\ g.rate = r /\ g.burst = d /\ g.rejected_code = c
      BY <2>2, <2>3 DEF Plugin
    <2>6. QED
      BY <2>1, <2>4, <2>5
  <1>3. QED
    BY <1>1, <1>2

LEMMA LimitsApart ==
    ASSUME NEW ing, NEW a, a = ing.anns, NEW s, s \notin {"limit-rps", "limit-rpm"},
           ParsedLimits(a) # {}, Silent(ing, s)
    PROVE  \E b : /\ Reads(b, a, s)
                  /\ ParsedLimits(b) = ParsedLimits(a)
                  /\ \A l \in Limits : Base(b, l) = Base(a, l)
                  /\ Rate(b) = Rate(a)
                  /\ Burst(b) = Burst(a)
                  /\ Rejected(b) = Rejected(a)
  <1>1. PICK w, b : Echo(w, b, a, ing, s)
    BY Echoes
  <1>2. Reads(b, a, s) /\ LimitReq(b) = LimitReq(a)
    BY <1>1 DEF Echo, SameBuilders
  <1>3. \A l \in Limits : Get(b, l[1]) = Get(a, l[1])
    <2>1. \A l \in Limits : l[1] # s
      BY DEF Limits
    <2>2. QED
      BY <1>2, <2>1 DEF Reads
  <1>4. ParsedLimits(b) = ParsedLimits(a) /\ \A l \in Limits : Base(b, l) = Base(a, l)
    BY <1>3 DEF ParsedLimits, Base
  <1>5. PICK x : /\ LimitReq(a) = <<x>> /\ x.config.rate = Rate(a) /\ x.config.burst = Burst(a)
                 /\ x.config.rejected_code = Rejected(a)
    BY LimitMade
  <1>6. PICK y : /\ LimitReq(b) = <<y>> /\ y.config.rate = Rate(b) /\ y.config.burst = Burst(b)
                 /\ y.config.rejected_code = Rejected(b)
    BY <1>4, LimitMade
  <1>7. <<x>> = <<y>>
    BY <1>2, <1>5, <1>6
  <1>8. x = y
    BY <1>7
  <1>9. QED
    BY <1>2, <1>4, <1>5, <1>6, <1>8

LEMMA MultiplierTells ==
    ASSUME NEW ing, NEW a, a = ing.anns, ParsedLimits(a) # {}, Rate(a) # 0,
           Silent(ing, "limit-multiplier"), IsPositive(Get(a, "limit-multiplier"))
    PROVE  Number[Get(a, "limit-multiplier")] = 1
  <1>1. PICK b : /\ Reads(b, a, "limit-multiplier")
                 /\ ParsedLimits(b) = ParsedLimits(a)
                 /\ \A l \in Limits : Base(b, l) = Base(a, l)
                 /\ Rate(b) = Rate(a)
    BY LimitsApart
  <1>2. PICK c \in Nat \ {0} : c = Number[Get(a, "limit-multiplier")] /\ c = Scale(a)
    <2>1. Number[Get(a, "limit-multiplier")] \in Nat
      BY NumeralAssumption DEF IsPositive, IsNumber
    <2>2. Scale(a) = Number[Get(a, "limit-multiplier")]
      BY DEF IsPositive, Scale
    <2>3. QED
      BY <2>1, <2>2 DEF IsPositive
  <1>3. Scale(b) = 1
    BY <1>1, NumeralAssumption DEF Reads, Scale, IsNumber
  <1>4. PICK l \in ParsedLimits(a) : Rate(a) = PerMinute(a, l)
    BY RateIs
  <1>5. Rate(b) <= PerMinute(b, l)
    BY <1>1, <1>4, RateIs
  <1>6. PICK n \in Nat : n = Base(a, l) /\ n = Base(b, l)
    BY <1>1, PerMinuteIs DEF ParsedLimits
  <1>7. PerMinute(a, l) = n * c /\ PerMinute(b, l) = n * 1
    BY <1>1, <1>2, <1>3, <1>6, PerMinuteIs
  <1>8. n * c <= n /\ n * c # 0
    BY <1>1, <1>4, <1>5, <1>6, <1>7
  <1>9. c = 1
    <2>1. n > 0
      BY <1>2, <1>6, <1>8
    <2>2. c > 1 => n * c > n
      BY <1>2, <1>6, <2>1
    <2>3. QED
      BY <1>2, <1>6, <1>8, <2>2
  <1>10. QED
    BY <1>2, <1>9

LEMMA BurstMultiplierTells ==
    ASSUME NEW ing, NEW a, a = ing.anns, ParsedLimits(a) # {}, Silent(ing, "limit-burst-multiplier")
    PROVE  Burst(a) = (Rate(a) * 5) \div 60
  <1>1. PICK b : Reads(b, a, "limit-burst-multiplier") /\ Rate(b) = Rate(a) /\ Burst(b) = Burst(a)
    BY LimitsApart
  <1>2. ~IsNumber(Get(b, "limit-burst-multiplier"))
    BY <1>1, NumeralAssumption DEF Reads, IsNumber
  <1>3. Burst(b) = (Rate(b) * 5) \div 60
    BY <1>2 DEF Burst
  <1>4. QED
    BY <1>1, <1>3

\* A snippet that makes no difference says nothing that is taken, but for the code that
\* is the default one anyway, or that there is no limit for.
LEMMA SnippetTells ==
    ASSUME NEW ing, NEW a, a = ing.anns, Silent(ing, "configuration-snippet")
    PROVE  /\ TakesNothingElse(Get(a, "configuration-snippet"))
           /\ \/ SnippetOf(a).status = "" \/ SnippetOf(a).status = "429"
              \/ ParsedLimits(a) = {}
  <1>1. PICK w, b : Echo(w, b, a, ing, "configuration-snippet")
    BY Echoes
  <1>2. PICK none : none = SnippetOf(b) /\ none = Snippet[""]
    BY <1>1 DEF Echo, Reads, SnippetOf
  <1>3. /\ none.rewrites = <<>> /\ none.add = {} /\ none.more = {}
        /\ none.status = "" /\ none.flags = {} /\ ~none.errors
    BY <1>2, SnippetAssumption
  <1>4. /\ SameBuilders(b, a, w, ing) /\ Reads(b, a, "configuration-snippet")
        /\ Noted(b, Services(ing)) = Noted(a, Services(ing))
        /\ b = w.anns /\ OnlyAnnotated(w, ing)
    BY <1>1 DEF Echo
  <1>5. SnippetOf(a).flags = {}
    <2>1. ProxyCookieFlags(b) = <<>>
      BY <1>2, <1>3 DEF ProxyCookieFlags, When
    <2>2. SnippetOf(a).flags # {} => ProxyCookieFlags(a) # <<>>
      BY DEF ProxyCookieFlags, When
    <2>3. QED
      BY <1>4, <2>1, <2>2 DEF SameBuilders
  <1>6. SnippetOf(a).add \cup SnippetOf(a).more = {}
    <2>1. ResponseRewrite(b) = <<>>
      BY <1>2, <1>3 DEF ResponseRewrite, When
    <2>2. SnippetOf(a).add \cup SnippetOf(a).more # {} => ResponseRewrite(a) # <<>>
      BY DEF ResponseRewrite, When
    <2>3. QED
      BY <1>4, <2>1, <2>2 DEF SameBuilders
  <1>7. ~SnippetOf(a).errors
    <2>1. "configuration-snippet" \notin Noted(b, Services(ing))
      BY <1>2, <1>3, NotedIs
    <2>2. QED
      BY <1>4, <2>1, NotedIs
  <1>8. SnippetOf(a).rewrites = <<>>
    <2>1. SUFFICES ASSUME SnippetOf(a).rewrites # <<>>
                   PROVE  FALSE
      OBVIOUS
    <2>2. PICK p, t, d : /\ p = RewrittenPaths(ing) /\ d = SnippetOf(ing.anns).rewrites
                         /\ t = IF RewrittenPaths(ing) = {} THEN "" ELSE Get(ing.anns, "rewrite-target")
      OBVIOUS
    <2>3. PICK y : y = Plugin("proxy-rewrite", [paths |-> p, target |-> t, rewrites |-> d])
      OBVIOUS
    <2>4. ProxyRewrite(ing) = <<y>> /\ y.config.rewrites = d /\ d # <<>>
      <3>1. d # <<>>
        BY <2>1, <2>2
      <3>2. ProxyRewrite(ing) = <<y>>
        BY <2>2, <2>3, <3>1 DEF ProxyRewrite, When
      <3>3. y.config.rewrites = d
        BY <2>3 DEF Plugin
      <3>4. QED
        BY <3>1, <3>2, <3>3
    <2>5. SnippetOf(w.anns).rewrites = <<>>
      BY <1>2, <1>3, <1>4
    <2>6. CASE RewrittenPaths(w) = {}
      <3>1. ProxyRewrite(w) = <<>>
        BY <2>5, <2>6 DEF ProxyRewrite, When
      <3>2. <<y>> = <<>>
        BY <1>4, <2>4, <3>1 DEF SameBuilders
      <3>3. QED
        BY <3>2
    <2>7. CASE RewrittenPaths(w) # {}
      <3>1. PICK q, u, e : /\ q = RewrittenPaths(w) /\ e = SnippetOf(w.anns).rewrites
                           /\ u = Get(w.anns, "rewrite-target")
        OBVIOUS
      <3>2. PICK x : x = Plugin("proxy-rewrite", [paths |-> q, target |-> u, rewrites |-> e])
        OBVIOUS
      <3>3. ProxyRewrite(w) = <<x>>
        BY <2>7, <3>1, <3>2 DEF ProxyRewrite, When
      <3>4. x.config.rewrites = e
        BY <3>2 DEF Plugin
      <3>5. <<x>> = <<y>>
        BY <1>4, <2>4, <3>3 DEF SameBuilders
      <3>6. x = y
        BY <3>5
      <3>7. QED
        BY <2>4, <2>5, <3>1, <3>4, <3>6
    <2>8. QED
      BY <2>6, <2>7
  <1>9. ASSUME ParsedLimits(a) # {}
        PROVE  SnippetOf(a).status = "" \/ SnippetOf(a).status = "429"
    <2>1. "configuration-snippet" \notin {"limit-rps", "limit-rpm"}
      OBVIOUS
    <2>2. PICK c : Reads(c, a, "configuration-snippet") /\ Rejected(c) = Rejected(a)
      BY <1>9, <2>1, LimitsApart
    <2>3. SnippetOf(c) = none
      BY <1>2, <2>2 DEF Reads, SnippetOf
    <2>4. Rejected(c) = "429"
      BY <1>3, <2>3 DEF Rejected
    <2>5. QED
      BY <2>2, <2>4 DEF Rejected
  <1>10. QED
    BY <1>5, <1>6, <1>7, <1>8, <1>9 DEF TakesNothingElse, SnippetOf

LEMMA LimitTells ==
    ASSUME NEW ing, NEW a, a = ing.anns, NEW s \in {"limit-rps", "limit-rpm"},
           IsSet(a, s), Silent(ing, s)
    PROVE  FALSE
  <1>1. PICK w, b : Echo(w, b, a, ing, s)
    BY Echoes
  <1>2. /\ Reads(b, a, s) /\ LimitReq(b) = LimitReq(a)
        /\ Noted(b, Services(ing)) = Noted(a, Services(ing))
    BY <1>1 DEF Echo, SameBuilders
  <1>3. PICK l : l \in Limits /\ l[1] = s /\ \A m \in Limits : m[1] = s => m = l
    <2>1. PICK e, f : e = <<"limit-rps", 60>> /\ f = <<"limit-rpm", 1>>
      OBVIOUS
    <2>2. Limits = {e, f} /\ e[1] = "limit-rps" /\ f[1] = "limit-rpm"
      BY <2>1 DEF Limits
    <2>3. QED
      BY <2>2
  <1>4. ~IsNumber(Get(b, s)) /\ ~IsSet(b, s)
    BY <1>2, NumeralAssumption DEF Reads, IsNumber
  <1>5. \A m \in Limits : m # l => Get(b, m[1]) = Get(a, m[1])
    BY <1>2, <1>3 DEF Reads
  <1>6. l \notin ParsedLimits(b)
    BY <1>3, <1>4 DEF ParsedLimits
  <1>7. ParsedLimits(b) # Limits
    BY <1>3, <1>6
  <1>8. s \notin Noted(b, Services(ing))
    BY <1>4, <1>7, NotedIs DEF Unparsed
  <1>9. ~Unparsed(a, s) /\ ParsedLimits(a) # Limits
    BY <1>2, <1>8, NotedIs
  <1>10. l \in ParsedLimits(a)
    BY <1>3, <1>9 DEF Unparsed, ParsedLimits
  <1>11. ParsedLimits(b) = {}
    <2>1. PICK e, f : e = <<"limit-rps", 60>> /\ f = <<"limit-rpm", 1>>
      OBVIOUS
    <2>2. Limits = {e, f}
      BY <2>1 DEF Limits
    <2>3. \A m \in ParsedLimits(b) : m \in ParsedLimits(a) /\ m \in Limits /\ m # l
      BY <1>5, <1>6 DEF ParsedLimits
    <2>4. ParsedLimits(a) \subseteq Limits
      BY DEF ParsedLimits
    <2>5. QED
      BY <1>3, <1>9, <1>10, <2>2, <2>3, <2>4
  <1>12. LimitReq(b) = <<>>
    BY <1>11, LimitMade
  <1>13. PICK x : LimitReq(a) = <<x>>
    BY <1>10, LimitMade
  <1>14. <<x>> # <<>>
    OBVIOUS
  <1>15. QED
    BY <1>2, <1>12, <1>13, <1>14

-----------------------------------------------------------------------------
(* All of them *)

\* What is asked for, and not dropped.
AsksFor(ing, s) ==
    IsSet(ing.anns, s) /\ ~Idle(ing, s) /\ ~Repeats(ing, s) /\ ~Default(ing, s) /\ ~Dropped(ing, s)

\* The annotations that convertAnnotations reads and no one else.
RenamedNames ==
    {"backend-protocol", "whitelist-source-range", "denylist-source-range", "auth-url", "auth-method",
     "auth-request-headers", "auth-response-headers", "auth-signin", "auth-realm", "custom-http-errors"}
TimeoutNames == {"proxy-connect-timeout", "proxy-send-timeout", "proxy-read-timeout"}

LEMMA TakenOver ==
    /\ \A s \in RenamedNames : \E r \in Renamed : r[1] = s
    /\ \A s \in TimeoutNames : \E r \in Timeouts : r[1] = s
  <1>1. \A s \in RenamedNames : \E t : <<s, t>> \in Renamed
    BY Zenon DEF RenamedNames, Renamed
  <1>2. \A s \in TimeoutNames : \E t : <<s, t>> \in Timeouts
    BY Zenon DEF TimeoutNames, Timeouts
  <1>3. \A s, t : <<s, t>>[1] = s
    OBVIOUS
  <1>4. QED
    BY <1>1, <1>2, <1>3, Zenon

LEMMA WrittenTell ==
    ASSUME NEW ing, NEW a, a = ing.anns, NEW s, AsksFor(ing, s), Silent(ing, s),
           s \in RenamedNames \cup TimeoutNames
                 \cup {"ssl-redirect", "force-ssl-redirect", "app-root", "temporal-redirect",
                       "permanent-redirect", "enable-access-log", "websocket-services", "use-regex"}
    PROVE  FALSE
  <1>0. IsSet(a, s) /\ ~Idle(ing, s) /\ ~Repeats(ing, s) /\ ~Default(ing, s)
    BY DEF AsksFor
  <1>1. CASE s \in RenamedNames
    <2>1. PICK r \in Renamed : r[1] = s
      BY <1>1, TakenOver
    <2>2. Get(a, s) = Otherwise(ing, r[2])
      BY <1>0, <2>1, RenamedTells
    <2>3. QED
      BY <1>0, <2>1, <2>2, Zenon DEF Repeats
  <1>2. CASE s \in TimeoutNames
    <2>1. PICK r \in Timeouts : r[1] = s
      BY <1>2, TakenOver
    <2>2. WithUnit(Get(a, s)) = Otherwise(ing, r[2])
      BY <1>0, <2>1, TimeoutTells
    <2>3. QED
      BY <1>0, <2>1, <2>2, Zenon DEF Repeats
  <1>3. CASE s = "ssl-redirect"
    <2>1. ~IsSSLRedirect(a) /\ ~Has(a, "force-ssl-redirect")
      BY <1>0, <1>3 DEF Idle
    <2>2. Get(a, s) = Otherwise(ing, "http-to-https")
      BY <1>0, <1>3, <2>1, SslRedirectTells
    <2>3. QED
      BY <1>0, <1>3, <2>2 DEF Repeats
  <1>4. CASE s = "force-ssl-redirect"
    <2>1. ~IsSSLRedirect(a) /\ ~SaysHttps(ing)
      BY <1>0, <1>4 DEF Idle
    <2>2. QED
      BY <1>0, <1>4, <2>1, ForceTells
  <1>5. CASE s = "app-root"
    <2>1. Get(a, s) = Landing(ing)
      BY <1>0, <1>5, RedirectTells
    <2>2. QED
      BY <1>0, <1>5, <2>1 DEF Repeats
  <1> DEFINE alone == \A t \in {"app-root", "temporal-redirect", "permanent-redirect"} \ {s} : ~IsSet(a, t)
  <1>6. CASE s \in {"temporal-redirect", "permanent-redirect"} /\ alone
    <2>1. /\ Get(a, s) = Otherwise(ing, "http-redirect")
          /\ HttpRedirectCode(a) = Otherwise(ing, "http-redirect-code")
      BY <1>0, <1>6, RedirectTells
    <2>2. QED
      BY <1>0, <1>6, <2>1 DEF Repeats
  <1>7. CASE s = "temporal-redirect" /\ ~alone
    <2>1. IsSet(a, "app-root") \/ IsSet(a, "permanent-redirect")
      BY <1>7
    <2>2. IsSet(a, "permanent-redirect") \/ Otherwise(ing, "http-redirect-code") # "302"
      BY <1>0, <1>7, <2>1 DEF Idle
    <2>3. QED
      BY <1>0, <1>7, <2>2, CodeTells
  <1>8. CASE s = "permanent-redirect" /\ ~alone
    <2>1. ~IsSet(a, "temporal-redirect")
      BY <1>0, <1>8 DEF Idle
    <2>2. IsSet(a, "app-root")
      BY <1>8, <2>1
    <2>3. Otherwise(ing, "http-redirect-code") # "308"
      BY <1>0, <1>8, <2>2 DEF Idle
    <2>4. QED
      BY <1>0, <1>8, <2>1, <2>3, CodeTells
  <1> HIDE DEF alone
  <1>9. CASE s = "enable-access-log"
    <2>1. AccessLog(a) = Otherwise(ing, s)
      BY <1>0, <1>9, AccessLogTells
    <2>2. QED
      BY <1>0, <1>9, <2>1 DEF Repeats
  <1>10. CASE s = "websocket-services"
    <2>1. Otherwise(ing, "enable-websocket") # "true"
      BY <1>0, <1>10 DEF Idle
    <2>2. QED
      BY <1>0, <1>10, <2>1, SwitchTells
  <1>11. CASE s = "use-regex"
    <2>1. ~NeedsRegex(ing) /\ Otherwise(ing, "use-regex") # "true"
      BY <1>0, <1>11 DEF Idle
    <2>2. Get(a, s) = "true"
      BY <1>0, <1>11 DEF Default
    <2>3. QED
      BY <1>11, <2>1, <2>2, SwitchTells
  <1>12. QED
    BY <1>1, <1>2, <1>3, <1>4, <1>5, <1>6, <1>7, <1>8, <1>9, <1>10, <1>11

LEMMA CorsTell ==
    ASSUME NEW ing, NEW a, a = ing.anns, NEW s, AsksFor(ing, s), Silent(ing, s),
           s \in CorsOptions \cup {"enable-cors"}
    PROVE  FALSE
  <1>0. IsSet(a, s) /\ ~Idle(ing, s) /\ ~Default(ing, s) /\ ~Dropped(ing, s)
    BY DEF AsksFor
  <1>1. CASE s = "enable-cors"
    BY <1>0, <1>1, BuiltTells
  <1>2. CASE s \in CorsOptions
    <2>1. CorsIsOn(a)
      BY <1>0, <1>2 DEF Idle, CorsIsOn
    <2>2. CASE s = "cors-expose-headers"
      BY <1>0, <2>1, <2>2, ExposeTells
    <2>3. CASE s = "cors-max-age"
      <3>1. IsNumber(Get(a, s))
        BY <1>0, <2>3 DEF Dropped
      <3>2. Number[Get(a, s)] = DefaultAge
        BY <1>0, <2>1, <2>3, <3>1, CorsWordTells
      <3>3. QED
        BY <1>0, <2>3, <3>1, <3>2 DEF Default
    <2>4. CASE s \in {"cors-allow-methods", "cors-allow-headers"}
      <3>1. Get(a, s) = "default"
        BY <1>0, <2>1, <2>4, CorsWordTells
      <3>2. QED
        BY <1>0, <2>4, <3>1 DEF Default
    <2>5. CASE s = "cors-allow-origin"
      <3>1. Get(a, s) = "*"
        BY <1>0, <2>1, <2>5, CorsWordTells
      <3>2. QED
        BY <1>0, <2>5, <3>1 DEF Default
    <2>6. CASE s = "cors-allow-credentials"
      <3>1. Get(a, s) = "true"
        BY <1>0, <2>1, <2>6, CorsWordTells
      <3>2. QED
        BY <1>0, <2>6, <3>1 DEF Default
    <2>7. QED
      BY <1>2, <2>2, <2>3, <2>4, <2>5, <2>6 DEF CorsOptions
  <1>3. QED
    BY <1>1, <1>2

LEMMA SessionTell ==
    ASSUME NEW ing, NEW a, a = ing.anns, NEW s, AsksFor(ing, s), Silent(ing, s),
           s \in SessionOptions \cup {"session-cookie-hash"} \cup (Consumed(a) \cap {"session-cookie-name"})
    PROVE  FALSE
  <1>0. IsSet(a, s) /\ ~Idle(ing, s) /\ ~Repeats(ing, s) /\ ~Dropped(ing, s)
    BY DEF AsksFor
  <1>1. CASE s = "session-cookie-hash"
    BY <1>0, <1>1, CookieHashTells
  <1>2. CASE s = "session-cookie-name" /\ s \in Consumed(a)
    <2>1. HashIsSupported(a) \/ (CookieAffinity(a) /\ Services(ing) # {})
      BY <1>0, <1>2 DEF Idle
    <2>2. QED
      BY <1>0, <1>2, <2>1, CookieOptionTells
  <1>3. CASE s \in SessionOptions
    <2>1. HashIsSupported(a)
      BY <1>0, <1>3 DEF Idle
    <2>2. CASE s \in {"session-cookie-expires", "session-cookie-max-age"}
      BY <1>0, <2>1, <2>2, CookieAgeTells
    <2>3. CASE s = "session-cookie-path"
      BY <1>0, <2>1, <2>3, CookieOptionTells
    <2>4. CASE s = "session-cookie-conditional-samesite-none"
      BY <1>0, <2>1, <2>4, PresenceTells
    <2>5. QED
      BY <1>3, <2>2, <2>3, <2>4 DEF SessionOptions
  <1>4. QED
    BY <1>1, <1>2, <1>3

LEMMA LimitsTell ==
    ASSUME NEW ing, NEW a, a = ing.anns, NEW s, AsksFor(ing, s), Silent(ing, s),
           s \in {"limit-rps", "limit-rpm", "limit-multiplier", "limit-burst-multiplier", "limit-connections"}
    PROVE  FALSE
  <1>0. IsSet(a, s) /\ ~Idle(ing, s) /\ ~Default(ing, s) /\ ~Dropped(ing, s)
    BY DEF AsksFor
  <1>1. CASE s \in {"limit-rps", "limit-rpm"}
    BY <1>0, <1>1, LimitTells
  <1>2. CASE s \in {"limit-multiplier", "limit-burst-multiplier"}
    <2>1. ParsedLimits(a) # {} /\ Rate(a) # 0
      BY <1>0, <1>2 DEF Idle
    <2>2. IsPositive(Get(a, s))
      BY <1>0, <1>2 DEF Dropped
    <2>3. CASE s = "limit-multiplier"
      <3>1. Number[Get(a, s)] = 1
        BY <2>1, <2>2, <2>3, MultiplierTells
      <3>2. QED
        BY <1>0, <2>2, <2>3, <3>1 DEF Default, IsPositive
    <2>4. CASE s = "limit-burst-multiplier"
      <3>1. Burst(a) = (Rate(a) * 5) \div 60
        BY <2>1, <2>4, BurstMultiplierTells
      <3>2. QED
        BY <1>0, <2>2, <2>4, <3>1 DEF Default, IsPositive
    <2>5. QED
      BY <1>2, <2>3, <2>4
  <1>3. CASE s = "limit-connections"
    BY <1>0, <1>3, BuiltTells
  <1>4. QED
    BY <1>1, <1>2, <1>3

LEMMA OthersTell ==
    ASSUME NEW ing, NEW a, a = ing.anns, NEW s, AsksFor(ing, s), Silent(ing, s),
           s \in {"auth-type", "proxy-redirect-from", "proxy-redirect-to", "rewrite-target",
                  "configuration-snippet", "upstream-vhost", "proxy-cookie-path", "proxy-body-size",
                  "proxy-request-buffering", "enable-real-ip", "use-forwarded-headers",
                  "compute-full-forwarded-for", "forwarded-for-header", "ssl-verify", "upstream-hash-by"}
    PROVE  FALSE
  <1>0. IsSet(a, s) /\ ~Idle(ing, s) /\ ~Repeats(ing, s) /\ ~Default(ing, s) /\ ~Dropped(ing, s)
    BY DEF AsksFor
  <1>1. CASE s = "auth-type"
    <2>1. Get(a, s) # "digest" /\ AuthType(a) = Otherwise(ing, "auth-type")
      BY <1>0, <1>1, AuthTypeTells
    <2>2. QED
      BY <1>0, <1>1, <2>1 DEF Repeats
  <1>2. CASE s \in {"proxy-redirect-from", "proxy-redirect-to"}
    <2>1. IsSet(a, "proxy-redirect-from") /\ IsSet(a, "proxy-redirect-to")
      BY <1>0, <1>2 DEF Idle
    <2>2. IsSSLRedirect(a) /\ (Has(a, "force-ssl-redirect") \/ SaysHttps(ing))
      BY <1>2, <2>1, ProxyRedirectTells
    <2>3. QED
      BY <1>0, <1>2, <2>2 DEF Idle
  <1>3. CASE s = "rewrite-target"
    <2>1. \E i \in DOMAIN ing.paths : ing.paths[i].path # ""
      BY <1>0, <1>3 DEF Idle
    <2>2. QED
      BY <1>0, <1>3, <2>1, RewriteTargetTells
  <1>4. CASE s = "configuration-snippet"
    <2>1. /\ TakesNothingElse(Get(a, s))
          /\ \/ Snippet[Get(a, s)].status = "" \/ Snippet[Get(a, s)].status = "429"
             \/ ParsedLimits(a) = {}
      BY <1>4, SnippetTells DEF SnippetOf
    <2>2. ~(Snippet[Get(a, s)].status = "429")
      BY <1>0, <1>4, <2>1 DEF Default
    <2>3. ~(Snippet[Get(a, s)].status = "" \/ ParsedLimits(a) = {})
      BY <1>0, <1>4, <2>1 DEF Dropped
    <2>4. QED
      BY <2>1, <2>2, <2>3
  <1>5. CASE s = "upstream-vhost"
    BY <1>0, <1>5, BuiltTells
  <1>6. CASE s = "proxy-cookie-path"
    BY <1>0, <1>6, CookiePathTells
  <1>7. CASE s = "proxy-body-size"
    BY <1>0, <1>7, BodySizeTells
  <1>8. CASE s = "proxy-request-buffering"
    <2>1. Get(a, s) \notin {"off", "false"}
      BY <1>8, BufferingTells
    <2>2. QED
      BY <1>0, <1>8, <2>1 DEF Default
  <1>9. CASE s = "enable-real-ip"
    <2>1. ~RealIPIsOn(a)
      BY <1>0, <1>9, EnableRealIPTells
    <2>2. QED
      BY <1>0, <1>9, <2>1 DEF Default
  <1>10. CASE s = "use-forwarded-headers"
    <2>1. /\ Get(a, s) # "true"
          /\ SwitchesOnRealIP(a, {"enable-real-ip", "use-forwarded-headers", "forwarded-for-header"} \ {s})
      BY <1>0, <1>10, ForwardedTells
    <2>2. {"enable-real-ip", "use-forwarded-headers", "forwarded-for-header"} \ {s}
             = {"enable-real-ip", "forwarded-for-header"}
      BY <1>10
    <2>3. SwitchesOnRealIP(a, {"enable-real-ip", "forwarded-for-header"})
      BY <2>1, <2>2
    <2>4. QED
      BY <1>0, <1>10, <2>1, <2>3 DEF Default
  <1>11. CASE s = "forwarded-for-header"
    <2>1. /\ HeaderVar[Get(a, s)] = "http_x_forwarded_for"
          /\ SwitchesOnRealIP(a, {"enable-real-ip", "use-forwarded-headers", "forwarded-for-header"} \ {s})
      BY <1>0, <1>11, ForwardedTells
    <2>2. {"enable-real-ip", "use-forwarded-headers", "forwarded-for-header"} \ {s}
             = {"enable-real-ip", "use-forwarded-headers"}
      BY <1>11
    <2>3. SwitchesOnRealIP(a, {"enable-real-ip", "use-forwarded-headers"})
      BY <2>1, <2>2
    <2>4. QED
      BY <1>0, <1>11, <2>1, <2>3 DEF Default
  <1>12. CASE s = "compute-full-forwarded-for"
    <2>1. RealIPIsOn(a)
      BY <1>0, <1>12 DEF Idle
    <2>2. Get(a, s) # "true"
      BY <1>12, <2>1, FullForwardedTells
    <2>3. QED
      BY <1>0, <1>12, <2>2 DEF Default
  <1>13. CASE s = "ssl-verify"
    BY <1>0, <1>13, PresenceTells
  <1>14. CASE s = "upstream-hash-by"
    BY <1>0, <1>14, PolicyTells
  <1>15. QED
    BY <1>1, <1>2, <1>3, <1>4, <1>5, <1>6, <1>7, <1>8, <1>9, <1>10, <1>11, <1>12, <1>13, <1>14

\* An annotation that asks for something, and is not one of those dropped, matters.
LEMMA AnnotationMatters ==
    ASSUME NEW ing, Whole(ing), NEW s, AsksFor(ing, s)
    PROVE  Matters(ing, s)
  <1> SUFFICES ASSUME ~Matters(ing, s)
               PROVE  FALSE
    OBVIOUS
  <1>1. Silent(ing, s) /\ IsSet(ing.anns, s)
    BY Silence DEF AsksFor
  <1>2. PICK a : a = ing.anns
    OBVIOUS
  <1>3. CASE s \notin Handled \cup Consumed(a)
    BY <1>1, <1>2, <1>3, LostTells
  <1>4. CASE s \in Consumed(a)
    <2>1. s = "session-cookie-name" \/ (s = "affinity" /\ CookieAffinity(a))
      BY <1>4 DEF Consumed
    <2>2. CASE s = "session-cookie-name"
      BY <1>1, <1>2, <1>4, <2>2, SessionTell
    <2>3. CASE s = "affinity" /\ CookieAffinity(a)
      BY <1>1, <1>2, <2>3, PolicyTells
    <2>4. QED
      BY <2>1, <2>2, <2>3
  <1>5. CASE s \in Handled
    <2> DEFINE written == RenamedNames \cup TimeoutNames
                 \cup {"ssl-redirect", "force-ssl-redirect", "app-root", "temporal-redirect",
                       "permanent-redirect", "enable-access-log", "websocket-services", "use-regex"}
               cors == CorsOptions \cup {"enable-cors"}
               session == SessionOptions \cup {"session-cookie-hash"}
               limits == {"limit-rps", "limit-rpm", "limit-multiplier", "limit-burst-multiplier",
                          "limit-connections"}
               others == {"auth-type", "proxy-redirect-from", "proxy-redirect-to", "rewrite-target",
                  "configuration-snippet", "upstream-vhost", "proxy-cookie-path", "proxy-body-size",
                  "proxy-request-buffering", "enable-real-ip", "use-forwarded-headers",
                  "compute-full-forwarded-for", "forwarded-for-header", "ssl-verify", "upstream-hash-by"}
    <2>1. s \in written \cup cors \cup session \cup limits \cup HealthChecks \cup others \cup {"affinity-mode"}
      BY <1>5 DEF Handled, RenamedNames, TimeoutNames, CorsOptions, SessionOptions
    <2>2. s \notin written
      BY <1>1, <1>2, WrittenTell
    <2>3. s \notin cors
      BY <1>1, <1>2, CorsTell
    <2>4. s \notin session
      BY <1>1, <1>2, SessionTell
    <2>5. s \notin limits
      BY <1>1, <1>2, LimitsTell
    <2>6. s \notin HealthChecks
      BY <1>1, <1>2, HealthTells DEF AsksFor
    <2>7. s \notin others
      BY <1>1, <1>2, OthersTell
    <2>8. s # "affinity-mode"
      BY DEF AsksFor, Dropped
    <2> HIDE DEF written, cors, session, limits, others
    <2>9. QED
      BY <2>1, <2>2, <2>3, <2>4, <2>5, <2>6, <2>7, <2>8
  <1>6. QED
    BY <1>3, <1>4, <1>5

LEMMA InvNothingSilentlyLost == Inv => NothingSilentlyLost
  <1> SUFFICES ASSUME Inv, FirstRun, NEW i \in DOMAIN ingresses,
                      NEW s, AsksFor(ingresses[i], s)
               PROVE  Matters(ingresses[i], s)
    BY DEF NothingSilentlyLost, AsksFor
  <1>1. Whole(ingresses[i])
    BY Shape
  <1>2. QED
    BY <1>1, AnnotationMatters

\* Whatever the Ingresses say, an annotation of nginx's that asks for something is
\* converted or reported: the result, warnings included, would be another if it were
\* not there.  What asks for nothing is what Idle, Repeats and Default say, and what
\* is lost with no word is what Dropped names.
THEOREM SilentTheorem == Spec => []NothingSilentlyLost
  BY Invariance, InvNothingSilentlyLost, PTL
=============================================================================
