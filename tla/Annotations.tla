---------------------------- MODULE Annotations ----------------------------
(***************************************************************************)
(* The annotations of an Ingress, and how the converter looks one up       *)
(* (pkg/converter/converter.go).  A key is a pair of a prefix and a        *)
(* suffix: <<"nginx", "ssl-redirect">> is the annotation                   *)
(* nginx.ingress.kubernetes.io/ssl-redirect, "plain" stands for            *)
(* ingress.kubernetes.io, "apisix" for k8s.apisix.apache.org and           *)
(* "kubernetes" for kubernetes.io.  Annotations are a function from the    *)
(* keys an Ingress has to their values.                                    *)
(***************************************************************************)

Prefixes == {"nginx", "plain", "apisix", "kubernetes"}
NginxPrefixes == {"nginx", "plain"}

\* isNginxAnnotation
IsNginx(k) == k[1] \in NginxPrefixes

ValueOf(anns, k) == IF k \in DOMAIN anns THEN anns[k] ELSE ""

\* getAnnotation: the value under the first prefix, or else under the second,
\* that is not empty.  It is "" where the code returns false.
Get(anns, s) ==
    IF ValueOf(anns, <<"nginx", s>>) # "" THEN ValueOf(anns, <<"nginx", s>>)
    ELSE ValueOf(anns, <<"plain", s>>)

IsSet(anns, s) == Get(anns, s) # ""

\* hasAnnotation: it is there, be it empty.
Has(anns, s) == \E p \in NginxPrefixes : <<p, s>> \in DOMAIN anns

Restricted(anns, D) == [k \in DOMAIN anns \cap D |-> anns[k]]

\* Those of two, the first of which takes precedence.
Over(f, g) == [k \in DOMAIN f \cup DOMAIN g |-> IF k \in DOMAIN f THEN f[k] ELSE g[k]]
=============================================================================
