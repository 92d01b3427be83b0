------------------------ MODULE ClusterApplyProofs -------------------------
(***************************************************************************)
(* Proofs about ClusterApply, for any Ingresses, confs, runs and bounds:   *)
(* type correctness, that a run which reports success has migrated what    *)
(* nobody else touched, that a link to a plugin config that is not there   *)
(* is accounted for, that a run does not lose a user's annotation, and     *)
(* that cluster mode implements MigrationLedger.                           *)
(***************************************************************************)
EXTENDS ClusterApply, TLAPS

-----------------------------------------------------------------------------
(* The inductive invariant *)

\* Only a run under way has objects to apply.
IdleHasNothing == \A p \in Runs : ~Working(p) => todo[p] = {}

\* The Ingresses go first: while one is to be patched, so is its plugin config.
PluginFollows ==
    \A p \in Runs, i \in Ingresses :
        <<"ingress", i>> \in todo[p] /\ Conf(p, i) \in NeedsPlugin =>
            <<"plugin", i>> \in todo[p]

\* Nothing takes a link away: what was listed with one still has it.
LinksStay ==
    \A p \in Runs, i \in Ingresses :
        /\ snap[p][i] # Absent
        /\ ing[i] # Absent
        /\ snap[p][i].link = "own"
        => ing[i].link = "own"

AsListed(p, i) ==
    /\ ing[i] # Absent
    /\ snap[p][i] # Absent
    /\ ing[i].conf = Conf(p, i)
    /\ ing[i].note = snap[p][i].note

\* What p no longer has to apply for i is in the cluster.
AppliedSoFar(p, i) ==
    /\ <<"ingress", i>> \notin todo[p] =>
        /\ ing[i].class = "apisix"
        /\ \A k \in Writes[ing[i].conf] : ing[i].conv[k] = ing[i].conf
        /\ ing[i].conf \in NeedsPlugin => ing[i].link = "own"
    /\ ing[i].conf \in NeedsPlugin /\ <<"plugin", i>> \notin todo[p] =>
        crd[<<"plugin", i>>] = ing[i].conf
    /\ ing[i].conf \in NeedsPolicy /\ <<"policy", i>> \notin todo[p] =>
        crd[<<"policy", i>>] = ing[i].conf

\* What p may rely on of the Ingresses nobody else has touched.
CleanAt(p) ==
    /\ Working(p) => \A i \in clean[p] : AsListed(p, i) /\ AppliedSoFar(p, i)
    /\ pc[p] = "ok" => \A i \in clean[p] : ing[i] # Absent /\ Served(i)

CleanInv == \A p \in Runs : CleanAt(p)

QueueInv == IdleHasNothing /\ PluginFollows /\ LinksStay

\* All that an Ingress has was made from the confs of S.
MadeFrom(S, r) ==
    /\ r.conf \in S
    /\ \A k \in Keys : r.conv[k] = Absent \/ (r.conv[k] \in S /\ k \in Writes[r.conv[k]])
    /\ r.link = "own" => NeedsPlugin \cap S # {}

\* What a run has listed is of the past too, and so is all it may still write.
PastInv ==
    /\ \A i \in Ingresses :
        /\ ing[i] # Absent => MadeFrom(past[i], ing[i])
        /\ crd[<<"plugin", i>>] \in MadeOf(NeedsPlugin, i)
        /\ crd[<<"policy", i>>] \in MadeOf(NeedsPolicy, i)
    /\ \A p \in Runs, i \in Ingresses :
        /\ snap[p][i] # Absent => MadeFrom(past[i], snap[p][i])
        /\ <<"plugin", i>> \in todo[p] => Conf(p, i) \in NeedsPlugin
        /\ <<"policy", i>> \in todo[p] => Conf(p, i) \in NeedsPolicy

-----------------------------------------------------------------------------
(* The steps, grouped by what they do *)

LEMMA EditStep ==
    ASSUME TypeOK, NEW i \in Ingresses, EditConf(i) \/ EditNote(i) \/ DeleteIngress(i)
    PROVE  \E new \in Ingress \cup {Absent} :
               /\ UserChangesIngress(i, new)
               /\ new # Absent => new.link = ing[i].link /\ new.conv = ing[i].conv
  <1>1. CASE EditConf(i)
    <2>1. PICK c \in Confs : UserChangesIngress(i, [ing[i] EXCEPT !.conf = c])
      BY <1>1 DEF EditConf
    <2>2. ing[i] \in Ingress
      BY <2>1 DEF TypeOK, UserChangesIngress
    <2>3. /\ [ing[i] EXCEPT !.conf = c] \in Ingress
          /\ [ing[i] EXCEPT !.conf = c].link = ing[i].link
          /\ [ing[i] EXCEPT !.conf = c].conv = ing[i].conv
      BY <2>2 DEF Ingress
    <2>4. QED
      BY <2>1, <2>3
  <1>2. CASE EditNote(i)
    <2>1. PICK n \in Notes \cup {Absent} : UserChangesIngress(i, [ing[i] EXCEPT !.note = n])
      BY <1>2 DEF EditNote
    <2>2. ing[i] \in Ingress
      BY <2>1 DEF TypeOK, UserChangesIngress
    <2>3. /\ [ing[i] EXCEPT !.note = n] \in Ingress
          /\ [ing[i] EXCEPT !.note = n].link = ing[i].link
          /\ [ing[i] EXCEPT !.note = n].conv = ing[i].conv
      BY <2>2 DEF Ingress
    <2>4. QED
      BY <2>1, <2>3
  <1>3. CASE DeleteIngress(i)
    BY <1>3 DEF DeleteIngress
  <1>4. QED
    BY <1>1, <1>2, <1>3

\* The Ingress a patch leaves.
LEMMA PatchedFields ==
    ASSUME NEW i \in Ingresses, NEW old \in Ingress, ing[i] \in Ingress
    PROVE  /\ Patched(i, old) \in Ingress
           /\ Patched(i, old).class = "apisix"
           /\ Patched(i, old).conf = ing[i].conf
           /\ Patched(i, old).conv = ConvPatched(i, old)
           /\ \A k \in Writes[old.conf] : Patched(i, old).conv[k] = old.conf
           /\ Patched(i, old).note = IF old.note = Absent THEN ing[i].note ELSE old.note
           /\ Patched(i, old).link =
                  IF old.conf \in NeedsPlugin \/ old.link = "own" THEN "own" ELSE ing[i].link
  <1>1. Writes[old.conf] \subseteq Keys
    BY WritesAssumption DEF Ingress
  <1>2. ConvPatched(i, old) \in [Keys -> Confs \cup {Absent}]
    BY DEF ConvPatched, Merged, Ingress
  <1>3. \A k \in Writes[old.conf] : ConvPatched(i, old)[k] = old.conf
    BY <1>1 DEF ConvPatched
  <1>4. QED
    BY <1>2, <1>3 DEF Patched, Merged, Ingress

\* A request on t is over, done or not: what becomes of the run.
LEMMA DoneStep ==
    ASSUME TypeOK, NEW p \in Runs, NEW t \in Object, Done(p, t)
    PROVE  /\ pc' \in [Runs -> {"idle", "next", "create", "update", "ok", "failed"}]
           /\ snap' \in [Runs -> [Ingresses -> Ingress \cup {Absent}]]
           /\ todo' \in [Runs -> SUBSET Object]
           /\ clean' \in [Runs -> SUBSET Ingresses]
           /\ edits' = edits /\ past' = past /\ faults' \in Nat
           /\ \A q \in Runs \ {p} :
                  /\ pc'[q] = pc[q] /\ todo'[q] = todo[q] /\ snap'[q] = snap[q]
                  /\ clean'[q] = clean[q] \ {t[2]}
           /\ clean'[p] = clean[p]
           /\ \/ pc'[p] = "next" /\ todo'[p] = todo[p] \ {t} /\ snap'[p] = snap[p]
              \/ pc'[p] = "failed" /\ todo'[p] = {} /\ snap'[p] = NothingListed
  <1>1. NothingListed \in [Ingresses -> Ingress \cup {Absent}]
    BY DEF NothingListed
  <1>2. clean' = [q \in Runs |-> IF q \in {p} THEN clean[q] ELSE clean[q] \ {t[2]}]
    BY DEF Done, TouchedBy
  <1>3. CASE /\ pc' = [pc EXCEPT ![p] = "next"]
             /\ todo' = [todo EXCEPT ![p] = @ \ {t}]
             /\ UNCHANGED <<snap, faults>>
    BY <1>2, <1>3 DEF TypeOK, Done
  <1>4. CASE GiveUp(p) /\ Fault
    BY <1>1, <1>2, <1>4 DEF TypeOK, Done, GiveUp, Fault
  <1>5. QED
    BY <1>3, <1>4 DEF Done

LEMMA RefusedStep ==
    ASSUME TypeOK, NEW p \in Runs, Refused(p)
    PROVE  /\ pc' \in [Runs -> {"idle", "next", "create", "update", "ok", "failed"}]
           /\ snap' \in [Runs -> [Ingresses -> Ingress \cup {Absent}]]
           /\ todo' \in [Runs -> SUBSET Object]
           /\ clean' \in [Runs -> SUBSET Ingresses]
           /\ current' \subseteq Runs
           /\ excused' = excused \cup Forsaken(todo[p])
           /\ ing' = ing /\ crd' = crd /\ edits' = edits /\ past' = past
           /\ \A q \in Runs \ {p} :
                  /\ pc'[q] = pc[q] /\ todo'[q] = todo[q] /\ snap'[q] = snap[q]
                  /\ clean'[q] = clean[q]
           /\ pc'[p] = "failed" /\ todo'[p] = {} /\ snap'[p] = NothingListed /\ clean'[p] = {}
  BY DEF TypeOK, Refused, GiveUp, NothingListed

LEMMA PutStep ==
    ASSUME TypeOK, NEW p \in Runs, NEW t \in Generated, IsNext(t, p), Put(p, t)
    PROVE  /\ Conf(p, t[2]) \in Confs
           /\ crd' = [crd EXCEPT ![t] = Conf(p, t[2])]
           /\ Done(p, t)
           /\ ing' = ing
  BY DEF TypeOK, IsNext, Put, Conf, Generated, Ingress

\* Every step is one of nine.
LEMMA StepCases ==
    ASSUME TypeOK, [Next]_vars
    PROVE  \/ UNCHANGED vars
           \/ \E p \in Runs : Start(p)
           \/ \E p \in Runs, i \in Ingresses : Patch(p, i)
           \/ \E p \in Runs, t \in Generated : Get(p, t)
           \/ \E p \in Runs, t \in Generated :
                  pc[p] \in {"create", "update"} /\ IsNext(t, p) /\ Put(p, t)
           \/ \E p \in Runs : Working(p) /\ Refused(p) /\ faults' \in Nat
           \/ \E p \in Runs : Finish(p)
           \/ \E i \in Ingresses, new \in Ingress \cup {Absent} :
                  /\ UserChangesIngress(i, new)
                  /\ new # Absent => new.link = ing[i].link /\ new.conv = ing[i].conv
           \/ \E t \in Generated : DeleteGenerated(t)
  <1>1. ASSUME NEW p \in Runs, NEW i \in Ingresses, PatchNotFound(p, i)
        PROVE  Working(p) /\ Refused(p) /\ faults' \in Nat
    BY <1>1 DEF PatchNotFound, Working, TypeOK
  <1>2. ASSUME NEW p \in Runs, NEW t \in Generated, Create(p, t) \/ Update(p, t)
        PROVE  pc[p] \in {"create", "update"} /\ IsNext(t, p) /\ Put(p, t)
    BY <1>2 DEF Create, Update
  <1>3. ASSUME NEW p \in Runs, NEW t \in Generated,
               CreateAlreadyExists(p, t) \/ UpdateConflict(p, t)
        PROVE  Working(p) /\ Refused(p) /\ faults' \in Nat
    BY <1>3 DEF CreateAlreadyExists, UpdateConflict, Working, TypeOK
  <1>4. ASSUME NEW p \in Runs, Fails(p)
        PROVE  Working(p) /\ Refused(p) /\ faults' \in Nat
    BY <1>4 DEF Fails, Fault, TypeOK
  <1>5. QED
    BY <1>1, <1>2, <1>3, <1>4, EditStep DEF Next, Step

-----------------------------------------------------------------------------
(* Type correctness *)

LEMMA ForsakenType ==
    ASSUME NEW left
    PROVE  Forsaken(left) \subseteq Ingresses
  BY DEF Forsaken

LEMMA TypeInit == Init => TypeOK
  <1> SUFFICES ASSUME Init PROVE TypeOK
    OBVIOUS
  <1>1. /\ ing \in [Ingresses -> Ingress]
        /\ \A i \in Ingresses : {ing[i].conf} \subseteq Confs
    BY DEF Init, Ingress
  <1>2. past \in [Ingresses -> SUBSET Confs]
    BY <1>1 DEF Init
  <1>3. QED
    BY <1>1, <1>2 DEF Init, TypeOK, NothingListed

LEMMA TypeStart ==
    ASSUME TypeOK, NEW p \in Runs, Start(p)
    PROVE  TypeOK'
  BY DEF TypeOK, Start, ToApply

LEMMA TypeUserEdit ==
    ASSUME TypeOK, NEW i \in Ingresses, NEW new \in Ingress \cup {Absent},
           UserChangesIngress(i, new)
    PROVE  TypeOK'
  <1>1. new # Absent => new.conf \in Confs
    BY DEF Ingress
  <1>2. /\ ing' = [ing EXCEPT ![i] = new] /\ edits' = edits + 1
        /\ past' = [past EXCEPT ![i] = IF new = Absent THEN @ ELSE @ \cup {new.conf}]
        /\ clean' = [q \in Runs |-> IF q \in {} THEN clean[q] ELSE clean[q] \ {i}]
        /\ UNCHANGED <<crd, pc, snap, todo, current, excused, faults>>
    BY DEF UserChangesIngress, TouchedBy
  <1>3. past' \in [Ingresses -> SUBSET Confs] /\ clean' \in [Runs -> SUBSET Ingresses]
    BY <1>1, <1>2 DEF TypeOK
  <1>4. QED
    BY <1>2, <1>3 DEF TypeOK

LEMMA TypeDeleteGenerated ==
    ASSUME TypeOK, NEW t \in Generated, DeleteGenerated(t)
    PROVE  TypeOK'
  BY DEF TypeOK, DeleteGenerated, TouchedBy, Generated

LEMMA TypeRefused ==
    ASSUME TypeOK, NEW p \in Runs, Refused(p), faults' \in Nat
    PROVE  TypeOK'
  BY RefusedStep, ForsakenType DEF TypeOK

LEMMA TypePatch ==
    ASSUME TypeOK, NEW p \in Runs, NEW i \in Ingresses, Patch(p, i)
    PROVE  TypeOK'
  <1>1. <<"ingress", i>> \in todo[p] /\ <<"ingress", i>> \in Object
    BY DEF Patch, IsNext, Object, Kinds
  <1>2. snap[p][i] \in Ingress /\ ing[i] \in Ingress
    BY <1>1 DEF TypeOK, Patch
  <1>3. ing' \in [Ingresses -> Ingress \cup {Absent}]
    BY <1>2, PatchedFields DEF TypeOK, Patch
  <1>4. excused' \subseteq Ingresses
    BY ForsakenType DEF TypeOK, Patch
  <1>5. Done(p, <<"ingress", i>>)
    BY DEF Patch
  <1>6. \A q \in Runs : \A t \in todo'[q] : snap'[q][t[2]] # Absent
    <2>1. \A q \in Runs \ {p} : todo'[q] = todo[q] /\ snap'[q] = snap[q]
      BY <1>1, <1>5, DoneStep
    <2>2. (todo'[p] \subseteq todo[p] /\ snap'[p] = snap[p]) \/ todo'[p] = {}
      BY <1>1, <1>5, DoneStep
    <2>3. QED
      BY <2>1, <2>2 DEF TypeOK
  <1>7. /\ pc' \in [Runs -> {"idle", "next", "create", "update", "ok", "failed"}]
        /\ snap' \in [Runs -> [Ingresses -> Ingress \cup {Absent}]]
        /\ todo' \in [Runs -> SUBSET Object]
        /\ clean' \in [Runs -> SUBSET Ingresses]
        /\ edits' \in Nat /\ faults' \in Nat /\ past' = past
    BY <1>1, <1>5, DoneStep DEF TypeOK
  <1>8. crd' = crd /\ current' = current
    BY DEF Patch
  <1>9. QED
    BY <1>3, <1>4, <1>6, <1>7, <1>8 DEF TypeOK

LEMMA TypePut ==
    ASSUME TypeOK, NEW p \in Runs, NEW t \in Generated, IsNext(t, p), Put(p, t)
    PROVE  TypeOK'
  <1>1. t \in Object
    BY DEF Generated, Object, Kinds
  <1>2. crd' \in [Generated -> Confs \cup {Absent}]
    BY PutStep DEF TypeOK
  <1>3. current' \subseteq Runs
    BY DEF TypeOK, Put
  <1>4. excused' \subseteq Ingresses
    BY ForsakenType DEF TypeOK, Put
  <1>5. QED
    BY <1>1, <1>2, <1>3, <1>4, PutStep, DoneStep DEF TypeOK

LEMMA TypeFinish ==
    ASSUME TypeOK, NEW p \in Runs, Finish(p)
    PROVE  TypeOK'
  <1>1. NothingListed \in [Ingresses -> Ingress \cup {Absent}]
    BY DEF NothingListed
  <1>2. /\ pc' \in [Runs -> {"idle", "next", "create", "update", "ok", "failed"}]
        /\ snap' \in [Runs -> [Ingresses -> Ingress \cup {Absent}]]
    BY <1>1 DEF TypeOK, Finish
  <1>3. ASSUME NEW q \in Runs, NEW t \in todo'[q] PROVE snap'[q][t[2]] # Absent
    <2>1. todo' = todo /\ q # p
      BY <1>3 DEF Finish
    <2>2. snap'[q] = snap[q]
      BY <2>1 DEF TypeOK, Finish
    <2>3. QED
      BY <2>1, <2>2, <1>3 DEF TypeOK
  <1>4. QED
    BY <1>2, <1>3 DEF TypeOK, Finish

LEMMA TypeStep == TypeOK /\ [Next]_vars => TypeOK'
  <1> SUFFICES ASSUME TypeOK, [Next]_vars PROVE TypeOK'
    OBVIOUS
  <1>1. CASE UNCHANGED vars
    BY <1>1 DEF vars, TypeOK
  <1>2. ASSUME NEW p \in Runs, Start(p) PROVE TypeOK'
    BY <1>2, TypeStart
  <1>3. ASSUME NEW p \in Runs, NEW i \in Ingresses, Patch(p, i) PROVE TypeOK'
    BY <1>3, TypePatch
  <1>4. ASSUME NEW p \in Runs, NEW t \in Generated, Get(p, t) PROVE TypeOK'
    BY <1>4 DEF TypeOK, Get
  <1>5. ASSUME NEW p \in Runs, NEW t \in Generated, IsNext(t, p), Put(p, t) PROVE TypeOK'
    BY <1>5, TypePut
  <1>6. ASSUME NEW p \in Runs, Refused(p), faults' \in Nat PROVE TypeOK'
    BY <1>6, TypeRefused
  <1>7. ASSUME NEW p \in Runs, Finish(p) PROVE TypeOK'
    BY <1>7, TypeFinish
  <1>8. ASSUME NEW i \in Ingresses, NEW new \in Ingress \cup {Absent},
               UserChangesIngress(i, new)
        PROVE  TypeOK'
    BY <1>8, TypeUserEdit
  <1>9. ASSUME NEW t \in Generated, DeleteGenerated(t) PROVE TypeOK'
    BY <1>9, TypeDeleteGenerated
  <1>10. QED
    BY <1>1, <1>2, <1>3, <1>4, <1>5, <1>6, <1>7, <1>8, <1>9, StepCases

\* Every reachable state is well typed; in particular a run has an object still to
\* apply only if it has listed the Ingress the object is made from (client.go:175-201).
THEOREM TypeCorrect == Spec => []TypeOK
  <1>1. QED
    BY TypeInit, TypeStep, PTL DEF Spec

-----------------------------------------------------------------------------
(* The queue of a run *)

LEMMA QueueInit == Init => QueueInv
  BY DEF Init, QueueInv, IdleHasNothing, PluginFollows, LinksStay, NothingListed

LEMMA StartQueue ==
    ASSUME TypeOK, NEW p \in Runs, Start(p)
    PROVE  /\ pc'[p] = "next" /\ todo'[p] = ToApply(ing) /\ snap'[p] = ing
           /\ clean'[p] = {i \in Ingresses : ing[i] # Absent}
           /\ \A q \in Runs \ {p} :
                  /\ pc'[q] = pc[q] /\ todo'[q] = todo[q]
                  /\ snap'[q] = snap[q] /\ clean'[q] = clean[q]
           /\ ing' = ing /\ crd' = crd /\ excused' = excused /\ past' = past
  BY DEF TypeOK, Start

\* An Ingress's plugin config is made after every Ingress is patched.
LEMMA PluginsLast ==
    ASSUME NEW p \in Runs, NEW t \in Generated, IsNext(t, p), NEW i \in Ingresses
    PROVE  <<"ingress", i>> \notin todo[p]
  <1>1. Rank(t[1]) \in {1, 2}
    BY DEF Generated, Rank
  <1>2. SUFFICES ASSUME <<"ingress", i>> \in todo[p] PROVE FALSE
    OBVIOUS
  <1>3. Rank(t[1]) < Rank("ingress") \/ Rank(t[1]) = Rank("ingress")
    BY <1>2 DEF IsNext
  <1>4. QED
    BY <1>1, <1>3 DEF Rank

\* A run that goes on keeps its list; one that ends keeps nothing.
LEMMA QueueShrinks ==
    ASSUME TypeOK, QueueInv,
           ing' = ing \/ \E i \in Ingresses, r \in Ingress \cup {Absent} :
                             /\ ing' = [ing EXCEPT ![i] = r]
                             /\ ing[i] # Absent
                             /\ r # Absent /\ ing[i].link = "own" => r.link = "own",
           \A q \in Runs :
               \/ Working(q)' = Working(q) /\ todo'[q] = todo[q] /\ snap'[q] = snap[q]
               \/ /\ Working(q)' /\ snap'[q] = snap[q] /\ todo'[q] \subseteq todo[q]
                  /\ \A i \in Ingresses :
                         <<"ingress", i>> \in todo'[q] /\ <<"plugin", i>> \in todo[q] =>
                             <<"plugin", i>> \in todo'[q]
               \/ todo'[q] = {} /\ snap'[q] = NothingListed
    PROVE  QueueInv'
  <1>1. IdleHasNothing'
    BY DEF QueueInv, IdleHasNothing
  <1>2. PluginFollows'
    BY DEF QueueInv, PluginFollows, Conf
  <1>3. \A i \in Ingresses :
            ing'[i] # Absent => ing[i] # Absent /\ (ing[i].link = "own" => ing'[i].link = "own")
    BY DEF TypeOK
  <1>4. ASSUME NEW q \in Runs, NEW i \in Ingresses, snap'[q][i] # Absent
        PROVE  snap'[q] = snap[q]
    BY <1>4 DEF NothingListed
  <1>5. LinksStay'
    BY <1>3, <1>4 DEF QueueInv, LinksStay
  <1>6. QED
    BY <1>1, <1>2, <1>5 DEF QueueInv

LEMMA QueueStep == TypeOK /\ QueueInv /\ [Next]_vars => QueueInv'
  <1> SUFFICES ASSUME TypeOK, QueueInv, [Next]_vars PROVE QueueInv'
    OBVIOUS
  <1>1. CASE UNCHANGED vars
    BY <1>1 DEF vars, QueueInv, IdleHasNothing, PluginFollows, LinksStay, Working, Conf
  <1>2. ASSUME NEW p \in Runs, Start(p) PROVE QueueInv'
    <2>1. IdleHasNothing'
      BY <1>2, StartQueue DEF QueueInv, IdleHasNothing, Working
    <2>2. PluginFollows'
      BY <1>2, StartQueue DEF QueueInv, PluginFollows, Conf, ToApply, Object, Kinds
    <2>3. LinksStay'
      BY <1>2, StartQueue DEF QueueInv, LinksStay
    <2>4. QED
      BY <2>1, <2>2, <2>3 DEF QueueInv
  <1>3. ASSUME NEW p \in Runs, NEW i \in Ingresses, Patch(p, i) PROVE QueueInv'
    <2>1. <<"ingress", i>> \in todo[p] /\ <<"ingress", i>> \in Object
      BY <1>3 DEF Patch, IsNext, Object, Kinds
    <2>2. snap[p][i] \in Ingress /\ ing[i] \in Ingress
      BY <1>3, <2>1 DEF TypeOK, Patch
    <2>3. /\ Patched(i, snap[p][i]) \in Ingress
          /\ ing[i].link = "own" => Patched(i, snap[p][i]).link = "own"
      BY <2>2, PatchedFields
    <2>4. Done(p, <<"ingress", i>>)
      BY <1>3 DEF Patch
    <2>5. \E r \in Ingress \cup {Absent} :
              /\ ing' = [ing EXCEPT ![i] = r]
              /\ ing[i] # Absent
              /\ r # Absent /\ ing[i].link = "own" => r.link = "own"
      BY <1>3, <2>3 DEF Patch
    <2>6. \A q \in Runs \ {p} : pc'[q] = pc[q] /\ todo'[q] = todo[q] /\ snap'[q] = snap[q]
      BY <2>1, <2>4, DoneStep
    <2>7. \/ pc'[p] = "next" /\ todo'[p] = todo[p] \ {<<"ingress", i>>} /\ snap'[p] = snap[p]
          \/ pc'[p] = "failed" /\ todo'[p] = {} /\ snap'[p] = NothingListed
      BY <2>1, <2>4, DoneStep
    <2>8. QED
      BY <2>5, <2>6, <2>7, QueueShrinks DEF Working
  <1>4. ASSUME NEW p \in Runs, NEW t \in Generated, Get(p, t) PROVE QueueInv'
    BY <1>4, QueueShrinks DEF Get, Working, TypeOK
  <1>5. ASSUME NEW p \in Runs, NEW t \in Generated,
               pc[p] \in {"create", "update"}, IsNext(t, p), Put(p, t)
        PROVE  QueueInv'
    <2>1. t \in Object /\ Done(p, t) /\ ing' = ing
      BY <1>5 DEF Generated, Object, Kinds, Put
    <2>2. \A i \in Ingresses : <<"ingress", i>> \notin todo[p]
      BY <1>5, PluginsLast
    <2>3. QED
      BY <1>5, <2>1, <2>2, DoneStep, QueueShrinks DEF Working
  <1>6. ASSUME NEW p \in Runs, Working(p), Refused(p) PROVE QueueInv'
    BY <1>6, RefusedStep, QueueShrinks DEF Working
  <1>7. ASSUME NEW p \in Runs, Finish(p) PROVE QueueInv'
    BY <1>7, QueueShrinks DEF Finish, Working, TypeOK
  <1>8. ASSUME NEW i \in Ingresses, NEW new \in Ingress \cup {Absent},
               UserChangesIngress(i, new), new # Absent => new.link = ing[i].link
        PROVE  QueueInv'
    BY <1>8, QueueShrinks DEF UserChangesIngress, Working
  <1>9. ASSUME NEW t \in Generated, DeleteGenerated(t) PROVE QueueInv'
    BY <1>9, QueueShrinks DEF DeleteGenerated, Working
  <1>10. QED
    BY <1>1, <1>2, <1>3, <1>4, <1>5, <1>6, <1>7, <1>8, <1>9, StepCases

-----------------------------------------------------------------------------
(* What nobody else has touched *)

LEMMA CleanInit == Init => CleanInv
  BY DEF Init, CleanInv, CleanAt, Working

\* A step that writes only what q counts as touched changes nothing for q.
LEMMA CleanFrame ==
    ASSUME TypeOK, NEW q \in Runs, CleanAt(q),
           pc'[q] = pc[q] \/ {pc[q], pc'[q]} \subseteq {"next", "create", "update"},
           todo'[q] = todo[q], snap'[q] = snap[q],
           clean'[q] \subseteq clean[q],
           \A i \in clean'[q] :
               /\ ing'[i] = ing[i]
               /\ crd'[<<"plugin", i>>] = crd[<<"plugin", i>>]
               /\ crd'[<<"policy", i>>] = crd[<<"policy", i>>]
    PROVE  CleanAt(q)'
  BY DEF CleanAt, Working, AsListed, AppliedSoFar, Served, Conf

LEMMA CleanStart ==
    ASSUME TypeOK, NEW p \in Runs, Start(p)
    PROVE  CleanAt(p)'
  <1> DEFINE listed == {i \in Ingresses : ing[i] # Absent}
  <1>1. /\ pc'[p] = "next" /\ todo'[p] = ToApply(ing) /\ snap'[p] = ing
        /\ clean'[p] = listed /\ ing' = ing
    BY StartQueue
  <1>2. ASSUME NEW i \in listed PROVE AsListed(p, i)'
    BY <1>1, <1>2 DEF AsListed, Conf
  <1>3. ASSUME NEW i \in listed PROVE AppliedSoFar(p, i)'
    <2>1. /\ <<"ingress", i>> \in ToApply(ing)
          /\ ing[i].conf \in NeedsPlugin => <<"plugin", i>> \in ToApply(ing)
          /\ ing[i].conf \in NeedsPolicy => <<"policy", i>> \in ToApply(ing)
      BY DEF ToApply, Object, Kinds
    <2>2. QED
      BY <1>1, <2>1 DEF AppliedSoFar
  <1>4. QED
    BY <1>1, <1>2, <1>3 DEF CleanAt

LEMMA CleanPatch ==
    ASSUME TypeOK, CleanInv, NEW p \in Runs, NEW i \in Ingresses, Patch(p, i)
    PROVE  CleanInv'
  <1>1. /\ <<"ingress", i>> \in todo[p] /\ <<"ingress", i>> \in Object
        /\ Done(p, <<"ingress", i>>)
        /\ ing' = [ing EXCEPT ![i] = Patched(i, snap[p][i])] /\ crd' = crd
        /\ Working(p)
    BY DEF Patch, IsNext, Object, Kinds, Working
  <1>2. snap[p][i] \in Ingress /\ ing[i] \in Ingress
    BY <1>1 DEF TypeOK, Patch
  <1>3. \A j \in Ingresses \ {i} : ing'[j] = ing[j]
    BY <1>1 DEF TypeOK
  <1>4. ASSUME NEW q \in Runs \ {p} PROVE CleanAt(q)'
    <2>1. /\ pc'[q] = pc[q] /\ todo'[q] = todo[q] /\ snap'[q] = snap[q]
          /\ clean'[q] = clean[q] \ {i}
      BY <1>1, DoneStep
    <2>2. clean[q] \subseteq Ingresses /\ CleanAt(q)
      BY DEF TypeOK, CleanInv
    <2>3. QED
      BY <1>1, <1>3, <2>1, <2>2, CleanFrame
  <1>5. CleanAt(p)'
    <2>1. /\ clean'[p] = clean[p]
          /\ \/ pc'[p] = "next" /\ todo'[p] = todo[p] \ {<<"ingress", i>>} /\ snap'[p] = snap[p]
             \/ pc'[p] = "failed"
      BY <1>1, DoneStep
    <2>2. CASE pc'[p] = "failed"
      BY <2>2 DEF CleanAt, Working
    <2>3. ASSUME pc'[p] = "next", todo'[p] = todo[p] \ {<<"ingress", i>>},
                 snap'[p] = snap[p], NEW j \in clean[p]
          PROVE  AsListed(p, j)' /\ AppliedSoFar(p, j)'
      <3>1. AsListed(p, j) /\ AppliedSoFar(p, j) /\ j \in Ingresses
        BY <1>1 DEF CleanInv, CleanAt, TypeOK
      <3>2. CASE j # i
        BY <1>1, <1>3, <2>3, <3>1, <3>2 DEF AsListed, AppliedSoFar, Conf
      <3>3. CASE j = i
        <4>1. ing'[i] = Patched(i, snap[p][i])
          BY <1>1 DEF TypeOK
        <4>2. AsListed(p, i)'
          BY <1>2, <2>3, <3>1, <3>3, <4>1, PatchedFields, AbsentIngress DEF AsListed, Conf
        <4>3. /\ ing'[i].class = "apisix"
              /\ ing'[i].conf = ing[i].conf
              /\ \A k \in Writes[ing[i].conf] : ing'[i].conv[k] = ing[i].conf
              /\ ing[i].conf \in NeedsPlugin => ing'[i].link = "own"
          BY <1>2, <3>1, <3>3, <4>1, PatchedFields DEF AsListed, Conf
        <4>4. AppliedSoFar(p, i)'
          BY <1>1, <2>3, <3>1, <3>3, <4>3 DEF AppliedSoFar
        <4>5. QED
          BY <3>3, <4>2, <4>4
      <3>4. QED
        BY <3>2, <3>3
    <2>4. QED
      BY <2>1, <2>2, <2>3 DEF CleanAt
  <1>6. QED
    BY <1>4, <1>5 DEF CleanInv

LEMMA CleanPut ==
    ASSUME TypeOK, CleanInv, NEW p \in Runs, NEW t \in Generated,
           pc[p] \in {"create", "update"}, IsNext(t, p), Put(p, t)
    PROVE  CleanInv'
  <1>1. /\ t \in Object /\ t \in todo[p] /\ Working(p)
        /\ Done(p, t) /\ crd' = [crd EXCEPT ![t] = Conf(p, t[2])] /\ ing' = ing
    BY PutStep DEF Generated, Object, Kinds, IsNext, Working
  <1>2. \A u \in Generated \ {t} : crd'[u] = crd[u]
    BY <1>1 DEF TypeOK
  <1>3. crd'[t] = Conf(p, t[2])
    BY <1>1 DEF TypeOK
  <1>4. \A i \in Ingresses : <<"plugin", i>> \in Generated /\ <<"policy", i>> \in Generated
    BY DEF Generated
  <1>5. ASSUME NEW q \in Runs \ {p} PROVE CleanAt(q)'
    <2>1. /\ pc'[q] = pc[q] /\ todo'[q] = todo[q] /\ snap'[q] = snap[q]
          /\ clean'[q] = clean[q] \ {t[2]}
      BY <1>1, DoneStep
    <2>2. clean[q] \subseteq Ingresses /\ CleanAt(q)
      BY DEF TypeOK, CleanInv
    <2>3. \A i \in clean'[q] : <<"plugin", i>> # t /\ <<"policy", i>> # t
      BY <2>1
    <2>4. QED
      BY <1>1, <1>2, <1>4, <2>1, <2>2, <2>3, CleanFrame
  <1>6. CleanAt(p)'
    <2>1. /\ clean'[p] = clean[p]
          /\ \/ pc'[p] = "next" /\ todo'[p] = todo[p] \ {t} /\ snap'[p] = snap[p]
             \/ pc'[p] = "failed"
      BY <1>1, DoneStep
    <2>2. CASE pc'[p] = "failed"
      BY <2>2 DEF CleanAt, Working
    <2>3. ASSUME pc'[p] = "next", todo'[p] = todo[p] \ {t}, snap'[p] = snap[p], NEW j \in clean[p]
          PROVE  AsListed(p, j)' /\ AppliedSoFar(p, j)'
      <3>1. AsListed(p, j) /\ AppliedSoFar(p, j) /\ j \in Ingresses
        BY <1>1 DEF CleanInv, CleanAt, TypeOK
      <3>2. AsListed(p, j)'
        BY <1>1, <2>3, <3>1 DEF AsListed, Conf
      <3>3. ASSUME NEW k \in {"plugin", "policy"}
            PROVE  crd'[<<k, j>>] = IF <<k, j>> = t THEN ing[j].conf ELSE crd[<<k, j>>]
        <4>1. CASE <<k, j>> = t
          BY <1>3, <3>1, <4>1 DEF AsListed
        <4>2. CASE <<k, j>> # t
          BY <1>2, <1>4, <3>1, <4>2
        <4>3. QED
          BY <4>1, <4>2
      <3>4. t # <<"ingress", j>>
        BY DEF Generated
      <3>5. AppliedSoFar(p, j)'
        BY <1>1, <2>3, <3>1, <3>3, <3>4 DEF AppliedSoFar
      <3>6. QED
        BY <3>2, <3>5
    <2>4. QED
      BY <2>1, <2>2, <2>3 DEF CleanAt
  <1>7. QED
    BY <1>5, <1>6 DEF CleanInv

\* A run finishes when nothing is left to apply: what it relies on is migrated.
LEMMA CleanFinish ==
    ASSUME TypeOK, CleanInv, NEW p \in Runs, Finish(p)
    PROVE  CleanInv'
  <1>1. /\ pc'[p] = "ok" /\ todo[p] = {} /\ Working(p)
        /\ UNCHANGED <<ing, crd, todo, clean>>
        /\ \A q \in Runs \ {p} : pc'[q] = pc[q] /\ snap'[q] = snap[q]
    BY DEF TypeOK, Finish, Working
  <1>2. ASSUME NEW q \in Runs \ {p} PROVE CleanAt(q)'
    BY <1>1, CleanFrame DEF CleanInv
  <1>3. ASSUME NEW i \in clean[p] PROVE (ing[i] # Absent /\ Served(i))'
    BY <1>1 DEF CleanInv, CleanAt, AsListed, AppliedSoFar, Served
  <1>4. CleanAt(p)'
    BY <1>1, <1>3 DEF CleanAt, Working
  <1>5. QED
    BY <1>2, <1>4 DEF CleanInv

LEMMA CleanStep == TypeOK /\ CleanInv /\ [Next]_vars => CleanInv'
  <1> SUFFICES ASSUME TypeOK, CleanInv, [Next]_vars PROVE CleanInv'
    OBVIOUS
  <1>1. CASE UNCHANGED vars
    BY <1>1 DEF vars, CleanInv, CleanAt, Working, AsListed, AppliedSoFar, Served, Conf
  <1>2. ASSUME NEW p \in Runs, Start(p) PROVE CleanInv'
    <2>1. ASSUME NEW q \in Runs \ {p} PROVE CleanAt(q)'
      BY <1>2, StartQueue, CleanFrame DEF CleanInv
    <2>2. QED
      BY <1>2, <2>1, CleanStart DEF CleanInv
  <1>3. ASSUME NEW p \in Runs, NEW i \in Ingresses, Patch(p, i) PROVE CleanInv'
    BY <1>3, CleanPatch
  <1>4. ASSUME NEW p \in Runs, NEW t \in Generated, Get(p, t) PROVE CleanInv'
    BY <1>4, CleanFrame DEF Get, Working, TypeOK, CleanInv
  <1>5. ASSUME NEW p \in Runs, NEW t \in Generated,
               pc[p] \in {"create", "update"}, IsNext(t, p), Put(p, t)
        PROVE  CleanInv'
    BY <1>5, CleanPut
  <1>6. ASSUME NEW p \in Runs, Working(p), Refused(p) PROVE CleanInv'
    <2>1. CleanAt(p)'
      BY <1>6, RefusedStep DEF CleanAt, Working
    <2>2. ASSUME NEW q \in Runs \ {p} PROVE CleanAt(q)'
      BY <1>6, RefusedStep, CleanFrame DEF CleanInv
    <2>3. QED
      BY <2>1, <2>2 DEF CleanInv
  <1>7. ASSUME NEW p \in Runs, Finish(p) PROVE CleanInv'
    BY <1>7, CleanFinish
  <1>8. ASSUME NEW i \in Ingresses, NEW new \in Ingress \cup {Absent},
               UserChangesIngress(i, new)
        PROVE  CleanInv'
    <2>1. ASSUME NEW q \in Runs PROVE CleanAt(q)'
      <3>1. /\ clean'[q] = clean[q] \ {i} /\ clean[q] \subseteq Ingresses
            /\ UNCHANGED <<pc, todo, snap, crd>>
            /\ \A j \in Ingresses \ {i} : ing'[j] = ing[j]
        BY <1>8 DEF UserChangesIngress, TouchedBy, TypeOK
      <3>2. QED
        BY <3>1, CleanFrame DEF CleanInv
    <2>2. QED
      BY <2>1 DEF CleanInv
  <1>9. ASSUME NEW t \in Generated, DeleteGenerated(t) PROVE CleanInv'
    <2>1. ASSUME NEW q \in Runs PROVE CleanAt(q)'
      <3>1. /\ clean'[q] = clean[q] \ {t[2]} /\ clean[q] \subseteq Ingresses
            /\ UNCHANGED <<pc, todo, snap, ing>>
            /\ \A u \in Generated \ {t} : crd'[u] = crd[u]
        BY <1>9 DEF DeleteGenerated, TouchedBy, TypeOK
      <3>2. \A j \in clean'[q] : crd'[<<"plugin", j>>] = crd[<<"plugin", j>>]
                                  /\ crd'[<<"policy", j>>] = crd[<<"policy", j>>]
        BY <3>1 DEF Generated
      <3>3. QED
        BY <3>1, <3>2, CleanFrame DEF CleanInv
    <2>2. QED
      BY <2>1 DEF CleanInv
  <1>10. QED
    BY <1>1, <1>2, <1>3, <1>4, <1>5, <1>6, <1>7, <1>8, <1>9, StepCases

-----------------------------------------------------------------------------
(* What is left of earlier configurations *)

LEMMA PastInit == Init => PastInv
  <1> SUFFICES ASSUME Init PROVE PastInv
    OBVIOUS
  <1>1. ASSUME NEW i \in Ingresses PROVE MadeFrom(past[i], ing[i])
    <2>1. /\ past[i] = {ing[i].conf} /\ ing[i].link = "none"
          /\ ing[i].conv = [k \in Keys |-> Absent]
      BY DEF Init, NotConverted
    <2>2. QED
      BY <2>1 DEF MadeFrom
  <1>2. \A i \in Ingresses : crd[<<"plugin", i>>] = Absent /\ crd[<<"policy", i>>] = Absent
    BY DEF Init, Generated
  <1>3. \A p \in Runs, i \in Ingresses : snap[p][i] = Absent /\ todo[p] = {}
    BY DEF Init, NothingListed
  <1>4. QED
    BY <1>1, <1>2, <1>3 DEF PastInv, MadeOf

LEMMA MoreMadeFrom ==
    ASSUME NEW S, NEW T, S \subseteq T, NEW r, MadeFrom(S, r)
    PROVE  MadeFrom(T, r)
  BY DEF MadeFrom

\* A run lists and queues what is there; it never adds to what it has listed.
LEMMA PastFrame ==
    ASSUME TypeOK, PastInv, past' = past,
           \A i \in Ingresses : ing'[i] # Absent => MadeFrom(past[i], ing'[i]),
           \A i \in Ingresses :
               /\ crd'[<<"plugin", i>>] \in MadeOf(NeedsPlugin, i)
               /\ crd'[<<"policy", i>>] \in MadeOf(NeedsPolicy, i),
           \A q \in Runs :
               \/ snap'[q] = snap[q] /\ todo'[q] \subseteq todo[q]
               \/ todo'[q] = {} /\ snap'[q] = NothingListed
    PROVE  PastInv'
  <1>1. ASSUME NEW q \in Runs, NEW i \in Ingresses
        PROVE  /\ snap'[q][i] # Absent => MadeFrom(past[i], snap'[q][i])
               /\ <<"plugin", i>> \in todo'[q] => snap'[q][i].conf \in NeedsPlugin
               /\ <<"policy", i>> \in todo'[q] => snap'[q][i].conf \in NeedsPolicy
    BY DEF PastInv, NothingListed, Conf
  <1>2. QED
    BY <1>1 DEF PastInv, MadeOf, Conf

LEMMA PastPatched ==
    ASSUME NEW i \in Ingresses, NEW old \in Ingress, ing[i] \in Ingress,
           MadeFrom(past[i], ing[i]), MadeFrom(past[i], old)
    PROVE  MadeFrom(past[i], Patched(i, old))
  <1>1. ASSUME NEW k \in Keys
        PROVE  \/ ConvPatched(i, old)[k] = Absent
               \/ /\ ConvPatched(i, old)[k] \in past[i]
                  /\ k \in Writes[ConvPatched(i, old)[k]]
    <2>1. CASE k \in Writes[old.conf]
      BY <2>1 DEF ConvPatched, MadeFrom
    <2>2. CASE k \notin Writes[old.conf]
      BY <2>2 DEF ConvPatched, Merged, MadeFrom
    <2>3. QED
      BY <2>1, <2>2
  <1>2. /\ Patched(i, old).conf = ing[i].conf
        /\ Patched(i, old).conv = ConvPatched(i, old)
        /\ Patched(i, old).link =
               IF old.conf \in NeedsPlugin \/ old.link = "own" THEN "own" ELSE ing[i].link
    BY PatchedFields
  <1>3. Patched(i, old).link = "own" => NeedsPlugin \cap past[i] # {}
    BY <1>2 DEF MadeFrom
  <1>4. QED
    BY <1>1, <1>2, <1>3 DEF MadeFrom

LEMMA PastPut ==
    ASSUME TypeOK, PastInv, NEW p \in Runs, NEW t \in Generated, IsNext(t, p), Put(p, t)
    PROVE  PastInv'
  <1>1. /\ t \in Object /\ t \in todo[p] /\ Done(p, t) /\ ing' = ing
        /\ crd' = [crd EXCEPT ![t] = Conf(p, t[2])]
    BY PutStep DEF Generated, Object, Kinds, IsNext
  <1>2. snap[p][t[2]] # Absent /\ t[2] \in Ingresses
    BY <1>1 DEF TypeOK, Generated
  <1>3. Conf(p, t[2]) \in past[t[2]]
    BY <1>2 DEF PastInv, MadeFrom, Conf
  <1>4. \/ t = <<"plugin", t[2]>> /\ Conf(p, t[2]) \in NeedsPlugin
        \/ t = <<"policy", t[2]>> /\ Conf(p, t[2]) \in NeedsPolicy
    <2>1. t = <<"plugin", t[2]>> \/ t = <<"policy", t[2]>>
      BY DEF Generated
    <2>2. QED
      BY <1>1, <1>2, <2>1 DEF PastInv
  <1>5. \A i \in Ingresses :
            /\ crd'[<<"plugin", i>>] \in MadeOf(NeedsPlugin, i)
            /\ crd'[<<"policy", i>>] \in MadeOf(NeedsPolicy, i)
    <2>1. \A i \in Ingresses : <<"plugin", i>> \in Generated /\ <<"policy", i>> \in Generated
      BY DEF Generated
    <2>2. \A u \in Generated : crd'[u] = IF u = t THEN Conf(p, t[2]) ELSE crd[u]
      BY <1>1 DEF TypeOK
    <2>3. ASSUME NEW i \in Ingresses, NEW k \in {"plugin", "policy"}, <<k, i>> = t
          PROVE  /\ crd'[<<k, i>>] = Conf(p, t[2]) /\ t[2] = i
                 /\ k = "plugin" => Conf(p, t[2]) \in NeedsPlugin
                 /\ k = "policy" => Conf(p, t[2]) \in NeedsPolicy
      BY <1>4, <2>2, <2>3
    <2>4. ASSUME NEW i \in Ingresses, NEW k \in {"plugin", "policy"}, <<k, i>> # t
          PROVE  crd'[<<k, i>>] = crd[<<k, i>>]
      BY <2>1, <2>2, <2>4
    <2>5. ASSUME NEW i \in Ingresses PROVE crd'[<<"plugin", i>>] \in MadeOf(NeedsPlugin, i)
      BY <1>3, <2>3, <2>4 DEF PastInv, MadeOf
    <2>6. ASSUME NEW i \in Ingresses PROVE crd'[<<"policy", i>>] \in MadeOf(NeedsPolicy, i)
      BY <1>3, <2>3, <2>4 DEF PastInv, MadeOf
    <2>7. QED
      BY <2>5, <2>6
  <1>6. QED
    BY <1>1, <1>5, DoneStep, PastFrame DEF PastInv

LEMMA PastStart ==
    ASSUME TypeOK, PastInv, NEW p \in Runs, Start(p)
    PROVE  PastInv'
  <1>1. \A i \in Ingresses :
            /\ <<"plugin", i>> \in ToApply(ing) => ing[i].conf \in NeedsPlugin
            /\ <<"policy", i>> \in ToApply(ing) => ing[i].conf \in NeedsPolicy
    BY DEF ToApply
  <1>2. QED
    BY <1>1, StartQueue DEF PastInv, MadeOf, Conf

\* A user's edit adds to the past of the Ingress.
LEMMA PastUser ==
    ASSUME TypeOK, PastInv, NEW i \in Ingresses, NEW new \in Ingress \cup {Absent},
           UserChangesIngress(i, new),
           new # Absent => new.link = ing[i].link /\ new.conv = ing[i].conv
    PROVE  PastInv'
  <1>1. /\ ing[i] # Absent /\ ing' = [ing EXCEPT ![i] = new]
        /\ past' = [past EXCEPT ![i] = IF new = Absent THEN @ ELSE @ \cup {new.conf}]
        /\ UNCHANGED <<crd, snap, todo>>
    BY DEF UserChangesIngress
  <1>2. \A j \in Ingresses : past[j] \subseteq past'[j]
    BY <1>1 DEF TypeOK
  <1>3. ASSUME NEW j \in Ingresses, ing'[j] # Absent PROVE MadeFrom(past'[j], ing'[j])
    <2>1. CASE j # i
      BY <1>1, <1>3, <2>1 DEF PastInv, TypeOK
    <2>2. CASE j = i
      <3>1. ing'[i] = new /\ past'[i] = past[i] \cup {new.conf}
        BY <1>1, <1>3, <2>2 DEF TypeOK
      <3>2. MadeFrom(past[i], ing[i])
        BY <1>1 DEF PastInv
      <3>3. QED
        BY <1>3, <2>2, <3>1, <3>2 DEF MadeFrom
    <2>3. QED
      BY <2>1, <2>2
  <1>4. ASSUME NEW q \in Runs, NEW j \in Ingresses, snap[q][j] # Absent
        PROVE  MadeFrom(past'[j], snap[q][j])
    BY <1>2, <1>4, MoreMadeFrom DEF PastInv
  <1>5. QED
    BY <1>1, <1>2, <1>3, <1>4 DEF PastInv, MadeOf, Conf

LEMMA PastStep == TypeOK /\ PastInv /\ [Next]_vars => PastInv'
  <1> SUFFICES ASSUME TypeOK, PastInv, [Next]_vars PROVE PastInv'
    OBVIOUS
  <1>1. CASE UNCHANGED vars
    BY <1>1, PastFrame DEF vars, PastInv
  <1>2. ASSUME NEW p \in Runs, Start(p) PROVE PastInv'
    BY <1>2, PastStart
  <1>3. ASSUME NEW p \in Runs, NEW i \in Ingresses, Patch(p, i) PROVE PastInv'
    <2>1. <<"ingress", i>> \in todo[p] /\ <<"ingress", i>> \in Object
      BY <1>3 DEF Patch, IsNext, Object, Kinds
    <2>2. snap[p][i] \in Ingress /\ ing[i] \in Ingress
      BY <1>3, <2>1 DEF TypeOK, Patch
    <2>3. /\ Done(p, <<"ingress", i>>) /\ crd' = crd
          /\ ing' = [ing EXCEPT ![i] = Patched(i, snap[p][i])]
      BY <1>3 DEF Patch
    <2>4. MadeFrom(past[i], Patched(i, snap[p][i]))
      BY <2>2, PastPatched, AbsentIngress DEF PastInv
    <2>5. \A j \in Ingresses : ing'[j] # Absent => MadeFrom(past[j], ing'[j])
      BY <2>3, <2>4 DEF PastInv, TypeOK
    <2>6. QED
      BY <2>1, <2>3, <2>5, DoneStep, PastFrame DEF PastInv
  <1>4. ASSUME NEW p \in Runs, NEW t \in Generated, Get(p, t) PROVE PastInv'
    BY <1>4, PastFrame DEF Get, PastInv
  <1>5. ASSUME NEW p \in Runs, NEW t \in Generated, IsNext(t, p), Put(p, t) PROVE PastInv'
    BY <1>5, PastPut
  <1>6. ASSUME NEW p \in Runs, Refused(p) PROVE PastInv'
    BY <1>6, RefusedStep, PastFrame DEF PastInv
  <1>7. ASSUME NEW p \in Runs, Finish(p), Working(p) PROVE PastInv'
    <2>1. \A q \in Runs : \/ snap'[q] = snap[q] /\ todo'[q] \subseteq todo[q]
                          \/ todo'[q] = {} /\ snap'[q] = NothingListed
      BY <1>7 DEF Finish, TypeOK
    <2>2. QED
      BY <1>7, <2>1, PastFrame DEF Finish, PastInv
  <1>8. ASSUME NEW i \in Ingresses, NEW new \in Ingress \cup {Absent},
               UserChangesIngress(i, new),
               new # Absent => new.link = ing[i].link /\ new.conv = ing[i].conv
        PROVE  PastInv'
    BY <1>8, PastUser
  <1>9. ASSUME NEW t \in Generated, DeleteGenerated(t) PROVE PastInv'
    <2>1. /\ crd' = [crd EXCEPT ![t] = Absent] /\ UNCHANGED <<ing, snap, todo, past>>
      BY <1>9 DEF DeleteGenerated
    <2>2. \A u \in Generated : crd'[u] = IF u = t THEN Absent ELSE crd[u]
      BY <2>1 DEF TypeOK
    <2>3. \A i \in Ingresses : <<"plugin", i>> \in Generated /\ <<"policy", i>> \in Generated
      BY DEF Generated
    <2>4. \A i \in Ingresses :
            /\ crd'[<<"plugin", i>>] \in MadeOf(NeedsPlugin, i)
            /\ crd'[<<"policy", i>>] \in MadeOf(NeedsPolicy, i)
      BY <2>2, <2>3 DEF PastInv, MadeOf
    <2>5. QED
      BY <2>1, <2>4, PastFrame DEF PastInv
  <1>10. ASSUME NEW p \in Runs, Finish(p) PROVE PastInv'
    BY <1>7, <1>10 DEF Finish, Working
  <1>11. QED
    BY <1>1, <1>2, <1>3, <1>4, <1>5, <1>6, <1>8, <1>9, <1>10, StepCases

-----------------------------------------------------------------------------
(* Cluster mode implements the ledger *)

\* What the ledger sees of a step that leaves the links, configs and records alone.
LEMMA LedgerStutter ==
    ASSUME Linked' = Linked, Provided' = Provided, Owed' = Owed, excused' = excused,
           Report' = Report
    PROVE  UNCHANGED Ledger!vars
  BY DEF Ledger!vars

LEMMA LedgerInit == Init => Ledger!Init
  BY DEF Init, Ledger!Init, Linked, Provided, Owed, Report, Forsaken, NotConverted, Working,
         Generated

\* A request of a run is over.  Whatever else it did, its debts are those it has still to
\* apply, or it has failed and they are on record.
LEMMA RunSettles ==
    ASSUME TypeOK, NEW p \in Runs, Working(p), NEW D, NEW record,
           \A q \in Runs \ {p} : pc'[q] = pc[q] /\ todo'[q] = todo[q],
           pc' \in [Runs -> {"idle", "next", "create", "update", "ok", "failed"}],
           todo' \in [Runs -> SUBSET Object],
           \/ Working(p)' /\ Forsaken(todo'[p]) = D /\ excused' = record
           \/ pc'[p] = "failed" /\ todo'[p] = {} /\ excused' = record \cup D
    PROVE  Ledger!Settle(p, D, record)
  <1>1. Report[p] = "working"
    BY DEF Report
  <1>2. \A q \in Runs \ {p} : Report'[q] = Report[q] /\ Owed'[q] = Owed[q]
    BY DEF Report, Owed, Working
  <1>3. /\ Report = [q \in Runs |-> Report[q]] /\ Report' = [q \in Runs |-> Report'[q]]
        /\ Owed = [q \in Runs |-> Owed[q]] /\ Owed' = [q \in Runs |-> Owed'[q]]
    BY DEF Report, Owed
  <1>4. CASE Working(p)' /\ Forsaken(todo'[p]) = D /\ excused' = record
    <2>1. Report'[p] = Report[p] /\ Owed'[p] = D
      BY <1>1, <1>4 DEF Report, Owed
    <2>2. Report' = Report /\ Owed' = [Owed EXCEPT ![p] = D]
      BY <1>2, <1>3, <2>1
    <2>3. QED
      BY <1>1, <1>4, <2>2 DEF Ledger!Settle
  <1>5. CASE pc'[p] = "failed" /\ todo'[p] = {} /\ excused' = record \cup D
    <2>1. Report'[p] = "failed" /\ Owed'[p] = {}
      BY <1>5 DEF Report, Owed, Working, Forsaken
    <2>2. Report' = [Report EXCEPT ![p] = "failed"] /\ Owed' = [Owed EXCEPT ![p] = {}]
      BY <1>2, <1>3, <2>1
    <2>3. QED
      BY <1>1, <1>5, <2>2 DEF Ledger!Settle
  <1>6. QED
    BY <1>4, <1>5

LEMMA LedgerUndertakes ==
    ASSUME TypeOK, NEW p \in Runs, Start(p)
    PROVE  Ledger!Undertake(p)
  <1>1. /\ pc[p] \notin {"next", "create", "update"}
        /\ pc' = [pc EXCEPT ![p] = "next"] /\ todo' = [todo EXCEPT ![p] = ToApply(ing)]
        /\ ing' = ing /\ crd' = crd /\ excused' = excused
    BY DEF Start, Working
  <1>2. Report[p] # "working" /\ Report' = [Report EXCEPT ![p] = "working"]
    BY <1>1 DEF Report, Working, TypeOK
  <1>3. Owed' = [Owed EXCEPT ![p] = Forsaken(ToApply(ing))]
    BY <1>1 DEF Owed, TypeOK
  <1>4. Forsaken(ToApply(ing)) \in SUBSET Ingresses
    BY ForsakenType
  <1>5. Linked' = Linked /\ Provided' = Provided
    BY <1>1 DEF Linked, Provided
  <1>6. QED
    BY <1>1, <1>2, <1>3, <1>4, <1>5 DEF Ledger!Undertake

LEMMA LedgerFails ==
    ASSUME TypeOK, NEW p \in Runs, Working(p), Refused(p)
    PROVE  Ledger!Fail(p)
  <1>1. Linked' = Linked /\ Provided' = Provided
    BY RefusedStep DEF Linked, Provided
  <1>2. Owed[p] = Forsaken(todo[p])
    BY DEF Owed
  <1>3. Ledger!Settle(p, Forsaken(todo[p]), excused)
    BY RefusedStep, RunSettles
  <1>4. QED
    BY <1>1, <1>2, <1>3 DEF Ledger!Fail

\* A patch links the Ingress while the run has still to write its plugin config; one
\* that makes no new link is at most a failure.
LEMMA LedgerLinks ==
    ASSUME TypeOK, QueueInv, NEW p \in Runs, NEW i \in Ingresses, Patch(p, i)
    PROVE  Ledger!Link(p, i) \/ Ledger!Fail(p) \/ UNCHANGED Ledger!vars
  <1>1. /\ <<"ingress", i>> \in todo[p] /\ <<"ingress", i>> \in Object
        /\ Done(p, <<"ingress", i>>)
        /\ ing' = [ing EXCEPT ![i] = Patched(i, snap[p][i])] /\ crd' = crd
        /\ ing[i] # Absent /\ Working(p)
        /\ excused' = IF pc'[p] = "failed" THEN excused \cup Forsaken(todo[p]) ELSE excused
    BY DEF Patch, IsNext, Object, Kinds, Working
  <1>2. snap[p][i] \in Ingress /\ ing[i] \in Ingress
    BY <1>1 DEF TypeOK, Patch
  <1>3. /\ \A q \in Runs \ {p} : pc'[q] = pc[q] /\ todo'[q] = todo[q]
        /\ pc' \in [Runs -> {"idle", "next", "create", "update", "ok", "failed"}]
        /\ todo' \in [Runs -> SUBSET Object]
        /\ \/ pc'[p] = "next" /\ todo'[p] = todo[p] \ {<<"ingress", i>>}
           \/ pc'[p] = "failed" /\ todo'[p] = {}
    BY <1>1, DoneStep
  <1>4. Forsaken(todo[p] \ {<<"ingress", i>>}) = Forsaken(todo[p])
    BY DEF Forsaken
  <1>5. Owed[p] = Forsaken(todo[p])
    BY DEF Owed
  <1>6. Ledger!Settle(p, Owed[p], excused)
    BY <1>1, <1>3, <1>4, <1>5, RunSettles DEF Working
  <1>7. Provided' = Provided
    BY <1>1 DEF Provided
  <1>8. ing'[i] \in Ingress /\ ing'[i].link = Patched(i, snap[p][i]).link
    BY <1>1, <1>2, PatchedFields DEF TypeOK
  <1>9. \A j \in Ingresses \ {i} : ing'[j] = ing[j]
    BY <1>1 DEF TypeOK
  <1>10. CASE snap[p][i].conf \in NeedsPlugin
    <2>1. ing'[i].link = "own"
      BY <1>2, <1>8, <1>10, PatchedFields
    <2>2. Linked' = Linked \cup {i}
      BY <1>8, <1>9, <2>1, AbsentIngress DEF Linked
    <2>3. i \in Owed[p]
      BY <1>1, <1>5, <1>10 DEF QueueInv, PluginFollows, Conf, Forsaken
    <2>4. QED
      BY <1>6, <1>7, <2>2, <2>3 DEF Ledger!Link
  <1>11. CASE snap[p][i].conf \notin NeedsPlugin
    <2>1. snap[p][i].link = "own" => ing[i].link = "own"
      BY <1>1, <1>2, AbsentIngress DEF QueueInv, LinksStay
    <2>2. ing'[i].link = ing[i].link
      BY <1>2, <1>8, <1>11, <2>1, PatchedFields
    <2>3. Linked' = Linked
      BY <1>1, <1>8, <1>9, <2>2, AbsentIngress DEF Linked
    <2>4. QED
      BY <1>6, <1>7, <2>3 DEF Ledger!Fail
  <1>12. QED
    BY <1>10, <1>11

\* A plugin config that is written is paid; a policy never was a debt.
LEMMA LedgerPays ==
    ASSUME TypeOK, NEW p \in Runs, NEW t \in Generated,
           pc[p] \in {"create", "update"}, IsNext(t, p), Put(p, t)
    PROVE  Ledger!Pay(p, t[2]) \/ Ledger!Fail(p)
  <1>1. /\ t \in Object /\ t \in todo[p] /\ Working(p) /\ t[2] \in Ingresses
        /\ Done(p, t) /\ Conf(p, t[2]) \in Confs
        /\ crd' = [crd EXCEPT ![t] = Conf(p, t[2])] /\ ing' = ing
        /\ excused' = (excused \cup IF pc'[p] = "failed" THEN Forsaken(todo[p] \ {t}) ELSE {})
                          \ (IF t[1] = "plugin" THEN {t[2]} ELSE {})
    BY PutStep DEF Generated, Object, Kinds, IsNext, Working, Put
  <1>2. /\ \A q \in Runs \ {p} : pc'[q] = pc[q] /\ todo'[q] = todo[q]
        /\ pc' \in [Runs -> {"idle", "next", "create", "update", "ok", "failed"}]
        /\ todo' \in [Runs -> SUBSET Object]
        /\ \/ pc'[p] = "next" /\ todo'[p] = todo[p] \ {t}
           \/ pc'[p] = "failed" /\ todo'[p] = {}
    BY <1>1, DoneStep
  <1>3. Owed[p] = Forsaken(todo[p])
    BY DEF Owed
  <1>4. Linked' = Linked
    BY <1>1 DEF Linked
  <1>5. \A i \in Ingresses : <<"plugin", i>> \in Generated
    BY DEF Generated
  <1>6. CASE t[1] = "plugin"
    <2>1. t = <<"plugin", t[2]>>
      BY <1>6 DEF Generated
    <2>2. Forsaken(todo[p] \ {t}) = Forsaken(todo[p]) \ {t[2]} /\ t[2] \in Forsaken(todo[p])
      BY <1>1, <2>1 DEF Forsaken
    <2>3. Provided' = Provided \cup {t[2]}
      BY <1>1, <1>5, <2>1, ConfAssumption DEF Provided, TypeOK
    <2>4. pc'[p] = "failed" => excused' = (excused \ {t[2]}) \cup (Forsaken(todo[p]) \ {t[2]})
      BY <1>1, <1>6, <2>2
    <2>5. pc'[p] = "next" => excused' = excused \ {t[2]}
      BY <1>1, <1>6
    <2>6. Ledger!Settle(p, Owed[p] \ {t[2]}, excused \ {t[2]})
      BY <1>1, <1>2, <1>3, <2>2, <2>4, <2>5, RunSettles DEF Working
    <2>7. QED
      BY <1>3, <1>4, <2>2, <2>3, <2>6 DEF Ledger!Pay
  <1>7. CASE t[1] # "plugin"
    <2>1. Forsaken(todo[p] \ {t}) = Forsaken(todo[p])
      BY <1>7 DEF Forsaken
    <2>2. Provided' = Provided
      BY <1>1, <1>5, <1>7 DEF Provided, TypeOK
    <2>3. /\ pc'[p] = "failed" => excused' = excused \cup Forsaken(todo[p])
          /\ pc'[p] = "next" => excused' = excused
      BY <1>1, <1>7, <2>1
    <2>4. Ledger!Settle(p, Owed[p], excused)
      BY <1>1, <1>2, <1>3, <2>1, <2>3, RunSettles DEF Working
    <2>5. QED
      BY <1>4, <2>2, <2>4 DEF Ledger!Fail
  <1>8. QED
    BY <1>6, <1>7

LEMMA LedgerSucceeds ==
    ASSUME TypeOK, NEW p \in Runs, Finish(p)
    PROVE  Ledger!Succeed(p)
  <1>1. /\ pc[p] = "next" /\ todo[p] = {} /\ pc' = [pc EXCEPT ![p] = "ok"]
        /\ UNCHANGED <<ing, crd, todo, excused>>
    BY DEF Finish
  <1>2. Report[p] = "working" /\ Owed[p] = {}
    BY <1>1 DEF Report, Owed, Working, Forsaken
  <1>3. Report' = [Report EXCEPT ![p] = "ok"]
    BY <1>1 DEF Report, Working, TypeOK
  <1>4. Linked' = Linked /\ Provided' = Provided /\ Owed' = Owed
    BY <1>1 DEF Linked, Provided, Owed
  <1>5. QED
    BY <1>1, <1>2, <1>3, <1>4 DEF Ledger!Succeed

\* Of what users do the ledger sees that an Ingress or a plugin config is deleted.
LEMMA LedgerUser ==
    ASSUME TypeOK, NEW i \in Ingresses, NEW new \in Ingress \cup {Absent},
           UserChangesIngress(i, new), new # Absent => new.link = ing[i].link
    PROVE  Ledger!Remove(i) \/ UNCHANGED Ledger!vars
  <1>1. /\ ing[i] # Absent /\ ing' = [ing EXCEPT ![i] = new]
        /\ UNCHANGED <<crd, pc, todo, excused>>
    BY DEF UserChangesIngress
  <1>2. Provided' = Provided /\ Owed' = Owed /\ Report' = Report
    BY <1>1 DEF Provided, Owed, Report, Working
  <1>3. ing'[i] = new /\ \A j \in Ingresses \ {i} : ing'[j] = ing[j]
    BY <1>1 DEF TypeOK
  <1>4. CASE new = Absent
    <2>1. Linked' = Linked \ {i}
      BY <1>3, <1>4 DEF Linked
    <2>2. QED
      BY <1>1, <1>2, <2>1 DEF Ledger!Remove
  <1>5. CASE new # Absent
    <2>1. Linked' = Linked
      BY <1>1, <1>3, <1>5 DEF Linked
    <2>2. QED
      BY <1>1, <1>2, <2>1, LedgerStutter
  <1>6. QED
    BY <1>4, <1>5

LEMMA LedgerLoses ==
    ASSUME TypeOK, NEW t \in Generated, DeleteGenerated(t)
    PROVE  Ledger!Lose(t[2]) \/ UNCHANGED Ledger!vars
  <1>1. /\ crd' = [crd EXCEPT ![t] = Absent] /\ UNCHANGED <<ing, pc, todo>>
        /\ excused' = IF t[1] = "plugin" THEN excused \cup {t[2]} ELSE excused
    BY DEF DeleteGenerated
  <1>2. Linked' = Linked /\ Owed' = Owed /\ Report' = Report
    BY <1>1 DEF Linked, Owed, Report, Working
  <1>3. \A i \in Ingresses : <<"plugin", i>> \in Generated
    BY DEF Generated
  <1>4. CASE t[1] = "plugin"
    <2>1. t = <<"plugin", t[2]>>
      BY <1>4 DEF Generated
    <2>2. Provided' = Provided \ {t[2]}
      BY <1>1, <1>3, <2>1 DEF Provided, TypeOK
    <2>3. QED
      BY <1>1, <1>2, <1>4, <2>2 DEF Ledger!Lose
  <1>5. CASE t[1] # "plugin"
    <2>1. Provided' = Provided
      BY <1>1, <1>3, <1>5 DEF Provided, TypeOK
    <2>2. QED
      BY <1>1, <1>2, <1>5, <2>1, LedgerStutter
  <1>6. QED
    BY <1>4, <1>5

LEMMA LedgerStep == TypeOK /\ QueueInv /\ [Next]_vars => [Ledger!Next]_(Ledger!vars)
  <1> SUFFICES ASSUME TypeOK, QueueInv, [Next]_vars PROVE [Ledger!Next]_(Ledger!vars)
    OBVIOUS
  <1>1. CASE UNCHANGED vars
    BY <1>1, LedgerStutter DEF vars, Linked, Provided, Owed, Report, Working
  <1>2. ASSUME NEW p \in Runs, Start(p) PROVE Ledger!Next
    BY <1>2, LedgerUndertakes DEF Ledger!Next
  <1>3. ASSUME NEW p \in Runs, NEW i \in Ingresses, Patch(p, i)
        PROVE  [Ledger!Next]_(Ledger!vars)
    BY <1>3, LedgerLinks DEF Ledger!Next
  <1>4. ASSUME NEW p \in Runs, NEW t \in Generated, Get(p, t) PROVE UNCHANGED Ledger!vars
    <2>1. /\ UNCHANGED <<ing, crd, todo, excused>>
          /\ \A q \in Runs : Working(q)' = Working(q) /\ (~Working(q) => pc'[q] = pc[q])
      BY <1>4 DEF Get, Working, TypeOK
    <2>2. QED
      BY <2>1, LedgerStutter DEF Linked, Provided, Owed, Report
  <1>5. ASSUME NEW p \in Runs, NEW t \in Generated,
               pc[p] \in {"create", "update"}, IsNext(t, p), Put(p, t)
        PROVE  Ledger!Next
    <2>1. t[2] \in Ingresses
      BY DEF Generated
    <2>2. QED
      BY <1>5, <2>1, LedgerPays DEF Ledger!Next
  <1>6. ASSUME NEW p \in Runs, Working(p), Refused(p) PROVE Ledger!Next
    BY <1>6, LedgerFails DEF Ledger!Next
  <1>7. ASSUME NEW p \in Runs, Finish(p) PROVE Ledger!Next
    BY <1>7, LedgerSucceeds DEF Ledger!Next
  <1>8. ASSUME NEW i \in Ingresses, NEW new \in Ingress \cup {Absent},
               UserChangesIngress(i, new), new # Absent => new.link = ing[i].link
        PROVE  [Ledger!Next]_(Ledger!vars)
    BY <1>8, LedgerUser DEF Ledger!Next
  <1>9. ASSUME NEW t \in Generated, DeleteGenerated(t) PROVE [Ledger!Next]_(Ledger!vars)
    <2>1. t[2] \in Ingresses
      BY DEF Generated
    <2>2. QED
      BY <1>9, <2>1, LedgerLoses DEF Ledger!Next
  <1>10. QED
    BY <1>1, <1>2, <1>3, <1>4, <1>5, <1>6, <1>7, <1>8, <1>9, StepCases

\* In the ledger itself every dangling link is accounted for: a debt leaves the books of a
\* run only by being paid or recorded, and a record is removed only by being paid.
BooksClosed == \A p \in Runs : Report[p] # "working" => Owed[p] = {}

LEMMA SettledBooks ==
    ASSUME Owed \in [Runs -> SUBSET Ingresses], NEW p \in Runs, NEW D, NEW record,
           Ledger!Settle(p, D, record)
    PROVE  /\ record \subseteq excused' /\ D \subseteq excused' \cup Owed'[p]
           /\ \A q \in Runs \ {p} : Owed'[q] = Owed[q]
  BY DEF Ledger!Settle

LEMMA LedgerAccounts ==
    ASSUME Ledger!Accounted, BooksClosed, Owed \in [Runs -> SUBSET Ingresses],
           [Ledger!Next]_(Ledger!vars)
    PROVE  Ledger!Accounted'
  <1> SUFFICES ASSUME NEW j \in Linked', j \notin Provided'
               PROVE  j \in excused' \/ \E q \in Runs : j \in Owed'[q]
    BY DEF Ledger!Accounted
  <1>a. j \in Linked /\ j \notin Provided => j \in excused \/ \E q \in Runs : j \in Owed[q]
    BY DEF Ledger!Accounted
  <1>1. CASE UNCHANGED Ledger!vars
    BY <1>1, <1>a DEF Ledger!vars
  <1>2. ASSUME NEW p \in Runs, Ledger!Undertake(p)
        PROVE  j \in excused' \/ \E q \in Runs : j \in Owed'[q]
    <2>1. /\ Linked' = Linked /\ Provided' = Provided /\ excused' = excused
          /\ Owed[p] = {} /\ \A q \in Runs \ {p} : Owed'[q] = Owed[q]
      BY <1>2 DEF Ledger!Undertake, BooksClosed
    <2>2. QED
      BY <1>a, <2>1
  <1>3. ASSUME NEW p \in Runs, Ledger!Fail(p) \/ Ledger!Succeed(p)
        PROVE  j \in excused' \/ \E q \in Runs : j \in Owed'[q]
    <2>1. CASE Ledger!Fail(p)
      <3>1. Linked' = Linked /\ Provided' = Provided /\ Ledger!Settle(p, Owed[p], excused)
        BY <2>1 DEF Ledger!Fail
      <3>2. QED
        BY <1>a, <3>1, SettledBooks
    <2>2. CASE Ledger!Succeed(p)
      BY <1>a, <2>2 DEF Ledger!Succeed
    <2>3. QED
      BY <1>3, <2>1, <2>2
  <1>4. ASSUME NEW p \in Runs, NEW i \in Ingresses, Ledger!Link(p, i)
        PROVE  j \in excused' \/ \E q \in Runs : j \in Owed'[q]
    <2>1. /\ Linked' = Linked \cup {i} /\ i \in Owed[p] /\ Provided' = Provided
          /\ Ledger!Settle(p, Owed[p], excused)
      BY <1>4 DEF Ledger!Link
    <2>2. QED
      BY <1>a, <2>1, SettledBooks
  <1>5. ASSUME NEW p \in Runs, NEW i \in Ingresses, Ledger!Pay(p, i)
        PROVE  j \in excused' \/ \E q \in Runs : j \in Owed'[q]
    <2>1. /\ Linked' = Linked /\ Provided' = Provided \cup {i}
          /\ Ledger!Settle(p, Owed[p] \ {i}, excused \ {i})
      BY <1>5 DEF Ledger!Pay
    <2>2. QED
      BY <1>a, <2>1, SettledBooks
  <1>6. ASSUME NEW i \in Ingresses, Ledger!Remove(i) \/ Ledger!Lose(i)
        PROVE  j \in excused' \/ \E q \in Runs : j \in Owed'[q]
    BY <1>6, <1>a DEF Ledger!Remove, Ledger!Lose
  <1>7. QED
    BY <1>1, <1>2, <1>3, <1>4, <1>5, <1>6 DEF Ledger!Next

LEMMA DanglingInit == Init => DanglingLinkExplained
  BY DEF Init, DanglingLinkExplained, NotConverted

LEMMA DanglingStep ==
    TypeOK /\ QueueInv /\ DanglingLinkExplained /\ [Next]_vars => DanglingLinkExplained'
  <1> SUFFICES ASSUME TypeOK, QueueInv, DanglingLinkExplained, [Next]_vars
               PROVE  DanglingLinkExplained'
    OBVIOUS
  <1>1. BooksClosed
    BY DEF BooksClosed, QueueInv, IdleHasNothing, Report, Owed, Forsaken
  <1>2. Owed \in [Runs -> SUBSET Ingresses]
    BY ForsakenType DEF Owed
  <1>3. Ledger!Accounted
    BY DEF Ledger!Accounted, DanglingLinkExplained, Linked, Provided, Owed, Forsaken
  <1>4. Ledger!Accounted'
    BY <1>1, <1>2, <1>3, LedgerStep, LedgerAccounts
  <1>5. QED
    BY <1>4 DEF Ledger!Accounted, DanglingLinkExplained, Linked, Provided, Owed, Forsaken

-----------------------------------------------------------------------------
(* A user's annotation *)

LEMMA NotesStep ==
    TypeOK /\ CleanInv /\ [Next]_vars =>
        \A i \in Ingresses :
            edits' = edits /\ ing[i] # Absent /\ ing'[i].note # ing[i].note =>
                /\ ing'[i].note # Absent
                /\ \E p \in Runs : i \notin clean[p] /\ snap[p][i] # Absent
                                   /\ ing'[i].note = snap[p][i].note
  <1> SUFFICES ASSUME TypeOK, CleanInv, [Next]_vars, NEW i \in Ingresses,
                      edits' = edits, ing[i] # Absent, ing'[i].note # ing[i].note
               PROVE  /\ ing'[i].note # Absent
                      /\ \E p \in Runs : i \notin clean[p] /\ snap[p][i] # Absent
                                         /\ ing'[i].note = snap[p][i].note
    OBVIOUS
  <1>1. PICK p \in Runs : Patch(p, i)
    <2>1. ing' # ing
      OBVIOUS
    <2>2. ASSUME NEW p \in Runs, NEW t \in Generated, IsNext(t, p), Put(p, t) PROVE FALSE
      BY <2>1, <2>2 DEF Put
    <2>3. ASSUME NEW p \in Runs, Refused(p) PROVE FALSE
      BY <2>1, <2>3 DEF Refused
    <2>4. ASSUME NEW j \in Ingresses, NEW new \in Ingress \cup {Absent},
                 UserChangesIngress(j, new)
          PROVE  FALSE
      BY <2>4 DEF UserChangesIngress, TypeOK
    <2>5. ASSUME NEW t \in Generated, DeleteGenerated(t) PROVE FALSE
      BY <2>1, <2>5 DEF DeleteGenerated
    <2>6. ASSUME NEW p \in Runs,
                 Start(p) \/ Finish(p) \/ \E t \in Generated : Get(p, t)
          PROVE  FALSE
      BY <2>1, <2>6 DEF Start, Finish, Get
    <2>7. \E p \in Runs, j \in Ingresses : Patch(p, j)
      BY <2>1, <2>2, <2>3, <2>4, <2>5, <2>6, StepCases DEF vars
    <2>8. QED
      BY <2>7 DEF Patch, TypeOK
  <1>2. /\ <<"ingress", i>> \in todo[p] /\ Working(p)
        /\ ing' = [ing EXCEPT ![i] = Patched(i, snap[p][i])]
    BY <1>1 DEF Patch, IsNext, Working
  <1>3. snap[p][i] \in Ingress /\ ing[i] \in Ingress
    BY <1>2 DEF TypeOK
  <1>4. ing'[i].note = IF snap[p][i].note = Absent THEN ing[i].note ELSE snap[p][i].note
    BY <1>2, <1>3, PatchedFields DEF TypeOK
  <1>5. i \notin clean[p]
    BY <1>2, <1>4 DEF CleanInv, CleanAt, AsListed
  <1>6. QED
    BY <1>3, <1>4, <1>5, AbsentIngress

-----------------------------------------------------------------------------
(* The theorems *)

\* A run that reports success (main.go:244) has migrated each Ingress it listed that no
\* user and no other run has written since, whatever runs, edits, deletions, lost
\* answers and conflicts there were: the Ingress has all that its annotations ask for,
\* and what else it has was made from annotations it had before (client.go:246).
THEOREM SuccessTheorem == Spec => []SuccessMeansMigrated
  <1>1. Init => TypeOK /\ CleanInv /\ PastInv
    BY TypeInit, CleanInit, PastInit
  <1>2. TypeOK /\ CleanInv /\ PastInv /\ [Next]_vars => (TypeOK /\ CleanInv /\ PastInv)'
    BY TypeStep, CleanStep, PastStep
  <1>3. TypeOK /\ CleanInv /\ PastInv => SuccessMeansMigrated
    <2> SUFFICES ASSUME TypeOK, CleanInv, PastInv, NEW p \in Runs, pc[p] = "ok",
                        NEW i \in clean[p]
                 PROVE  Migrated(i)
      BY DEF SuccessMeansMigrated
    <2>1. i \in Ingresses /\ ing[i] # Absent /\ Served(i)
      BY DEF TypeOK, CleanInv, CleanAt
    <2>2. OnlyOfItsPast(i)
      <3>1. MadeFrom(past[i], ing[i]) /\ ing[i] \in Ingress
        BY <2>1 DEF PastInv, TypeOK
      <3>2. \A k \in Keys : ing[i].conv[k] \in Confs \cup {Absent}
        BY <3>1 DEF Ingress
      <3>3. QED
        BY <2>1, <3>1, <3>2 DEF PastInv, MadeFrom, MadeOf, OnlyOfItsPast
    <2>3. QED
      BY <2>1, <2>2 DEF Migrated
  <1>4. QED
    BY <1>1, <1>2, <1>3, PTL DEF Spec

\* However runs fail and overlap, an Ingress whose annotation names a plugin config
\* that is not there (client.go:176-192 patches first) is one that a run will still
\* write, unless a run gave it up or somebody deleted it.
THEOREM DanglingTheorem == Spec => []DanglingLinkExplained
  <1>1. Init => TypeOK /\ QueueInv /\ DanglingLinkExplained
    BY TypeInit, QueueInit, DanglingInit
  <1>2. TypeOK /\ QueueInv /\ DanglingLinkExplained /\ [Next]_vars =>
            (TypeOK /\ QueueInv /\ DanglingLinkExplained)'
    BY TypeStep, QueueStep, DanglingStep
  <1>3. QED
    BY <1>1, <1>2, PTL DEF Spec

\* Cluster mode implements the ledger of MigrationLedger (client.go:175-201,
\* main.go:236-244): however runs fail, overlap and are repeated, and whatever users do
\* meanwhile, a run links only what it still owes, and success means that it owes nothing.
THEOREM ImplementsLedger == Spec => RefinesLedger
  <1>1. Init => TypeOK /\ QueueInv /\ Ledger!Init
    BY TypeInit, QueueInit, LedgerInit
  <1>2. TypeOK /\ QueueInv /\ [Next]_vars => (TypeOK /\ QueueInv)'
    BY TypeStep, QueueStep
  <1>3. QED
    BY <1>1, <1>2, LedgerStep, PTL DEF Spec, RefinesLedger, Ledger!Spec

\* No step of a run takes away a user's annotation, and one changes it only on an
\* Ingress somebody wrote after it was listed, back to the value listed
\* (client.go:237-257, the merge patch).
THEOREM NotesTheorem == Spec => KeepsUnlistedNotes
  <1>1. Init => TypeOK /\ CleanInv
    BY TypeInit, CleanInit
  <1>2. TypeOK /\ CleanInv /\ [Next]_vars => (TypeOK /\ CleanInv)'
    BY TypeStep, CleanStep
  <1>3. QED
    BY <1>1, <1>2, NotesStep, PTL DEF Spec, KeepsUnlistedNotes

=============================================================================
