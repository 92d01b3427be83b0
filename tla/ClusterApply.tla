---------------------------- MODULE ClusterApply ----------------------------
(***************************************************************************)
(* Cluster mode (runClusterMode in cmd/ingress2apisix/main.go, and         *)
(* pkg/k8s/client.go): a run lists the Ingresses, converts them, and then  *)
(* patches each Ingress, creates or updates each ApisixPluginConfig and    *)
(* then each BackendTrafficPolicy, one request after the other, stopping   *)
(* at the first error.  Nothing is rolled back; the operator runs it again.*)
(*                                                                         *)
(* Runs interleave with one another and with what the users of the cluster *)
(* do.  The API server keeps resource versions: a run that has got an      *)
(* object is `current` until somebody writes it.  A request may fail       *)
(* before it is done or after (the answer is lost, or the run is killed).  *)
(*                                                                         *)
(* A conf stands for the nginx annotations of an Ingress; what is made     *)
(* from it (each converted annotation, plugins, policy) carries the conf   *)
(* it was last made from.  A note stands for every other annotation.  The  *)
(* rules of an Ingress are not in the patch (client.go:237) and not here.  *)
(* Names are not cut to one another: each Ingress has a plugin config and  *)
(* a policy of its own, the two policies the code may make of one Ingress  *)
(* (affinity and hash-by) being one here.                                  *)
(***************************************************************************)
EXTENDS Naturals, FiniteSets

CONSTANTS
    Ingresses,     \* the Ingresses of the cluster, in the order of the list
    Confs,         \* what the nginx annotations of an Ingress may be
    NeedsPlugin,   \* the confs that need an ApisixPluginConfig
    NeedsPolicy,   \* the confs that need a BackendTrafficPolicy
    Keys,          \* the annotations a conversion may write (k8s.apisix.apache.org/...)
    Writes,        \* those it writes, of each conf
    Notes,         \* what another annotation may be, if there is one
    Runs,          \* runs of the program that may be under way together
    Absent,        \* no such object, no such annotation
    MaxEdits,      \* bound: changes made by users
    MaxFaults      \* bound: requests that fail for no reason of their own

ASSUME IngressAssumption == Ingresses \subseteq Nat /\ IsFiniteSet(Ingresses)
ASSUME ConfAssumption ==
    NeedsPlugin \subseteq Confs /\ NeedsPolicy \subseteq Confs /\ Absent \notin Confs \cup Notes
ASSUME WritesAssumption == Writes \in [Confs -> SUBSET Keys]
ASSUME ApplyBounds == MaxEdits \in Nat /\ MaxFaults \in Nat

VARIABLES
    ing,           \* the Ingresses
    crd,           \* the other objects, each by the conf it was made from
    pc,            \* where each run stands
    snap,          \* the Ingresses it has listed
    todo,          \* the objects it has still to apply
    current,       \* the runs that got the object they apply and nobody wrote since
    clean,         \* history: listed Ingresses nobody else has touched since
    excused,       \* history: Ingresses whose plugin config was deleted, or given up
    past,          \* history: the confs each Ingress has had
    edits,         \* against MaxEdits
    faults         \* against MaxFaults

vars == <<ing, crd, pc, snap, todo, current, clean, excused, past, edits, faults>>

-----------------------------------------------------------------------------
(* Types *)

Kinds == {"ingress", "plugin", "policy"}
Object == Kinds \X Ingresses
Generated == {"plugin", "policy"} \X Ingresses
Rank(k) == IF k = "ingress" THEN 0 ELSE IF k = "plugin" THEN 1 ELSE 2

Ingress == [class : {"none", "nginx", "apisix"},   \* spec.ingressClassName
            legacy : {"none", "nginx"},            \* kubernetes.io/ingress.class
            conf : Confs,
            conv : [Keys -> Confs \cup {Absent}],
            note : Notes \cup {Absent},
            link : {"none", "own"}]                \* plugin-config-name

ASSUME AbsentIngress == Absent \notin Ingress

Working(p) == pc[p] \in {"next", "create", "update"}

TypeOK ==
    /\ ing \in [Ingresses -> Ingress \cup {Absent}]
    /\ crd \in [Generated -> Confs \cup {Absent}]
    /\ pc \in [Runs -> {"idle", "next", "create", "update", "ok", "failed"}]
    /\ snap \in [Runs -> [Ingresses -> Ingress \cup {Absent}]]
    /\ todo \in [Runs -> SUBSET Object]
    /\ \A p \in Runs : \A t \in todo[p] : snap[p][t[2]] # Absent
    /\ current \subseteq Runs
    /\ clean \in [Runs -> SUBSET Ingresses]
    /\ excused \subseteq Ingresses
    /\ past \in [Ingresses -> SUBSET Confs]
    /\ edits \in Nat
    /\ faults \in Nat

-----------------------------------------------------------------------------
(* Users                                                                   *)

\* Somebody writes an object of i: what the runs know of it is old.
TouchedBy(S, i) == clean' = [q \in Runs |-> IF q \in S THEN clean[q] ELSE clean[q] \ {i}]

UserChangesIngress(i, new) ==
    /\ edits < MaxEdits
    /\ edits' = edits + 1
    /\ ing[i] # Absent
    /\ ing' = [ing EXCEPT ![i] = new]
    /\ past' = [past EXCEPT ![i] = IF new = Absent THEN @ ELSE @ \cup {new.conf}]
    /\ TouchedBy({}, i)
    /\ UNCHANGED <<crd, pc, snap, todo, current, excused, faults>>

EditConf(i) == \E c \in Confs : UserChangesIngress(i, [ing[i] EXCEPT !.conf = c])
EditNote(i) == \E n \in Notes \cup {Absent} :
    UserChangesIngress(i, [ing[i] EXCEPT !.note = n])
DeleteIngress(i) == UserChangesIngress(i, Absent)

IsNext(t, p) ==
    /\ t \in todo[p]
    /\ \A u \in todo[p] :
        \/ Rank(t[1]) < Rank(u[1])
        \/ Rank(t[1]) = Rank(u[1]) /\ t[2] <= u[2]

\* The runs that hold a version of the object that is no more.
Outdated(t) == {q \in current : IsNext(t, q)}

DeleteGenerated(t) ==
    /\ edits < MaxEdits
    /\ edits' = edits + 1
    /\ crd[t] # Absent
    /\ crd' = [crd EXCEPT ![t] = Absent]
    /\ current' = current \ Outdated(t)
    /\ TouchedBy({}, t[2])
    /\ excused' = IF t[1] = "plugin" THEN excused \cup {t[2]} ELSE excused
    /\ UNCHANGED <<ing, pc, snap, todo, past, faults>>

-----------------------------------------------------------------------------
(* A run                                                                   *)

Conf(p, i) == snap[p][i].conf

\* The objects ConvertList makes of a list.
\* (ToApplyOnce: a faulty choice, that trusts an Ingress already linked.)
ToApplyOnce(listed) ==
    {t \in Object : /\ listed[t[2]] # Absent
                    /\ t[1] = "plugin" =>
                        listed[t[2]].conf \in NeedsPlugin /\ listed[t[2]].link = "none"
                    /\ t[1] = "policy" => listed[t[2]].conf \in NeedsPolicy}
ToApply(listed) ==
    {t \in Object : /\ listed[t[2]] # Absent
                    /\ t[1] = "plugin" => listed[t[2]].conf \in NeedsPlugin
                    /\ t[1] = "policy" => listed[t[2]].conf \in NeedsPolicy}

\* List and convert; a cluster with no Ingress is an error.
Start(p) ==
    /\ ~Working(p)
    /\ \E i \in Ingresses : ing[i] # Absent
    /\ snap' = [snap EXCEPT ![p] = ing]
    /\ todo' = [todo EXCEPT ![p] = ToApply(ing)]
    /\ clean' = [clean EXCEPT ![p] = {i \in Ingresses : ing[i] # Absent}]
    /\ pc' = [pc EXCEPT ![p] = "next"]
    /\ UNCHANGED <<ing, crd, current, excused, past, edits, faults>>

Forsaken(left) == {i \in Ingresses : <<"plugin", i>> \in left}
NothingListed == [i \in Ingresses |-> Absent]

\* The first error ends the run; what it had still to apply is given up.
\* (GiveUpKeeping: a faulty choice, that does not drop the queue.)
GiveUpKeeping(p) ==
    /\ pc' = [pc EXCEPT ![p] = "failed"]
    /\ snap' = [snap EXCEPT ![p] = NothingListed]
    /\ UNCHANGED todo
GiveUp(p) ==
    /\ pc' = [pc EXCEPT ![p] = "failed"]
    /\ todo' = [todo EXCEPT ![p] = {}]
    /\ snap' = [snap EXCEPT ![p] = NothingListed]

Fault == faults < MaxFaults /\ faults' = faults + 1

\* A request is not done, for an error of its own or by a fault.
Refused(p) ==
    /\ GiveUp(p)
    /\ current' = current \ {p}
    /\ clean' = [clean EXCEPT ![p] = {}]
    /\ excused' = excused \cup Forsaken(todo[p])
    /\ UNCHANGED <<ing, crd, past, edits>>

Fails(p) == Working(p) /\ Refused(p) /\ Fault

\* A request on t is done, and the run goes on, or never hears of it.
Done(p, t) ==
    /\ \/ /\ pc' = [pc EXCEPT ![p] = "next"]
          /\ todo' = [todo EXCEPT ![p] = @ \ {t}]
          /\ UNCHANGED <<snap, faults>>
       \/ GiveUp(p) /\ Fault
    /\ TouchedBy({p}, t[2])
    /\ UNCHANGED <<past, edits>>

\* The merge patch has the class, what the listed conf is converted to, and every
\* annotation listed that is not nginx's, those of earlier conversions among them.  It
\* has no null: what is not in it stays.
Merged(new, old) == IF new = Absent THEN old ELSE new
ConvPatched(i, old) ==
    [k \in Keys |-> IF k \in Writes[old.conf] THEN old.conf
                    ELSE Merged(old.conv[k], ing[i].conv[k])]

\* (PatchedWhole: a faulty choice, that writes the whole Ingress.)
PatchedWhole(i, old) ==
    [ing[i] EXCEPT !.class = "apisix", !.conv = ConvPatched(i, old), !.note = old.note,
                   !.link = IF old.conf \in NeedsPlugin THEN "own" ELSE old.link]
\* (PatchedLinking: a faulty choice, that links whether or not there are plugins.)
PatchedLinking(i, old) ==
    [ing[i] EXCEPT !.class = "apisix", !.conv = ConvPatched(i, old),
                   !.note = Merged(old.note, @), !.link = "own"]
Patched(i, old) ==
    [ing[i] EXCEPT !.class = "apisix", !.conv = ConvPatched(i, old),
                   !.note = Merged(old.note, @),
                   !.link = IF old.conf \in NeedsPlugin \/ old.link = "own" THEN "own" ELSE @]

Patch(p, i) ==
    /\ pc[p] = "next"
    /\ IsNext(<<"ingress", i>>, p)
    /\ ing[i] # Absent
    /\ ing' = [ing EXCEPT ![i] = Patched(i, snap[p][i])]
    /\ Done(p, <<"ingress", i>>)
    /\ excused' = IF pc'[p] = "failed" THEN excused \cup Forsaken(todo[p]) ELSE excused
    /\ UNCHANGED <<crd, current>>

PatchNotFound(p, i) ==
    /\ pc[p] = "next"
    /\ IsNext(<<"ingress", i>>, p)
    /\ ing[i] = Absent
    /\ Refused(p)
    /\ UNCHANGED faults

\* Any error of Get, not only NotFound, is taken for a missing object.
\* (GetSkipping: a faulty choice, that goes on with the next object then.)
GetSkipping(p, t) ==
    /\ pc[p] = "next"
    /\ IsNext(t, p)
    /\ \/ /\ crd[t] # Absent
          /\ pc' = [pc EXCEPT ![p] = "update"]
          /\ current' = current \cup {p}
          /\ UNCHANGED <<todo, faults>>
       \/ /\ crd[t] = Absent
          /\ pc' = [pc EXCEPT ![p] = "create"]
          /\ UNCHANGED <<todo, current, faults>>
       \/ /\ Fault
          /\ todo' = [todo EXCEPT ![p] = @ \ {t}]
          /\ UNCHANGED <<pc, current>>
    /\ UNCHANGED <<ing, crd, snap, clean, excused, past, edits>>
Get(p, t) ==
    /\ pc[p] = "next"
    /\ IsNext(t, p)
    /\ \/ /\ crd[t] # Absent
          /\ pc' = [pc EXCEPT ![p] = "update"]
          /\ current' = current \cup {p}
          /\ UNCHANGED faults
       \/ /\ crd[t] = Absent \/ faults < MaxFaults
          /\ faults' = IF crd[t] = Absent THEN faults ELSE faults + 1
          /\ pc' = [pc EXCEPT ![p] = "create"]
          /\ UNCHANGED current
    /\ UNCHANGED <<ing, crd, snap, todo, clean, excused, past, edits>>

\* The object is written from what was listed.
Put(p, t) ==
    /\ crd' = [crd EXCEPT ![t] = Conf(p, t[2])]
    /\ Done(p, t)
    /\ current' = current \ (Outdated(t) \cup {p})
    /\ LET left == IF pc'[p] = "failed" THEN Forsaken(todo[p] \ {t}) ELSE {}
       IN  excused' = (excused \cup left) \ (IF t[1] = "plugin" THEN {t[2]} ELSE {})
    /\ UNCHANGED ing

Create(p, t) ==
    /\ pc[p] = "create"
    /\ IsNext(t, p)
    /\ crd[t] = Absent
    /\ Put(p, t)

CreateAlreadyExists(p, t) ==
    /\ pc[p] = "create"
    /\ IsNext(t, p)
    /\ crd[t] # Absent
    /\ Refused(p)
    /\ UNCHANGED faults

\* Update sends the resource version that Get has returned.
Update(p, t) ==
    /\ pc[p] = "update"
    /\ IsNext(t, p)
    /\ p \in current
    /\ Put(p, t)

UpdateConflict(p, t) ==
    /\ pc[p] = "update"
    /\ IsNext(t, p)
    /\ p \notin current
    /\ Refused(p)
    /\ UNCHANGED faults

\* Everything is applied.
Finish(p) ==
    /\ pc[p] = "next"
    /\ todo[p] = {}
    /\ pc' = [pc EXCEPT ![p] = "ok"]
    /\ snap' = [snap EXCEPT ![p] = NothingListed]
    /\ UNCHANGED <<ing, crd, todo, current, clean, excused, past, edits, faults>>

-----------------------------------------------------------------------------
\* An Ingress for the nginx controller, with the class in one place.
NotConverted(r) ==
    /\ r.conv = [k \in Keys |-> Absent] /\ r.link = "none"
    /\ <<r.class, r.legacy>> \in {<<"nginx", "none">>, <<"none", "nginx">>}

Init ==
    /\ ing \in [Ingresses -> {r \in Ingress : NotConverted(r)}]
    /\ crd = [t \in Generated |-> Absent]
    /\ pc = [p \in Runs |-> "idle"]
    /\ snap = [p \in Runs |-> NothingListed]
    /\ todo = [p \in Runs |-> {}]
    /\ current = {}
    /\ clean = [p \in Runs |-> {}]
    /\ excused = {}
    /\ past = [i \in Ingresses |-> {ing[i].conf}]
    /\ edits = 0
    /\ faults = 0

Step(p) ==
    \/ \E i \in Ingresses : Patch(p, i) \/ PatchNotFound(p, i)
    \/ \E t \in Generated :
        Get(p, t) \/ Create(p, t) \/ CreateAlreadyExists(p, t) \/ Update(p, t) \/ UpdateConflict(p, t)
    \/ Finish(p)

Next ==
    \/ \E p \in Runs : Start(p) \/ Step(p) \/ Fails(p)
    \/ \E i \in Ingresses : EditConf(i) \/ EditNote(i) \/ DeleteIngress(i)
    \/ \E t \in Generated : DeleteGenerated(t)

\* A run that is under way goes on: each request is answered, or times out.
Fairness == \A p \in Runs : WF_vars(Step(p))

Spec == Init /\ [][Next]_vars /\ Fairness

-----------------------------------------------------------------------------
(* Properties *)

\* i has everything its nginx annotations ask for.
Served(i) ==
    /\ ing[i].class = "apisix"
    /\ \A k \in Writes[ing[i].conf] : ing[i].conv[k] = ing[i].conf
    /\ ing[i].conf \in NeedsPlugin =>
        ing[i].link = "own" /\ crd[<<"plugin", i>>] = ing[i].conf
    /\ ing[i].conf \in NeedsPolicy => crd[<<"policy", i>>] = ing[i].conf

\* What i has beyond that is from a conf it had before, which no run takes away.
MadeOf(S, i) == (S \cap past[i]) \cup {Absent}
OnlyOfItsPast(i) ==
    /\ \A k \in Keys : ing[i].conv[k] \in MadeOf({c \in Confs : k \in Writes[c]}, i)
    /\ ing[i].link = "own" => NeedsPlugin \cap past[i] # {}
    /\ crd[<<"plugin", i>>] \in MadeOf(NeedsPlugin, i)
    /\ crd[<<"policy", i>>] \in MadeOf(NeedsPolicy, i)

Migrated(i) == Served(i) /\ OnlyOfItsPast(i)

\* A run that reports success (main.go:244) has migrated each Ingress that nobody
\* else, another run included, has touched since it listed them: the Ingress has all
\* that its annotations ask for and, if they were never edited, nothing else.  After an
\* edit it may keep what the earlier ones were converted to (client.go:246).
SuccessMeansMigrated == \A p \in Runs : pc[p] = "ok" => \A i \in clean[p] : Migrated(i)

\* An Ingress that names a plugin config which is not there (client.go:176-192
\* patches it first) is being worked on by a run that will still write the config,
\* unless a run gave it up or somebody deleted it.
DanglingLinkExplained ==
    \A i \in Ingresses :
        ing[i] # Absent /\ ing[i].link = "own" /\ crd[<<"plugin", i>>] = Absent =>
            i \in excused \/ \E p \in Runs : <<"plugin", i>> \in todo[p]

\* Running it again repairs whatever partial state runs left (client.go:175-201):
\* if runs keep being started, then once the users and the faults have stopped
\* every Ingress comes to be migrated and stays so, with what its earlier
\* configurations were converted to still there.
Starts == \E p \in Runs : Start(p)
RerunsConverge ==
    []<><<Starts>>_vars =>
        <>[](\A i \in Ingresses : ing[i] # Absent => Migrated(i))

\* A run overwrites a user's annotation only with the value it had listed before the
\* Ingress was touched, and never deletes one (client.go:237-257: the patch holds
\* every annotation listed, and no null).
KeepsUnlistedNotes ==
    [][\A i \in Ingresses :
        edits' = edits /\ ing[i] # Absent /\ ing'[i].note # ing[i].note =>
            /\ ing'[i].note # Absent
            /\ \E p \in Runs : i \notin clean[p] /\ snap[p][i] # Absent
                               /\ ing'[i].note = snap[p][i].note]_vars

\* "removes kubernetes.io/ingress.class: nginx" (README.md), from each Ingress a
\* successful run has migrated.
LegacyClassRemoved ==
    \A p \in Runs : pc[p] = "ok" => \A i \in clean[p] : ing[i].legacy = "none"
-----------------------------------------------------------------------------
(* What a run promises of links and plugin configs *)

Linked == {i \in Ingresses : ing[i] # Absent /\ ing[i].link = "own"}
Provided == {i \in Ingresses : crd[<<"plugin", i>>] # Absent}
Owed == [p \in Runs |-> Forsaken(todo[p])]
Report ==
    [p \in Runs |-> IF Working(p) THEN "working" ELSE IF pc[p] = "idle" THEN "none" ELSE pc[p]]

Ledger ==
    INSTANCE MigrationLedger
        WITH linked <- Linked, provided <- Provided, owed <- Owed, unpaid <- excused,
             report <- Report

\* Cluster mode implements the ledger (client.go:175-201, main.go:236-244): a run links
\* an Ingress only while it has still to write the plugin config, whatever it gives up
\* is on record until somebody writes it, and success means that nothing is owed.
RefinesLedger == Ledger!Spec
=============================================================================
