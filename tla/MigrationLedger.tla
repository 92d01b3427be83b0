-------------------------- MODULE MigrationLedger --------------------------
(***************************************************************************)
(* What cluster mode (runClusterMode in cmd/ingress2apisix/main.go)        *)
(* promises of the Ingresses that name a plugin config: a ledger.  A run   *)
(* undertakes to write plugin configs when it begins, links an Ingress     *)
(* only while it still owes its config, pays by writing the config,        *)
(* reports success only when it owes nothing, and leaves whatever it does  *)
(* not pay on record when it fails.  Nothing is said of how: the objects,  *)
(* their versions and the order of requests are ClusterApply's.            *)
(***************************************************************************)
CONSTANTS
    Ingresses,     \* the Ingresses of the cluster
    Runs           \* runs of the program that may be under way together

VARIABLES
    linked,        \* the Ingresses that name a plugin config
    provided,      \* the Ingresses whose plugin config is there
    owed,          \* the Ingresses whose plugin config each run has still to write
    unpaid,        \* the Ingresses whose plugin config was given up, or deleted
    report         \* what each run has said

vars == <<linked, provided, owed, unpaid, report>>

Init ==
    /\ linked = {} /\ provided = {} /\ unpaid = {}
    /\ owed = [p \in Runs |-> {}]
    /\ report = [p \in Runs |-> "none"]

Undertake(p) ==
    /\ report[p] # "working"
    /\ report' = [report EXCEPT ![p] = "working"]
    /\ \E S \in SUBSET Ingresses : owed' = [owed EXCEPT ![p] = S]
    /\ UNCHANGED <<linked, provided, unpaid>>

\* The run goes on with debts D, and these are on record if it fails.
Settle(p, D, record) ==
    /\ report[p] = "working"
    /\ \/ owed' = [owed EXCEPT ![p] = D] /\ unpaid' = record /\ UNCHANGED report
       \/ /\ owed' = [owed EXCEPT ![p] = {}]
          /\ unpaid' = record \cup D
          /\ report' = [report EXCEPT ![p] = "failed"]

Link(p, i) ==
    /\ i \in owed[p]
    /\ linked' = linked \cup {i}
    /\ Settle(p, owed[p], unpaid)
    /\ UNCHANGED provided

Pay(p, i) ==
    /\ i \in owed[p]
    /\ provided' = provided \cup {i}
    /\ Settle(p, owed[p] \ {i}, unpaid \ {i})
    /\ UNCHANGED linked

Fail(p) == Settle(p, owed[p], unpaid) /\ UNCHANGED <<linked, provided>>

Succeed(p) ==
    /\ report[p] = "working"
    /\ owed[p] = {}
    /\ report' = [report EXCEPT ![p] = "ok"]
    /\ UNCHANGED <<linked, provided, owed, unpaid>>

\* A user deletes an Ingress, or a plugin config.
Remove(i) == linked' = linked \ {i} /\ UNCHANGED <<provided, owed, unpaid, report>>
Lose(i) ==
    /\ provided' = provided \ {i}
    /\ unpaid' = unpaid \cup {i}
    /\ UNCHANGED <<linked, owed, report>>

Next ==
    \/ \E p \in Runs : Undertake(p) \/ Fail(p) \/ Succeed(p)
    \/ \E p \in Runs, i \in Ingresses : Link(p, i) \/ Pay(p, i)
    \/ \E i \in Ingresses : Remove(i) \/ Lose(i)

Spec == Init /\ [][Next]_vars

\* An Ingress that names a plugin config which is not there is on record, or a run owes it.
Accounted == linked \ provided \subseteq unpaid \cup UNION {owed[p] : p \in Runs}
=============================================================================
