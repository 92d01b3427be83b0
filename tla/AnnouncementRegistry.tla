------------------------ MODULE AnnouncementRegistry ------------------------
(***************************************************************************)
(* What the announcement store (pkg/web/announcement.go) promises: a list  *)
(* of announcements, newest first, changed by one whole operation at a     *)
(* time, and a stored copy that is either broken or a copy of the list as  *)
(* it was when the copy was made.  A restart goes back to the stored copy. *)
(***************************************************************************)
EXTENDS Naturals, Sequences

CONSTANTS
    Texts,         \* what an announcement may say
    Broken         \* a stored copy that cannot be read back

VARIABLES
    items,         \* the announcements, newest first
    stored         \* the stored copy

vars == <<items, stored>>

Item == [id : Nat \ {0}, text : Texts, active : BOOLEAN]
Readable(s) == IF s = Broken THEN <<>> ELSE s

\* A new announcement goes in front, active, under an id no other one has.
Post ==
    /\ \E new \in [id : {k + 1 : k \in {0} \cup {items[i].id : i \in DOMAIN items}},
                   text : Texts, active : {TRUE}] :
        /\ \A i \in DOMAIN items : items[i].id # new.id
        /\ items' = <<new>> \o items
    /\ UNCHANGED stored

\* An announcement is replaced where it stands and keeps its id.
Revise ==
    /\ \E i \in DOMAIN items, t \in Texts, a \in BOOLEAN :
        items' = [items EXCEPT ![i] = [id |-> @.id, text |-> t, active |-> a]]
    /\ UNCHANGED stored

\* One announcement is taken out and the order of the others kept.
Withdraw ==
    /\ \E i \in DOMAIN items :
        items' = [j \in 1 .. Len(items) - 1 |-> items[IF j < i THEN j ELSE j + 1]]
    /\ UNCHANGED stored

\* Saving breaks the stored copy and then replaces it by the current list.
Spoil == stored' = Broken /\ UNCHANGED items
Store == stored' = items /\ UNCHANGED items

Restart == items' = Readable(stored) /\ UNCHANGED stored

Init == stored \in {Broken} \cup Seq(Item) /\ items = Readable(stored)

Next == Post \/ Revise \/ Withdraw \/ Spoil \/ Store \/ Restart

Spec == Init /\ [][Next]_vars
=============================================================================
