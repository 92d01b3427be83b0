----------------------------- MODULE AdminPage -----------------------------
(***************************************************************************)
(* The announcement administration page (web/src/views/AdminPage.vue).     *)
(*                                                                         *)
(* GET /api/announcements answers an object {success, data}, which the     *)
(* page takes for the list itself: v-for then goes over the values of the  *)
(* object.  Its two rows are no announcements and their ids are undefined, *)
(* so Edit opens a form that saves a new announcement and Delete names     *)
(* nothing.                                                                *)
(***************************************************************************)
EXTENDS Naturals

CONSTANTS
    MaxSaves,      \* bound: saves in flight at once
    MaxLists,      \* bound: list requests in flight at once
    MaxDeletes     \* bound: deletions in flight at once

VARIABLE admin

\* What v-for makes of the server's answer.
AnswerFields == {"success", "data"}

\* A save first posts the form, then awaits loadAnnouncements().
Save == [no : 1..MaxSaves, step : {"post", "reload"}, complete : BOOLEAN]

TypeOK ==
    admin \in [mounted : BOOLEAN,
               rows : SUBSET AnswerFields,       \* announcements
               showForm : BOOLEAN,
               complete : BOOLEAN,               \* the form has a title and a content
               saving : BOOLEAN,                 \* loading
               saves : SUBSET Save,
               lists : 0..MaxLists,              \* GET in flight, not for a save
               deletes : 0..MaxDeletes]          \* DELETE in flight

Fresh == [mounted |-> FALSE, rows |-> {}, showForm |-> FALSE, complete |-> FALSE,
          saving |-> FALSE, saves |-> {}, lists |-> 0, deletes |-> 0]

Init == admin = Fresh

-----------------------------------------------------------------------------
Mount == admin' = [Fresh EXCEPT !.mounted = TRUE, !.lists = 1]
Unmount == admin' = Fresh

Refresh ==
    /\ admin.mounted
    /\ admin.lists < MaxLists
    /\ admin' = [admin EXCEPT !.lists = @ + 1]

ShowNewForm ==
    /\ admin.mounted
    /\ admin' = [admin EXCEPT !.showForm = TRUE, !.complete = FALSE]

\* The title and content of a row are undefined: the form opens empty, and
\* without an id to update.
EditAnnouncement ==
    /\ admin.rows # {}
    /\ admin' = [admin EXCEPT !.showForm = TRUE, !.complete = FALSE]

FillForm(done) ==
    /\ admin.showForm
    /\ admin' = [admin EXCEPT !.complete = done]

Cancel ==
    /\ admin.showForm
    /\ admin' = [admin EXCEPT !.showForm = FALSE]

FreeNumbers == {n \in 1..MaxSaves : \A s \in admin.saves : s.no # n}

Posted == [admin EXCEPT
    !.saving = TRUE,
    !.saves = @ \cup {[no |-> CHOOSE n \in FreeNumbers : TRUE,
                      step |-> "post", complete |-> admin.complete]}]

\* A Save button that stays enabled.
SaveAgain ==
    /\ admin.showForm
    /\ FreeNumbers # {}
    /\ admin' = Posted

SaveAnnouncement ==
    /\ admin.showForm
    /\ ~admin.saving
    /\ FreeNumbers # {}
    /\ admin' = Posted

\* The server takes a title and a content.  Whatever form is open by now
\* closes; the button stays disabled until the list has been fetched again.
SaveAccepted(s) ==
    /\ s \in admin.saves
    /\ s.step = "post" /\ s.complete
    /\ admin' = [admin EXCEPT !.showForm = FALSE,
                              !.saves = (@ \ {s}) \cup {[s EXCEPT !.step = "reload"]}]

\* The error is alerted and the form stays.
SaveRejected(s) ==
    /\ s \in admin.saves
    /\ s.step = "post"
    /\ admin' = [admin EXCEPT !.saving = FALSE, !.saves = @ \ {s}]

\* loadAnnouncements() ignores its errors: old rows stay.
SaveListed(s, rows) ==
    /\ s \in admin.saves
    /\ s.step = "reload"
    /\ admin' = [admin EXCEPT !.saving = FALSE, !.saves = @ \ {s}, !.rows = rows]

Listed(rows) ==
    /\ admin.lists > 0
    /\ admin' = [admin EXCEPT !.lists = @ - 1, !.rows = rows]

\* After confirm(): DELETE with id=undefined.
DeleteAnnouncement ==
    /\ admin.rows # {}
    /\ admin.deletes < MaxDeletes
    /\ admin' = [admin EXCEPT !.deletes = @ + 1]

\* The server finds no such announcement: the error is alerted.
DeleteRejected ==
    /\ admin.deletes > 0
    /\ admin' = [admin EXCEPT !.deletes = @ - 1]

-----------------------------------------------------------------------------
Gesture ==
    \/ Refresh
    \/ ShowNewForm
    \/ EditAnnouncement
    \/ \E done \in BOOLEAN : FillForm(done)
    \/ Cancel
    \/ SaveAnnouncement
    \/ DeleteAnnouncement

Arrival ==
    \/ \E s \in Save : SaveAccepted(s)
    \/ \E s \in Save : SaveRejected(s)
    \/ \E s \in Save, rows \in {AnswerFields, admin.rows} : SaveListed(s, rows)
    \/ \E rows \in {AnswerFields, admin.rows} : Listed(rows)
    \/ DeleteRejected

Next == Mount \/ Unmount \/ Gesture \/ Arrival

Spec == Init /\ [][Next]_admin

-----------------------------------------------------------------------------
(* Properties.                                                             *)

\* However the form is closed, reopened or cancelled while a save is out, no
\* second save starts before the first has answered and refetched the list.
OneSaveAtATime ==
    /\ \A s, t \in admin.saves : s = t
    /\ admin.saving <=> admin.saves # {}
=============================================================================
