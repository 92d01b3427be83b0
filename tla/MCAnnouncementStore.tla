------------------------ MODULE MCAnnouncementStore ------------------------
(* Small instances of AnnouncementStore for TLC. *)
EXTENDS AnnouncementStore, TLC

CONSTANTS t1, t2

\* What earlier runs may have left: nothing, three announcements of which one
\* has been withdrawn and the ids have a gap, or a file cut short.
Kept(id, active) == [id |-> id, text |-> t1, active |-> active]
MCInitialFiles == {<<>>, <<Kept(4, TRUE), Kept(2, TRUE), Kept(1, FALSE)>>, Broken}

\* Handlers are interchangeable.
HandlerSymmetry == Permutations(Handlers)
=============================================================================
