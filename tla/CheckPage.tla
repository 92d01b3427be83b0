----------------------------- MODULE CheckPage -----------------------------
(***************************************************************************)
(* The annotation check page (web/src/views/CheckPage.vue).                *)
(*                                                                         *)
(* All of its state is local to the component: it starts afresh each time  *)
(* the page is opened, and what arrives for an earlier opening is lost.    *)
(*                                                                         *)
(* handleCheck answers with one entry per file of the text that has an     *)
(* Ingress, and writes an entry without findings as JSON null.  The page   *)
(* iterates over it while it renders: the error replaces the whole page by *)
(* an empty comment, toolbar included.                                     *)
(***************************************************************************)
EXTENDS Naturals

CONSTANTS
    Texts,         \* YAML texts that are not blank
    Example,       \* the text the page offers as an example
    Annotated,     \* those with an nginx annotation
    Bare,          \* those with an Ingress but no nginx annotation
    Blank,         \* the empty text
    None,          \* no answer shown
    MaxCalls       \* bound: checks in flight at once

VARIABLE check

Call == [no : 1..MaxCalls, yaml : Texts]

TypeOK ==
    check \in [mounted : BOOLEAN,
               inputYaml : Texts \cup {Blank},
               loading : BOOLEAN,
               result : Texts \cup {None},       \* the text whose report is held
               error : Texts \cup {None},        \* the text whose check failed
               calls : SUBSET Call,              \* POST /api/check in flight
               reading : SUBSET Texts,           \* file reads under way
               latest : Texts \cup {None}]       \* history: what was sent last

Fresh == [mounted |-> FALSE, inputYaml |-> Blank, loading |-> FALSE,
          result |-> None, error |-> None, calls |-> {}, reading |-> {},
          latest |-> None]

Init == check = Fresh

-----------------------------------------------------------------------------
(* What the page shows.                                                    *)

\* The server's `findings` for a text: an entry of null cannot be iterated.
Findings(t) ==
    CASE t \in Annotated -> {"row"}
      [] t \in Bare -> {"null"}
      [] OTHER -> {}

\* The computed allFindings throws during render.
Blanked == check.result # None /\ "null" \in Findings(check.result)

\* Whether there is a page to use.
Usable == check.mounted /\ ~Blanked

-----------------------------------------------------------------------------
Mount == check' = [Fresh EXCEPT !.mounted = TRUE]
Unmount == check' = Fresh

Type(t) ==
    /\ Usable
    /\ t # check.inputYaml
    /\ check' = [check EXCEPT !.inputYaml = t]

LoadExample == Type(Example)

ChooseFile(t) ==
    /\ Usable
    /\ check' = [check EXCEPT !.reading = @ \cup {t}]

FileRead(t) ==
    /\ t \in check.reading
    /\ check' = [check EXCEPT !.reading = @ \ {t}, !.inputYaml = t]

FreeNumbers == {n \in 1..MaxCalls : \A c \in check.calls : c.no # n}

Sent == [check EXCEPT
    !.loading = TRUE, !.error = None, !.result = None, !.latest = check.inputYaml,
    !.calls = @ \cup {[no |-> CHOOSE n \in FreeNumbers : TRUE, yaml |-> check.inputYaml]}]

\* A button that is not disabled while a check is out.
PressCheckAnytime ==
    /\ Usable
    /\ check.inputYaml # Blank
    /\ FreeNumbers # {}
    /\ check' = Sent

PressCheck ==
    /\ Usable
    /\ ~check.loading
    /\ check.inputYaml # Blank
    /\ FreeNumbers # {}
    /\ check' = Sent

\* Clear does not cancel the check that is out: its report still arrives.
Clear ==
    /\ Usable
    /\ check' = [check EXCEPT !.inputYaml = Blank, !.result = None, !.error = None]

Finished(c) == [check EXCEPT !.calls = @ \ {c}, !.loading = FALSE]

Reported(c) ==
    /\ c \in check.calls
    /\ check' = [Finished(c) EXCEPT !.result = c.yaml]

Failed(c) ==
    /\ c \in check.calls
    /\ check' = [Finished(c) EXCEPT !.error = c.yaml]

-----------------------------------------------------------------------------
Gesture ==
    \/ \E t \in Texts \cup {Blank} : Type(t)
    \/ LoadExample
    \/ \E t \in Texts : ChooseFile(t)
    \/ PressCheck
    \/ Clear

Arrival ==
    \/ \E t \in Texts : FileRead(t)
    \/ \E c \in Call : Reported(c)
    \/ \E c \in Call : Failed(c)

Next == Mount \/ Unmount \/ Gesture \/ Arrival

Spec == Init /\ [][Next]_check

-----------------------------------------------------------------------------
(* Properties.                                                             *)

\* A check at a time: although Clear leaves the spinner alone and a report
\* arrives after it, the page never mixes two checks.  While one is out it
\* shows neither report nor error; then it shows at most one of the two, for
\* the text that was sent last.
OneCheckAtATime ==
    /\ \A c, d \in check.calls : c = d
    /\ check.loading <=> check.calls # {}
    /\ check.loading => {check.result, check.error} = {None}
    /\ {check.result, check.error} \subseteq {None, check.latest}
    /\ check.result = None \/ check.error = None
=============================================================================
