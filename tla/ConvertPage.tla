---------------------------- MODULE ConvertPage ----------------------------
(***************************************************************************)
(* The convert page of the web interface: the converter store              *)
(* (web/src/stores/converter.ts), the page that drives it                  *)
(* (views/ConvertPage.vue) and its editor (common/YamlEditor.vue).         *)
(*                                                                         *)
(* The store outlives the page: a request or a file read that is under way *)
(* when the user leaves still ends in the store.  convert() does not       *)
(* number its requests, and only the button is disabled while one is out;  *)
(* the keyboard shortcut is not.                                           *)
(*                                                                         *)
(* What the server makes of a text is left open.  An output, an error      *)
(* message and a result are each represented by the request they answer.   *)
(***************************************************************************)
EXTENDS Naturals

CONSTANTS
    Texts,         \* YAML texts that are not blank
    Example,       \* the text the page offers as an example
    Blank,         \* the empty text
    Options,       \* settings of the target selector and the SSL toggle
    Default,       \* the setting they start with
    None,          \* no answer shown
    MaxCalls       \* bound: conversions in flight at once

VARIABLE convert   \* the store, whether the page is mounted, what is in flight

Request == [yaml : Texts, options : Options]
Call == [no : 1..MaxCalls, request : Request]

TypeOK ==
    convert \in [mounted : BOOLEAN,
                 inputYaml : Texts \cup {Blank},
                 options : Options,
                 loading : BOOLEAN,
                 result : Request \cup {None},
                 outputYaml : Request \cup {None},
                 error : Request \cup {None},
                 calls : SUBSET Call,              \* POST /api/convert in flight
                 reading : SUBSET Texts,           \* file reads under way
                 latest : Request \cup {None},     \* history: what was sent last
                 crossed : BOOLEAN]                \* history: others were out then

Fresh == [mounted |-> FALSE, inputYaml |-> Blank, options |-> Default,
          loading |-> FALSE, result |-> None, outputYaml |-> None, error |-> None,
          calls |-> {}, reading |-> {}, latest |-> None, crossed |-> FALSE]

Init == convert = Fresh

-----------------------------------------------------------------------------
(* The page.                                                               *)

\* The shortcuts listen on the document while the page is mounted.
Mount == convert' = [convert EXCEPT !.mounted = TRUE]
\* Leaving without removing the listener.
UnmountListening == UNCHANGED convert

Unmount == convert' = [convert EXCEPT !.mounted = FALSE]

\* The whole interface is loaded anew.
Restart == convert' = Fresh

\* The editor hands every change the user makes to the store.
Type(t) ==
    /\ convert.mounted
    /\ t # convert.inputYaml
    /\ convert' = [convert EXCEPT !.inputYaml = t]

LoadExample == Type(Example)

SetOptions(o) ==
    /\ convert.mounted
    /\ o # convert.options
    /\ convert' = [convert EXCEPT !.options = o]

\* The upload button or a drop anywhere on the page starts a FileReader.
ChooseFile(t) ==
    /\ convert.mounted
    /\ convert' = [convert EXCEPT !.reading = @ \cup {t}]

FileRead(t) ==
    /\ t \in convert.reading
    /\ convert' = [convert EXCEPT !.reading = @ \ {t}, !.inputYaml = t]

-----------------------------------------------------------------------------
(* The store.                                                              *)

FreeNumbers == {n \in 1..MaxCalls : \A c \in convert.calls : c.no # n}

\* What the next request sends: the values of the moment.
Pending == [yaml |-> convert.inputYaml, options |-> convert.options]

\* A convert() that leaves the former answer in place while it waits.
SendKeepingAnswer ==
    /\ convert.inputYaml # Blank
    /\ \E n \in FreeNumbers :
        /\ \A m \in FreeNumbers : n <= m
        /\ convert' = [convert EXCEPT
            !.loading = TRUE,
            !.calls = @ \cup {[no |-> n, request |-> Pending]},
            !.latest = Pending, !.crossed = convert.calls # {}]

\* convert(): blank input is ignored; an answer on screen is dropped first.
Send ==
    /\ convert.inputYaml # Blank
    /\ \E n \in FreeNumbers :
        /\ \A m \in FreeNumbers : n <= m
        /\ convert' = [convert EXCEPT
            !.loading = TRUE, !.error = None, !.outputYaml = None, !.result = None,
            !.calls = @ \cup {[no |-> n, request |-> Pending]},
            !.latest = Pending, !.crossed = convert.calls # {}]

PressConvert ==
    /\ convert.mounted
    /\ ~convert.loading
    /\ Send

\* Ctrl+Enter or Cmd+Enter.
ShortcutConvert ==
    /\ convert.mounted
    /\ Send

\* The Clear button and Ctrl+Shift+X.
Clear ==
    /\ convert.mounted
    /\ convert' = [convert EXCEPT !.inputYaml = Blank, !.outputYaml = None,
                                  !.result = None, !.error = None]

Finished(c) == [convert EXCEPT !.calls = @ \ {c}, !.loading = FALSE]

\* success, with the resources written out.
Converted(c) ==
    /\ c \in convert.calls
    /\ convert' = [Finished(c) EXCEPT !.result = c.request, !.outputYaml = c.request]

\* success = FALSE with errors: convert() returns before it sets the output.
Refused(c) ==
    /\ c \in convert.calls
    /\ convert' = [Finished(c) EXCEPT !.result = c.request, !.error = c.request]

\* A failure whose `finally` is forgotten.
FailedStillLoading(c) ==
    /\ c \in convert.calls
    /\ convert' = [convert EXCEPT !.calls = @ \ {c}, !.error = c.request]

\* fetch rejects, or the status is not 2xx: request() throws.
Failed(c) ==
    /\ c \in convert.calls
    /\ convert' = [Finished(c) EXCEPT !.error = c.request]

-----------------------------------------------------------------------------
Gesture ==
    \/ \E t \in Texts \cup {Blank} : Type(t)
    \/ LoadExample
    \/ \E o \in Options : SetOptions(o)
    \/ \E t \in Texts : ChooseFile(t)
    \/ PressConvert
    \/ ShortcutConvert
    \/ Clear

Arrival ==
    \/ \E t \in Texts : FileRead(t)
    \/ \E c \in Call : Converted(c)
    \/ \E c \in Call : Refused(c)
    \/ \E c \in Call : Failed(c)

Next == Mount \/ Unmount \/ Restart \/ Gesture \/ Arrival

Spec == Init /\ [][Next]_convert

-----------------------------------------------------------------------------
(* Properties.                                                             *)

\* The spinner turns only while a conversion is out (the converse fails when
\* requests overlap: the first of them to end stops it).
SpinnerMeansCall == convert.loading => convert.calls # {}

Shown == {convert.result, convert.outputYaml, convert.error} \ {None}

\* Unless the shortcut sent a request while another was out, the page shows
\* nothing while it waits, and then what it shows, be it output, error,
\* warnings or summary, all answers the request sent last, never an output
\* beside an error.
OneAnswerShown ==
    ~convert.crossed =>
        /\ convert.loading <=> convert.calls # {}
        /\ convert.loading => Shown = {}
        /\ Shown \subseteq {convert.latest}
        /\ convert.outputYaml = None \/ convert.error = None
=============================================================================
