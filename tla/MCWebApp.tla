------------------------------ MODULE MCWebApp ------------------------------
(* Model values and bounds for checking WebApp with TLC. *)
EXTENDS WebApp

CONSTANTS yaml, bare, apisix, gateway

\* A document at the root, one in a directory, one in a directory of that; the
\* last two have diagrams.  The user may upload a fourth.
ADoc == <<"a">>
BDoc == <<"d", "b">>
CDoc == <<"d", "e", "c">>
NewDoc == <<"new">>

MCTexts == {yaml, bare}
MCOptions == {apisix, gateway}
MCDocs == {ADoc, BDoc, CDoc, NewDoc}
MCMissing == {<<"d", "e">>}
MCIllustrated == {ADoc, BDoc}
MCFound == {BDoc}
MCFiles == {NewDoc, <<"text">>}
MCMarkdown == {NewDoc}
MCSections == {<<"intro">>, <<"convert">>}

\* A page, a deep link, a deep link with a section, and legacy addresses,
\* among them that of the page the path itself leads to.
MCUrls ==
    {[path |-> <<page>>, hash |-> NoHash] :
        page \in {"convert", "check", "docs", "documents", "admin", "login"}}
    \cup {[path |-> <<"docs">> \o ADoc, hash |-> h] : h \in {NoHash, <<"intro">>}}
    \cup {[path |-> <<>>, hash |-> h] : h \in {NoHash, <<"check">>, <<"docs">>, <<"docs">> \o BDoc}}
    \cup {[path |-> <<"nowhere">>, hash |-> NoHash]}

MCLinks == {[path |-> <<"docs">> \o BDoc, hash |-> <<"intro">>]}
=============================================================================
