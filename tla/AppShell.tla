------------------------------ MODULE AppShell ------------------------------
(***************************************************************************)
(* What surrounds the pages of the web interface: the theme of             *)
(* web/src/stores/app.ts, the login page (views/LoginPage.vue) and the     *)
(* token that api/client.ts sends with every request.  The theme and the   *)
(* token are kept in localStorage and survive a reload.                    *)
(*                                                                         *)
(* The server of this repository has no /api/auth/login and never answers  *)
(* 401; the interface is written for a gateway in front of it that does.   *)
(***************************************************************************)
EXTENDS Naturals

CONSTANTS NoTheme,     \* nothing saved
          MaxLogins    \* bound: logins in flight, but for the form's own

VARIABLE shell

Themes == {"dark", "light"}

TypeOK ==
    shell \in [theme : Themes,
               saved : Themes \cup {NoTheme},   \* ingress2apisix-theme
               token : BOOLEAN,                 \* ingress2apisix-token
               filled : BOOLEAN,                \* user name and password entered
               signing : BOOLEAN,               \* loading: the form's login is out
               failed : BOOLEAN,                \* error
               strays : 0..MaxLogins]           \* logins in flight of forms left

\* A theme read without a default.
SavedTheme(saved) == saved

\* initTheme(): the saved theme, or light.
InitTheme(saved) == IF saved = NoTheme THEN "light" ELSE saved

Started(saved, token) ==
    [theme |-> InitTheme(saved), saved |-> saved, token |-> token, filled |-> FALSE,
     signing |-> FALSE, failed |-> FALSE, strays |-> 0]

Init == shell = Started(NoTheme, FALSE)

-----------------------------------------------------------------------------
Restart == shell' = Started(shell.saved, shell.token)

\* request() on a 401: the token goes and the program starts again at /login.
SignOut == shell' = Started(shell.saved, FALSE)

OtherTheme == IF shell.theme = "dark" THEN "light" ELSE "dark"

ToggleTheme == shell' = [shell EXCEPT !.theme = OtherTheme, !.saved = OtherTheme]

\* Leaving the login page forgets the form, not the request that is out.
Left(s) == [s EXCEPT !.filled = FALSE, !.signing = FALSE, !.failed = FALSE,
                     !.strays = IF s.signing THEN @ + 1 ELSE @]

LeaveLogin == shell' = Left(shell)

FillIn(done) ==
    /\ done # shell.filled
    /\ shell' = [shell EXCEPT !.filled = done]

\* The button is disabled while signing in.
DoLogin ==
    /\ shell.filled
    /\ ~shell.signing
    /\ shell.strays < MaxLogins
    /\ shell' = [shell EXCEPT !.signing = TRUE, !.failed = FALSE]

\* An answer comes for the form on screen, or for one that was left.
Answered ==
    (IF shell.signing THEN {[shell EXCEPT !.signing = FALSE]} ELSE {})
    \cup (IF shell.strays > 0 THEN {[shell EXCEPT !.strays = @ - 1]} ELSE {})

\* The token is stored; doLogin() then pushes the route / wherever the user is,
\* and so may lead away from the login page.
LoginAccepted(away) ==
    \E s \in Answered :
        LET signedIn == [s EXCEPT !.token = TRUE] IN
        shell' = IF away THEN Left(signedIn) ELSE signedIn

\* Any failure but a 401, which restarts the program before the form shows it.
LoginFailed ==
    \/ shell.signing /\ shell' = [shell EXCEPT !.signing = FALSE, !.failed = TRUE]
    \/ shell.strays > 0 /\ shell' = [shell EXCEPT !.strays = @ - 1]

-----------------------------------------------------------------------------
Next ==
    \/ Restart
    \/ SignOut
    \/ ToggleTheme
    \/ LeaveLogin
    \/ \E done \in BOOLEAN : FillIn(done)
    \/ DoLogin
    \/ \E away \in BOOLEAN : LoginAccepted(away)
    \/ LoginFailed

Spec == Init /\ [][Next]_shell
=============================================================================
