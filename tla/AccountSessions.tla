----------------------------- MODULE AccountSessions -----------------------------
(***************************************************************************)
(* The sessions of one account.  A session is a signed cookie that the     *)
(* browser keeps and that names the session_version of the account it was  *)
(* made for; the server stores nothing about it.  The middleware compares  *)
(* the versions on every request, and the answer to every request carries  *)
(* the request's session back, changed or not, so that answers that arrive *)
(* out of order overwrite each other's cookie.                             *)
(*                                                                         *)
(* An exchange is one request of a browser with its answer.  A password is *)
(* named by the version it came with.  A cookie also records what it was   *)
(* made under, for the properties: the password and the closing before it. *)
(***************************************************************************)
EXTENDS Naturals, FiniteSets

CONSTANTS
    Browsers,
    Exchanges,       \* requests under way at a time
    MaxVersion,      \* bound on session_version: a change beyond it is refused
    None

SessionsAssumption == MaxVersion \in Nat \ {0} /\ None \notin Browsers

VARIABLES
    account,         \* accounts: session_version, password, must_change_password, status
    closings,        \* how many times the account was disabled
    cookie,          \* what each browser holds
    exchange,        \* the requests under way and their answers
    changer          \* the browser that was told of the last password change it made

vars == <<account, closings, cookie, exchange, changer>>

Versions == 1..MaxVersion
Cookie(version, under) == [version |-> version, under |-> under, closings |-> closings]
Cookies == [version : Versions, under : Versions, closings : 0..MaxVersion]
Free == [doing |-> "none", browser |-> None, phase |-> "free", cookie |-> None, typed |-> 1]

TypeOK ==
    /\ account \in [version : Versions, password : Versions, must : BOOLEAN, active : BOOLEAN]
    /\ closings \in 0..MaxVersion
    /\ cookie \in [Browsers -> Cookies \cup {None}]
    /\ exchange \in [Exchanges ->
          [doing : {"none", "login", "visit", "change", "logout"},
           browser : Browsers \cup {None}, phase : {"free", "sent", "admitted", "answered"},
           cookie : Cookies \cup {None}, typed : Versions]]
    /\ changer \in Browsers \cup {None}

\* Provisioned with a password that must be replaced.
Init ==
    /\ account = [version |-> 1, password |-> 1, must |-> TRUE, active |-> TRUE]
    /\ closings = 0
    /\ cookie = [b \in Browsers |-> None]
    /\ exchange = [e \in Exchanges |-> Free]
    /\ changer = None

\* _account_from_session.
Accepted(c) == c # None /\ account.active /\ c.version = account.version

Sent(e, what, b) ==
    exchange' = [exchange EXCEPT ![e] =
       [doing |-> what, browser |-> b, phase |-> "sent", cookie |-> cookie[b],
        typed |-> account.password]]
Answers(e, c) == exchange' = [exchange EXCEPT ![e].phase = "answered", ![e].cookie = c]
In(e, what, phase) == exchange[e].doing = what /\ exchange[e].phase = phase

-----------------------------------------------------------------------------
(* The browser. *)

SendsLogin(e, b) ==
    /\ exchange[e] = Free
    /\ Sent(e, "login", b)
    /\ UNCHANGED <<account, closings, cookie, changer>>

Sends(e, b, what) ==
    /\ exchange[e] = Free /\ cookie[b] # None
    /\ Sent(e, what, b)
    /\ UNCHANGED <<account, closings, cookie, changer>>

\* The answer arrives: its cookie replaces whatever the browser holds by now.
Receives(e) ==
    LET b == exchange[e].browser IN
    /\ exchange[e].phase = "answered"
    /\ cookie' = [cookie EXCEPT ![b] = exchange[e].cookie]
    /\ changer' = CASE exchange[e].doing = "change" /\ Accepted(exchange[e].cookie)
                         /\ exchange[e].cookie.under # exchange[e].typed -> b
                    [] exchange[e].doing \in {"logout", "login"} /\ changer = b -> None
                    [] OTHER -> changer
    /\ exchange' = [exchange EXCEPT ![e] = Free]
    /\ UNCHANGED <<account, closings>>

-----------------------------------------------------------------------------
(* The server. *)

\* authenticate_account_password: one unlocked read gives the hash that is verified,
\* the status and the version that go into the session.
TakesVersionLater(e) ==
    /\ exchange[e].doing = "login"
    /\ \/ /\ exchange[e].phase = "sent"
          /\ account.active /\ exchange[e].typed = account.password
          /\ exchange' = [exchange EXCEPT ![e].phase = "admitted"]
       \/ /\ exchange[e].phase = "admitted"
          /\ Answers(e, Cookie(account.version, exchange[e].typed))
    /\ UNCHANGED <<account, closings, cookie, changer>>
LogsIn(e) ==
    /\ In(e, "login", "sent")
    /\ IF account.active /\ exchange[e].typed = account.password
       THEN Answers(e, Cookie(account.version, account.password))
       ELSE Answers(e, exchange[e].cookie)
    /\ UNCHANGED <<account, closings, cookie, changer>>

\* AuthAndSecurityMiddleware: a session of another version is cleared; while the
\* password must be changed only the change itself and the logout go through.
Admits(e) ==
    /\ exchange[e].phase = "sent" /\ exchange[e].doing \in {"visit", "change"}
    /\ IF ~Accepted(exchange[e].cookie) THEN Answers(e, None)
       ELSE IF exchange[e].doing = "visit" /\ account.must THEN Answers(e, exchange[e].cookie)
       ELSE exchange' = [exchange EXCEPT ![e].phase = "admitted"]
    /\ UNCHANGED <<account, closings, cookie, changer>>

Serves(e) ==
    /\ In(e, "visit", "admitted")
    /\ Answers(e, exchange[e].cookie)
    /\ UNCHANGED <<account, closings, cookie, changer>>

Bumped(password, must) ==
    account' = [account EXCEPT !.version = @ + 1, !.password = password, !.must = must]

\* change_own_password locks the account, verifies the current password and the
\* status, and the session of this answer gets the new version.
Changes(e) ==
    /\ In(e, "change", "admitted")
    /\ IF account.active /\ exchange[e].typed = account.password
          /\ account.version < MaxVersion
       THEN /\ Bumped(account.version + 1, FALSE)
            /\ changer' = None
            /\ Answers(e, Cookie(account.version + 1, account.version + 1))
       ELSE /\ Answers(e, exchange[e].cookie)
            /\ UNCHANGED <<account, changer>>
    /\ UNCHANGED <<closings, cookie>>

LogsOut(e) ==
    /\ In(e, "logout", "sent")
    /\ Answers(e, None)
    /\ UNCHANGED <<account, closings, cookie, changer>>

-----------------------------------------------------------------------------
(* Staff. *)

\* reset_student_password, reset_linked_account_password and the reset of a head of
\* department: a temporary password and a new version.
Resets ==
    /\ account.version < MaxVersion
    /\ Bumped(account.version + 1, TRUE)
    /\ changer' = None
    /\ UNCHANGED <<closings, cookie, exchange>>

\* Archiving a student, disabling a parent, closing a teacher.
Disables ==
    /\ account.active /\ account.version < MaxVersion
    /\ account' = [account EXCEPT !.active = FALSE, !.version = @ + 1]
    /\ closings' = closings + 1 /\ changer' = None
    /\ UNCHANGED <<cookie, exchange>>

\* A reactivated parent keeps the version, a reactivated student gets a new one.
Enables ==
    /\ ~account.active
    /\ \E version \in {account.version, account.version + 1} \cap Versions :
          account' = [account EXCEPT !.active = TRUE, !.version = version]
    /\ UNCHANGED <<closings, cookie, exchange, changer>>

-----------------------------------------------------------------------------
Browser(e) ==
    \/ \E b \in Browsers : SendsLogin(e, b)
    \/ \E b \in Browsers, what \in {"visit", "change", "logout"} : Sends(e, b, what)
    \/ Receives(e)
Server(e) == LogsIn(e) \/ Admits(e) \/ Serves(e) \/ Changes(e) \/ LogsOut(e)

Next ==
    \/ \E e \in Exchanges : Browser(e) \/ Server(e)
    \/ Resets \/ Disables \/ Enables

Spec == Init /\ [][Next]_vars

-----------------------------------------------------------------------------
(* Properties. *)

\* A session that is accepted was made under the present password, whichever login,
\* change and reset overlapped: old cookies end with the password.
AcceptedKnowsThePassword ==
    \A b \in Browsers : Accepted(cookie[b]) => cookie[b].under = account.password

\* A session from before the account was closed is not accepted when it is opened again.
ClosedSessionsStayClosed ==
    \A b \in Browsers : Accepted(cookie[b]) => cookie[b].closings = closings

\* The temporary password is replaced only by a request that typed it: a change that
\* was sent before the reset does not undo it.
TemporaryPasswordIsReplacedByItsHolder ==
    [][ account.must /\ ~account'.must =>
          \E e \in Exchanges : exchange[e].doing = "change"
                               /\ exchange[e].typed = account.password ]_vars

\* A page is served only to a session that has replaced its temporary password.
ServedAfterTheChange ==
    \A e \in Exchanges :
       In(e, "visit", "admitted") /\ Accepted(exchange[e].cookie) => ~account.must

\* "updates the current cookie to the new version": who changed the password and was
\* told so stays signed in until the session is ended on purpose.
ChangerStaysSignedIn == changer # None => Accepted(cookie[changer])

\* Old cookies end with the password or the closing that outdated them, and nothing but
\* the change of a temporary password is served.
SessionsSound ==
    /\ TypeOK
    /\ AcceptedKnowsThePassword
    /\ ClosedSessionsStayClosed
    /\ ServedAfterTheChange
=============================================================================
