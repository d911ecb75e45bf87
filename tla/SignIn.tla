------------------------------- MODULE SignIn -------------------------------
(***************************************************************************)
(* Signing in and out of the console: one browser tab                       *)
(* (auth/auth-context.tsx, RequireAuth.tsx, pages/Login.tsx and the 401     *)
(* rule of lib/api.ts) composed with the server's session checks (auth.go,  *)
(* totp_handlers.go, admin_users_handlers.go).  The tab believes what       *)
(* /api/auth/status told it last; every other request is checked anew.      *)
(*                                                                         *)
(* Names, passwords and pages are abstracted: the tab is at the login page  *)
(* or in the application, whose pages ask for data again and again.  The    *)
(* platform is initialised, has MySQL and a password login, and a login     *)
(* ends the user's other sessions.                                          *)
(***************************************************************************)
EXTENDS Naturals, FiniteSets

CONSTANTS
    Users, TotpUsers,   \* TotpUsers have two-step verification
    Nobody,
    Faulty,             \* may requests of the tab fail?
    MaxTurns,           \* bound for TLC: what others do to the session
    MaxStatuses         \* bound: requests for the status on their way at once

ASSUME SignInAssumption ==
    TotpUsers \subseteq Users /\ Nobody \notin Users /\ Faulty \in BOOLEAN
    /\ MaxTurns \in Nat /\ MaxStatuses \in Nat \ {0}
    /\ (Users \union {Nobody}) \cap {"none", "asked", "dropped", "refused"} = {}

VARIABLES
    disabled,   \* the users that are disabled
    clearing,   \* the users whose session an administrator's request has yet to clear
    rollout,    \* the builds that serve requests
    cookie,     \* the session cookie: whose it is and the build it was minted by
    session,    \* is the nonce in the cookie the one that is stored?
    tab,        \* the tab: its path and what AuthProvider knows
    statuses,   \* its requests for the status: not there, asked, or the server's answer
    reply,      \* the page's request: not there, asked, refused, or with a user's data
    login,      \* the login or logout in progress
    cached,     \* whose data is in the query cache
    sent,       \* history: a 401 sent the tab to log in; nothing came of it, nobody did anything
    turns,      \* bound: how often others have done something
    excused     \* history: a login, here or in another tab, while the tab or a status on its
                \* way said somebody else; or the status said "out" while the application had
                \* somebody's data

signInVars == <<disabled, clearing, rollout, cookie, session, tab, statuses, reply, login,
                cached, sent, turns, excused>>
serverVars == <<disabled, clearing, rollout, cookie, session, turns>>
clientVars == <<tab, statuses, reply, login, cached, sent>>

NoCookie == [user |-> Nobody, build |-> "old"]

SignInTypeOK ==
    /\ disabled \subseteq Users /\ clearing \subseteq Users
    /\ rollout \in {{"old"}, {"old", "new"}, {"new"}}
    /\ cookie \in [user : Users \union {Nobody}, build : {"old", "new"}]
    /\ session \in BOOLEAN
    /\ tab \in [path : {"app", "login"}, user : Users \union {Nobody},
                known : BOOLEAN, loading : BOOLEAN, error : BOOLEAN]
    /\ statuses \in [1..MaxStatuses -> {"none", "asked", Nobody} \union Users]
    /\ reply \in {"none", "asked", "dropped", "refused"} \union Users
    /\ login \in [at : {"none", "totp", "checked", "abandoned", "refetching", "success",
                         "leaving", "leavingMobile"},
                  user : Users \union {Nobody}, status : 0..MaxStatuses]
    /\ cached \in Users \union {Nobody}
    /\ sent \in BOOLEAN /\ excused \in BOOLEAN
    /\ turns \in 0..MaxTurns

\* A page load: AuthProvider has yet to ask who is logged in.
Loaded(path) == [path |-> path, user |-> Nobody, known |-> FALSE,
                 loading |-> TRUE, error |-> FALSE]
FirstStatus == [i \in 1..MaxStatuses |-> IF i = 1 THEN "asked" ELSE "none"]
NoLogin == [at |-> "none", user |-> Nobody, status |-> 0]
\* Leaving the login page ends a login; a request for one, or a logout's, goes on.
LoginLeft ==
    IF login.at \in {"checked", "abandoned"} THEN [login EXCEPT !.at = "abandoned"]
    ELSE IF login.at \in {"leaving", "leavingMobile"} THEN login ELSE NoLogin

SignInInit ==
    /\ disabled = {} /\ clearing = {}
    /\ rollout = {"old"}
    /\ cookie = NoCookie /\ session = FALSE
    /\ tab = Loaded("app") /\ statuses = FirstStatus /\ reply = "none" /\ login = NoLogin
    /\ cached = Nobody
    /\ sent = FALSE /\ excused = FALSE /\ turns = 0

-----------------------------------------------------------------------------
(* The server's checks, made by a pod of the build b                        *)

sessionAuthFromCookie(b) == cookie.user # Nobody /\ cookie.build = b /\ session

\* DashboardAuthMiddleware also asks MySQL whether the account is disabled.
Served(b) == sessionAuthFromCookie(b) /\ cookie.user \notin disabled

-----------------------------------------------------------------------------
(* What the tab shows                                                       *)

LoggedIn == tab.known /\ tab.user # Nobody
Settled == ~tab.loading
Page == tab.path = "app" /\ Settled /\ ~tab.error /\ LoggedIn
Form == tab.path = "login" /\ Settled /\ tab.known /\ ~LoggedIn

\* Somebody's data is in the tab, or on its way to it.
Holding == cached # Nobody \/ reply \in Users \union {"asked"}

\* The tab says somebody else than u, or is about to.
SaysOther(u) ==
    tab.user \in Users \ {u} \/ \E i \in 1..MaxStatuses : statuses[i] \in Users \ {u}

(* AuthProvider's refetch, after a load or when somebody calls it.  Nothing *)
(* keeps two requests apart: whichever answer comes last is believed.       *)
refetch == [tab EXCEPT !.loading = TRUE, !.error = FALSE]

AsksStatus(i) ==
    /\ statuses[i] = "none" /\ \A j \in 1..i - 1 : statuses[j] # "none"
    /\ statuses' = [statuses EXCEPT ![i] = "asked"]

\* A login that awaits this request is announced as a success.
AfterRefetch(i) ==
    IF login.at = "refetching" /\ login.status = i
    THEN [login EXCEPT !.at = "success", !.status = 0] ELSE login

\* handleAuthStatus, in a pod of the build b.
AuthStatus(i) ==
    /\ statuses[i] = "asked"
    /\ \E b \in rollout :
         statuses' = [statuses EXCEPT
                        ![i] = IF sessionAuthFromCookie(b) THEN cookie.user ELSE Nobody]
    /\ UNCHANGED <<serverVars, tab, reply, login, cached, sent, excused>>

\* The answer arrives.
ReceiveStatus(i) ==
    /\ statuses[i] \in Users \union {Nobody}
    /\ tab' = [tab EXCEPT !.loading = FALSE, !.known = TRUE, !.user = statuses[i]]
    /\ statuses' = [statuses EXCEPT ![i] = "none"]
    /\ login' = AfterRefetch(i)
    /\ sent' = (sent /\ (tab.path = "login" => statuses[i] # Nobody))
    /\ excused' = (excused \/ (tab.path = "app" /\ statuses[i] = Nobody /\ Holding))
    /\ UNCHANGED <<serverVars, reply, cached>>

\* The status as it was stays known beside the error.
StatusFails(i) ==
    /\ statuses[i] # "none" /\ Faulty
    /\ tab' = [tab EXCEPT !.loading = FALSE, !.error = TRUE]
    /\ statuses' = [statuses EXCEPT ![i] = "none"]
    /\ login' = AfterRefetch(i)
    /\ UNCHANGED <<serverVars, reply, cached, sent, excused>>

\* Navigation inside the application keeps what is in memory.
RequireAuth ==
    /\ tab.path = "app" /\ Settled /\ ~tab.error /\ tab.known /\ ~LoggedIn
    /\ tab' = [tab EXCEPT !.path = "login"]
    /\ sent' = FALSE
    /\ UNCHANGED <<serverVars, statuses, reply, login, cached, excused>>

\* At the login page, somebody who is logged in is sent back to where they came from.
LeaveLogin ==
    /\ tab.path = "login" /\ Settled /\ LoggedIn /\ login.at # "success"
    /\ tab' = [tab EXCEPT !.path = "app"]
    /\ login' = LoginLeft
    /\ UNCHANGED <<serverVars, statuses, reply, cached, sent, excused>>

\* The timer of a login that succeeded, whatever the status says by then.
LoginTimer ==
    /\ tab.path = "login" /\ login.at = "success"
    /\ tab' = [tab EXCEPT !.path = "app"]
    /\ login' = LoginLeft
    /\ UNCHANGED <<serverVars, statuses, reply, cached, sent, excused>>

\* The user loads the page again.
Reload ==
    /\ Settled /\ login.at = "none"
    /\ tab' = Loaded(tab.path) /\ statuses' = FirstStatus
    /\ reply' = "none" /\ cached' = Nobody
    /\ excused' = FALSE
    /\ sent' = FALSE
    /\ UNCHANGED <<serverVars, login>>

-----------------------------------------------------------------------------
(* The pages' requests                                                      *)

Ask ==
    /\ Page /\ reply = "none"
    /\ reply' = "asked"
    /\ UNCHANGED <<serverVars, tab, statuses, login, cached, sent, excused>>

\* A query that the cache no longer has drops its data, never a refusal.
Serve ==
    /\ reply \in {"asked", "dropped"}
    /\ \E b \in rollout :
         reply' = IF ~Served(b) THEN "refused"
                  ELSE IF reply = "asked" THEN cookie.user ELSE "none"
    /\ UNCHANGED <<serverVars, tab, statuses, login, cached, sent, excused>>

\* Whether a query outlives its page depends on its use of the abort signal.
Answer ==
    /\ reply \in Users
    /\ cached' \in IF Page THEN {reply} ELSE {reply, cached}
    /\ reply' = "none"
    /\ sent' = FALSE
    /\ UNCHANGED <<serverVars, tab, statuses, login, excused>>

\* Mutant: the redirect to the login page navigates and does not load it.
SoftRedirect ==
    /\ tab' = [tab EXCEPT !.path = "login"]
    /\ sent' = TRUE
    /\ UNCHANGED <<statuses, login, cached, excused>>

\* maybeRedirectLogin: a full load of the login page, unless the tab is there.
maybeRedirectLogin ==
    IF tab.path = "login"
    THEN UNCHANGED <<tab, statuses, login, cached, sent, excused>>
    ELSE /\ tab' = Loaded("login") /\ statuses' = FirstStatus
         /\ login' = NoLogin
         /\ cached' = Nobody
         /\ sent' = TRUE
         /\ excused' = FALSE

Refused ==
    /\ reply = "refused"
    /\ reply' = "none"
    /\ maybeRedirectLogin
    /\ UNCHANGED serverVars

AnswerFails ==
    /\ reply # "none" /\ Faulty
    /\ reply' = "none"
    /\ sent' = FALSE
    /\ UNCHANGED <<serverVars, tab, statuses, login, cached, excused>>

-----------------------------------------------------------------------------
(* Logging in                                                               *)

\* handleAuthLogin checks the account once; two-step verification then waits.
SubmitPassword(u) ==
    /\ Form /\ login.at = "none" /\ u \notin disabled
    /\ login' = [NoLogin EXCEPT !.at = IF u \in TotpUsers THEN "totp" ELSE "checked", !.user = u]
    /\ UNCHANGED <<serverVars, tab, statuses, reply, cached, sent, excused>>

\* handleAuthLoginTotp looks at the step token and the code.
SubmitTotp ==
    /\ Form /\ login.at = "totp"
    /\ login' = [login EXCEPT !.at = "checked"]
    /\ UNCHANGED <<serverVars, tab, statuses, reply, cached, sent, excused>>

\* The step token has expired, or the user starts over.
BackToPassword ==
    /\ Form /\ login.at = "totp"
    /\ login' = NoLogin
    /\ UNCHANGED <<serverVars, tab, statuses, reply, cached, sent, excused>>

\* The nonce is stored and the cookie set; the tab asks for its status again, also if
\* it has left the login page, because of an older status, while it waited.
FinishLogin(i) ==
    /\ login.at \in {"checked", "abandoned"}
    /\ \E b \in rollout : cookie' = [user |-> login.user, build |-> b]
    /\ session' = TRUE
    /\ login' = IF login.at = "checked"
                THEN [login EXCEPT !.at = "refetching", !.status = i] ELSE NoLogin
    /\ tab' = refetch /\ AsksStatus(i)
    /\ excused' = (excused \/ SaysOther(login.user))
    /\ UNCHANGED <<disabled, clearing, rollout, turns, reply, cached, sent>>

LoginFails ==
    /\ login.at \in {"checked", "abandoned"} /\ Faulty
    /\ login' = NoLogin
    /\ UNCHANGED <<serverVars, tab, statuses, reply, cached, sent, excused>>

-----------------------------------------------------------------------------
(* Logging out                                                              *)

\* handleAuthLogout clears the nonce only of a session that holds.
handleAuthLogout ==
    /\ \E b \in rollout : session' = (session /\ ~sessionAuthFromCookie(b))
    /\ cookie' = NoCookie
    /\ UNCHANGED <<disabled, clearing, rollout, turns>>

\* The header's logout and the mobile header's; the server answers at once.
Logout ==
    /\ Page /\ login.at = "none" /\ handleAuthLogout
    /\ login' \in {[NoLogin EXCEPT !.at = how] : how \in {"leaving", "leavingMobile"}}
    /\ sent' = FALSE
    /\ UNCHANGED <<tab, statuses, reply, cached, excused>>

\* Mutant: the query cache survives a logout.
KeepQueries == UNCHANGED <<cached, reply>>

\* queryClient.clear(): the cache, and the queries that wait for an answer.
ClearQueries ==
    /\ cached' = Nobody
    /\ reply' = IF reply = "asked" THEN "dropped" ELSE IF reply \in Users THEN "none" ELSE reply

\* The answer arrives; the header asks for the status and goes where it leads.
LoggedOut(i) ==
    /\ login.at = "leaving"
    /\ login' = NoLogin
    /\ tab' = refetch /\ AsksStatus(i)
    /\ ClearQueries
    /\ UNCHANGED <<serverVars, sent, excused>>

\* The mobile header goes to the login page and leaves the status as it was.
LoggedOutMobile ==
    /\ login.at = "leavingMobile"
    /\ login' = NoLogin
    /\ tab' = [tab EXCEPT !.path = "login"]
    /\ ClearQueries
    /\ UNCHANGED <<serverVars, statuses, sent, excused>>

\* If the request throws, nothing more happens.
LogoutFails ==
    /\ login.at \in {"leaving", "leavingMobile"} /\ Faulty
    /\ login' = NoLogin
    /\ UNCHANGED <<serverVars, tab, statuses, reply, cached, sent, excused>>

\* A page refreshes the status after it has changed the user's profile.
RefetchAuth(i) ==
    /\ Page
    /\ tab' = refetch /\ AsksStatus(i)
    /\ sent' = FALSE
    /\ UNCHANGED <<serverVars, reply, login, cached, excused>>

-----------------------------------------------------------------------------
(* The others                                                               *)

Turn == turns < MaxTurns /\ turns' = turns + 1

\* handleAdminUsersPut: the row first, then the session.
Disable(u) ==
    /\ Turn /\ u \notin disabled
    /\ disabled' = disabled \union {u} /\ clearing' = clearing \union {u}
    /\ UNCHANGED <<rollout, cookie, session, clientVars, excused>>

ClearSession(u) ==
    /\ u \in clearing
    /\ clearing' = clearing \ {u}
    /\ session' = (session /\ cookie.user # u)
    /\ UNCHANGED <<disabled, rollout, cookie, clientVars, turns, excused>>

\* The error of ClearSessionNonceForUser is dropped.
ClearSessionFails(u) ==
    /\ u \in clearing /\ Faulty
    /\ clearing' = clearing \ {u}
    /\ UNCHANGED <<disabled, rollout, cookie, session, clientVars, turns, excused>>

Enable(u) ==
    /\ Turn /\ u \in disabled \ clearing
    /\ disabled' = disabled \ {u}
    /\ UNCHANGED <<clearing, rollout, cookie, session, clientVars, excused>>

\* The user logs in on another machine, which ends this session.
LoginElsewhere ==
    /\ Turn /\ session
    /\ session' = FALSE
    /\ UNCHANGED <<disabled, clearing, rollout, cookie, clientVars, excused>>

\* Another tab of the browser logs in: the cookie is shared, the tabs' memory is not.
OtherTab(u) ==
    /\ Turn /\ u \notin disabled
    /\ \E b \in rollout : cookie' = [user |-> u, build |-> b]
    /\ session' = TRUE
    /\ excused' = (excused \/ SaysOther(u))
    /\ UNCHANGED <<disabled, clearing, rollout, clientVars>>

RolloutStarts ==
    /\ rollout = {"old"} /\ rollout' = {"old", "new"}
    /\ UNCHANGED <<disabled, clearing, cookie, session, clientVars, turns, excused>>

RolloutEnds ==
    /\ rollout = {"old", "new"} /\ rollout' = {"new"}
    /\ UNCHANGED <<disabled, clearing, cookie, session, clientVars, turns, excused>>

-----------------------------------------------------------------------------
Tab ==
    \/ RequireAuth \/ LeaveLogin \/ LoginTimer
    \/ Ask \/ Serve \/ Answer \/ Refused
    \/ \E i \in 1..MaxStatuses : AuthStatus(i) \/ ReceiveStatus(i)

User ==
    \/ Reload \/ SubmitTotp \/ BackToPassword \/ Logout
    \/ \E u \in Users : SubmitPassword(u)
    \/ \E i \in 1..MaxStatuses : RefetchAuth(i)

LoginFinishes == \E i \in 1..MaxStatuses : FinishLogin(i)

Unforced ==
    \/ AnswerFails \/ LoginFinishes \/ LoginFails
    \/ LoggedOutMobile \/ LogoutFails
    \/ \E i \in 1..MaxStatuses : StatusFails(i) \/ LoggedOut(i)
    \/ LoginElsewhere \/ RolloutStarts \/ RolloutEnds
    \/ \E u \in Users : \/ Disable(u) \/ ClearSession(u) \/ ClearSessionFails(u)
                        \/ Enable(u) \/ OtherTab(u)

SignInNext == Tab \/ User \/ Unforced

(* The browser's effects run and requests are answered; an administrator's  *)
(* request and a rollout that has begun end.  Nobody has to do anything.    *)
SignInFairness ==
    /\ WF_signInVars(Tab)
    /\ WF_signInVars(LoginFinishes)
    /\ \A u \in Users : WF_signInVars(ClearSession(u))
    /\ WF_signInVars(RolloutEnds)

SignInSpec == SignInInit /\ [][SignInNext]_signInVars /\ SignInFairness

-----------------------------------------------------------------------------
(* Properties                                                               *)

\* An account that is disabled and yet has a session, as after a login that
\* overlapped with the request that disabled it.
Orphaned == cookie.user \in disabled \ clearing /\ session

\* Whoever is sent to log in by a 401 gets the form, or a page whose request is
\* answered, unless the session is an orphan or the status cannot be read.
SentAwayArrives == sent ~> (~sent \/ Orphaned \/ tab.error)

\* The middleware's 401 says that the account is disabled and asks the user to log
\* in again: the form comes up.
ReloginOffered == sent ~> ~sent

\* What the query cache holds was served to the user the tab shows: a logout, a
\* redirect or a login as somebody else never mixes two users' data.
CacheIsOwn == Page /\ ~excused => cached \in {Nobody, tab.user}
=============================================================================
