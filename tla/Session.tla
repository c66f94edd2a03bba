------------------------------- MODULE Session -------------------------------
(***************************************************************************)
(* The client's session: AuthState (auth_state.dart), the token ApiClient  *)
(* puts on every request (api_client.dart), the login page and the choice  *)
(* between it and the tabs (login_page.dart, main.dart).                   *)
(*                                                                         *)
(* A login is two requests, POST auth/login and GET auth/me, and its       *)
(* coroutine waits for each.  The user acts on the last frame drawn, which *)
(* may be older than the state: two key presses within a frame submit two  *)
(* logins.  Each request is answered, refused, or lost, in any order.      *)
(*                                                                         *)
(* The server is external: an account has a role in its table, a token     *)
(* carries the role of the moment it was issued, and auth/me answers what  *)
(* the token says (module Access).  `again` is history: the latest login   *)
(* was submitted while another was in progress or a session was open.      *)
(***************************************************************************)
EXTENDS FiniteSets

CONSTANTS Logins, Accounts, AccountRoles, Null

ASSUME SessionNull == Null \notin Accounts \cup AccountRoles \cup [user: Accounts, role: AccountRoles]

VARIABLES
    token, me, loading, failed,  \* AuthState: _token, _me, _loading, _error
    apiToken,                    \* ApiClient._accessToken
    calls,                       \* the logins in progress
    form,                        \* the account typed into the login page
    view,                        \* the frame on screen
    stale,                       \* a listener was notified since
    roleOf,                      \* the server's table
    again                        \* history, see above

auth   == <<token, me, loading, failed>>
svars  == <<auth, apiToken, calls, form, view, stale, roleOf, again>>

SessionToken == [user: Accounts, role: AccountRoles]

Idle == [pc |-> "idle", account |-> Null, with |-> Null]

Done == [Idle EXCEPT !.pc = "done"]

InProgress == {l \in Logins : calls[l].pc \in {"login", "me"}}

HasRole(roles) == me # Null /\ me.role \in roles

(* What the next frame shows: Consumer<AuthState>, LoginPage, HomeTabs.    *)
Drawn == [page      |-> IF token = Null THEN "login" ELSE "home",
          canSubmit |-> token = Null /\ ~loading /\ form # Null,
          canUpload |-> token # Null /\ HasRole({"uploader", "admin"}),
          canEdit   |-> token # Null /\ HasRole({"editor", "admin"})]

SessionInit ==
    /\ token = Null /\ me = Null /\ loading = FALSE /\ failed = FALSE
    /\ apiToken = Null
    /\ calls = [l \in Logins |-> Idle]
    /\ form = Null
    /\ view = Drawn
    /\ stale = FALSE
    /\ roleOf \in [Accounts -> AccountRoles]
    /\ again = FALSE

-----------------------------------------------------------------------------
Frame ==
    /\ stale
    /\ view' = Drawn
    /\ stale' = FALSE
    /\ UNCHANGED <<auth, apiToken, calls, form, roleOf, again>>

(* A text field changes; setState rebuilds the login page.                 *)
Type(a) ==
    /\ view.page = "login" /\ form # a
    /\ form' = a
    /\ stale' = TRUE
    /\ UNCHANGED <<auth, apiToken, calls, view, roleOf, again>>

(* AuthState.login up to its first await: from the button, or from Enter   *)
(* in the password field, as the frame on screen has them enabled.         *)
Submit(l) ==
    /\ view.canSubmit
    /\ calls[l].pc = "idle"
    /\ calls' = [calls EXCEPT ![l] = [Idle EXCEPT !.pc = "login", !.account = form]]
    /\ loading' = TRUE /\ failed' = FALSE
    /\ stale' = TRUE
    /\ again' = (InProgress # {} \/ token # Null)
    /\ UNCHANGED <<token, me, apiToken, form, view, roleOf>>

(* Mutant of LoginAnswered: the client keeps the token of an earlier login. *)
LoginAnsweredOnce(l) ==
    /\ calls[l].pc = "login"
    /\ LET t == [user |-> calls[l].account, role |-> roleOf[calls[l].account]] IN
          /\ apiToken' = IF apiToken = Null THEN t ELSE apiToken
          /\ token' = t
          /\ calls' = [calls EXCEPT ![l].pc = "me", ![l].with = apiToken']
    /\ UNCHANGED <<me, loading, failed, form, view, stale, roleOf, again>>

(* POST auth/login answers 200: ApiClient and AuthState take the token,    *)
(* and GET auth/me is sent with it.  Nobody is notified.                   *)
LoginAnswered(l) ==
    /\ calls[l].pc = "login"
    /\ LET t == [user |-> calls[l].account, role |-> roleOf[calls[l].account]] IN
          /\ apiToken' = t
          /\ token' = t
          /\ calls' = [calls EXCEPT ![l].pc = "me", ![l].with = t]
    /\ UNCHANGED <<me, loading, failed, form, view, stale, roleOf, again>>

(* GET auth/me answers with what its token says.                           *)
MeAnswered(l) ==
    /\ calls[l].pc = "me"
    /\ me' = calls[l].with
    /\ calls' = [calls EXCEPT ![l] = Done]
    /\ loading' = FALSE
    /\ stale' = TRUE
    /\ UNCHANGED <<token, failed, apiToken, form, view, roleOf, again>>

(* Either request fails: wrong password, no connection, an expired token.  *)
(* AuthState forgets the session; ApiClient keeps the token it has.        *)
LoginFailed(l) ==
    /\ calls[l].pc \in {"login", "me"}
    /\ calls' = [calls EXCEPT ![l] = Done]
    /\ failed' = TRUE /\ token' = Null /\ me' = Null /\ loading' = FALSE
    /\ stale' = TRUE
    /\ UNCHANGED <<apiToken, form, view, roleOf, again>>

(* The button is on the tabs only.                                         *)
Logout ==
    /\ view.page = "home"
    /\ token' = Null /\ me' = Null /\ apiToken' = Null
    /\ stale' = TRUE
    /\ UNCHANGED <<loading, failed, calls, form, view, roleOf, again>>

(* A release or an operator changes a role.                                *)
ChangeRole(a) ==
    /\ \E r \in AccountRoles \ {roleOf[a]} : roleOf' = [roleOf EXCEPT ![a] = r]
    /\ UNCHANGED <<auth, apiToken, calls, form, view, stale, again>>

LoginStep(l) == LoginAnswered(l) \/ MeAnswered(l) \/ LoginFailed(l)

SessionNext ==
    \/ Frame \/ Logout
    \/ \E a \in Accounts : Type(a) \/ ChangeRole(a)
    \/ \E l \in Logins : Submit(l) \/ LoginStep(l)

(* A request is answered or fails, and a frame is drawn when one is due.   *)
SessionFairness == WF_svars(Frame) /\ \A l \in Logins : WF_svars(LoginStep(l))

SessionSpec == SessionInit /\ [][SessionNext]_svars /\ SessionFairness

-----------------------------------------------------------------------------
(* Type invariant.                                                         *)
SessionTypeOK ==
    /\ {token, me, apiToken} \subseteq SessionToken \cup {Null}
    /\ {loading, failed, stale, again} \subseteq BOOLEAN
    /\ calls \in [Logins -> [pc: {"idle", "login", "me", "done"},
                             account: Accounts \cup {Null}, with: SessionToken \cup {Null}]]
    /\ \A l \in Logins : calls[l].pc = "me" <=> calls[l].with # Null
    /\ form \in Accounts \cup {Null}
    /\ view \in [page: {"login", "home"}, canSubmit: BOOLEAN,
                 canUpload: BOOLEAN, canEdit: BOOLEAN]
    /\ roleOf \in [Accounts -> AccountRoles]

(* While the client counts as logged in, its requests carry the token of   *)
(* that very session, however logins, failures and logouts overlap; and a  *)
(* spinner means that an answer is still to come.                          *)
SessionIsSent ==
    /\ token # Null => apiToken = token
    /\ loading => InProgress # {}

(* When all has been answered and drawn, the tabs offer exactly what the   *)
(* server will grant the token that goes with it: nothing is offered that  *)
(* is refused, nothing is withheld -- unless logins were submitted on top  *)
(* of each other.                                                          *)
OfferedIsGranted ==
    InProgress = {} /\ ~stale /\ ~again =>
        /\ view.page = "home" <=> token # Null
        /\ view.page = "home" =>
              /\ me = apiToken
              /\ view.canUpload <=> apiToken.role \in {"uploader", "admin"}
              /\ view.canEdit   <=> apiToken.role \in {"editor", "admin"}

(* What is sent, shown and granted belongs to one session.                 *)
SessionIsOne == SessionIsSent /\ OfferedIsGranted

(* A login comes to an end, and the user sees which: the tabs, or the form *)
(* ready for another attempt.                                              *)
LoginEnds ==
    loading ~> ~loading /\ ~stale /\ (view.page = "home" \/ view.canSubmit)
=============================================================================
