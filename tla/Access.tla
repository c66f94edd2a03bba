------------------------------- MODULE Access -------------------------------
(***************************************************************************)
(* Who may do what: the table of users, the access tokens POST /auth/login *)
(* hands out, the service API keys, and the checks every endpoint makes    *)
(* (api/deps.py).  A token carries the role its user had when it logged    *)
(* in, and nothing looks at the table again until the token expires; the   *)
(* table itself changes when a release with other SEED_* settings starts   *)
(* (main.py), and when an operator deactivates a row.                      *)
(*                                                                         *)
(* `granted` is what the last step let through.  `lastHeld` is history:    *)
(* when each user last held each role as an active user.                   *)
(*                                                                         *)
(* Not covered: passwords and signatures (an unsuccessful login and a      *)
(* forged token change nothing), several workers that seed at once (module *)
(* Startup), and time that passes between the check of a request and its   *)
(* effect.                                                                 *)
(***************************************************************************)
EXTENDS Naturals, Sequences, FiniteSets

CONSTANTS
    Users,      \* e-mail addresses, each with at most one row of users
    KeyNames,   \* names of service API keys
    Settings,   \* the SEED_*_EMAIL settings of the releases: role -> user
    Lifetime,   \* jwt_access_token_expires_minutes
    Scopes,     \* the scope sets a key may be created with
    MaxTokens,  \* bounds on the tokens and on the clock, for model
    MaxMinute,  \* checking only
    None

Roles == {"admin", "viewer", "editor", "uploader"}

ASSUME AccessConstants ==
    /\ Settings \subseteq [Roles -> Users \cup {None}]
    /\ Scopes \subseteq SUBSET {"upload", "read"}
    /\ Lifetime \in Nat /\ MaxTokens \in Nat /\ MaxMinute \in Nat
ASSUME AccessNone == None \notin Users \cup KeyNames \cup Roles \cup Nat

VARIABLES
    clock,    \* the clock of jwt expiry, in minutes
    role,     \* users.role, None where there is no row
    active,   \* users with is_active
    keys,     \* service_api_keys: name -> scopes, is_active, created_at
    tokens,   \* access tokens handed out
    setting,  \* the settings of the worker that starts
    todo,     \* the roles it has yet to seed, in order
    granted,  \* the request the last step let through
    lastHeld  \* history: user -> role -> time, None for never

tables == <<role, active, keys>>
avars  == <<clock, role, active, keys, tokens, setting, todo, granted, lastHeld>>

Token == [sub: Users, role: Roles, exp: Nat]
Key   == [scopes: Scopes, active: BOOLEAN, created_at: Nat]
Grant == [op: {"none", "search", "edit", "upload", "key"},
          user: Users \cup {None}, key: KeyNames \cup {None}]

Nothing == [op |-> "none", user |-> None, key |-> None]

AccessInit ==
    /\ clock = 0
    /\ role = [u \in Users |-> None] /\ active = {}
    /\ keys = [n \in KeyNames |-> None]
    /\ tokens = {}
    /\ setting = [r \in Roles |-> None] /\ todo = << >>
    /\ granted = Nothing
    /\ lastHeld = [u \in Users |-> [r \in Roles |-> None]]

-----------------------------------------------------------------------------
(* The users of a release.                                                 *)

(* A worker of some release starts (again).                                *)
Deploy ==
    /\ setting' \in Settings
    /\ todo' = <<"admin", "viewer", "editor", "uploader">>
    /\ granted' = Nothing
    /\ UNCHANGED <<clock, tables, tokens>>

(* Mutant of SeedUser: a user who is there is left alone.                   *)
SeedNewUser ==
    /\ todo # << >>
    /\ LET u == setting[Head(todo)] IN
          IF u # None /\ role[u] = None
          THEN role' = [role EXCEPT ![u] = Head(todo)] /\ active' = active \cup {u}
          ELSE UNCHANGED <<role, active>>
    /\ todo' = Tail(todo)
    /\ granted' = Nothing
    /\ UNCHANGED <<clock, keys, tokens, setting>>

(* _seed_user: no address, nothing; no row, a new active one; a row with   *)
(* another role, that role.  Each is a transaction.                        *)
SeedUser ==
    /\ todo # << >>
    /\ LET u == setting[Head(todo)] IN
          IF u = None THEN UNCHANGED <<role, active>>
          ELSE /\ role' = [role EXCEPT ![u] = Head(todo)]
               /\ active' = IF role[u] = None THEN active \cup {u} ELSE active
    /\ todo' = Tail(todo)
    /\ granted' = Nothing
    /\ UNCHANGED <<clock, keys, tokens, setting>>

(* An operator deactivates a user or a key: the code reads the flags and   *)
(* never clears them.                                                      *)
DeactivateUser(u) ==
    /\ u \in active
    /\ active' = active \ {u}
    /\ granted' = Nothing
    /\ UNCHANGED <<clock, role, keys, tokens, setting, todo>>

DeactivateKey(n) ==
    /\ keys[n] # None /\ keys[n].active
    /\ keys' = [keys EXCEPT ![n].active = FALSE]
    /\ granted' = Nothing
    /\ UNCHANGED <<clock, role, active, tokens, setting, todo>>

Minute ==
    /\ clock < MaxMinute
    /\ clock' = clock + 1
    /\ granted' = Nothing
    /\ UNCHANGED <<tables, tokens, setting, todo>>

-----------------------------------------------------------------------------
(* POST /auth/login and the checks of a bearer token.                      *)

(* Mutant of Login: the row that was read is not looked at.                 *)
LoginAnyone(u) ==
    /\ Cardinality(tokens) < MaxTokens
    /\ tokens' = tokens \cup {[sub |-> u, role |-> role[u], exp |-> clock + Lifetime]}
    /\ granted' = Nothing
    /\ UNCHANGED <<clock, tables, setting, todo>>

Login(u) ==
    /\ role[u] # None /\ u \in active
    /\ Cardinality(tokens) < MaxTokens
    /\ tokens' = tokens \cup {[sub |-> u, role |-> role[u], exp |-> clock + Lifetime]}
    /\ granted' = Nothing
    /\ UNCHANGED <<clock, tables, setting, todo>>

(* decode_token: a token is good up to and including its expiry.           *)
Valid(t) == clock <= t.exp

(* The roles an operation asks for (require_roles, EDIT_ROLES,             *)
(* UPLOAD_ROLES; a search asks for a token only).                          *)
Allowed(op) ==
    [search |-> Roles, edit |-> {"editor", "admin"},
     upload |-> {"uploader", "admin"}, key |-> {"admin"}][op]

(* require_auth and require_roles: only the token is asked.                *)
Admits(t, op) == Valid(t) /\ t.role \in Allowed(op)

Search(t) ==
    /\ Admits(t, "search")
    /\ granted' = [op |-> "search", user |-> t.sub, key |-> None]
    /\ UNCHANGED <<clock, tables, tokens, setting, todo>>

Edit(t) ==
    /\ Admits(t, "edit")
    /\ granted' = [op |-> "edit", user |-> t.sub, key |-> None]
    /\ UNCHANGED <<clock, tables, tokens, setting, todo>>

(* POST /auth/api-keys; a name that is taken is refused by its UNIQUE      *)
(* constraint (500).                                                       *)
CreateKey(t, n) ==
    /\ Admits(t, "key")
    /\ keys[n] = None
    /\ \E s \in Scopes :
          keys' = [keys EXCEPT ![n] = [scopes |-> s, active |-> TRUE, created_at |-> clock]]
    /\ granted' = [op |-> "key", user |-> t.sub, key |-> n]
    /\ UNCHANGED <<clock, role, active, tokens, setting, todo>>

-----------------------------------------------------------------------------
(* POST /upload-csv with a token, with a key, or with both.                *)

(* ServiceApiKeyService.verify, required_scope="upload".                   *)
Verified(n) == keys[n] # None /\ keys[n].active /\ "upload" \in keys[n].scopes

(* require_upload_actor: a bearer token that is there decides, and the     *)
(* actor is its user; only without one the key counts, and is the actor.   *)
Upload(t, n) ==
    /\ \/ /\ t # None /\ Admits(t, "upload")
          /\ granted' = [op |-> "upload", user |-> t.sub, key |-> None]
       \/ /\ t = None /\ n # None /\ Verified(n)
          /\ granted' = [op |-> "upload", user |-> None, key |-> n]
    /\ UNCHANGED <<clock, tables, tokens, setting, todo>>

AccessStep ==
    \/ Deploy \/ SeedUser \/ Minute
    \/ \E u \in Users : DeactivateUser(u) \/ Login(u)
    \/ \E n \in KeyNames : DeactivateKey(n)
    \/ \E t \in tokens : Search(t) \/ Edit(t) \/ \E n \in KeyNames : CreateKey(t, n)
    \/ \E t \in tokens \cup {None}, n \in KeyNames \cup {None} : Upload(t, n)

(* History keeps up with the table.                                        *)
AccessNext ==
    /\ AccessStep
    /\ lastHeld' = [u \in Users |-> [r \in Roles |->
          IF role'[u] = r /\ u \in active' THEN clock' ELSE lastHeld[u][r]]]

AccessSpec == AccessInit /\ [][AccessNext]_avars

-----------------------------------------------------------------------------
(* Type invariant.                                                         *)
AccessTypeOK ==
    /\ clock \in Nat
    /\ role \in [Users -> Roles \cup {None}] /\ active \subseteq Users
    /\ keys \in [KeyNames -> Key \cup {None}]
    /\ tokens \subseteq Token
    /\ setting \in [Roles -> Users \cup {None}] /\ todo \in Seq(Roles)
    /\ granted \in Grant
    /\ lastHeld \in [Users -> [Roles -> Nat \cup {None}]]

(* No longer before `time` than a token lives, user u was active with a    *)
(* role of the set rs.                                                     *)
HeldRecently(u, rs, time) ==
    \E r \in rs : lastHeld[u][r] # None /\ time <= lastHeld[u][r] + Lifetime

(* Whatever a user is let do -- an edit, an upload, a new key -- it held a *)
(* role that allows it, as an active user, no longer ago than a token      *)
(* lives: a demotion or a deactivation takes that long to show, and never  *)
(* longer, however logins, releases and requests interleave.               *)
RoleHeldRecently ==
    granted.op # "none" /\ granted.user # None =>
        HeldRecently(granted.user, Allowed(granted.op), clock)

(* Every upload is answered for by exactly one actor, which its feed row   *)
(* will name: a user, or a key that is active, made for uploads, and was   *)
(* created by someone who was an admin no longer than a token's life       *)
(* before.  (The key itself outlives its creator's role.)                  *)
UploadsAnswerable ==
    granted.op = "upload" =>
        IF granted.user # None THEN granted.key = None
        ELSE /\ granted.key # None /\ Verified(granted.key)
             /\ \E u \in Users : HeldRecently(u, {"admin"}, keys[granted.key].created_at)

(* Every grant, of whatever kind, was somebody's right a moment ago.       *)
GrantsAreRightful == RoleHeldRecently /\ UploadsAnswerable

(* Once a worker has seeded, every user its settings name has the role of  *)
(* the last setting that names it, whatever it was before -- also when an  *)
(* address is given several roles, or the seeding before was cut short.    *)
SettingsWin ==
    todo = << >> => \A r \in Roles :
        setting[r] # None =>
            LET mine == {q \in Roles : setting[q] = setting[r]} IN
            role[setting[r]] = IF "uploader" \in mine THEN "uploader"
                               ELSE IF "editor" \in mine THEN "editor"
                               ELSE IF "viewer" \in mine THEN "viewer" ELSE "admin"
=============================================================================
