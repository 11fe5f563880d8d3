----------------------------- MODULE Accounts ------------------------------
(***************************************************************************)
(* Accounts, sessions and who a request is from (app/api/auth.py,          *)
(* app/api/deps.py, app/security.py).  A cookie holds a session token; the *)
(* session is a row, gone when someone signs out.  The process is started  *)
(* with sign-in on or off and may be started again with the other setting. *)
(* A token drawn once is never drawn again (new_session_token).            *)
(***************************************************************************)
EXTENDS Integers, FiniteSets

CONSTANTS
    Names,         \* user names, as stored: stripped and lower case
    Local,         \* LOCAL_USERNAME
    AdminName,     \* ADMIN_USERNAME
    NoUser,        \* a caller who is not a person
    Tokens,
    NoToken,       \* no cookie
    AdminToken,    \* the shared admin token instead of a cookie
    AuthModes,     \* the values AUTH_ENABLED may be given
    Roles,         \* of the users that are added: "reader", "admin"
    MaxBoots       \* bound: starts of the process

ASSUME AccountsAssumption ==
    /\ {Local, AdminName} \subseteq Names
    /\ NoUser \notin Names
    /\ {NoToken, AdminToken} \cap Tokens = {}
    /\ AuthModes \subseteq BOOLEAN
    /\ Roles \subseteq {"reader", "admin"}
    /\ MaxBoots \in Nat

VARIABLES
    auth,      \* AUTH_ENABLED of the running process
    boots,     \* starts so far; 0: not started yet
    users,     \* "none", "nopass" (no known password), "reader" or "admin"
    session,   \* "unused", "live", "expired" or "gone", for each token
    owner      \* whose session it is

accountVars == <<auth, boots, users, session, owner>>

Exists(n) == users[n] # "none"
IsAdmin(n) == users[n] \in {"nopass", "admin"}

AccountsInit ==
    /\ auth = FALSE
    /\ boots = 0
    /\ users = [n \in Names |-> "none"]
    /\ session = [t \in Tokens |-> "unused"]
    /\ owner = [t \in Tokens |-> NoUser]

-----------------------------------------------------------------------------
(* auth.py. *)

(* bootstrap_first_user, ADMIN_PASSWORD being set. *)
Bootstrapped(a) ==
    IF ~a THEN [users EXCEPT ![Local] = IF Exists(Local) THEN @ ELSE "nopass"]
    ELSE IF \E n \in Names : Exists(n) THEN users
    ELSE [users EXCEPT ![AdminName] = "admin"]

(* purge_expired_sessions. *)
Purged == [t \in Tokens |-> IF session[t] = "expired" THEN "gone" ELSE session[t]]

(* lifespan: the process starts, over whatever the one before it left.     *)
Boot(a) ==
    /\ boots < MaxBoots
    /\ boots' = boots + 1
    /\ auth' = a
    /\ users' = Bootstrapped(a)
    /\ session' = Purged
    /\ UNCHANGED owner

Up == boots > 0

(* login: the password is right; a new session. *)
Login(t, n) ==
    /\ Up
    /\ users[n] \in {"reader", "admin"}
    /\ session[t] = "unused"
    /\ session' = [session EXCEPT ![t] = "live"]
    /\ owner' = [owner EXCEPT ![t] = n]
    /\ UNCHANGED <<auth, boots, users>>

(* logout. *)
Logout(t) ==
    /\ Up
    /\ session[t] \in {"live", "expired"}
    /\ session' = [session EXCEPT ![t] = "gone"]
    /\ UNCHANGED <<auth, boots, users, owner>>

(* SESSION_TTL_HOURS go by. *)
Expire(t) ==
    /\ session[t] = "live"
    /\ session' = [session EXCEPT ![t] = "expired"]
    /\ UNCHANGED <<auth, boots, users, owner>>

(* create_user, by an administrator or with the shared token; the name is  *)
(* unique.                                                                 *)
CreateUser(n, role) ==
    /\ Up
    /\ ~Exists(n)
    /\ users' = [users EXCEPT ![n] = role]
    /\ UNCHANGED <<auth, boots, session, owner>>

-----------------------------------------------------------------------------
(* deps.py: the credential c of a request.                                 *)

Credentials == Tokens \cup {NoToken, AdminToken}

(* current_user, its SELECT: the session is there and has not run out.  No *)
(* code ever clears is_active, so every account is active.                 *)
SignedIn(c) ==
    /\ c \in Tokens
    /\ session[c] = "live"

(* Its UPDATE of last_seen_at, a statement later: no row is made.          *)
Touched_Upsert(c) ==
    IF c \in Tokens THEN [session EXCEPT ![c] = "live"] ELSE session
Touched(c) == session

(* require_user: the user, nobody for the shared token, or nothing.        *)
PrincipalOf(c) ==
    IF ~auth THEN {IF Exists(Local) THEN Local ELSE NoUser}
    ELSE IF SignedIn(c) THEN {owner[c]}
    ELSE IF c = AdminToken THEN {NoUser}
    ELSE {}

(* require_admin: with sign-in off everyone is, and so is the token. *)
Administrators == {NoUser} \cup {n \in Names : IsAdmin(n)}

MayChange(c) == IF auth THEN PrincipalOf(c) \cap Administrators # {} ELSE TRUE

AccountStep ==
    \/ \E t \in Tokens : Logout(t) \/ Expire(t) \/ \E n \in Names : Login(t, n)
    \/ \E n \in Names, role \in Roles : CreateUser(n, role)

-----------------------------------------------------------------------------
(* Properties. *)

AccountsTypeOK ==
    /\ auth \in BOOLEAN
    /\ boots \in 0..MaxBoots
    /\ users \in [Names -> {"none", "nopass", "reader", "admin"}]
    /\ session \in [Tokens -> {"unused", "live", "expired", "gone"}]
    /\ owner \in [Tokens -> Names \cup {NoUser}]

(* "Logout actually revokes": whatever request is under way with it, a     *)
(* session that was signed out or ran out never comes back.                *)
SignedOutStaysOut ==
    [][\A t \in Tokens :
         /\ session[t] = "gone" => session'[t] = "gone"
         /\ session[t] = "expired" => session'[t] # "live"]_session

(* "ADMIN_USERNAME / ADMIN_PASSWORD create the first account": once the    *)
(* process runs with sign-in on, someone can sign in.                      *)
SomeoneCanSignIn ==
    Up /\ auth => \E n \in Names : users[n] \in {"reader", "admin"}

=============================================================================
