------------------------------- MODULE Accounts -------------------------------
(***************************************************************************)
(* Who the dashboard takes its user for, and the page that manages users   *)
(* (lib/storage.ts, useLoginMutation, useRegisterMutation, PrivateRoute,   *)
(* ProfilePage; internal/service/auth.go).  One tab of a browser: what the *)
(* answer to a login says is written to localStorage and read again by     *)
(* every page and every request, answers come when their page is gone, and *)
(* the server changes a row of users by reading and writing the whole row. *)
(*                                                                         *)
(* The keys of localStorage that one callback writes are written at once.  *)
(* A password is the number of its change.  The table of users is never    *)
(* empty when it is asked for.                                             *)
(***************************************************************************)
EXTENDS Naturals, Sequences

CONSTANTS
  Users, Registered,  \* who there may be, and who there is at first
  None,
  MaxAttempts,        \* bound: logins and registrations
  MaxCalls,           \* bound: saved roles and passwords
  MaxVisits,          \* bound: times the profile page is built
  MaxFails            \* bound: requests or answers that are lost

ASSUME AccountsAssumption ==
  /\ Registered \subseteq Users
  /\ MaxAttempts \in Nat /\ MaxCalls \in Nat /\ MaxVisits \in Nat /\ MaxFails \in Nat

VARIABLES
  rows,      \* the table of users
  held,      \* history: the roles that each row has had
  storage,   \* localStorage: token, username, email, role
  page, visit,
  busy,      \* the attempt that the form of this page waits for, 0 if none
  users,     \* systemUsers of the profile page, and the request for it
  choices,   \* pendingRoles: what is chosen and not saved
  attempts, calls, fails

server == <<rows, held>>
screen == <<page, visit, busy>>
profile == <<users, choices>>
vars == <<server, storage, screen, profile, attempts, calls, fails>>

\* The server has roles in lower case (models.UserRole), the page of profiles
\* offers others (ROLE_OPTIONS), and the handler stores what it is sent.
Offered == {"Admin", "Viewer"}
Roles == Offered \cup {"admin", "viewer"}
IsAdmin(role) == role \in {"Admin", "admin"}

Row == [role : Roles, password : Nat]
Claims == [user : Users, role : Roles]
ASSUME NoneAssumption == None \notin Users \cup Roles \cup Row \cup Claims
NoIdentity == [token |-> None, username |-> None, email |-> None, role |-> None]
NoUsers == [at |-> "idle", rows |-> [u \in Users |-> None]]
Nothing == [u \in Users |-> None]

Exists(u) == rows[u] # None

Init ==
  /\ rows \in [Users -> [role : {"admin", "viewer"}, password : {0}] \cup {None}]
  /\ \A u \in Users : Exists(u) <=> u \in Registered
  /\ held = [u \in Users |-> IF Exists(u) THEN {rows[u].role} ELSE {}]
  /\ storage = NoIdentity
  /\ page = "login" /\ visit = 0 /\ busy = 0
  /\ users = NoUsers /\ choices = Nothing
  /\ attempts = <<>> /\ calls = <<>> /\ fails = 0

-----------------------------------------------------------------------------
(* Pages *)

\* A page behind PrivateRoute needs a token; the profile page asks for the users.
PrivateRoute(p) == IF p \in {"login", "register"} \/ storage.token # None THEN p ELSE "login"

Show(p) ==
  /\ page' = p /\ busy' = 0
  /\ visit' = IF p = "profile" THEN visit + 1 ELSE visit
  /\ users' = IF p = "profile" THEN [NoUsers EXCEPT !.at = "asked"] ELSE NoUsers
  /\ choices' = Nothing

\* A link, the address bar or the back button.
Navigate(p) ==
  /\ p # page
  /\ p = "profile" => visit < MaxVisits
  /\ Show(PrivateRoute(p))
  /\ UNCHANGED <<server, storage, attempts, calls, fails>>

LogOut ==
  /\ page \in {"dashboard", "profile"}
  /\ storage' = NoIdentity
  /\ Show("login")
  /\ UNCHANGED <<server, attempts, calls, fails>>

-----------------------------------------------------------------------------
(* Login and registration *)

\* The button is disabled while the mutation of this page waits.
Submit(via, u) ==
  /\ page = via /\ Len(attempts) < MaxAttempts
  /\ busy # 0 => attempts[busy].at = "settled"
  /\ attempts' = Append(attempts, [via |-> via, user |-> u, at |-> "sent", token |-> None])
  /\ busy' = Len(attempts')
  /\ UNCHANGED <<server, storage, page, visit, profile, calls, fails>>

\* AuthService.Login for a right password, and AuthService.Register.
ServerAdmits(n) ==
  LET u == attempts[n].user
  IN  /\ attempts[n].at = "sent"
      /\ IF attempts[n].via = "login"
         THEN Exists(u) /\ UNCHANGED server
         ELSE /\ ~Exists(u)
              /\ rows' = [rows EXCEPT ![u] = [role |-> "viewer", password |-> 0]]
              /\ held' = [held EXCEPT ![u] = @ \cup {"viewer"}]
      /\ attempts' = [attempts EXCEPT
           ![n].at = "admitted", ![n].token = [user |-> u, role |-> rows'[u].role]]
      /\ UNCHANGED <<storage, screen, profile, calls, fails>>

\* No such user, or one with this name or address, or a wrong password.
ServerRefuses(n) ==
  /\ attempts[n].at = "sent"
  /\ attempts[n].via = "register" => Exists(attempts[n].user)
  /\ attempts' = [attempts EXCEPT ![n].at = "refused"]
  /\ UNCHANGED <<server, storage, screen, profile, calls, fails>>

AttemptLost(n) ==
  /\ attempts[n].at \in {"sent", "admitted"} /\ fails < MaxFails
  /\ fails' = fails + 1
  /\ attempts' = [attempts EXCEPT ![n].at = "refused"]
  /\ UNCHANGED <<server, storage, screen, profile, calls>>

\* mutationFn writes the keys; the server sends the role within the user only.
Store(token, user) ==
  [token |-> token, username |-> user, email |-> user, role |-> token.role]

Admitted(n) ==
  /\ attempts[n].at = "admitted"
  /\ storage' = Store(attempts[n].token, attempts[n].user)
  /\ attempts' = [attempts EXCEPT ![n].at = "settled"]
  /\ IF page = "dashboard" THEN UNCHANGED <<screen, profile>> ELSE Show("dashboard")
  /\ UNCHANGED <<server, calls, fails>>

\* onError clears what is stored, be it of another attempt.
Refused(n) ==
  /\ attempts[n].at = "refused"
  /\ storage' = NoIdentity
  /\ attempts' = [attempts EXCEPT ![n].at = "settled"]
  /\ UNCHANGED <<server, screen, profile, calls, fails>>

-----------------------------------------------------------------------------
(* The profile page *)

\* fetchUsers, with the token that PrivateRoute saw.
ServerListsUsers ==
  /\ users.at = "asked"
  /\ users' = [at |-> "answered", rows |-> [u \in Users |-> IF Exists(u) THEN rows[u].role ELSE None]]
  /\ UNCHANGED <<server, storage, screen, choices, attempts, calls, fails>>

\* setSystemUsers: from here on the rows are those of the page.
UsersArrive ==
  /\ users.at = "answered"
  /\ users' = [users EXCEPT !.at = "shown"]
  /\ UNCHANGED <<server, storage, screen, choices, attempts, calls, fails>>

UsersLost ==
  /\ users.at \in {"asked", "answered"} /\ fails < MaxFails
  /\ users' = NoUsers
  /\ fails' = fails + 1
  /\ UNCHANGED <<server, storage, screen, choices, attempts, calls>>

Managing == page = "profile" /\ storage.role # None /\ IsAdmin(storage.role) /\ users.at = "shown"

\* An option of the CustomSelect of a row.
ChooseRole(u, r) ==
  /\ Managing /\ users.rows[u] # None
  /\ choices' = [choices EXCEPT ![u] = r]
  /\ UNCHANGED <<server, storage, screen, users, attempts, calls, fails>>

Send(op, target, role) ==
  /\ Len(calls) < MaxCalls /\ storage.token # None
  /\ calls' = Append(calls, [op |-> op, target |-> target, role |-> role, token |-> storage.token,
                             at |-> "sent", copy |-> None, visit |-> visit])

\* handleRoleSave: Save is enabled while the choice differs from the row.
HandleRoleSave(u) ==
  /\ Managing /\ users.rows[u] # None
  /\ choices[u] # None /\ choices[u] # users.rows[u]
  /\ Send("role", u, choices[u])
  /\ UNCHANGED <<server, storage, screen, profile, attempts, fails>>

\* ResetPasswordModal, from its second request on: the first one only compares.
ChangePassword ==
  /\ page = "profile" /\ storage.token # None
  /\ Send("password", storage.token.user, None)
  /\ UNCHANGED <<server, storage, screen, profile, attempts, fails>>

\* UpdateUserRole behind RequireRole("admin"), and UpdateMe: FindByID ...
Permitted(c) == c.op = "role" => c.token.role = "admin"
ServerReads(n) ==
  /\ calls[n].at = "sent"
  /\ calls' = [calls EXCEPT
       ![n].at = IF Permitted(calls[n]) THEN "read" ELSE "refused",
       ![n].copy = IF Permitted(calls[n]) THEN rows[calls[n].target] ELSE None]
  /\ UNCHANGED <<server, storage, screen, profile, attempts, fails>>

\* ... and Update, of every column of the row.
Changed(c) ==
  IF c.op = "role" THEN [c.copy EXCEPT !.role = c.role] ELSE [c.copy EXCEPT !.password = @ + 1]
ServerWrites(n) ==
  LET c == calls[n]
  IN  /\ c.at = "read"
      /\ rows' = [rows EXCEPT ![c.target] = Changed(c)]
      /\ held' = [held EXCEPT ![c.target] = @ \cup {Changed(c).role}]
      /\ calls' = [calls EXCEPT ![n].at = "written"]
      /\ UNCHANGED <<storage, screen, profile, attempts, fails>>

CallLost(n) ==
  /\ calls[n].at \in {"sent", "written"} /\ fails < MaxFails
  /\ fails' = fails + 1
  /\ calls' = [calls EXCEPT ![n].at = "refused"]
  /\ UNCHANGED <<server, storage, screen, profile, attempts>>

\* After the await the row shows the role that was sent, and the choice is gone,
\* though it may be another one by then.
RoleChosenNow(c) ==  \* mutant: pendingRoles is read after the await
  IF choices[c.target] = None THEN c.role ELSE choices[c.target]
RoleToShow(c) == c.role
CallAnswered(n) ==
  LET c == calls[n]
      mine == c.op = "role" /\ page = "profile" /\ c.visit = visit
  IN  /\ c.at \in {"written", "refused"}
      /\ calls' = [calls EXCEPT ![n].at = "settled"]
      /\ IF mine /\ c.at = "written"
         THEN /\ users' = [users EXCEPT !.rows[c.target] = RoleToShow(c)]
              /\ choices' = [choices EXCEPT ![c.target] = None]
         ELSE UNCHANGED profile
      /\ UNCHANGED <<server, storage, screen, attempts, fails>>

-----------------------------------------------------------------------------

Next ==
  \/ \E p \in {"login", "register", "dashboard", "profile"} : Navigate(p)
  \/ LogOut
  \/ \E via \in {"login", "register"}, u \in Users : Submit(via, u)
  \/ \E n \in DOMAIN attempts :
       ServerAdmits(n) \/ ServerRefuses(n) \/ AttemptLost(n) \/ Admitted(n) \/ Refused(n)
  \/ ServerListsUsers \/ UsersArrive \/ UsersLost
  \/ \E u \in Users : HandleRoleSave(u) \/ \E r \in Offered : ChooseRole(u, r)
  \/ ChangePassword
  \/ \E n \in DOMAIN calls :
       ServerReads(n) \/ ServerWrites(n) \/ CallLost(n) \/ CallAnswered(n)

Spec == Init /\ [][Next]_vars

-----------------------------------------------------------------------------
(* Properties *)

TypeOK ==
  /\ rows \in [Users -> Row \cup {None}] /\ held \in [Users -> SUBSET Roles]
  /\ storage \in [token : Claims \cup {None}, username : Users \cup {None},
                  email : Users \cup {None}, role : Roles \cup {None}]
  /\ page \in {"login", "register", "dashboard", "profile"}
  /\ visit \in 0..MaxVisits /\ fails \in 0..MaxFails
  /\ busy \in 0..MaxAttempts /\ Len(attempts) <= MaxAttempts /\ Len(calls) <= MaxCalls
  /\ users \in [at : {"idle", "asked", "answered", "shown"}, rows : [Users -> Roles \cup {None}]]
  /\ choices \in [Users -> Offered \cup {None}]

\* The page of profiles shows no role that the server never stored for that
\* user, however saves overlap with new choices, failures and the other writes
\* of the same row (ProfilePage.tsx:136-153).
ShownRolesWereStored ==
  \A u \in Users : users.rows[u] # None => users.rows[u] \in held[u]
===============================================================================
