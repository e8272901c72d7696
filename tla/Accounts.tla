------------------------------ MODULE Accounts ------------------------------
(***************************************************************************)
(* The accounts of the platform's staff (domains/auth): an administrator   *)
(* invites, enables, disables and changes roles; a member signs in,        *)
(* renews the sign-in and resets a forgotten password by a mailed link.    *)
(* A request reads its row, awaits, and commits the columns it changed;    *)
(* other requests commit in between.                                       *)
(***************************************************************************)
EXTENDS Naturals, FiniteSets

CONSTANTS
  People,         \* rows of the table users
  Mails,          \* mail addresses
  UserRole,       \* the roles; only "admin" makes a difference here
  Super,          \* the administrator that ensure_demo_admin creates
  SuperMail,      \* its address
  Clerks,         \* requests that can be suspended at a time (bound)
  MaxPasswords,   \* passwords ever set (bound)
  MaxLinks,       \* different reset links mailed (bound)
  NoMail          \* the address of a row that does not exist

ASSUME AccountsAssumption ==
  /\ {"admin", "member"} \subseteq UserRole
  /\ Super \in People /\ SuperMail \in Mails /\ NoMail \notin Mails
  /\ MaxPasswords \in Nat \ {0} /\ MaxLinks \in Nat

VARIABLES
  users,      \* the table
  clerks,     \* the suspended requests
  passwords,  \* how many were ever set: their salted hashes differ
  links,      \* reset links mailed: for whom, and the hash they quote
  spent,      \* history: links whose reset was committed
  signedIn    \* the tokens a person holds

accountVars == <<users, clerks, passwords, links, spent, signedIn>>

UserStatus == {"invited", "active", "disabled"}
User == [mail : Mails \cup {NoMail}, status : UserStatus, role : UserRole,
         password : 0..MaxPasswords]
Link == [who : People, hash : 0..MaxPasswords]

NoRow == [mail |-> NoMail, status |-> "invited", role |-> "member",
          password |-> 0]
Exists(p) == users[p].mail # NoMail

(* A suspended request: what it will commit, to whom. *)
AtRest == [op |-> "none"]
Clerk ==
  {AtRest}
  \cup [op : {"invite"}, mail : Mails, role : UserRole]
  \cup [op : {"status"}, who : People, to : UserStatus]
  \cup [op : {"role"}, who : People, to : UserRole]
  \cup [op : {"reset"}, link : Link]
  \cup [op : {"login"}, who : People]

AccountsTypeOK ==
  /\ users \in [People -> User]
  /\ clerks \in [Clerks -> Clerk]
  /\ passwords \in 0..MaxPasswords
  /\ links \subseteq Link /\ spent \subseteq links
  /\ signedIn \in [People -> SUBSET {"access", "refresh"}]

AccountsInit ==
  /\ users = [p \in People |->
                IF p = Super THEN [mail |-> SuperMail, status |-> "active",
                                   role |-> "admin", password |-> 1]
                ELSE NoRow]
  /\ clerks = [c \in Clerks |-> AtRest]
  /\ passwords = 1
  /\ links = {} /\ spent = {}
  /\ signedIn = [p \in People |-> {}]

-----------------------------------------------------------------------------

(* get_current_user: a token, and the row as it is now. *)
Authenticated(p) == "access" \in signedIn[p] /\ users[p].status = "active"
IsAdmin(p) == Authenticated(p) /\ users[p].role = "admin"

Suspended(c, request) ==
  /\ clerks[c] = AtRest
  /\ clerks' = [clerks EXCEPT ![c] = request]
  /\ UNCHANGED <<users, passwords, links, spent, signedIn>>

Returns(c) == clerks' = [clerks EXCEPT ![c] = AtRest]

(* create_user looks for the address ... *)
BeginInvite(c, mail, role) ==
  /\ \E a \in People : IsAdmin(a)
  /\ \A p \in People : users[p].mail # mail
  /\ Suspended(c, [op |-> "invite", mail |-> mail, role |-> role])

(* ... and ix_users_tenant_email looks again. *)
Insertable(mail) == \A p \in People : users[p].mail # mail

EndInvite(c) ==
  /\ clerks[c].op = "invite"
  /\ IF Insertable(clerks[c].mail)
       THEN \E p \in People :
              /\ ~Exists(p)
              /\ users' = [users EXCEPT ![p] =
                   [NoRow EXCEPT !.mail = clerks[c].mail,
                                 !.role = clerks[c].role]]
       ELSE UNCHANGED users
  /\ Returns(c)
  /\ UNCHANGED <<passwords, links, spent, signedIn>>

(* Only disabling is refused, of oneself and of the super administrator:     *)
(* any other status may be set.                                             *)
MaySetStatus(actor, who, to) == to = "disabled" => who \notin {actor, Super}

(* A column that is assigned the value it was read with is not written: such *)
(* a request changes nothing.                                               *)
BeginSetStatus(c, who, to) ==
  /\ Exists(who) /\ users[who].status # to
  /\ \E actor \in People : IsAdmin(actor) /\ MaySetStatus(actor, who, to)
  /\ Suspended(c, [op |-> "status", who |-> who, to |-> to])

EndSetStatus(c) ==
  /\ clerks[c].op = "status"
  /\ users' = [users EXCEPT ![clerks[c].who].status = clerks[c].to]
  /\ Returns(c)
  /\ UNCHANGED <<passwords, links, spent, signedIn>>

(* update_user; If-Match is only looked at for being there. *)
BeginUpdateUser(c, who, to) ==
  /\ Exists(who) /\ users[who].role # to
  /\ \E actor \in People : IsAdmin(actor)
  /\ Suspended(c, [op |-> "role", who |-> who, to |-> to])

EndUpdateUser(c) ==
  /\ clerks[c].op = "role"
  /\ users' = [users EXCEPT ![clerks[c].who].role = clerks[c].to]
  /\ Returns(c)
  /\ UNCHANGED <<passwords, links, spent, signedIn>>

Mailed(who) ==
  /\ links' = links \cup {[who |-> who, hash |-> users[who].password]}
  /\ Cardinality(links') <= MaxLinks
  /\ UNCHANGED <<users, clerks, passwords, spent, signedIn>>

(* send_password_reset_email: whatever the status of the account is. *)
SendPasswordReset(who) ==
  /\ Exists(who)
  /\ \E actor \in People : IsAdmin(actor)
  /\ Mailed(who)

ForgotPassword(who) ==
  /\ Exists(who) /\ users[who].status = "active"
  /\ Mailed(who)

(* Mutant of LinkIsGood: a link is good as long as it has not expired. *)
LinkIsGoodWhenever(l) == users[l.who].status = "active"

LinkIsGood(l) ==
  users[l.who].status = "active" /\ users[l.who].password = l.hash

BeginReset(c, l) ==
  /\ l \in links
  /\ LinkIsGood(l)
  /\ Suspended(c, [op |-> "reset", link |-> l])

EndReset(c) ==
  /\ clerks[c].op = "reset"
  /\ passwords < MaxPasswords
  /\ passwords' = passwords + 1
  /\ users' = [users EXCEPT ![clerks[c].link.who].password = passwords']
  /\ spent' = spent \cup {clerks[c].link}
  /\ Returns(c)
  /\ UNCHANGED <<links, signedIn>>

(* authenticate, which awaits its commit before the tokens are made. *)
BeginLogin(c, who) ==
  /\ users[who].status = "active" /\ users[who].password # 0
  /\ Suspended(c, [op |-> "login", who |-> who])

EndLogin(c) ==
  /\ clerks[c].op = "login"
  /\ signedIn' = [signedIn EXCEPT ![clerks[c].who] = {"access", "refresh"}]
  /\ Returns(c)
  /\ UNCHANGED <<users, passwords, links, spent>>

RefreshTokens(who) ==
  /\ "refresh" \in signedIn[who] /\ users[who].status = "active"
  /\ signedIn' = [signedIn EXCEPT ![who] = {"access", "refresh"}]
  /\ UNCHANGED <<users, clerks, passwords, links, spent>>

(* The cookie is deleted; an access token has no jti to be listed by. *)
LogoutUser(who) ==
  /\ Authenticated(who)
  /\ signedIn' = [signedIn EXCEPT ![who] = @ \ {"refresh"}]
  /\ UNCHANGED <<users, clerks, passwords, links, spent>>

(* A token runs out. *)
Lapse(who, token) ==
  /\ token \in signedIn[who]
  /\ signedIn' = [signedIn EXCEPT ![who] = @ \ {token}]
  /\ UNCHANGED <<users, clerks, passwords, links, spent>>

(* ensure_demo_admin: the stack is started again. *)
Bootstrap ==
  /\ passwords < MaxPasswords
  /\ passwords' = passwords + 1
  /\ users' = [users EXCEPT ![Super].status = "active", ![Super].role = "admin",
                            ![Super].password = passwords']
  /\ UNCHANGED <<clerks, links, spent, signedIn>>

EndRequest(c) ==
  \/ EndInvite(c) \/ EndSetStatus(c) \/ EndUpdateUser(c) \/ EndReset(c)
  \/ EndLogin(c)

AccountsNext ==
  \/ \E c \in Clerks :
       \/ \E mail \in Mails, role \in UserRole : BeginInvite(c, mail, role)
       \/ \E who \in People, to \in UserStatus : BeginSetStatus(c, who, to)
       \/ \E who \in People, to \in UserRole : BeginUpdateUser(c, who, to)
       \/ \E l \in links : BeginReset(c, l)
       \/ \E who \in People : BeginLogin(c, who)
       \/ EndRequest(c)
  \/ \E who \in People :
       \/ SendPasswordReset(who) \/ ForgotPassword(who)
       \/ RefreshTokens(who) \/ LogoutUser(who)
       \/ \E token \in signedIn[who] : Lapse(who, token)
  \/ Bootstrap

AccountsSpec == AccountsInit /\ [][AccountsNext]_accountVars

-----------------------------------------------------------------------------
(* Properties                                                              *)

(* A link whose reset was committed, or that was mailed before another      *)
(* reset, never sets a password again, but for a request already under way. *)
SpentLinksRest ==
  [][\A c \in Clerks :
       clerks[c] = AtRest /\ clerks'[c].op = "reset"
         => LET l == clerks'[c].link
            IN /\ l \notin spent
               /\ \A used \in spent : used.who = l.who => used.hash < l.hash
    ]_accountVars

=============================================================================
