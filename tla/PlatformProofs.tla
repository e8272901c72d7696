--------------------------- MODULE PlatformProofs ---------------------------
(***************************************************************************)
(* Proofs about the accounts of the staff, for any number of people,       *)
(* addresses and requests under way, about a resumable upload, for any     *)
(* number of parts and of requests that record, complete, cancel and clean *)
(* up at once, and about the invites and sessions of the supplier portal,  *)
(* for any number of suppliers, codes, sessions and overlapping requests.  *)
(***************************************************************************)
EXTENDS Accounts, FileUpload, PortalSessions, TLAPS

-----------------------------------------------------------------------------
(* Accounts                                                                *)

(* A suspended request has the arguments of its operation. *)
LEMMA ClerkShape ==
  ASSUME NEW q \in Clerk
  PROVE  /\ q.op \in {"none", "invite", "status", "role", "reset", "login"}
         /\ q.op = "invite" => q.mail \in Mails /\ q.role \in UserRole
         /\ q.op = "status" => q.who \in People /\ q.to \in UserStatus
         /\ q.op = "role" => q.who \in People /\ q.to \in UserRole
         /\ q.op = "reset" => q.link \in Link
         /\ q.op = "login" => q.who \in People
BY DEF Clerk, AtRest

(* A request is suspended, or is at rest again. *)
LEMMA ClerksKeepType ==
  ASSUME clerks \in [Clerks -> Clerk], NEW c \in Clerks, NEW q \in Clerk,
         clerks' = [clerks EXCEPT ![c] = q]
  PROVE  clerks' \in [Clerks -> Clerk]
OBVIOUS

LEMMA AtRestIsClerk == AtRest \in Clerk
BY DEF AtRest, Clerk

-----------------------------------------------------------------------------
(* What the links rest on: hashes are as old as the passwords ever set,    *)
(* links are of accounts that exist, and the password of an account is     *)
(* younger than every link that was spent for it.                          *)
LinksInv ==
  /\ \A p \in People : users[p].password <= passwords
  /\ \A l \in links : l.hash <= passwords /\ Exists(l.who)
  /\ \A c \in Clerks : clerks[c].op = "reset" => clerks[c].link \in links
  /\ \A l \in spent : l.hash < users[l.who].password

AccountsInv == AccountsTypeOK /\ LinksInv

LEMMA AccountsStart == AccountsInit => AccountsInv
<1> SUFFICES ASSUME AccountsInit PROVE AccountsInv
  OBVIOUS
<1> USE AccountsAssumption DEF AccountsInit
<1>1. AccountsTypeOK
  BY AtRestIsClerk DEF AccountsTypeOK, NoRow, User, UserStatus
<1>2. LinksInv
  BY DEF LinksInv, NoRow, AtRest
<1> QED BY <1>1, <1>2 DEF AccountsInv

(* Steps that leave the table, the links and the passwords alone. *)
LEMMA ClerkStep ==
  ASSUME AccountsInv, NEW c \in Clerks, NEW q \in Clerk,
         clerks' = [clerks EXCEPT ![c] = q],
         q.op = "reset" => q.link \in links,
         signedIn' \in [People -> SUBSET {"access", "refresh"}],
         UNCHANGED <<users, passwords, links, spent>>
  PROVE  AccountsInv'
<1>1. AccountsTypeOK'
  BY ClerksKeepType DEF AccountsInv, AccountsTypeOK
<1>2. LinksInv'
  BY DEF AccountsInv, AccountsTypeOK, LinksInv, Exists
<1> QED BY <1>1, <1>2 DEF AccountsInv

(* Steps that change the row of one person. Its address stays, or is a     *)
(* new one of a row that did not exist; its password stays, or is new.     *)
LEMMA RowStep ==
  ASSUME AccountsInv, NEW p \in People, NEW row \in User,
         users' = [users EXCEPT ![p] = row],
         \/ row.mail = users[p].mail
         \/ ~Exists(p) /\ row.mail \in Mails,
         \/ /\ UNCHANGED <<passwords, spent>>
            /\ row.password = users[p].password
         \/ /\ UNCHANGED <<passwords, spent>>
            /\ ~Exists(p) /\ row.password = 0
         \/ /\ passwords < MaxPasswords /\ passwords' = passwords + 1
            /\ row.password = passwords'
            /\ spent' \subseteq spent \cup {l \in links : l.who = p},
         clerks' \in [Clerks -> Clerk],
         \A c \in Clerks : clerks'[c].op = "reset" => clerks'[c].link \in links,
         UNCHANGED <<links, signedIn>>
  PROVE  AccountsInv'
<1> USE AccountsAssumption
<1>1. /\ users \in [People -> User] /\ passwords \in 0..MaxPasswords
      /\ links \subseteq Link /\ spent \subseteq links
  BY DEF AccountsInv, AccountsTypeOK
<1>2. AccountsTypeOK'
  BY <1>1 DEF AccountsInv, AccountsTypeOK
<1>4. /\ \A q \in People : users[q].password \in Nat
      /\ row.password \in Nat
      /\ \A l \in links : l.hash \in Nat /\ l.who \in People
      /\ passwords \in Nat
  BY <1>1 DEF User, Link
<1>5. \A q \in People : users'[q].password <= passwords'
  BY <1>1, <1>4 DEF AccountsInv, LinksInv
<1>6. \A l \in links' : l.hash <= passwords' /\ Exists(l.who)'
  BY <1>1, <1>4 DEF AccountsInv, LinksInv, Exists
<1>7. ASSUME NEW l \in spent' PROVE l.hash < users'[l.who].password
  <2>1. l \in links /\ l.hash <= passwords /\ Exists(l.who)
    BY <1>1, <1>7 DEF AccountsInv, LinksInv
  <2>2. CASE l.who # p
    BY <1>1, <1>4, <1>7, <2>1, <2>2 DEF AccountsInv, LinksInv
  <2>3. CASE l.who = p /\ passwords' = passwords + 1
    BY <1>1, <1>4, <2>1, <2>3
  <2>4. CASE l.who = p /\ spent' = spent
    BY <1>1, <1>4, <1>7, <2>1, <2>4 DEF AccountsInv, LinksInv
  <2> QED BY <2>2, <2>3, <2>4
<1>8. LinksInv'
  BY <1>5, <1>6, <1>7 DEF LinksInv
<1> QED BY <1>2, <1>8 DEF AccountsInv

(* A request goes to rest and leaves a row behind it. *)
LEMMA RequestEnds ==
  ASSUME AccountsInv, NEW c \in Clerks, EndRequest(c)
  PROVE  AccountsInv'
<1> USE AccountsAssumption
<1> DEFINE q == clerks[c]
<1>1. /\ q \in Clerk /\ users \in [People -> User]
      /\ passwords \in 0..MaxPasswords /\ links \subseteq Link
      /\ signedIn \in [People -> SUBSET {"access", "refresh"}]
  BY DEF AccountsInv, AccountsTypeOK
<1>2. clerks' = [clerks EXCEPT ![c] = AtRest]
  BY DEF EndRequest, EndInvite, EndSetStatus, EndUpdateUser, EndReset, EndLogin,
         Returns
<1>3. /\ clerks' \in [Clerks -> Clerk]
      /\ \A d \in Clerks : clerks'[d].op = "reset" => clerks'[d].link \in links
  BY <1>2, AtRestIsClerk DEF AccountsInv, AccountsTypeOK, LinksInv, AtRest
<1>4. /\ q.op = "invite" => q.mail \in Mails /\ q.role \in UserRole
      /\ q.op = "status" => q.who \in People /\ q.to \in UserStatus
      /\ q.op = "role" => q.who \in People /\ q.to \in UserRole
      /\ q.op = "reset" => q.link \in Link
      /\ q.op = "login" => q.who \in People
  BY <1>1, ClerkShape
<1>5. ASSUME UNCHANGED <<users, passwords, links, spent>>,
             signedIn' \in [People -> SUBSET {"access", "refresh"}]
      PROVE  AccountsInv'
  BY <1>2, <1>5, AtRestIsClerk, ClerkStep DEF AtRest
<1> HIDE DEF q
<1>6. CASE EndInvite(c)
  <2>1. CASE Insertable(q.mail)
    <3>1. PICK p \in People :
            /\ ~Exists(p)
            /\ users' = [users EXCEPT ![p] =
                 [NoRow EXCEPT !.mail = q.mail, !.role = q.role]]
      BY <1>6, <2>1 DEF EndInvite, q
    <3> DEFINE row == [NoRow EXCEPT !.mail = q.mail, !.role = q.role]
    <3>2. row \in User /\ row.mail = q.mail /\ row.password = 0 /\ q.mail \in Mails
      <4>1. q.mail \in Mails /\ q.role \in UserRole
        BY <1>4, <1>6 DEF EndInvite, q
      <4>2. NoRow \in User /\ NoRow.password = 0
        BY DEF NoRow, User, UserStatus
      <4> DEFINE r1 == [NoRow EXCEPT !.mail = q.mail]
      <4>3. r1 \in User /\ r1.mail = q.mail /\ r1.password = 0
        BY <4>1, <4>2 DEF User
      <4>4. row = [r1 EXCEPT !.role = q.role]
        OBVIOUS
      <4> HIDE DEF row, r1
      <4> QED BY <4>1, <4>3, <4>4 DEF User
    <3> HIDE DEF row
    <3>4. users' = [users EXCEPT ![p] = row]
      BY <3>1 DEF row
    <3>5. UNCHANGED <<passwords, links, spent, signedIn>>
      BY <1>6 DEF EndInvite
    <3> QED BY <1>3, <3>1, <3>2, <3>4, <3>5, RowStep
  <2>2. CASE ~Insertable(q.mail)
    BY <1>1, <1>5, <1>6, <2>2 DEF EndInvite, q
  <2> QED BY <2>1, <2>2
<1>7. CASE EndSetStatus(c)
  <2> DEFINE row == [users[q.who] EXCEPT !.status = q.to]
  <2>1. q.op = "status" /\ UNCHANGED <<passwords, links, spent, signedIn>>
    BY <1>7 DEF EndSetStatus, q
  <2>2. users' = [users EXCEPT ![q.who] = row]
    BY <1>7 DEF EndSetStatus, q
  <2>3. /\ row \in User /\ row.mail = users[q.who].mail
        /\ row.password = users[q.who].password
    BY <1>1, <1>4, <2>1 DEF User
  <2> HIDE DEF row
  <2> QED BY <1>1, <1>3, <1>4, <2>1, <2>2, <2>3, RowStep
<1>8. CASE EndUpdateUser(c)
  <2> DEFINE row == [users[q.who] EXCEPT !.role = q.to]
  <2>1. q.op = "role" /\ UNCHANGED <<passwords, links, spent, signedIn>>
    BY <1>8 DEF EndUpdateUser, q
  <2>2. users' = [users EXCEPT ![q.who] = row]
    BY <1>8 DEF EndUpdateUser, q
  <2>3. /\ row \in User /\ row.mail = users[q.who].mail
        /\ row.password = users[q.who].password
    BY <1>1, <1>4, <2>1 DEF User
  <2> HIDE DEF row
  <2> QED BY <1>1, <1>3, <1>4, <2>1, <2>2, <2>3, RowStep
<1>9. CASE EndReset(c)
  <2> DEFINE row == [users[q.link.who] EXCEPT !.password = passwords']
  <2>1. /\ q.op = "reset" /\ UNCHANGED <<links, signedIn>>
        /\ passwords < MaxPasswords /\ passwords' = passwords + 1
        /\ spent' = spent \cup {q.link}
    BY <1>9 DEF EndReset, q
  <2>2. q.link \in links /\ q.link.who \in People
    BY <1>4, <2>1 DEF AccountsInv, LinksInv, Link, q
  <2>3. users' = [users EXCEPT ![q.link.who] = row]
    BY <1>9 DEF EndReset, q
  <2>4. /\ row \in User /\ row.mail = users[q.link.who].mail
        /\ row.password = passwords' /\ passwords' \in 0..MaxPasswords
    BY <1>1, <2>1, <2>2 DEF User
  <2> HIDE DEF row
  <2> QED BY <1>3, <2>1, <2>2, <2>3, <2>4, RowStep
<1>10. CASE EndLogin(c)
  BY <1>1, <1>4, <1>5, <1>10 DEF EndLogin, q
<1> QED BY <1>6, <1>7, <1>8, <1>9, <1>10 DEF EndRequest

(* Mailing a link: it quotes the password of an account that exists. *)
LEMMA MailedKeepsInv ==
  ASSUME AccountsInv, NEW who \in People, Exists(who), Mailed(who)
  PROVE  AccountsInv'
<1> DEFINE l == [who |-> who, hash |-> users[who].password]
<1>1. /\ users \in [People -> User] /\ links' = links \cup {l}
      /\ UNCHANGED <<users, clerks, passwords, spent, signedIn>>
  BY DEF AccountsInv, AccountsTypeOK, Mailed
<1>2. /\ l \in Link /\ l.hash <= passwords /\ Exists(l.who)
  BY <1>1 DEF AccountsInv, LinksInv, Link, User
<1> HIDE DEF l
<1>3. AccountsTypeOK'
  BY <1>1, <1>2 DEF AccountsInv, AccountsTypeOK
<1>4. LinksInv'
  BY <1>1, <1>2 DEF AccountsInv, LinksInv, Exists
<1> QED BY <1>3, <1>4 DEF AccountsInv

(* Tokens come and go. *)
LEMMA TokensKeepInv ==
  ASSUME AccountsInv, UNCHANGED <<users, clerks, passwords, links, spent>>,
         signedIn' \in [People -> SUBSET {"access", "refresh"}]
  PROVE  AccountsInv'
BY DEF AccountsInv, AccountsTypeOK, LinksInv, Exists

LEMMA AccountsStep ==
  AccountsInv /\ [AccountsNext]_accountVars => AccountsInv'
<1> SUFFICES ASSUME AccountsInv, [AccountsNext]_accountVars PROVE AccountsInv'
  OBVIOUS
<1> USE AccountsAssumption
<1>1. /\ users \in [People -> User] /\ passwords \in 0..MaxPasswords
      /\ links \subseteq Link
      /\ signedIn \in [People -> SUBSET {"access", "refresh"}]
  BY DEF AccountsInv, AccountsTypeOK
<1>2. ASSUME NEW c \in Clerks, NEW q \in Clerk, Suspended(c, q),
             q.op = "reset" => q.link \in links
      PROVE  AccountsInv'
  BY <1>1, <1>2, ClerkStep DEF Suspended
<1>3. ASSUME NEW c \in Clerks, NEW mail \in Mails, NEW role \in UserRole,
             BeginInvite(c, mail, role)
      PROVE  AccountsInv'
  BY <1>2, <1>3 DEF BeginInvite, Clerk
<1>4. ASSUME NEW c \in Clerks, NEW who \in People, NEW to \in UserStatus,
             BeginSetStatus(c, who, to)
      PROVE  AccountsInv'
  BY <1>1, <1>2, <1>4 DEF BeginSetStatus, Clerk, User
<1>5. ASSUME NEW c \in Clerks, NEW who \in People, NEW to \in UserRole,
             BeginUpdateUser(c, who, to)
      PROVE  AccountsInv'
  BY <1>1, <1>2, <1>5 DEF BeginUpdateUser, Clerk, User
<1>6. ASSUME NEW c \in Clerks, NEW l \in links, BeginReset(c, l)
      PROVE  AccountsInv'
  BY <1>1, <1>2, <1>6 DEF BeginReset, Clerk
<1>7. ASSUME NEW c \in Clerks, NEW who \in People, BeginLogin(c, who)
      PROVE  AccountsInv'
  BY <1>2, <1>7 DEF BeginLogin, Clerk
<1>8. ASSUME NEW c \in Clerks, EndRequest(c) PROVE AccountsInv'
  BY <1>8, RequestEnds
<1>9. ASSUME NEW who \in People, SendPasswordReset(who) \/ ForgotPassword(who)
      PROVE  AccountsInv'
  BY <1>9, MailedKeepsInv DEF SendPasswordReset, ForgotPassword
<1>10. ASSUME NEW who \in People,
              \/ RefreshTokens(who) \/ LogoutUser(who)
              \/ \E token \in signedIn[who] : Lapse(who, token)
       PROVE  AccountsInv'
  BY <1>1, <1>10, TokensKeepInv DEF RefreshTokens, LogoutUser, Lapse
<1>11. CASE Bootstrap
  <2> DEFINE row == [users[Super] EXCEPT !.status = "active", !.role = "admin",
                                         !.password = passwords']
  <2>1. /\ UNCHANGED <<clerks, links, spent, signedIn>>
        /\ passwords < MaxPasswords /\ passwords' = passwords + 1
    BY <1>11 DEF Bootstrap
  <2>2. users' = [users EXCEPT ![Super] = row]
    BY <1>1, <1>11 DEF Bootstrap
  <2>3. /\ row \in User /\ row.mail = users[Super].mail
        /\ row.password = passwords' /\ passwords' \in 0..MaxPasswords
    <3>1. users[Super] \in User
      BY <1>1
    <3>2. passwords' \in 0..MaxPasswords
      BY <1>1, <2>1
    <3> DEFINE r1 == [users[Super] EXCEPT !.status = "active"]
               r2 == [r1 EXCEPT !.role = "admin"]
    <3>3. r1 \in User /\ r1.mail = users[Super].mail
      BY <3>1 DEF User, UserStatus
    <3>4. r2 \in User /\ r2.mail = users[Super].mail
      BY <3>3 DEF User
    <3>5. row = [r2 EXCEPT !.password = passwords']
      OBVIOUS
    <3> HIDE DEF row, r1, r2
    <3> QED BY <3>2, <3>4, <3>5 DEF User
  <2>4. /\ clerks' \in [Clerks -> Clerk]
        /\ \A c \in Clerks : clerks'[c].op = "reset" => clerks'[c].link \in links
    BY <2>1 DEF AccountsInv, AccountsTypeOK, LinksInv
  <2> HIDE DEF row
  <2> QED BY <2>1, <2>2, <2>3, <2>4, RowStep
<1>12. CASE UNCHANGED accountVars
  BY <1>1, <1>12, TokensKeepInv DEF accountVars
<1> QED BY <1>3, <1>4, <1>5, <1>6, <1>7, <1>8, <1>9, <1>10, <1>11, <1>12
        DEF AccountsNext

(* No reset begins with a link that was spent, or that was mailed before a *)
(* link that was (UserService.reset_password compares the hash).           *)
THEOREM LinksAreSpentOnce == AccountsSpec => SpentLinksRest
<1>1. ASSUME AccountsInv, AccountsNext, NEW c \in Clerks,
             clerks[c] = AtRest, clerks'[c].op = "reset"
      PROVE  LET l == clerks'[c].link
             IN /\ l \notin spent
                /\ \A used \in spent : used.who = l.who => used.hash < l.hash
  <2>1. PICK d \in Clerks, l \in links : BeginReset(d, l)
    <3>1. AtRest.op # "reset"
      BY DEF AtRest
    <3>2. clerks \in [Clerks -> Clerk]
      BY <1>1 DEF AccountsInv, AccountsTypeOK
    <3>3. ASSUME NEW d \in Clerks, NEW q, Suspended(d, q), q.op # "reset"
          PROVE  FALSE
      BY <1>1, <3>1, <3>2, <3>3 DEF Suspended
    <3>4. ASSUME NEW d \in Clerks, EndRequest(d) PROVE FALSE
      BY <1>1, <3>1, <3>2, <3>4 DEF EndRequest, EndInvite, EndSetStatus,
         EndUpdateUser, EndReset, EndLogin, Returns
    <3>5. ~UNCHANGED clerks
      BY <1>1, <3>1
    <3> QED BY <1>1, <3>3, <3>4, <3>5
        DEF AccountsNext, BeginInvite, BeginSetStatus, BeginUpdateUser,
            BeginLogin, SendPasswordReset, ForgotPassword, Mailed, RefreshTokens,
            LogoutUser, Lapse, Bootstrap
  <2>2. /\ clerks' = [clerks EXCEPT ![d] = [op |-> "reset", link |-> l]]
        /\ users[l.who].password = l.hash
    BY <2>1 DEF BeginReset, Suspended, LinkIsGood
  <2>3. c = d /\ clerks'[c].link = l
    BY <1>1, <2>2 DEF AccountsInv, AccountsTypeOK, AtRest
  <2>4. /\ users \in [People -> User] /\ links \subseteq Link
        /\ spent \subseteq links
    BY <1>1 DEF AccountsInv, AccountsTypeOK
  <2>5. \A used \in spent : used.who = l.who => used.hash < l.hash
    BY <1>1, <2>2 DEF AccountsInv, LinksInv
  <2>6. l.hash \in Nat
    BY <2>4 DEF Link
  <2>7. ~(l.hash < l.hash)
    BY <2>6
  <2> QED BY <2>3, <2>5, <2>7
<1>2. ASSUME AccountsInv, UNCHANGED accountVars, NEW c \in Clerks,
             clerks[c] = AtRest, clerks'[c].op = "reset"
      PROVE  FALSE
  BY <1>2 DEF accountVars, AtRest
<1> DEFINE Fresh == \A c \in Clerks :
              clerks[c] = AtRest /\ clerks'[c].op = "reset"
                => LET l == clerks'[c].link
                   IN /\ l \notin spent
                      /\ \A used \in spent :
                           used.who = l.who => used.hash < l.hash
<1>3. AccountsInv /\ [AccountsNext]_accountVars => [Fresh]_accountVars
  BY <1>1, <1>2
<1>4. AccountsSpec => [][Fresh]_accountVars
  BY <1>3, AccountsStart, AccountsStep, PTL DEF AccountsSpec
<1> QED BY <1>4 DEF SpentLinksRest

-----------------------------------------------------------------------------
(* A file                                                                  *)

(* What a request carries from step to step: ETags it read or was answered  *)
(* were stored, and all parts were there when it began to complete.        *)
CarriesStored(q) ==
  /\ q.next \in {"store", "record"} =>
       \A p \in Parts : q.parts[p] # Nothing => <<p, q.parts[p]>> \in stored
  /\ q.next = "record" => <<q.part, q.bytes>> \in stored
  /\ q.next \in {"mark", "compose"} => \A p \in Parts : q.parts[p] # Nothing

UploadInv ==
  /\ UploadTypeOK /\ RecordedWasStored
  /\ \A c \in Calls : CarriesStored(calls[c])

LEMMA IdleIsCall == Idle \in Call /\ NoBytes \in Etags
<1>1. PICK p \in Parts : TRUE
  BY UploadAssumption
<1>2. Declared[p] \in Bytes
  BY UploadAssumption
<1>3. (CHOOSE x \in Parts : TRUE) \in Parts /\ (CHOOSE b \in Bytes : TRUE) \in Bytes
  BY <1>2
<1>4. NoBytes \in Etags
  BY DEF NoBytes, Etags
<1> QED BY <1>3, <1>4 DEF Idle, Call, UploadStatus

LEMMA UploadStart == UploadInit => UploadInv
<1> SUFFICES ASSUME UploadInit PROVE UploadInv
  OBVIOUS
<1> USE DEF UploadInit
<1>1. UploadTypeOK
  BY IdleIsCall, UploadAssumption DEF UploadTypeOK, UploadSession, UploadStatus
<1>2. RecordedWasStored
  BY DEF RecordedWasStored, NoBytes
<1>3. \A c \in Calls : CarriesStored(calls[c])
  BY DEF CarriesStored, Idle
<1> QED BY <1>1, <1>2, <1>3 DEF UploadInv

(* A step of one request that leaves the recorded ETags and the rows alone, *)
(* or changes them within the invariant.                                   *)
LEMMA CallStep ==
  ASSUME UploadInv, NEW c \in Calls, NEW q \in Call,
         calls' = [calls EXCEPT ![c] = q], CarriesStored(q)',
         upload' \in UploadSession, objects' \in Etags,
         whole' \in [Parts -> Bytes] \cup {NoBytes},
         files' \in Seq(FileRow), Len(files') <= MaxFiles,
         stored \subseteq stored', stored' \subseteq Parts \X Bytes,
         RecordedWasStored'
  PROVE  UploadInv'
<1>1. calls \in [Calls -> Call] /\ \A d \in Calls : CarriesStored(calls[d])
  BY DEF UploadInv, UploadTypeOK
<1>2. UploadTypeOK'
  BY <1>1 DEF UploadTypeOK
<1>3. ASSUME NEW d \in Calls PROVE CarriesStored(calls[d])'
  <2>1. CASE d = c
    BY <1>1, <2>1
  <2>2. CASE d # c
    <3>1. calls'[d] = calls[d] /\ CarriesStored(calls[d])
      BY <1>1, <2>2
    <3> QED BY <3>1 DEF CarriesStored
  <2> QED BY <2>1, <2>2
<1> QED BY <1>2, <1>3 DEF UploadInv

(* The same for a step that only moves the request on. *)
LEMMA MoveStep ==
  ASSUME UploadInv, NEW c \in Calls, NEW q \in Call,
         calls' = [calls EXCEPT ![c] = q], CarriesStored(q),
         upload' \in UploadSession, upload'.parts = upload.parts,
         objects' \in Etags, whole' \in [Parts -> Bytes] \cup {NoBytes},
         UNCHANGED <<files, stored>>
  PROVE  UploadInv'
<1>1. /\ files' \in Seq(FileRow) /\ Len(files') <= MaxFiles
      /\ stored' \subseteq Parts \X Bytes /\ stored \subseteq stored'
  BY DEF UploadInv, UploadTypeOK
<1>2. RecordedWasStored'
  BY DEF UploadInv, RecordedWasStored
<1>3. CarriesStored(q)'
  BY DEF CarriesStored
<1> QED BY <1>1, <1>2, <1>3, CallStep

(* What a request may go on to when nothing of what it read is needed. *)
LEMMA RestCarriesNothing ==
  ASSUME NEW next \in {"verify", "fail", "cleanup", "remove", "cancel"}
  PROVE  /\ [Idle EXCEPT !.next = next] \in Call
         /\ CarriesStored([Idle EXCEPT !.next = next])
<1>1. Idle \in Call
  BY IdleIsCall
<1>2. [Idle EXCEPT !.next = next] \in Call
  BY <1>1 DEF Call
<1>3. [Idle EXCEPT !.next = next].next = next
  BY <1>1 DEF Call
<1> QED BY <1>2, <1>3 DEF CarriesStored

LEMMA IdleCarriesNothing == CarriesStored(Idle)
BY DEF CarriesStored, Idle

(* The steps of the requests, one lemma for each group. *)
LEMMA PartSteps ==
  ASSUME UploadInv, NEW c \in Calls,
         \/ \E sent \in Sent : BeginPart(c, sent[1], sent[2])
         \/ StorePart(c) \/ RecordPart(c)
  PROVE  UploadInv'
<1>0. PICK q0 : q0 = calls[c]
  OBVIOUS
<1>1. /\ q0 \in Call /\ CarriesStored(q0) /\ upload \in UploadSession
      /\ objects \in Etags /\ whole \in [Parts -> Bytes] \cup {NoBytes}
      /\ files \in Seq(FileRow) /\ Len(files) <= MaxFiles
      /\ stored \subseteq Parts \X Bytes /\ calls \in [Calls -> Call]
      /\ RecordedWasStored
  BY <1>0 DEF UploadInv, UploadTypeOK
<1>2. CASE \E sent \in Sent : BeginPart(c, sent[1], sent[2])
  <2>0. PICK sent \in Sent : BeginPart(c, sent[1], sent[2])
    BY <1>2
  <2>1. PICK p \in Parts, b \in Bytes : BeginPart(c, p, b)
    BY <2>0, UploadAssumption
  <2>2. PICK q : q = [next |-> "store", status |-> upload.status,
                      parts |-> upload.parts, part |-> p, bytes |-> b]
    OBVIOUS
  <2>3. q \in Call
    BY <1>1, <2>2 DEF Call, UploadSession
  <2>4. CarriesStored(q)
    BY <1>1, <2>2 DEF CarriesStored, RecordedWasStored
  <2>5. calls' = [calls EXCEPT ![c] = q]
        /\ UNCHANGED <<upload, objects, whole, files, stored>>
    BY <2>1, <2>2 DEF BeginPart
  <2> QED BY <1>1, <2>3, <2>4, <2>5, MoveStep
<1>3. CASE StorePart(c)
  <2>1. PICK q : q = [q0 EXCEPT !.next = "record"]
    OBVIOUS
  <2>2. /\ q0.next = "store" /\ q0.part \in Parts /\ q0.bytes \in Bytes
        /\ q0.parts \in Etags
        /\ objects' = [objects EXCEPT ![q0.part] = q0.bytes]
        /\ stored' = stored \cup {<<q0.part, q0.bytes>>}
        /\ calls' = [calls EXCEPT ![c] = q]
        /\ UNCHANGED <<upload, whole, files>>
    BY <1>0, <1>1, <1>3, <2>1 DEF StorePart, Goes, Call
  <2>3. q \in Call /\ q.next = "record" /\ q.parts = q0.parts
        /\ q.part = q0.part /\ q.bytes = q0.bytes
    BY <1>1, <2>1 DEF Call
  <2>4. CarriesStored(q)'
    BY <1>1, <2>2, <2>3 DEF CarriesStored
  <2>5. RecordedWasStored' /\ objects' \in Etags
    BY <1>1, <2>2 DEF RecordedWasStored, Etags
  <2>6. stored \subseteq stored' /\ stored' \subseteq Parts \X Bytes
    BY <1>1, <2>2
  <2> QED BY <1>1, <2>2, <2>3, <2>4, <2>5, <2>6, CallStep
<1>4. CASE RecordPart(c)
  <2>1. PICK mine : mine = [q0.parts EXCEPT ![q0.part] = q0.bytes]
    OBVIOUS
  <2>2. /\ q0.next = "record"
        /\ upload' = [upload EXCEPT
             !.parts = IF mine = q0.parts THEN @ ELSE mine,
             !.status = IF q0.status = "created" THEN "uploading" ELSE @]
        /\ calls' = [calls EXCEPT ![c] = Idle]
        /\ UNCHANGED <<objects, whole, files, stored>>
    BY <1>0, <1>4, <2>1 DEF RecordPart, Ends
  <2>3. /\ q0.part \in Parts /\ q0.bytes \in Bytes /\ q0.parts \in Etags
    BY <1>1 DEF Call
  <2>4. mine \in Etags
        /\ \A p \in Parts : mine[p] # Nothing => <<p, mine[p]>> \in stored
    BY <1>1, <2>1, <2>2, <2>3 DEF CarriesStored, Etags
  <2>5. /\ upload'.parts \in {upload.parts, mine}
        /\ upload' \in UploadSession
    BY <1>1, <2>2, <2>4 DEF UploadSession, UploadStatus
  <2>6. RecordedWasStored'
    BY <1>1, <2>2, <2>4, <2>5 DEF RecordedWasStored
  <2>7. CarriesStored(Idle)'
    BY DEF CarriesStored, Idle
  <2> QED BY <1>1, <2>2, <2>5, <2>6, <2>7, IdleIsCall, CallStep
<1> QED BY <1>2, <1>3, <1>4

LEMMA CompletionSteps ==
  ASSUME UploadInv, NEW c \in Calls,
         \/ BeginComplete(c) \/ MarkVerifying(c) \/ Compose(c) \/ Verify(c)
         \/ Discard(c) \/ Fail(c) \/ Finish(c)
  PROVE  UploadInv'
<1>0. PICK q0 : q0 = calls[c]
  OBVIOUS
<1>1. /\ q0 \in Call /\ CarriesStored(q0) /\ upload \in UploadSession
      /\ objects \in Etags /\ whole \in [Parts -> Bytes] \cup {NoBytes}
      /\ files \in Seq(FileRow) /\ Len(files) <= MaxFiles
      /\ stored \subseteq Parts \X Bytes /\ calls \in [Calls -> Call]
      /\ RecordedWasStored
  BY <1>0 DEF UploadInv, UploadTypeOK
<1>2. NoBytes \in [Parts -> Bytes] \cup {NoBytes}
      /\ Declared \in [Parts -> Bytes]
  BY UploadAssumption
<1>3. ASSUME NEW next \in {"discard", "fail", "finish"}, Goes(c, next),
             whole' \in [Parts -> Bytes] \cup {NoBytes},
             UNCHANGED <<upload, objects, files, stored>>
      PROVE  UploadInv'
  <2>1. PICK q : q = [q0 EXCEPT !.next = next]
    OBVIOUS
  <2>2. calls' = [calls EXCEPT ![c] = q]
    BY <1>0, <1>1, <1>3, <2>1 DEF Goes
  <2>3. q \in Call /\ q.next = next
    BY <1>1, <2>1 DEF Call
  <2>4. CarriesStored(q)
    BY <2>3 DEF CarriesStored
  <2> QED BY <1>1, <1>3, <2>2, <2>3, <2>4, MoveStep
<1>4. CASE BeginComplete(c)
  <2>1. PICK q : q = [q0 EXCEPT !.next = "mark", !.status = upload.status,
                                !.parts = upload.parts]
    OBVIOUS
  <2>2. /\ calls' = [calls EXCEPT ![c] = q]
        /\ \A p \in Parts : upload.parts[p] # Nothing
        /\ UNCHANGED <<upload, objects, whole, files, stored>>
    BY <1>0, <1>1, <1>4, <2>1 DEF BeginComplete, Reads
  <2>3. q \in Call /\ q.next = "mark" /\ q.parts = upload.parts
    BY <1>1, <2>1 DEF Call, UploadSession
  <2>4. CarriesStored(q)
    BY <2>2, <2>3 DEF CarriesStored
  <2> QED BY <1>1, <2>2, <2>3, <2>4, MoveStep
<1>5. CASE MarkVerifying(c)
  <2>1. PICK q : q = [q0 EXCEPT !.next = "compose", !.status = "created"]
    OBVIOUS
  <2>2. /\ q0.next = "mark" /\ calls' = [calls EXCEPT ![c] = q]
        /\ upload' = [upload EXCEPT
             !.status = IF q0.status = "verifying" THEN @ ELSE "verifying"]
        /\ UNCHANGED <<objects, whole, files, stored>>
    BY <1>0, <1>1, <1>5, <2>1 DEF MarkVerifying
  <2>3. q \in Call /\ q.next = "compose" /\ q.parts = q0.parts
    BY <1>1, <2>1 DEF Call, UploadStatus
  <2>4. CarriesStored(q)
    BY <1>1, <2>2, <2>3 DEF CarriesStored
  <2>5. upload' \in UploadSession /\ upload'.parts = upload.parts
    BY <1>1, <2>2 DEF UploadSession, UploadStatus
  <2> QED BY <1>1, <2>2, <2>3, <2>4, <2>5, MoveStep
<1>6. CASE Compose(c)
  <2>1. whole' \in [Parts -> Bytes] \cup {NoBytes}
    BY <1>0, <1>1, <1>6 DEF Compose, CarriesStored, Etags
  <2>2. PICK next \in {"verify", "fail"} : Leaves(c, next)
    BY <1>6 DEF Compose
  <2>3. PICK q : q = [Idle EXCEPT !.next = next]
    OBVIOUS
  <2>4. calls' = [calls EXCEPT ![c] = q]
        /\ UNCHANGED <<upload, objects, files, stored>>
    BY <1>6, <2>2, <2>3 DEF Compose, Leaves
  <2> QED BY <1>1, <2>1, <2>3, <2>4, RestCarriesNothing, MoveStep
<1>7. CASE Verify(c)
  BY <1>1, <1>3, <1>7 DEF Verify
<1>9. CASE Discard(c)
  BY <1>1, <1>2, <1>3, <1>9 DEF Discard
<1>10. CASE Fail(c)
  <2>1. upload' \in UploadSession /\ upload'.parts = upload.parts
    BY <1>1, <1>10 DEF Fail, UploadSession, UploadStatus
  <2> QED BY <1>1, <1>10, <2>1, IdleIsCall, IdleCarriesNothing, MoveStep
      DEF Fail, Ends
<1>8. CASE Finish(c)
  <2>1. PICK f : f = [live |-> TRUE]
    OBVIOUS
  <2>2. PICK q : q = [Idle EXCEPT !.next = "cleanup"]
    OBVIOUS
  <2>3. /\ Len(files) < MaxFiles
        /\ files' = Append(files, f)
        /\ upload' = [upload EXCEPT !.status = "completed"]
        /\ calls' = [calls EXCEPT ![c] = q]
        /\ UNCHANGED <<objects, whole, stored>>
    BY <1>8, <2>1, <2>2 DEF Finish, Leaves
  <2>4. f \in FileRow
    BY <2>1 DEF FileRow
  <2>5. files' \in Seq(FileRow) /\ Len(files') <= MaxFiles
    BY <1>1, <2>3, <2>4, UploadAssumption
  <2>6. upload' \in UploadSession /\ RecordedWasStored'
    BY <1>1, <2>3 DEF UploadSession, UploadStatus, RecordedWasStored
  <2>7. q \in Call /\ CarriesStored(q)
    BY <2>2, RestCarriesNothing
  <2>8. CarriesStored(q)'
    BY <2>3, <2>7 DEF CarriesStored
  <2> QED BY <1>1, <2>3, <2>5, <2>6, <2>7, <2>8, CallStep
<1> QED BY <1>4, <1>5, <1>6, <1>7, <1>8, <1>9, <1>10

LEMMA OtherSteps ==
  ASSUME UploadInv, NEW c \in Calls,
         \/ NoticeExpiry(c) \/ Abandon(c) \/ BeginCancel(c) \/ EndCancel(c)
         \/ Cleanup(c) \/ RemoveObject(c)
         \/ \E i \in DOMAIN files : DeleteFile(c, i)
  PROVE  UploadInv'
<1>1. /\ upload \in UploadSession /\ objects \in Etags
      /\ whole \in [Parts -> Bytes] \cup {NoBytes}
      /\ files \in Seq(FileRow) /\ Len(files) <= MaxFiles
      /\ stored \subseteq Parts \X Bytes
      /\ RecordedWasStored
  BY DEF UploadInv, UploadTypeOK
<1>2. ASSUME Ends(c), upload' = upload, objects' \in Etags,
             whole' \in [Parts -> Bytes] \cup {NoBytes},
             UNCHANGED <<files, stored>>
      PROVE  UploadInv'
  BY <1>1, <1>2, IdleIsCall, IdleCarriesNothing, MoveStep DEF Ends
<1>3. ASSUME NEW next \in {"cleanup", "remove", "cancel"}, Leaves(c, next),
             upload' \in UploadSession, upload'.parts = upload.parts,
             UNCHANGED <<objects, whole, files, stored>>
      PROVE  UploadInv'
  BY <1>1, <1>3, RestCarriesNothing, MoveStep DEF Leaves
<1>4. ASSUME NEW status \in UploadStatus,
             upload' = [upload EXCEPT !.status = status]
      PROVE  upload' \in UploadSession /\ upload'.parts = upload.parts
  BY <1>1, <1>4 DEF UploadSession
<1>5. CASE NoticeExpiry(c)
  BY <1>3, <1>4, <1>5 DEF NoticeExpiry, UploadStatus
<1>6. CASE Abandon(c)
  BY <1>1, <1>2, <1>6 DEF Abandon
<1>7. CASE BeginCancel(c)
  <2>1. PICK r : r = [Idle EXCEPT !.next = "cancel"]
    OBVIOUS
  <2>2. PICK q : q = [r EXCEPT !.status = upload.status]
    OBVIOUS
  <2>3. r \in Call /\ r.next = "cancel"
    BY <2>1, IdleIsCall DEF Call
  <2>4. q \in Call /\ q.next = "cancel"
    BY <1>1, <2>2, <2>3 DEF Call, UploadSession
  <2>5. CarriesStored(q)
    BY <2>4 DEF CarriesStored
  <2>6. calls' = [calls EXCEPT ![c] = q]
        /\ UNCHANGED <<upload, objects, whole, files, stored>>
    BY <1>7, <2>1, <2>2 DEF BeginCancel
  <2> QED BY <1>1, <2>4, <2>5, <2>6, MoveStep
<1>8. CASE EndCancel(c)
  <2>1. upload' \in UploadSession /\ upload'.parts = upload.parts
    BY <1>1, <1>8 DEF EndCancel, UploadSession, UploadStatus
  <2> QED BY <1>3, <1>8, <2>1 DEF EndCancel
<1>9. CASE Cleanup(c)
  <2>1. objects' \in Etags
    BY <1>1, <1>9 DEF Cleanup, Etags
  <2> QED BY <1>1, <1>2, <1>9, <2>1 DEF Cleanup
<1>10. CASE RemoveObject(c)
  <2>1. whole' \in [Parts -> Bytes] \cup {NoBytes}
    BY <1>1, <1>10 DEF RemoveObject
  <2> QED BY <1>1, <1>2, <1>10, <2>1 DEF RemoveObject
<1>11. CASE \E i \in DOMAIN files : DeleteFile(c, i)
  <2>1. PICK i \in DOMAIN files : DeleteFile(c, i)
    BY <1>11
  <2>2. PICK q : q = [Idle EXCEPT !.next = "remove"]
    OBVIOUS
  <2>3. /\ files' = [files EXCEPT ![i].live = FALSE]
        /\ calls' = [calls EXCEPT ![c] = q]
        /\ UNCHANGED <<upload, objects, whole, stored>>
    BY <2>1, <2>2 DEF DeleteFile, Leaves
  <2>4. q \in Call /\ CarriesStored(q)
    BY <2>2, RestCarriesNothing
  <2>5. PICK f : f = [files[i] EXCEPT !.live = FALSE]
    OBVIOUS
  <2>6. files[i] \in FileRow /\ f \in FileRow
    <3>1. i \in 1..Len(files) /\ files[i] \in FileRow
      BY <1>1
    <3> HIDE DEF FileRow
    <3>2. files[i] \in [live : BOOLEAN]
      BY <3>1 DEF FileRow
    <3> QED BY <2>5, <3>1, <3>2 DEF FileRow
  <2>7. files' = [files EXCEPT ![i] = f]
    BY <2>3, <2>5
  <2>8. files' \in Seq(FileRow) /\ Len(files') = Len(files)
        /\ DOMAIN files' = DOMAIN files
    BY <1>1, <2>6, <2>7
  <2>10. RecordedWasStored' /\ CarriesStored(q)'
    BY <1>1, <2>3, <2>4 DEF RecordedWasStored, CarriesStored
  <2> QED BY <1>1, <2>3, <2>4, <2>8, <2>10, CallStep
<1> QED BY <1>5, <1>6, <1>7, <1>8, <1>9, <1>10, <1>11

LEMMA UploadStep == UploadInv /\ [UploadNext]_uploadVars => UploadInv'
<1> SUFFICES ASSUME UploadInv, [UploadNext]_uploadVars PROVE UploadInv'
  OBVIOUS
<1>1. ASSUME UNCHANGED <<objects, whole, files, calls, stored>>,
             upload' \in UploadSession, upload'.parts = upload.parts
      PROVE  UploadInv'
  BY <1>1 DEF UploadInv, UploadTypeOK, RecordedWasStored, CarriesStored
<1>2. CASE Expire
  BY <1>1, <1>2 DEF Expire, UploadInv, UploadTypeOK, UploadSession
<1>3. CASE UNCHANGED uploadVars
  BY <1>1, <1>3 DEF uploadVars, UploadInv, UploadTypeOK
<1> QED BY <1>2, <1>3, PartSteps, CompletionSteps, OtherSteps DEF UploadNext

(* Every variable keeps its type, and an ETag is recorded only of a part    *)
(* that was stored (FileService.record_uploaded_part): however requests of  *)
(* one session overlap, are abandoned and clean up.                        *)
THEOREM UploadsCorrect ==
  UploadSpec => [](UploadTypeOK /\ RecordedWasStored)
<1>1. UploadInv => UploadTypeOK /\ RecordedWasStored
  BY DEF UploadInv
<1> QED BY <1>1, UploadStart, UploadStep, PTL DEF UploadSpec

-----------------------------------------------------------------------------
(* Invites and sessions of the supplier portal: whatever old entity a       *)
(* request saves, an invite code is worth one session at a time, and the    *)
(* tokens of a session live and die together.                               *)


(* The values the actions build have their types.                          *)
LEMMA Values ==
  /\ Unborn \in Session
  /\ \A c \in Codes : FreshInvite(c) \in Invite
  /\ \A v \in Invite : ExpireInvite(v) \in Invite
  /\ \A c \in Codes \cup {None}, s \in Suppliers \cup {None} :
       NewSession(c, s) \in Session
  /\ \A x \in Session, token \in {"access", "refresh"} :
       Ended(x) \in Session /\ LogoutBy(x, token) \in Session
<1>1. Unborn \in Session /\ \A c \in Codes : FreshInvite(c) \in Invite
  BY DEF Unborn, Session, FreshInvite, Invite
<1>2. \A v \in Invite : ExpireInvite(v) \in Invite
  BY DEF Invite, ExpireInvite
<1>3. \A c \in Codes \cup {None}, s \in Suppliers \cup {None} :
        NewSession(c, s) \in Session
  BY DEF Session, NewSession
<1>4. \A x \in Session : Ended(x) \in Session
  BY DEF Session, Ended
<1>5. \A x \in Session, token \in {"access", "refresh"} : LogoutBy(x, token) \in Session
  BY <1>4 DEF Session, LogoutBy
<1> QED BY <1>1, <1>2, <1>3, <1>4, <1>5

(* An invite whose code is taken from the entity. *)
LEMMA InviteLeft ==
  ASSUME entity \in Entity, NEW s \in Suppliers,
         NEW st \in {"active", "used", "revoked", "expired"}
  PROVE  [entity EXCEPT !.invite[s].status = st, !.invite[s].code = None]
           \in Entity
<1> DEFINE first == [entity EXCEPT !.invite[s].status = st]
<1>1. entity.invite[s] \in Invite
  BY DEF Entity
<1>2. first \in Entity
  BY <1>1 DEF Entity, Invite
<1>3. first.invite[s] \in Invite
  BY <1>2 DEF Entity
<1> HIDE DEF first
<1>4. [first EXCEPT !.invite[s].code = None] \in Entity
  BY <1>2, <1>3 DEF Entity, Invite
<1> QED BY <1>4 DEF first

LEMMA TypeStep == TypeOK /\ [Next]_vars => TypeOK'
<1> SUFFICES ASSUME TypeOK, [Next]_vars PROVE TypeOK'
  OBVIOUS
<1> USE DEF TypeOK
<1>0. \A s \in Suppliers : entity.invite[s] \in Invite
  BY DEF Entity
<1>u. \A c : Unindex(c) \in [Codes -> Suppliers \cup {None}]
  BY DEF Unindex
<1>1. CASE Publish
  <2>1. PICK new \in [Suppliers -> Codes \ issued] :
         /\ entity' = [stage  |-> "open",
                       invite |-> [s \in Suppliers |-> FreshInvite(new[s])]]
         /\ index' = [c \in Codes |-> IF \E s \in Suppliers : new[s] = c
                                        THEN CHOOSE s \in Suppliers : new[s] = c
                                        ELSE index[c]]
         /\ issued' = issued \cup {new[s] : s \in Suppliers}
    BY <1>1 DEF Publish
  <2>2. entity' \in Entity
    BY <2>1, Values DEF Entity, Stage
  <2>3. index' \in [Codes -> Suppliers \cup {None}]
    <3>1. \A c \in Codes : index'[c] \in Suppliers \cup {None}
      BY <2>1
    <3> QED BY <2>1, <3>1
  <2> QED BY <1>1, <2>1, <2>2, <2>3 DEF Publish
<1>2. ASSUME NEW s \in Suppliers, NEW c \in Codes, Rotate(s, c) PROVE TypeOK'
  <2>1. entity' \in Entity
    BY <1>2, <1>0, Values DEF Rotate, Entity
  <2> QED BY <1>2, <1>u, <2>1 DEF Rotate
<1>3. ASSUME NEW s \in Suppliers, Revoke(s) PROVE TypeOK'
  <2>1. entity' \in Entity
    BY <1>3, InviteLeft DEF Revoke
  <2> QED BY <1>3, <1>u, <2>1 DEF Revoke
<1>4. CASE Close
  BY <1>4, <1>0, Values DEF Close, Entity, Stage
<1>5. CASE Cancel
  BY <1>5 DEF Cancel, Entity, Stage
<1>6. ASSUME NEW c \in Codes, NEW i \in Sessions, Exchange(c, i) PROVE TypeOK'
  <2>1. index[c] \in Suppliers
    BY <1>6 DEF Exchange, MayExchange
  <2>2. entity' \in Entity
    BY <1>6, <2>1, InviteLeft DEF Exchange
  <2>3. sessions' \in [Sessions -> Session]
    BY <1>6, <2>1, Values DEF Exchange
  <2> QED BY <1>6, <2>2, <2>3 DEF Exchange
<1>7. ASSUME NEW c \in Codes, ExchangeTooLate(c) PROVE TypeOK'
  <2>1. index[c] \in Suppliers
    BY <1>7 DEF ExchangeTooLate, MayExchange
  <2>2. entity' \in Entity
    <3> DEFINE s == index[c]
    <3>1. entity.invite[s] \in Invite
      BY <1>0, <2>1 DEF Entity
    <3>2. [entity.invite[s] EXCEPT !.status = "expired"] \in Invite
      BY <3>1 DEF Invite
    <3>3. entity' = [entity EXCEPT
                       !.invite[s] = [entity.invite[s] EXCEPT !.status = "expired"]]
      BY <1>7 DEF ExchangeTooLate
    <3>4. [entity.invite EXCEPT ![s] = [entity.invite[s] EXCEPT !.status = "expired"]]
            \in [Suppliers -> Invite]
      BY <1>0, <2>1, <3>2 DEF Entity
    <3> HIDE DEF s
    <3> QED BY <1>0, <3>3, <3>4 DEF Entity
  <2> QED BY <1>7, <2>2 DEF ExchangeTooLate
<1>8. ASSUME NEW i \in Sessions, NEW j \in Sessions, Refresh(i, j)
      PROVE  TypeOK'
  <2>1. /\ sessions[i] \in Session
        /\ sessions[i].from \in Codes \cup {None}
        /\ sessions[i].who \in Suppliers \cup {None}
    BY DEF Session
  <2>2. /\ Ended(sessions[i]) \in Session
        /\ NewSession(sessions[i].from, sessions[i].who) \in Session
    BY <2>1, Values
  <2> QED BY <1>8, <2>2 DEF Refresh
<1>9. ASSUME NEW i, NEW j, Logout(i, j) PROVE TypeOK'
  <2>1. \A x \in Sessions : sessions'[x] \in Session
    BY <1>9, Values DEF Logout
  <2>2. sessions' \in [Sessions -> Session]
    BY <1>9, <2>1 DEF Logout
  <2> QED BY <1>9, <2>2 DEF Logout
<1>10. ASSUME NEW c \in Codes, InviteLapses(c) PROVE TypeOK'
  BY <1>10 DEF InviteLapses
<1>11. ASSUME NEW i \in Sessions, SessionAges(i) PROVE TypeOK'
  BY <1>11 DEF SessionAges, Session
<1>12. ASSUME NEW r \in Requests, NEW i \in Sessions, BeginPortal(r, i)
       PROVE  TypeOK'
  BY <1>12 DEF BeginPortal
<1>13. ASSUME NEW r \in Requests, FinishPortal(r) PROVE TypeOK'
  BY <1>13 DEF FinishPortal
<1>14. ASSUME NEW r \in Requests, FailPortal(r) PROVE TypeOK'
  BY <1>14 DEF FailPortal
<1>15. CASE UNCHANGED vars
  BY <1>15 DEF vars
<1> QED
  BY <1>1, <1>2, <1>3, <1>4, <1>5, <1>6, <1>7, <1>8, <1>9, <1>10, <1>11, <1>12,
     <1>13, <1>14, <1>15
  DEF Next

(* What logging out leaves of a session. *)
LEMMA LogoutEnds ==
  ASSUME NEW x \in Session, NEW token
  PROVE  LET y == LogoutBy(x, token) IN
         /\ y.from = x.from /\ y.age = x.age
         /\ y.access => x.access
         /\ y.refresh => x.refresh
         /\ x.revoked => y.revoked
         /\ (~x.revoked <=> x.refresh) => (~y.revoked <=> y.refresh)
         /\ (~x.revoked => x.access) => (~y.revoked => y.access)
  BY DEF LogoutBy, Ended, Session

(* Sessions that only lose tokens keep the invariant. *)
LEMMA SessionsFrame ==
  ASSUME SessionsInv, TypeOK', issued \subseteq issued',
         \A c \in Codes : index'[c] # None =>
           \/ index[c] # None
           \/ c \in issued' \ issued,
         \A i \in Sessions :
           /\ sessions'[i].from = sessions[i].from
           /\ sessions'[i].access => sessions[i].access
           /\ sessions'[i].refresh => sessions[i].refresh
           /\ sessions[i].revoked => sessions'[i].revoked
           /\ sessions[i].age <= sessions'[i].age
           /\ ~IsNew(i) => /\ ~sessions'[i].revoked <=> sessions'[i].refresh
                           /\ ~sessions'[i].revoked => sessions'[i].access
  PROVE  SessionsInv'
<1>1. \A i \in Sessions : /\ IsNew(i)' <=> IsNew(i)
                          /\ Lives(i)' => Lives(i)
  <2> SUFFICES ASSUME NEW i \in Sessions
               PROVE  (IsNew(i)' <=> IsNew(i)) /\ (Lives(i)' => Lives(i))
    OBVIOUS
  <2>1. sessions[i].age \in 0..2 /\ sessions'[i].age \in 0..2
    BY DEF SessionsInv, TypeOK, Session
  <2>2. /\ sessions[i].revoked \in BOOLEAN
        /\ sessions'[i].revoked \in BOOLEAN
    BY DEF SessionsInv, TypeOK, Session
  <2>3. /\ sessions'[i].age = 0 => sessions[i].age = 0
        /\ sessions'[i].age < 2 => sessions[i].age < 2
    BY <2>1
  <2>4. Lives(i)' => Lives(i)
    BY <2>2, <2>3 DEF Lives, AccessWorks, RefreshWorks
  <2> QED BY <2>4 DEF IsNew
<1>2. CodesAndSessions'
  BY <1>1 DEF SessionsInv, CodesAndSessions, TypeOK, IsNew
<1>3. OneSessionPerCode'
  <2>1. \A i, j \in Sessions :
          Lives(i)' /\ Lives(j)' /\ sessions'[i].from = sessions'[j].from
            => i = j
    BY <1>1 DEF SessionsInv, OneSessionPerCode
  <2>2. \A c \in Codes, i \in Sessions :
          index'[c] # None => sessions'[i].from # c
    <3> SUFFICES ASSUME NEW c \in Codes, NEW i \in Sessions, index'[c] # None,
                        sessions'[i].from = c
                 PROVE  FALSE
      OBVIOUS
    <3>1. sessions[i].from = c /\ ~IsNew(i)
      BY NoneAssumption DEF IsNew
    <3>2. c \in issued
      BY <3>1 DEF SessionsInv, CodesAndSessions
    <3>3. index[c] # None
      BY <3>2
    <3> QED BY <3>1, <3>3 DEF SessionsInv, OneSessionPerCode
  <2> QED BY <2>1, <2>2 DEF OneSessionPerCode, Lives, AccessWorks, RefreshWorks
<1>4. TokensTogether'
  BY <1>1 DEF TokensTogether, IsNew
<1> QED BY <1>2, <1>3, <1>4 DEF SessionsInv

(* Steps that leave the sessions alone. *)
LEMMA CodesFrame ==
  ASSUME SessionsInv, TypeOK', UNCHANGED sessions, issued \subseteq issued',
         \A c \in Codes : index'[c] # None =>
           \/ index[c] # None
           \/ c \in issued' \ issued
  PROVE  SessionsInv'
<1>1. \A i \in Sessions :
        /\ sessions[i].age <= sessions'[i].age
        /\ ~IsNew(i) => /\ ~sessions'[i].revoked <=> sessions'[i].refresh
                        /\ ~sessions'[i].revoked => sessions'[i].access
  BY DEF SessionsInv, TokensTogether, TypeOK, Session
<1> QED BY <1>1, SessionsFrame

LEMMA InvStep == SessionsInv /\ [Next]_vars => SessionsInv'
<1> SUFFICES ASSUME SessionsInv, [Next]_vars PROVE SessionsInv'
  OBVIOUS
<1>t. TypeOK /\ TypeOK'
  BY TypeStep DEF SessionsInv
<1>u. \A d : \A c \in Codes : Unindex(d)[c] # None => index[c] # None
  BY <1>t DEF Unindex, TypeOK
<1>1. CASE Publish
  <2>1. \A c \in Codes : index'[c] # None =>
           \/ index[c] # None
           \/ c \in issued' \ issued
    BY <1>1 DEF Publish
  <2> QED BY <1>1, <1>t, <2>1, CodesFrame DEF Publish
<1>2. ASSUME NEW s \in Suppliers, NEW c \in Codes, Rotate(s, c)
      PROVE  SessionsInv'
  <2>1. \A d \in Codes : index'[d] # None =>
           \/ index[d] # None
           \/ d \in issued' \ issued
    BY <1>2, <1>u, <1>t DEF Rotate, TypeOK, Unindex
  <2> QED BY <1>2, <1>t, <2>1, CodesFrame DEF Rotate
<1>3. ASSUME NEW s \in Suppliers, Revoke(s) PROVE SessionsInv'
  BY <1>3, <1>t, <1>u, CodesFrame DEF Revoke
<1>4. CASE Close
  BY <1>4, <1>t, CodesFrame DEF Close
<1>5. CASE Cancel
  BY <1>5, <1>t, CodesFrame DEF Cancel
<1>6. ASSUME NEW c \in Codes, NEW i \in Sessions, Exchange(c, i)
      PROVE  SessionsInv'
  <2> DEFINE s == index[c]
  <2>1. /\ sessions' = [sessions EXCEPT ![i] = NewSession(c, s)]
        /\ index' = [index EXCEPT ![c] = None]
        /\ UNCHANGED issued
        /\ index[c] # None
        /\ IsNew(i)
    BY <1>6 DEF Exchange, MayExchange
  <2>2. /\ \A x \in Sessions \ {i} : sessions'[x] = sessions[x]
        /\ sessions'[i] = NewSession(c, s)
        /\ index'[c] = None
        /\ \A d \in Codes \ {c} : index'[d] = index[d]
    BY <2>1, <1>t DEF TypeOK
  <2>3. c # None /\ c \in issued
    BY <2>1, NoneAssumption DEF SessionsInv, CodesAndSessions
  <2>4. \A x \in Sessions : sessions[x].from # c
    BY <2>1 DEF SessionsInv, OneSessionPerCode
  <2>5. CodesAndSessions'
    BY <2>1, <2>2, <2>3 DEF SessionsInv, CodesAndSessions, IsNew, NewSession
  <2>6. OneSessionPerCode'
    BY <2>2, <2>3, <2>4 DEF SessionsInv, OneSessionPerCode, NewSession, Lives,
       AccessWorks, RefreshWorks
  <2>7. TokensTogether'
    BY <2>2 DEF SessionsInv, TokensTogether, IsNew, NewSession
  <2> QED BY <1>t, <2>5, <2>6, <2>7 DEF SessionsInv
<1>7. ASSUME NEW c \in Codes, ExchangeTooLate(c) PROVE SessionsInv'
  BY <1>7, <1>t, CodesFrame DEF ExchangeTooLate
<1>8. ASSUME NEW i \in Sessions, NEW j \in Sessions, i # j, Refresh(i, j)
      PROVE  SessionsInv'
  <2>1. /\ \A x \in Sessions \ {i, j} : sessions'[x] = sessions[x]
        /\ sessions'[i] = Ended(sessions[i])
        /\ sessions'[j] = NewSession(sessions[i].from, sessions[i].who)
        /\ UNCHANGED <<index, issued>>
        /\ IsNew(j)
        /\ Lives(i)
        /\ ~IsNew(i)
    BY <1>8, <1>t DEF Refresh, TypeOK, Lives, RefreshWorks, SessionsInv,
       CodesAndSessions
  <2>2. /\ sessions'[i].from = sessions[i].from
        /\ sessions'[i].revoked /\ ~sessions'[i].access /\ ~sessions'[i].refresh
    BY <2>1, <1>t DEF Ended, TypeOK, Session
  <2>3. ~Lives(i)'
    BY <2>2 DEF Lives, AccessWorks, RefreshWorks
  <2>4. CodesAndSessions'
    BY <2>1, <2>2 DEF SessionsInv, CodesAndSessions, IsNew, NewSession
  <2>5. OneSessionPerCode'
    <3>1. \A x \in Sessions \ {i, j} : Lives(x)' => Lives(x)
      BY <2>1 DEF Lives, AccessWorks, RefreshWorks
    <3>2. \A x, y \in Sessions :
            Lives(x)' /\ Lives(y)' /\ sessions'[x].from = sessions'[y].from
              => x = y
      BY <2>1, <2>3, <3>1 DEF SessionsInv, OneSessionPerCode, NewSession
    <3>3. \A c \in Codes, x \in Sessions :
            index'[c] # None => sessions'[x].from # c
      BY <2>1, <2>2 DEF SessionsInv, OneSessionPerCode, NewSession
    <3> QED BY <3>2, <3>3 DEF OneSessionPerCode, Lives, AccessWorks, RefreshWorks
  <2>6. TokensTogether'
    BY <2>1, <2>2 DEF SessionsInv, TokensTogether, IsNew, NewSession
  <2> QED BY <1>t, <2>4, <2>5, <2>6 DEF SessionsInv
<1>9. ASSUME NEW i, NEW j, Logout(i, j) PROVE SessionsInv'
  <2>1. \A x \in Sessions :
          /\ sessions'[x].from = sessions[x].from
          /\ sessions'[x].access => sessions[x].access
          /\ sessions'[x].refresh => sessions[x].refresh
          /\ sessions[x].revoked => sessions'[x].revoked
          /\ sessions[x].age <= sessions'[x].age
          /\ ~IsNew(x) => /\ ~sessions'[x].revoked <=> sessions'[x].refresh
                          /\ ~sessions'[x].revoked => sessions'[x].access
    <3> SUFFICES ASSUME NEW x \in Sessions
                 PROVE  /\ sessions'[x].from = sessions[x].from
                        /\ sessions'[x].access => sessions[x].access
                        /\ sessions'[x].refresh => sessions[x].refresh
                        /\ sessions[x].revoked => sessions'[x].revoked
                        /\ sessions[x].age <= sessions'[x].age
                        /\ ~IsNew(x) =>
                             /\ ~sessions'[x].revoked <=> sessions'[x].refresh
                             /\ ~sessions'[x].revoked => sessions'[x].access
      OBVIOUS
    <3> DEFINE y == IF x = i THEN LogoutBy(sessions[x], "access")
                             ELSE sessions[x]
               z == IF x = j THEN LogoutBy(y, "refresh") ELSE y
    <3>1. sessions[x] \in Session /\ y \in Session
      BY <1>t, Values DEF TypeOK
    <3>2. sessions'[x] = z
      BY <1>9 DEF Logout
    <3>3. /\ y.from = sessions[x].from /\ y.age = sessions[x].age
          /\ y.access => sessions[x].access
          /\ y.refresh => sessions[x].refresh
          /\ sessions[x].revoked => y.revoked
          /\ ~IsNew(x) => /\ ~y.revoked <=> y.refresh
                          /\ ~y.revoked => y.access
      BY <3>1, LogoutEnds DEF SessionsInv, TokensTogether
    <3>4. /\ z.from = y.from /\ z.age = y.age
          /\ z.access => y.access
          /\ z.refresh => y.refresh
          /\ y.revoked => z.revoked
          /\ ~IsNew(x) => /\ ~z.revoked <=> z.refresh
                          /\ ~z.revoked => z.access
      BY <3>1, <3>3, LogoutEnds
    <3>5. sessions[x].age <= sessions[x].age
      BY <3>1 DEF Session
    <3> HIDE DEF y, z
    <3> QED BY <3>2, <3>3, <3>4, <3>5
  <2> QED BY <1>9, <1>t, <2>1, SessionsFrame DEF Logout
<1>10. ASSUME NEW c \in Codes, InviteLapses(c) PROVE SessionsInv'
  BY <1>10, <1>t, CodesFrame DEF InviteLapses
<1>11. ASSUME NEW i \in Sessions, SessionAges(i) PROVE SessionsInv'
  <2>1. \A x \in Sessions :
          /\ sessions'[x].from = sessions[x].from
          /\ sessions'[x].access = sessions[x].access
          /\ sessions'[x].refresh = sessions[x].refresh
          /\ sessions'[x].revoked = sessions[x].revoked
          /\ sessions[x].age <= sessions'[x].age
    BY <1>11, <1>t DEF SessionAges, TypeOK, Session
  <2>2. \A x \in Sessions :
          ~IsNew(x) => /\ ~sessions'[x].revoked <=> sessions'[x].refresh
                       /\ ~sessions'[x].revoked => sessions'[x].access
    BY <2>1 DEF SessionsInv, TokensTogether
  <2> QED BY <1>11, <1>t, <2>1, <2>2, SessionsFrame DEF SessionAges
<1>12. ASSUME NEW r \in Requests, NEW i \in Sessions, BeginPortal(r, i)
       PROVE  SessionsInv'
  BY <1>12, <1>t, CodesFrame DEF BeginPortal
<1>13. ASSUME NEW r \in Requests, FinishPortal(r) PROVE SessionsInv'
  BY <1>13, <1>t, CodesFrame DEF FinishPortal
<1>14. ASSUME NEW r \in Requests, FailPortal(r) PROVE SessionsInv'
  BY <1>14, <1>t, CodesFrame DEF FailPortal
<1>15. CASE UNCHANGED vars
  BY <1>15, <1>t, CodesFrame DEF vars
<1> QED
  BY <1>1, <1>2, <1>3, <1>4, <1>5, <1>6, <1>7, <1>8, <1>9, <1>10, <1>11, <1>12,
     <1>13, <1>14, <1>15
  DEF Next

LEMMA InvInit == Init => SessionsInv
<1> SUFFICES ASSUME Init PROVE SessionsInv
  OBVIOUS
<1>1. entity \in Entity
  BY DEF Init, Entity, Invite, Stage
<1>2. TypeOK
  BY <1>1, Values DEF Init, TypeOK
<1>3. CodesAndSessions /\ OneSessionPerCode /\ TokensTogether
  BY DEF Init, CodesAndSessions, OneSessionPerCode, TokensTogether, Unborn, IsNew,
     Lives, AccessWorks, RefreshWorks
<1> QED BY <1>2, <1>3 DEF SessionsInv

(* The inductive invariant of exchange, refresh and logout holds in every  *)
(* state.                                                                  *)
THEOREM SessionsInvariant == Spec => []SessionsInv
<1> QED BY InvInit, InvStep, PTL DEF Spec

(* An invite code is worth one living session, and an indexed code has     *)
(* opened none.                                                            *)
THEOREM OneSession == Spec => []OneSessionPerCode
<1>1. SessionsInv => OneSessionPerCode
  BY DEF SessionsInv
<1> QED BY <1>1, SessionsInvariant, PTL

(* The two tokens of a session live and die together. *)
THEOREM WholeSessions == Spec => []TokensTogether
<1>1. SessionsInv => TokensTogether
  BY DEF SessionsInv
<1> QED BY <1>1, SessionsInvariant, PTL

=============================================================================
