--------------------------- MODULE PortalSessions ---------------------------
(***************************************************************************)
(* How a supplier gets into the portal of one evaluation: invite codes,    *)
(* which staff issue, rotate and revoke, are exchanged once for a session, *)
(* whose tokens are then refreshed or given up.                            *)
(*                                                                         *)
(* What the entity says of an invite (its status, its current code, the    *)
(* expiry of the last code) is part of the evaluation, which a portal      *)
(* request may save as it was before its await (see module Evaluation).    *)
(* The index from code to supplier, the sessions and the two token indexes *)
(* are not: they always hold what the last operation left in them.         *)
(***************************************************************************)
EXTENDS Naturals, FiniteSets

CONSTANTS
  Suppliers,   \* the suppliers of the evaluation
  Codes,       \* invite codes that can be generated (bound)
  Sessions,    \* sessions that can be created (bound)
  Requests,    \* portal requests that can be suspended at a time (bound)
  None

ASSUME NoneAssumption == None \notin Suppliers \cup Codes \cup Sessions

VARIABLES
  entity,     \* the stored evaluation: its stage and its suppliers' invites
  index,      \* store.invite_hash_index: code -> supplier
  issued,     \* codes generated so far
  lapsed,     \* codes whose fourteen days are over
  sessions,   \* store.sessions, and what the token indexes hold of them
  copies      \* suspended portal requests -> the entity they will save

vars == <<entity, index, issued, lapsed, sessions, copies>>

(* Open stands for every status from collecting to completed. *)
Stage == {"draft", "open", "closed", "cancelled"}

(* code: invite_code_hash; until: the code invite_expires_at was set for.  *)
Invite == [status : {"active", "used", "revoked", "expired"},
           code   : Codes \cup {None},
           until  : Codes \cup {None}]

Entity == [stage : Stage, invite : [Suppliers -> Invite]]

(* A session: the code and the supplier it goes back to, the revoked flag, *)
(* whether its tokens are still indexed, and its age: 1 when the access    *)
(* token has expired (30 minutes), 2 when the refresh token has (7 days).  *)
Session == [from    : Codes \cup {None},
            who     : Suppliers \cup {None},
            revoked : BOOLEAN,
            access  : BOOLEAN,
            refresh : BOOLEAN,
            age     : 0..2]

Unborn == [from |-> None, who |-> None, revoked |-> FALSE,
           access |-> FALSE, refresh |-> FALSE, age |-> 0]

NewSession(c, s) == [from |-> c, who |-> s, revoked |-> FALSE,
                     access |-> TRUE, refresh |-> TRUE, age |-> 0]

TypeOK ==
  /\ entity \in Entity
  /\ index \in [Codes -> Suppliers \cup {None}]
  /\ issued \subseteq Codes
  /\ lapsed \subseteq issued
  /\ sessions \in [Sessions -> Session]
  /\ copies \in [Requests -> Entity \cup {None}]

Init ==
  /\ entity = [stage  |-> "draft",
               invite |-> [s \in Suppliers |-> [status |-> "active",
                                                code   |-> None,
                                                until  |-> None]]]
  /\ index = [c \in Codes |-> None]
  /\ issued = {}
  /\ lapsed = {}
  /\ sessions = [i \in Sessions |-> Unborn]
  /\ copies = [r \in Requests |-> None]

-----------------------------------------------------------------------------
(* Staff                                                                   *)

FreshInvite(c) == [status |-> "active", code |-> c, until |-> c]

(* publish: a new code for every supplier. A code that rotate_invite       *)
(* issued for the draft stays in the index.                                *)
Publish ==
  /\ entity.stage = "draft"
  /\ \E new \in [Suppliers -> Codes \ issued] :
       /\ \A s, t \in Suppliers : s # t => new[s] # new[t]
       /\ entity' = [stage  |-> "open",
                     invite |-> [s \in Suppliers |-> FreshInvite(new[s])]]
       /\ index' = [c \in Codes |-> IF \E s \in Suppliers : new[s] = c
                                      THEN CHOOSE s \in Suppliers : new[s] = c
                                      ELSE index[c]]
       /\ issued' = issued \cup {new[s] : s \in Suppliers}
  /\ UNCHANGED <<lapsed, sessions, copies>>

(* invite_hash_index.pop of the code the entity names, if it names one. *)
Unindex(c) == IF c = None THEN index ELSE [index EXCEPT ![c] = None]

(* rotate_invite, whatever the stage of the evaluation. *)
Rotate(s, c) ==
  /\ c \notin issued
  /\ issued' = issued \cup {c}
  /\ index' = [Unindex(entity.invite[s].code) EXCEPT ![c] = s]
  /\ entity' = [entity EXCEPT !.invite[s] = FreshInvite(c)]
  /\ UNCHANGED <<lapsed, sessions, copies>>

(* revoke_invite *)
Revoke(s) ==
  /\ index' = Unindex(entity.invite[s].code)
  /\ entity' = [entity EXCEPT !.invite[s].status = "revoked",
                              !.invite[s].code = None]
  /\ UNCHANGED <<issued, lapsed, sessions, copies>>

ExpireInvite(v) == IF v.status = "active" THEN [v EXCEPT !.status = "expired"]
                                          ELSE v

(* EvaluationService.close *)
Close ==
  /\ entity.stage = "open"
  /\ entity' = [stage  |-> "closed",
                invite |-> [s \in Suppliers |-> ExpireInvite(entity.invite[s])]]
  /\ UNCHANGED <<index, issued, lapsed, sessions, copies>>

(* EvaluationService.cancel *)
Cancel ==
  /\ entity.stage \in {"draft", "open"}
  /\ entity' = [entity EXCEPT !.stage = "cancelled"]
  /\ UNCHANGED <<index, issued, lapsed, sessions, copies>>

-----------------------------------------------------------------------------
(* Portal sessions                                                         *)

IsNew(i) == sessions[i].from = None

Lapsed(v) == v.until \in lapsed

(* exchange, up to the check of the expiry: the code is indexed, the       *)
(* evaluation not over, the invite neither revoked nor expired.            *)
MayExchange(c) ==
  /\ index[c] # None
  /\ entity.stage \notin {"closed", "cancelled"}
  /\ entity.invite[index[c]].status \notin {"revoked", "expired"}

(* Mutant of Exchange: the code stays in the index. *)
ExchangeKeepsCode(c, i) ==
  LET s == index[c] IN
  /\ MayExchange(c)
  /\ ~Lapsed(entity.invite[s])
  /\ entity.invite[s].status = "active"
  /\ IsNew(i)
  /\ sessions' = [sessions EXCEPT ![i] = NewSession(c, s)]
  /\ entity' = [entity EXCEPT !.invite[s].status = "used",
                              !.invite[s].code = None]
  /\ UNCHANGED <<index, issued, lapsed, copies>>

Exchange(c, i) ==
  LET s == index[c] IN
  /\ MayExchange(c)
  /\ ~Lapsed(entity.invite[s])
  /\ entity.invite[s].status = "active"
  /\ IsNew(i)
  /\ sessions' = [sessions EXCEPT ![i] = NewSession(c, s)]
  /\ index' = [index EXCEPT ![c] = None]
  /\ entity' = [entity EXCEPT !.invite[s].status = "used",
                              !.invite[s].code = None]
  /\ UNCHANGED <<issued, lapsed, copies>>

(* An exchange after the fourteen days marks the invite, used or not. *)
ExchangeTooLate(c) ==
  LET s == index[c] IN
  /\ MayExchange(c)
  /\ Lapsed(entity.invite[s])
  /\ entity' = [entity EXCEPT !.invite[s].status = "expired"]
  /\ UNCHANGED <<index, issued, lapsed, sessions, copies>>

(* resolve_principal: an access token that is indexed, of a session that   *)
(* is not revoked, within its 30 minutes. The evaluation is not asked.     *)
AccessWorks(i) == sessions[i].access /\ ~sessions[i].revoked /\ sessions[i].age = 0

RefreshWorks(i) == sessions[i].refresh /\ ~sessions[i].revoked /\ sessions[i].age < 2

Ended(x) == [x EXCEPT !.revoked = TRUE, !.access = FALSE, !.refresh = FALSE]

(* Mutant of Refresh: the old session is not revoked. *)
RefreshKeepsOld(i, j) ==
  /\ RefreshWorks(i)
  /\ IsNew(j)
  /\ sessions' = [sessions EXCEPT
                    ![j] = NewSession(sessions[i].from, sessions[i].who)]
  /\ UNCHANGED <<entity, index, issued, lapsed, copies>>

(* refresh: the old session is revoked and replaced by a new one. *)
Refresh(i, j) ==
  /\ RefreshWorks(i)
  /\ IsNew(j)
  /\ sessions' = [sessions EXCEPT
                    ![i] = Ended(@),
                    ![j] = NewSession(sessions[i].from, sessions[i].who)]
  /\ UNCHANGED <<entity, index, issued, lapsed, copies>>

(* Mutant of LogoutBy: the tokens are forgotten, the session is not        *)
(* revoked.                                                                *)
LogoutByToken(x, token) ==
  IF token = "access" /\ x.access
    THEN [x EXCEPT !.access = FALSE, !.refresh = FALSE]
  ELSE IF token = "refresh" /\ x.refresh
    THEN [x EXCEPT !.refresh = FALSE]
  ELSE x

(* What logout does to a session when it is shown one of its tokens. *)
LogoutBy(x, token) ==
  IF token = "access" /\ x.access
    THEN Ended(x)
  ELSE IF token = "refresh" /\ x.refresh
    THEN [x EXCEPT !.revoked = TRUE, !.refresh = FALSE]
  ELSE x

(* logout takes the access token from a header and the refresh token from  *)
(* a cookie: either may be missing, and nothing ties the two together.     *)
Logout(i, j) ==
  /\ sessions' =
       [x \in Sessions |->
          LET y == IF x = i THEN LogoutBy(sessions[x], "access")
                            ELSE sessions[x]
          IN  IF x = j THEN LogoutBy(y, "refresh") ELSE y]
  /\ UNCHANGED <<entity, index, issued, lapsed, copies>>

-----------------------------------------------------------------------------
(* Time, and the portal requests that save an old entity                   *)

InviteLapses(c) ==
  /\ c \in issued \ lapsed
  /\ lapsed' = lapsed \cup {c}
  /\ UNCHANGED <<entity, index, issued, sessions, copies>>

SessionAges(i) ==
  /\ ~IsNew(i)
  /\ sessions[i].age < 2
  /\ sessions' = [sessions EXCEPT ![i].age = @ + 1]
  /\ UNCHANGED <<entity, index, issued, lapsed, copies>>

(* put_material_file or submit, up to its await. *)
BeginPortal(r, i) ==
  /\ copies[r] = None
  /\ AccessWorks(i)
  /\ entity.stage = "open"
  /\ copies' = [copies EXCEPT ![r] = entity]
  /\ UNCHANGED <<entity, index, issued, lapsed, sessions>>

FinishPortal(r) ==
  /\ copies[r] # None
  /\ entity' = copies[r]
  /\ copies' = [copies EXCEPT ![r] = None]
  /\ UNCHANGED <<index, issued, lapsed, sessions>>

FailPortal(r) ==
  /\ copies[r] # None
  /\ copies' = [copies EXCEPT ![r] = None]
  /\ UNCHANGED <<entity, index, issued, lapsed, sessions>>

Next ==
  \/ Publish
  \/ \E s \in Suppliers, c \in Codes : Rotate(s, c)
  \/ \E s \in Suppliers : Revoke(s)
  \/ Close
  \/ Cancel
  \/ \E c \in Codes, i \in Sessions : Exchange(c, i)
  \/ \E c \in Codes : ExchangeTooLate(c)
  \/ \E i, j \in Sessions : i # j /\ Refresh(i, j)
  \/ \E i, j \in Sessions \cup {None} : Logout(i, j)
  \/ \E c \in Codes : InviteLapses(c)
  \/ \E i \in Sessions : SessionAges(i)
  \/ \E r \in Requests, i \in Sessions : BeginPortal(r, i)
  \/ \E r \in Requests : FinishPortal(r) \/ FailPortal(r)

Spec == Init /\ [][Next]_vars

-----------------------------------------------------------------------------
(* Properties                                                              *)

Lives(i) == AccessWorks(i) \/ RefreshWorks(i)

(* An invite code is worth one session at a time: it is exchanged once,    *)
(* and of the sessions refreshed from that one only the last lives on,     *)
(* whatever invite fields an old entity brings back (exchange, refresh).   *)
OneSessionPerCode ==
  /\ \A i, j \in Sessions :
       Lives(i) /\ Lives(j) /\ sessions[i].from = sessions[j].from => i = j
  /\ \A c \in Codes, i \in Sessions :
       index[c] # None => sessions[i].from # c

(* The two tokens of a session live and die together, but for the access   *)
(* token's earlier expiry: no logout or refresh, even one shown tokens of  *)
(* two sessions, leaves half a session (refresh, logout).                  *)
TokensTogether ==
  \A i \in Sessions :
    ~IsNew(i) => /\ ~sessions[i].revoked <=> sessions[i].refresh
                 /\ ~sessions[i].revoked => sessions[i].access

(* "Bound to the evaluation, invalid once it is closed": with the          *)
(* evaluation closed, no portal token works.                               *)
SessionsEndWithEvaluation ==
  entity.stage = "closed" => \A i \in Sessions : ~Lives(i)

(* What makes codes and sessions unique. *)
CodesAndSessions ==
  /\ \A c \in Codes : index[c] # None => c \in issued
  /\ \A i \in Sessions : IsNew(i) => ~sessions[i].access /\ ~sessions[i].refresh
  /\ \A i \in Sessions : ~IsNew(i) => sessions[i].from \in issued

(* The inductive invariant of exchange, refresh and logout: an indexed     *)
(* code has opened no session, and a session that lives is the only one of *)
(* its code.                                                               *)
SessionsInv ==
  /\ TypeOK
  /\ CodesAndSessions
  /\ OneSessionPerCode
  /\ TokensTogether
=============================================================================
