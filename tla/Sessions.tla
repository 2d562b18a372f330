------------------------------- MODULE Sessions -------------------------------
(***************************************************************************)
(* The sessions of one account: registering, signing in with a password or *)
(* with Google, rotating refresh tokens, signing out, and the calls that   *)
(* end every session: a reused refresh token, a password reset, an admin's *)
(* suspension and the deletion of the account.                             *)
(*                                                                         *)
(* Every request is one transaction at READ COMMITTED.  A business error   *)
(* (DoxlyError) commits what was written before it, any other rolls back.  *)
(* The rows of audit_logs are left out.                                    *)
(* A row that a request has loaded and still holds is not refreshed when   *)
(* it is read again, so checks made on it may be stale when it is written. *)
(***************************************************************************)
EXTENDS Naturals

CONSTANTS
  Devices,      (* refresh tokens of sessions that exist at the start      *)
  Requests,     (* API requests; each makes one call                       *)
  AbortBudget,  (* bound: requests that die before they commit             *)
  None          (* "nothing to set"                                        *)

ASSUME SessionsAssumption ==
  /\ Devices \cap Requests = {}
  /\ None \notin Devices \cup Requests \cup {"active", "suspended", "pending_deletion"}
  /\ AbortBudget \in Nat

(* A request issues at most one refresh token, which is named after it.    *)
Tokens == Devices \cup Requests

VARIABLES
  user,        (* the account's committed row                              *)
  token,       (* committed refresh_tokens rows                            *)
  req,         (* each request and its open transaction                    *)
  abortsLeft   (* what is left of AbortBudget                              *)

vars == <<user, token, req, abortsLeft>>

-------------------------------------------------------------------------------
Statuses == {"active", "suspended", "pending_deletion"}

(* "rows" counts the users rows with this email, of which there is never   *)
(* more than one, however registrations and Google sign-ins race ("never   *)
(* creating a duplicate", oauth_login_or_link).  The client knows the      *)
(* password that the account began with, or the one it was reset to.       *)
User == [rows : {0, 1}, status : Statuses, password : {"none", "first", "second"},
         linked : BOOLEAN]

TokenStates == {"none", "active", "expired", "revoked"}

Calls == {"register", "login", "oauth", "refresh", "logout", "revoke_session", "reset",
          "suspend", "unsuspend", "delete_account"}

PCs == {"new", "insert_user", "link", "issue", "check_user", "revoke", "set_user",
        "sweep", "revoke_all", "commit", "raise", "done"}

(* "arg" is the token presented, "status", "password", "linked" and        *)
(* "inserts" are what the transaction writes to the account's row,         *)
(* "revokes" and "issues" what it writes to refresh_tokens, "found" the    *)
(* tokens a sweep has selected.  "end" tells how the call ended ("locked": *)
(* refused because the account is suspended); "prior" (history) which      *)
(* requests had ended when it began.                                       *)
Request == [pc : PCs, call : Calls, arg : Tokens \cup {None},
            status : Statuses \cup {None}, password : BOOLEAN, linked : BOOLEAN,
            inserts : BOOLEAN, found : SUBSET Tokens, revokes : SUBSET Tokens,
            issues : BOOLEAN,
            end : {"none", "ok", "refused", "locked", "failed"}, prior : SUBSET Requests]

NewRequest == [pc |-> "new", call |-> "login", arg |-> None, status |-> None,
               password |-> FALSE, linked |-> FALSE, inserts |-> FALSE, found |-> {},
               revokes |-> {}, issues |-> FALSE, end |-> "none", prior |-> {}]

Ended == {r \in Requests : req[r].pc = "done"}

(* An account with its sessions, or no account yet.                        *)
Init ==
  /\ \/ /\ user = [rows |-> 1, status |-> "active", password |-> "first", linked |-> FALSE]
        /\ token = [t \in Tokens |-> IF t \in Devices THEN "active" ELSE "none"]
     \/ /\ user = [rows |-> 0, status |-> "active", password |-> "none", linked |-> FALSE]
        /\ token = [t \in Tokens |-> "none"]
  /\ req = [r \in Requests |-> NewRequest]
  /\ abortsLeft = AbortBudget

-------------------------------------------------------------------------------
(* Transactions.                                                           *)

Committed == <<user, token, abortsLeft>>

Becomes(r, x) == req' = [req EXCEPT ![r] = x] /\ UNCHANGED Committed

Begin(r, call, x) ==
  /\ req[r].pc = "new"
  /\ Becomes(r, [x EXCEPT !.call = call, !.prior = Ended])

At(pc) == [NewRequest EXCEPT !.pc = pc]

(* Nothing has been written: the call is over when it is answered.         *)
Over(end) == [At("done") EXCEPT !.end = end]

(* Open transactions that have written the account's row, or token rows.   *)
Writers(r) == {s \in Requests \ {r} : req[s].pc # "done" /\
                 (req[s].status # None \/ req[s].password \/ req[s].linked)}

Revoking(r) == UNION {req[s].revokes : s \in {s \in Requests \ {r} : req[s].pc # "done"}}

(* What is left of a request that has ended.                               *)
Done(r, end) ==
  [Over(end) EXCEPT !.call = req[r].call, !.arg = req[r].arg, !.prior = req[r].prior,
                    !.issues = req[r].issues /\ end = "ok"]

Save(r) ==
  LET q == req[r] IN
  /\ user' = [user EXCEPT !.rows = IF q.inserts THEN @ + 1 ELSE @,
                          !.status = IF q.status = None THEN @ ELSE q.status,
                          !.linked = @ \/ q.linked,
                          !.password = IF q.inserts /\ ~q.linked THEN "first"
                                       ELSE IF q.password THEN "second" ELSE @]
  /\ token' = [t \in Tokens |-> IF t \in q.revokes THEN "revoked"
                                ELSE IF t = r /\ q.issues THEN "active" ELSE token[t]]

Commit(r) ==
  /\ req[r].pc = "commit"
  /\ Save(r)
  /\ req' = [req EXCEPT ![r] = Done(r, "ok")]
  /\ UNCHANGED abortsLeft

(* Mutant: any exception rolls back. *)
CommitAndRaise_RollsBack(r) ==
  /\ req[r].pc = "raise"
  /\ Becomes(r, Done(r, "refused"))

(* A DoxlyError: get_db_session commits, and raises it again.              *)
CommitAndRaise(r) ==
  /\ req[r].pc = "raise"
  /\ Save(r)
  /\ req' = [req EXCEPT ![r] = Done(r, "refused")]
  /\ UNCHANGED abortsLeft

Abort(r) ==
  /\ req[r].pc \notin {"new", "done"}
  /\ abortsLeft > 0
  /\ abortsLeft' = abortsLeft - 1
  /\ req' = [req EXCEPT ![r] = Done(r, "failed")]
  /\ UNCHANGED <<user, token>>

-------------------------------------------------------------------------------
(* Signing up and in.                                                      *)

Register(r) ==
  Begin(r, "register", IF user.rows > 0 THEN Over("refused") ELSE At("insert_user"))

(* Mutant: no unique index on users.email. *)
InsertUser_NoIndex(r) ==
  /\ req[r].pc = "insert_user"
  /\ Becomes(r, [req[r] EXCEPT !.pc = IF req[r].linked THEN "issue" ELSE "commit",
                               !.inserts = TRUE])

(* The unique index on users.email waits for other inserts, and refuses.   *)
InsertUser(r) ==
  /\ req[r].pc = "insert_user"
  /\ \A s \in Requests \ {r} : ~req[s].inserts
  /\ Becomes(r, IF user.rows > 0 THEN Done(r, "failed")
                ELSE [req[r] EXCEPT !.pc = IF req[r].linked THEN "issue" ELSE "commit",
                                    !.inserts = TRUE])

(* login: a wrong password and a suspended account are refused.            *)
Login(r, password) ==
  Begin(r, "login",
        IF user.rows = 0 \/ password # user.password
        THEN Over("refused")
        ELSE IF user.status = "suspended" THEN Over("locked")
        ELSE At("issue"))

(* oauth_login_or_link: a returning, a linked or a new user.  The status   *)
(* is not looked at.                                                       *)
OAuthLoginOrLink(r) ==
  Begin(r, "oauth",
        IF user.linked THEN At("issue")
        ELSE IF user.rows > 0 THEN At("link")
        ELSE [At("insert_user") EXCEPT !.linked = TRUE])

Link(r) ==
  /\ req[r].pc = "link"
  /\ Writers(r) = {}
  /\ Becomes(r, [req[r] EXCEPT !.pc = "issue", !.linked = TRUE])

IssueRefreshToken(r) ==
  /\ req[r].pc = "issue"
  /\ Becomes(r, [req[r] EXCEPT !.pc = "commit", !.issues = TRUE])

-------------------------------------------------------------------------------
(* Rotating and revoking.                                                  *)

(* refresh: a revoked token that is presented again ends every session.    *)
Refresh(r, t) ==
  /\ token[t] # "none"
  /\ Begin(r, "refresh",
           CASE token[t] = "revoked" -> [At("sweep") EXCEPT !.arg = t]
             [] token[t] = "expired" -> Over("refused")
             [] token[t] = "active"  -> [At("check_user") EXCEPT !.arg = t])

(* Mutant: the account's status is not checked. *)
CheckUser_AnyStatus(r) ==
  /\ req[r].pc = "check_user"
  /\ Becomes(r, [req[r] EXCEPT !.pc = "revoke"])

CheckUser(r) ==
  /\ req[r].pc = "check_user"
  /\ Becomes(r, IF user.status = "suspended" THEN Done(r, "locked")
                ELSE [req[r] EXCEPT !.pc = "revoke"])

(* Mutant: the old token is not revoked. *)
Revoke_Skipped(r) ==
  /\ req[r].pc = "revoke"
  /\ Becomes(r, [req[r] EXCEPT !.pc = IF req[r].call = "refresh" THEN "issue" ELSE "commit"])

(* revoke: the object that was loaded says that the token is not revoked.  *)
Revoke(r) ==
  /\ req[r].pc = "revoke"
  /\ req[r].arg \notin Revoking(r)
  /\ Becomes(r, [req[r] EXCEPT !.pc = IF req[r].call = "refresh" THEN "issue" ELSE "commit",
                               !.revokes = {req[r].arg}])

(* get_current_user: whoever has an access token, unless suspended.        *)
Authenticated == user.rows > 0 /\ user.status # "suspended"

(* logout, and revoke_session of another device.                           *)
EndSession(r, call, t) ==
  /\ Authenticated
  /\ token[t] # "none"
  /\ Begin(r, call, IF token[t] # "revoked"
                    THEN [At("revoke") EXCEPT !.arg = t]
                    ELSE Over(IF call = "logout" THEN "ok" ELSE "refused"))

-------------------------------------------------------------------------------
(* Ending every session.                                                   *)

(* confirm_password_reset, with a link that is valid for an hour.          *)
ConfirmPasswordReset(r) ==
  /\ user.rows > 0
  /\ Begin(r, "reset", At("set_user"))

(* suspend_user, unsuspend_user and delete_account read the row first.     *)
SuspendUser(r) ==
  /\ user.rows > 0
  /\ Begin(r, "suspend", At(IF user.status = "suspended" THEN "sweep" ELSE "set_user"))

UnsuspendUser(r) ==
  /\ user.rows > 0
  /\ Begin(r, "unsuspend", IF user.status # "suspended" THEN Over("refused")
                           ELSE At("set_user"))

DeleteAccount(r) ==
  /\ Authenticated
  /\ Begin(r, "delete_account", At(IF user.status = "pending_deletion" THEN "sweep" ELSE "set_user"))

NewStatus == [suspend |-> "suspended", unsuspend |-> "active",
              delete_account |-> "pending_deletion"]

(* user_repo.update with the new password or the new status.               *)
SetUser(r) ==
  LET q == req[r] IN
  /\ q.pc = "set_user"
  /\ Writers(r) = {}
  /\ Becomes(r, [q EXCEPT !.pc = IF q.call = "unsuspend" THEN "commit" ELSE "sweep",
                          !.password = q.call = "reset",
                          !.status = IF q.call = "reset" THEN None ELSE NewStatus[q.call]])

(* revoke_all_for_user: a SELECT of the tokens that are not revoked ...    *)
Sweep(r) ==
  /\ req[r].pc = "sweep"
  /\ Becomes(r, [req[r] EXCEPT !.pc = "revoke_all",
                               !.found = {t \in Tokens : token[t] \in {"active", "expired"}}])

(* ... and an UPDATE of each.                                              *)
RevokeAll(r) ==
  /\ req[r].pc = "revoke_all"
  /\ req[r].found \cap Revoking(r) = {}
  /\ Becomes(r, [req[r] EXCEPT !.pc = IF req[r].call = "refresh" THEN "raise" ELSE "commit",
                               !.revokes = req[r].found, !.found = {}])

(* A refresh token reaches its expires_at.                                 *)
Expire(t) ==
  /\ token[t] = "active"
  /\ token' = [token EXCEPT ![t] = "expired"]
  /\ UNCHANGED <<user, req, abortsLeft>>

-------------------------------------------------------------------------------
Call(r) ==
  \/ Register(r) \/ OAuthLoginOrLink(r)
  \/ \E password \in {"first", "second"} : Login(r, password)
  \/ \E t \in Tokens : \/ Refresh(r, t)
                       \/ \E call \in {"logout", "revoke_session"} : EndSession(r, call, t)
  \/ ConfirmPasswordReset(r) \/ SuspendUser(r) \/ UnsuspendUser(r) \/ DeleteAccount(r)

Step(r) ==
  \/ InsertUser(r) \/ Link(r) \/ IssueRefreshToken(r)
  \/ CheckUser(r) \/ Revoke(r) \/ SetUser(r) \/ Sweep(r) \/ RevokeAll(r)
  \/ Commit(r) \/ CommitAndRaise(r)

Next ==
  \/ \E r \in Requests : Call(r) \/ Step(r) \/ Abort(r)
  \/ \E t \in Tokens : Expire(t)

Spec == Init /\ [][Next]_vars

-------------------------------------------------------------------------------
TypeOK ==
  /\ user \in User
  /\ token \in [Tokens -> TokenStates]
  /\ req \in [Requests -> Request]
  /\ abortsLeft \in Nat

(* Did r end every session?  A refresh does when its token had been revoked. *)
EndsAllSessions(r) ==
  \/ req[r].call \in {"reset", "suspend", "delete_account"} /\ req[r].end = "ok"
  \/ req[r].call = "refresh" /\ req[r].arg # None /\ req[r].end = "refused"

(* A call that ends every session, even one that answers with an error,    *)
(* leaves none active that there was when it began.  (Sessions that are    *)
(* being issued meanwhile survive it.)                                     *)
SweepsAreComplete ==
  \A r \in Requests, t \in Tokens :
    EndsAllSessions(r) /\ t \in Devices \cup req[r].prior => token[t] # "active"

(* A refresh token is exchanged once, unless requests that present it      *)
(* overlap (each of them has seen it active).                              *)
OneSuccessor ==
  \A r, s \in Requests :
    /\ req[r].call = "refresh" /\ req[r].issues /\ r \in Ended
    /\ req[s].call = "refresh" /\ req[s].issues /\ r \in req[s].prior
    => req[r].arg # req[s].arg

(* A suspended account gets no session by a password or a refresh token,   *)
(* until it is unsuspended, or a deletion that the user had begun before   *)
(* overwrites its status.                                                  *)
SuspensionHolds ==
  \A r, s \in Requests :
    /\ req[s].call = "suspend" /\ req[s].end = "ok"
    /\ req[r].call \in {"login", "refresh"} /\ req[r].issues /\ s \in req[r].prior
    => \E u \in Requests \ req[s].prior : req[u].call \in {"unsuspend", "delete_account"}
===============================================================================
