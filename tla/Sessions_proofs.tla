---------------------------- MODULE Sessions_proofs ----------------------------
(***************************************************************************)
(* Proofs about Sessions, for any number of devices and requests and any   *)
(* number of requests that die.                                            *)
(***************************************************************************)
EXTENDS Sessions, TLAPS

USE SessionsAssumption DEF SessionsAssumption

-------------------------------------------------------------------------------
(* What a request's record x says of itself, of the tokens, of the account *)
(* and of the requests that had ended before it began.                     *)

Closing == {"reset", "suspend", "delete_account"}
Lifting == {"unsuspend", "delete_account"}

(* Which calls get to which program counter, and what they write there.    *)
Fits(x) ==
  /\ x.pc = "new" => x.call = "login"
  /\ x.pc = "insert_user" => x.call \in {"register", "oauth"}
  /\ x.pc = "link" => x.call = "oauth"
  /\ x.pc = "issue" => x.call \in {"login", "oauth", "refresh"}
  /\ x.pc = "check_user" => x.call = "refresh"
  /\ x.pc = "revoke" => x.call \in {"refresh", "logout", "revoke_session"}
  /\ x.pc = "set_user" => x.call \in Closing \cup Lifting
  /\ x.pc \in {"sweep", "revoke_all"} => x.call \in Closing \cup {"refresh"}
  /\ x.pc = "raise" => x.call = "refresh"
  /\ x.pc # "done" => x.end = "none"
  /\ x.issues => x.pc \in {"commit", "done"}
  /\ x.inserts => x.pc \in {"issue", "commit"}
  /\ x.linked => x.call = "oauth"
  /\ x.status # None => (x.call = "suspend" /\ x.status = "suspended") \/ x.call \in Lifting

(* The tokens it presents, has selected or writes have been issued.        *)
TokensKnown(x) ==
  /\ \A t \in x.found \cup x.revokes : token[t] # "none"
  /\ x.arg # None => token[x.arg] # "none"
  /\ x.pc = "revoke" => x.arg # None

(* A sweep has selected, revokes, or has revoked the sessions that were    *)
(* active when it began.                                                   *)
SweepKnows(x) ==
  \A t \in Devices \cup x.prior : token[t] = "active" =>
    /\ x.pc = "revoke_all" => t \in x.found
    /\ x.pc = "raise" \/ (x.pc = "commit" /\ x.call \in Closing) => t \in x.revokes
    /\ ~(x.call \in Closing /\ x.end = "ok")
    /\ ~(x.call = "refresh" /\ x.arg # None /\ x.end = "refused")

Rotating == {"check_user", "revoke", "issue", "commit"}

(* A refresh that goes through presents a token that no earlier refresh    *)
(* has exchanged, and revokes it.                                          *)
RefreshKnows(x) ==
  x.call = "refresh" =>
    /\ x.pc \in Rotating \/ x.issues => x.arg # None
    /\ x.pc \in {"issue", "commit"} => x.arg \in x.revokes
    /\ x.pc = "done" /\ x.issues => token[x.arg] = "revoked"
    /\ x.pc \in Rotating \/ x.issues =>
         \A p \in x.prior : req[p].call = "refresh" /\ req[p].issues => req[p].arg # x.arg

(* The suspension x may have been undone by a request that had not ended   *)
(* when x began.                                                           *)
Lifted(x) == \E u \in Requests \ x.prior : req[u].call \in Lifting

SuspendKnows(x) ==
  /\ x.call = "suspend"
  /\ x.end = "ok" \/ (x.pc \in {"sweep", "revoke_all", "commit"} /\ x.status = None)
  => user.status = "suspended" \/ Lifted(x)

LoginKnows(x) ==
  x.call \in {"login", "refresh"} /\ (x.issues \/ x.pc \in {"revoke", "issue", "commit"}) =>
    \A s \in x.prior : req[s].call = "suspend" /\ req[s].end = "ok" => Lifted(req[s])

Knows(x) ==
  /\ x.prior \subseteq Ended
  /\ Fits(x)
  /\ TokensKnown(x)
  /\ SweepKnows(x)
  /\ RefreshKnows(x)
  /\ SuspendKnows(x)
  /\ LoginKnows(x)

(* At most one transaction inserts the account, while there is none.       *)
OneInsert ==
  \A r \in Requests : req[r].inserts =>
    user.rows = 0 /\ \A s \in Requests \ {r} : ~req[s].inserts

(* The token of a request exists only once it has committed.               *)
Unissued == \A r \in Requests \ Ended : token[r] = "none"

Inv ==
  /\ TypeOK
  /\ OneInsert
  /\ Unissued
  /\ \A r \in Requests : Knows(req[r])

LEMMA NewRecord ==
  /\ NewRequest \in Request
  /\ NewRequest.pc = "new" /\ NewRequest.call = "login" /\ NewRequest.arg = None
  /\ NewRequest.status = None /\ NewRequest.linked = FALSE /\ NewRequest.inserts = FALSE
  /\ NewRequest.found = {} /\ NewRequest.revokes = {} /\ NewRequest.issues = FALSE
  /\ NewRequest.end = "none" /\ NewRequest.prior = {}
  BY DEF NewRequest, Request, PCs, Calls, Statuses, Tokens

LEMMA InvInit == Init => Inv
<1> SUFFICES ASSUME Init PROVE Inv
  OBVIOUS
<1>1. \A r \in Requests : req[r] = NewRequest
  BY DEF Init
<1>2. TypeOK
  <2>1. user \in User
    <3>1. ASSUME NEW u, NEW rows \in {0, 1}, NEW password \in {"none", "first"},
                 u = [rows |-> rows, status |-> "active", password |-> password, linked |-> FALSE]
          PROVE  u \in User
      BY <3>1 DEF User, Statuses
    <3>2. QED
      BY <3>1 DEF Init
  <2>2. token \in [Tokens -> TokenStates]
    BY DEF Init, TokenStates, Tokens
  <2>3. req \in [Requests -> Request] /\ abortsLeft \in Nat
    BY NewRecord DEF Init
  <2>4. QED
    BY <2>1, <2>2, <2>3 DEF TypeOK
<1>3. OneInsert /\ Unissued
  BY <1>1, NewRecord DEF OneInsert, Unissued, Init, Tokens
<1>4. ASSUME NEW r \in Requests PROVE Knows(req[r])
  <2> DEFINE x == NewRequest
  <2> USE NewRecord
  <2> HIDE DEF x
  <2>1. Knows(NewRequest)
    BY DEF Knows, Fits, TokensKnown, SweepKnows, RefreshKnows, SuspendKnows, LoginKnows, Rotating
  <2>2. QED
    BY <1>1, <2>1
<1>5. QED
  BY <1>2, <1>3, <1>4 DEF Inv

-------------------------------------------------------------------------------
(* What every step does to the requests that do not take it: tokens only   *)
(* go forward, requests that have ended stay as they are, and a suspension *)
(* is undone only by a request that lifts it.                              *)
Forward ==
  /\ \A t \in Devices \cup Ended : token'[t] = "active" => token[t] = "active"
  /\ \A t \in Tokens : token[t] = "revoked" => token'[t] = "revoked"
  /\ \A t \in Tokens : token[t] # "none" => token'[t] # "none"
  /\ \A s \in Ended : req'[s] = req[s]
  /\ \A s \in Requests : req[s].call \in Lifting => req'[s].call = req[s].call
  /\ user.status = "suspended" =>
       user'.status = "suspended" \/ \E u \in Requests \ Ended : req[u].call \in Lifting

LEMMA KnowsStays ==
  ASSUME Inv, Forward, NEW x \in Request, Knows(x)
  PROVE  Knows(x)'
<1>1. x.prior \subseteq Ended /\ Ended \subseteq Requests /\ Requests \subseteq Tokens
  BY DEF Knows, Ended, Tokens
<1>2. Ended \subseteq Ended'
  BY DEF Forward, Ended
<1>3. Fits(x)' /\ x.prior \subseteq Ended'
  BY <1>1, <1>2 DEF Knows, Fits
<1>4. TokensKnown(x)'
  BY DEF Knows, TokensKnown, Forward, Request
<1>5. SweepKnows(x)'
  BY <1>1 DEF Knows, SweepKnows, Forward
<1>6. RefreshKnows(x)'
  <2>1. x.arg # None => x.arg \in Tokens
    BY DEF Request
  <2>2. \A p \in x.prior : req'[p] = req[p]
    BY <1>1 DEF Forward
  <2>3. RefreshKnows(x)
    BY DEF Knows
  <2>4. \A t \in Tokens : token[t] = "revoked" => token'[t] = "revoked"
    BY DEF Forward
  <2>5. QED
    BY <2>1, <2>2, <2>3, <2>4 DEF RefreshKnows
<1>7. ASSUME NEW y, Lifted(y)
      PROVE  Lifted(y)'
  BY <1>7 DEF Lifted, Forward
<1>8. ASSUME NEW y, y.prior \subseteq Ended, user.status = "suspended" \/ Lifted(y)
      PROVE  user'.status = "suspended" \/ Lifted(y)'
  <2>1. CASE user.status = "suspended"
    BY <1>8, <2>1 DEF Lifted, Forward
  <2>2. QED
    BY <1>7, <1>8, <2>1
<1>9. SuspendKnows(x)'
  BY <1>1, <1>8 DEF Knows, SuspendKnows
<1>10. LoginKnows(x)'
  <2>1. ASSUME NEW s \in x.prior, Lifted(req[s])
        PROVE  Lifted(req[s])'
    <3>1. req'[s] = req[s]
      BY <1>1 DEF Forward
    <3>2. QED
      BY <2>1, <3>1 DEF Lifted, Forward
  <2>2. \A s \in x.prior : req'[s] = req[s]
    BY <1>1 DEF Forward
  <2>3. QED
    BY <2>1, <2>2 DEF Knows, LoginKnows
<1>11. QED
  BY <1>3, <1>4, <1>5, <1>6, <1>9, <1>10 DEF Knows

(* A request that has not ended moves, and nothing is committed.           *)
LEMMA Moved ==
  ASSUME Inv, NEW r \in Requests \ Ended, NEW x \in Request, Knows(x),
         req' = [req EXCEPT ![r] = x], user' = user, token' = token, abortsLeft' \in Nat,
         req[r].call \in Lifting => x.call = req[r].call,
         x.inserts => \/ req[r].inserts
                      \/ user.rows = 0 /\ \A s \in Requests \ {r} : ~req[s].inserts
  PROVE  Inv'
<1>1. req \in [Requests -> Request]
  BY DEF Inv, TypeOK
<1>2. TypeOK'
  BY <1>1 DEF Inv, TypeOK
<1>3. Forward
  BY <1>1 DEF Forward, Ended
<1>4. OneInsert'
  BY <1>1 DEF Inv, OneInsert
<1>5. Unissued'
  BY <1>1 DEF Inv, Unissued, Ended
<1>6. ASSUME NEW s \in Requests
      PROVE  Knows(req[s])'
  <2>1. PICK y : y = req'[s]
    OBVIOUS
  <2>2. y \in Request /\ Knows(y)
    BY <1>1, <2>1 DEF Inv
  <2>3. Knows(y)'
    BY <1>3, <2>2, KnowsStays
  <2>4. QED
    BY <2>1, <2>3
<1>7. QED
  BY <1>2, <1>4, <1>5, <1>6 DEF Inv

LEMMA Move ==
  ASSUME Inv, NEW r \in Requests \ Ended, NEW x \in Request, Becomes(r, x), Knows(x),
         req[r].call \in Lifting => x.call = req[r].call,
         x.inserts => \/ req[r].inserts
                      \/ user.rows = 0 /\ \A s \in Requests \ {r} : ~req[s].inserts
  PROVE  Inv'
<1>1. /\ req' = [req EXCEPT ![r] = x] /\ user' = user /\ token' = token
      /\ abortsLeft' \in Nat
  BY DEF Becomes, Committed, Inv, TypeOK
<1>2. QED
  BY <1>1, Moved

-------------------------------------------------------------------------------
(* A call begins.                                                          *)

Begun(x, call) == [x EXCEPT !.call = call, !.prior = Ended]

LEMMA AtRecord ==
  ASSUME NEW pc \in PCs
  PROVE  /\ At(pc) \in Request
         /\ At(pc).pc = pc /\ At(pc).call = "login" /\ At(pc).arg = None
         /\ At(pc).status = None /\ At(pc).linked = FALSE /\ At(pc).inserts = FALSE
         /\ At(pc).found = {} /\ At(pc).revokes = {} /\ At(pc).issues = FALSE
         /\ At(pc).end = "none"
<1>1. ASSUME NEW x \in Request
      PROVE  /\ [x EXCEPT !.pc = pc] \in Request
             /\ [x EXCEPT !.pc = pc].pc = pc
             /\ [x EXCEPT !.pc = pc].call = x.call
             /\ [x EXCEPT !.pc = pc].arg = x.arg
             /\ [x EXCEPT !.pc = pc].status = x.status
             /\ [x EXCEPT !.pc = pc].linked = x.linked
             /\ [x EXCEPT !.pc = pc].inserts = x.inserts
             /\ [x EXCEPT !.pc = pc].found = x.found
             /\ [x EXCEPT !.pc = pc].revokes = x.revokes
             /\ [x EXCEPT !.pc = pc].issues = x.issues
             /\ [x EXCEPT !.pc = pc].end = x.end
  BY DEF Request
<1>2. QED
  BY <1>1, NewRecord DEF At

(* The record that a call starts with: nothing has been written.           *)
Started(x) ==
  /\ x \in Request
  /\ x.status = None /\ x.inserts = FALSE /\ x.issues = FALSE
  /\ x.found = {} /\ x.revokes = {}
  /\ x.pc \notin {"new", "revoke_all", "commit", "raise"}
  /\ x.pc # "done" => x.end = "none"

LEMMA AtStarts ==
  ASSUME NEW pc \in PCs \ {"new", "revoke_all", "commit", "raise"}
  PROVE  Started(At(pc)) /\ At(pc).pc = pc /\ At(pc).arg = None /\ At(pc).linked = FALSE
  BY AtRecord DEF Started

Presenting(pc, t) == [At(pc) EXCEPT !.arg = t]

LEMMA ArgStarts ==
  ASSUME NEW pc \in {"sweep", "check_user", "revoke"}, NEW t \in Tokens
  PROVE  /\ Started(Presenting(pc, t))
         /\ Presenting(pc, t).pc = pc /\ Presenting(pc, t).arg = t
         /\ Presenting(pc, t).linked = FALSE
<1>1. ASSUME NEW x \in Request, Started(x)
      PROVE  LET y == [x EXCEPT !.arg = t] IN
             Started(y) /\ y.pc = x.pc /\ y.arg = t /\ y.linked = x.linked
  BY <1>1 DEF Started, Request
<1>2. At(pc) \in Request /\ Started(At(pc)) /\ At(pc).pc = pc /\ At(pc).linked = FALSE
  <2>1. pc \in PCs \ {"new", "revoke_all", "commit", "raise"}
    BY DEF PCs
  <2>2. QED
    BY <2>1, AtRecord, AtStarts
<1>3. QED
  BY <1>1, <1>2 DEF Presenting

LEMMA LinkedStarts ==
  LET x == [At("insert_user") EXCEPT !.linked = TRUE] IN
  Started(x) /\ x.pc = "insert_user" /\ x.arg = None /\ x.linked = TRUE
<1>1. ASSUME NEW x \in Request, Started(x)
      PROVE  LET y == [x EXCEPT !.linked = TRUE] IN
             Started(y) /\ y.pc = x.pc /\ y.arg = x.arg /\ y.linked = TRUE
  BY <1>1 DEF Started, Request
<1>2. "insert_user" \in PCs \ {"new", "revoke_all", "commit", "raise"}
  BY DEF PCs
<1>3. QED
  BY <1>1, <1>2, AtRecord, AtStarts

LEMMA OverStarts ==
  ASSUME NEW end \in {"ok", "refused", "locked"}
  PROVE  LET x == Over(end) IN
         Started(x) /\ x.pc = "done" /\ x.arg = None /\ x.linked = FALSE /\ x.end = end
<1>1. ASSUME NEW x \in Request, Started(x), x.pc = "done"
      PROVE  LET y == [x EXCEPT !.end = end] IN
             Started(y) /\ y.pc = x.pc /\ y.arg = x.arg /\ y.linked = x.linked /\ y.end = end
  BY <1>1 DEF Started, Request
<1>2. "done" \in PCs \ {"new", "revoke_all", "commit", "raise"}
  BY DEF PCs
<1>3. At("done") \in Request /\ Started(At("done"))
      /\ At("done").pc = "done" /\ At("done").arg = None /\ At("done").linked = FALSE
  BY <1>2, AtRecord, AtStarts
<1>4. QED
  BY <1>1, <1>3 DEF Over

LEMMA BegunRecord ==
  ASSUME NEW x \in Request, NEW call \in Calls
  PROVE  /\ Begun(x, call) \in Request
         /\ Begun(x, call).call = call /\ Begun(x, call).prior = Ended
         /\ Begun(x, call).pc = x.pc /\ Begun(x, call).arg = x.arg
         /\ Begun(x, call).status = x.status /\ Begun(x, call).linked = x.linked
         /\ Begun(x, call).inserts = x.inserts /\ Begun(x, call).found = x.found
         /\ Begun(x, call).revokes = x.revokes /\ Begun(x, call).issues = x.issues
         /\ Begun(x, call).end = x.end
  BY DEF Begun, Request, Ended

LEMMA BeginMoves ==
  ASSUME Inv, NEW r \in Requests, NEW call \in Calls, NEW x, Started(x),
         Begin(r, call, x), Knows(Begun(x, call))
  PROVE  Inv'
<1>1. req[r].pc = "new" /\ Becomes(r, Begun(x, call))
  BY Zenon DEF Begin, Begun
<1>2. r \in Requests \ Ended /\ req[r].call \notin Lifting
  BY <1>1 DEF Ended, Inv, Knows, Fits, Lifting
<1>3. Begun(x, call) \in Request /\ Begun(x, call).inserts = FALSE
  BY BegunRecord DEF Started
<1>4. QED
  BY <1>1, <1>2, <1>3, Move

(* What the record has to be for the call, and what has been checked.      *)
Entry(x, call) ==
  /\ x.pc = "insert_user" => call \in {"register", "oauth"}
  /\ x.pc = "link" => call = "oauth"
  /\ x.pc = "issue" => call = "oauth" \/ (call = "login" /\ user.status # "suspended")
  /\ x.pc = "check_user" => call = "refresh" /\ x.arg # None /\ token[x.arg] = "active"
  /\ x.pc = "revoke" => call \in {"logout", "revoke_session"} /\ x.arg # None
  /\ x.pc = "set_user" => call \in Closing \cup Lifting
  /\ x.pc = "sweep" => \/ call \in {"refresh", "delete_account"}
                       \/ call = "suspend" /\ user.status = "suspended"
  /\ x.pc = "done" => call \notin Closing /\ x.arg = None
  /\ x.linked => call = "oauth"
  /\ x.arg # None => token[x.arg] # "none"

LEMMA EndedIsKnown ==
  ASSUME Inv, NEW p \in Ended
  PROVE  /\ p \in Requests /\ req[p].pc = "done" /\ Knows(req[p])
         /\ req[p].call = "refresh" /\ req[p].issues => token[req[p].arg] = "revoked"
  BY DEF Ended, Inv, Knows, RefreshKnows

LEMMA EndedIsLifted ==
  ASSUME Inv, user.status # "suspended", NEW s \in Ended,
         req[s].call = "suspend", req[s].end = "ok"
  PROVE  Lifted(req[s])
  BY EndedIsKnown DEF Knows, SuspendKnows

LEMMA BegunKnows ==
  ASSUME Inv, NEW call \in Calls, NEW x, Started(x), Entry(x, call)
  PROVE  Knows(Begun(x, call))
<1>1. PICK y : y = Begun(x, call)
  OBVIOUS
<1>2. /\ y \in Request /\ y.call = call /\ y.prior = Ended /\ y.pc = x.pc /\ y.arg = x.arg
      /\ y.status = None /\ y.linked = x.linked /\ y.inserts = FALSE /\ y.found = {}
      /\ y.revokes = {} /\ y.issues = FALSE /\ y.end = x.end
      /\ x.pc \notin {"new", "revoke_all", "commit", "raise"}
  BY <1>1, BegunRecord DEF Started
<1>3. Fits(y)
  BY <1>2 DEF Fits, Entry, Closing, Lifting, Started
<1>4. TokensKnown(y)
  BY <1>2 DEF TokensKnown, Entry
<1>5. SweepKnows(y)
  BY <1>2 DEF SweepKnows, Entry, Started
<1>6. RefreshKnows(y)
  BY <1>2, EndedIsKnown DEF RefreshKnows, Entry, Rotating
<1>7. SuspendKnows(y)
  BY <1>2 DEF SuspendKnows, Entry, Started, Closing
<1>8. LoginKnows(y)
  BY <1>2, EndedIsLifted DEF LoginKnows, Entry
<1>9. QED
  BY <1>1, <1>2, <1>3, <1>4, <1>5, <1>6, <1>7, <1>8 DEF Knows

LEMMA BeginKeepsInv ==
  ASSUME Inv, NEW r \in Requests, NEW call \in Calls, NEW x, Started(x), Entry(x, call),
         Begin(r, call, x)
  PROVE  Inv'
  BY BegunKnows, BeginMoves

LEMMA CallKeepsInv ==
  ASSUME Inv, NEW r \in Requests, Call(r)
  PROVE  Inv'
<1> USE DEF Entry, Closing, Lifting, Calls
<1>0. {"insert_user", "link", "issue", "set_user", "sweep"}
        \subseteq PCs \ {"new", "revoke_all", "commit", "raise"}
  BY DEF PCs
<1>1. CASE Register(r)
  BY <1>1, BeginKeepsInv, <1>0, AtStarts, OverStarts DEF Register
<1>2. CASE OAuthLoginOrLink(r)
  BY <1>2, BeginKeepsInv, <1>0, AtStarts, LinkedStarts DEF OAuthLoginOrLink
<1>3. ASSUME NEW password \in {"first", "second"}, Login(r, password) PROVE Inv'
  BY <1>3, BeginKeepsInv, <1>0, AtStarts, OverStarts DEF Login
<1>4. ASSUME NEW t \in Tokens, Refresh(r, t) PROVE Inv'
  <2>1. token[t] \in {"revoked", "expired", "active"}
    BY <1>4 DEF Refresh, Inv, TypeOK, TokenStates
  <2>2. t # None
    BY DEF Tokens
  <2>3. CASE token[t] = "revoked"
    <3>1. Begin(r, "refresh", Presenting("sweep", t))
      BY <1>4, <2>3 DEF Presenting, Refresh
    <3> DEFINE x == Presenting("sweep", t)
    <3>2. Started(x) /\ x.pc = "sweep" /\ x.arg = t /\ x.linked = FALSE
      BY ArgStarts
    <3> HIDE DEF x
    <3>3. Entry(x, "refresh")
      BY <2>2, <2>3, <3>2
    <3>4. QED
      BY <3>1, <3>2, <3>3, BeginKeepsInv DEF x
  <2>4. CASE token[t] = "expired"
    <3>1. Begin(r, "refresh", Over("refused"))
      BY <1>4, <2>4 DEF Refresh
    <3>2. QED
      BY <3>1, BeginKeepsInv, OverStarts
  <2>5. CASE token[t] = "active"
    <3>1. Begin(r, "refresh", Presenting("check_user", t))
      BY <1>4, <2>5 DEF Presenting, Refresh
    <3> DEFINE x == Presenting("check_user", t)
    <3>2. Started(x) /\ x.pc = "check_user" /\ x.arg = t /\ x.linked = FALSE
      BY ArgStarts
    <3> HIDE DEF x
    <3>3. Entry(x, "refresh")
      BY <2>2, <2>5, <3>2
    <3>4. QED
      BY <3>1, <3>2, <3>3, BeginKeepsInv DEF x
  <2>6. QED
    BY <2>1, <2>3, <2>4, <2>5
<1>5. ASSUME NEW t \in Tokens, NEW call \in {"logout", "revoke_session"}, EndSession(r, call, t)
      PROVE  Inv'
  <2>1. t # None /\ token[t] # "none"
    BY <1>5 DEF EndSession, Tokens
  <2>2. CASE token[t] # "revoked"
    <3>1. Begin(r, call, Presenting("revoke", t))
      BY <1>5, <2>2 DEF Presenting, EndSession
    <3> DEFINE x == Presenting("revoke", t)
    <3>2. Started(x) /\ x.pc = "revoke" /\ x.arg = t /\ x.linked = FALSE
      BY ArgStarts
    <3> HIDE DEF x
    <3>3. Entry(x, call)
      BY <2>1, <3>2
    <3>4. QED
      BY <3>1, <3>2, <3>3, BeginKeepsInv DEF x
  <2>3. CASE token[t] = "revoked"
    <3>1. PICK end \in {"ok", "refused"} : Begin(r, call, Over(end))
      BY <1>5, <2>3 DEF EndSession
    <3>2. QED
      BY <3>1, BeginKeepsInv, OverStarts
  <2>4. QED
    BY <2>2, <2>3
<1>6. CASE ConfirmPasswordReset(r)
  BY <1>6, BeginKeepsInv, <1>0, AtStarts DEF ConfirmPasswordReset
<1>7. CASE SuspendUser(r)
  BY <1>7, BeginKeepsInv, <1>0, AtStarts DEF SuspendUser
<1>8. CASE UnsuspendUser(r)
  <2>1. \/ Begin(r, "unsuspend", Over("refused"))
        \/ Begin(r, "unsuspend", At("set_user"))
    BY <1>8 DEF UnsuspendUser
  <2>2. QED
    BY <2>1, BeginKeepsInv, <1>0, AtStarts, OverStarts
<1>9. CASE DeleteAccount(r)
  <2>1. PICK pc \in {"sweep", "set_user"} : Begin(r, "delete_account", At(pc))
    BY <1>9 DEF DeleteAccount
  <2>2. Started(At(pc)) /\ At(pc).pc = pc /\ At(pc).arg = None /\ At(pc).linked = FALSE
    BY <1>0, AtStarts
  <2>3. Entry(At(pc), "delete_account")
    BY <2>2
  <2>4. QED
    BY <2>1, <2>2, <2>3, BeginKeepsInv
<1>10. QED
  BY <1>1, <1>2, <1>3, <1>4, <1>5, <1>6, <1>7, <1>8, <1>9 DEF Call

-------------------------------------------------------------------------------
(* A request goes on within its transaction.  What each step writes to its *)
(* record, the rest staying as it was.                                     *)

Same(x, y) == x.call = y.call /\ x.arg = y.arg /\ x.prior = y.prior /\ x.end = y.end

Moving(q, pc) == [q EXCEPT !.pc = pc]
Inserting(q, pc) == [q EXCEPT !.pc = pc, !.inserts = TRUE]
Linking(q, pc) == [q EXCEPT !.pc = pc, !.linked = TRUE]
Issuing(q, pc) == [q EXCEPT !.pc = pc, !.issues = TRUE]
Retiring(q, pc, S) == [q EXCEPT !.pc = pc, !.revokes = S]
Setting(q, pc, b, s) == [q EXCEPT !.pc = pc, !.password = b, !.status = s]
Finding(q, pc, S) == [q EXCEPT !.pc = pc, !.found = S]
Sweeping(q, pc, S) == [q EXCEPT !.pc = pc, !.revokes = S, !.found = {}]

LEMMA PCRecord ==
  ASSUME NEW q \in Request, NEW pc \in PCs
  PROVE  LET x == Moving(q, pc) IN
         /\ x \in Request /\ Same(x, q) /\ x.pc = pc
         /\ x.status = q.status /\ x.linked = q.linked /\ x.inserts = q.inserts
         /\ x.found = q.found /\ x.revokes = q.revokes /\ x.issues = q.issues
  BY DEF Moving, Request, Same

LEMMA InsertRecord ==
  ASSUME NEW q \in Request, NEW pc \in PCs
  PROVE  LET x == Inserting(q, pc) IN
         /\ x \in Request /\ Same(x, q) /\ x.pc = pc /\ x.inserts = TRUE
         /\ x.status = q.status /\ x.linked = q.linked
         /\ x.found = q.found /\ x.revokes = q.revokes /\ x.issues = q.issues
  BY DEF Inserting, Request, Same

LEMMA LinkRecord ==
  ASSUME NEW q \in Request, NEW pc \in PCs
  PROVE  LET x == Linking(q, pc) IN
         /\ x \in Request /\ Same(x, q) /\ x.pc = pc /\ x.linked = TRUE
         /\ x.status = q.status /\ x.inserts = q.inserts
         /\ x.found = q.found /\ x.revokes = q.revokes /\ x.issues = q.issues
  BY DEF Linking, Request, Same

LEMMA IssueRecord ==
  ASSUME NEW q \in Request, NEW pc \in PCs
  PROVE  LET x == Issuing(q, pc) IN
         /\ x \in Request /\ Same(x, q) /\ x.pc = pc /\ x.issues = TRUE
         /\ x.status = q.status /\ x.linked = q.linked /\ x.inserts = q.inserts
         /\ x.found = q.found /\ x.revokes = q.revokes
  BY DEF Issuing, Request, Same

LEMMA RevokeRecord ==
  ASSUME NEW q \in Request, NEW pc \in PCs, NEW S \in SUBSET Tokens
  PROVE  LET x == Retiring(q, pc, S) IN
         /\ x \in Request /\ Same(x, q) /\ x.pc = pc /\ x.revokes = S
         /\ x.status = q.status /\ x.linked = q.linked /\ x.inserts = q.inserts
         /\ x.found = q.found /\ x.issues = q.issues
  BY DEF Retiring, Request, Same

LEMMA SetRecord ==
  ASSUME NEW q \in Request, NEW pc \in PCs, NEW b \in BOOLEAN, NEW s \in Statuses \cup {None}
  PROVE  LET x == Setting(q, pc, b, s) IN
         /\ x \in Request /\ Same(x, q) /\ x.pc = pc /\ x.status = s
         /\ x.linked = q.linked /\ x.inserts = q.inserts
         /\ x.found = q.found /\ x.revokes = q.revokes /\ x.issues = q.issues
  BY DEF Setting, Request, Same

LEMMA FindRecord ==
  ASSUME NEW q \in Request, NEW pc \in PCs, NEW S \in SUBSET Tokens
  PROVE  LET x == Finding(q, pc, S) IN
         /\ x \in Request /\ Same(x, q) /\ x.pc = pc /\ x.found = S
         /\ x.status = q.status /\ x.linked = q.linked /\ x.inserts = q.inserts
         /\ x.revokes = q.revokes /\ x.issues = q.issues
  BY DEF Finding, Request, Same

LEMMA RevokeAllRecord ==
  ASSUME NEW q \in Request, NEW pc \in PCs, NEW S \in SUBSET Tokens
  PROVE  LET x == Sweeping(q, pc, S) IN
         /\ x \in Request /\ Same(x, q) /\ x.pc = pc /\ x.revokes = S /\ x.found = {}
         /\ x.status = q.status /\ x.linked = q.linked /\ x.inserts = q.inserts
         /\ x.issues = q.issues
  BY DEF Sweeping, Request, Same

(* What is left of a request that has ended.                               *)
LEMMA DoneRecord ==
  ASSUME Inv, NEW r \in Requests, NEW end \in {"ok", "refused", "locked", "failed"}
  PROVE  /\ Done(r, end) \in Request
         /\ Done(r, end).pc = "done" /\ Done(r, end).end = end
         /\ Done(r, end).call = req[r].call /\ Done(r, end).arg = req[r].arg
         /\ Done(r, end).prior = req[r].prior
         /\ Done(r, end).issues = IF end = "ok" THEN req[r].issues ELSE FALSE
         /\ Done(r, end).status = None /\ Done(r, end).linked = FALSE
         /\ Done(r, end).inserts = FALSE
         /\ Done(r, end).found = {} /\ Done(r, end).revokes = {}
<1> DEFINE Keep(x, call, arg, prior, issues) ==
             [x EXCEPT !.call = call, !.arg = arg, !.prior = prior, !.issues = issues]
<1>1. ASSUME NEW x \in Request, NEW call \in Calls, NEW arg \in Tokens \cup {None},
             NEW prior \in SUBSET Requests, NEW issues \in BOOLEAN
      PROVE  LET y == Keep(x, call, arg, prior, issues) IN
             /\ y \in Request /\ y.call = call /\ y.arg = arg /\ y.prior = prior
             /\ y.issues = issues /\ y.pc = x.pc /\ y.end = x.end /\ y.status = x.status
             /\ y.linked = x.linked /\ y.inserts = x.inserts /\ y.found = x.found
             /\ y.revokes = x.revokes
  BY DEF Request
<1>2. ASSUME NEW x \in Request
      PROVE  /\ [x EXCEPT !.end = end] \in Request
             /\ [x EXCEPT !.end = end].end = end
             /\ [x EXCEPT !.end = end].pc = x.pc
             /\ [x EXCEPT !.end = end].status = x.status
             /\ [x EXCEPT !.end = end].linked = x.linked
             /\ [x EXCEPT !.end = end].inserts = x.inserts
             /\ [x EXCEPT !.end = end].found = x.found
             /\ [x EXCEPT !.end = end].revokes = x.revokes
  BY DEF Request
<1>3. /\ Over(end) \in Request /\ Over(end).end = end /\ Over(end).pc = "done"
      /\ Over(end).status = None /\ Over(end).linked = FALSE /\ Over(end).inserts = FALSE
      /\ Over(end).found = {} /\ Over(end).revokes = {}
  <2>1. "done" \in PCs
    BY DEF PCs
  <2>2. /\ At("done") \in Request /\ At("done").pc = "done" /\ At("done").status = None
        /\ At("done").linked = FALSE /\ At("done").inserts = FALSE
        /\ At("done").found = {} /\ At("done").revokes = {}
    BY <2>1, AtRecord
  <2>3. QED
    BY <1>2, <2>2 DEF Over
<1>4. PICK issues \in BOOLEAN : /\ issues = (req[r].issues /\ end = "ok")
                               /\ issues = IF end = "ok" THEN req[r].issues ELSE FALSE
  BY DEF Inv, TypeOK, Request
<1>5. /\ req[r].call \in Calls /\ req[r].arg \in Tokens \cup {None}
      /\ req[r].prior \in SUBSET Requests
  BY DEF Inv, TypeOK, Request
<1>6. Done(r, end) = Keep(Over(end), req[r].call, req[r].arg, req[r].prior, issues)
  BY <1>4, Zenon DEF Done
<1> DEFINE y == Keep(Over(end), req[r].call, req[r].arg, req[r].prior, issues)
<1>7. /\ y \in Request /\ y.call = req[r].call /\ y.arg = req[r].arg
      /\ y.prior = req[r].prior /\ y.issues = issues /\ y.pc = "done" /\ y.end = end
      /\ y.status = None /\ y.linked = FALSE /\ y.inserts = FALSE
      /\ y.found = {} /\ y.revokes = {}
  <2> HIDE DEF Keep
  <2>1. QED
    BY <1>1, <1>3, <1>5
<1> HIDE DEF y
<1>8. Done(r, end) = y
  BY <1>6 DEF y
<1>9. QED
  BY <1>4, <1>7, <1>8

-------------------------------------------------------------------------------
(* The steps within a transaction keep the invariant.                      *)

LEMMA Open ==
  ASSUME Inv, NEW r \in Requests, req[r].pc \notin {"new", "done"}
  PROVE  /\ r \in Requests \ Ended
         /\ req[r] \in Request /\ Knows(req[r]) /\ req[r].end = "none"
  BY DEF Inv, TypeOK, Ended, Knows, Fits

LEMMA PCNames ==
  {"issue", "commit", "raise", "revoke", "sweep", "revoke_all"} \subseteq PCs
  BY DEF PCs

LEMMA DoneKnows ==
  ASSUME Inv, NEW r \in Requests, req[r].pc \notin {"new", "done"},
         NEW end \in {"locked", "failed"}
  PROVE  Knows(Done(r, end))
<1>1. PICK x : x = Done(r, end)
  OBVIOUS
<1>2. /\ x.pc = "done" /\ x.end = end /\ x.call = req[r].call /\ x.arg = req[r].arg
      /\ x.prior = req[r].prior /\ x.issues = FALSE
      /\ x.status = None /\ x.linked = FALSE /\ x.inserts = FALSE
      /\ x.found = {} /\ x.revokes = {}
  <2>1. end \in {"ok", "refused", "locked", "failed"} /\ end # "ok"
    OBVIOUS
  <2>2. QED
    BY ZenonT(60), <1>1, <2>1, DoneRecord
<1>3. Knows(req[r])
  BY Open
<1>4. Fits(x) /\ TokensKnown(x)
  BY <1>2, <1>3 DEF Knows, Fits, TokensKnown
<1>5. SweepKnows(x) /\ RefreshKnows(x)
  BY <1>2 DEF SweepKnows, RefreshKnows, Rotating
<1>6. SuspendKnows(x) /\ LoginKnows(x)
  BY <1>2 DEF SuspendKnows, LoginKnows
<1>7. QED
  BY <1>1, <1>2, <1>3, <1>4, <1>5, <1>6 DEF Knows

LEMMA DoneMoves ==
  ASSUME Inv, NEW r \in Requests, req[r].pc \notin {"new", "done"},
         NEW end \in {"locked", "failed"}, Becomes(r, Done(r, end))
  PROVE  Inv'
  BY Open, DoneKnows, DoneRecord, Move

LEMMA AbortKeepsInv ==
  ASSUME Inv, NEW r \in Requests, Abort(r)
  PROVE  Inv'
<1>1. /\ req[r].pc \notin {"new", "done"}
      /\ req' = [req EXCEPT ![r] = Done(r, "failed")]
      /\ user' = user /\ token' = token /\ abortsLeft' \in Nat
  BY DEF Abort, Inv, TypeOK
<1>2. QED
  BY <1>1, Open, DoneKnows, DoneRecord, Moved

LEMMA InsertUserKeepsInv ==
  ASSUME Inv, NEW r \in Requests, InsertUser(r)
  PROVE  Inv'
<1>1. req[r].pc = "insert_user" /\ \A s \in Requests \ {r} : ~req[s].inserts
  BY DEF InsertUser
<1>2. CASE user.rows > 0
  BY <1>1, <1>2, DoneMoves DEF InsertUser
<1>3. CASE ~(user.rows > 0)
  <2>1. user.rows = 0
    BY <1>3 DEF Inv, TypeOK, User
  <2>2. PICK pc \in {"issue", "commit"} :
          (pc = "issue") = req[r].linked /\ pc = IF req[r].linked THEN "issue" ELSE "commit"
    BY Open, <1>1 DEF Request
  <2>3. PICK x : x = Inserting(req[r], pc)
    OBVIOUS
  <2>4. Becomes(r, x)
    BY <1>3, <2>2, <2>3, Zenon DEF InsertUser, Inserting
  <2>5. /\ x \in Request /\ Same(x, req[r]) /\ x.pc = pc /\ x.inserts = TRUE
        /\ x.status = req[r].status /\ x.linked = req[r].linked
        /\ x.found = req[r].found /\ x.revokes = req[r].revokes /\ x.issues = req[r].issues
    <3>1. req[r] \in Request /\ pc \in PCs
      BY <1>1, Open, PCNames
    <3>2. QED
      BY <2>3, <3>1, InsertRecord
  <2>6. Knows(req[r]) /\ r \in Requests \ Ended /\ req[r].call \in {"register", "oauth"}
    BY <1>1, Open DEF Knows, Fits
  <2>7. Fits(x) /\ TokensKnown(x)
    BY <1>1, <2>2, <2>5, <2>6 DEF Knows, Fits, TokensKnown, Same
  <2>8. SweepKnows(x) /\ RefreshKnows(x)
    BY <2>2, <2>5, <2>6 DEF SweepKnows, RefreshKnows, Same, Closing
  <2>9. SuspendKnows(x) /\ LoginKnows(x)
    BY <2>5, <2>6 DEF SuspendKnows, LoginKnows, Same
  <2>10. Knows(x)
    BY <2>5, <2>6, <2>7, <2>8, <2>9 DEF Knows, Same
  <2>11. QED
    BY <1>1, <2>1, <2>4, <2>5, <2>6, <2>10, Move DEF Same
<1>4. QED
  BY <1>2, <1>3

LEMMA LinkKeepsInv ==
  ASSUME Inv, NEW r \in Requests, Link(r)
  PROVE  Inv'
<1>1. req[r].pc = "link"
  BY DEF Link
<1>2. Knows(req[r]) /\ req[r] \in Request /\ r \in Requests \ Ended /\ Fits(req[r])
  BY <1>1, Open DEF Knows
<1>4. PICK x : x = Linking(req[r], "issue")
  OBVIOUS
<1>5. Becomes(r, x)
  BY <1>4, Zenon DEF Link, Linking
<1>6. /\ x \in Request /\ Same(x, req[r])
      /\ x.pc = "issue" /\ x.linked = TRUE
      /\ x.status = req[r].status /\ x.inserts = req[r].inserts
      /\ x.found = req[r].found /\ x.revokes = req[r].revokes /\ x.issues = req[r].issues
  BY ZenonT(60), <1>2, <1>4, PCNames, LinkRecord
<1>7. Fits(x) /\ TokensKnown(x)
  BY <1>1, <1>2, <1>6 DEF Knows, Fits, TokensKnown, Same, Closing, Lifting
<1>8. SweepKnows(x)
  BY <1>1, <1>2, <1>6 DEF Knows, Fits, SweepKnows, Same, Closing
<1>9. RefreshKnows(x)
  BY <1>1, <1>2, <1>6 DEF Knows, Fits, RefreshKnows, Same, Rotating, Closing, Lifting
<1>10. SuspendKnows(x)
  BY <1>1, <1>2, <1>6 DEF Knows, Fits, SuspendKnows, Lifted, Same
<1>11. LoginKnows(x)
  BY <1>1, <1>2, <1>6 DEF Knows, Fits, LoginKnows, Same, Closing, Lifting
<1>12. Knows(x)
  BY <1>2, <1>6, <1>7, <1>8, <1>9, <1>10, <1>11 DEF Knows, Same
<1>13. QED
  BY <1>2, <1>5, <1>6, <1>12, Move DEF Same

LEMMA IssueRefreshTokenKeepsInv ==
  ASSUME Inv, NEW r \in Requests, IssueRefreshToken(r)
  PROVE  Inv'
<1>1. req[r].pc = "issue"
  BY DEF IssueRefreshToken
<1>2. Knows(req[r]) /\ req[r] \in Request /\ r \in Requests \ Ended /\ Fits(req[r])
  BY <1>1, Open DEF Knows
<1>4. PICK x : x = Issuing(req[r], "commit")
  OBVIOUS
<1>5. Becomes(r, x)
  BY <1>4, Zenon DEF IssueRefreshToken, Issuing
<1>6. /\ x \in Request /\ Same(x, req[r])
      /\ x.pc = "commit" /\ x.issues = TRUE
      /\ x.status = req[r].status /\ x.linked = req[r].linked /\ x.inserts = req[r].inserts
      /\ x.found = req[r].found /\ x.revokes = req[r].revokes
  BY ZenonT(60), <1>2, <1>4, PCNames, IssueRecord
<1>7. Fits(x) /\ TokensKnown(x)
  BY <1>1, <1>2, <1>6 DEF Knows, Fits, TokensKnown, Same, Closing, Lifting
<1>8. SweepKnows(x)
  BY <1>1, <1>2, <1>6 DEF Knows, Fits, SweepKnows, Same, Closing
<1>9. RefreshKnows(x)
  BY <1>1, <1>2, <1>6 DEF Knows, Fits, RefreshKnows, Same, Rotating, Closing, Lifting
<1>10. SuspendKnows(x)
  BY <1>1, <1>2, <1>6 DEF Knows, Fits, SuspendKnows, Lifted, Same
<1>11. LoginKnows(x)
  BY <1>1, <1>2, <1>6 DEF Knows, Fits, LoginKnows, Same, Closing, Lifting
<1>12. Knows(x)
  BY <1>2, <1>6, <1>7, <1>8, <1>9, <1>10, <1>11 DEF Knows, Same
<1>13. QED
  BY <1>2, <1>5, <1>6, <1>12, Move DEF Same

LEMMA CheckActiveUserKeepsInv ==
  ASSUME Inv, NEW r \in Requests, CheckUser(r), user.status # "suspended"
  PROVE  Inv'
<1>1. req[r].pc = "check_user"
  BY DEF CheckUser
<1>2. Knows(req[r]) /\ req[r] \in Request /\ r \in Requests \ Ended /\ Fits(req[r])
  BY <1>1, Open DEF Knows
<1>3. user.status # "suspended"
  OBVIOUS
<1>4. PICK x : x = Moving(req[r], "revoke")
  OBVIOUS
<1>5. Becomes(r, x)
  BY <1>3, <1>4, Zenon DEF CheckUser, Moving
<1>6. /\ x \in Request /\ Same(x, req[r])
      /\ x.pc = "revoke"
      /\ x.status = req[r].status /\ x.linked = req[r].linked /\ x.inserts = req[r].inserts
      /\ x.found = req[r].found /\ x.revokes = req[r].revokes /\ x.issues = req[r].issues
  BY ZenonT(60), <1>2, <1>3, <1>4, PCNames, PCRecord
<1>7. Fits(x) /\ TokensKnown(x)
  BY <1>1, <1>2, <1>3, <1>6 DEF Knows, Fits, TokensKnown, Same, Closing, Lifting, RefreshKnows, Rotating
<1>8. SweepKnows(x)
  BY <1>1, <1>2, <1>3, <1>6 DEF Knows, Fits, SweepKnows, Same, Closing
<1>9. RefreshKnows(x)
  BY <1>1, <1>2, <1>3, <1>6 DEF Knows, Fits, RefreshKnows, Same, Rotating, Closing, Lifting
<1>10. SuspendKnows(x)
  BY <1>1, <1>2, <1>3, <1>6 DEF Knows, Fits, SuspendKnows, Lifted, Same
<1>11. LoginKnows(x)
  BY <1>1, <1>2, <1>3, <1>6, EndedIsLifted DEF Knows, Fits, LoginKnows, Same, Closing, Lifting
<1>12. Knows(x)
  BY <1>2, <1>6, <1>7, <1>8, <1>9, <1>10, <1>11 DEF Knows, Same
<1>13. QED
  BY <1>2, <1>5, <1>6, <1>12, Move DEF Same

LEMMA CheckUserKeepsInv ==
  ASSUME Inv, NEW r \in Requests, CheckUser(r)
  PROVE  Inv'
<1>1. CASE user.status = "suspended"
  BY <1>1, DoneMoves DEF CheckUser
<1>2. CASE user.status # "suspended"
  BY <1>2, CheckActiveUserKeepsInv
<1>3. QED
  BY <1>1, <1>2

LEMMA RevokeKeepsInv ==
  ASSUME Inv, NEW r \in Requests, Revoke(r)
  PROVE  Inv'
<1>1. req[r].pc = "revoke"
  BY DEF Revoke
<1>2. Knows(req[r]) /\ req[r] \in Request /\ r \in Requests \ Ended /\ Fits(req[r])
  BY <1>1, Open DEF Knows
<1>3. /\ {req[r].arg} \in SUBSET Tokens
      /\ \E pc \in {"issue", "commit"} : pc = IF req[r].call = "refresh" THEN "issue" ELSE "commit"
  BY <1>1, <1>2 DEF Knows, TokensKnown, Request
<1> PICK pc \in {"issue", "commit"} : pc = IF req[r].call = "refresh" THEN "issue" ELSE "commit"
  OBVIOUS
<1>4. PICK x : x = Retiring(req[r], pc, {req[r].arg})
  OBVIOUS
<1>5. Becomes(r, x)
  BY <1>3, <1>4, Zenon DEF Revoke, Retiring
<1>6. /\ x \in Request /\ Same(x, req[r])
      /\ x.pc = pc /\ x.revokes = {req[r].arg}
      /\ x.status = req[r].status /\ x.linked = req[r].linked /\ x.inserts = req[r].inserts
      /\ x.found = req[r].found /\ x.issues = req[r].issues
  BY <1>2, <1>3, <1>4, PCNames, RevokeRecord
<1>7. Fits(x) /\ TokensKnown(x)
  BY <1>1, <1>2, <1>3, <1>6 DEF Knows, Fits, TokensKnown, Same, Closing, Lifting
<1>8. SweepKnows(x)
  BY <1>1, <1>2, <1>3, <1>6 DEF Knows, Fits, SweepKnows, Same, Closing
<1>9. RefreshKnows(x)
  BY <1>1, <1>2, <1>3, <1>6 DEF Knows, Fits, RefreshKnows, Same, Rotating, Closing, Lifting
<1>10. SuspendKnows(x)
  BY <1>1, <1>2, <1>3, <1>6 DEF Knows, Fits, SuspendKnows, Lifted, Same
<1>11. LoginKnows(x)
  BY <1>1, <1>2, <1>3, <1>6 DEF Knows, Fits, LoginKnows, Same, Closing, Lifting
<1>12. Knows(x)
  BY <1>2, <1>6, <1>7, <1>8, <1>9, <1>10, <1>11 DEF Knows, Same
<1>13. QED
  BY <1>2, <1>5, <1>6, <1>12, Move DEF Same

LEMMA SweepKeepsInv ==
  ASSUME Inv, NEW r \in Requests, Sweep(r)
  PROVE  Inv'
<1>1. req[r].pc = "sweep"
  BY DEF Sweep
<1>2. Knows(req[r]) /\ req[r] \in Request /\ r \in Requests \ Ended /\ Fits(req[r])
  BY <1>1, Open DEF Knows
<1>3. PICK S \in SUBSET Tokens : S = {t \in Tokens : token[t] \in {"active", "expired"}}
  OBVIOUS
<1>4. PICK x : x = Finding(req[r], "revoke_all", S)
  OBVIOUS
<1>5. Becomes(r, x)
  BY <1>3, <1>4, Zenon DEF Sweep, Finding
<1>6. /\ x \in Request /\ Same(x, req[r])
      /\ x.pc = "revoke_all" /\ x.found = S
      /\ x.status = req[r].status /\ x.linked = req[r].linked /\ x.inserts = req[r].inserts
      /\ x.revokes = req[r].revokes /\ x.issues = req[r].issues
  BY <1>2, <1>3, <1>4, PCNames, FindRecord
<1>7. Fits(x) /\ TokensKnown(x)
  BY <1>1, <1>2, <1>3, <1>6 DEF Knows, Fits, TokensKnown, Same, Closing, Lifting
<1>8. SweepKnows(x)
  BY <1>1, <1>2, <1>3, <1>6 DEF Knows, Fits, SweepKnows, Same, Closing, Ended, Tokens
<1>9. RefreshKnows(x)
  BY <1>1, <1>2, <1>3, <1>6 DEF Knows, Fits, RefreshKnows, Same, Rotating, Closing, Lifting
<1>10. SuspendKnows(x)
  BY <1>1, <1>2, <1>3, <1>6 DEF Knows, Fits, SuspendKnows, Lifted, Same
<1>11. LoginKnows(x)
  BY <1>1, <1>2, <1>3, <1>6 DEF Knows, Fits, LoginKnows, Same, Closing, Lifting
<1>12. Knows(x)
  BY <1>2, <1>6, <1>7, <1>8, <1>9, <1>10, <1>11 DEF Knows, Same
<1>13. QED
  BY <1>2, <1>5, <1>6, <1>12, Move DEF Same

LEMMA RevokeAllKeepsInv ==
  ASSUME Inv, NEW r \in Requests, RevokeAll(r)
  PROVE  Inv'
<1>1. req[r].pc = "revoke_all"
  BY DEF RevokeAll
<1>2. Knows(req[r]) /\ req[r] \in Request /\ r \in Requests \ Ended /\ Fits(req[r])
  BY <1>1, Open DEF Knows
<1>3. /\ req[r].found \in SUBSET Tokens
      /\ \E pc \in {"raise", "commit"} : pc = IF req[r].call = "refresh" THEN "raise" ELSE "commit"
  BY <1>2 DEF Request
<1> PICK pc \in {"raise", "commit"} : pc = IF req[r].call = "refresh" THEN "raise" ELSE "commit"
  OBVIOUS
<1>4. PICK x : x = Sweeping(req[r], pc, req[r].found)
  OBVIOUS
<1>5. Becomes(r, x)
  BY <1>3, <1>4, Zenon DEF RevokeAll, Sweeping
<1>6. /\ x \in Request /\ Same(x, req[r])
      /\ x.pc = pc /\ x.revokes = req[r].found /\ x.found = {}
      /\ x.status = req[r].status /\ x.linked = req[r].linked /\ x.inserts = req[r].inserts
      /\ x.issues = req[r].issues
  BY <1>2, <1>3, <1>4, PCNames, RevokeAllRecord
<1>7. Fits(x) /\ TokensKnown(x)
  BY <1>1, <1>2, <1>3, <1>6 DEF Knows, Fits, TokensKnown, Same, Closing, Lifting
<1>8. SweepKnows(x)
  BY <1>1, <1>2, <1>3, <1>6 DEF Knows, Fits, SweepKnows, Same, Closing
<1>9. RefreshKnows(x)
  BY <1>1, <1>2, <1>3, <1>6 DEF Knows, Fits, RefreshKnows, Same, Rotating, Closing, Lifting
<1>10. SuspendKnows(x)
  BY <1>1, <1>2, <1>3, <1>6 DEF Knows, Fits, SuspendKnows, Lifted, Same
<1>11. LoginKnows(x)
  BY <1>1, <1>2, <1>3, <1>6 DEF Knows, Fits, LoginKnows, Same, Closing, Lifting
<1>12. Knows(x)
  BY <1>2, <1>6, <1>7, <1>8, <1>9, <1>10, <1>11 DEF Knows, Same
<1>13. QED
  BY <1>2, <1>5, <1>6, <1>12, Move DEF Same

LEMMA SetUserKeepsInv ==
  ASSUME Inv, NEW r \in Requests, SetUser(r)
  PROVE  Inv'
<1>1. req[r].pc = "set_user"
  BY DEF SetUser
<1>2. Knows(req[r]) /\ req[r] \in Request /\ r \in Requests \ Ended /\ Fits(req[r])
  BY <1>1, Open DEF Knows
<1>3. PICK pc \in {"sweep", "commit"}, b \in BOOLEAN, s \in Statuses \cup {None} :
        /\ pc = IF req[r].call = "unsuspend" THEN "commit" ELSE "sweep"
        /\ b = (req[r].call = "reset")
        /\ s = IF req[r].call = "reset" THEN None ELSE NewStatus[req[r].call]
  <2>1. PICK b \in BOOLEAN : b = (req[r].call = "reset")
    OBVIOUS
  <2>2. PICK s \in Statuses \cup {None} :
          s = IF req[r].call = "reset" THEN None ELSE NewStatus[req[r].call]
    BY <1>1, <1>2 DEF Fits, NewStatus, Statuses, Closing, Lifting
  <2>3. QED
    BY <2>1, <2>2
<1>3a. pc \in PCs /\ b \in BOOLEAN /\ s \in Statuses \cup {None}
  BY PCNames
<1>4. PICK x : x = Setting(req[r], pc, b, s)
  OBVIOUS
<1>5. Becomes(r, x)
  BY <1>3, <1>4, Zenon DEF SetUser, Setting
<1>6. /\ x \in Request /\ Same(x, req[r])
      /\ x.pc = pc /\ x.status = s
      /\ x.linked = req[r].linked /\ x.inserts = req[r].inserts
      /\ x.found = req[r].found /\ x.revokes = req[r].revokes /\ x.issues = req[r].issues
  BY <1>2, <1>3a, <1>4, PCNames, SetRecord
<1>7. Fits(x) /\ TokensKnown(x)
  BY <1>1, <1>2, <1>3, <1>6 DEF Knows, Fits, TokensKnown, Same, Closing, Lifting, NewStatus
<1>8. SweepKnows(x)
  BY <1>1, <1>2, <1>3, <1>6 DEF Knows, Fits, SweepKnows, Same, Closing
<1>9. RefreshKnows(x)
  BY <1>1, <1>2, <1>3, <1>6 DEF Knows, Fits, RefreshKnows, Same, Rotating, Closing, Lifting
<1>10. SuspendKnows(x)
  BY <1>1, <1>2, <1>3, <1>6 DEF Knows, Fits, SuspendKnows, Lifted, Same, NewStatus
<1>11. LoginKnows(x)
  BY <1>1, <1>2, <1>3, <1>6 DEF Knows, Fits, LoginKnows, Same, Closing, Lifting
<1>12. Knows(x)
  BY <1>2, <1>6, <1>7, <1>8, <1>9, <1>10, <1>11 DEF Knows, Same
<1>13. QED
  BY <1>2, <1>5, <1>6, <1>12, Move DEF Same

-------------------------------------------------------------------------------
(* The end of a transaction, and the expiry of a token.                    *)

LEMMA ExpireKeepsInv ==
  ASSUME Inv, NEW t \in Tokens, Expire(t)
  PROVE  Inv'
<1>1. /\ token[t] = "active" /\ token' = [token EXCEPT ![t] = "expired"]
      /\ user' = user /\ req' = req /\ abortsLeft' = abortsLeft
      /\ token \in [Tokens -> TokenStates]
  BY DEF Expire, Inv, TypeOK
<1>2. TypeOK'
  BY <1>1 DEF Inv, TypeOK, TokenStates
<1>3. OneInsert' /\ Unissued'
  BY <1>1 DEF Inv, OneInsert, Unissued, Ended, Tokens
<1>4. Forward
  BY <1>1 DEF Forward, Ended, Tokens
<1>5. \A r \in Requests : req[r] \in Request /\ Knows(req[r])
  BY DEF Inv, TypeOK
<1>6. ASSUME NEW r \in Requests
      PROVE  Knows(req[r])'
  <2>1. PICK y : y = req[r]
    OBVIOUS
  <2>2. Knows(y)'
    BY <1>4, <1>5, <2>1, KnowsStays
  <2>3. QED
    BY <1>1, <2>1, <2>2
<1>7. QED
  BY <1>2, <1>3, <1>6 DEF Inv

(* What a transaction has written becomes the state.                       *)
Saved(r, end) ==
  /\ \/ req[r].pc = "commit" /\ end = "ok"
     \/ req[r].pc = "raise" /\ end = "refused"
  /\ Save(r)
  /\ req' = [req EXCEPT ![r] = Done(r, end)]
  /\ abortsLeft' = abortsLeft

LEMMA SaveFacts ==
  ASSUME Inv, NEW r \in Requests, NEW end, Saved(r, end)
  PROVE  /\ end \in {"ok", "refused"}
         /\ r \in Requests \ Ended /\ Knows(req[r]) /\ req[r] \in Request
         /\ token[r] = "none"
         /\ \A t \in Tokens : token'[t] = IF t \in req[r].revokes THEN "revoked"
                                         ELSE IF t = r /\ req[r].issues THEN "active"
                                         ELSE token[t]
         /\ token' \in [Tokens -> TokenStates]
         /\ user'.status = IF req[r].status = None THEN user.status ELSE req[r].status
         /\ user' \in User
         /\ user'.rows = IF req[r].inserts THEN 1 ELSE user.rows
         /\ \A s \in Requests \ {r} : req'[s] = req[s]
         /\ req' \in [Requests -> Request]
         /\ req'[r] = Done(r, end)
<1>1. end \in {"ok", "refused"} /\ req[r].pc \notin {"new", "done"}
  BY DEF Saved
<1>2. r \in Requests \ Ended /\ Knows(req[r]) /\ req[r] \in Request
  BY <1>1, Open
<1>3. token[r] = "none"
  BY <1>2 DEF Inv, Unissued
<1>4. token' = [t \in Tokens |-> IF t \in req[r].revokes THEN "revoked"
                                 ELSE IF t = r /\ req[r].issues THEN "active" ELSE token[t]]
  BY DEF Saved, Save
<1>5. token' \in [Tokens -> TokenStates]
  BY <1>4 DEF Inv, TypeOK, TokenStates
<1>6. /\ user'.status = IF req[r].status = None THEN user.status ELSE req[r].status
      /\ user' \in User
      /\ user'.rows = IF req[r].inserts THEN 1 ELSE user.rows
  <2> DEFINE q == req[r]
  <2>1. user' = [user EXCEPT !.rows = IF q.inserts THEN @ + 1 ELSE @,
                             !.status = IF q.status = None THEN @ ELSE q.status,
                             !.linked = @ \/ q.linked,
                             !.password = IF q.inserts /\ ~q.linked THEN "first"
                                          ELSE IF q.password THEN "second" ELSE @]
    BY DEF Saved, Save
  <2>2. user \in User /\ (q.inserts => user.rows = 0)
    BY DEF Inv, TypeOK, OneInsert
  <2>3. PICK rows \in {0, 1} : rows = IF q.inserts THEN user.rows + 1 ELSE user.rows
    BY <2>2 DEF User
  <2>4. PICK status \in Statuses : status = IF q.status = None THEN user.status ELSE q.status
    BY <1>2, <2>2 DEF User, Request
  <2>5. PICK linked \in BOOLEAN : linked = (user.linked \/ q.linked)
    OBVIOUS
  <2>6. PICK password \in {"none", "first", "second"} :
          password = IF q.inserts /\ ~q.linked THEN "first"
                     ELSE IF q.password THEN "second" ELSE user.password
    BY <2>2 DEF User
  <2>7. user' = [user EXCEPT !.rows = rows, !.status = status, !.linked = linked,
                             !.password = password]
    BY <2>1, <2>3, <2>4, <2>5, <2>6, Zenon
  <2> HIDE DEF q
  <2>8. user' \in User /\ user'.status = status /\ user'.rows = rows
    BY <2>2, <2>7 DEF User
  <2>9. QED
    BY <2>2, <2>3, <2>4, <2>8 DEF q
<1>7. req \in [Requests -> Request] /\ req' = [req EXCEPT ![r] = Done(r, end)]
  BY DEF Saved, Inv, TypeOK
<1>8. Done(r, end) \in Request
  BY <1>1, DoneRecord
<1>9. QED
  BY <1>1, <1>2, <1>3, <1>4, <1>5, <1>6, <1>7, <1>8

LEMMA SaveForward ==
  ASSUME Inv, NEW r \in Requests, NEW end, Saved(r, end)
  PROVE  Forward
<1>0. Done(r, end).call = req[r].call
  <2>1. end \in {"ok", "refused", "locked", "failed"}
    BY SaveFacts
  <2>2. QED
    BY <2>1, DoneRecord
<1> USE SaveFacts
<1>1. \A t \in Devices \cup Ended : t \in Tokens /\ t # r
  BY DEF Tokens, Ended
<1>2. \A t \in Devices \cup Ended : token'[t] = "active" => token[t] = "active"
  BY <1>1
<1>3. \A t \in Tokens : /\ token[t] = "revoked" => token'[t] = "revoked"
                       /\ token[t] # "none" => token'[t] # "none"
  OBVIOUS
<1>4. \A s \in Ended : req'[s] = req[s]
  BY DEF Ended
<1>5. req'[r].call = req[r].call
  BY <1>0
<1>6. \A s \in Requests : req[s].call \in Lifting => req'[s].call = req[s].call
  BY <1>5
<1>7. ASSUME user.status = "suspended", user'.status # "suspended"
      PROVE  \E u \in Requests \ Ended : req[u].call \in Lifting
  BY <1>7 DEF Knows, Fits
<1>8. QED
  BY <1>2, <1>3, <1>4, <1>6, <1>7 DEF Forward

LEMMA SaverKnows ==
  ASSUME Inv, NEW r \in Requests, NEW end, Saved(r, end)
  PROVE  Knows(req[r])'
<1> DEFINE q == req[r]
<1>1. PICK y : y = Done(r, end)
  OBVIOUS
<1>2. /\ y \in Request /\ y.pc = "done" /\ y.end = end /\ y.call = q.call /\ y.arg = q.arg
      /\ y.prior = q.prior /\ y.issues = IF end = "ok" THEN q.issues ELSE FALSE
      /\ y.status = None /\ y.linked = FALSE /\ y.inserts = FALSE
      /\ y.found = {} /\ y.revokes = {}
  <2>1. end \in {"ok", "refused", "locked", "failed"}
    BY SaveFacts
  <2>2. QED
    BY ZenonT(60), <1>1, <2>1, DoneRecord
<1>3. Knows(q) /\ Fits(q) /\ q \in Request /\ q.prior \subseteq Ended
  BY SaveFacts DEF Knows
<1>4. Forward
  BY SaveForward
<1>5. \A t \in Devices \cup q.prior : t \in Tokens /\ t # r
  BY <1>3, SaveFacts DEF Tokens, Ended
<1>6. \/ q.pc = "commit" /\ end = "ok"
      \/ q.pc = "raise" /\ end = "refused"
  BY DEF Saved
<1>7. q.prior \subseteq Ended'
  BY <1>3, <1>4 DEF Forward, Ended
<1>8. Fits(y)' /\ TokensKnown(y)'
  <2>1. Fits(y)'
    BY <1>2, <1>3, <1>6 DEF Fits
  <2>2. TokensKnown(y)'
    BY <1>2, <1>3, <1>4 DEF Knows, TokensKnown, Forward, Request
  <2>3. QED
    BY <2>1, <2>2
<1>9. SweepKnows(y)'
  <2>1. ASSUME NEW t \in Devices \cup q.prior, token'[t] = "active"
        PROVE  token[t] = "active" /\ t \notin q.revokes
    BY <1>3, <1>4, <1>5, <2>1, SaveFacts DEF Forward
  <2>2. SweepKnows(q)
    BY <1>3 DEF Knows
  <2>3. QED
    BY <1>2, <1>6, <2>1, <2>2 DEF SweepKnows
<1>10. RefreshKnows(y)'
  <2>1. RefreshKnows(q) /\ (q.arg # None => q.arg \in Tokens)
    BY <1>3 DEF Knows, Request
  <2>2. \A p \in q.prior : req'[p] = req[p]
    BY <1>3, <1>4 DEF Forward
  <2>3. \A t \in Tokens : t \in q.revokes => token'[t] = "revoked"
    BY SaveFacts
  <2>4. QED
    BY <1>2, <1>6, <2>1, <2>2, <2>3 DEF RefreshKnows, Rotating
<1>11. ASSUME NEW x, Lifted(x)
       PROVE  Lifted(x)'
  BY <1>4, <1>11 DEF Lifted, Forward
<1>12. SuspendKnows(y)'
  <2>1. CASE q.call = "suspend" /\ end = "ok"
    <3>1. CASE q.status = None
      <4>1. user.status = "suspended" \/ Lifted(q)
        BY <1>3, <1>6, <2>1, <3>1 DEF Knows, SuspendKnows
      <4>2. Lifted(q) = Lifted(y)
        BY <1>2 DEF Lifted
      <4>3. Lifted(y) => Lifted(y)'
        BY <1>11
      <4>4. user'.status = user.status
        BY <3>1, SaveFacts
      <4>5. QED
        BY <4>1, <4>2, <4>3, <4>4 DEF SuspendKnows
    <3>2. CASE q.status # None
      <4>1. user'.status = "suspended"
        BY <1>3, <2>1, <3>2, SaveFacts DEF Fits, Lifting
      <4>2. QED
        BY <4>1 DEF SuspendKnows
    <3>3. QED
      BY <3>1, <3>2
  <2>2. CASE ~(q.call = "suspend" /\ end = "ok")
    BY <1>2, <2>2 DEF SuspendKnows
  <2>3. QED
    BY <2>1, <2>2
<1>13. LoginKnows(y)'
  <2>1. ASSUME NEW s \in q.prior, Lifted(req[s])
        PROVE  Lifted(req[s])'
    <3>1. req'[s] = req[s]
      BY <1>3, <1>4 DEF Forward
    <3>2. QED
      BY <1>4, <2>1, <3>1 DEF Lifted, Forward
  <2>2. \A s \in q.prior : req'[s] = req[s]
    BY <1>3, <1>4 DEF Forward
  <2>3. LoginKnows(q)
    BY <1>3 DEF Knows
  <2>4. QED
    BY <1>2, <2>1, <2>2, <2>3 DEF LoginKnows
<1>14. Knows(y)'
  BY <1>2, <1>7, <1>8, <1>9, <1>10, <1>12, <1>13 DEF Knows
<1>15. QED
  BY <1>1, <1>14, SaveFacts

LEMMA SaveKeepsInv ==
  ASSUME Inv, NEW r \in Requests, NEW end, Saved(r, end)
  PROVE  Inv'
<1>1. TypeOK'
  BY SaveFacts DEF Saved, Inv, TypeOK
<1>2. /\ req'[r].inserts = FALSE /\ req'[r].pc = "done"
      /\ \A s \in Requests \ {r} : req'[s] = req[s]
  <2>1. end \in {"ok", "refused", "locked", "failed"}
    BY SaveFacts
  <2>2. Done(r, end).inserts = FALSE /\ Done(r, end).pc = "done"
    BY <2>1, DoneRecord
  <2>3. QED
    BY <2>2, SaveFacts
<1>3. OneInsert'
  BY <1>2, SaveFacts DEF Inv, OneInsert
<1>4. Unissued'
  <2>1. ASSUME NEW s \in Requests, req'[s].pc # "done"
        PROVE  token'[s] = "none"
    <3>1. s \in Requests \ Ended /\ s # r /\ s \in Tokens
      BY <1>2, <2>1 DEF Ended, Tokens
    <3>2. token[s] = "none" /\ s \notin req[r].revokes
      BY <3>1, SaveFacts DEF Inv, Unissued, Knows, TokensKnown
    <3>3. QED
      BY <3>1, <3>2, SaveFacts
  <2>2. QED
    BY <2>1 DEF Unissued, Ended
<1>5. ASSUME NEW s \in Requests \ {r}
      PROVE  Knows(req[s])'
  <2>1. PICK y : y = req[s]
    OBVIOUS
  <2>2. y \in Request /\ Knows(y)
    BY <2>1 DEF Inv, TypeOK
  <2>3. Knows(y)'
    BY <2>2, SaveForward, KnowsStays
  <2>4. QED
    BY <1>2, <2>1, <2>3
<1>6. QED
  BY <1>1, <1>3, <1>4, <1>5, SaverKnows DEF Inv

-------------------------------------------------------------------------------
LEMMA StepKeepsInv ==
  ASSUME Inv, NEW r \in Requests, Step(r)
  PROVE  Inv'
<1>1. CASE Commit(r)
  <2>1. Saved(r, "ok")
    BY <1>1 DEF Commit, Saved
  <2>2. QED
    BY <2>1, SaveKeepsInv
<1>2. CASE CommitAndRaise(r)
  <2>1. Saved(r, "refused")
    BY <1>2 DEF CommitAndRaise, Saved
  <2>2. QED
    BY <2>1, SaveKeepsInv
<1>3. CASE InsertUser(r) \/ Link(r) \/ IssueRefreshToken(r) \/ CheckUser(r)
  BY <1>3, InsertUserKeepsInv, LinkKeepsInv, IssueRefreshTokenKeepsInv, CheckUserKeepsInv
<1>4. CASE Revoke(r) \/ SetUser(r) \/ Sweep(r) \/ RevokeAll(r)
  BY <1>4, RevokeKeepsInv, SetUserKeepsInv, SweepKeepsInv, RevokeAllKeepsInv
<1>5. QED
  BY <1>1, <1>2, <1>3, <1>4 DEF Step

LEMMA InvNext == Inv /\ [Next]_vars => Inv'
<1> SUFFICES ASSUME Inv, [Next]_vars
             PROVE  Inv'
  OBVIOUS
<1>1. ASSUME NEW r \in Requests, Call(r) \/ Step(r) \/ Abort(r)
      PROVE  Inv'
  BY <1>1, CallKeepsInv, StepKeepsInv, AbortKeepsInv
<1>2. ASSUME NEW t \in Tokens, Expire(t)
      PROVE  Inv'
  BY <1>2, ExpireKeepsInv
<1>3. CASE UNCHANGED vars
  BY <1>3 DEF vars, Inv, TypeOK, OneInsert, Unissued, Ended, Knows, Fits, TokensKnown,
     SweepKnows, RefreshKnows, SuspendKnows, LoginKnows, Lifted
<1>4. QED
  BY <1>1, <1>2, <1>3 DEF Next

LEMMA Invariance == Spec => []Inv
<1>1. Init => Inv
  BY InvInit
<1>2. Inv /\ [Next]_vars => Inv'
  BY InvNext
<1>3. QED
  BY <1>1, <1>2, PTL DEF Spec

-------------------------------------------------------------------------------
(* The state is well typed; in particular there is never a second account  *)
(* with the email, however registrations and Google sign-ins race.         *)
THEOREM SessionsTypeCorrect == Spec => []TypeOK
<1>1. Inv => TypeOK
  BY DEF Inv
<1>2. QED
  BY <1>1, Invariance, PTL

(* A password reset, a suspension, a deletion and a refresh that finds its *)
(* token revoked leave none of the sessions active that there were when    *)
(* they began, although the last answers with an error (auth_service,      *)
(* revoke_all_for_user).                                                   *)
THEOREM SweepsAreCompleteCorrect == Spec => []SweepsAreComplete
<1>1. Inv => SweepsAreComplete
  BY DEF Inv, Knows, SweepKnows, SweepsAreComplete, EndsAllSessions, Closing, Tokens
<1>2. QED
  BY <1>1, Invariance, PTL

(* No two requests exchange the same refresh token one after the other     *)
(* (auth_service.refresh).                                                 *)
THEOREM OneSuccessorCorrect == Spec => []OneSuccessor
<1>1. Inv => OneSuccessor
  BY DEF Inv, Knows, RefreshKnows, OneSuccessor
<1>2. QED
  BY <1>1, Invariance, PTL

(* An account that has been suspended gets a session by its password or a  *)
(* refresh token only after a request that lifts the suspension            *)
(* (auth_service.login and refresh, admin_service, user_service).          *)
THEOREM SuspensionHoldsCorrect == Spec => []SuspensionHolds
<1>1. Inv => SuspensionHolds
  BY DEF Inv, Knows, LoginKnows, Lifted, Lifting, SuspensionHolds
<1>2. QED
  BY <1>1, Invariance, PTL
===============================================================================
