------------------------------- MODULE RateLimit -------------------------------
(***************************************************************************)
(* The Redis-backed limits: token buckets (the general tier, and the AI    *)
(* tier with its daily cap), the throttle of sign-in attempts, and the     *)
(* cooldown of verification emails.  One user, one client address.         *)
(*                                                                         *)
(* A request reads its process's clock before it runs the bucket's script  *)
(* in Redis, so scripts may run in another order than their clocks were    *)
(* read.  The throttle is several Redis commands, and a command may fail.  *)
(* Time is relative: ages of what has happened, time left of what expires. *)
(***************************************************************************)
EXTENDS Naturals, Sequences, FiniteSets, FiniteSetsExt

CONSTANTS
  Requests,     (* API requests; each makes one call                       *)
  Capacity,     (* tokens that a tier's bucket holds                       *)
  Period,       (* time in which a tier's empty bucket is full             *)
  Threshold,    (* AuthThrottle.THRESHOLD                                  *)
  Window,       (* AuthThrottle.WINDOW_SECONDS                             *)
  Cooldown,     (* RESEND_COOLDOWN_SECONDS                                 *)
  MaxLag,       (* bound: time between a clock's reading and the script    *)
  MaxAge,       (* how long an answer is remembered                        *)
  FaultBudget,  (* bound: Redis commands that fail                         *)
  Forever       (* a key without a time to live                            *)

Tiers == {"general", "general_ip", "ai", "ai_daily"}

(* A clock's reading is not so old that the bucket has filled up since:    *)
(* a key dropped in between would forget how far its clock had come.       *)
ASSUME RateLimitAssumption ==
  /\ IsFiniteSet(Requests)
  /\ Capacity \in [Tiers -> Nat \ {0}] /\ Period \in [Tiers -> Nat \ {0}]
  /\ {Threshold, Window, Cooldown} \subseteq Nat \ {0}
  /\ {MaxLag, FaultBudget} \subseteq Nat
  /\ MaxAge \in Nat /\ \A k \in Tiers : Period[k] \in MaxLag..MaxAge
  /\ Forever \notin Nat

VARIABLES
  bucket,      (* each tier's key in Redis                                 *)
  throttle,    (* the counter of attempts for this account and address     *)
  cooldown,    (* time left of the key of the last verification email      *)
  req,         (* each request                                             *)
  slip,        (* history: how far each bucket's clock has been set back   *)
  faultsLeft   (* what is left of FaultBudget                              *)

vars == <<bucket, throttle, cooldown, req, slip, faultsLeft>>

-------------------------------------------------------------------------------
(* A token is Period[k] units, so that a bucket gains Capacity[k] units    *)
(* per unit of time.  "age" is the time since its timestamp, "ttl" the     *)
(* time left until Redis drops the key, 0 when there is none.  "last"      *)
(* (history) is the last request to run the script.                        *)
Full(k) == Capacity[k] * Period[k]

Remembered == Tiers \ {"general_ip"}

Bucket(k) == [tokens : 0..Full(k), age : 0..(2 * Period[k] + MaxLag), ttl : 0..(2 * Period[k]),
              last : Requests \cup {Forever}]

NoBucket == [tokens |-> 0, age |-> 0, ttl |-> 0, last |-> Forever]

(* "count" is 0 when there is no key.                                      *)
Throttle == [count : Nat, ttl : 0..Window \cup {Forever}]

Calls == {"none", "ai", "login", "register", "resend"}

(* "tiers" are those still to pass, "lag" is the age of the clock that was *)
(* read.  History: "retry" the Retry-After of a refusal, "nth" the         *)
(* attempts counted with this one, "open" whether the check was skipped,   *)
(* "passed" the tiers whose script took a token and "ago" the time since   *)
(* the answer (but for the address's tier), "prior" the requests counted   *)
(* and over when it began.                                                 *)
Request == [pc : {"new", "script", "check", "verify", "incr", "expire", "reset",
                  "cooldown", "done"},
            call : Calls, tiers : Seq(Tiers), lag : 0..MaxLag,
            end : {"none", "ok", "refused", "unexpired"}, by : Tiers \cup {"none", "throttle", "cooldown"},
            retry : Nat, ago : 0..MaxAge, nth : Nat, open : BOOLEAN,
            passed : [Remembered -> 0..MaxAge \cup {Forever}], prior : SUBSET Requests]

NewRequest == [pc |-> "new", call |-> "none", tiers |-> <<>>, lag |-> 0, end |-> "none",
               by |-> "none", retry |-> 0, ago |-> 0, nth |-> 0, open |-> FALSE,
               passed |-> [k \in Remembered |-> Forever], prior |-> {}]

Init ==
  /\ bucket = [k \in Tiers |-> NoBucket]
  /\ throttle = [count |-> 0, ttl |-> 0]
  /\ cooldown = 0
  /\ req = [r \in Requests |-> NewRequest]
  /\ slip = [k \in Remembered |-> 0]
  /\ faultsLeft = FaultBudget

-------------------------------------------------------------------------------
At(r, pc) == req[r].pc = pc

(* The answer, and what is remembered of it.                               *)
Done(r, end, by) ==
  [req[r] EXCEPT !.pc = "done", !.tiers = <<>>, !.lag = 0, !.end = end, !.by = by]

(* The routers' order: their tier, the tiers of the route, the handler.    *)
TiersOf(call) ==
  CASE call = "ai" -> <<"general", "ai", "ai_daily">>
    [] call = "resend" -> <<"general">>
    [] call \in {"login", "register"} -> <<"general_ip">>

(* Bound: calls that have no key of Redis in common do not mix.            *)
Mixed(call) == {c \in Calls \ {"none"} : Head(TiersOf(c)) = Head(TiersOf(call))}

Handler == [login |-> "check", register |-> "check", resend |-> "cooldown"]

Call(r, call) ==
  /\ At(r, "new")
  /\ \A s \in Requests \ {r} : req[s].call \in {"none"} \cup Mixed(call)
  /\ req' = [req EXCEPT ![r].pc = "script", ![r].call = call, ![r].tiers = TiersOf(call),
                        ![r].prior = {s \in Requests : req[s].nth > 0 /\ At(s, "done")}]
  /\ UNCHANGED <<bucket, throttle, cooldown, slip, faultsLeft>>

-------------------------------------------------------------------------------
(* Token buckets.                                                          *)

(* Mutant: what a bucket gains is not capped. *)
Refilled_Uncapped(k, lag) ==
  LET b == bucket[k] IN
  IF b.ttl = 0 THEN Full(k) ELSE b.tokens + Capacity[k] * (IF b.age > lag THEN b.age - lag ELSE 0)

(* The tokens that the script finds, for a clock that is lag behind.       *)
Refilled(k, lag) ==
  LET b == bucket[k]
      elapsed == IF b.age > lag THEN b.age - lag ELSE 0
  IN  IF b.ttl = 0 THEN Full(k) ELSE Min({Full(k), b.tokens + Capacity[k] * elapsed})

(* Mutant: the wait is rounded down. *)
RetryAfter_Floor(k, tokens) == (Period[k] - tokens) \div Capacity[k]

(* math.ceil((1 - tokens) / refill_rate).                                  *)
RetryAfter(k, tokens) == (Period[k] - tokens + Capacity[k] - 1) \div Capacity[k]

(* The request that has passed the tier goes on with the next (reading the *)
(* clock, time.time(), before it sends the script), or with the handler.   *)
Passed(r) ==
  LET rest == Tail(req[r].tiers) IN
  IF rest # <<>> THEN [req[r] EXCEPT !.pc = "script", !.tiers = rest, !.lag = 0]
  ELSE IF req[r].call \in DOMAIN Handler
       THEN [req[r] EXCEPT !.pc = Handler[req[r].call], !.tiers = <<>>, !.lag = 0]
       ELSE Done(r, "ok", "none")

(* The script: refill, take a token or say when there will be one, and set *)
(* the timestamp to the clock that was read.  (The Retry-After of the      *)
(* daily tier is the time to midnight, which is left out.)                 *)
RunScript(r) ==
  LET k == Head(req[r].tiers)
      lag == req[r].lag
      tokens == Refilled(k, lag)
      allowed == tokens >= Period[k]
  IN
  /\ At(r, "script")
  /\ bucket' = [bucket EXCEPT ![k] =
       [tokens |-> IF allowed THEN tokens - Period[k] ELSE tokens, age |-> lag,
        ttl |-> 2 * Period[k], last |-> r]]
  /\ slip' = IF bucket[k].ttl > 0 /\ k \in Remembered /\ lag > bucket[k].age
             THEN [slip EXCEPT ![k] = @ + lag - bucket[k].age] ELSE slip
  /\ req' = [req EXCEPT ![r] =
       IF allowed THEN [Passed(r) EXCEPT !.passed = IF k \in Remembered THEN [@ EXCEPT ![k] = 0] ELSE @]
       ELSE [Done(r, "refused", k) EXCEPT
               !.retry = IF k = "ai_daily" THEN 0 ELSE RetryAfter(k, tokens)]]
  /\ UNCHANGED <<throttle, cooldown, faultsLeft>>

-------------------------------------------------------------------------------
(* The throttle of sign-in attempts, and the cooldown.                     *)

(* Mutant: one attempt too many. *)
Check_OffByOne(r) ==
  /\ At(r, "check")
  /\ req' = [req EXCEPT ![r] =
       IF throttle.count > Threshold THEN Done(r, "refused", "throttle")
       ELSE [@ EXCEPT !.pc = IF req[r].call = "login" THEN "verify" ELSE "incr"]]
  /\ UNCHANGED <<bucket, throttle, cooldown, slip, faultsLeft>>

(* check: at the threshold an attempt is refused, with a delay.            *)
Check(r) ==
  LET count == throttle.count IN
  /\ At(r, "check")
  /\ req' = [req EXCEPT ![r] =
       IF count >= Threshold
       THEN [Done(r, "refused", "throttle") EXCEPT
               !.retry = Min({2 ^ (count - Threshold + 1), Window})]
       ELSE [@ EXCEPT !.pc = IF req[r].call = "login" THEN "verify" ELSE "incr"]]
  /\ UNCHANGED <<bucket, throttle, cooldown, slip, faultsLeft>>

(* AuthService.login raises, whatever the reason, or not.                  *)
Verify(r) ==
  /\ At(r, "verify")
  /\ \E next \in {"incr", "reset"} : req' = [req EXCEPT ![r].pc = next]
  /\ UNCHANGED <<bucket, throttle, cooldown, slip, faultsLeft>>

(* Mutant: no attempt is the first, which sets the time to live. *)
Incr_NeverFirst(r) ==
  /\ At(r, "incr")
  /\ throttle' = [throttle EXCEPT !.count = @ + 1, !.ttl = IF throttle.count = 0 THEN Forever ELSE @]
  /\ req' = [req EXCEPT ![r] = [Done(r, "ok", "none") EXCEPT !.nth = throttle.count + 1]]
  /\ UNCHANGED <<bucket, cooldown, slip, faultsLeft>>

(* record_failure: INCR, which makes a key that never expires ...          *)
Incr(r) ==
  LET new == throttle.count + 1 IN
  /\ At(r, "incr")
  /\ throttle' = [count |-> new, ttl |-> IF new = 1 THEN Forever ELSE throttle.ttl]
  /\ req' = [req EXCEPT ![r] = IF new = 1 THEN [@ EXCEPT !.pc = "expire", !.nth = new]
                               ELSE [Done(r, "ok", "none") EXCEPT !.nth = new]]
  /\ UNCHANGED <<bucket, cooldown, slip, faultsLeft>>

(* ... and, after the first, EXPIRE, which does nothing without a key.     *)
Expire(r) ==
  /\ At(r, "expire")
  /\ throttle' = [throttle EXCEPT !.ttl = IF throttle.count > 0 THEN Window ELSE @]
  /\ req' = [req EXCEPT ![r] = Done(r, "ok", "none")]
  /\ UNCHANGED <<bucket, cooldown, slip, faultsLeft>>

Reset(r) ==
  /\ At(r, "reset")
  /\ throttle' = [count |-> 0, ttl |-> 0]
  /\ req' = [req EXCEPT ![r] = Done(r, "ok", "none")]
  /\ UNCHANGED <<bucket, cooldown, slip, faultsLeft>>

(* check_resend_cooldown: SET NX EX.                                       *)
CheckResendCooldown(r) ==
  /\ At(r, "cooldown")
  /\ cooldown' = IF cooldown = 0 THEN Cooldown ELSE cooldown
  /\ req' = [req EXCEPT ![r] = IF cooldown = 0 THEN Done(r, "ok", "none")
                               ELSE [Done(r, "refused", "cooldown") EXCEPT !.retry = Cooldown]]
  /\ UNCHANGED <<bucket, throttle, slip, faultsLeft>>

(* A RedisError: the command is skipped and the request goes on.  After a  *)
(* failed EXPIRE the counter keeps its key without a time to live.         *)
CommandFails(r) ==
  /\ faultsLeft > 0
  /\ faultsLeft' = faultsLeft - 1
  /\ \/ At(r, "script") /\ req' = [req EXCEPT ![r] = Passed(r)]
     \/ /\ At(r, "check")
        /\ req' = [req EXCEPT ![r].pc = IF req[r].call = "login" THEN "verify" ELSE "incr",
                              ![r].open = TRUE]
     \/ At(r, "expire") /\ req' = [req EXCEPT ![r] = Done(r, "unexpired", "none")]
     \/ /\ \E pc \in {"incr", "reset", "cooldown"} : At(r, pc)
        /\ req' = [req EXCEPT ![r] = Done(r, "ok", "none")]
  /\ UNCHANGED <<bucket, throttle, cooldown, slip>>

-------------------------------------------------------------------------------
Older(age) == Min({age + 1, MaxAge})

Less(ttl) == IF ttl = 0 THEN 0 ELSE ttl - 1

(* Time passes; Redis drops the keys whose time to live is over.           *)
Tick ==
  /\ \A r \in Requests : At(r, "script") => req[r].lag < MaxLag
  /\ bucket' = [k \in Tiers |->
       IF bucket[k].ttl <= 1 THEN NoBucket
       ELSE [bucket[k] EXCEPT !.age = @ + 1, !.ttl = @ - 1]]
  /\ throttle' = IF throttle.ttl = 1 THEN [count |-> 0, ttl |-> 0]
                 ELSE [throttle EXCEPT !.ttl = IF @ = Forever THEN @ ELSE Less(@)]
  /\ cooldown' = Less(cooldown)
  /\ req' = [r \in Requests |->
       [req[r] EXCEPT !.lag = IF At(r, "script") THEN @ + 1 ELSE @,
                      !.ago = IF req[r].end = "refused" THEN Older(@) ELSE @,
                      !.passed = [k \in Remembered |-> IF @[k] \in {Forever, MaxAge} THEN Forever ELSE @[k] + 1]]]
  /\ UNCHANGED <<slip, faultsLeft>>

Step(r) ==
  \/ RunScript(r)
  \/ Check(r) \/ Verify(r) \/ Incr(r) \/ Expire(r) \/ Reset(r)
  \/ CheckResendCooldown(r)

Next ==
  \/ \E r \in Requests : \/ \E call \in Calls \ {"none"} : Call(r, call)
                         \/ Step(r)
                         \/ CommandFails(r)
  \/ Tick

Spec == Init /\ [][Next]_vars

-------------------------------------------------------------------------------
TypeOK ==
  /\ \A k \in Tiers : bucket[k] \in Bucket(k)
  /\ throttle \in Throttle
  /\ cooldown \in 0..Cooldown
  /\ \A r \in Requests : req[r] \in Request
  /\ slip \in [Remembered -> Nat]
  /\ faultsLeft \in 0..FaultBudget

(* However requests race, a tier admits in any interval at most a full     *)
(* bucket and what the bucket gains in it, in the lag of a clock, and in   *)
(* the time by which scripts run out of order have set its clock back.     *)
AdmissionsAreBounded ==
  \A k \in Remembered, interval \in 0..MaxAge :
    LET admitted == {r \in Requests : req[r].passed[k] # Forever /\ req[r].passed[k] <= interval}
    IN  Cardinality(admitted) * Period[k]
          <= Full(k) + (interval + MaxLag + slip[k]) * Capacity[k]

(* Who waits as long as the refusal said finds a token, if nobody else has *)
(* used the bucket.                                                        *)
RetryAfterIsEnough ==
  \A k \in Tiers \ {"ai_daily"}, r \in Requests :
    /\ req[r].by = k /\ req[r].ago >= req[r].retry /\ bucket[k].last = r
    => Refilled(k, 0) >= Period[k]

(* An attempt counted above the threshold overlapped with as many others   *)
(* as there are above it: attempts made one after the other stop there.    *)
ExcessOverlaps ==
  \A r \in Requests : req[r].nth > Threshold /\ ~req[r].open =>
    LET overlapping == {s \in Requests \ {r} : /\ req[s].nth > 0
                                               /\ r \notin req[s].prior /\ s \notin req[r].prior}
    IN  Cardinality(overlapping) >= req[r].nth - Threshold

(* "not a hard permanent lockout" (security.md 2.4): the counter lapses,   *)
(* unless the EXPIRE after the first attempt has been lost.                *)
CountersLapse ==
  throttle.ttl = Forever
    => \E r \in Requests : At(r, "expire") \/ req[r].end = "unexpired"
===============================================================================
